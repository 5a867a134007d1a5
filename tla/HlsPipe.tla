-------------------------------- MODULE HlsPipe --------------------------------
(***************************************************************************)
(* One stream in HLS mode: BufferAndPipeStreamToPlayer of stream_pipe.cpp  *)
(* with its two threads, and the stream thread that calls it.  The         *)
(* downloader polls the playlist and fills buffer_queue; the feeder takes  *)
(* segments out and writes them to the player's stdin pipe.                *)
(*                                                                         *)
(* The segments are 1 .. NSeg, in playlist order.  Any HTTP request may    *)
(* fail.  Time is abstracted: a timer that runs may have expired.  The     *)
(* feeder holds buffer_mutex during its emergency pause; every other       *)
(* critical section is one step, which waits for the end of that pause.    *)
(***************************************************************************)
EXTENDS Integers, Sequences, SequencesExt, FiniteSetsExt

CONSTANTS
  NSeg,             \* bound of the model: segments the server publishes
  Window,           \* segments listed in one playlist
  Targets,          \* values of dynamic_target_buffer, 10 .. 15 in the code
  MaxCap,           \* cap of dynamic_max_buffer, 30 in the code
  Few,              \* low-buffer floor and segments fed at once, 3 in the code
  PipeRoom,         \* segments the player's stdin pipe holds
  MaxErrors,        \* max_consecutive_errors, 15 in the code
  MaxAttempts,      \* max_write_attempts, 3 in the code
  MaxEmptyWaits     \* max_empty_waits, 100 in the code

ASSUME HlsPipeAssumption ==
  /\ NSeg \in Nat /\ Window \in Nat \ {0} /\ PipeRoom \in Nat \ {0}
  /\ Targets # {} /\ Targets \subseteq Nat \ {0}
  /\ MaxCap \in Nat \ {0} /\ Few \in Nat \ {0}
  /\ MaxErrors \in Nat \ {0} /\ MaxAttempts \in Nat \ {0}
  /\ MaxEmptyWaits \in Nat \ {0}

VARIABLES
  published,        \* external: the segments the server has published
  live,             \* external: the playlist has no #EXT-X-ENDLIST yet
  player,           \* external: the player process
  unread,           \* segments in the player's stdin pipe
  queue,            \* buffer_queue
  target,           \* dynamic_target_buffer
  urgent,           \* urgent_download_needed
  running,          \* download_running
  endedNormally,    \* stream_ended_normally
  downloader,       \* download_thread
  seen,             \* seen_urls
  feeder,           \* feeder_thread
  main,             \* stream thread
  counted,          \* what this stream adds to g_active_streams
  cancel,           \* StreamTab::cancelToken
  userStop,         \* StreamTab::userRequestedStop
  autoStop,         \* the auto-stop message has been posted
  delivered,        \* history: segments written to the player
  missed,           \* history: segments whose download failed
  cleared,          \* history: segments thrown away by the full-buffer timeout
  skipped           \* history: segments passed over because of a full buffer

serverVars == <<published, live>>
bufferVars == <<queue, urgent>>
downloadVars == <<target, endedNormally, downloader, seen, missed, cleared,
                  skipped>>
feedVars == <<feeder, unread, delivered>>
callVars == <<running, main, counted, autoStop>>
stopVars == <<cancel, userStop>>
vars == <<serverVars, player, bufferVars, downloadVars, feedVars, callVars,
          stopVars>>

Segment == 1 .. NSeg

DownloaderState ==
  [pc : {"none", "poll", "next", "decide", "push", "rest", "ended"},
   todo : SUBSET Segment, size : 0 .. NSeg, errors : 0 .. MaxErrors, timer : BOOLEAN]
FeederState ==
  [pc : {"none", "look", "take", "pause", "next", "write", "ended"},
   started : BOOLEAN, size : -Few .. NSeg, hand : Seq(Segment),
   attempts : 0 .. MaxAttempts, empties : 0 .. MaxEmptyWaits]

TypeOK ==
  /\ published \in 0 .. NSeg /\ live \in BOOLEAN
  /\ player \in {"none", "alive", "exited"} /\ unread \in 0 .. PipeRoom
  /\ queue \in Seq(Segment) /\ target \in Targets
  /\ {urgent, running, endedNormally, cancel, userStop, autoStop} \subseteq BOOLEAN
  /\ downloader \in DownloaderState /\ feeder \in FeederState
  /\ {seen, missed, cleared, skipped} \subseteq SUBSET Segment
  /\ main \in {"call", "check", "launch", "joinDownload", "joinFeeder",
               "cleanup", "result", "notify", "failed", "done"}
  /\ counted \in {0, 1} /\ delivered \in Seq(Segment)

Init ==
  /\ published = 0 /\ live = TRUE /\ player = "none" /\ unread = 0
  /\ queue = << >> /\ urgent = FALSE /\ running = TRUE /\ endedNormally = FALSE
  /\ target \in Targets
  /\ downloader = [pc |-> "none", todo |-> {}, size |-> 0,
                   errors |-> 0, timer |-> FALSE]
  /\ feeder = [pc |-> "none", started |-> FALSE, size |-> 0, hand |-> << >>,
               attempts |-> 0, empties |-> 0]
  /\ seen = {} /\ missed = {} /\ cleared = {} /\ skipped = {} /\ delivered = << >>
  /\ main = "call" /\ counted = 0
  /\ cancel = FALSE /\ userStop = FALSE /\ autoStop = FALSE

-----------------------------------------------------------------------------
(* The stream thread.                                                      *)

MainGoes(from, to) == main = from /\ main' = to

\* ++g_active_streams, and a delay when other streams are active.
EnterCall ==
  /\ MainGoes("call", "check") /\ counted' = 1
  /\ UNCHANGED <<serverVars, player, bufferVars, downloadVars, feedVars,
                 running, autoStop, stopVars>>

\* The token is looked at once before the master playlist is fetched; this
\* return does not lower the counter.
CheckCancel ==
  /\ MainGoes("check", IF cancel THEN "failed" ELSE "launch")
  /\ UNCHANGED <<serverVars, player, bufferVars, downloadVars, feedVars,
                 running, counted, autoStop, stopVars>>

\* No master playlist, no pipe, or no process.
LaunchFails ==
  /\ MainGoes("launch", "failed") /\ counted' = 0
  /\ UNCHANGED <<serverVars, player, bufferVars, downloadVars, feedVars,
                 running, autoStop, stopVars>>

Launch ==
  /\ MainGoes("launch", "joinDownload") /\ player' = "alive"
  /\ downloader' = [downloader EXCEPT !.pc = "poll"]
  /\ feeder' = [feeder EXCEPT !.pc = "look"]
  /\ UNCHANGED <<serverVars, bufferVars, target, endedNormally, seen, missed,
                 cleared, skipped, unread, delivered, running, counted, autoStop, stopVars>>

StopDownload == running' = FALSE
JoinDownloader ==
  /\ MainGoes("joinDownload", "joinFeeder") /\ downloader.pc = "ended"
  /\ StopDownload
  /\ UNCHANGED <<serverVars, player, bufferVars, downloadVars, feedVars, counted,
                 autoStop, stopVars>>

JoinFeederJoined == MainGoes("joinFeeder", "cleanup") /\ feeder.pc = "ended"
JoinFeeder ==
  /\ JoinFeederJoined
  /\ UNCHANGED <<serverVars, player, bufferVars, downloadVars, feedVars, running,
                 counted, autoStop, stopVars>>

\* The pipe is closed, the player terminated, its handles closed.
CleanUp ==
  /\ MainGoes("cleanup", "result") /\ player' = "exited" /\ counted' = 0
  /\ UNCHANGED <<serverVars, bufferVars, downloadVars, feedVars, running,
                 autoStop, stopVars>>

\* The last look at the process goes through a closed handle and the process
\* id: a process being terminated may still be reported as alive.
ReturnResult ==
  /\ main = "result"
  /\ \/ main' = "notify"
     \/ ~endedNormally /\ ~cancel /\ main' = "failed"
  /\ UNCHANGED <<serverVars, player, bufferVars, downloadVars, feedVars, running,
                 counted, autoStop, stopVars>>

\* A user's stop is logged; a stream that ended posts the auto-stop message.
Notify ==
  /\ MainGoes("notify", "done") /\ autoStop' = ~userStop
  /\ UNCHANGED <<serverVars, player, bufferVars, downloadVars, feedVars, running,
                 counted, stopVars>>

\* "Streaming failed or was interrupted.": no message is posted.
ReturnFailed ==
  /\ MainGoes("failed", "done")
  /\ UNCHANGED <<serverVars, player, bufferVars, downloadVars, feedVars, running,
                 counted, autoStop, stopVars>>

Main ==
  \/ EnterCall \/ CheckCancel \/ LaunchFails \/ Launch \/ JoinDownloader
  \/ JoinFeeder \/ CleanUp \/ ReturnResult \/ Notify \/ ReturnFailed

-----------------------------------------------------------------------------
(* The downloader.                                                         *)

MaxBuffer == Min({2 * target, MaxCap})
LowBuffer == Max({Few, target \div 3})
BufferFree == feeder.pc # "pause"            \* buffer_mutex can be taken

DownloadAt(pc) == downloader.pc = pc
DownloadKeeps ==                             \* what no step of the downloader changes
  UNCHANGED <<serverVars, player, feedVars, callVars, stopVars>>

\* Every test of the outer loop; a process that has died is not one of them.
EndDownload ==
  /\ DownloadAt("poll")
  /\ ~running \/ cancel \/ downloader.errors = MaxErrors
  /\ downloader' = [downloader EXCEPT !.pc = "ended"]
  /\ UNCHANGED <<bufferVars, target, endedNormally, seen, missed, cleared,
                 skipped>>
  /\ DownloadKeeps

Polling == DownloadAt("poll") /\ running /\ ~cancel /\ downloader.errors < MaxErrors

PollFails ==
  /\ Polling
  /\ downloader' = [downloader EXCEPT !.errors = @ + 1]
  /\ UNCHANGED <<bufferVars, target, endedNormally, seen, missed, cleared,
                 skipped>>
  /\ DownloadKeeps

\* #EXT-X-ENDLIST is looked for before the segments are.
PollEndList ==
  /\ Polling /\ ~live
  /\ downloader' = [downloader EXCEPT !.pc = "ended", !.errors = 0]
  /\ endedNormally' = TRUE
  /\ UNCHANGED <<bufferVars, target, seen, missed, cleared, skipped>>
  /\ DownloadKeeps

\* ValidatePlaylistMetadata refuses the playlist.
PollInvalid ==
  /\ Polling /\ live
  /\ downloader' = [downloader EXCEPT !.errors = 0]
  /\ UNCHANGED <<bufferVars, target, endedNormally, seen, missed, cleared,
                 skipped>>
  /\ DownloadKeeps

Listed == {s \in 1 .. published : s > published - Window}
UnseenKeepsAll == Listed       \* mutant: segments are not looked up in seen_urls
Unseen == Listed \ seen

\* The recommended buffer size is in a static variable that all streams share,
\* so the one this stream reads back may come from another stream's playlist.
PollSegments ==
  /\ Polling /\ live
  /\ target' \in Targets
  /\ downloader' = [downloader EXCEPT !.pc = "next", !.errors = 0, !.todo = Unseen]
  /\ UNCHANGED <<bufferVars, endedNormally, seen, missed, cleared, skipped>>
  /\ DownloadKeeps

Current == Min(downloader.todo)
Listing == downloader.todo # {} /\ running /\ ~cancel

EndOfList ==
  /\ DownloadAt("next") /\ ~Listing
  /\ downloader' = [downloader EXCEPT !.pc = "rest", !.todo = {}]
  /\ UNCHANGED <<bufferVars, target, endedNormally, seen, missed, cleared,
                 skipped>>
  /\ DownloadKeeps

\* The size of the buffer is read under the mutex and used after it.
ReadSize ==
  /\ DownloadAt("next") /\ Listing /\ BufferFree
  /\ downloader' = [downloader EXCEPT !.pc = "decide", !.size = Len(queue)]
  /\ UNCHANGED <<bufferVars, target, endedNormally, seen, missed, cleared,
                 skipped>>
  /\ DownloadKeeps

NextSegment ==
  [downloader EXCEPT !.pc = "next", !.todo = @ \ {Current}, !.size = 0]

FullNever == FALSE             \* mutant: no bound on the buffer
Full == downloader.size >= MaxBuffer /\ ~urgent

\* The timer of the full buffer is started, or has not expired.  Either way the
\* loop goes on with the next segment of the list.
WaitForRoom ==
  /\ DownloadAt("decide") /\ Full
  /\ downloader' = [NextSegment EXCEPT !.timer = TRUE]
  /\ skipped' = skipped \union {Current}
  /\ UNCHANGED <<bufferVars, target, endedNormally, seen, missed, cleared>>
  /\ DownloadKeeps

\* The buffer has been found full for 15 seconds: all of it is thrown away.
ClearBufferSwap == queue' = << >> /\ cleared' = cleared \union Range(queue)
ClearBuffer ==
  /\ DownloadAt("decide") /\ Full /\ downloader.timer /\ BufferFree
  /\ ClearBufferSwap
  /\ downloader' = [NextSegment EXCEPT !.timer = FALSE]
  /\ skipped' = skipped \union {Current}
  /\ UNCHANGED <<urgent, target, endedNormally, seen, missed>>
  /\ DownloadKeeps

\* The segment counts as seen before its download, whose three tries may fail.
TakeUp == DownloadAt("decide") /\ ~Full /\ seen' = seen \union {Current}

FetchSegment ==
  /\ TakeUp
  /\ downloader' = [downloader EXCEPT !.timer = FALSE, !.pc = "push", !.size = 0]
  /\ UNCHANGED <<bufferVars, target, endedNormally, missed, cleared, skipped>>
  /\ DownloadKeeps

FetchFailsUnseen ==            \* mutant: it is to be tried again next time
  /\ DownloadAt("decide") /\ ~Full
  /\ downloader' = [NextSegment EXCEPT !.timer = FALSE]
  /\ UNCHANGED <<bufferVars, target, endedNormally, seen, missed, cleared,
                 skipped>>
  /\ DownloadKeeps
FetchFails ==
  /\ TakeUp /\ missed' = missed \union {Current}
  /\ downloader' = [NextSegment EXCEPT !.timer = FALSE]
  /\ UNCHANGED <<bufferVars, target, endedNormally, cleared, skipped>>
  /\ DownloadKeeps

PushSegment ==
  /\ DownloadAt("push") /\ BufferFree
  /\ queue' = Append(queue, Current)
  /\ downloader' = NextSegment
  /\ UNCHANGED <<urgent, target, endedNormally, seen, missed, cleared,
                 skipped>>
  /\ DownloadKeeps

\* The end of a round over the list, and the pause before the next one.
Rest ==
  /\ DownloadAt("rest") /\ urgent' = FALSE
  /\ downloader' = [downloader EXCEPT !.pc = "poll"]
  /\ UNCHANGED <<queue, target, endedNormally, seen, missed, cleared,
                 skipped>>
  /\ DownloadKeeps

Downloader ==
  \/ EndDownload \/ PollFails \/ PollEndList \/ PollInvalid \/ PollSegments
  \/ EndOfList \/ ReadSize \/ WaitForRoom \/ ClearBuffer
  \/ FetchSegment \/ FetchFails \/ PushSegment \/ Rest

-----------------------------------------------------------------------------
(* The feeder.                                                             *)

FeedAt(pc) == feeder.pc = pc
FeedKeeps == UNCHANGED <<serverVars, downloadVars, callVars, stopVars>>

\* The queue is read without the mutex only when the downloader has been joined.
NothingToFeedAnyMore == ~running         \* mutant: what is buffered is forgotten
NothingToFeed == ~running /\ queue = << >>
FeedOverUncancelled == NothingToFeed     \* mutant
FeedOver == cancel \/ NothingToFeed

EndFeed ==
  /\ FeedAt("look") /\ FeedOver
  /\ feeder' = [feeder EXCEPT !.pc = "ended"]
  /\ UNCHANGED <<player, bufferVars, unread, delivered>>
  /\ FeedKeeps

EnoughNow == Len(queue) >= target        \* mutant: waits for a full buffer again
Enough == feeder.started \/ Len(queue) >= target

\* The wait for the initial buffer ends with a full one or with a cancel.
LookAtBuffer ==
  /\ FeedAt("look") /\ ~FeedOver
  /\ feeder' = IF Enough THEN [feeder EXCEPT !.started = TRUE, !.pc = "take",
                                             !.size = Len(queue)]
               ELSE feeder
  /\ UNCHANGED <<player, bufferVars, unread, delivered>>
  /\ FeedKeeps

\* Empty when last looked at: ask for a quick poll, and pause with the mutex held.
EmergencyPause ==
  /\ FeedAt("take") /\ feeder.size = 0
  /\ urgent' = TRUE
  /\ feeder' = [feeder EXCEPT !.pc = "pause"]
  /\ UNCHANGED <<player, queue, unread, delivered>>
  /\ FeedKeeps

EndPause ==
  /\ FeedAt("pause")
  /\ feeder' = [feeder EXCEPT !.pc = "look"]
  /\ UNCHANGED <<player, bufferVars, unread, delivered>>
  /\ FeedKeeps

\* How many segments to take; the number that is left is computed from the size
\* that was read before.
Take == Min({Len(queue), IF feeder.size < LowBuffer THEN Few ELSE 1})

TakeSegments ==
  /\ FeedAt("take") /\ feeder.size # 0 /\ Take > 0
  /\ queue' = SubSeq(queue, Take + 1, Len(queue))
  /\ feeder' = [feeder EXCEPT !.pc = "next", !.hand = SubSeq(queue, 1, Take),
                              !.size = @ - Take, !.attempts = 0]
  /\ UNCHANGED <<player, urgent, unread, delivered>>
  /\ FeedKeeps

\* The buffer was cleared after its size had been read.
FoundEmpty ==
  /\ FeedAt("take") /\ feeder.size # 0 /\ Take = 0
  /\ feeder' = [feeder EXCEPT !.empties = @ + 1, !.size = 0,
                  !.pc = IF feeder.empties + 1 = MaxEmptyWaits THEN "ended" ELSE "look"]
  /\ UNCHANGED <<player, bufferVars, unread, delivered>>
  /\ FeedKeeps

\* A cancel, or the last attempt having failed, drops the rest of the hand.
BeginWrite ==
  /\ FeedAt("next") /\ ~cancel
  /\ feeder' = [feeder EXCEPT !.pc = "write"]
  /\ UNCHANGED <<player, bufferVars, unread, delivered>>
  /\ FeedKeeps

GiveUpHand ==
  /\ FeedAt("next") /\ cancel
  /\ feeder' = [feeder EXCEPT !.pc = "ended"]
  /\ UNCHANGED <<player, bufferVars, unread, delivered>>
  /\ FeedKeeps

\* WriteFile on an anonymous pipe is synchronous: it returns when the player has
\* made room or has exited, and never with a timeout.  What the last write of a
\* hand leaves in feeder.size goes to chunk_count.
WriteSucceeds ==
  /\ FeedAt("write") /\ player = "alive" /\ unread < PipeRoom
  /\ unread' = unread + 1 /\ delivered' = Append(delivered, Head(feeder.hand))
  /\ feeder' = IF Len(feeder.hand) > 1
               THEN [feeder EXCEPT !.pc = "next", !.hand = Tail(@), !.attempts = 0]
               ELSE [feeder EXCEPT !.pc = "look", !.hand = << >>, !.attempts = 0,
                                   !.size = 0, !.empties = 0]
  /\ UNCHANGED <<player, bufferVars>>
  /\ FeedKeeps

\* No event for the overlapped structure: nothing has been written.
WriteFails ==
  /\ FeedAt("write") /\ player = "alive"
  /\ feeder' = [feeder EXCEPT !.attempts = @ + 1,
                  !.pc = IF feeder.attempts + 1 = MaxAttempts THEN "ended" ELSE "next"]
  /\ UNCHANGED <<player, bufferVars, unread, delivered>>
  /\ FeedKeeps

PipeBroken ==
  /\ FeedAt("write") /\ player = "exited"
  /\ feeder' = [feeder EXCEPT !.pc = "ended"]
  /\ UNCHANGED <<player, bufferVars, unread, delivered>>
  /\ FeedKeeps

Feeder ==
  \/ EndFeed \/ LookAtBuffer \/ EmergencyPause \/ EndPause \/ TakeSegments
  \/ FoundEmpty \/ BeginWrite \/ GiveUpHand
  \/ WriteSucceeds \/ WriteFails \/ PipeBroken

-----------------------------------------------------------------------------
(* The user, the server and the player.                                    *)

\* StopStream: the token first, the user's flag, if it was the user, after it.
UserStops ==
  /\ \/ ~cancel /\ cancel' = TRUE /\ UNCHANGED userStop
     \/ cancel /\ ~userStop /\ userStop' = TRUE /\ UNCHANGED cancel
  /\ UNCHANGED <<serverVars, player, bufferVars, downloadVars, feedVars, callVars>>

Server ==
  /\ live
  /\ \/ published < NSeg /\ published' = published + 1 /\ UNCHANGED live
     \/ live' = FALSE /\ UNCHANGED published
  /\ UNCHANGED <<player, bufferVars, downloadVars, feedVars, callVars, stopVars>>

PlayerReads ==
  /\ player = "alive" /\ unread > 0 /\ unread' = unread - 1
  /\ UNCHANGED <<serverVars, player, bufferVars, downloadVars, feeder, delivered,
                 callVars, stopVars>>

PlayerExits ==
  /\ player = "alive" /\ player' = "exited"
  /\ UNCHANGED <<serverVars, bufferVars, downloadVars, feedVars, callVars, stopVars>>

-----------------------------------------------------------------------------
Next ==
  Main \/ Downloader \/ Feeder \/ UserStops \/ Server \/ PlayerReads \/ PlayerExits

Spec == Init /\ [][Next]_vars

\* The three threads are scheduled, and a player that runs reads on.  Nothing is
\* assumed of the user, the server, the requests, or who gets the mutex.
FairSpec ==
  Spec /\ WF_vars(Main) /\ WF_vars(Downloader) /\ WF_vars(Feeder) /\ WF_vars(PlayerReads)

-----------------------------------------------------------------------------
(* Properties that hold.                                                   *)

One(p) == IF p THEN 1 ELSE 0

\* Every segment that was taken up is in exactly one place: it is on its way
\* into the buffer, waits in it, is in the feeder's hand, was delivered, was
\* cleared, or could not be downloaded.  None is delivered twice.
SegmentsConserved ==
  /\ seen = Range(queue) \union Range(feeder.hand) \union Range(delivered)
            \union missed \union cleared
            \union (IF downloader.pc = "push" THEN {Current} ELSE {})
  /\ Cardinality(seen) = Len(queue) + Len(feeder.hand) + Len(delivered)
       + Cardinality(missed) + Cardinality(cleared) + One(downloader.pc = "push")

\* Segments are delivered in playlist order, except that one which was passed
\* over because of a full buffer may be overtaken.
OvertakesOnlySkipped ==
  \A i, j \in DOMAIN delivered :
    i < j /\ delivered[i] > delivered[j] => delivered[j] \in skipped

\* A segment is pushed into a buffer that has reached its maximum only in an
\* urgent round, although the size, the maximum and the flag were looked at
\* before the download and other threads have moved on.
PushesBounded == [][Len(queue') > Len(queue) => Len(queue) < MaxBuffer \/ urgent]_vars

\* Once the threads have been joined, segments are left behind only for a
\* cancel, a player that exited, a write that failed for good, or the limit on
\* waits for data.
DrainedAtEnd ==
  main = "cleanup" /\ ~cancel /\ player = "alive"
    /\ feeder.attempts < MaxAttempts /\ feeder.empties < MaxEmptyWaits
    => queue = << >> /\ feeder.hand = << >>

\* The threads use locals of the function and the pipe: neither runs when the
\* pipe is closed and the function returns.
WorkersJoined ==
  main \in {"cleanup", "result", "notify", "failed", "done"} =>
    downloader.pc \in {"none", "ended"} /\ feeder.pc \in {"none", "ended"}

\* The stream's state as a whole.
Sound == TypeOK /\ WorkersJoined /\ SegmentsConserved

-----------------------------------------------------------------------------
(* An inductive invariant.                                                 *)

\* Everything that is on its way to the player, in the order it will arrive.
Line == delivered \o feeder.hand \o queue

\* How far the three threads have come with each other.
Phases ==
  /\ main \in {"call", "check", "launch"} =>
       player = "none" /\ downloader.pc = "none" /\ feeder.pc = "none"
  /\ main \in {"joinDownload", "joinFeeder", "cleanup"} => feeder.pc # "none"
  /\ main = "joinFeeder" => downloader.pc = "ended"
  /\ ~running => downloader.pc = "ended"

\* What the feeder has in hand, and why it ended.
FeedsInTurn ==
  /\ feeder.pc \in {"next", "write"} =>
       feeder.hand # << >> /\ feeder.attempts < MaxAttempts
  /\ feeder.pc \in {"none", "look", "take", "pause"} => feeder.hand = << >>
  /\ feeder.pc = "take" => feeder.size >= 0
  /\ feeder.pc # "ended" => feeder.empties < MaxEmptyWaits
  /\ feeder.pc = "ended" =>
       \/ cancel \/ player # "alive"
       \/ feeder.attempts = MaxAttempts \/ feeder.empties = MaxEmptyWaits
       \/ ~running /\ queue = << >> /\ feeder.hand = << >>

\* What is to be downloaded has not been seen, but for the segment at hand.
TodoUnseen ==
  /\ seen \union downloader.todo \subseteq 1 .. published
  /\ downloader.pc \in {"decide", "push"} => downloader.todo # {}
  /\ downloader.todo \intersect seen = IF downloader.pc = "push" THEN {Current} ELSE {}

\* The buffer has only become smaller since its size was read.
RoomToPush ==
  /\ downloader.pc = "decide" => Len(queue) <= downloader.size
  /\ downloader.pc = "push" => Len(queue) < MaxBuffer \/ urgent

\* No segment is in line twice; one that is overtaken had been passed over.
LineUp ==
  /\ \A i, j \in DOMAIN Line : i < j =>
       Line[i] # Line[j] /\ (Line[i] < Line[j] \/ Line[j] \in skipped)
  /\ Range(Line) \intersect (missed \union cleared) = {}
  /\ downloader.pc = "push" => Current \notin Range(Line) \union missed \union cleared

\* A segment that is still to come is later than all that were taken up, or was
\* passed over; one that is not to come has left the playlist.
PassedBy ==
  /\ \A s \in downloader.todo, q \in seen : s # q => q < s \/ s \in skipped
  /\ running /\ ~cancel =>
       \A q \in seen \union downloader.todo, s \in Segment :
         s < q /\ s \notin seen \union downloader.todo \union skipped
           => s <= published - Window

HlsInv ==
  /\ Sound /\ Phases /\ FeedsInTurn /\ TodoUnseen /\ RoomToPush /\ LineUp /\ PassedBy

-----------------------------------------------------------------------------
(* Liveness.                                                               *)

\* A cancel ends the stream thread, in whatever state its two threads are; so
\* does the end of the playlist, without help of the user, once a feeder has
\* started, which then plays out.
StreamStops == (cancel \/ (downloader.pc = "ended" /\ feeder.started)) ~> main = "done"

\* A buffered segment does not stay in the buffer once playing has started.
QueuedIsTaken ==
  \A s \in Segment :
    (feeder.started /\ s \in Range(queue))
      ~> (s \notin Range(queue) \/ feeder.pc = "ended")

-----------------------------------------------------------------------------
(* Statements of the code's comments that the code does not meet.          *)

\* A segment that has to wait for room is tried again before any later one.
InOrder ==
  \A i, j \in DOMAIN delivered : i < j => delivered[i] < delivered[j]

\* Every early exit gives the place in g_active_streams back.
CountAlwaysReturned == main = "done" => counted = 0

\* The feeder waits for data only for a limited time.
EmptyWaitsEnd == downloader.pc = "ended" ~> feeder.pc = "ended"

\* chunk_count is a number of segments in the buffer.
ChunkCountNatural == feeder.size >= 0

\* The exit of the player ends the stream.
PlayerExitEnds == player = "exited" ~> main = "done"
=============================================================================
