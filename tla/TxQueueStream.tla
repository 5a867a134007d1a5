----------------------------- MODULE TxQueueStream -----------------------------
(***************************************************************************)
(* One stream in TX_QUEUE_IPC mode, the program's default: the stream      *)
(* thread of StartStreamThread (the monitor), the producer and consumer    *)
(* threads of TxQueueStreamManager, the segment queue of TxQueueIPC, the   *)
(* player process behind its stdin pipe, and the user-interface thread     *)
(* that stops the stream.                                                  *)
(*                                                                         *)
(* The byte ring below the segment queue is module TxQueue.  What that     *)
(* module shows is used here: a committed write transaction is received    *)
(* whole and in order, an invalidated one not at all, so the queue is a    *)
(* sequence of segments and end markers, each taking HeaderBytes and its   *)
(* data of the Cap - 1 usable bytes.                                       *)
(*                                                                         *)
(* The server publishes segments 1 .. NSeg and lists the last Window of    *)
(* them.  Any HTTP request may fail; the player may be paused, resumed,    *)
(* close its end of the pipe or exit at any time.                          *)
(*                                                                         *)
(* With the setting "Verbose debug" on, AddDebugLog writes to the log list *)
(* of the main window.  From another thread that is a SendMessage, which   *)
(* the user-interface thread answers when it next takes messages: at once, *)
(* unless it is in StopStream.  A thread whose call it leaves unanswered,  *)
(* be it under way when the user presses Stop or made later, is in         *)
(* `logging'.  The setting may change at any time, so a thread may make    *)
(* its calls or not.  (log_callback posts its line and never waits.)       *)
(***************************************************************************)
EXTENDS Integers, Sequences, FiniteSetsExt, SequencesExt

CONSTANTS
  NSeg,             \* bound of the model: segments the server publishes
  Window,           \* segments listed in one playlist
  Cap,              \* queue_->capacity(), in bytes
  HeaderBytes,      \* bytes of a segment header in the queue
  SegBytes,         \* bytes of each segment's data
  PipeRoom,         \* segments the player's stdin pipe holds
  InitialBuffer,    \* initial_buffer_size, 8 in the code
  MaxErrors,        \* max_errors, 10 in the code
  Verbose           \* g_verboseDebug may be set

ASSUME TxQueueStreamAssumption ==
  /\ NSeg \in Nat /\ Window \in Nat \ {0}
  /\ Cap \in Nat \ {0} /\ HeaderBytes \in Nat \ {0}
  /\ SegBytes \in [1 .. NSeg -> Nat \ {0}]
  /\ PipeRoom \in Nat \ {0} /\ InitialBuffer \in Nat
  /\ MaxErrors \in Nat \ {0} /\ Verbose \in BOOLEAN

VARIABLES
  published,        \* external: the segments the server has published
  player,           \* external: the player process
  pipe,             \* segments in the player's stdin pipe
  queue,            \* committed and not yet released queue contents
  endOfStream,      \* end_of_stream_
  produced,         \* produced_count_
  consumed,         \* consumed_count_
  dropped,          \* dropped_count_
  producer,         \* producer thread
  consumer,         \* consumer thread
  seen,             \* seen_urls
  shouldStop,       \* should_stop_
  monitor,          \* stream thread
  cancel,           \* StreamTab::cancelToken
  userStop,         \* StreamTab::userRequestedStop
  autoStop,         \* the auto-stop message has been posted
  ui,               \* user-interface thread, in StopStream for this stream
  logging,          \* threads waiting in AddDebugLog
  delivered,        \* history: segments written to the player
  lost              \* history: segments whose write transaction did not fit

ipcVars == <<queue, endOfStream, produced, consumed, dropped, lost>>
playerVars == <<player, pipe, delivered>>
stopVars == <<shouldStop, cancel, userStop, autoStop, ui>>
streamVars == <<published, ipcVars, playerVars, producer, seen, consumer, monitor, stopVars>>
vars == <<streamVars, logging>>

Worker == {"producer", "consumer"}
Segment == 1 .. NSeg
Marker == 0                                  \* a segment with is_end_marker
NoItem == NSeg + 1                           \* nothing read yet

ProducerState ==
  [pc : {"none", "fetch", "next", "download", "count", "signal", "ended"},
   todo : SUBSET Segment, seg : Segment \union {Marker}, errors : 0 .. MaxErrors]
ConsumerState ==
  [pc : {"none", "loop", "read", "empty", "count", "write", "failed", "ended"},
   item : Segment \union {Marker, NoItem}, filled : BOOLEAN]

TypeOK ==
  /\ published \in 0 .. NSeg
  /\ player \in {"none", "playing", "paused", "closed", "dead"}
  /\ pipe \in 0 .. PipeRoom
  /\ queue \in Seq(Segment \union {Marker})
  /\ endOfStream \in BOOLEAN
  /\ produced \in 0 .. NSeg /\ consumed \in 0 .. NSeg + 1 /\ dropped \in 0 .. NSeg
  /\ producer \in ProducerState /\ consumer \in ConsumerState
  /\ seen \subseteq Segment
  /\ monitor \in {"init", "check", "report", "stop", "joinProducer", "joinConsumer",
                  "destroy", "notify", "post", "done"}
  /\ {shouldStop, cancel, userStop, autoStop} \subseteq BOOLEAN
  /\ ui \in {"watching", "flag", "join", "stopped"}
  /\ delivered \in Seq(Segment)
  /\ lost \subseteq Segment
  /\ logging \subseteq Worker \union {"monitor"}

Init ==
  /\ published = 0 /\ player = "none" /\ pipe = 0
  /\ queue = << >> /\ endOfStream = FALSE
  /\ produced = 0 /\ consumed = 0 /\ dropped = 0
  /\ producer = [pc |-> "none", todo |-> {}, seg |-> Marker, errors |-> 0]
  /\ consumer = [pc |-> "none", item |-> NoItem, filled |-> FALSE]
  /\ seen = {} /\ monitor = "init"
  /\ shouldStop = FALSE /\ cancel = FALSE /\ userStop = FALSE
  /\ autoStop = FALSE /\ ui = "watching"
  /\ delivered = << >> /\ lost = {}
  /\ logging = {}

Stopping == shouldStop \/ cancel             \* the test of every worker loop

-----------------------------------------------------------------------------
(* TxQueueIPC.                                                             *)

Bytes(item) == HeaderBytes + (IF item = Marker THEN 0 ELSE SegBytes[item])
RingBytes == FoldLeft(LAMBDA n, item : n + Bytes(item), 0, queue)
Fits(item) == RingBytes + Bytes(item) <= Cap - 1

\* WriteSegmentToQueue: the results of write() are ignored, so the call
\* reports success once the transaction object exists, whether or not its
\* destructor commits; and one always exists for a queue that is_ok().
WriteSegmentToQueue(item) ==
  queue' = IF Fits(item) THEN Append(queue, item) ELSE queue
WriteReturns == TRUE

\* IsQueueNearFull: a number of segments over a number of bytes.
IsQueueNearFull == ((produced - consumed) * 100) \div Cap > 90

-----------------------------------------------------------------------------
(* The producer thread.                                                    *)

\* Playlist download and parse: GetSegments minus the seen ones.
Listed == {s \in 1 .. published : s > published - Window}

FetchPlaylist ==
  /\ producer.pc = "fetch" /\ ~Stopping
  /\ producer' = [producer EXCEPT !.pc = "next", !.todo = Listed, !.errors = 0]
  /\ UNCHANGED <<published, ipcVars, playerVars, seen, consumer, monitor, stopVars>>

\* A playlist that does not parse: the request itself was no error.
ParseFails ==
  /\ producer.pc = "fetch" /\ ~Stopping
  /\ producer' = [producer EXCEPT !.errors = 0]
  /\ UNCHANGED <<published, ipcVars, playerVars, seen, consumer, monitor, stopVars>>

\* A failed download of the playlist.
FetchFails ==
  /\ producer.pc = "fetch" /\ ~Stopping
  /\ LET n == producer.errors + 1
     IN  producer' = [producer EXCEPT !.errors = n,
                        !.pc = IF n >= MaxErrors THEN "signal" ELSE "fetch"]
  /\ UNCHANGED <<published, ipcVars, playerVars, seen, consumer, monitor, stopVars>>

\* One turn of the loop over the playlist's segments, up to the download.
NextSegmentForgets ==          \* mutant: seen_urls is never added to
  /\ producer.pc = "next" /\ producer.todo # {} /\ ~Stopping
  /\ producer' = [producer EXCEPT !.todo = @ \ {Min(@)}, !.seg = Min(producer.todo),
                                  !.pc = "download"]
  /\ UNCHANGED <<published, ipcVars, playerVars, seen, consumer, monitor, stopVars>>
NextSegment ==
  /\ producer.pc = "next" /\ producer.todo # {} /\ ~Stopping
  /\ LET s == Min(producer.todo)
     IN  /\ seen' = seen \union {s}
         /\ producer' = [producer EXCEPT !.todo = @ \ {s}, !.seg = s,
              !.pc = IF s \in seen \/ IsQueueNearFull THEN "next" ELSE "download"]
  /\ UNCHANGED <<published, ipcVars, playerVars, consumer, monitor,
                 stopVars>>

\* The loop is over, or left because the stream is being stopped.
PlaylistDone ==
  /\ producer.pc = "next" /\ (producer.todo = {} \/ Stopping)
  /\ producer' = [producer EXCEPT !.pc = "fetch", !.todo = {}]
  /\ UNCHANGED <<published, ipcVars, playerVars, seen, consumer, monitor, stopVars>>

\* DownloadSegment succeeds and ProduceSegment writes its transaction.
ProduceSegment ==
  /\ producer.pc = "download"
  /\ WriteSegmentToQueue(producer.seg)
  /\ lost' = IF Fits(producer.seg) THEN lost ELSE lost \union {producer.seg}
  /\ producer' = [producer EXCEPT !.pc = "count"]
  /\ UNCHANGED <<published, endOfStream, produced, consumed, dropped,
                 playerVars, seen, consumer, monitor, stopVars>>

\* The end of ProduceSegment: the counters.
CountProduced ==
  /\ producer.pc = "count"
  /\ IF WriteReturns THEN produced' = produced + 1 /\ UNCHANGED dropped
                     ELSE dropped' = dropped + 1 /\ UNCHANGED produced
  /\ producer' = [producer EXCEPT !.pc = "next"]
  /\ UNCHANGED <<published, queue, endOfStream, consumed, lost, playerVars,
                 seen, consumer, monitor, stopVars>>

\* DownloadSegment gives up after its attempts, or because of a stop.
DownloadFails ==
  /\ producer.pc = "download"
  /\ producer' = [producer EXCEPT !.pc = "next"]
  /\ UNCHANGED <<published, ipcVars, playerVars, seen, consumer, monitor, stopVars>>

\* SignalEndOfStream: first the flag, then the marker.
RaiseEndOfStream ==
  /\ \/ producer.pc = "signal"
     \/ producer.pc = "fetch" /\ Stopping
  /\ ~endOfStream
  /\ endOfStream' = TRUE
  /\ producer' = [producer EXCEPT !.pc = "signal"]
  /\ UNCHANGED <<published, queue, produced, consumed, dropped, lost,
                 playerVars, seen, consumer, monitor, stopVars>>

QueueEndMarker ==
  /\ producer.pc = "signal" /\ endOfStream
  /\ WriteSegmentToQueue(Marker)
  /\ producer' = [producer EXCEPT !.pc = "ended"]
  /\ UNCHANGED <<published, endOfStream, produced, consumed, dropped, lost,
                 playerVars, seen, consumer, monitor, stopVars>>

ProducerStep ==
  \/ FetchPlaylist \/ ParseFails \/ FetchFails \/ NextSegment \/ PlaylistDone
  \/ ProduceSegment \/ CountProduced \/ DownloadFails
  \/ RaiseEndOfStream \/ QueueEndMarker

Producer == "producer" \notin logging /\ ProducerStep /\ UNCHANGED logging

-----------------------------------------------------------------------------
(* The consumer thread.                                                    *)

\* The loop head: the stop test, then the wait for the initial buffer.
ConsumerLoopUnstoppable ==     \* mutant: no stop test while buffering
  /\ consumer.pc = "loop"
  /\ IF Stopping /\ consumer.filled
     THEN consumer' = [consumer EXCEPT !.pc = "ended"]
     ELSE /\ consumer.filled \/ produced - consumed >= InitialBuffer
          /\ consumer' = [consumer EXCEPT !.pc = "read", !.filled = TRUE]
  /\ UNCHANGED <<published, ipcVars, playerVars, producer, seen, monitor, stopVars>>
ConsumerLoop ==
  /\ consumer.pc = "loop"
  /\ IF Stopping
     THEN consumer' = [consumer EXCEPT !.pc = "ended"]
     ELSE /\ consumer.filled \/ produced - consumed >= InitialBuffer
          /\ consumer' = [consumer EXCEPT !.pc = "read", !.filled = TRUE]
  /\ UNCHANGED <<published, ipcVars, playerVars, producer, seen, monitor, stopVars>>

\* ReadSegmentFromQueue, to the commit of its transaction.
ReadSegment ==
  /\ consumer.pc = "read"
  /\ IF queue = << >>
     THEN consumer' = [consumer EXCEPT !.pc = "empty"] /\ UNCHANGED queue
     ELSE /\ consumer' = [consumer EXCEPT !.pc = "count", !.item = Head(queue)]
          /\ queue' = Tail(queue)
  /\ UNCHANGED <<published, endOfStream, produced, consumed, dropped, lost,
                 playerVars, producer, seen, monitor, stopVars>>

\* Nothing to read: the stream has ended, or the consumer tries again.
CheckEndOfStream ==
  /\ consumer.pc = "empty"
  /\ consumer' = [consumer EXCEPT !.pc = IF endOfStream THEN "ended" ELSE "loop"]
  /\ UNCHANGED <<published, ipcVars, playerVars, producer, seen, monitor, stopVars>>

\* The end of ConsumeSegment, and the end-marker test.
CountConsumedTwice ==          \* mutant: the failed-write path counts again
  /\ consumer.pc = "count"
  /\ consumed' = consumed + (IF player = "closed" THEN 2 ELSE 1)
  /\ consumer' = [consumer EXCEPT
                    !.pc = IF consumer.item = Marker THEN "ended" ELSE "write"]
  /\ UNCHANGED <<published, queue, endOfStream, produced, dropped, lost,
                 playerVars, producer, seen, monitor, stopVars>>
CountConsumed ==
  /\ consumer.pc = "count"
  /\ consumed' = consumed + 1
  /\ consumer' = [consumer EXCEPT
                    !.pc = IF consumer.item = Marker THEN "ended" ELSE "write"]
  /\ UNCHANGED <<published, queue, endOfStream, produced, dropped, lost,
                 playerVars, producer, seen, monitor, stopVars>>

\* WriteToPlayer returns when the pipe has taken all the data; while the pipe
\* is full WriteFile blocks.
WriteToPlayer ==
  /\ consumer.pc = "write" /\ player \in {"playing", "paused"}
  /\ pipe < PipeRoom
  /\ pipe' = pipe + 1
  /\ delivered' = Append(delivered, consumer.item)
  /\ consumer' = [consumer EXCEPT !.pc = "loop"]
  /\ UNCHANGED <<published, ipcVars, player, producer, seen, monitor, stopVars>>

\* A broken pipe, noticed at once or while blocked.
WriteFails ==
  /\ consumer.pc = "write" /\ player \in {"closed", "dead"}
  /\ consumer' = [consumer EXCEPT !.pc = "failed"]
  /\ UNCHANGED <<published, ipcVars, playerVars, producer, seen, monitor, stopVars>>

CheckPlayerStuck ==            \* mutant: retries the write for ever
  /\ consumer.pc = "failed"
  /\ consumer' = [consumer EXCEPT !.pc = "write"]
  /\ UNCHANGED <<published, ipcVars, playerVars, producer, seen, monitor, stopVars>>
CheckPlayer ==
  /\ consumer.pc = "failed"
  /\ consumer' = [consumer EXCEPT !.pc = IF player = "dead" THEN "ended" ELSE "loop"]
  /\ UNCHANGED <<published, ipcVars, playerVars, producer, seen, monitor, stopVars>>

ConsumerStep ==
  \/ ConsumerLoop \/ ReadSegment \/ CheckEndOfStream \/ CountConsumed
  \/ WriteToPlayer \/ WriteFails \/ CheckPlayer

Consumer == "consumer" \notin logging /\ ConsumerStep /\ UNCHANGED logging

-----------------------------------------------------------------------------
(* The stream thread.                                                      *)

\* Initialize launches the player, StartStreaming both worker threads.
StartStreaming ==
  /\ monitor = "init"
  /\ player' = "playing"
  /\ producer' = [producer EXCEPT !.pc = "fetch"]
  /\ consumer' = [consumer EXCEPT !.pc = "loop"]
  /\ monitor' = "check"
  /\ UNCHANGED <<published, ipcVars, pipe, delivered, seen, stopVars>>

\* Initialize fails: the thread returns without the auto-stop message.
StartFails ==
  /\ monitor = "init"
  /\ monitor' = "done"
  /\ UNCHANGED <<published, ipcVars, playerVars, producer, seen, consumer, stopVars>>

\* The loop head: streaming_active_ stays set until StopStreaming clears it,
\* so only the cancel token ends the loop here.
MonitorLoop ==
  /\ monitor = "check"
  /\ monitor' = IF cancel THEN "stop" ELSE "report"
  /\ UNCHANGED <<published, ipcVars, playerVars, producer, seen, consumer, stopVars>>

\* GetStats reads the counters one after the other.
\* The statistics, and a look at the player.
ReportStats ==
  /\ monitor = "report"
  /\ monitor' = IF player = "dead" THEN "stop" ELSE "check"
  /\ UNCHANGED <<published, ipcVars, playerVars, producer, seen, consumer,
                 stopVars>>

\* StopStreaming: the flag, then one join after the other.
StopStreaming ==
  /\ monitor = "stop"
  /\ shouldStop' = TRUE
  /\ monitor' = "joinProducer"
  /\ UNCHANGED <<published, ipcVars, playerVars, producer, seen, consumer, cancel, userStop, autoStop, ui>>

JoinProducerOnly ==            \* mutant: the consumer is not joined
  /\ monitor = "joinProducer" /\ producer.pc = "ended"
  /\ "producer" \notin logging
  /\ monitor' = "destroy"
  /\ UNCHANGED <<published, ipcVars, playerVars, producer, seen, consumer, stopVars>>
JoinProducer ==
  /\ monitor = "joinProducer" /\ producer.pc = "ended"
  /\ "producer" \notin logging
  /\ monitor' = "joinConsumer"
  /\ UNCHANGED <<published, ipcVars, playerVars, producer, seen, consumer, stopVars>>

JoinConsumer ==
  /\ monitor = "joinConsumer" /\ consumer.pc = "ended"
  /\ "consumer" \notin logging
  /\ monitor' = "destroy"
  /\ UNCHANGED <<published, ipcVars, playerVars, producer, seen, consumer, stopVars>>

\* The manager is destroyed: Cleanup closes the pipe and ends the player.
DestroyManager ==
  /\ monitor = "destroy"
  /\ player' = "dead"
  /\ monitor' = "notify"
  /\ UNCHANGED <<published, ipcVars, pipe, delivered, producer, seen, consumer, stopVars>>

\* The user's flag is read; a line is logged before the message is posted.
NotifyWindow ==
  /\ monitor = "notify"
  /\ monitor' = IF userStop THEN "done" ELSE "post"
  /\ UNCHANGED <<published, ipcVars, playerVars, producer, seen, consumer, stopVars>>

PostAutoStop ==
  /\ monitor = "post"
  /\ autoStop' = TRUE
  /\ monitor' = "done"
  /\ UNCHANGED <<published, ipcVars, playerVars, producer, seen, consumer, shouldStop, cancel, userStop, ui>>

MonitorStep ==
  \/ StartStreaming \/ StartFails \/ MonitorLoop \/ ReportStats
  \/ StopStreaming \/ JoinProducer \/ JoinConsumer
  \/ DestroyManager \/ NotifyWindow \/ PostAutoStop

Monitor == "monitor" \notin logging /\ MonitorStep /\ UNCHANGED logging

-----------------------------------------------------------------------------
(* Verbose debug output.                                                   *)

\* Where the threads call AddDebugLog before their next step: at their start,
\* after a segment is produced or consumed, a read that finds nothing and a
\* failed write; the stream thread also after StopStreaming, after the end of the
\* manager and before the auto-stop message; the workers at their end.
AtAddDebugLog(thread) ==
  CASE thread = "producer" ->
         \/ producer.pc \in {"fetch", "next"}
         \/ producer.pc = "ended" /\ monitor \in {"check", "report", "stop", "joinProducer"}
    [] thread = "consumer" ->
         \/ consumer.pc \in {"loop", "empty", "write", "failed"}
         \/ consumer.pc = "ended" /\ monitor \in {"check", "report", "stop", "joinProducer",
                                                  "joinConsumer"}
    [] thread = "monitor" ->
         monitor \in {"init", "check", "destroy", "notify", "post"}

\* A line that the user-interface thread, in StopStream, does not take.
AddDebugLog(thread) ==
  /\ Verbose /\ ui = "join"
  /\ AtAddDebugLog(thread)
  /\ logging' = logging \union {thread}
  /\ UNCHANGED streamVars

-----------------------------------------------------------------------------
(* The user-interface thread: StopStream.                                  *)

\* The Stop button.
UserStops ==
  /\ ui = "watching"
  /\ cancel' = TRUE
  /\ ui' = "flag"
  /\ UNCHANGED <<published, ipcVars, playerVars, producer, seen, consumer,
                 monitor, shouldStop, userStop, autoStop>>

FlagUserStop ==
  /\ ui = "flag"
  /\ userStop' = TRUE
  /\ ui' = "join"
  /\ UNCHANGED <<published, ipcVars, playerVars, producer, seen, consumer,
                 monitor, shouldStop, cancel, autoStop>>

\* The auto-stop message.
AutoStopReceived ==
  /\ ui = "watching" /\ autoStop
  /\ cancel' = TRUE
  /\ ui' = "join"
  /\ UNCHANGED <<published, ipcVars, playerVars, producer, seen, consumer,
                 monitor, shouldStop, userStop, autoStop>>

JoinStreamThread ==
  /\ ui = "join" /\ monitor = "done" /\ "monitor" \notin logging
  /\ ui' = "stopped"
  /\ UNCHANGED <<published, ipcVars, playerVars, producer, seen, consumer,
                 monitor, shouldStop, cancel, userStop, autoStop>>

-----------------------------------------------------------------------------
(* The server and the player.                                              *)

Publish ==
  /\ published < NSeg
  /\ published' = published + 1
  /\ UNCHANGED <<ipcVars, playerVars, producer, seen, consumer, monitor, stopVars>>

PlayerReads ==
  /\ player = "playing" /\ pipe > 0
  /\ pipe' = pipe - 1
  /\ UNCHANGED <<published, ipcVars, player, delivered, producer, seen,
                 consumer, monitor, stopVars>>

PlayerChanges(from, to) ==
  /\ player \in from /\ player' = to
  /\ UNCHANGED <<published, ipcVars, pipe, delivered, producer, seen, consumer,
                 monitor, stopVars>>

Resume == PlayerChanges({"paused"}, "playing")

Player ==
  \/ PlayerReads \/ Resume
  \/ PlayerChanges({"playing"}, "paused")
  \/ PlayerChanges({"playing", "paused"}, "closed")
  \/ PlayerChanges({"playing", "paused", "closed"}, "dead")

-----------------------------------------------------------------------------
StopStream == FlagUserStop \/ AutoStopReceived \/ JoinStreamThread

UI == UserStops \/ StopStream

Next ==
  \/ Producer \/ Consumer \/ Monitor
  \/ \E thread \in Worker \union {"monitor"} : AddDebugLog(thread)
  \/ (UI \/ Publish \/ Player) /\ UNCHANGED logging

Spec == Init /\ [][Next]_vars

\* Every thread of the program that can run eventually runs; the user, the
\* server and the player need never do anything.
ThreadFairness ==
  /\ WF_vars(Producer) /\ WF_vars(Consumer) /\ WF_vars(Monitor)
  /\ WF_vars(StopStream /\ UNCHANGED logging)
FairSpec == Spec /\ ThreadFairness

\* And a player that is running keeps reading: it does not stay paused for
\* ever with a full pipe.
LivePlayerSpec == FairSpec /\ WF_vars(Resume /\ UNCHANGED logging)
                  /\ SF_vars(PlayerReads /\ UNCHANGED logging)

-----------------------------------------------------------------------------
(* Properties that hold.                                                   *)

\* Segments reach the player in playlist order and at most once, across failed
\* downloads, full queues, moving playlists and failed writes, and none after
\* the stream thread has returned.
Delivery == INSTANCE StreamDelivery WITH over <- monitor = "done"
ImplementsDelivery == Delivery!DeliverySpec

\* What module TabManager assumes of a stream thread: it leaves its loop only
\* for a cancel or an exited player, cleans up only when the consumer is not
\* stuck in a write, and posts auto-stop only at its end.
Stuck == player = "paused" /\ pipe = PipeRoom /\ consumer.pc = "write"
LifePhase ==
  CASE monitor = "init" -> "starting"
    [] monitor \in {"check", "report"} -> "running"
    [] monitor \in {"notify", "post", "done"} -> monitor
    [] OTHER -> "stopping"
LifePlayer ==
  CASE player = "none" -> "none"
    [] player = "dead" -> "exited"
    [] OTHER -> IF Stuck THEN "stuck" ELSE "alive"
Life == INSTANCE StreamLife WITH
  phase <- LifePhase, player <- LifePlayer, user <- userStop, posted <- autoStop
ImplementsLife == Life!LifeSpec

\* From the destruction of the manager on, neither worker runs any more: both
\* use its queue, its pipe and the tab's cancel token without holding them.
WorkersJoined ==
  monitor \in {"destroy", "notify", "post", "done"} =>
    /\ producer.pc \in {"none", "ended"} /\ consumer.pc \in {"none", "ended"}
    /\ logging \subseteq {"monitor"}

\* The counters of two threads, the queue and what was lost add up: each
\* segment that was written is waiting, was taken, or did not fit.  There is at
\* most one marker, and it is counted as consumed too.
One(p) == IF p THEN 1 ELSE 0
SegmentsConserved ==
  produced + One(producer.pc = "count") =
      Cardinality(lost)
    + Len(queue) - One(Marker \in Range(queue))
    + consumed + One(consumer.pc = "count") - One(consumer.item = Marker)

\* Nothing is queued behind the end marker, so a consumer that stops at the
\* marker leaves no segment behind.
MarkerIsLast ==
  /\ \A i \in 1 .. Len(queue) - 1 : queue[i] # Marker
  /\ consumer.item = Marker => queue = << >>

\* The stream's state as a whole.
Sound == TypeOK /\ WorkersJoined /\ SegmentsConserved /\ MarkerIsLast

-----------------------------------------------------------------------------
(* An inductive invariant.                                                 *)

\* How far the three threads have come with each other.
Phases ==
  /\ monitor = "init" =>
       producer.pc = "none" /\ consumer.pc = "none" /\ logging \subseteq {"monitor"}
  /\ monitor = "joinConsumer" => producer.pc = "ended" /\ "producer" \notin logging
  /\ ui # "watching" => cancel
  /\ producer.pc \in {"none", "fetch"} => producer.errors < MaxErrors
  /\ producer.pc \in {"next", "download", "count"} => producer.errors = 0
  /\ consumer.pc \in {"count", "write"} => consumer.item # NoItem
  /\ consumer.item = Marker => consumer.pc \in {"count", "ended"}
  /\ Marker \in Range(queue) \/ consumer.item = Marker => producer.pc = "ended"

\* What is delivered comes before what was taken last, and that before what is
\* queued.
Ordered ==
  /\ \A i, j \in DOMAIN delivered : i < j => delivered[i] < delivered[j]
  /\ \A i, j \in DOMAIN queue : i < j /\ queue[j] # Marker => queue[i] < queue[j]
  /\ consumer.item = NoItem => delivered = << >>
  /\ consumer.item \in Segment =>
       /\ \A i \in DOMAIN delivered : delivered[i] <= consumer.item
       /\ consumer.pc \in {"count", "write"} =>
            \A i \in DOMAIN delivered : delivered[i] < consumer.item
       /\ \A i \in DOMAIN queue : queue[i] # Marker => consumer.item < queue[i]

\* Everything on the way has been seen; a segment to be downloaded is the newest.
SeenFirst ==
  /\ seen \union producer.todo \subseteq 1 .. published
  /\ lost \subseteq seen /\ Range(queue) \subseteq seen \union {Marker}
  /\ consumer.item \in Segment => consumer.item \in seen
  /\ producer.pc = "download" =>
       /\ producer.seg \in seen /\ \A q \in seen : q <= producer.seg
       /\ producer.seg \notin lost \union Range(queue) \union {consumer.item}

\* A segment that was passed by has left the playlist for good, unless the
\* stream is being stopped.
PassedBy ==
  /\ \A s \in producer.todo \ seen, q \in seen : q < s
  /\ ~Stopping => \A q \in seen \union producer.todo, s \in Segment :
       s < q /\ s \notin seen \union producer.todo => s <= published - Window

CountsBounded ==
  produced + One(producer.pc \in {"download", "count"}) <= Cardinality(seen)

StreamInv ==
  /\ TypeOK /\ WorkersJoined /\ MarkerIsLast /\ SegmentsConserved
  /\ Phases /\ Ordered /\ SeenFirst /\ PassedBy /\ CountsBounded

-----------------------------------------------------------------------------
(* Liveness.                                                               *)

\* The user-interface thread waits for the stream thread, and a thread of the
\* stream, in AddDebugLog, for the user-interface thread.
Hung == ui = "join" /\ logging # {}

\* StopStream, called by the user, returns to the message loop.
StopReturns == ui = "flag" ~> ui = "stopped"

\* When the user stops the stream it is stopped, and when the player exits also
\* without the user; only a line of verbose debug output can prevent that.
StreamStops == (ui = "flag" \/ player = "dead") ~> (ui = "stopped" \/ Hung)

\* Once playback has started a queued segment does not stay queued, unless
\* the consumer has ended, or hangs with the user-interface thread.
QueuedIsTaken ==
  \A s \in Segment :
    (consumer.filled /\ s \in Range(queue))
      ~> (s \notin Range(queue) \/ consumer.pc = "ended" \/ Hung)

-----------------------------------------------------------------------------
(* Statements of the documentation that the code does not meet.            *)

\* A thread that logs never waits for the user-interface thread to do so.
NeverHung == ~Hung

\* A segment that the queue has no room for is counted as dropped.
LossesCounted == producer.pc # "count" => Cardinality(lost) = dropped

\* IsQueueNearFull holds when more than 90% of the queue is used.
NearFullSeen == (RingBytes * 100) \div Cap > 90 => IsQueueNearFull

\* The end of the stream ends the consumer.
EndReachesConsumer == endOfStream ~> consumer.pc = "ended"

\* A stream whose producer and consumer have ended is noticed and stopped.
StreamEndNoticed ==
  (producer.pc = "ended" /\ consumer.pc = "ended") ~> ui = "stopped"

\* A stream thread that has returned leaves no tab in the streaming state.
ThreadEndNoticed == monitor = "done" ~> ui = "stopped"

\* Once the user has pressed Stop the stream is not reported as ended by
\* itself, and no auto-stop message follows.
NoAutoStopAfterStop == [][autoStop' /\ ~autoStop => ui = "watching"]_vars
=============================================================================
