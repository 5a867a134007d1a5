---------------------------- MODULE TransportRouter ----------------------------
(***************************************************************************)
(* One stream in TRANSPORT_STREAM mode: the stream thread of               *)
(* StartTransportStreamThread, the TransportStreamRouter it creates on its *)
(* stack, the router's two threads and its TSBuffer, and the player.  The  *)
(* fetcher polls the playlist, cuts segments into packets and adds them to *)
(* the buffer; the router thread launches the player and sends packets.    *)
(*                                                                         *)
(* Each packet of a segment is the start of a frame.  Requests may fail.   *)
(* Every critical section of the buffer is one step; the atomics are       *)
(* accessed in steps of their own.                                         *)
(***************************************************************************)
EXTENDS Integers, Sequences, SequencesExt, FiniteSetsExt

CONSTANTS
  NSeg,             \* bound of the model: segments the server publishes
  PerSegment,       \* packets of a segment
  Flaky,            \* bound of the model: segments whose download may fail
  Window,           \* segments listed in one playlist
  Breaks,           \* segments that the playlist marks with a discontinuity
  MaxPackets,       \* max_packets_ of the buffer, 15000 and more in the code
  BufferPackets,    \* buffer_size_packets, 3000 .. 5400 in the code
  MaxSegments,      \* max_segments_to_buffer, 2 in the code
  Remember,         \* processed segments that are kept, 10 in the code
  PipeRoom,         \* packets the player's stdin pipe holds
  MaxFailures       \* max_consecutive_failures, 5 in the code

ASSUME TransportRouterAssumption ==
  /\ {NSeg, PerSegment, Remember} \subseteq Nat /\ PerSegment > 0
  /\ {Window, MaxSegments, PipeRoom, MaxFailures} \subseteq Nat \ {0}
  /\ Breaks \subseteq 1 .. NSeg /\ Flaky \subseteq 1 .. NSeg
  /\ MaxPackets \in Nat /\ BufferPackets \in Nat

VARIABLES
  published,        \* external: the segments the server has published
  live,             \* external: the playlist has no #EXT-X-ENDLIST yet
  player,           \* external: the player process
  unread,           \* packets in the player's stdin pipe
  buffer,           \* packet_queue_
  producerActive,   \* producer_active_
  routing,          \* routing_active_
  fetcher,          \* hls_fetcher_thread_
  processed,        \* processed_segments
  frames,           \* global_frame_counter_
  router,           \* ts_router_thread_
  lastFrame,        \* last_frame_number_
  framesDropped,    \* frames_dropped_ is not zero
  main,             \* stream thread
  cancel,           \* StreamTab::cancelToken
  autoStop,         \* the auto-stop message has been posted
  terminated,       \* std::terminate has been called
  delivered,        \* history: packets sent to the player
  dropped,          \* history: packets AddPacket removed to make room
  cleared,          \* history: packets removed for a discontinuity
  refetched         \* history: segments whose download failed

serverVars == <<published, live>>
playerVars == <<player, unread, delivered>>
bufferVars == <<buffer, producerActive, dropped, cleared>>
fetchVars == <<fetcher, processed, frames, refetched>>
frameVars == <<lastFrame, framesDropped>>
mainVars == <<main, autoStop, terminated>>
vars == <<serverVars, playerVars, bufferVars, routing, fetchVars, router,
          frameVars, mainVars, cancel>>

Segment == 1 .. NSeg
Packet == [segment : Segment, part : 1 .. PerSegment, frame : Nat]
NoPacket == [segment |-> 0, part |-> 0, frame |-> 0]

FetcherState ==
  [pc : {"none", "poll", "answer", "reset", "next", "room", "wait", "add", "signal",
         "ended"},
   todo : Seq(Segment), packets : Seq(Packet), restart : BOOLEAN,
   failures : 0 .. MaxFailures]
RouterState ==
  [pc : {"none", "launch", "check", "get", "idle", "compare", "store", "send",
         "cleanup", "ended"},
   packet : Packet \union {NoPacket}]

TypeOK ==
  /\ published \in 0 .. NSeg /\ live \in BOOLEAN
  /\ player \in {"none", "alive", "exited"} /\ unread \in 0 .. PipeRoom
  /\ buffer \in Seq(Packet)
  /\ producerActive \in BOOLEAN /\ routing \in BOOLEAN /\ framesDropped \in BOOLEAN
  /\ cancel \in BOOLEAN /\ autoStop \in BOOLEAN /\ terminated \in BOOLEAN
  /\ fetcher \in FetcherState
  /\ processed \in Seq(Segment) /\ frames \in Nat
  /\ router \in RouterState
  /\ lastFrame \in Nat
  /\ main \in {"start", "monitor", "destroy", "signal", "joinFetcher",
               "joinRouter", "notify", "done"}
  /\ delivered \in Seq(Packet) /\ refetched \subseteq Segment
  /\ dropped \subseteq Packet /\ cleared \subseteq Packet

Init ==
  /\ published = 0 /\ live = TRUE /\ player = "none" /\ unread = 0
  /\ buffer = << >> /\ producerActive = TRUE /\ routing = FALSE
  /\ fetcher = [pc |-> "none", todo |-> << >>, packets |-> << >>,
                restart |-> FALSE, failures |-> 0]
  /\ processed = << >> /\ frames = 0
  /\ router = [pc |-> "none", packet |-> NoPacket]
  /\ lastFrame = 0 /\ framesDropped = FALSE
  /\ main = "start" /\ cancel = FALSE /\ autoStop = FALSE
  /\ terminated = FALSE
  /\ delivered = << >> /\ dropped = {} /\ cleared = {} /\ refetched = {}

Over == ~routing \/ cancel                   \* what every loop looks at

-----------------------------------------------------------------------------
(* The stream thread.                                                      *)

MainAt(pc) == main = pc /\ ~terminated
MainGoes(from, to) == MainAt(from) /\ main' = to

\* The buffer is reset, the flag is set, and both threads are started.
StartRouting ==
  /\ MainGoes("start", "monitor")
  /\ routing' = TRUE /\ producerActive' = TRUE /\ buffer' = << >>
  /\ fetcher' = [fetcher EXCEPT !.pc = "poll"]
  /\ router' = [router EXCEPT !.pc = "launch"]
  /\ UNCHANGED <<serverVars, playerVars, dropped, cleared, processed, frames,
                 refetched, frameVars, autoStop, terminated, cancel>>

LeaveMonitor ==
  /\ MainGoes("monitor", "destroy") /\ Over
  /\ UNCHANGED <<serverVars, playerVars, bufferVars, routing, fetchVars, router,
                 frameVars, autoStop, terminated, cancel>>

\* ~TransportStreamRouter calls StopRouting, which returns at once when a thread
\* of the router has cleared the flag.  The std::thread members are then
\* destroyed joinable.
StopRouting ==
  /\ MainAt("destroy")
  /\ IF routing THEN main' = "signal" /\ routing' = FALSE /\ UNCHANGED terminated
                ELSE terminated' = TRUE /\ UNCHANGED <<main, routing>>
  /\ UNCHANGED <<serverVars, playerVars, bufferVars, fetchVars, router, frameVars,
                 autoStop, cancel>>

SignalEndOfStream ==
  /\ MainGoes("signal", "joinFetcher") /\ producerActive' = FALSE
  /\ UNCHANGED <<serverVars, playerVars, buffer, dropped, cleared, routing,
                 fetchVars, router, frameVars, autoStop, terminated,
                 cancel>>

JoinFetcher ==
  /\ MainGoes("joinFetcher", "joinRouter") /\ fetcher.pc = "ended"
  /\ UNCHANGED <<serverVars, playerVars, bufferVars, routing, fetchVars, router,
                 frameVars, autoStop, terminated, cancel>>

JoinRouterJoined == MainGoes("joinRouter", "notify") /\ router.pc = "ended"
JoinRouter ==
  /\ JoinRouterJoined
  /\ UNCHANGED <<serverVars, playerVars, bufferVars, routing, fetchVars, router,
                 frameVars, autoStop, terminated, cancel>>

\* A cancelled stream counts as stopped by the user.
Notify ==
  /\ MainGoes("notify", "done") /\ autoStop' = ~cancel
  /\ UNCHANGED <<serverVars, playerVars, bufferVars, routing, fetchVars, router,
                 frameVars, terminated, cancel>>

Main ==
  \/ StartRouting \/ LeaveMonitor \/ StopRouting
  \/ SignalEndOfStream \/ JoinFetcher \/ JoinRouter \/ Notify

-----------------------------------------------------------------------------
(* TSBuffer.                                                               *)

\* AddPacket in low-latency mode: a buffer that is half full loses a quarter of
\* its packets, ten at most.
Excess ==
  IF Len(buffer) >= MaxPackets \div 2 THEN Min({Len(buffer) \div 4, 10}) ELSE 0

AddPacket(p) ==
  /\ buffer' = Append(SubSeq(buffer, Excess + 1, Len(buffer)), p)
  /\ dropped' = dropped \union Range(SubSeq(buffer, 1, Excess))

-----------------------------------------------------------------------------
(* The fetcher thread.                                                     *)

FetchAt(pc) == fetcher.pc = pc /\ ~terminated
FetchKeeps == UNCHANGED <<serverVars, playerVars, router, mainVars, cancel>>
FetchLocal == FetchKeeps /\ UNCHANGED <<bufferVars, routing, frameVars>>

Ready == FetchAt("poll") /\ ~Over /\ fetcher.failures < MaxFailures

\* The loop ends; after too many failures routing ends too.
EndFetch ==
  /\ FetchAt("poll") /\ ~Ready
  /\ fetcher' = [fetcher EXCEPT !.pc = "signal"]
  /\ routing' = (routing /\ fetcher.failures < MaxFailures)
  /\ UNCHANGED <<bufferVars, processed, frames, refetched, frameVars>>
  /\ FetchKeeps

\* The playlist is requested; routing may end before the answer is looked at.
RequestPlaylist ==
  /\ Ready
  /\ fetcher' = [fetcher EXCEPT !.pc = "answer"]
  /\ UNCHANGED <<processed, frames, refetched>>
  /\ FetchLocal

PollFails ==
  /\ FetchAt("answer")
  /\ fetcher' = [fetcher EXCEPT !.pc = "poll", !.failures = @ + 1]
  /\ UNCHANGED <<processed, frames, refetched>>
  /\ FetchLocal

EndRouting == routing' = FALSE
PollEndList ==
  /\ FetchAt("answer") /\ ~live
  /\ EndRouting
  /\ fetcher' = [fetcher EXCEPT !.pc = "signal", !.failures = 0]
  /\ UNCHANGED <<bufferVars, processed, frames, refetched, frameVars>>
  /\ FetchKeeps

\* #EXTM3U with no segments, or a playlist that neither parser accepts.
PollEmpty ==
  /\ FetchAt("answer") /\ live
  /\ fetcher' = [fetcher EXCEPT !.pc = "poll", !.failures = 0]
  /\ UNCHANGED <<processed, frames, refetched>>
  /\ FetchLocal

ListedNewestFirst ==                         \* mutant: the list is turned round
  [i \in 1 .. Min({published, Window}) |-> published + 1 - i]
Listed == [i \in 1 .. Min({published, Window}) |->
             published - Min({published, Window}) + i]

Discontinuity == Range(Listed) \intersect Breaks # {}

\* No playlist so far could show a discontinuity.
Unbroken == Breaks \intersect 1 .. published = {}

PollSegments ==
  /\ FetchAt("answer") /\ live /\ published > 0 /\ ~Discontinuity
  /\ fetcher' = [fetcher EXCEPT !.pc = "next", !.failures = 0, !.todo = Listed]
  /\ UNCHANGED <<processed, frames, refetched>>
  /\ FetchLocal

\* A discontinuity anywhere in the list: clear the buffer, start counting frames
\* afresh, and go on with the newest segment only. A server may count those that
\* have left its list at the head of it, and that line reads as one in the list.
PollDiscontinuity ==
  /\ FetchAt("answer") /\ live /\ ~Unbroken
  /\ buffer' = << >> /\ cleared' = cleared \union Range(buffer)
  /\ frames' = 0
  /\ fetcher' = [fetcher EXCEPT !.pc = "reset", !.failures = 0, !.restart = TRUE,
                                !.todo = <<published>>]
  /\ UNCHANGED <<producerActive, dropped, routing, processed, refetched, frameVars>>
  /\ FetchKeeps

ResetFrameStatistics ==
  /\ FetchAt("reset")
  /\ lastFrame' = 0 /\ framesDropped' = FALSE
  /\ fetcher' = [fetcher EXCEPT !.pc = "next"]
  /\ UNCHANGED <<bufferVars, routing, processed, frames, refetched>>
  /\ FetchKeeps

EndOfList ==
  /\ FetchAt("next") /\ (Over \/ fetcher.todo = << >>)
  /\ fetcher' = [fetcher EXCEPT !.pc = "poll", !.todo = << >>, !.restart = FALSE]
  /\ UNCHANGED <<processed, frames, refetched>>
  /\ FetchLocal

At == Head(fetcher.todo)
Handling == FetchAt("next") /\ ~Over /\ fetcher.todo # << >>
Known == At \in Range(processed)
TooOld == Len(fetcher.todo) > MaxSegments
NextInList == [fetcher EXCEPT !.pc = "next", !.todo = Tail(@), !.packets = << >>]

SkipKnown ==
  /\ Handling /\ Known
  /\ fetcher' = NextInList
  /\ UNCHANGED <<processed, frames, refetched>>
  /\ FetchLocal

\* Skipped segments are remembered like the others, without the limit.
SkipOld ==
  /\ Handling /\ ~Known /\ TooOld
  /\ processed' = Append(processed, At)
  /\ fetcher' = NextInList
  /\ UNCHANGED <<frames, refetched>>
  /\ FetchLocal

\* A segment that is not downloaded, or in which no packet is found, is not
\* remembered: the next poll tries it again.
FetchFails ==
  /\ Handling /\ ~Known /\ ~TooOld /\ At \in Flaky
  /\ fetcher' = NextInList /\ refetched' = refetched \union {At}
  /\ UNCHANGED <<processed, frames>>
  /\ FetchLocal

PacketsOfAhead(s) ==                         \* mutant: frame numbers one too high
  [k \in 1 .. PerSegment |-> [segment |-> s, part |-> k, frame |-> frames + k + 1]]
PacketsOf(s) ==
  [k \in 1 .. PerSegment |-> [segment |-> s, part |-> k, frame |-> frames + k]]

FetchSegment ==
  /\ Handling /\ ~Known /\ ~TooOld
  /\ fetcher' = [fetcher EXCEPT !.pc = "room", !.packets = PacketsOf(At)]
  /\ frames' = frames + PerSegment
  /\ UNCHANGED <<processed, refetched>>
  /\ FetchLocal

RememberAtMost(limit) ==
  LET grown == Append(processed, At) IN
    processed' = IF Len(grown) > limit THEN Tail(grown) ELSE grown
RememberOne == RememberAtMost(1)             \* mutant: only the last one
RememberSegment == RememberAtMost(Remember)

\* Whether all its packets have been added or routing has ended.
EndSegment ==
  /\ FetchAt("room") /\ (Over \/ fetcher.packets = << >>)
  /\ RememberSegment
  /\ fetcher' = NextInList
  /\ UNCHANGED <<frames, refetched>>
  /\ FetchLocal

HighWatermarkIgnored == MaxPackets           \* mutant: no flow control
HighWatermark ==
  IF fetcher.restart THEN BufferPackets \div 8 ELSE (BufferPackets * 6) \div 10

MorePackets == FetchAt("room") /\ ~Over /\ fetcher.packets # << >>

FindRoom ==
  /\ MorePackets /\ Len(buffer) < HighWatermark
  /\ fetcher' = [fetcher EXCEPT !.pc = "add"]
  /\ UNCHANGED <<processed, frames, refetched>>
  /\ FetchLocal

FindFull ==
  /\ MorePackets /\ Len(buffer) >= HighWatermark
  /\ fetcher' = [fetcher EXCEPT !.pc = "wait"]
  /\ UNCHANGED <<processed, frames, refetched>>
  /\ FetchLocal

\* The end of routing ends the wait as well, and lets the packet through.
WaitOverWithRoom == Len(buffer) < HighWatermark      \* mutant: not the end of routing
WaitOver == Len(buffer) >= HighWatermark => Over
EndWait ==
  /\ FetchAt("wait") /\ WaitOver
  /\ fetcher' = [fetcher EXCEPT !.pc = "add"]
  /\ UNCHANGED <<processed, frames, refetched>>
  /\ FetchLocal

AddNext ==
  /\ FetchAt("add")
  /\ AddPacket(Head(fetcher.packets))
  /\ fetcher' = [fetcher EXCEPT !.pc = "room", !.packets = Tail(@)]
  /\ UNCHANGED <<producerActive, cleared, routing, processed, frames, refetched,
                 frameVars>>
  /\ FetchKeeps

EndOfFetch ==
  /\ FetchAt("signal") /\ producerActive' = FALSE
  /\ fetcher' = [fetcher EXCEPT !.pc = "ended"]
  /\ UNCHANGED <<buffer, dropped, cleared, routing, processed, frames, refetched,
                 frameVars>>
  /\ FetchKeeps

Fetcher ==
  \/ EndFetch \/ RequestPlaylist \/ PollFails \/ PollEndList \/ PollEmpty
  \/ PollSegments \/ PollDiscontinuity \/ ResetFrameStatistics \/ EndOfList \/ SkipKnown
  \/ SkipOld \/ FetchFails \/ FetchSegment \/ EndSegment \/ FindRoom
  \/ FindFull \/ EndWait \/ AddNext \/ EndOfFetch

-----------------------------------------------------------------------------
(* The router thread.                                                      *)

RouteAt(pc) == router.pc = pc /\ ~terminated
RouteGoes(from, to) == RouteAt(from) /\ router' = [router EXCEPT !.pc = to]
RouteKeeps == UNCHANGED <<serverVars, fetchVars, mainVars, producerActive, dropped,
                          cleared>>
RouteLocal == RouteKeeps /\ UNCHANGED <<playerVars, buffer, routing, frameVars, cancel>>

LaunchMediaPlayer ==
  /\ RouteGoes("launch", "check") /\ player' = "alive"
  /\ RouteKeeps /\ UNCHANGED <<unread, delivered, buffer, routing, frameVars, cancel>>

LaunchFails ==
  /\ RouteGoes("launch", "ended") /\ routing' = FALSE
  /\ RouteKeeps /\ UNCHANGED <<playerVars, buffer, frameVars, cancel>>

LeaveLoop == RouteGoes("check", "cleanup") /\ Over /\ RouteLocal

\* A player that has exited is reported through the cancel token of the tab.
PlayerGoneTold == cancel' = TRUE
PlayerGone ==
  /\ RouteGoes("check", "cleanup") /\ ~Over /\ player = "exited"
  /\ PlayerGoneTold
  /\ RouteKeeps /\ UNCHANGED <<playerVars, buffer, routing, frameVars>>

KeepRouting == RouteGoes("check", "get") /\ ~Over /\ player = "alive" /\ RouteLocal

GetNextPacket ==
  /\ RouteAt("get") /\ buffer # << >>
  /\ buffer' = Tail(buffer)
  /\ router' = [pc |-> "compare", packet |-> Head(buffer)]
  /\ RouteKeeps /\ UNCHANGED <<playerVars, routing, frameVars, cancel>>

\* The producer has ended, or the time is up.
GetNothing == RouteGoes("get", "idle") /\ buffer = << >> /\ RouteLocal

StreamEnded == ~producerActive /\ buffer = << >>

Idle ==
  /\ RouteGoes("idle", IF StreamEnded THEN "cleanup" ELSE "check") /\ RouteLocal

\* The number of the last frame is loaded here and stored in the next step; the
\* fetcher may reset it before, between and after.
CompareFrames ==
  /\ RouteGoes("compare", "store")
  /\ framesDropped' = (framesDropped \/ router.packet.frame > lastFrame + 1)
  /\ RouteKeeps /\ UNCHANGED <<playerVars, buffer, routing, lastFrame, cancel>>

StoreFrame ==
  /\ RouteGoes("store", "send") /\ lastFrame' = router.packet.frame
  /\ RouteKeeps /\ UNCHANGED <<playerVars, buffer, routing, framesDropped, cancel>>

\* WriteFile blocks while the pipe is full and the player lives.
SendTSPacket ==
  /\ RouteAt("send") /\ player = "alive" /\ unread < PipeRoom
  /\ unread' = unread + 1 /\ delivered' = Append(delivered, router.packet)
  /\ router' = [pc |-> "check", packet |-> NoPacket]
  /\ RouteKeeps /\ UNCHANGED <<player, buffer, routing, frameVars, cancel>>

SendFails == RouteGoes("send", "cleanup") /\ player = "exited" /\ RouteLocal

\* FlushFileBuffers waits until the player has read everything or has exited;
\* only after it is a player that stays terminated.
CleanUp ==
  /\ RouteGoes("cleanup", "ended") /\ (player = "exited" \/ unread = 0)
  /\ player' = "exited"
  /\ RouteKeeps /\ UNCHANGED <<unread, delivered, buffer, routing, frameVars, cancel>>

Router ==
  \/ LaunchMediaPlayer \/ LaunchFails \/ LeaveLoop \/ PlayerGone \/ KeepRouting
  \/ GetNextPacket \/ GetNothing \/ Idle \/ CompareFrames \/ StoreFrame
  \/ SendTSPacket \/ SendFails \/ CleanUp

-----------------------------------------------------------------------------
(* The user, the server and the player while the stream thread runs.  The  *)
(* playlist is not read again once the stream is over.                     *)

Running == main # "done" /\ ~terminated

UserStops ==
  /\ Running /\ ~cancel /\ cancel' = TRUE
  /\ UNCHANGED <<serverVars, playerVars, bufferVars, routing, fetchVars, router,
                 frameVars, mainVars>>

Server ==
  /\ Running /\ live /\ ~Over
  /\ \/ published < NSeg /\ published' = published + 1 /\ UNCHANGED live
     \/ live' = FALSE /\ UNCHANGED published
  /\ UNCHANGED <<playerVars, bufferVars, routing, fetchVars, router, frameVars,
                 mainVars, cancel>>

PlayerReads ==
  /\ Running /\ player = "alive" /\ unread > 0 /\ unread' = unread - 1
  /\ UNCHANGED <<serverVars, player, delivered, bufferVars, routing, fetchVars,
                 router, frameVars, mainVars, cancel>>

PlayerExits ==
  /\ Running /\ player = "alive" /\ player' = "exited"
  /\ UNCHANGED <<serverVars, unread, delivered, bufferVars, routing, fetchVars,
                 router, frameVars, mainVars, cancel>>

-----------------------------------------------------------------------------
Next == Main \/ Fetcher \/ Router \/ UserStops \/ Server \/ PlayerReads \/ PlayerExits

Spec == Init /\ [][Next]_vars

\* The threads are scheduled, and a player that runs reads on.
FairSpec ==
  Spec /\ WF_vars(Main) /\ WF_vars(Fetcher) /\ WF_vars(Router) /\ WF_vars(PlayerReads)

-----------------------------------------------------------------------------
(* Properties that hold.                                                   *)

\* Flow control keeps the buffer below the mark at which AddPacket throws
\* packets away: while the stream goes on, only a discontinuity loses packets,
\* although the size is read before the packet is added.
NoDropWhileRouting == [][dropped' = dropped \/ Over]_vars

\* The packets on their way to the player, in the order they will arrive; the
\* router thread keeps the one in hand when it cannot send it.
InHand == IF router.packet = NoPacket THEN << >> ELSE <<router.packet>>
Line == delivered \o InHand \o buffer \o fetcher.packets

Same(p, q) == p.segment = q.segment /\ p.part = q.part

\* As long as there is no discontinuity no packet is in line twice or again after
\* it was dropped, although the list of processed segments is cut while segments
\* of it are still in the playlist.
PacketsAreDistinct ==
  Unbroken =>
    /\ \A i, j \in DOMAIN Line : i # j => ~ Same(Line[i], Line[j])
    /\ \A p \in Range(Line), q \in dropped \union cleared : ~ Same(p, q)

\* Up to then packets reach the player in order, except that a segment whose
\* download once failed may come after newer ones.
OvertakesOnlyRefetched ==
  Unbroken =>
    \A i, j \in DOMAIN delivered :
      i < j => \/ delivered[i].segment < delivered[j].segment
               \/ delivered[i].segment = delivered[j].segment
                  /\ delivered[i].part < delivered[j].part
               \/ delivered[j].segment \in refetched

\* Up to then no frame is reported as dropped either: the numbers the fetcher
\* gives and the ones the router thread compares agree.
FramesAgree == Unbroken => ~framesDropped \/ dropped # {}

\* When the stream thread goes on to its end neither thread of the router runs:
\* both use the router object on its stack.
ThreadsJoined ==
  main \in {"notify", "done"} => fetcher.pc = "ended" /\ router.pc = "ended"

\* The router's state as a whole.
Sound == TypeOK /\ PacketsAreDistinct /\ ThreadsJoined

\* A cancel ends the stream thread, or the program; so does a player that the
\* router thread finds dead before it takes a packet, and the end of the fetcher.
StreamStops ==
  (cancel \/ (router.pc = "check" /\ player = "exited") \/ fetcher.pc = "ended")
    ~> (main = "done" \/ terminated)

-----------------------------------------------------------------------------
(* Inductive invariants.                                                   *)

\* How far the threads have come with each other.
Phases ==
  /\ main = "start" =>
       /\ fetcher.pc = "none" /\ router.pc = "none" /\ ~routing /\ ~framesDropped
       /\ buffer = << >> /\ delivered = << >> /\ frames = 0 /\ lastFrame = 0
  /\ main \in {"joinRouter", "notify", "done"} => fetcher.pc = "ended"
  /\ main \in {"notify", "done"} => router.pc = "ended"
  /\ main \in {"signal", "joinFetcher", "joinRouter", "notify", "done"} => ~routing

\* What the fetcher and the router thread have in hand.
InTurn ==
  /\ fetcher.pc \in {"wait", "add"} => fetcher.packets # << >>
  /\ fetcher.pc \notin {"room", "wait", "add"} => fetcher.packets = << >>
  /\ fetcher.pc \in {"room", "wait", "add"} => fetcher.todo # << >>
  /\ fetcher.pc \in {"none", "poll", "answer"} => fetcher.todo = << >>
  /\ fetcher.pc = "reset" => ~Unbroken
  /\ fetcher.pc = "answer" => fetcher.failures < MaxFailures
  /\ router.pc \in {"compare", "store", "send"} => router.packet # NoPacket
  /\ router.pc \in {"none", "launch", "check", "get", "idle"} => router.packet = NoPacket

\* The buffer has only become smaller since its size was read.
RoomToAdd == fetcher.pc = "add" => Over \/ Len(buffer) < HighWatermark

BaseInv == TypeOK /\ Phases /\ InTurn /\ RoomToAdd

\* The frames in line are numbered from one, and none is missing.
FramesInLine ==
  Unbroken /\ dropped = {} =>
    /\ \A i \in DOMAIN Line : Line[i].frame = i
    /\ Over \/ frames = Len(Line)
    /\ lastFrame = Len(delivered)
                    + (IF router.pc \in {"compare", "store"} THEN 0 ELSE Len(InHand))
    /\ ~framesDropped

\* The newest segment of the list at hand, or else of the next one.
Newest == IF fetcher.todo = << >> THEN published ELSE Last(fetcher.todo)

\* The list at hand or the next one may still take it up.
Recent(s) == s > Newest - MaxSegments

\* Older segments are in no list to come.
Oldest == Min({published - Window, Newest - Len(fetcher.todo)})

\* Segments before s that a list may still show and that are not remembered.
Missing(s) == {t \in Segment : Oldest < t /\ t < s /\ t \notin Range(processed)}

\* The list at hand runs on to the newest segment. What it has passed by is
\* remembered, but for one segment at most for each that could be taken up: the
\* one itself, which failed, or the one that was cut off when it was remembered.
Listing ==
  LET todo == fetcher.todo IN
    /\ Newest <= published
    /\ \A i \in DOMAIN todo : todo[i] = Newest - Len(todo) + i
    /\ todo # << >> =>
         /\ Cardinality(Missing(Head(todo)))
              <= (IF TooOld THEN 0 ELSE MaxSegments - Len(todo))
         /\ \A s \in Missing(Head(todo)) : Recent(s) => s \in refetched

\* Recent and newer segments that were remembered after the i-th one.
NearAfter(i) ==
  {processed[j] : j \in {k \in DOMAIN processed :
                           i < k /\ processed[k] > processed[i] - MaxSegments}}

\* A recent segment is not far from the end of the list of processed ones: only
\* what is downloaded near it moves it on, and lets one other segment be cut off
\* and skipped once more.
Remembered ==
  /\ \A i \in DOMAIN processed : processed[i] <= Newest
  /\ \A i, j \in DOMAIN processed : i # j => processed[i] # processed[j]
  /\ \A i \in DOMAIN processed : Recent(processed[i]) =>
       Len(processed) - i + Cardinality(Missing(processed[i]))
         <= MaxSegments + 2 * Cardinality(NearAfter(i))

Precedes(p, q) ==
  p.segment < q.segment \/ (p.segment = q.segment /\ p.part < q.part)

\* A packet in line comes before the next ones or is overtaken by a segment that
\* failed; a segment taken up is remembered as long as it is recent, and an older
\* one that is not has failed.
LineUp ==
  /\ \A i, j \in DOMAIN Line : i < j =>
       \/ Precedes(Line[i], Line[j])
       \/ Line[i].segment > Line[j].segment /\ Line[j].segment \in refetched
  /\ \A p \in Range(Line), q \in dropped : ~ Same(p, q)
  /\ cleared = {}
  /\ \A p \in Range(Line) \union dropped : Recent(p.segment) =>
       \/ p.segment \in Range(processed)
       \/ fetcher.pc \in {"room", "wait", "add"} /\ p.segment = At
  /\ \A p \in Range(Line) : \A s \in Missing(p.segment) : Recent(s) => s \in refetched
  /\ fetcher.pc \in {"room", "wait", "add"} => ~Known /\ ~TooOld

LineInv == BaseInv /\ (Unbroken => Listing /\ Remembered /\ LineUp)

-----------------------------------------------------------------------------
(* Statements of the code's comments that the code does not meet.          *)

\* A stream that ends by itself ends normally.
NotTerminated == ~terminated

\* After a discontinuity no false drop is reported.
NoFalseDrop == dropped = {} => ~framesDropped

\* When the stream has ended the router thread leaves its loop with an empty buffer.
DrainedAtEnd ==
  [][router.pc = "check" /\ router'.pc = "cleanup" /\ ~cancel' => buffer = << >>]_vars

\* A segment that was processed is not processed again.
SentOnce == \A i, j \in DOMAIN delivered : i # j => ~ Same(delivered[i], delivered[j])

\* A player that dies while a packet is sent to it ends the stream too.
SendFailureStops == player = "exited" ~> (main = "done" \/ terminated)
=============================================================================
