-------------------------- MODULE TransportRouterProofs --------------------------
(***************************************************************************)
(* Proofs about the TRANSPORT_STREAM mode, for every number of segments,   *)
(* every size of playlist, buffer and pipe and every limit on failures:    *)
(* the inductive invariants of TransportRouter and the safety properties   *)
(* that follow from them.                                                  *)
(***************************************************************************)
EXTENDS TransportRouter, DataLemmas, FiniteSetTheorems, SequenceTheorems, TLAPS

\* What the constants are, in the form the provers need.
LEMMA Constants ==
  /\ NSeg \in Nat /\ PerSegment \in Nat \ {0} /\ Window \in Nat \ {0} /\ Remember \in Nat
  /\ MaxSegments \in Nat \ {0} /\ PipeRoom \in Nat \ {0} /\ MaxFailures \in Nat \ {0}
  /\ MaxPackets \in Nat /\ BufferPackets \in Nat /\ Segment \subseteq Nat
  BY TransportRouterAssumption DEF Segment

\* No step makes a stream whole again that has shown a discontinuity.
LEMMA StaysBroken ==
  ASSUME published \in Int, published' \in Int, published <= published', Unbroken'
  PROVE  Unbroken
<1>1. \A s \in 1 .. published : s \in 1 .. published'  OBVIOUS
<1> QED  BY <1>1 DEF Unbroken

\* The list of a playlist: up to Window segments, the newest one at the end.
LEMMA ListedFacts ==
  ASSUME published \in 0 .. NSeg
  PROVE  /\ Listed \in Seq(Segment)
         /\ \E k \in 0 .. published :
              /\ Len(Listed) = k /\ DOMAIN Listed = 1 .. k
              /\ k <= Window /\ published - k <= (IF Window < published THEN published - Window ELSE 0)
              /\ published > 0 => k > 0
              /\ \A i \in 1 .. k : Listed[i] = published - k + i
         /\ Range(Listed) \subseteq 1 .. published
<1> DEFINE k == Min({published, Window})
<1>1. /\ k \in {published, Window} /\ k <= published /\ k <= Window
  <2>1. {published, Window} \subseteq Nat /\ {published, Window} # {}  BY Constants
  <2> QED  BY <2>1, MinProperties
<1>2. Listed = [i \in 1 .. k |-> published - k + i]  BY DEF Listed
<1> HIDE DEF k
<1>3. k \in 0 .. published /\ (published > 0 => k > 0)
      /\ published - k <= (IF Window < published THEN published - Window ELSE 0)
  BY <1>1, Constants
<1>4. \A i \in 1 .. k : published - k + i \in 1 .. published /\ published - k + i \in Segment
  BY <1>3, Constants DEF Segment
<1>5. Listed \in Seq(Segment) /\ Len(Listed) = k /\ DOMAIN Listed = 1 .. k
  <2>1. [i \in 1 .. k |-> published - k + i] \in [1 .. k -> Segment]  BY ONLY <1>4
  <2>2. k \in Nat  BY <1>3
  <2>3. Listed \in Seq(Segment)  BY <1>2, <2>1, <2>2, SeqDef
  <2> QED  BY <1>2, <2>1, <2>2, <2>3, LenProperties
<1>6. Range(Listed) \subseteq 1 .. published
  <2>1. Range(Listed) = {Listed[i] : i \in 1 .. k}  BY <1>5, RangeEquality
  <2> QED  BY <1>2, <1>4, <2>1
<1> QED  BY <1>1, <1>2, <1>3, <1>5, <1>6

\* The packets of a segment.
LEMMA PacketsFacts ==
  ASSUME NEW s \in Segment, frames \in Nat
  PROVE  /\ PacketsOf(s) \in Seq(Packet) /\ Len(PacketsOf(s)) = PerSegment
         /\ \A k \in 1 .. PerSegment :
              PacketsOf(s)[k] = [segment |-> s, part |-> k, frame |-> frames + k]
<1>1. PacketsOf(s) \in [1 .. PerSegment -> Packet] /\ PerSegment \in Nat
  BY Constants DEF PacketsOf, Packet
<1>2. PacketsOf(s) \in Seq(Packet)  BY <1>1, SeqDef
<1>3. Len(PacketsOf(s)) = PerSegment  BY <1>1, <1>2, LenProperties
<1> QED  BY <1>2, <1>3 DEF PacketsOf

\* How full the buffer may be when a packet is to be added.
LEMMA HighMark ==
  /\ HighWatermark \in Int
  /\ fetcher.restart \in BOOLEAN => HighWatermark <= (BufferPackets * 6) \div 10
<1> DEFINE b == BufferPackets
<1>1. b \in Nat  BY Constants
<1> HIDE DEF b
<1>2. b \div 8 \in Int /\ (b * 6) \div 10 \in Int /\ b \div 8 <= (b * 6) \div 10
  BY <1>1
<1> QED  BY <1>2 DEF HighWatermark, b

\* What AddPacket takes out of the buffer.
LEMMA ExcessFacts ==
  ASSUME buffer \in Seq(Packet)
  PROVE  /\ Len(buffer) \in Nat /\ Excess \in 0 .. Len(buffer)
         /\ MaxPackets \div 2 \in Int
         /\ Len(buffer) < MaxPackets \div 2 => Excess = 0
<1> DEFINE n == Len(buffer)
           h == MaxPackets \div 2
           x == Min({n \div 4, 10})
<1>1. n \in Nat  BY LenProperties
<1>2. h \in Int
  <2>1. MaxPackets \in Nat  BY Constants
  <2> QED  BY <2>1
<1>3. Excess = IF n >= h THEN x ELSE 0  BY DEF Excess
<1>4. n \div 4 \in Nat /\ n \div 4 <= n
  <2> HIDE DEF n
  <2> QED  BY <1>1
<1>5. x \in 0 .. n
  <2>1. x \in {n \div 4, 10} /\ x <= n \div 4
    <3>1. {n \div 4, 10} \subseteq Nat /\ {n \div 4, 10} # {}  BY <1>4
    <3> QED  BY <3>1, MinProperties
  <2> HIDE DEF x
  <2> QED  BY <1>1, <1>4, <2>1
<1> HIDE DEF n, h, x
<1>6. Excess \in 0 .. n /\ (n < h => Excess = 0)  BY <1>1, <1>2, <1>3, <1>5
<1> QED  BY <1>1, <1>2, <1>6 DEF n, h

-----------------------------------------------------------------------------
(* The base: types, phases, what the threads have in hand.                 *)

LEMMA MainBase ==
  ASSUME BaseInv, Main
  PROVE  BaseInv'
<1> USE DEF serverVars, playerVars, bufferVars, fetchVars, frameVars
<1>0. TypeOK /\ Phases /\ InTurn /\ RoomToAdd /\ fetcher \in FetcherState /\ router \in RouterState
  BY DEF BaseInv, TypeOK
<1>1. CASE StartRouting
  <2>1. /\ UNCHANGED <<published, live, player, unread, delivered, dropped, cleared, processed,
                       frames, refetched, lastFrame, framesDropped, autoStop, terminated, cancel>>
        /\ routing' = TRUE /\ producerActive' = TRUE /\ buffer' = << >>
        /\ main = "start" /\ main' = "monitor"
        /\ fetcher' = [fetcher EXCEPT !.pc = "poll"] /\ router' = [router EXCEPT !.pc = "launch"]
    BY <1>1 DEF StartRouting, MainGoes, MainAt
  <2>2. fetcher.pc = "none" /\ router.pc = "none"  BY <1>0, <2>1 DEF Phases
  <2>3. /\ fetcher' \in FetcherState /\ fetcher'.pc = "poll"
        /\ fetcher'.todo = fetcher.todo /\ fetcher'.packets = fetcher.packets
    BY <1>0, <2>1 DEF FetcherState
  <2>4. router' \in RouterState /\ router'.pc = "launch" /\ router'.packet = router.packet
    BY <1>0, <2>1 DEF RouterState
  <2>5. << >> \in Seq(Packet)  BY EmptySeq
  <2>6. TypeOK'  BY <1>0, <2>1, <2>3, <2>4, <2>5 DEF TypeOK
  <2>7. Phases'  BY <2>1 DEF Phases
  <2>8. InTurn'  BY <1>0, <2>2, <2>3, <2>4 DEF InTurn
  <2>9. RoomToAdd'  BY <2>3 DEF RoomToAdd
  <2> QED  BY <2>6, <2>7, <2>8, <2>9 DEF BaseInv
<1>2. CASE ~StartRouting
  <2>1. /\ UNCHANGED <<published, live, player, unread, delivered, buffer, dropped, cleared,
                       fetcher, processed, frames, refetched, router, lastFrame, framesDropped,
                       cancel>>
        /\ main # "start" /\ main' # "start"
        /\ main' \in {"destroy", "signal", "joinFetcher", "joinRouter", "notify", "done", main}
    BY <1>0, <1>2 DEF Main, LeaveMonitor, StopRouting, SignalEndOfStream, JoinFetcher, JoinRouter,
      JoinRouterJoined, Notify, MainGoes, MainAt
  <2>2. /\ routing' = routing \/ routing' = FALSE
        /\ producerActive' = producerActive \/ producerActive' = FALSE
        /\ autoStop' = autoStop \/ autoStop' = ~cancel
        /\ terminated' = terminated \/ terminated' = TRUE
    BY <1>2 DEF Main, LeaveMonitor, StopRouting, SignalEndOfStream, JoinFetcher, JoinRouter,
      JoinRouterJoined, Notify, MainGoes, MainAt
  <2>3. /\ routing' \in BOOLEAN /\ producerActive' \in BOOLEAN /\ autoStop' \in BOOLEAN
        /\ terminated' \in BOOLEAN
    BY <1>0, <2>2 DEF TypeOK
  <2>4. TypeOK'  BY <1>0, <2>1, <2>3 DEF TypeOK
  <2>5. Phases'
    BY <1>0, <1>2, <2>1, <2>2 DEF Phases, Main, LeaveMonitor, StopRouting, SignalEndOfStream,
      JoinFetcher, JoinRouter, JoinRouterJoined, Notify, MainGoes, MainAt
  <2>6. InTurn'  BY <1>0, <2>1 DEF InTurn, Unbroken
  <2>7. RoomToAdd'
    <3>1. HighWatermark' = HighWatermark  BY <2>1 DEF HighWatermark
    <3>2. Over => Over'  BY <2>1, <2>2 DEF Over
    <3> QED  BY <1>0, <2>1, <3>1, <3>2 DEF RoomToAdd
  <2> QED  BY <2>4, <2>5, <2>6, <2>7 DEF BaseInv
<1> QED  BY <1>1, <1>2

LEMMA OutsideBase ==
  ASSUME BaseInv, UserStops \/ Server \/ PlayerReads \/ PlayerExits
  PROVE  BaseInv'
<1> USE DEF serverVars, playerVars, bufferVars, fetchVars, frameVars, mainVars
<1>0. TypeOK /\ Phases /\ InTurn /\ RoomToAdd  BY DEF BaseInv
<1>1. /\ UNCHANGED <<delivered, bufferVars, routing, fetchVars, router, frameVars, mainVars>>
      /\ player' = player \/ player' = "exited"
      /\ cancel' = cancel \/ cancel' = TRUE
      /\ live' = live \/ live' = FALSE
      /\ published' = published \/ (published < NSeg /\ published' = published + 1)
      /\ unread' = unread \/ (unread > 0 /\ unread' = unread - 1)
  BY DEF UserStops, Server, PlayerReads, PlayerExits
<1>2. cancel' \in BOOLEAN /\ live' \in BOOLEAN
  BY <1>0, <1>1 DEF TypeOK
<1>3. published' \in 0 .. NSeg /\ published \in Int /\ published' \in Int /\ published <= published'
  BY <1>0, <1>1, Constants DEF TypeOK
<1>4. unread' \in 0 .. PipeRoom  BY <1>0, <1>1, Constants DEF TypeOK
<1>5. TypeOK'
  BY <1>0, <1>1, <1>2, <1>3, <1>4 DEF TypeOK
<1>6. Phases'  BY <1>0, <1>1 DEF Phases
<1>7. InTurn'  BY <1>0, <1>1, <1>3, StaysBroken DEF InTurn
<1>8. RoomToAdd'
  <2>1. HighWatermark' = HighWatermark  BY <1>1 DEF HighWatermark
  <2>2. Over => Over'  BY <1>1 DEF Over
  <2> QED  BY <1>0, <1>1, <2>1, <2>2 DEF RoomToAdd
<1> QED  BY <1>5, <1>6, <1>7, <1>8 DEF BaseInv

\* The router thread takes packets out of the buffer and adds none.
LEMMA RouterBase ==
  ASSUME BaseInv, Router
  PROVE  BaseInv'
<1> USE DEF serverVars, playerVars, fetchVars, frameVars, mainVars, RouteKeeps, RouteLocal,
            RouteGoes, RouteAt
<1>0. TypeOK /\ Phases /\ InTurn /\ RoomToAdd /\ router \in RouterState
      /\ buffer \in Seq(Packet) /\ delivered \in Seq(Packet) /\ Len(buffer) \in Nat
  BY LenProperties DEF BaseInv, TypeOK
<1>1. /\ UNCHANGED <<published, live, fetcher, processed, frames, refetched, main, autoStop,
                     terminated, producerActive, dropped, cleared>>
      /\ router.pc \notin {"none", "ended"}
  BY DEF Router, LaunchMediaPlayer, LaunchFails, LeaveLoop, PlayerGone, KeepRouting, GetNextPacket,
    GetNothing, Idle, CompareFrames, StoreFrame, SendTSPacket, SendFails, CleanUp
<1>2. /\ player' = player \/ player' \in {"alive", "exited"}
      /\ routing' = routing \/ routing' = FALSE
      /\ cancel' = cancel \/ cancel' = TRUE
  BY DEF Router, LaunchMediaPlayer, LaunchFails, LeaveLoop, PlayerGone, PlayerGoneTold, KeepRouting,
    GetNextPacket, GetNothing, Idle, CompareFrames, StoreFrame, SendTSPacket, SendFails, CleanUp
<1>3. routing' \in BOOLEAN /\ cancel' \in BOOLEAN /\ player' \in {"none", "alive", "exited"}
  BY <1>0, <1>2 DEF TypeOK
<1>4. main # "start"  BY <1>0, <1>1 DEF Phases
<1>5. (Over => Over') /\ HighWatermark' = HighWatermark  BY <1>1, <1>2 DEF Over, HighWatermark
<1>6. Phases'  BY <1>0, <1>1, <1>2, <1>4 DEF Phases
<1>7. CASE GetNextPacket
  <2>1. /\ buffer # << >> /\ buffer' = Tail(buffer)
        /\ router' = [pc |-> "compare", packet |-> Head(buffer)]
        /\ UNCHANGED <<player, unread, delivered, routing, lastFrame, framesDropped, cancel>>
    BY <1>7 DEF GetNextPacket
  <2>2. /\ Head(buffer) \in Packet /\ Tail(buffer) \in Seq(Packet)
        /\ Len(Tail(buffer)) = Len(buffer) - 1
    BY <1>0, <2>1, HeadTailProperties
  <2>3. router' \in RouterState /\ router'.pc = "compare" /\ router'.packet = Head(buffer)
    BY <2>1, <2>2 DEF RouterState
  <2>4. Head(buffer) # NoPacket  BY <2>2 DEF Packet, NoPacket, Segment
  <2>5. TypeOK'  BY <1>0, <1>1, <2>1, <2>2, <2>3 DEF TypeOK
  <2>6. InTurn'  BY <1>0, <1>1, <2>3, <2>4 DEF InTurn, Unbroken
  <2>7. RoomToAdd'
    <3>1. HighWatermark \in Int  BY HighMark
    <3>2. Len(buffer') < Len(buffer)  BY <1>0, <2>1, <2>2
    <3>3. Len(buffer') \in Int  BY <1>0, <2>1, <2>2
    <3> QED  BY <1>0, <1>1, <1>5, <3>1, <3>2, <3>3 DEF RoomToAdd
  <2> QED  BY <1>6, <2>5, <2>6, <2>7 DEF BaseInv
<1>8. CASE SendTSPacket
  <2>1. /\ router.pc = "send" /\ unread < PipeRoom /\ unread' = unread + 1
        /\ delivered' = Append(delivered, router.packet)
        /\ router' = [pc |-> "check", packet |-> NoPacket]
        /\ UNCHANGED <<player, buffer, routing, lastFrame, framesDropped, cancel>>
    BY <1>8 DEF SendTSPacket
  <2>2. router.packet \in Packet  BY <1>0, <2>1 DEF InTurn, RouterState
  <2>3. delivered' \in Seq(Packet)  BY <1>0, <2>1, <2>2, AppendProperties
  <2>4. router' \in RouterState /\ router'.pc = "check" /\ router'.packet = NoPacket
    BY <2>1 DEF RouterState
  <2>5. unread' \in 0 .. PipeRoom  BY <1>0, <2>1, Constants DEF TypeOK
  <2>6. TypeOK'  BY <1>0, <1>1, <2>1, <2>3, <2>4, <2>5 DEF TypeOK
  <2>7. InTurn'  BY <1>0, <1>1, <2>4 DEF InTurn, Unbroken
  <2>8. RoomToAdd'  BY <1>0, <1>1, <1>5, <2>1 DEF RoomToAdd
  <2> QED  BY <1>6, <2>6, <2>7, <2>8 DEF BaseInv
<1>9. CASE ~GetNextPacket /\ ~SendTSPacket
  <2>1. /\ UNCHANGED <<unread, delivered, buffer>>
        /\ router' = [router EXCEPT !.pc = router'.pc]
        /\ \/ router.pc \in {"launch", "check", "get", "idle"}
              /\ router'.pc \in {"check", "get", "idle", "cleanup", "ended"}
           \/ router.pc \in {"compare", "store", "send"}
              /\ router'.pc \in {"store", "send", "cleanup"}
           \/ router.pc = "cleanup" /\ router'.pc = "ended"
    BY <1>0, <1>9 DEF Router, LaunchMediaPlayer, LaunchFails, LeaveLoop, PlayerGone, KeepRouting,
      GetNothing, Idle, CompareFrames, StoreFrame, SendFails, CleanUp, RouterState
  <2>2. router' \in RouterState /\ router'.packet = router.packet
    BY <1>0, <2>1 DEF RouterState
  <2>3. lastFrame' \in Nat /\ framesDropped' \in BOOLEAN
    <3>1. CASE CompareFrames
      BY <1>0, <3>1 DEF TypeOK, CompareFrames
    <3>2. CASE StoreFrame
      <4>1. router.pc = "store" /\ lastFrame' = router.packet.frame /\ framesDropped' = framesDropped
        BY <3>2 DEF StoreFrame
      <4>2. router.packet \in Packet  BY <1>0, <4>1 DEF InTurn, RouterState
      <4> QED  BY <1>0, <4>1, <4>2 DEF TypeOK, Packet
    <3>3. CASE ~CompareFrames /\ ~StoreFrame
      BY <1>0, <1>9, <3>3 DEF Router, LaunchMediaPlayer, LaunchFails, LeaveLoop, PlayerGone,
        KeepRouting, GetNothing, Idle, SendFails, CleanUp, TypeOK
    <3> QED  BY <3>1, <3>2, <3>3
  <2>4. TypeOK'  BY <1>0, <1>1, <1>3, <2>1, <2>2, <2>3 DEF TypeOK
  <2>5. InTurn'  BY <1>0, <1>1, <2>1, <2>2 DEF InTurn, Unbroken
  <2>6. RoomToAdd'  BY <1>0, <1>1, <1>5, <2>1 DEF RoomToAdd
  <2> QED  BY <1>6, <2>4, <2>5, <2>6 DEF BaseInv
<1> QED  BY <1>7, <1>8, <1>9

\* What a step of the fetcher leaves alone, and what it may do to the flags.
LEMMA FetcherLeaves ==
  ASSUME BaseInv, Fetcher
  PROVE  /\ UNCHANGED <<published, live, player, unread, delivered, router, main, autoStop,
                        terminated, cancel>>
         /\ Unbroken' = Unbroken
         /\ fetcher.pc \notin {"none", "ended"} /\ main # "start"
         /\ routing' \in BOOLEAN /\ producerActive' \in BOOLEAN
         /\ (Over => Over') /\ (~routing => ~routing')
<1> USE DEF FetchKeeps, FetchLocal, FetchAt, serverVars, playerVars, bufferVars, frameVars, mainVars
<1>1. /\ UNCHANGED <<published, live, player, unread, delivered, router, main, autoStop,
                     terminated, cancel>>
      /\ fetcher.pc \notin {"none", "ended"}
  BY DEF Fetcher, EndFetch, RequestPlaylist, PollFails, PollEndList, PollEmpty, PollSegments,
    PollDiscontinuity, ResetFrameStatistics, EndOfList, SkipKnown, SkipOld, FetchFails, FetchSegment,
    EndSegment, FindRoom, FindFull, EndWait, AddNext, EndOfFetch, Handling, MorePackets, Ready
<1>2. /\ routing' = routing \/ routing' = FALSE \/ routing' = (routing /\ fetcher.failures < MaxFailures)
      /\ producerActive' = producerActive \/ producerActive' = FALSE
  BY DEF Fetcher, EndFetch, RequestPlaylist, PollFails, PollEndList, EndRouting, PollEmpty,
    PollSegments, PollDiscontinuity, ResetFrameStatistics, EndOfList, SkipKnown, SkipOld, FetchFails,
    FetchSegment, EndSegment, FindRoom, FindFull, EndWait, AddNext, EndOfFetch
<1>3. main # "start"  BY <1>1 DEF BaseInv, Phases
<1>4. Unbroken' = Unbroken  BY <1>1 DEF Unbroken
<1>5. routing \in BOOLEAN /\ producerActive \in BOOLEAN  BY DEF BaseInv, TypeOK
<1>6. routing' \in BOOLEAN /\ producerActive' \in BOOLEAN
  BY <1>2, <1>5
<1>7. ~routing => ~routing'  BY <1>2
<1> QED  BY <1>1, <1>3, <1>4, <1>6, <1>7 DEF Over

\* Steps after which the fetcher is somewhere else and nothing else has changed
\* for it, but for the number of failures.
LEMMA FetcherGoesBase ==
  ASSUME BaseInv,
         \/ EndFetch \/ RequestPlaylist \/ PollFails \/ PollEndList \/ PollEmpty
         \/ ResetFrameStatistics \/ FindRoom \/ FindFull \/ EndWait \/ EndOfFetch
  PROVE  /\ BaseInv'
         /\ UNCHANGED <<buffer, dropped, cleared, processed, frames, refetched>>
         /\ fetcher'.todo = fetcher.todo /\ fetcher'.packets = fetcher.packets
         /\ fetcher.pc \in {"room", "wait", "add"} <=> fetcher'.pc \in {"room", "wait", "add"}
<1> USE DEF FetchKeeps, FetchLocal, FetchAt, bufferVars, frameVars
<1>0. TypeOK /\ Phases /\ InTurn /\ RoomToAdd /\ fetcher \in FetcherState
  BY DEF BaseInv, TypeOK
<1>a. Fetcher  BY DEF Fetcher
<1>1. /\ UNCHANGED <<published, live, player, unread, delivered, router, main, autoStop,
                     terminated, cancel>>
      /\ Unbroken' = Unbroken
      /\ fetcher.pc \notin {"none", "ended"} /\ main # "start"
      /\ routing' \in BOOLEAN /\ producerActive' \in BOOLEAN
      /\ (Over => Over') /\ (~routing => ~routing')
  BY <1>a, FetcherLeaves
<1>2. UNCHANGED <<buffer, dropped, cleared, processed, frames, refetched>>
  BY DEF EndFetch, RequestPlaylist, PollFails, PollEndList, PollEmpty, ResetFrameStatistics,
    FindRoom, FindFull, EndWait, EndOfFetch
<1>3. lastFrame' \in Nat /\ framesDropped' \in BOOLEAN
  <2>1. CASE ResetFrameStatistics  BY <2>1 DEF ResetFrameStatistics
  <2>2. CASE ~ResetFrameStatistics
    <3>1. lastFrame' = lastFrame /\ framesDropped' = framesDropped
      BY <2>2 DEF EndFetch, RequestPlaylist, PollFails, PollEndList, PollEmpty,
        FindRoom, FindFull, EndWait, EndOfFetch
    <3> QED  BY <1>0, <3>1 DEF TypeOK
  <2> QED  BY <2>1, <2>2
<1>4. /\ fetcher' = [fetcher EXCEPT !.pc = fetcher'.pc, !.failures = fetcher'.failures]
      /\ \/ fetcher.pc \in {"poll", "answer"} /\ fetcher'.pc \in {"poll", "answer", "signal"}
         \/ fetcher.pc = "reset" /\ fetcher'.pc = "next"
         \/ fetcher.pc \in {"room", "wait"} /\ fetcher'.pc \in {"add", "wait"}
            /\ (fetcher.pc = "wait" \/ fetcher.packets # << >>)
         \/ fetcher.pc = "signal" /\ fetcher'.pc = "ended"
  BY <1>0 DEF EndFetch, RequestPlaylist, PollFails, PollEndList, PollEmpty, ResetFrameStatistics,
    FindRoom, FindFull, EndWait, EndOfFetch, FetcherState, Ready, MorePackets
<1>5. fetcher'.failures \in 0 .. MaxFailures
  <2>0. fetcher.failures \in 0 .. MaxFailures  BY <1>0 DEF FetcherState
  <2>1. CASE PollFails
    <3>1. fetcher' = [fetcher EXCEPT !.pc = "poll", !.failures = @ + 1]  BY <2>1 DEF PollFails
    <3>2. fetcher.failures < MaxFailures  BY <1>0, <2>1 DEF InTurn, PollFails
    <3>3. fetcher'.failures = fetcher.failures + 1  BY <1>0, <3>1 DEF FetcherState
    <3> QED  BY <2>0, <3>2, <3>3, Constants
  <2>2. CASE PollEndList \/ PollEmpty
    <3>1. fetcher'.failures = 0  BY <1>0, <2>2 DEF PollEndList, PollEmpty, FetcherState
    <3> QED  BY <3>1, Constants
  <2>3. CASE ~PollFails /\ ~PollEndList /\ ~PollEmpty
    <3>1. fetcher'.failures = fetcher.failures
      BY <1>0, <2>3 DEF EndFetch, RequestPlaylist, ResetFrameStatistics,
        FindRoom, FindFull, EndWait, EndOfFetch, FetcherState
    <3> QED  BY <2>0, <3>1
  <2> QED  BY <2>1, <2>2, <2>3
<1>6. /\ fetcher' \in FetcherState /\ fetcher'.todo = fetcher.todo
      /\ fetcher'.packets = fetcher.packets /\ fetcher'.restart = fetcher.restart
  BY <1>0, <1>4, <1>5 DEF FetcherState
<1>7. TypeOK'  BY <1>0, <1>1, <1>2, <1>3, <1>6 DEF TypeOK
<1>8. Phases'  BY <1>0, <1>1, <1>4 DEF Phases
<1>9. InTurn'
  <2>1. ASSUME fetcher'.pc = "answer" PROVE fetcher'.failures < MaxFailures
    <3>1. RequestPlaylist
      BY <1>0, <2>1 DEF EndFetch, PollFails, PollEndList, PollEmpty, ResetFrameStatistics,
        FindRoom, FindFull, EndWait, EndOfFetch, FetcherState
    <3> QED  BY <1>0, <3>1 DEF RequestPlaylist, Ready, FetcherState
  <2> QED  BY <1>0, <1>1, <1>4, <1>6, <2>1 DEF InTurn
<1>10. RoomToAdd'
  <2>1. HighWatermark' = HighWatermark  BY <1>6 DEF HighWatermark
  <2>2. CASE fetcher'.pc = "add"
    <3>1. CASE FindRoom  BY <1>2, <2>1, <3>1 DEF FindRoom, RoomToAdd
    <3>2. CASE EndWait
      <4>1. Len(buffer) \in Int  BY <1>0, LenProperties DEF TypeOK
      <4> QED  BY <1>1, <1>2, <2>1, <3>2, <4>1, HighMark DEF EndWait, WaitOver, RoomToAdd
    <3>3. CASE ~FindRoom /\ ~EndWait
      <4>1. fetcher'.pc # "add"
        BY <1>0, <3>3 DEF EndFetch, RequestPlaylist, PollFails, PollEndList, PollEmpty,
          ResetFrameStatistics, FindFull, EndOfFetch, FetcherState
      <4> QED  BY <2>2, <4>1
    <3> QED  BY <3>1, <3>2, <3>3
  <2>3. CASE fetcher'.pc # "add"  BY <2>3 DEF RoomToAdd
  <2> QED  BY <2>2, <2>3
<1> QED  BY <1>2, <1>4, <1>6, <1>7, <1>8, <1>9, <1>10 DEF BaseInv

\* The polls that bring a list.
LEMMA PollBase ==
  ASSUME BaseInv, PollSegments \/ PollDiscontinuity
  PROVE  /\ BaseInv' /\ fetcher'.packets = << >> /\ fetcher.todo = << >>
         /\ UNCHANGED <<published, processed, refetched>>
         /\ fetcher'.pc \in {"next", "reset"}
         /\ PollDiscontinuity => ~Unbroken
<1> USE DEF FetchKeeps, FetchLocal, FetchAt, bufferVars, frameVars
<1>0. TypeOK /\ Phases /\ InTurn /\ RoomToAdd /\ fetcher \in FetcherState /\ buffer \in Seq(Packet)
  BY DEF BaseInv, TypeOK
<1>a. Fetcher  BY DEF Fetcher
<1>1. /\ UNCHANGED <<published, live, player, unread, delivered, router, main, autoStop,
                     terminated, cancel>>
      /\ Unbroken' = Unbroken
      /\ fetcher.pc \notin {"none", "ended"} /\ main # "start"
      /\ routing' \in BOOLEAN /\ producerActive' \in BOOLEAN
      /\ (Over => Over') /\ (~routing => ~routing')
  BY <1>a, FetcherLeaves
<1>2. /\ fetcher.pc = "answer" /\ fetcher.todo = << >> /\ fetcher.packets = << >>
      /\ UNCHANGED <<dropped, processed, refetched, lastFrame, framesDropped>>
  BY <1>0 DEF PollSegments, PollDiscontinuity, InTurn
<1>3. frames' \in Nat /\ buffer' \in Seq(Packet) /\ cleared' \subseteq Packet
  <2>1. CASE PollSegments  BY <1>0, <2>1 DEF PollSegments, TypeOK
  <2>2. CASE PollDiscontinuity
    <3>1. << >> \in Seq(Packet)  BY EmptySeq
    <3>2. Range(buffer) \subseteq Packet
      <4>1. Range(buffer) = {buffer[i] : i \in 1 .. Len(buffer)}  BY <1>0, RangeEquality
      <4>2. \A i \in 1 .. Len(buffer) : buffer[i] \in Packet  BY <1>0, ElementOfSeq
      <4> QED  BY <4>1, <4>2
    <3> QED  BY <1>0, <2>2, <3>1, <3>2 DEF PollDiscontinuity, TypeOK
  <2> QED  BY <2>1, <2>2
<1>4. PollDiscontinuity => ~Unbroken  BY DEF PollDiscontinuity
<1>5. fetcher' \in FetcherState /\ fetcher'.packets = << >> /\ fetcher'.pc \in {"next", "reset"}
      /\ (fetcher'.pc = "reset" => PollDiscontinuity)
  <2>0. 0 \in 0 .. MaxFailures  BY Constants
  <2>1. CASE PollSegments
    <3>1. Listed \in Seq(Segment)  BY <1>0, ListedFacts DEF TypeOK
    <3>2. fetcher' = [fetcher EXCEPT !.pc = "next", !.failures = 0, !.todo = Listed]
      BY <2>1 DEF PollSegments
    <3> QED  BY <1>0, <1>2, <2>0, <3>1, <3>2 DEF FetcherState
  <2>2. CASE PollDiscontinuity
    <3>1. published \in Segment
      <4>1. published \in 0 .. NSeg /\ published # 0
        <5>1. published \in 0 .. NSeg  BY <1>0 DEF TypeOK
        <5>2. ~Unbroken  BY <1>4, <2>2
        <5>3. 1 .. published # {}  BY <5>2 DEF Unbroken
        <5> QED  BY <5>1, <5>3
      <4> QED  BY <4>1, Constants DEF Segment
    <3>2. <<published>> \in Seq(Segment)  BY <3>1
    <3>3. fetcher' = [fetcher EXCEPT !.pc = "reset", !.failures = 0, !.restart = TRUE,
                                     !.todo = <<published>>]
      BY <2>2 DEF PollDiscontinuity
    <3> QED  BY <1>0, <1>2, <2>0, <2>2, <3>2, <3>3 DEF FetcherState
  <2> QED  BY <2>1, <2>2
<1>6. TypeOK'  BY <1>0, <1>1, <1>2, <1>3, <1>5 DEF TypeOK
<1>7. Phases'  BY <1>0, <1>1, <1>5 DEF Phases
<1>8. InTurn'  BY <1>0, <1>1, <1>4, <1>5 DEF InTurn
<1>9. RoomToAdd'  BY <1>5 DEF RoomToAdd
<1> QED  BY <1>1, <1>2, <1>4, <1>5, <1>6, <1>7, <1>8, <1>9 DEF BaseInv

\* The steps that go on to the next segment of the list, or leave the list.
LEMMA NextBase ==
  ASSUME BaseInv, EndOfList \/ SkipKnown \/ SkipOld \/ FetchFails \/ EndSegment
  PROVE  /\ BaseInv'
         /\ fetcher'.packets = << >> /\ fetcher'.pc \in {"next", "poll"}
         /\ UNCHANGED <<published, buffer, dropped, cleared, frames, lastFrame, framesDropped,
                        delivered, router, routing, cancel>>
         /\ IF EndOfList THEN fetcher'.todo = << >> /\ fetcher'.pc = "poll"
            ELSE /\ fetcher.todo # << >> /\ fetcher'.todo = Tail(fetcher.todo)
                 /\ fetcher'.pc = "next"
<1> USE DEF FetchKeeps, FetchLocal, FetchAt, bufferVars, frameVars
<1>0. TypeOK /\ Phases /\ InTurn /\ RoomToAdd /\ fetcher \in FetcherState
      /\ fetcher.todo \in Seq(Segment) /\ processed \in Seq(Segment)
  BY DEF BaseInv, TypeOK, FetcherState
<1>a. Fetcher  BY DEF Fetcher
<1>1. /\ UNCHANGED <<published, live, player, unread, delivered, router, main, autoStop,
                     terminated, cancel>>
      /\ Unbroken' = Unbroken
      /\ fetcher.pc \notin {"none", "ended"} /\ main # "start"
      /\ routing' \in BOOLEAN /\ producerActive' \in BOOLEAN
      /\ (Over => Over') /\ (~routing => ~routing')
  BY <1>a, FetcherLeaves
<1>2. UNCHANGED <<buffer, dropped, cleared, frames, lastFrame, framesDropped, routing>>
  BY DEF EndOfList, SkipKnown, SkipOld, FetchFails, EndSegment
<1>e. << >> \in Seq(Packet) /\ << >> \in Seq(Segment)  BY EmptySeq
<1> DEFINE e == << >>
<1>3. CASE EndOfList
  <2>1. /\ fetcher.pc = "next" /\ fetcher' = [fetcher EXCEPT !.pc = "poll", !.todo = e, !.restart = FALSE]
        /\ UNCHANGED <<processed, refetched>>
    BY <1>3 DEF EndOfList
  <2>2. fetcher.packets = e  BY <1>0, <2>1 DEF InTurn
  <2>3. fetcher' \in FetcherState /\ fetcher'.pc = "poll" /\ fetcher'.todo = e /\ fetcher'.packets = e
    <3>1. e \in Seq(Segment)  BY <1>e
    <3> HIDE DEF e
    <3> QED  BY <1>0, <2>1, <2>2, <3>1 DEF FetcherState
  <2>4. TypeOK'  BY <1>0, <1>1, <1>2, <2>1, <2>3 DEF TypeOK
  <2>5. Phases'  BY <1>0, <1>1, <2>3 DEF Phases
  <2>6. InTurn'  BY <1>0, <1>1, <2>3 DEF InTurn
  <2>7. RoomToAdd'  BY <2>3 DEF RoomToAdd
  <2> QED  BY <1>1, <1>2, <1>3, <2>3, <2>4, <2>5, <2>6, <2>7 DEF BaseInv
<1>4. CASE ~EndOfList
  <2>1. fetcher.todo # << >> /\ fetcher' = NextInList
    BY <1>0, <1>4 DEF SkipKnown, SkipOld, FetchFails, EndSegment, Handling, InTurn
  <2>2. At \in Segment /\ Tail(fetcher.todo) \in Seq(Segment)
    BY <1>0, <2>1, HeadTailProperties DEF At
  <2>3. /\ fetcher' \in FetcherState /\ fetcher'.pc = "next" /\ fetcher'.packets = e
        /\ fetcher'.todo = Tail(fetcher.todo)
    <3>1. fetcher' = [fetcher EXCEPT !.pc = "next", !.todo = Tail(fetcher.todo), !.packets = e]
      BY <1>0, <2>1 DEF NextInList, FetcherState
    <3>2. e \in Seq(Packet)  BY <1>e
    <3> HIDE DEF e
    <3> QED  BY <1>0, <2>2, <3>1, <3>2 DEF FetcherState
  <2>4. processed' \in Seq(Segment) /\ refetched' \subseteq Segment
    <3>1. CASE EndSegment
      <4> DEFINE grown == Append(processed, At)
      <4>1. grown \in Seq(Segment) /\ grown # << >>  BY <1>0, <2>2, AppendProperties
      <4>2. Tail(grown) \in Seq(Segment)  BY <4>1, HeadTailProperties
      <4>3. processed' \in {grown, Tail(grown)}
        BY <3>1 DEF EndSegment, RememberSegment, RememberAtMost
      <4> QED  BY <1>0, <3>1, <4>1, <4>2, <4>3 DEF EndSegment, TypeOK
    <3>2. CASE SkipOld
      BY <1>0, <2>2, <3>2, AppendProperties DEF SkipOld, TypeOK
    <3>3. CASE SkipKnown \/ FetchFails
      BY <1>0, <2>2, <3>3 DEF SkipKnown, FetchFails, TypeOK
    <3> QED  BY <1>4, <3>1, <3>2, <3>3
  <2>5. TypeOK'  BY <1>0, <1>1, <1>2, <2>3, <2>4 DEF TypeOK
  <2>6. Phases'  BY <1>0, <1>1, <2>3 DEF Phases
  <2>7. InTurn'  BY <1>0, <1>1, <2>3 DEF InTurn
  <2>8. RoomToAdd'  BY <2>3 DEF RoomToAdd
  <2> QED  BY <1>1, <1>2, <1>4, <2>1, <2>3, <2>5, <2>6, <2>7, <2>8 DEF BaseInv
<1> QED  BY <1>3, <1>4

LEMMA FetchSegmentBase ==
  ASSUME BaseInv, FetchSegment
  PROVE  /\ BaseInv' /\ At \in Segment
         /\ fetcher.pc = "next" /\ fetcher.packets = << >> /\ fetcher.todo # << >>
         /\ fetcher'.pc = "room" /\ fetcher'.packets = PacketsOf(At)
         /\ fetcher'.todo = fetcher.todo
         /\ UNCHANGED <<published, buffer, dropped, cleared, processed, refetched, lastFrame,
                        framesDropped, delivered, router, routing, cancel>>
         /\ ~Over /\ frames' = frames + PerSegment
<1> USE DEF FetchKeeps, FetchLocal, FetchAt, bufferVars, frameVars
<1>0. TypeOK /\ Phases /\ InTurn /\ RoomToAdd /\ fetcher \in FetcherState
      /\ fetcher.todo \in Seq(Segment) /\ frames \in Nat
  BY DEF BaseInv, TypeOK, FetcherState
<1>a. Fetcher  BY DEF Fetcher
<1>1. /\ UNCHANGED <<published, live, player, unread, delivered, router, main, autoStop,
                     terminated, cancel>>
      /\ Unbroken' = Unbroken
      /\ fetcher.pc \notin {"none", "ended"} /\ main # "start"
      /\ routing' \in BOOLEAN /\ producerActive' \in BOOLEAN
      /\ (Over => Over') /\ (~routing => ~routing')
  BY <1>a, FetcherLeaves
<1>2. /\ fetcher.pc = "next" /\ ~Over /\ fetcher.todo # << >>
      /\ fetcher' = [fetcher EXCEPT !.pc = "room", !.packets = PacketsOf(At)]
      /\ frames' = frames + PerSegment
      /\ UNCHANGED <<buffer, dropped, cleared, processed, refetched, lastFrame, framesDropped,
                     routing>>
  BY DEF FetchSegment, Handling
<1>3. At \in Segment  BY <1>0, <1>2, HeadTailProperties DEF At
<1>4. PacketsOf(At) \in Seq(Packet)  BY <1>0, <1>3, PacketsFacts
<1>5. /\ fetcher' \in FetcherState /\ fetcher'.pc = "room" /\ fetcher'.packets = PacketsOf(At)
      /\ fetcher'.todo = fetcher.todo
  BY <1>0, <1>2, <1>4 DEF FetcherState
<1>6. frames' \in Nat  BY <1>0, <1>2, Constants
<1>7. TypeOK'  BY <1>0, <1>1, <1>2, <1>5, <1>6 DEF TypeOK
<1>8. Phases'  BY <1>0, <1>1, <1>5 DEF Phases
<1>9. InTurn'  BY <1>0, <1>1, <1>2, <1>5 DEF InTurn
<1>10. RoomToAdd'  BY <1>5 DEF RoomToAdd
<1>11. fetcher.packets = << >>  BY <1>0, <1>2 DEF InTurn
<1> QED  BY <1>1, <1>2, <1>3, <1>5, <1>7, <1>8, <1>9, <1>10, <1>11 DEF BaseInv

\* The first packet of the segment goes to the end of what is left of the buffer.
LEMMA AddNextBase ==
  ASSUME BaseInv, AddNext
  PROVE  /\ BaseInv' /\ fetcher.pc = "add" /\ fetcher'.pc = "room"
         /\ fetcher.packets # << >> /\ fetcher'.packets = Tail(fetcher.packets)
         /\ fetcher'.todo = fetcher.todo
         /\ buffer' = Append(SubSeq(buffer, Excess + 1, Len(buffer)), Head(fetcher.packets))
         /\ dropped' = dropped \union Range(SubSeq(buffer, 1, Excess))
         /\ SubSeq(buffer, 1, Excess) \in Seq(Packet) /\ Len(SubSeq(buffer, 1, Excess)) = Excess
         /\ SubSeq(buffer, Excess + 1, Len(buffer)) \in Seq(Packet)
         /\ buffer = SubSeq(buffer, 1, Excess) \o SubSeq(buffer, Excess + 1, Len(buffer))
         /\ UNCHANGED <<published, cleared, processed, frames, refetched, lastFrame,
                        framesDropped, delivered, router, routing, cancel>>
<1> USE DEF FetchKeeps, FetchLocal, FetchAt, bufferVars, frameVars
<1>0. TypeOK /\ Phases /\ InTurn /\ RoomToAdd /\ fetcher \in FetcherState
      /\ fetcher.packets \in Seq(Packet) /\ buffer \in Seq(Packet) /\ dropped \subseteq Packet
  BY DEF BaseInv, TypeOK, FetcherState
<1>a. Fetcher  BY DEF Fetcher
<1>1. /\ UNCHANGED <<published, live, player, unread, delivered, router, main, autoStop,
                     terminated, cancel>>
      /\ Unbroken' = Unbroken
      /\ fetcher.pc \notin {"none", "ended"} /\ main # "start"
      /\ routing' \in BOOLEAN /\ producerActive' \in BOOLEAN
      /\ (Over => Over') /\ (~routing => ~routing')
  BY <1>a, FetcherLeaves
<1>2. /\ fetcher.pc = "add"
      /\ buffer' = Append(SubSeq(buffer, Excess + 1, Len(buffer)), Head(fetcher.packets))
      /\ dropped' = dropped \union Range(SubSeq(buffer, 1, Excess))
      /\ fetcher' = [fetcher EXCEPT !.pc = "room", !.packets = Tail(fetcher.packets)]
      /\ UNCHANGED <<cleared, processed, frames, refetched, lastFrame, framesDropped, routing>>
  BY <1>0 DEF AddNext, AddPacket, FetcherState
<1>3. fetcher.packets # << >> /\ fetcher.todo # << >>  BY <1>0, <1>2 DEF InTurn
<1>4. Head(fetcher.packets) \in Packet /\ Tail(fetcher.packets) \in Seq(Packet)
  BY <1>0, <1>3, HeadTailProperties
<1> DEFINE x == Excess
           n == Len(buffer)
           a == SubSeq(buffer, 1, x)
           b == SubSeq(buffer, x + 1, n)
<1>5. n \in Nat /\ x \in 0 .. n  BY <1>0, ExcessFacts
<1> HIDE DEF x
<1>6. a \o b = buffer
  <2>1. 1 \in 1 .. Len(buffer) + 1 /\ x \in 1 - 1 .. Len(buffer) /\ n \in x .. Len(buffer)
    BY <1>5
  <2>2. a \o b = SubSeq(buffer, 1, n)  BY <1>0, <2>1, ConcatAdjacentSubSeq
  <2> QED  BY <1>0, <2>2, SubSeqFull
<1>7. a \in Seq(Packet) /\ Len(a) = x /\ b \in Seq(Packet)
  <2>1. /\ \A i \in 1 .. x : i \in 1 .. n
        /\ \A i \in x + 1 .. n : i \in 1 .. n
        /\ x \in Int /\ x + 1 \in Int /\ n \in Int
        /\ (IF 1 <= x THEN x - 1 + 1 ELSE 0) = x
    BY <1>5
  <2>2. \A i \in 1 .. n : buffer[i] \in Packet  BY <1>0, ElementOfSeq
  <2>3. a \in Seq(Packet) /\ Len(a) = IF 1 <= x THEN x - 1 + 1 ELSE 0
    BY <2>1, <2>2, SubSeqProperties
  <2>4. b \in Seq(Packet)  BY <2>1, <2>2, SubSeqProperties
  <2> QED  BY <2>1, <2>3, <2>4
<1>8. buffer' \in Seq(Packet) /\ dropped' \subseteq Packet
  <2>1. Range(a) = {a[i] : i \in 1 .. Len(a)}  BY <1>7, RangeEquality
  <2>2. \A i \in 1 .. Len(a) : a[i] \in Packet  BY <1>7, ElementOfSeq
  <2>3. Range(a) \subseteq Packet  BY <2>1, <2>2
  <2>4. buffer' = Append(b, Head(fetcher.packets)) /\ dropped' = dropped \union Range(a)
    BY <1>2 DEF x
  <2> HIDE DEF a, b
  <2>5. Append(b, Head(fetcher.packets)) \in Seq(Packet)  BY <1>4, <1>7, AppendProperties
  <2> QED  BY <1>0, <2>3, <2>4, <2>5
<1>9. /\ fetcher' \in FetcherState /\ fetcher'.pc = "room"
      /\ fetcher'.packets = Tail(fetcher.packets) /\ fetcher'.todo = fetcher.todo
  BY <1>0, <1>2, <1>4 DEF FetcherState
<1>10. TypeOK'  BY <1>0, <1>1, <1>2, <1>8, <1>9 DEF TypeOK
<1>11. Phases'  BY <1>0, <1>1, <1>9 DEF Phases
<1>12. InTurn'  BY <1>0, <1>1, <1>3, <1>9 DEF InTurn
<1>13. RoomToAdd'  BY <1>9 DEF RoomToAdd
<1> QED  BY <1>1, <1>2, <1>3, <1>6, <1>7, <1>9, <1>10, <1>11, <1>12, <1>13 DEF BaseInv, x

LEMMA NextBaseInv ==
  ASSUME BaseInv, [Next]_vars
  PROVE  BaseInv'
<1>1. CASE Main  BY <1>1, MainBase
<1>2. CASE Fetcher
  <2>1. CASE \/ EndFetch \/ RequestPlaylist \/ PollFails \/ PollEndList \/ PollEmpty
             \/ ResetFrameStatistics \/ FindRoom \/ FindFull \/ EndWait \/ EndOfFetch
    BY <2>1, FetcherGoesBase
  <2>2. CASE PollSegments \/ PollDiscontinuity  BY <2>2, PollBase
  <2>3. CASE EndOfList \/ SkipKnown \/ SkipOld \/ FetchFails \/ EndSegment
    BY <2>3, NextBase
  <2>4. CASE FetchSegment  BY <2>4, FetchSegmentBase
  <2>5. CASE AddNext  BY <2>5, AddNextBase
  <2> QED  BY <1>2, <2>1, <2>2, <2>3, <2>4, <2>5 DEF Fetcher
<1>3. CASE Router  BY <1>3, RouterBase
<1>4. CASE UserStops \/ Server \/ PlayerReads \/ PlayerExits  BY <1>4, OutsideBase
<1>5. CASE UNCHANGED vars
  <2> USE <1>5 DEF vars, serverVars, playerVars, bufferVars, fetchVars, frameVars, mainVars
  <2>1. TypeOK'  BY DEF BaseInv, TypeOK
  <2>2. Phases'  BY DEF BaseInv, Phases
  <2>3. InTurn'  BY DEF BaseInv, InTurn, Unbroken
  <2>4. RoomToAdd'  BY DEF BaseInv, RoomToAdd, Over, HighWatermark
  <2> QED  BY <2>1, <2>2, <2>3, <2>4 DEF BaseInv
<1> QED  BY <1>1, <1>2, <1>3, <1>4, <1>5 DEF Next

\* The initial state is a sound one.
LEMMA InitBaseInv == Init => BaseInv
<1> SUFFICES ASSUME Init PROVE BaseInv
  OBVIOUS
<1>e. << >> \in Seq(Packet) /\ << >> \in Seq(Segment)  BY EmptySeq
<1>1. TypeOK
  <2>1. 0 \in 0 .. NSeg /\ 0 \in 0 .. PipeRoom /\ 0 \in 0 .. MaxFailures  BY Constants
  <2>2. fetcher \in FetcherState  BY <1>e, <2>1 DEF Init, FetcherState
  <2>3. router \in RouterState  BY DEF Init, RouterState
  <2> QED  BY <1>e, <2>1, <2>2, <2>3 DEF Init, TypeOK
<1>2. Phases  BY DEF Init, Phases
<1>3. InTurn  BY DEF Init, InTurn
<1>4. RoomToAdd  BY DEF Init, RoomToAdd
<1> QED  BY <1>1, <1>2, <1>3, <1>4 DEF BaseInv

\* Types and phases, and what the two threads of the router have in hand, hold in
\* every state: for all sizes, whatever the server and the player do.
THEOREM BaseInvariant == Spec => []BaseInv
<1>1. Init => BaseInv  BY InitBaseInv
<1>2. BaseInv /\ [Next]_vars => BaseInv'  BY NextBaseInv
<1> QED  BY <1>1, <1>2, PTL DEF Spec

\* When the stream thread goes on to its end, both threads that use the router on
\* its stack have ended (StopRouting, StartTransportStreamThread).
THEOREM RouterThreadsJoined == Spec => []ThreadsJoined
<1>1. BaseInv => ThreadsJoined  BY DEF BaseInv, Phases, ThreadsJoined
<1> QED  BY <1>1, BaseInvariant, PTL

\* The high mark is at most half of what the buffer may hold: 60 % of 5400 packets
\* at most, and half of 15000, in the code.
MarkBelowHalf == (BufferPackets * 6) \div 10 <= MaxPackets \div 2

\* While the stream goes on AddPacket throws no packet away, although the fetcher
\* reads the size of the buffer in one critical section and adds in another.
THEOREM FlowControlHolds ==
  ASSUME MarkBelowHalf
  PROVE  Spec => NoDropWhileRouting
<1>1. ASSUME BaseInv, [Next]_vars
      PROVE  [dropped' = dropped \/ Over]_vars
  <2>1. CASE AddNext
    <3>1. /\ fetcher.pc = "add" /\ buffer \in Seq(Packet) /\ fetcher.restart \in BOOLEAN
          /\ dropped' = dropped \union Range(SubSeq(buffer, 1, Excess))
          /\ SubSeq(buffer, 1, Excess) \in Seq(Packet)
          /\ Len(SubSeq(buffer, 1, Excess)) = Excess
      BY <1>1, <2>1, AddNextBase DEF BaseInv, TypeOK, FetcherState
    <3>2. CASE ~Over
      <4>1. Len(buffer) < HighWatermark  BY <1>1, <3>1, <3>2 DEF BaseInv, RoomToAdd
      <4>2. /\ HighWatermark \in Int /\ HighWatermark <= (BufferPackets * 6) \div 10
            /\ MaxPackets \div 2 \in Int /\ Len(buffer) \in Int
            /\ (BufferPackets * 6) \div 10 \in Int
        <5>1. BufferPackets \in Nat /\ MaxPackets \in Nat  BY Constants
        <5>2. HighWatermark \in Int /\ HighWatermark <= (BufferPackets * 6) \div 10
          BY <3>1, HighMark
        <5>3. Len(buffer) \in Int /\ MaxPackets \div 2 \in Int  BY <3>1, ExcessFacts
        <5>4. (BufferPackets * 6) \div 10 \in Int  BY <5>1
        <5> QED  BY <5>2, <5>3, <5>4
      <4>3. Len(buffer) < MaxPackets \div 2
        <5> DEFINE h == MaxPackets \div 2
                   t == (BufferPackets * 6) \div 10
        <5>1. t <= h  BY MarkBelowHalf DEF MarkBelowHalf
        <5>2. h \in Int /\ t \in Int /\ HighWatermark <= t  BY <4>2
        <5> HIDE DEF h, t
        <5>3. Len(buffer) < h  BY <4>1, <4>2, <5>1, <5>2
        <5> QED  BY <5>3 DEF h
      <4>4. Excess = 0  BY <3>1, <4>3, ExcessFacts
      <4>5. SubSeq(buffer, 1, Excess) = << >>  BY <3>1, <4>4, EmptySeq
      <4>6. Range(<< >>) = {}
        <5>1. DOMAIN << >> = 1 .. Len(<< >>) /\ Len(<< >>) = 0  BY EmptySeq, LenProperties
        <5> QED  BY <5>1 DEF Range
      <4> QED  BY <3>1, <4>5, <4>6
    <3> QED  BY <3>2
  <2>2. CASE ~AddNext
    <3>1. CASE UNCHANGED vars  BY <3>1
    <3>2. CASE Next
      <4>1. dropped' = dropped
        BY <2>2, <3>2 DEF Next, Main, StartRouting, LeaveMonitor, StopRouting, SignalEndOfStream,
          JoinFetcher, JoinRouter, Notify, Fetcher, EndFetch, RequestPlaylist, PollFails,
          PollEndList, PollEmpty, PollSegments, PollDiscontinuity, ResetFrameStatistics,
          EndOfList, SkipKnown, SkipOld, FetchFails, FetchSegment, EndSegment, FindRoom, FindFull,
          EndWait, EndOfFetch, FetchLocal, Router, LaunchMediaPlayer, LaunchFails, LeaveLoop,
          PlayerGone, KeepRouting, GetNextPacket, GetNothing, Idle, CompareFrames, StoreFrame,
          SendTSPacket, SendFails, CleanUp, RouteLocal, RouteKeeps, UserStops, Server, PlayerReads,
          PlayerExits, bufferVars
      <4> QED  BY <4>1
    <3> QED  BY <1>1, <3>1, <3>2
  <2> QED  BY <2>1, <2>2
<1> QED  BY <1>1, BaseInvariant, PTL DEF Spec, NoDropWhileRouting

-----------------------------------------------------------------------------
(* The line of packets, and how each step changes it.                      *)

\* Four sequences one after the other.
LEMMA FourParts ==
  ASSUME NEW S, NEW d \in Seq(S), NEW h \in Seq(S), NEW b \in Seq(S), NEW f \in Seq(S)
  PROVE  /\ d \o h \o b \o f \in Seq(S)
         /\ Len(d) \in Nat /\ Len(h) \in Nat /\ Len(b) \in Nat /\ Len(f) \in Nat
         /\ Len(d \o h \o b \o f) = Len(d) + Len(h) + Len(b) + Len(f)
         /\ Range(d \o h \o b \o f) = Range(d) \union Range(h) \union Range(b) \union Range(f)
         /\ \A i \in 1 .. Len(d) : (d \o h \o b \o f)[i] = d[i]
         /\ \A i \in Len(d) + 1 .. Len(d) + Len(h) : (d \o h \o b \o f)[i] = h[i - Len(d)]
<1> DEFINE u == d \o h
           v == u \o b
           w == v \o f
<1>1. /\ u \in Seq(S) /\ Len(u) = Len(d) + Len(h)
      /\ Len(d) \in Nat /\ Len(h) \in Nat
      /\ Range(u) = Range(d) \union Range(h)
      /\ \A i \in 1 .. Len(d) : i \in 1 .. Len(u) /\ u[i] = d[i]
      /\ \A i \in 1 .. Len(h) : Len(d) + i \in 1 .. Len(u) /\ u[Len(d) + i] = h[i]
  <2>1. /\ u \in Seq(S) /\ Len(u) = Len(d) + Len(h)
        /\ Len(d) \in Nat /\ Len(h) \in Nat
    BY Concatenated
  <2>2. Range(u) = Range(d) \union Range(h)  BY Concatenated
  <2>3. \A i \in 1 .. Len(d) : i \in 1 .. Len(u) /\ u[i] = d[i]
    BY Concatenated
  <2>4. \A i \in 1 .. Len(h) : Len(d) + i \in 1 .. Len(u) /\ u[Len(d) + i] = h[i]
    BY Concatenated
  <2> HIDE DEF u
  <2> QED  BY <2>1, <2>2, <2>3, <2>4
<1> HIDE DEF u
<1>2. /\ v \in Seq(S) /\ Len(v) = Len(u) + Len(b)
      /\ Len(u) \in Nat /\ Len(b) \in Nat
      /\ Range(v) = Range(u) \union Range(b)
      /\ \A i \in 1 .. Len(u) : i \in 1 .. Len(v) /\ v[i] = u[i]
      /\ \A i \in 1 .. Len(b) : Len(u) + i \in 1 .. Len(v) /\ v[Len(u) + i] = b[i]
  <2>0. u \in Seq(S)  BY <1>1
  <2>1. /\ v \in Seq(S) /\ Len(v) = Len(u) + Len(b)
        /\ Len(u) \in Nat /\ Len(b) \in Nat
    BY Concatenated, <2>0
  <2>2. Range(v) = Range(u) \union Range(b)  BY Concatenated, <2>0
  <2>3. \A i \in 1 .. Len(u) : i \in 1 .. Len(v) /\ v[i] = u[i]
    BY Concatenated, <2>0
  <2>4. \A i \in 1 .. Len(b) : Len(u) + i \in 1 .. Len(v) /\ v[Len(u) + i] = b[i]
    BY Concatenated, <2>0
  <2> HIDE DEF v
  <2> QED  BY <2>1, <2>2, <2>3, <2>4
<1> HIDE DEF v
<1>3. /\ w \in Seq(S) /\ Len(w) = Len(v) + Len(f)
      /\ Len(v) \in Nat /\ Len(f) \in Nat
      /\ Range(w) = Range(v) \union Range(f)
      /\ \A i \in 1 .. Len(v) : i \in 1 .. Len(w) /\ w[i] = v[i]
      /\ \A i \in 1 .. Len(f) : Len(v) + i \in 1 .. Len(w) /\ w[Len(v) + i] = f[i]
  <2>0. v \in Seq(S)  BY <1>2
  <2>1. /\ w \in Seq(S) /\ Len(w) = Len(v) + Len(f)
        /\ Len(v) \in Nat /\ Len(f) \in Nat
    BY Concatenated, <2>0
  <2>2. Range(w) = Range(v) \union Range(f)  BY Concatenated, <2>0
  <2>3. \A i \in 1 .. Len(v) : i \in 1 .. Len(w) /\ w[i] = v[i]
    BY Concatenated, <2>0
  <2>4. \A i \in 1 .. Len(f) : Len(v) + i \in 1 .. Len(w) /\ w[Len(v) + i] = f[i]
    BY Concatenated, <2>0
  <2> HIDE DEF w
  <2> QED  BY <2>1, <2>2, <2>3, <2>4
<1> HIDE DEF w
<1>4. w = d \o h \o b \o f  BY DEF w, v, u
<1>5. Len(w) = Len(d) + Len(h) + Len(b) + Len(f)  BY <1>1, <1>2, <1>3
<1>6. Range(w) = Range(d) \union Range(h) \union Range(b) \union Range(f)
  BY <1>1, <1>2, <1>3
<1>7. \A i \in 1 .. Len(d) : w[i] = d[i]  BY <1>1, <1>2, <1>3
<1>8. \A i \in Len(d) + 1 .. Len(d) + Len(h) : w[i] = h[i - Len(d)]
  <2> SUFFICES ASSUME NEW i \in Len(d) + 1 .. Len(d) + Len(h)
               PROVE  w[i] = h[i - Len(d)]
    OBVIOUS
  <2>1. i - Len(d) \in 1 .. Len(h) /\ Len(d) + (i - Len(d)) = i  BY <1>1
  <2>2. i \in 1 .. Len(u) /\ u[i] = h[i - Len(d)]  BY <1>1, <2>1
  <2> QED  BY <1>2, <1>3, <2>2
<1> QED  BY <1>1, <1>2, <1>3, <1>4, <1>5, <1>6, <1>7, <1>8

\* The parts of the line.
LEMMA LineFacts ==
  ASSUME BaseInv
  PROVE  /\ delivered \in Seq(Packet) /\ InHand \in Seq(Packet) /\ buffer \in Seq(Packet)
         /\ fetcher.packets \in Seq(Packet) /\ Line \in Seq(Packet)
         /\ Len(delivered) \in Nat /\ Len(Line) \in Nat /\ DOMAIN Line = 1 .. Len(Line)
         /\ Range(Line) = {Line[i] : i \in 1 .. Len(Line)}
         /\ Len(Line) >= Len(delivered) + Len(InHand)
         /\ \A i \in 1 .. Len(delivered) : Line[i] = delivered[i]
         /\ Len(InHand) = (IF router.packet = NoPacket THEN 0 ELSE 1)
         /\ router.packet # NoPacket => Line[Len(delivered) + 1] = router.packet
<1>1. /\ delivered \in Seq(Packet) /\ buffer \in Seq(Packet) /\ fetcher.packets \in Seq(Packet)
      /\ router.packet \in Packet \union {NoPacket}
  BY DEF BaseInv, TypeOK, FetcherState, RouterState
<1>2. /\ InHand \in Seq(Packet) /\ Len(InHand) = (IF router.packet = NoPacket THEN 0 ELSE 1)
      /\ router.packet # NoPacket => InHand[1] = router.packet
  <2>1. << >> \in Seq(Packet) /\ Len(<< >>) = 0  BY EmptySeq
  <2> QED  BY <1>1, <2>1 DEF InHand
<1>3. /\ Line \in Seq(Packet)
      /\ Len(delivered) \in Nat /\ Len(InHand) \in Nat
      /\ Len(buffer) \in Nat /\ Len(fetcher.packets) \in Nat
      /\ Len(Line) = Len(delivered) + Len(InHand) + Len(buffer) + Len(fetcher.packets)
      /\ \A i \in 1 .. Len(delivered) : Line[i] = delivered[i]
      /\ \A i \in Len(delivered) + 1 .. Len(delivered) + Len(InHand) :
           Line[i] = InHand[i - Len(delivered)]
  <2> DEFINE h == InHand
             f == fetcher.packets
  <2>1. delivered \in Seq(Packet) /\ h \in Seq(Packet) /\ buffer \in Seq(Packet) /\ f \in Seq(Packet)
    BY <1>1, <1>2
  <2>2. Line = delivered \o h \o buffer \o f  BY DEF Line
  <2> HIDE DEF h, f
  <2>3. /\ Line \in Seq(Packet)
        /\ Len(delivered) \in Nat /\ Len(h) \in Nat /\ Len(buffer) \in Nat /\ Len(f) \in Nat
        /\ Len(Line) = Len(delivered) + Len(h) + Len(buffer) + Len(f)
    BY <2>1, <2>2, FourParts
  <2>4. \A i \in 1 .. Len(delivered) : Line[i] = delivered[i]  BY <2>1, <2>2, FourParts
  <2>5. \A i \in Len(delivered) + 1 .. Len(delivered) + Len(h) : Line[i] = h[i - Len(delivered)]
    BY <2>1, <2>2, FourParts
  <2> QED  BY <2>3, <2>4, <2>5 DEF h, f
<1>4. /\ Len(Line) \in Nat /\ DOMAIN Line = 1 .. Len(Line)
      /\ Range(Line) = {Line[i] : i \in 1 .. Len(Line)}
  BY <1>3, LenProperties, RangeEquality
<1>5. router.packet # NoPacket => Line[Len(delivered) + 1] = router.packet
  <2> SUFFICES ASSUME router.packet # NoPacket PROVE Line[Len(delivered) + 1] = router.packet
    OBVIOUS
  <2>1. InHand[1] = router.packet /\ Len(InHand) = 1  BY <1>2
  <2>2. /\ Len(delivered) + 1 \in Len(delivered) + 1 .. Len(delivered) + Len(InHand)
        /\ (Len(delivered) + 1) - Len(delivered) = 1
    BY <1>3, <2>1
  <2> QED  BY <1>3, <2>1, <2>2
<1>6. Len(Line) >= Len(delivered) + Len(InHand)
  <2> DEFINE d == Len(delivered)
             h == Len(InHand)
             b == Len(buffer)
             f == Len(fetcher.packets)
  <2>1. d \in Nat /\ h \in Nat /\ b \in Nat /\ f \in Nat /\ Len(Line) = d + h + b + f  BY <1>3
  <2> HIDE DEF d, h, b, f
  <2>2. Len(Line) >= d + h  BY <2>1
  <2> QED  BY <2>2 DEF d, h
<1> QED  BY <1>1, <1>2, <1>3, <1>4, <1>5, <1>6

\* Four sequences in line: moving one element on changes nothing.
LEMMA LineMoves ==
  ASSUME NEW d \in Seq(Packet), NEW b \in Seq(Packet), NEW f \in Seq(Packet)
  PROVE  /\ \A h : Append(d, h) \o << >> \o b \o f = d \o <<h>> \o b \o f
         /\ b # << >> => d \o <<Head(b)>> \o Tail(b) \o f = d \o << >> \o b \o f
<1> DEFINE e == << >>
<1>1. e \in Seq(Packet) /\ d \o e = d  BY EmptySeq, ConcatEmptySeq
<1>2. ASSUME NEW h PROVE Append(d, h) \o << >> \o b \o f = d \o <<h>> \o b \o f
  <2>1. d \in Seq(Packet \union {h}) /\ h \in Packet \union {h}
    <3>1. d \in [1 .. Len(d) -> Packet] /\ Len(d) \in Nat  BY LenProperties
    <3>2. d \in [1 .. Len(d) -> Packet \union {h}]  BY <3>1
    <3> QED  BY <3>1, <3>2, SeqDef
  <2>2. Append(d, h) = d \o <<h>>  BY <2>1, AppendIsConcat
  <2>3. Append(d, h) \in Seq(Packet \union {h})  BY <2>1, AppendProperties
  <2>4. Append(d, h) \o << >> = Append(d, h)  BY <2>3, ConcatEmptySeq
  <2> QED  BY <2>2, <2>4
<1>3. ASSUME b # << >>
      PROVE  d \o <<Head(b)>> \o Tail(b) \o f = d \o << >> \o b \o f
  <2>1. Append(d, Head(b)) \o Tail(b) = d \o b  BY <1>3, MoveHead
  <2>2. Head(b) \in Packet  BY <1>3, HeadTailProperties
  <2>3. Append(d, Head(b)) = d \o <<Head(b)>>  BY <2>2, AppendIsConcat
  <2> QED  BY <1>1, <2>1, <2>3
<1> QED  BY <1>2, <1>3

\* Most steps only move packets on within the line, or touch none.
LEMMA LineKept ==
  ASSUME BaseInv, Next, ~FetchSegment, ~EndSegment, ~AddNext, ~PollDiscontinuity
  PROVE  Line' = Line /\ dropped' = dropped /\ cleared' = cleared /\ frames' = frames
<1> USE DEF FetchKeeps, FetchLocal, serverVars, playerVars, bufferVars, fetchVars, frameVars,
            mainVars, RouteKeeps, RouteLocal, RouteGoes, RouteAt
<1>0. /\ delivered \in Seq(Packet) /\ buffer \in Seq(Packet) /\ fetcher.packets \in Seq(Packet)
      /\ TypeOK /\ Phases /\ InTurn /\ router \in RouterState
  BY LineFacts DEF BaseInv, TypeOK
<1>1. CASE Main
  <2>1. /\ UNCHANGED <<dropped, cleared, frames, delivered>> /\ buffer' = buffer
        /\ fetcher'.packets = fetcher.packets /\ router'.packet = router.packet
    <3>1. CASE StartRouting
      BY <1>0, <3>1 DEF StartRouting, MainGoes, MainAt, Phases, FetcherState, RouterState, TypeOK
    <3>2. CASE ~StartRouting
      BY <1>1, <3>2 DEF Main, LeaveMonitor, StopRouting, SignalEndOfStream, JoinFetcher, JoinRouter,
        Notify
    <3> QED  BY <3>1, <3>2
  <2> QED  BY <2>1 DEF Line, InHand
<1>2. CASE UserStops \/ Server \/ PlayerReads \/ PlayerExits
  BY <1>2 DEF UserStops, Server, PlayerReads, PlayerExits, Line, InHand
<1>3. CASE Fetcher
  <2>0. delivered' = delivered /\ router' = router  BY <1>3, FetcherLeaves
  <2>1. CASE \/ EndFetch \/ RequestPlaylist \/ PollFails \/ PollEndList \/ PollEmpty
             \/ ResetFrameStatistics \/ FindRoom \/ FindFull \/ EndWait \/ EndOfFetch
    BY <2>0, <2>1, FetcherGoesBase DEF Line, InHand
  <2>2. CASE PollSegments
    <3>1. fetcher.packets = << >>  BY <1>0, <2>2 DEF InTurn, PollSegments, FetchAt
    <3>2. fetcher'.packets = << >>  BY <2>2, PollBase
    <3>3. UNCHANGED <<buffer, dropped, cleared, frames>>  BY <2>2 DEF PollSegments
    <3> QED  BY <2>0, <3>1, <3>2, <3>3 DEF Line, InHand
  <2>3. CASE EndOfList \/ SkipKnown \/ SkipOld \/ FetchFails
    <3>1. fetcher.packets = << >>
      BY <1>0, <2>3 DEF InTurn, EndOfList, SkipKnown, SkipOld, FetchFails, Handling, FetchAt
    <3>2. fetcher'.packets = << >> /\ UNCHANGED <<buffer, dropped, cleared, frames>>
      BY <2>3, NextBase
    <3> QED  BY <2>0, <3>1, <3>2 DEF Line, InHand
  <2> QED  BY <1>3, <2>1, <2>2, <2>3 DEF Fetcher
<1>4. CASE Router
  <2>1. UNCHANGED <<dropped, cleared, frames, fetcher>>
    BY <1>4 DEF Router, LaunchMediaPlayer, LaunchFails, LeaveLoop, PlayerGone, KeepRouting,
      GetNextPacket, GetNothing, Idle, CompareFrames, StoreFrame, SendTSPacket, SendFails, CleanUp
  <2>2. CASE GetNextPacket
    <3>1. /\ router.pc = "get" /\ buffer # << >> /\ buffer' = Tail(buffer)
          /\ router' = [pc |-> "compare", packet |-> Head(buffer)] /\ delivered' = delivered
      BY <2>2 DEF GetNextPacket
    <3>2. Head(buffer) \in Packet  BY <1>0, <3>1, HeadTailProperties
    <3>3. Head(buffer) # NoPacket  BY <3>2 DEF Packet, NoPacket, Segment
    <3>4. router'.packet = Head(buffer)  BY <3>1
    <3>5. InHand = << >>  BY <1>0, <3>1 DEF InTurn, InHand
    <3>6. InHand' = <<Head(buffer)>>  BY <3>3, <3>4 DEF InHand
    <3>7. Line' = delivered \o <<Head(buffer)>> \o Tail(buffer) \o fetcher.packets
      BY <2>1, <3>1, <3>6 DEF Line
    <3>8. Line = delivered \o << >> \o buffer \o fetcher.packets  BY <3>5 DEF Line
    <3> QED  BY <1>0, <2>1, <3>1, <3>7, <3>8, LineMoves
  <2>3. CASE SendTSPacket
    <3>1. /\ router.pc = "send" /\ buffer' = buffer /\ delivered' = Append(delivered, router.packet)
          /\ router' = [pc |-> "check", packet |-> NoPacket]
      BY <2>3 DEF SendTSPacket
    <3>2. InHand = <<router.packet>>  BY <1>0, <3>1 DEF InTurn, InHand
    <3>3. InHand' = << >>  BY <3>1 DEF InHand
    <3>4. Line' = Append(delivered, router.packet) \o << >> \o buffer \o fetcher.packets
      BY <2>1, <3>1, <3>3 DEF Line
    <3>5. Line = delivered \o <<router.packet>> \o buffer \o fetcher.packets  BY <3>2 DEF Line
    <3> DEFINE h == router.packet
    <3>6. Append(delivered, h) \o << >> \o buffer \o fetcher.packets
            = delivered \o <<h>> \o buffer \o fetcher.packets
      <4>1. \A g : Append(delivered, g) \o << >> \o buffer \o fetcher.packets
                    = delivered \o <<g>> \o buffer \o fetcher.packets
        BY <1>0, LineMoves
      <4> QED  BY <4>1
    <3> QED  BY <2>1, <3>1, <3>4, <3>5, <3>6
  <2>4. CASE ~GetNextPacket /\ ~SendTSPacket
    <3>1. UNCHANGED <<delivered, buffer>> /\ router'.packet = router.packet
      BY <1>0, <1>4, <2>4 DEF Router, LaunchMediaPlayer, LaunchFails, LeaveLoop, PlayerGone,
        KeepRouting, GetNothing, Idle, CompareFrames, StoreFrame, SendFails, CleanUp, RouterState
    <3> QED  BY <2>1, <3>1 DEF Line, InHand
  <2> QED  BY <2>2, <2>3, <2>4
<1> QED  BY <1>1, <1>2, <1>3, <1>4 DEF Next

\* A segment taken up goes to the end of the line.
LEMMA LineGrows ==
  ASSUME BaseInv, FetchSegment
  PROVE  PacketsOf(At) \in Seq(Packet) /\ Line' = Line \o PacketsOf(At)
<1> DEFINE u == delivered \o InHand \o buffer
           e == << >>
<1>1. /\ fetcher.packets = << >> /\ fetcher'.packets = PacketsOf(At) /\ At \in Segment
      /\ UNCHANGED <<buffer, delivered, router>>
  BY FetchSegmentBase
<1>2. PacketsOf(At) \in Seq(Packet)
  <2>1. frames \in Nat  BY DEF BaseInv, TypeOK
  <2> QED  BY <1>1, <2>1, PacketsFacts
<1>3. u \in Seq(Packet)
  <2>1. delivered \in Seq(Packet) /\ InHand \in Seq(Packet) /\ buffer \in Seq(Packet)
    BY LineFacts
  <2> DEFINE h == InHand
  <2> HIDE DEF h
  <2>2. delivered \o h \in Seq(Packet)  BY <2>1, Concatenated DEF h
  <2>3. delivered \o h \o buffer \in Seq(Packet)  BY <2>1, <2>2, Concatenated
  <2> QED  BY <2>3 DEF h
<1>4. InHand' = InHand  BY <1>1 DEF InHand
<1>5. Line = u \o << >> /\ Line' = u \o PacketsOf(At)  BY <1>1, <1>4 DEF Line
<1> HIDE DEF u
<1>6. u \o e = u  BY <1>3, ConcatEmptySeq
<1> QED  BY <1>2, <1>5, <1>6

\* What has not been added of a segment when routing ends is left out.
LEMMA LineCutShort ==
  ASSUME BaseInv, EndSegment
  PROVE  /\ Line' \in Seq(Packet) /\ Len(Line') \in Nat /\ Len(Line') <= Len(Line)
         /\ DOMAIN Line' = 1 .. Len(Line')
         /\ \A i \in 1 .. Len(Line') : i \in 1 .. Len(Line) /\ Line'[i] = Line[i]
         /\ Over \/ Line' = Line
<1> DEFINE u == delivered \o InHand \o buffer
           f == fetcher.packets
           e == << >>
<1>1. fetcher'.packets = << >> /\ UNCHANGED <<buffer, delivered, router>>
  BY NextBase
<1>2. u \in Seq(Packet) /\ f \in Seq(Packet)
  <2>1. /\ delivered \in Seq(Packet) /\ InHand \in Seq(Packet) /\ buffer \in Seq(Packet)
        /\ f \in Seq(Packet)
    BY LineFacts
  <2> DEFINE h == InHand
  <2> HIDE DEF h
  <2>2. delivered \o h \in Seq(Packet)  BY <2>1, Concatenated DEF h
  <2>3. delivered \o h \o buffer \in Seq(Packet)  BY <2>1, <2>2, Concatenated
  <2> QED  BY <2>1, <2>3 DEF h
<1>3. InHand' = InHand  BY <1>1 DEF InHand
<1>4. Line = u \o f /\ Line' = u \o << >>  BY <1>1, <1>3 DEF Line
<1>5. Over \/ f = << >>  BY DEF EndSegment
<1> HIDE DEF u, f
<1>6. u \o e = u  BY <1>2, ConcatEmptySeq
<1>7. Line' = u  BY <1>4, <1>6
<1>8. Len(u \o f) = Len(u) + Len(f) /\ Len(u) \in Nat /\ Len(f) \in Nat  BY <1>2, Concatenated
<1>9. \A i \in 1 .. Len(u) : i \in 1 .. Len(u \o f) /\ (u \o f)[i] = u[i]  BY <1>2, Concatenated
<1>10. Len(Line') \in Nat /\ Len(Line') <= Len(Line)  BY <1>4, <1>7, <1>8
<1>11. DOMAIN Line' = 1 .. Len(Line')  BY <1>2, <1>7, LenProperties
<1>12. Over \/ Line' = Line  BY <1>4, <1>5
<1> QED  BY <1>2, <1>4, <1>7, <1>9, <1>10, <1>11, <1>12

\* What AddPacket throws away is cut out of the line.
LEMMA LineCutOut ==
  ASSUME BaseInv, AddNext
  PROVE  \E x, a, y \in Seq(Packet) :
           /\ Line = x \o (a \o y) /\ Line' = x \o y
           /\ dropped' = dropped \union Range(a) /\ Len(a) = Excess
<1> DEFINE x == delivered \o InHand
           a == SubSeq(buffer, 1, Excess)
           c == SubSeq(buffer, Excess + 1, Len(buffer))
           f == fetcher.packets
           y == c \o f
<1>1. /\ f # << >> /\ fetcher'.packets = Tail(f)
      /\ buffer' = Append(c, Head(f)) /\ dropped' = dropped \union Range(a)
      /\ a \in Seq(Packet) /\ Len(a) = Excess /\ c \in Seq(Packet) /\ buffer = a \o c
      /\ delivered' = delivered /\ router' = router
  BY AddNextBase
<1>2. x \in Seq(Packet) /\ f \in Seq(Packet)
  <2>1. delivered \in Seq(Packet) /\ InHand \in Seq(Packet) /\ f \in Seq(Packet)  BY LineFacts
  <2> QED  BY <2>1, Concatenated
<1>3. InHand' = InHand  BY <1>1 DEF InHand
<1>4. Line = x \o buffer \o f /\ Line' = x \o Append(c, Head(f)) \o Tail(f)
  BY <1>1, <1>3 DEF Line
<1> HIDE DEF x, a, c, f
<1>5. Line = x \o (a \o c) \o f  BY <1>1, <1>4
<1>6. y \in Seq(Packet)  BY <1>1, <1>2, Concatenated
<1>7. x \o (a \o c) \o f = x \o (a \o y) /\ x \o Append(c, Head(f)) \o Tail(f) = x \o y
  <2> DEFINE q == Append(c, Head(f))
             g == Tail(f)
             r == a \o c
  <2>1. Head(f) \in Packet /\ Tail(f) \in Seq(Packet)  BY <1>1, <1>2, HeadTailProperties
  <2>2. /\ x \in Seq(Packet) /\ a \in Seq(Packet) /\ c \in Seq(Packet) /\ f \in Seq(Packet)
        /\ q \in Seq(Packet) /\ g \in Seq(Packet) /\ r \in Seq(Packet)
    BY <1>1, <1>2, <2>1, AppendProperties, Concatenated
  <2>3. q \o g = y  BY <1>1, <1>2, MoveHead
  <2>4. r \o f = a \o y  BY <2>2, ConcatAssociative
  <2> HIDE DEF q, g, r
  <2>5. x \o q \o g = x \o (q \o g)
    <3>1. x \in Seq(Packet) /\ q \in Seq(Packet) /\ g \in Seq(Packet)  BY <2>2
    <3> QED  BY ONLY <3>1, ConcatAssociative
  <2>6. x \o r \o f = x \o (r \o f)
    <3>1. x \in Seq(Packet) /\ r \in Seq(Packet) /\ f \in Seq(Packet)  BY <2>2
    <3> QED  BY ONLY <3>1, ConcatAssociative
  <2>7. x \o q \o g = x \o y /\ x \o r \o f = x \o (a \o y)  BY <2>3, <2>4, <2>5, <2>6
  <2> QED  BY <2>7 DEF q, g, r
<1> HIDE DEF y
<1>8. Line = x \o (a \o y) /\ Line' = x \o y  BY <1>4, <1>5, <1>7
<1> QED  BY <1>1, <1>2, <1>6, <1>8

\* What never comes back.
LEMMA NeverBack ==
  ASSUME BaseInv, Next
  PROVE  /\ published \in Nat /\ published' \in Nat /\ published <= published'
         /\ Unbroken' => Unbroken
         /\ dropped \subseteq dropped' /\ cleared \subseteq cleared'
         /\ refetched \subseteq refetched'
         /\ Over /\ ~StartRouting => Over'
<1> USE DEF FetchKeeps, FetchLocal, serverVars, playerVars, bufferVars, fetchVars, frameVars,
            mainVars, RouteKeeps, RouteLocal, RouteGoes, RouteAt, Over
<1>0. published \in 0 .. NSeg /\ NSeg \in Nat /\ BaseInv' /\ routing \in BOOLEAN /\ cancel \in BOOLEAN
  BY NextBaseInv, Constants DEF BaseInv, TypeOK
<1>1. published \in Nat /\ published' \in Nat  BY <1>0 DEF BaseInv, TypeOK
<1>2. /\ published <= published' /\ dropped \subseteq dropped' /\ cleared \subseteq cleared'
      /\ refetched \subseteq refetched' /\ (Over /\ ~StartRouting => Over')
  <2>1. CASE StartRouting  BY <1>1, <2>1 DEF StartRouting
  <2>2. CASE Main /\ ~StartRouting
    BY <1>1, <2>2 DEF Main, LeaveMonitor, StopRouting, SignalEndOfStream, JoinFetcher, JoinRouter,
      Notify
  <2>3. CASE UserStops \/ Server \/ PlayerReads \/ PlayerExits
    BY <1>1, <2>3 DEF UserStops, Server, PlayerReads, PlayerExits
  <2>4. CASE Router
    BY <1>1, <2>4 DEF Router, LaunchMediaPlayer, LaunchFails, LeaveLoop, PlayerGone, KeepRouting,
      GetNextPacket, GetNothing, Idle, CompareFrames, StoreFrame, SendTSPacket, SendFails, CleanUp
  <2>5. CASE Fetcher
    <3>1. published' = published /\ (Over => Over')  BY <2>5, FetcherLeaves
    <3>2. dropped \subseteq dropped' /\ cleared \subseteq cleared' /\ refetched \subseteq refetched'
      BY <2>5 DEF Fetcher, EndFetch, RequestPlaylist, PollFails, PollEndList, PollEmpty,
        PollSegments, PollDiscontinuity, ResetFrameStatistics, EndOfList, SkipKnown, SkipOld,
        FetchFails, FetchSegment, EndSegment, FindRoom, FindFull, EndWait, AddNext, AddPacket,
        EndOfFetch
    <3> QED  BY <1>1, <3>1, <3>2
  <2> QED  BY <2>1, <2>2, <2>3, <2>4, <2>5 DEF Next
<1>3. Unbroken' => Unbroken  BY <1>1, <1>2, StaysBroken
<1> QED  BY <1>1, <1>2, <1>3

-----------------------------------------------------------------------------
(* Frame numbers.                                                          *)

\* The frames in line stay numbered from one.
LEMMA FramesStayInLine ==
  ASSUME BaseInv, FramesInLine, Next
  PROVE  FramesInLine'
<1> SUFFICES ASSUME Unbroken', dropped' = {}
             PROVE  /\ \A i \in DOMAIN Line' : Line'[i].frame = i
                    /\ Over' \/ frames' = Len(Line')
                    /\ lastFrame' = Len(delivered')
                         + (IF router'.pc \in {"compare", "store"} THEN 0 ELSE Len(InHand'))
                    /\ ~framesDropped'
  BY DEF FramesInLine
<1>0. Unbroken /\ dropped = {}  BY NeverBack
<1>1. /\ \A i \in DOMAIN Line : Line[i].frame = i
      /\ Over \/ frames = Len(Line)
      /\ lastFrame = Len(delivered)
                      + (IF router.pc \in {"compare", "store"} THEN 0 ELSE Len(InHand))
      /\ ~framesDropped
  BY <1>0 DEF FramesInLine
<1>b. BaseInv'  BY NextBaseInv
<1>2. ~PollDiscontinuity  BY <1>0, PollBase
<1>3. (\A i \in DOMAIN Line' : Line'[i].frame = i) /\ (Over' \/ frames' = Len(Line'))
  <2>1. CASE FetchSegment
    <3> DEFINE s == PacketsOf(At)
    <3>1. /\ s \in Seq(Packet) /\ Line \in Seq(Packet) /\ Line' = Line \o s
          /\ Len(Line) \in Nat /\ DOMAIN Line = 1 .. Len(Line)
      BY <2>1, LineGrows, LineFacts
    <3>2. ~Over /\ frames' = frames + PerSegment /\ At \in Segment  BY <2>1, FetchSegmentBase
    <3>3. /\ Len(s) = PerSegment /\ PerSegment \in Nat
          /\ \A k \in 1 .. PerSegment : s[k].frame = frames + k
      <4>1. frames \in Nat  BY DEF BaseInv, TypeOK
      <4>2. /\ Len(s) = PerSegment
            /\ \A k \in 1 .. PerSegment :
                 s[k] = [segment |-> At, part |-> k, frame |-> frames + k]
        BY <3>2, <4>1, PacketsFacts
      <4> HIDE DEF s
      <4> QED  BY <4>2, Constants
    <3>4. frames = Len(Line)  BY <1>1, <3>2
    <3> HIDE DEF s
    <3>5. /\ Line' \in Seq(Packet) /\ Len(Line') = Len(Line) + PerSegment
          /\ \A i \in 1 .. Len(Line) + PerSegment :
               Line'[i] = IF i <= Len(Line) THEN Line[i] ELSE s[i - Len(Line)]
      BY <3>1, <3>3, ConcatProperties
    <3>6. ASSUME NEW i \in DOMAIN Line' PROVE Line'[i].frame = i
      <4>1. i \in 1 .. Len(Line) + PerSegment  BY <3>5, <3>6, LenProperties
      <4>2. CASE i <= Len(Line)
        <5>1. i \in DOMAIN Line /\ Line'[i] = Line[i]  BY <3>1, <3>5, <4>1, <4>2
        <5> QED  BY <1>1, <5>1
      <4>3. CASE ~(i <= Len(Line))
        <5>1. i - Len(Line) \in 1 .. PerSegment /\ Len(Line) + (i - Len(Line)) = i
          BY <3>1, <3>3, <4>1, <4>3
        <5>2. s[i - Len(Line)].frame = i  BY <3>3, <3>4, <5>1
        <5> QED  BY <3>5, <4>1, <4>3, <5>2
      <4> QED  BY <4>2, <4>3
    <3> QED  BY <3>2, <3>4, <3>5, <3>6
  <2>2. CASE EndSegment
    <3>1. /\ \A i \in DOMAIN Line' : i \in DOMAIN Line /\ Line'[i] = Line[i]
          /\ Over \/ Line' = Line
      BY <2>2, LineCutShort, LineFacts
    <3>2. UNCHANGED <<frames, routing, cancel>>  BY <2>2, NextBase
    <3> QED  BY <1>1, <3>1, <3>2 DEF Over
  <2>3. CASE AddNext
    <3>1. PICK x, a, y \in Seq(Packet) :
            /\ Line = x \o (a \o y) /\ Line' = x \o y
            /\ dropped' = dropped \union Range(a)
      BY <2>3, LineCutOut
    <3>2. a = << >>
      <4>1. Range(a) = {}  BY <3>1
      <4>2. DOMAIN a = {}  BY <4>1 DEF Range
      <4>3. DOMAIN a = 1 .. Len(a) /\ Len(a) \in Nat  BY LenProperties
      <4>4. Len(a) = 0
        <5>1. CASE Len(a) >= 1
          <6>1. 1 \in 1 .. Len(a)  BY <4>3, <5>1
          <6> QED  BY <4>2, <4>3, <6>1
        <5> QED  BY <4>3, <5>1
      <4> QED  BY <4>4, EmptySeq
    <3>3. a \o y = y  BY <3>2, ConcatEmptySeq
    <3>4. Line' = Line  BY <3>1, <3>3
    <3>5. UNCHANGED <<frames, routing, cancel>>  BY <2>3, AddNextBase
    <3> QED  BY <1>1, <3>4, <3>5 DEF Over
  <2>4. CASE ~FetchSegment /\ ~EndSegment /\ ~AddNext
    <3>1. Line' = Line /\ frames' = frames  BY <1>2, <2>4, LineKept
    <3>2. CASE StartRouting
      <4>1. /\ frames = 0 /\ delivered = << >> /\ buffer = << >>
            /\ router.packet = NoPacket /\ fetcher.packets = << >>
        BY <3>2 DEF StartRouting, MainGoes, MainAt, BaseInv, Phases, InTurn
      <4>2. Line = << >> \o << >> \o << >> \o << >>  BY <4>1 DEF Line, InHand
      <4>3. << >> \o << >> = << >>  BY EmptySeq, ConcatEmptySeq
      <4>4. Line = << >>  BY <4>2, <4>3
      <4>5. Len(Line) = 0  BY <4>4, EmptySeq
      <4> QED  BY <1>1, <3>1, <4>1, <4>5
    <3>3. CASE ~StartRouting  BY <1>1, <3>1, <3>3, NeverBack
    <3> QED  BY <3>2, <3>3
  <2> QED  BY <2>1, <2>2, <2>3, <2>4
<1>4. /\ lastFrame' = Len(delivered')
                        + (IF router'.pc \in {"compare", "store"} THEN 0 ELSE Len(InHand'))
      /\ ~framesDropped'
  <2> USE DEF FetchKeeps, FetchLocal, serverVars, playerVars, bufferVars, fetchVars, frameVars,
              mainVars, RouteKeeps, RouteLocal, RouteGoes, RouteAt
  <2>0. /\ router \in RouterState /\ delivered \in Seq(Packet) /\ Len(delivered) \in Nat
        /\ Len(InHand) \in Nat
    <3>1. delivered \in Seq(Packet) /\ InHand \in Seq(Packet)  BY LineFacts
    <3> QED  BY <3>1, LenProperties DEF BaseInv, TypeOK
  <2>1. CASE Fetcher
    <3>1. delivered' = delivered /\ router' = router  BY <2>1, FetcherLeaves
    <3>2. ~ResetFrameStatistics  BY <1>0 DEF ResetFrameStatistics, FetchAt, BaseInv, InTurn
    <3>3. lastFrame' = lastFrame /\ framesDropped' = framesDropped
      BY <2>1, <3>2 DEF Fetcher, EndFetch, RequestPlaylist, PollFails, PollEndList, PollEmpty,
        PollSegments, PollDiscontinuity, EndOfList, SkipKnown, SkipOld, FetchFails, FetchSegment,
        EndSegment, FindRoom, FindFull, EndWait, AddNext, EndOfFetch
    <3> QED  BY <1>1, <3>1, <3>3 DEF InHand
  <2>2. CASE Main
    <3>1. delivered' = delivered /\ lastFrame' = lastFrame /\ framesDropped' = framesDropped
      BY <2>2 DEF Main, StartRouting, LeaveMonitor, StopRouting, SignalEndOfStream, JoinFetcher,
        JoinRouter, Notify
    <3>2. CASE StartRouting
      <4>1. router.pc = "none" /\ router' = [router EXCEPT !.pc = "launch"]
        BY <3>2 DEF StartRouting, MainGoes, MainAt, BaseInv, Phases
      <4>2. router'.pc = "launch" /\ router'.packet = router.packet
        BY <2>0, <4>1 DEF RouterState
      <4> QED  BY <1>1, <3>1, <4>1, <4>2 DEF InHand
    <3>3. CASE ~StartRouting
      <4>1. router' = router
        BY <2>2, <3>3 DEF Main, LeaveMonitor, StopRouting, SignalEndOfStream, JoinFetcher,
          JoinRouter, Notify
      <4> QED  BY <1>1, <3>1, <4>1 DEF InHand
    <3> QED  BY <3>2, <3>3
  <2>3. CASE UserStops \/ Server \/ PlayerReads \/ PlayerExits
    <3>1. UNCHANGED <<delivered, lastFrame, framesDropped, router>>
      BY <2>3 DEF UserStops, Server, PlayerReads, PlayerExits
    <3> QED  BY <1>1, <3>1 DEF InHand
  <2>4. CASE GetNextPacket
    <3>1. /\ router.pc = "get" /\ router'.pc = "compare" /\ delivered' = delivered
          /\ UNCHANGED <<lastFrame, framesDropped>>
      BY <2>4 DEF GetNextPacket
    <3>2. InHand = << >>  BY <3>1 DEF InHand, BaseInv, InTurn
    <3>3. Len(InHand) = 0  BY <3>2, EmptySeq
    <3> QED  BY <1>1, <2>0, <3>1, <3>3
  <2>5. CASE CompareFrames
    <3>1. /\ router.pc = "compare" /\ router'.pc = "store" /\ delivered' = delivered
          /\ lastFrame' = lastFrame
          /\ framesDropped' = (framesDropped \/ router.packet.frame > lastFrame + 1)
      BY <2>0, <2>5 DEF CompareFrames, RouterState
    <3>2. router.packet # NoPacket  BY <3>1 DEF BaseInv, InTurn
    <3>3. Len(InHand) = 1 /\ Line[Len(delivered) + 1] = router.packet
      BY <3>2, LineFacts
    <3>4. Len(delivered) + 1 \in DOMAIN Line  BY <2>0, <3>3, LineFacts
    <3>5. router.packet.frame = Len(delivered) + 1  BY <1>1, <3>3, <3>4
    <3>6. lastFrame = Len(delivered)  BY <1>1, <2>0, <3>1
    <3>7. ~(router.packet.frame > lastFrame + 1)  BY <2>0, <3>5, <3>6
    <3>8. ~framesDropped'  BY <1>1, <3>1, <3>7, Zenon
    <3> QED  BY <2>0, <3>1, <3>6, <3>8
  <2>6. CASE StoreFrame
    <3>1. /\ router.pc = "store" /\ router'.pc = "send" /\ delivered' = delivered
          /\ router'.packet = router.packet
          /\ lastFrame' = router.packet.frame /\ framesDropped' = framesDropped
      BY <2>0, <2>6 DEF StoreFrame, RouterState
    <3>2. router.packet # NoPacket  BY <3>1 DEF BaseInv, InTurn
    <3>3. Len(InHand) = 1 /\ Line[Len(delivered) + 1] = router.packet
      BY <3>2, LineFacts
    <3>4. Len(delivered) + 1 \in DOMAIN Line  BY <2>0, <3>3, LineFacts
    <3>5. router.packet.frame = Len(delivered) + 1  BY <1>1, <3>3, <3>4
    <3>6. InHand' = InHand  BY <3>1 DEF InHand
    <3> QED  BY <1>1, <3>1, <3>3, <3>5, <3>6
  <2>7. CASE SendTSPacket
    <3>1. /\ router.pc = "send" /\ router'.pc = "check" /\ router'.packet = NoPacket
          /\ delivered' = Append(delivered, router.packet)
          /\ UNCHANGED <<lastFrame, framesDropped>>
      BY <2>7 DEF SendTSPacket
    <3>2. router.packet # NoPacket /\ router.packet \in Packet
      BY <2>0, <3>1 DEF BaseInv, InTurn, RouterState
    <3>3. Len(InHand) = 1  BY <3>2, LineFacts
    <3>4. Len(delivered') = Len(delivered) + 1  BY <2>0, <3>1, <3>2, AppendProperties
    <3>5. InHand' = << >>  BY <3>1 DEF InHand
    <3>6. Len(InHand') = 0  BY <3>5, EmptySeq
    <3> QED  BY <1>1, <2>0, <3>1, <3>3, <3>4, <3>6
  <2>8. CASE Router /\ ~(GetNextPacket \/ CompareFrames \/ StoreFrame \/ SendTSPacket)
    <3>1. /\ UNCHANGED <<delivered, lastFrame, framesDropped>> /\ router'.packet = router.packet
          /\ router.pc \notin {"compare", "store"} /\ router'.pc \notin {"compare", "store"}
      BY <2>0, <2>8 DEF Router, LaunchMediaPlayer, LaunchFails, LeaveLoop, PlayerGone,
        KeepRouting, GetNothing, Idle, SendFails, CleanUp, RouterState
    <3> QED  BY <1>1, <3>1 DEF InHand
  <2> QED  BY <2>1, <2>2, <2>3, <2>4, <2>5, <2>6, <2>7, <2>8 DEF Next
<1> QED  BY <1>3, <1>4

\* As long as the playlist shows no discontinuity and no packet was thrown away,
\* the router thread reports no dropped frame: the fetcher numbers the frames and
\* the router thread compares the numbers, each in its own steps.
THEOREM NoFrameMissing == Spec => []FramesAgree
<1>1. Init => FramesInLine
  <2> SUFFICES ASSUME Init
               PROVE  Line = << >> /\ Over /\ lastFrame = Len(delivered) + Len(InHand)
                      /\ ~framesDropped /\ router.pc = "none"
    <3> DEFINE e == << >>
    <3>1. e \in Seq(Packet)  BY EmptySeq
    <3>2. DOMAIN e = 1 .. Len(e) /\ Len(e) = 0  BY <3>1, LenProperties, EmptySeq
    <3>3. DOMAIN e = {}  BY <3>2
    <3> QED  BY <3>3 DEF FramesInLine
  <2>1. /\ delivered = << >> /\ buffer = << >> /\ router.packet = NoPacket
        /\ fetcher.packets = << >> /\ lastFrame = 0 /\ ~framesDropped /\ ~routing
        /\ router.pc = "none"
    BY DEF Init
  <2>2. << >> \o << >> = << >> /\ Len(<< >>) = 0
    <3> DEFINE e == << >>
    <3>1. e \in Seq(Packet) /\ Len(e) = 0  BY EmptySeq
    <3> HIDE DEF e
    <3>2. e \o e = e
      <4>1. e = << >>  BY DEF e
      <4> QED  BY <3>1, <4>1, ConcatEmptySeq
    <3> QED  BY <3>1, <3>2 DEF e
  <2>3. InHand = << >>  BY <2>1 DEF InHand
  <2>4. Line = << >>  BY <2>1, <2>2, <2>3 DEF Line
  <2> QED  BY <2>1, <2>2, <2>3, <2>4 DEF Over
<1>2. BaseInv /\ FramesInLine /\ [Next]_vars => FramesInLine'
  <2>1. CASE Next  BY <2>1, FramesStayInLine
  <2>2. CASE UNCHANGED vars
    BY <2>2 DEF FramesInLine, Unbroken, Line, InHand, Over, vars, serverVars, playerVars,
      bufferVars, fetchVars, frameVars, mainVars
  <2> QED  BY <2>1, <2>2
<1>3. FramesInLine => FramesAgree  BY DEF FramesInLine, FramesAgree
<1> QED  BY <1>1, <1>2, <1>3, BaseInvariant, PTL DEF Spec

-----------------------------------------------------------------------------
(* The list at hand, and what is remembered of it.                         *)

\* Sets of segments are finite.
LEMMA SegmentSets ==
  ASSUME NEW A, A \subseteq Segment
  PROVE  IsFiniteSet(A) /\ Cardinality(A) \in Nat
<1>1. IsFiniteSet(Segment)
  <2>1. NSeg \in Int /\ 1 \in Int  BY Constants
  <2> QED  BY <2>1, FS_Interval DEF Segment
<1>2. IsFiniteSet(A)  BY <1>1, FS_Subset
<1> QED  BY <1>2, FS_CardinalityType

\* A set of segments and a part of it.
LEMMA FewerSegments ==
  ASSUME NEW A, NEW B, A \subseteq B, B \subseteq Segment
  PROVE  Cardinality(A) <= Cardinality(B)
  BY SegmentSets, FS_Subset

\* One segment more.
LEMMA OneMoreSegment ==
  ASSUME NEW A, NEW B, NEW e \in Segment, A \subseteq B \union {e}, B \subseteq Segment
  PROVE  Cardinality(A) <= Cardinality(B) + 1
<1>1. /\ IsFiniteSet(B) /\ Cardinality(B) \in Nat
      /\ A \subseteq Segment /\ Cardinality(A) \in Nat /\ B \union {e} \subseteq Segment
  BY SegmentSets
<1>2. Cardinality(A) <= Cardinality(B \union {e})  BY <1>1, FewerSegments
<1>3. Cardinality(B \union {e}) = IF e \in B THEN Cardinality(B) ELSE Cardinality(B) + 1
  BY <1>1, FS_AddElement
<1> QED  BY <1>1, <1>2, <1>3

\* One segment that is in the larger set only.
LEMMA OneSegmentLess ==
  ASSUME NEW A, NEW B, NEW e, A \subseteq B, e \in B, e \notin A, B \subseteq Segment
  PROVE  Cardinality(A) + 1 <= Cardinality(B)
<1>1. IsFiniteSet(A) /\ Cardinality(A) \in Nat /\ Cardinality(B) \in Nat
      /\ A \union {e} \subseteq B
  BY SegmentSets
<1>2. Cardinality(A \union {e}) = Cardinality(A) + 1  BY <1>1, FS_AddElement
<1>3. Cardinality(A \union {e}) <= Cardinality(B)  BY <1>1, FewerSegments
<1> QED  BY <1>1, <1>2, <1>3

\* The smaller of two numbers.
LEMMA MinOfTwo ==
  ASSUME NEW a \in Int, NEW b \in Int
  PROVE  Min({a, b}) = IF a <= b THEN a ELSE b
<1> DEFINE c == IF a <= b THEN a ELSE b
<1>1. c \in {a, b} /\ \A y \in {a, b} : c <= y  OBVIOUS
<1>2. \E x \in {a, b} : \A y \in {a, b} : x <= y  BY <1>1
<1>3. Min({a, b}) \in {a, b} /\ \A y \in {a, b} : Min({a, b}) <= y  BY <1>2 DEF Min
<1> HIDE DEF c
<1>4. Min({a, b}) = c
  <2> DEFINE d == Min({a, b})
  <2>1. d \in {a, b} /\ d <= a /\ d <= b  BY <1>3
  <2> HIDE DEF d
  <2>2. c <= a /\ c <= b /\ c \in {a, b}  BY <1>1
  <2>3. d = c  BY <2>1, <2>2
  <2> QED  BY <2>3 DEF d
<1> QED  BY <1>4 DEF c

\* What newest and oldest segment are, and what they say of the sets.
ListShape ==
  /\ published \in Nat /\ fetcher.todo \in Seq(Segment) /\ Len(fetcher.todo) \in Nat
  /\ DOMAIN fetcher.todo = 1 .. Len(fetcher.todo)
  /\ Newest \in Nat /\ Oldest \in Int
  /\ Newest = (IF fetcher.todo = << >> THEN published ELSE fetcher.todo[Len(fetcher.todo)])
  /\ Oldest <= published - Window /\ Oldest <= Newest - Len(fetcher.todo)
  /\ Oldest = published - Window \/ Oldest = Newest - Len(fetcher.todo)
  /\ processed \in Seq(Segment) /\ Len(processed) \in Nat
  /\ DOMAIN processed = 1 .. Len(processed) /\ Range(processed) \subseteq Segment
  /\ Range(processed) = {processed[i] : i \in 1 .. Len(processed)}

LEMMA ListHasShape == BaseInv => ListShape
<1> SUFFICES ASSUME BaseInv PROVE ListShape
  OBVIOUS
<1>1. published \in 0 .. NSeg /\ processed \in Seq(Segment) /\ fetcher \in FetcherState
  BY DEF BaseInv, TypeOK
<1>2. NSeg \in Nat /\ Window \in Nat /\ Segment \subseteq Nat  BY Constants
<1>3. published \in Nat  BY <1>1, <1>2
<1>4. fetcher.todo \in Seq(Segment)  BY <1>1 DEF FetcherState
<1>5. Len(fetcher.todo) \in Nat /\ DOMAIN fetcher.todo = 1 .. Len(fetcher.todo)
  BY <1>4, LenProperties
<1>6. /\ Newest \in Nat
      /\ Newest = (IF fetcher.todo = << >> THEN published ELSE fetcher.todo[Len(fetcher.todo)])
  <2>1. CASE fetcher.todo = << >>  BY <1>3, <2>1 DEF Newest
  <2>2. CASE fetcher.todo # << >>
    <3>1. Len(fetcher.todo) # 0  BY <1>4, <2>2, EmptySeq
    <3>2. Len(fetcher.todo) \in 1 .. Len(fetcher.todo)  BY <1>5, <3>1
    <3>3. fetcher.todo[Len(fetcher.todo)] \in Segment  BY <1>4, <3>2, ElementOfSeq
    <3> QED  BY <1>2, <2>2, <3>3 DEF Newest, Last
  <2> QED  BY <2>1, <2>2
<1>7. /\ Oldest \in Int /\ Oldest <= published - Window /\ Oldest <= Newest - Len(fetcher.todo)
      /\ Oldest = published - Window \/ Oldest = Newest - Len(fetcher.todo)
  <2> DEFINE a == published - Window
             b == Newest - Len(fetcher.todo)
  <2>1. a \in Int /\ b \in Int  BY <1>2, <1>3, <1>5, <1>6
  <2>2. Oldest = Min({a, b})  BY DEF Oldest
  <2> HIDE DEF a, b
  <2>3. Oldest \in Int /\ Oldest <= a /\ Oldest <= b /\ (Oldest = a \/ Oldest = b)
    BY <2>1, <2>2, MinOfTwo
  <2> QED  BY <2>3 DEF a, b
<1>8. Len(processed) \in Nat /\ DOMAIN processed = 1 .. Len(processed)
  BY <1>1, LenProperties
<1>9. Range(processed) = {processed[i] : i \in 1 .. Len(processed)}  BY <1>1, RangeEquality
<1>10. Range(processed) \subseteq Segment  BY <1>1, <1>9, ElementOfSeq
<1> QED  BY <1>1, <1>3, <1>4, <1>5, <1>6, <1>7, <1>8, <1>9, <1>10 DEF ListShape

LEMMA ListHasShapeNext == BaseInv' => ListShape'
  BY ListHasShape, PTL

\* The sets of segments that the invariant counts.
LEMMA CountedSets ==
  ASSUME BaseInv
  PROVE  /\ \A s : Missing(s) \subseteq Segment /\ Cardinality(Missing(s)) \in Nat
         /\ \A i : NearAfter(i) \subseteq Segment /\ Cardinality(NearAfter(i)) \in Nat
<1>1. Range(processed) \subseteq Segment  BY ListHasShape DEF ListShape
<1>2. \A s : Missing(s) \subseteq Segment  BY DEF Missing
<1>3. \A i : NearAfter(i) \subseteq Segment
  <2>1. \A i : NearAfter(i) \subseteq Range(processed)  BY DEF NearAfter, Range
  <2> QED  BY <1>1, <2>1
<1> QED  BY <1>2, <1>3, SegmentSets

LEMMA CountedSetsNext ==
  ASSUME BaseInv'
  PROVE  /\ \A s : Missing(s)' \subseteq Segment /\ Cardinality(Missing(s)') \in Nat
         /\ \A i : NearAfter(i)' \subseteq Segment /\ Cardinality(NearAfter(i)') \in Nat
<1>1. Range(processed') \subseteq Segment  BY ListHasShapeNext DEF ListShape
<1>2. \A s : Missing(s)' \subseteq Segment  BY DEF Missing
<1>3. \A i : NearAfter(i)' \subseteq Segment
  <2>1. \A i : NearAfter(i)' \subseteq Range(processed')  BY DEF NearAfter, Range
  <2> QED  BY <1>1, <2>1
<1> QED  BY <1>2, <1>3, SegmentSets

\* As the list moves on no segment becomes recent, and none is missed again
\* unless it was cut off.
LEMMA ListMovesOn ==
  ASSUME BaseInv, BaseInv', Newest <= Newest', Oldest <= Oldest'
  PROVE  /\ \A s \in Segment : Recent(s)' => Recent(s)
         /\ \A s : \A t \in Missing(s)' : t \in Missing(s) \/ t \in Range(processed)
<1>1. Newest \in Nat /\ Newest' \in Nat /\ Oldest \in Int /\ Oldest' \in Int
  BY ListHasShape, ListHasShapeNext DEF ListShape
<1>2. MaxSegments \in Nat /\ Segment \subseteq Nat  BY Constants
<1>3. ASSUME NEW s \in Segment, Recent(s)' PROVE Recent(s)
  <2>1. s \in Nat /\ s > Newest' - MaxSegments  BY <1>2, <1>3 DEF Recent
  <2>2. s > Newest - MaxSegments
    <3> DEFINE k == Newest
               n == Newest'
    <3>1. k \in Nat /\ n \in Nat /\ k <= n /\ s \in Nat /\ s > n - MaxSegments
      BY <1>1, <2>1
    <3> HIDE DEF k, n
    <3>2. s > k - MaxSegments  BY <1>2, <3>1
    <3> QED  BY <3>2 DEF k
  <2> QED  BY <2>2 DEF Recent
<1>4. ASSUME NEW s, NEW t \in Missing(s)' PROVE t \in Missing(s) \/ t \in Range(processed)
  <2>1. t \in Segment /\ Oldest' < t /\ t < s  BY <1>4 DEF Missing
  <2>2. Oldest < t
    <3>1. t \in Nat  BY <1>2, <2>1
    <3> QED  BY <1>1, <2>1, <3>1
  <2> QED  BY <2>1, <2>2 DEF Missing
<1> QED  BY <1>3, <1>4

\* Then what was known of the list of remembered segments stays true.
LEMMA RememberedStays ==
  ASSUME BaseInv, BaseInv', Remembered, processed' = processed,
         Newest <= Newest', Oldest <= Oldest'
  PROVE  Remembered'
<1>1. /\ Newest \in Nat /\ Newest' \in Nat /\ Len(processed) \in Nat
      /\ DOMAIN processed = 1 .. Len(processed) /\ processed \in Seq(Segment)
  BY ListHasShape, ListHasShapeNext DEF ListShape
<1>2. MaxSegments \in Nat /\ Segment \subseteq Nat  BY Constants
<1>3. \A i \in DOMAIN processed : processed[i] \in Segment  BY <1>1, ElementOfSeq
<1>4. \A i : NearAfter(i)' = NearAfter(i)  BY DEF NearAfter
<1>5. \A s : Missing(s)' \subseteq Missing(s)
  <2>1. \A s : \A t \in Missing(s)' : t \notin Range(processed)  BY DEF Missing
  <2> QED  BY <2>1, ListMovesOn
<1>6. \A i \in DOMAIN processed' : processed'[i] <= Newest'
  <2> TAKE i \in DOMAIN processed'
  <2>1. processed[i] <= Newest /\ processed[i] \in Nat  BY <1>2, <1>3 DEF Remembered
  <2> QED  BY <1>1, <2>1
<1>7. \A i, j \in DOMAIN processed' : i # j => processed'[i] # processed'[j]
  BY DEF Remembered
<1>8. ASSUME NEW i \in DOMAIN processed', Recent(processed[i])'
      PROVE  Len(processed') - i + Cardinality(Missing(processed[i])')
               <= MaxSegments + 2 * Cardinality(NearAfter(i)')
  <2>1. PICK s \in Segment : s = processed[i] /\ s = processed'[i]  BY <1>3
  <2>2. Recent(s)'  BY <1>8, <2>1 DEF Recent
  <2>3. Missing(processed[i])' = Missing(s)' /\ Missing(processed[i]) = Missing(s)
    BY <2>1 DEF Missing
  <2>4. Recent(s)  BY <2>2, ListMovesOn
  <2>5. Len(processed) - i + Cardinality(Missing(s)) <= MaxSegments + 2 * Cardinality(NearAfter(i))
    BY <2>1, <2>3, <2>4 DEF Remembered
  <2>6. Cardinality(Missing(s)') <= Cardinality(Missing(s))
    BY <1>5, CountedSets, FewerSegments
  <2>7. /\ Cardinality(Missing(s)') \in Nat /\ Cardinality(Missing(s)) \in Nat
        /\ Cardinality(NearAfter(i)) \in Nat
    BY CountedSets, CountedSetsNext
  <2>8. i \in Nat /\ Len(processed) \in Nat  BY <1>1
  <2>9. Len(processed) - i + Cardinality(Missing(s)')
          <= MaxSegments + 2 * Cardinality(NearAfter(i))
    BY <1>2, <2>5, <2>6, <2>7, <2>8
  <2> QED  BY <1>4, <2>3, <2>9
<1> QED  BY <1>6, <1>7, <1>8 DEF Remembered

\* As long as the line and what is held stay, the line stays in order while the
\* list moves on and more is remembered.
LEMMA LineStays ==
  ASSUME BaseInv, BaseInv', LineUp, Newest <= Newest', Oldest <= Oldest',
         Line' = Line, dropped' = dropped, cleared' = cleared, refetched \subseteq refetched',
         Range(processed) \subseteq Range(processed'),
         fetcher'.pc \in {"room", "wait", "add"} <=> fetcher.pc \in {"room", "wait", "add"},
         fetcher.pc \in {"room", "wait", "add"} =>
           fetcher'.todo = fetcher.todo /\ processed' = processed
  PROVE  LineUp'
<1>1. Line \in Seq(Packet) /\ Range(Line) \subseteq Packet /\ dropped \subseteq Packet
  <2>1. Line \in Seq(Packet) /\ Range(Line) = {Line[i] : i \in 1 .. Len(Line)}  BY LineFacts
  <2>2. \A i \in 1 .. Len(Line) : Line[i] \in Packet  BY <2>1, ElementOfSeq
  <2> QED  BY <2>1, <2>2 DEF BaseInv, TypeOK
<1>2. \A p \in Packet : p.segment \in Segment  BY DEF Packet
<1>3. \A i, j \in DOMAIN Line' : i < j =>
        \/ Precedes(Line'[i], Line'[j])
        \/ Line'[i].segment > Line'[j].segment /\ Line'[j].segment \in refetched'
  <2>1. \A i, j \in DOMAIN Line : i < j =>
          \/ Precedes(Line[i], Line[j])
          \/ Line[i].segment > Line[j].segment /\ Line[j].segment \in refetched
    BY DEF LineUp
  <2> QED  BY <2>1
<1>4. \A p \in Range(Line'), q \in dropped' : ~ Same(p, q)
  <2>1. \A p \in Range(Line), q \in dropped : ~ Same(p, q)  BY DEF LineUp
  <2> QED  BY <2>1
<1>5. cleared' = {}  BY DEF LineUp
<1>6. ASSUME NEW p \in Range(Line) \union dropped, Recent(p.segment)'
      PROVE  \/ p.segment \in Range(processed')
             \/ fetcher'.pc \in {"room", "wait", "add"} /\ p.segment = Head(fetcher'.todo)
  <2>1. p.segment \in Segment  BY <1>1, <1>2
  <2>2. Recent(p.segment)  BY <1>6, <2>1, ListMovesOn
  <2>3. \/ p.segment \in Range(processed)
        \/ fetcher.pc \in {"room", "wait", "add"} /\ p.segment = Head(fetcher.todo)
    BY <2>2 DEF LineUp, At
  <2> QED  BY <2>3
<1>7. ASSUME NEW p \in Range(Line), NEW s \in Missing(p.segment)', Recent(s)'
      PROVE  s \in refetched'
  <2>1. s \in Segment /\ s \notin Range(processed)  BY <1>7 DEF Missing
  <2>2. s \in Missing(p.segment) /\ Recent(s)  BY <1>7, <2>1, ListMovesOn
  <2> QED  BY <2>2 DEF LineUp
<1>8. ASSUME fetcher'.pc \in {"room", "wait", "add"} PROVE ~Known' /\ ~TooOld'
  <2>1. fetcher'.todo = fetcher.todo /\ processed' = processed /\ ~Known /\ ~TooOld
    BY <1>8 DEF LineUp
  <2> QED  BY <2>1 DEF Known, TooOld, At
<1> DEFINE L == Line'
<1>9. \A p \in Range(L) \union dropped' : Recent(p.segment)' =>
        \/ p.segment \in Range(processed')
        \/ fetcher'.pc \in {"room", "wait", "add"} /\ p.segment = Head(fetcher'.todo)
  BY <1>6
<1>10. \A p \in Range(L) : \A s \in Missing(p.segment)' : Recent(s)' => s \in refetched'
  BY <1>7
<1> QED  BY <1>3, <1>4, <1>5, <1>8, <1>9, <1>10 DEF LineUp, At

-----------------------------------------------------------------------------
(* The steps of the list.                                                  *)

\* The segment at hand and the rest of the list.
LEMMA AtFacts ==
  ASSUME BaseInv, Listing, fetcher.todo # << >>
  PROVE  /\ At \in Segment /\ At = Newest - Len(fetcher.todo) + 1 /\ Oldest < At
         /\ At <= Newest /\ Len(fetcher.todo) \in Nat \ {0}
         /\ Tail(fetcher.todo) \in Seq(Segment)
         /\ Len(Tail(fetcher.todo)) = Len(fetcher.todo) - 1
         /\ \A i \in 1 .. Len(fetcher.todo) - 1 :
              Tail(fetcher.todo)[i] = Newest - (Len(fetcher.todo) - 1) + i
<1> DEFINE todo == fetcher.todo
           n == Len(todo)
<1>1. /\ todo \in Seq(Segment) /\ n \in Nat /\ DOMAIN todo = 1 .. n /\ Newest \in Nat
      /\ Oldest \in Int /\ Oldest <= Newest - n
  BY ListHasShape DEF ListShape
<1>2. n # 0  BY <1>1, EmptySeq
<1>3. Head(todo) \in Segment /\ Tail(todo) \in Seq(Segment) /\ Len(Tail(todo)) = n - 1
      /\ \A i \in 1 .. Len(Tail(todo)) : Tail(todo)[i] = todo[i + 1]
  BY <1>1, HeadTailProperties
<1>4. \A i \in 1 .. n : todo[i] = Newest - n + i  BY <1>1 DEF Listing
<1>5. Head(todo) = todo[1]  BY <1>1
<1> HIDE DEF n, todo
<1>6. 1 \in 1 .. n  BY <1>1, <1>2
<1>7. Head(todo) = Newest - n + 1  BY <1>4, <1>5, <1>6
<1>8. \A i \in 1 .. n - 1 : Tail(todo)[i] = Newest - (n - 1) + i
  <2> TAKE i \in 1 .. n - 1
  <2>1. i + 1 \in 1 .. n  BY <1>1
  <2>2. Tail(todo)[i] = Newest - n + (i + 1)  BY <1>3, <1>4, <2>1
  <2> QED  BY <1>1, <2>2
<1>9. Oldest < Head(todo) /\ Head(todo) <= Newest  BY <1>1, <1>2, <1>7
<1> QED  BY <1>1, <1>2, <1>3, <1>7, <1>8, <1>9 DEF At, n, todo

\* The list moves on by one segment.
LEMMA TailFacts ==
  ASSUME BaseInv, BaseInv', Listing, fetcher.todo # << >>, fetcher'.todo = Tail(fetcher.todo),
         published' = published
  PROVE  /\ Newest <= Newest' /\ Oldest <= Oldest' /\ Newest' <= published'
         /\ \A i \in DOMAIN fetcher'.todo : fetcher'.todo[i] = Newest' - Len(fetcher'.todo) + i
         /\ Len(fetcher'.todo) = Len(fetcher.todo) - 1
         /\ fetcher'.todo # << >> => Newest' = Newest /\ Head(fetcher'.todo) = At + 1
<1> DEFINE n == Len(fetcher.todo)
           rest == fetcher'.todo
           a == Newest
           b == Newest'
           c == Oldest
           d == Oldest'
           s == At
<1>1. /\ s = a - n + 1 /\ n \in Nat \ {0} /\ rest \in Seq(Segment) /\ Len(rest) = n - 1
      /\ \A i \in 1 .. n - 1 : rest[i] = a - (n - 1) + i
  BY AtFacts
<1>2. /\ a \in Nat /\ b \in Nat /\ c \in Int /\ d \in Int
      /\ published \in Nat /\ a <= published
      /\ c <= published - Window /\ c <= a - n
      /\ d = published - Window \/ d = b - Len(rest)
      /\ DOMAIN rest = 1 .. Len(rest)
      /\ b = (IF rest = << >> THEN published ELSE rest[Len(rest)])
  <2>1. ListShape /\ ListShape'  BY ListHasShape, ListHasShapeNext
  <2>2. Newest <= published  BY DEF Listing
  <2> QED  BY <2>1, <2>2 DEF ListShape
<1>3. Window \in Nat  BY Constants
<1>4. rest # << >> => Head(rest) = rest[1]  BY <1>1, HeadTailProperties
<1>5. rest = << >> <=> Len(rest) = 0  BY <1>1, EmptySeq
<1> SUFFICES /\ a <= b /\ c <= d /\ b <= published
             /\ \A i \in DOMAIN rest : rest[i] = b - Len(rest) + i
             /\ Len(rest) = n - 1
             /\ rest # << >> => b = a /\ Head(rest) = s + 1
  OBVIOUS
<1> HIDE DEF n, rest, a, b, c, d, s
<1>6. CASE rest = << >>
  <2>1. n = 1 /\ b = published /\ Len(rest) = 0  BY <1>1, <1>2, <1>5, <1>6
  <2>2. a <= b /\ c <= d /\ b <= published  BY <1>2, <1>3, <2>1
  <2> QED  BY <1>1, <1>2, <1>6, <2>1, <2>2
<1>7. CASE rest # << >>
  <2>1. n - 1 \in 1 .. n - 1 /\ 1 \in 1 .. n - 1  BY <1>1, <1>5, <1>7
  <2>2. b = rest[n - 1]  BY <1>1, <1>2, <1>7
  <2>3. b = a  BY <1>1, <1>2, <2>1, <2>2
  <2>4. Head(rest) = s + 1  BY <1>1, <1>2, <1>4, <1>7, <2>1
  <2>5. c <= d  BY <1>1, <1>2, <1>3, <2>3
  <2>6. \A i \in DOMAIN rest : rest[i] = b - Len(rest) + i  BY <1>1, <1>2, <2>3
  <2> QED  BY <1>1, <1>2, <2>3, <2>4, <2>5, <2>6
<1> QED  BY <1>6, <1>7

\* Steps that leave the list, the memory and the line alone.
LEMMA ListUntouched ==
  ASSUME BaseInv, BaseInv', Listing, Remembered, LineUp, published <= published',
         Line' = Line, UNCHANGED <<dropped, cleared, processed, refetched>>,
         fetcher'.todo = fetcher.todo,
         fetcher'.pc \in {"room", "wait", "add"} <=> fetcher.pc \in {"room", "wait", "add"}
  PROVE  Listing' /\ Remembered' /\ LineUp'
<1> DEFINE a == Newest
           b == Newest'
           c == Oldest
           d == Oldest'
           p == published
           q == published'
           n == Len(fetcher.todo)
<1>1. /\ a \in Nat /\ b \in Nat /\ c \in Int /\ d \in Int /\ p \in Nat /\ q \in Nat /\ n \in Nat
      /\ p <= q /\ a <= p
      /\ (a = p /\ b = q) \/ a = b
      /\ b <= q
      /\ c <= p - Window /\ c <= a - n /\ (d = q - Window \/ d = b - n)
  <2>1. ListShape /\ ListShape'  BY ListHasShape, ListHasShapeNext
  <2>2. Newest <= published  BY DEF Listing
  <2>3. a \in Nat /\ b \in Nat /\ c \in Int /\ d \in Int /\ p \in Nat /\ q \in Nat /\ n \in Nat
    BY <2>1 DEF ListShape
  <2>4. (a = p /\ b = q) \/ a = b  BY DEF Newest
  <2>5. c <= p - Window /\ c <= a - n /\ (d = q - Window \/ d = b - n)
    BY <2>1 DEF ListShape
  <2>6. p <= q /\ a <= p  BY <2>2
  <2> HIDE DEF a, b, c, d, p, q, n
  <2>7. b <= q  BY <2>3, <2>4, <2>6
  <2> QED  BY <2>3, <2>4, <2>5, <2>6, <2>7
<1>2. Window \in Nat  BY Constants
<1>3. a <= b /\ c <= d
  <2> HIDE DEF a, b, c, d, p, q, n
  <2> QED  BY <1>1, <1>2
<1>4. Newest <= Newest' /\ Oldest <= Oldest'  BY <1>3
<1>5. Remembered'  BY <1>4, RememberedStays
<1>6. LineUp'  BY <1>4, LineStays
<1>7. Listing'
  <2>1. Newest' <= published'  BY <1>1
  <2>2. ASSUME NEW i \in DOMAIN fetcher'.todo
        PROVE  fetcher'.todo[i] = Newest' - Len(fetcher'.todo) + i
    <3>1. DOMAIN fetcher.todo = 1 .. n  BY ListHasShape DEF ListShape
    <3>2. n # 0  BY <1>1, <2>2, <3>1
    <3>3. fetcher.todo # << >>  BY <3>2, EmptySeq
    <3>4. Newest' = Newest  BY <3>3 DEF Newest
    <3> QED  BY <3>4 DEF Listing
  <2>3. ASSUME fetcher'.todo # << >>
        PROVE  /\ Cardinality(Missing(Head(fetcher.todo))')
                    <= (IF TooOld' THEN 0 ELSE MaxSegments - Len(fetcher'.todo))
               /\ \A s \in Missing(Head(fetcher.todo))' : Recent(s)' => s \in refetched'
    <3>1. \A s : Missing(s)' \subseteq Missing(s)
      <4>1. \A s : \A t \in Missing(s)' : t \notin Range(processed)  BY DEF Missing
      <4> QED  BY <1>4, <4>1, ListMovesOn
    <3>2. PICK h : h = Head(fetcher.todo) /\ h = Head(fetcher'.todo)  OBVIOUS
    <3>3. Missing(h)' \subseteq Missing(h)  BY <3>1
    <3>4. Cardinality(Missing(h)') <= Cardinality(Missing(h))  BY <3>3, CountedSets, FewerSegments
    <3>5. /\ Cardinality(Missing(h)) <= (IF TooOld THEN 0 ELSE MaxSegments - n)
          /\ \A s \in Missing(h) : Recent(s) => s \in refetched
      BY <2>3, <3>2 DEF Listing
    <3>6. Cardinality(Missing(h)') \in Nat /\ Cardinality(Missing(h)) \in Nat
      BY CountedSets, CountedSetsNext
    <3>7. Cardinality(Missing(h)') <= (IF TooOld THEN 0 ELSE MaxSegments - n)
      <4>1. (IF TooOld THEN 0 ELSE MaxSegments - n) \in Int  BY <1>1, Constants
      <4> QED  BY <3>4, <3>5, <3>6, <4>1
    <3>8. TooOld' = TooOld  BY DEF TooOld
    <3>9. \A s \in Missing(h)' : Recent(s)' => s \in refetched'
      <4>1. \A s \in Missing(h)' : s \in Segment  BY DEF Missing
      <4> QED  BY <1>4, <3>3, <3>5, <4>1, ListMovesOn
    <3>10. Missing(Head(fetcher.todo))' = Missing(h)'  BY <3>2 DEF Missing
    <3> QED  BY <3>7, <3>8, <3>9, <3>10
  <2> QED  BY <2>1, <2>2, <2>3 DEF Listing
<1> QED  BY <1>5, <1>6, <1>7

\* A new list: nothing that it shows before its first segment is missing.
LEMMA PollKeepsList ==
  ASSUME BaseInv, BaseInv', Listing, Remembered, LineUp, PollSegments
  PROVE  Listing' /\ Remembered' /\ LineUp'
<1> DEFINE a == Newest
           b == Newest'
           c == Oldest
           d == Oldest'
           p == published
           n == Len(Listed)
<1>1. /\ fetcher.todo = << >> /\ fetcher'.todo = Listed /\ fetcher.pc = "answer"
      /\ fetcher'.pc = "next" /\ fetcher'.packets = << >> /\ published > 0
      /\ UNCHANGED <<published, processed, refetched>>
  <2>1. fetcher \in FetcherState  BY DEF BaseInv, TypeOK
  <2>2. fetcher' = [fetcher EXCEPT !.pc = "next", !.failures = 0, !.todo = Listed]
    BY DEF PollSegments
  <2>3. fetcher'.todo = Listed /\ fetcher'.pc = "next"  BY <2>1, <2>2 DEF FetcherState
  <2>4. fetcher.pc = "answer" /\ published > 0  BY DEF PollSegments, FetchAt
  <2> QED  BY <2>3, <2>4, PollBase
<1>2. Line' = Line /\ dropped' = dropped /\ cleared' = cleared
  <2>1. Next /\ ~FetchSegment /\ ~EndSegment /\ ~AddNext
    BY DEF Next, Fetcher, PollSegments, FetchSegment, EndSegment, AddNext, Handling, FetchAt
  <2>2. ~PollDiscontinuity
    <3>1. fetcher \in FetcherState  BY DEF BaseInv, TypeOK
    <3>2. PollDiscontinuity => fetcher'.pc = "reset"  BY <3>1 DEF PollDiscontinuity, FetcherState
    <3> QED  BY <1>1, <3>2
  <2> QED  BY <2>1, <2>2, LineKept
<1>3. /\ n \in 1 .. p /\ DOMAIN Listed = 1 .. n /\ n <= Window
      /\ p - n <= (IF Window < p THEN p - Window ELSE 0)
      /\ \A i \in 1 .. n : Listed[i] = p - n + i
      /\ Listed \in Seq(Segment)
  <2>1. published \in 0 .. NSeg  BY DEF BaseInv, TypeOK
  <2>2. published \in Nat  BY ListHasShape DEF ListShape
  <2> QED  BY <1>1, <2>1, <2>2, ListedFacts
<1>4. Window \in Nat /\ MaxSegments \in Nat /\ Segment \subseteq Nat  BY Constants
<1>5. p \in Nat /\ a = p /\ c \in Int /\ d \in Int /\ c <= p - Window
      /\ b = (IF Listed = << >> THEN p ELSE Listed[n]) /\ (d = p - Window \/ d = b - n)
  <2>1. ListShape /\ ListShape'  BY ListHasShape, ListHasShapeNext
  <2> QED  BY <1>1, <2>1 DEF ListShape
<1>6. Listed # << >>
  <2>1. n # 0  BY <1>3
  <2> QED  BY <2>1, EmptySeq
<1>7. b = p
  <2> HIDE DEF a, b, c, d, p, n
  <2>1. n \in 1 .. n /\ b = Listed[n]  BY <1>3, <1>5, <1>6
  <2>2. b = p - n + n  BY <1>3, <2>1
  <2> QED  BY <1>3, <1>5, <2>2
<1>8. c <= d /\ p - Window <= d
  <2> HIDE DEF a, b, c, d, p, n
  <2>1. n \in Nat  BY <1>3, <1>5
  <2> QED  BY <1>3, <1>4, <1>5, <1>7, <2>1
<1>9. Newest <= Newest' /\ Oldest <= Oldest'
  <2>1. a <= b /\ c <= d
    <3> HIDE DEF a, b, c, d, p, n
    <3> QED  BY <1>5, <1>7, <1>8
  <2> QED  BY <2>1
<1>10. Remembered'  BY <1>1, <1>9, RememberedStays
<1>11. LineUp'  BY <1>1, <1>2, <1>9, LineStays
<1>12. Listing'
  <2>1. Newest' <= published'  BY <1>1, <1>5, <1>7
  <2>2. \A i \in DOMAIN fetcher'.todo : fetcher'.todo[i] = Newest' - Len(fetcher'.todo) + i
    BY <1>1, <1>3, <1>7
  <2>3. \A h : h = Head(fetcher'.todo) => Missing(h)' = {}
    <3> SUFFICES ASSUME NEW h, h = Head(fetcher'.todo), NEW t \in Missing(h)' PROVE FALSE
      OBVIOUS
    <3>1. h = p - n + 1
      <4>1. Head(Listed) = Listed[1] /\ 1 \in 1 .. n  BY <1>3, <1>5, <1>6, HeadTailProperties
      <4> QED  BY <1>1, <1>3, <4>1
    <3>2. t \in Nat /\ t \in Segment /\ d < t /\ t < h  BY <1>4 DEF Missing
    <3>3. t > 0  BY <3>2 DEF Segment
    <3> HIDE DEF a, b, c, d, p, n
    <3>4. n \in Nat  BY <1>3, <1>5
    <3>5. p - Window < t  BY <1>4, <1>5, <1>8, <3>2
    <3>6. t <= p - n  BY <1>5, <3>1, <3>2, <3>4
    <3> QED  BY <1>3, <1>4, <1>5, <3>2, <3>3, <3>4, <3>5, <3>6
  <2>4. 0 <= (IF TooOld' THEN 0 ELSE MaxSegments - Len(fetcher'.todo))
    <3>1. Len(fetcher'.todo) \in Nat  BY ListHasShapeNext DEF ListShape
    <3> QED  BY <1>4, <3>1 DEF TooOld
  <2>5. Missing(Head(fetcher.todo))' = {}
    <3>1. PICK h : h = Head(fetcher'.todo)  OBVIOUS
    <3>2. Missing(Head(fetcher.todo))' = Missing(h)'  BY <3>1 DEF Missing
    <3> QED  BY <2>3, <3>1, <3>2
  <2>6. Cardinality(Missing(Head(fetcher.todo))') = 0  BY <2>5, FS_EmptySet
  <2> QED  BY <2>1, <2>2, <2>4, <2>5, <2>6 DEF Listing
<1> QED  BY <1>10, <1>11, <1>12

\* The list is left behind.
LEMMA LeavingKeepsList ==
  ASSUME BaseInv, BaseInv', Listing, Remembered, LineUp, EndOfList
  PROVE  Listing' /\ Remembered' /\ LineUp'
<1>1. /\ fetcher.pc = "next" /\ fetcher'.pc = "poll" /\ fetcher'.todo = << >>
      /\ UNCHANGED <<published, processed, refetched>>
  <2>1. fetcher.pc = "next" /\ UNCHANGED <<processed, refetched>>  BY DEF EndOfList, FetchAt
  <2> QED  BY <2>1, NextBase
<1>2. Line' = Line /\ dropped' = dropped /\ cleared' = cleared
  <2>1. Next  BY DEF Next, Fetcher
  <2>2. ~EndSegment /\ ~AddNext /\ ~PollDiscontinuity
    BY <1>1 DEF EndSegment, AddNext, FetchAt, PollDiscontinuity
  <2>3. ~FetchSegment  BY <1>1, FetchSegmentBase
  <2> QED  BY <2>1, <2>2, <2>3, LineKept
<1> DEFINE a == Newest
           b == Newest'
           c == Oldest
           d == Oldest'
           p == published
<1>3. /\ a \in Nat /\ b = p /\ p \in Nat /\ a <= p /\ c \in Int /\ d \in Int
      /\ c <= p - Window /\ (d = p - Window \/ d = b - 0)
  <2>1. ListShape /\ ListShape' /\ Len(<< >>) = 0  BY ListHasShape, ListHasShapeNext, EmptySeq
  <2> QED  BY <1>1, <2>1 DEF ListShape, Listing
<1>4. Newest <= Newest' /\ Oldest <= Oldest'
  <2>1. a <= b /\ c <= d
    <3> HIDE DEF a, b, c, d, p
    <3>1. Window \in Nat  BY Constants
    <3> QED  BY <1>3, <3>1
  <2> QED  BY <2>1
<1>5. Remembered'  BY <1>1, <1>4, RememberedStays
<1>6. LineUp'  BY <1>1, <1>2, <1>4, LineStays
<1>7. Listing'
  <2>1. Newest' <= published'  BY <1>1, <1>3
  <2>2. DOMAIN fetcher'.todo = {}
    <3>1. Len(fetcher'.todo) = 0  BY <1>1, EmptySeq
    <3>2. DOMAIN fetcher'.todo = 1 .. Len(fetcher'.todo)  BY ListHasShapeNext DEF ListShape
    <3> QED  BY <3>1, <3>2
  <2> QED  BY <1>1, <2>1, <2>2 DEF Listing
<1> QED  BY <1>5, <1>6, <1>7

\* What is missing when the list moves on to the next segment.
LEMMA ListingMovesOn ==
  ASSUME BaseInv, BaseInv', Listing, fetcher.todo # << >>, fetcher'.todo = Tail(fetcher.todo),
         published' = published, refetched \subseteq refetched',
         \A s : s = At + 1 =>
           \/ Missing(s)' \subseteq Missing(At)
           \/ /\ ~TooOld
              /\ \E e \in Segment : /\ Missing(s)' \subseteq Missing(At) \union {e}
                                    /\ Recent(e)' => e \in refetched'
  PROVE  Listing'
<1> DEFINE n == Len(fetcher.todo)
<1>1. n \in Nat \ {0} /\ At \in Segment  BY AtFacts
<1>2. /\ Newest <= Newest' /\ Oldest <= Oldest' /\ Newest' <= published'
      /\ \A i \in DOMAIN fetcher'.todo : fetcher'.todo[i] = Newest' - Len(fetcher'.todo) + i
      /\ Len(fetcher'.todo) = n - 1
      /\ fetcher'.todo # << >> => Newest' = Newest /\ Head(fetcher'.todo) = At + 1
  BY TailFacts
<1>3. MaxSegments \in Nat /\ Segment \subseteq Nat  BY Constants
<1>4. /\ Cardinality(Missing(At)) <= (IF TooOld THEN 0 ELSE MaxSegments - n)
      /\ \A s \in Missing(At) : Recent(s) => s \in refetched
  BY DEF Listing, At
<1>5. ASSUME fetcher'.todo # << >>
      PROVE  /\ Cardinality(Missing(Head(fetcher.todo))')
                  <= (IF TooOld' THEN 0 ELSE MaxSegments - Len(fetcher'.todo))
             /\ \A s \in Missing(Head(fetcher.todo))' : Recent(s)' => s \in refetched'
  <2>1. PICK h : h = At + 1 /\ h = Head(fetcher'.todo)  BY <1>2, <1>5
  <2>2. Missing(Head(fetcher.todo))' = Missing(h)'  BY <2>1 DEF Missing
  <2>3. /\ Cardinality(Missing(h)') \in Nat /\ Cardinality(Missing(At)) \in Nat
        /\ Missing(h)' \subseteq Segment /\ Missing(At) \subseteq Segment
    BY CountedSets, CountedSetsNext
  <2>4. \A s \in Missing(At) : Recent(s)' => s \in refetched'
    BY <1>2, <1>4, <2>3, ListMovesOn
  <2> DEFINE new == Cardinality(Missing(h)')
             old == Cardinality(Missing(At))
  <2>5. TooOld' <=> n - 1 > MaxSegments  BY <1>2 DEF TooOld
  <2>6. TooOld <=> n > MaxSegments  BY DEF TooOld
  <2>7. CASE Missing(h)' \subseteq Missing(At)
    <3>1. new <= old  BY <2>3, <2>7, FewerSegments
    <3>2. new <= (IF TooOld' THEN 0 ELSE MaxSegments - (n - 1))
      <4>1. old <= (IF TooOld THEN 0 ELSE MaxSegments - n) /\ new \in Nat /\ old \in Nat
        BY <1>4, <2>3
      <4> HIDE DEF new, old, n
      <4>2. CASE n - 1 > MaxSegments
        <5>1. n > MaxSegments  BY <1>1, <1>3, <4>2
        <5>2. old <= 0  BY <2>6, <4>1, <5>1
        <5> QED  BY <2>5, <3>1, <4>1, <4>2, <5>2
      <4>3. CASE ~(n - 1 > MaxSegments)
        <5>1. old <= MaxSegments - (n - 1)
          <6>1. CASE TooOld  BY <1>1, <1>3, <4>1, <4>3, <6>1
          <6>2. CASE ~TooOld  BY <1>1, <1>3, <4>1, <4>3, <6>2
          <6> QED  BY <6>1, <6>2
        <5>2. new <= MaxSegments - (n - 1)  BY <1>1, <1>3, <3>1, <4>1, <5>1
        <5> QED  BY <2>5, <4>3, <5>2
      <4> QED  BY <4>2, <4>3
    <3> QED  BY <1>2, <2>2, <2>4, <2>7, <3>2
  <2>8. CASE ~(Missing(h)' \subseteq Missing(At))
    <3>1. ~TooOld  BY <2>1, <2>8
    <3>2. PICK e \in Segment : /\ Missing(h)' \subseteq Missing(At) \union {e}
                               /\ Recent(e)' => e \in refetched'
      BY <2>1, <2>8
    <3>3. new <= old + 1  BY <2>3, <3>2, OneMoreSegment
    <3>4. old <= MaxSegments - n /\ new \in Nat /\ old \in Nat  BY <1>4, <2>3, <3>1
    <3>5. new <= (IF TooOld' THEN 0 ELSE MaxSegments - (n - 1))
      <4> HIDE DEF new, old, n
      <4>1. ~(n - 1 > MaxSegments)  BY <1>1, <1>3, <2>6, <3>1
      <4>2. new <= MaxSegments - (n - 1)  BY <1>1, <1>3, <3>3, <3>4
      <4> QED  BY <2>5, <4>1, <4>2
    <3> QED  BY <1>2, <2>2, <2>4, <3>2, <3>5
  <2> QED  BY <2>7, <2>8
<1> QED  BY <1>2, <1>5 DEF Listing

\* Segments that are passed by, because they are remembered or because their
\* download fails.
LEMMA SkippingKeepsList ==
  ASSUME BaseInv, BaseInv', Listing, Remembered, LineUp, SkipKnown \/ FetchFails
  PROVE  Listing' /\ Remembered' /\ LineUp'
<1>1. /\ fetcher.pc = "next" /\ fetcher'.pc = "next" /\ fetcher.todo # << >>
      /\ fetcher'.todo = Tail(fetcher.todo) /\ UNCHANGED <<published, processed>>
      /\ refetched \subseteq refetched'
  <2>1. fetcher.pc = "next" /\ processed' = processed /\ refetched \subseteq refetched'
    BY DEF SkipKnown, FetchFails, Handling, FetchAt
  <2>2. ~EndOfList
    BY DEF SkipKnown, FetchFails, Handling, EndOfList, Over
  <2> QED  BY <2>1, <2>2, NextBase
<1>2. Line' = Line /\ dropped' = dropped /\ cleared' = cleared
  <2>1. Next  BY DEF Next, Fetcher
  <2>2. ~EndSegment /\ ~AddNext /\ ~PollDiscontinuity
    BY <1>1 DEF EndSegment, AddNext, FetchAt, PollDiscontinuity
  <2>3. ~FetchSegment  BY <1>1, FetchSegmentBase
  <2> QED  BY <2>1, <2>2, <2>3, LineKept
<1>3. Newest <= Newest' /\ Oldest <= Oldest'  BY <1>1, TailFacts
<1>4. Remembered'  BY <1>1, <1>3, RememberedStays
<1>5. LineUp'  BY <1>1, <1>2, <1>3, LineStays
<1>6. Listing'
  <2>1. At \in Segment  BY <1>1, AtFacts
  <2>2. ASSUME NEW s, s = At + 1
        PROVE  Missing(s)' \subseteq Missing(At) \union ({At} \ Range(processed))
    <3>1. ASSUME NEW t \in Missing(s)'
          PROVE  t \in Missing(At) \union ({At} \ Range(processed))
      <4>1. t \in Segment /\ t < s /\ t \notin Range(processed)  BY <1>1 DEF Missing
      <4>2. t \in Missing(s)  BY <1>3, <4>1, ListMovesOn
      <4>3. Segment \subseteq Nat  BY Constants
      <4>4. t < At \/ t = At  BY <2>1, <2>2, <4>1, <4>3
      <4>5. t < At => t \in Missing(At)  BY <4>2 DEF Missing
      <4> QED  BY <4>1, <4>4, <4>5
    <3> QED  BY <3>1
  <2>3. CASE SkipKnown
    <3>1. At \in Range(processed)  BY <2>3 DEF SkipKnown, Known
    <3> QED  BY <1>1, <2>2, <3>1, ListingMovesOn
  <2>4. CASE FetchFails
    <3>1. ~TooOld /\ At \in refetched'  BY <2>4 DEF FetchFails
    <3>2. \A s : s = At + 1 =>
            /\ ~TooOld
            /\ \E e \in Segment : /\ Missing(s)' \subseteq Missing(At) \union {e}
                                  /\ Recent(e)' => e \in refetched'
      <4> TAKE s
      <4> HAVE s = At + 1
      <4>1. PICK e \in Segment : e = At  BY <2>1
      <4>2. Missing(s)' \subseteq Missing(At) \union {e}  BY <2>2, <4>1
      <4>3. e \in refetched'  BY <3>1, <4>1
      <4> QED  BY <3>1, <4>2, <4>3
    <3> QED  BY <1>1, <3>2, ListingMovesOn
  <2> QED  BY <2>3, <2>4
<1> QED  BY <1>4, <1>5, <1>6

-----------------------------------------------------------------------------
(* The steps that remember a segment.                                      *)

\* One segment more is remembered, and d of the oldest are forgotten.
Remembers(d) ==
  /\ d \in {0, 1} /\ d <= Len(processed)
  /\ processed' \in Seq(Segment) /\ Len(processed') = Len(processed) + 1 - d
  /\ \A i \in 1 .. Len(processed) + 1 - d :
       processed'[i] = (IF i + d <= Len(processed) THEN processed[i + d] ELSE At)

\* What is remembered then, and that the list remains without repetitions.
LEMMA RememberedSet ==
  ASSUME BaseInv, BaseInv', Remembered, ~Known, At \in Segment, At <= Newest,
         Newest <= Newest', NEW d, Remembers(d)
  PROVE  /\ At \in Range(processed')
         /\ \A v \in Range(processed) : v \in Range(processed') \/ (d = 1 /\ v = processed[1])
         /\ \A i \in DOMAIN processed' : processed'[i] <= Newest'
         /\ \A i, j \in DOMAIN processed' : i # j => processed'[i] # processed'[j]
<1> DEFINE n == Len(processed)
           m == n + 1 - d
<1>1. /\ n \in Nat /\ d \in {0, 1} /\ d <= n /\ m \in Nat
      /\ DOMAIN processed = 1 .. n /\ DOMAIN processed' = 1 .. m
      /\ Range(processed) = {processed[i] : i \in 1 .. n}
      /\ Range(processed') = {processed'[i] : i \in 1 .. m}
      /\ \A i \in 1 .. n : processed[i] \in Segment
      /\ Newest \in Nat /\ Newest' \in Nat
  <2>1. ListShape /\ ListShape'  BY ListHasShape, ListHasShapeNext
  <2>2. d \in {0, 1} /\ d <= n /\ Len(processed') = m  BY DEF Remembers
  <2>3. \A i \in 1 .. n : processed[i] \in Segment  BY <2>1, ElementOfSeq DEF ListShape
  <2> QED  BY <2>1, <2>2, <2>3 DEF ListShape
<1>2. \A i \in 1 .. m : processed'[i] = (IF i + d <= n THEN processed[i + d] ELSE At)
  BY DEF Remembers
<1>3. \A i \in 1 .. n : processed[i] <= Newest /\ processed[i] # At
  BY <1>1 DEF Remembered, Known
<1>4. \A i, j \in 1 .. n : i # j => processed[i] # processed[j]  BY <1>1 DEF Remembered
<1> HIDE DEF n
<1>5. m \in 1 .. m /\ ~(m + d <= n)  BY <1>1
<1>6. At \in Range(processed')  BY <1>1, <1>2, <1>5
<1>7. \A v \in Range(processed) : v \in Range(processed') \/ (d = 1 /\ v = processed[1])
  <2> TAKE v \in Range(processed)
  <2>1. PICK i \in 1 .. n : v = processed[i]  BY <1>1
  <2>2. CASE i - d \in 1 .. m
    <3>1. (i - d) + d <= n /\ (i - d) + d = i  BY <1>1
    <3>2. processed'[i - d] = processed[i]  BY <1>2, <2>2, <3>1
    <3>3. \E k \in 1 .. m : v = processed'[k]  BY <2>1, <2>2, <3>2
    <3> HIDE DEF m
    <3>4. Range(processed') = {processed'[k] : k \in 1 .. m}  BY <1>1
    <3>5. v \in {processed'[k] : k \in 1 .. m}  BY <3>3
    <3>6. v \in Range(processed')  BY ONLY <3>4, <3>5
    <3> QED  BY <3>6
  <2>3. CASE ~(i - d \in 1 .. m)
    <3>1. i = 1 /\ d = 1  BY <1>1, <2>3
    <3> QED  BY <2>1, <3>1
  <2> QED  BY <2>2, <2>3
<1>8. \A i \in 1 .. m : processed'[i] <= Newest'
  <2> TAKE i \in 1 .. m
  <2>1. CASE i + d <= n
    <3>1. i + d \in 1 .. n  BY <1>1, <2>1
    <3>2. processed[i + d] <= Newest /\ processed[i + d] \in Nat  BY <1>1, <1>3, <3>1, Constants
    <3>3. processed'[i] = processed[i + d]  BY <1>2, <2>1
    <3> QED  BY <1>1, <3>2, <3>3
  <2>2. CASE ~(i + d <= n)
    <3>1. processed'[i] = At  BY <1>2, <2>2
    <3>2. At \in Nat  BY Constants
    <3> QED  BY <1>1, <3>1, <3>2
  <2> QED  BY <2>1, <2>2
<1>9. \A i, j \in 1 .. m : i # j => processed'[i] # processed'[j]
  <2> TAKE i, j \in 1 .. m
  <2> HAVE i # j
  <2>1. i + d \in 1 .. n \/ i = m  BY <1>1
  <2>2. j + d \in 1 .. n \/ j = m  BY <1>1
  <2>3. i + d \in 1 .. n => processed'[i] = processed[i + d]  BY <1>1, <1>2
  <2>4. j + d \in 1 .. n => processed'[j] = processed[j + d]  BY <1>1, <1>2
  <2>5. processed'[m] = At  BY <1>2, <1>5
  <2>6. i + d # j + d  BY <1>1
  <2> HIDE DEF m
  <2> QED  BY <1>3, <1>4, <2>1, <2>2, <2>3, <2>4, <2>5, <2>6
<1> QED  BY <1>1, <1>6, <1>7, <1>8, <1>9

\* What came after a segment still does.
LEMMA NearAfterGrows ==
  ASSUME BaseInv, BaseInv', At \in Segment, NEW d, Remembers(d),
         NEW i \in 1 .. Len(processed'), i + d <= Len(processed)
  PROVE  /\ NearAfter(i + d) \subseteq NearAfter(i)'
         /\ At > processed[i + d] - MaxSegments => At \in NearAfter(i)'
<1> DEFINE n == Len(processed)
           m == n + 1 - d
<1>1. /\ n \in Nat /\ d \in {0, 1} /\ d <= n /\ m \in Nat
      /\ DOMAIN processed = 1 .. n /\ DOMAIN processed' = 1 .. m /\ i \in 1 .. m
  <2>1. ListShape /\ ListShape'  BY ListHasShape, ListHasShapeNext
  <2>2. d \in {0, 1} /\ d <= n /\ Len(processed') = m  BY DEF Remembers
  <2> QED  BY <2>1, <2>2 DEF ListShape
<1>2. \A k \in 1 .. m : processed'[k] = (IF k + d <= n THEN processed[k + d] ELSE At)
  BY DEF Remembers
<1>3. i + d <= n  OBVIOUS
<1> HIDE DEF n
<1>4. processed'[i] = processed[i + d]  BY <1>1, <1>2, <1>3
<1>5. ASSUME NEW v \in NearAfter(i + d) PROVE v \in NearAfter(i)'
  <2>1. PICK j \in 1 .. n : i + d < j /\ v = processed[j]
                            /\ processed[j] > processed[i + d] - MaxSegments
    BY <1>1 DEF NearAfter
  <2>2. j - d \in 1 .. m /\ i < j - d /\ (j - d) + d = j /\ j <= n  BY <1>1, <2>1
  <2>3. processed'[j - d] = processed[j]  BY <1>2, <2>2
  <2>4. processed'[j - d] > processed'[i] - MaxSegments  BY <1>4, <2>1, <2>3
  <2>5. j - d \in DOMAIN processed' /\ v = processed'[j - d]  BY <1>1, <2>1, <2>2, <2>3
  <2> QED  BY <2>2, <2>4, <2>5 DEF NearAfter
<1>6. ASSUME At > processed[i + d] - MaxSegments PROVE At \in NearAfter(i)'
  <2>1. m \in 1 .. m /\ ~(m + d <= n) /\ i < m  BY <1>1, <1>3
  <2>2. processed'[m] = At  BY <1>2, <2>1
  <2>3. processed'[m] > processed'[i] - MaxSegments  BY <1>4, <1>6, <2>2
  <2>4. \E k \in {l \in DOMAIN processed' : i < l /\ processed'[l] > processed'[i] - MaxSegments} :
          At = processed'[k]
    <3> HIDE DEF m
    <3> QED  BY <1>1, <2>1, <2>2, <2>3
  <2> QED  BY <2>4 DEF NearAfter
<1> QED  BY <1>5, <1>6

\* A segment skipped without a look: it is too old to be taken up, so it is
\* missing for every recent segment until it is remembered here.
LEMMA SkipOldKeepsList ==
  ASSUME BaseInv, BaseInv', Listing, Remembered, LineUp, SkipOld
  PROVE  Listing' /\ Remembered' /\ LineUp'
<1>1. /\ fetcher.pc = "next" /\ fetcher'.pc = "next" /\ fetcher.todo # << >>
      /\ fetcher'.todo = Tail(fetcher.todo) /\ UNCHANGED <<published, refetched>>
      /\ ~Known /\ TooOld /\ processed' = Append(processed, At)
  <2>1. /\ fetcher.pc = "next" /\ ~Known /\ TooOld /\ processed' = Append(processed, At)
        /\ refetched' = refetched
    BY DEF SkipOld, Handling, FetchAt
  <2>2. ~EndOfList  BY DEF SkipOld, Handling, EndOfList, Over
  <2> QED  BY <2>1, <2>2, NextBase
<1>2. Line' = Line /\ dropped' = dropped /\ cleared' = cleared
  <2>1. Next  BY DEF Next, Fetcher
  <2>2. ~EndSegment /\ ~AddNext /\ ~PollDiscontinuity
    BY <1>1 DEF EndSegment, AddNext, FetchAt, PollDiscontinuity
  <2>3. ~FetchSegment  BY <1>1, FetchSegmentBase
  <2> QED  BY <2>1, <2>2, <2>3, LineKept
<1>3. Newest <= Newest' /\ Oldest <= Oldest'  BY <1>1, TailFacts
<1>4. /\ At \in Segment /\ At = Newest - Len(fetcher.todo) + 1 /\ Oldest < At /\ At <= Newest
      /\ Len(fetcher.todo) \in Nat
  BY <1>1, AtFacts
<1>5. ~Recent(At)
  <2> DEFINE n == Len(fetcher.todo)
             a == Newest
             s == At
  <2>1. n > MaxSegments /\ s = a - n + 1 /\ n \in Nat /\ a \in Nat /\ MaxSegments \in Nat
    BY <1>1, <1>4, ListHasShape, Constants DEF TooOld, ListShape
  <2> HIDE DEF n, a, s
  <2>2. ~(s > a - MaxSegments)  BY <2>1
  <2> QED  BY <2>2 DEF Recent, a, s
<1>6. Remembers(0)
  <2>1. processed \in Seq(Segment) /\ Len(processed) \in Nat  BY ListHasShape DEF ListShape
  <2>2. /\ processed' \in Seq(Segment) /\ Len(processed') = Len(processed) + 1
        /\ \A i \in 1 .. Len(processed) : processed'[i] = processed[i]
        /\ processed'[Len(processed) + 1] = At
    BY <1>1, <1>4, <2>1, AppendProperties
  <2> DEFINE n == Len(processed)
  <2>3. \A i \in 1 .. n + 1 - 0 :
          processed'[i] = (IF i + 0 <= n THEN processed[i + 0] ELSE At)
    <3> TAKE i \in 1 .. n + 1 - 0
    <3>1. i + 0 = i /\ (i \in 1 .. n \/ (i = n + 1 /\ ~(i <= n)))  BY <2>1
    <3>2. CASE i \in 1 .. n  BY <2>1, <2>2, <3>1, <3>2
    <3>3. CASE i = n + 1 /\ ~(i <= n)  BY <2>2, <3>1, <3>3
    <3> QED  BY <3>1, <3>2, <3>3
  <2> QED  BY <2>1, <2>2, <2>3 DEF Remembers
<1>7. /\ At \in Range(processed') /\ Range(processed) \subseteq Range(processed')
      /\ \A i \in DOMAIN processed' : processed'[i] <= Newest'
      /\ \A i, j \in DOMAIN processed' : i # j => processed'[i] # processed'[j]
  <2>1. /\ At \in Range(processed')
        /\ \A v \in Range(processed) : v \in Range(processed') \/ (0 = 1 /\ v = processed[1])
        /\ \A i \in DOMAIN processed' : processed'[i] <= Newest'
        /\ \A i, j \in DOMAIN processed' : i # j => processed'[i] # processed'[j]
    BY <1>1, <1>3, <1>4, <1>6, RememberedSet
  <2> QED  BY <2>1
<1>8. \A s : \A t \in Missing(s)' : t \in Missing(s) /\ t # At
  <2> TAKE s
  <2> TAKE t \in Missing(s)'
  <2>1. t \notin Range(processed')  BY DEF Missing
  <2> QED  BY <1>3, <1>7, <2>1, ListMovesOn
<1>9. LineUp'  BY <1>1, <1>2, <1>3, <1>7, LineStays
<1>10. Listing'
  <2>1. ASSUME NEW s, s = At + 1 PROVE Missing(s)' \subseteq Missing(At)
    <3>1. ASSUME NEW t \in Missing(s)' PROVE t \in Missing(At)
      <4>1. t \in Missing(s) /\ t # At /\ t \in Segment /\ Segment \subseteq Nat
        BY <1>8, Constants DEF Missing
      <4>2. t < At  BY <1>4, <2>1, <4>1 DEF Missing
      <4> QED  BY <4>1, <4>2 DEF Missing
    <3> QED  BY <3>1
  <2> QED  BY <1>1, <2>1, ListingMovesOn
<1>11. ASSUME NEW i \in DOMAIN processed', Recent(processed[i])'
       PROVE  Len(processed') - i + Cardinality(Missing(processed[i])')
                <= MaxSegments + 2 * Cardinality(NearAfter(i)')
  <2> DEFINE n == Len(processed)
  <2>1. /\ n \in Nat /\ DOMAIN processed = 1 .. n /\ DOMAIN processed' = 1 .. n + 1
        /\ Len(processed') = n + 1
    <3>1. Len(processed') = n + 1 - 0  BY <1>6 DEF Remembers
    <3> QED  BY <3>1, ListHasShape, ListHasShapeNext DEF ListShape
  <2>2. i \in 1 .. n + 1  BY <2>1
  <2>3. processed'[i] = (IF i + 0 <= n THEN processed[i + 0] ELSE At)
    <3>1. n + 1 - 0 = n + 1  BY <2>1
    <3> QED  BY <1>6, <2>2, <3>1 DEF Remembers
  <2>4. PICK s \in Segment : s = processed'[i]
    <3>1. processed' \in Seq(Segment) /\ i \in 1 .. Len(processed')  BY <1>6, <2>1, <2>2 DEF Remembers
    <3> QED  BY <3>1, ElementOfSeq
  <2>5. Recent(s)'  BY <1>11, <2>4 DEF Recent
  <2>6. Recent(s)  BY <1>3, <2>5, ListMovesOn
  <2>7. s # At  BY <1>5, <2>6
  <2>8. i + 0 = i /\ i <= n /\ i \in 1 .. n
    <3>1. i + 0 <= n  BY <2>3, <2>4, <2>7
    <3> QED  BY <2>1, <2>2, <3>1
  <2>9. s = processed[i]  BY <2>3, <2>4, <2>8
  <2>10. n - i + Cardinality(Missing(s)) <= MaxSegments + 2 * Cardinality(NearAfter(i))
    <3>1. Recent(processed[i]) /\ Missing(processed[i]) = Missing(s)
      BY <2>6, <2>9
    <3> QED  BY <2>1, <2>8, <3>1 DEF Remembered
  <2>11. Cardinality(Missing(s)') + 1 <= Cardinality(Missing(s))
    <3>1. At < s
      <4> DEFINE a == Newest
                 e == At
      <4>1. ~(e > a - MaxSegments) /\ s > a - MaxSegments  BY <1>5, <2>6 DEF Recent
      <4>2. e \in Nat /\ a \in Nat /\ s \in Nat /\ MaxSegments \in Nat
        BY <1>4, ListHasShape, Constants DEF ListShape
      <4> HIDE DEF a, e
      <4>3. e < s  BY <4>1, <4>2
      <4> QED  BY <4>3 DEF e
    <3>2. At \in Missing(s)  BY <1>1, <1>4, <3>1 DEF Missing, Known
    <3>3. PICK e : e = At  OBVIOUS
    <3>4. Missing(s)' \subseteq Missing(s) /\ e \in Missing(s) /\ e \notin Missing(s)'
      BY <1>8, <3>2, <3>3
    <3> QED  BY <3>4, CountedSets, OneSegmentLess
  <2>12. Cardinality(NearAfter(i)) <= Cardinality(NearAfter(i)')
    <3>1. NearAfter(i) \subseteq NearAfter(i)'
      <4>1. i \in 1 .. Len(processed')  BY <2>1, <2>2
      <4>2. NearAfter(i + 0) \subseteq NearAfter(i)'
        BY <1>4, <1>6, <2>8, <4>1, NearAfterGrows
      <4> QED  BY <2>8, <4>2
    <3> QED  BY <3>1, CountedSetsNext, FewerSegments
  <2>13. /\ Cardinality(Missing(s)') \in Nat /\ Cardinality(Missing(s)) \in Nat
         /\ Cardinality(NearAfter(i)') \in Nat /\ Cardinality(NearAfter(i)) \in Nat
    BY CountedSets, CountedSetsNext
  <2>14. Missing(processed[i])' = Missing(s)'  BY <2>4 DEF Missing
  <2>15. n + 1 - i + Cardinality(Missing(s)') <= MaxSegments + 2 * Cardinality(NearAfter(i)')
    <3> DEFINE x == Cardinality(Missing(s)')
               y == Cardinality(Missing(s))
               z == Cardinality(NearAfter(i)')
               w == Cardinality(NearAfter(i))
    <3>1. /\ x \in Nat /\ y \in Nat /\ z \in Nat /\ w \in Nat /\ n \in Nat /\ i \in Nat
          /\ MaxSegments \in Nat /\ n - i + y <= MaxSegments + 2 * w /\ x + 1 <= y /\ w <= z
      BY <2>1, <2>2, <2>10, <2>11, <2>12, <2>13, Constants
    <3> HIDE DEF x, y, z, w, n
    <3>2. n + 1 - i + x <= MaxSegments + 2 * z  BY ONLY <3>1
    <3> QED  BY <3>2 DEF x, y, z, w
  <2> QED  BY <2>1, <2>14, <2>15
<1>12. Remembered'  BY <1>7, <1>11 DEF Remembered
<1> QED  BY <1>9, <1>10, <1>12

\* The list of remembered segments is long enough for what can be near its end.
RemembersEnough == Remember >= 5 * MaxSegments - 4

\* What the end of a segment does to the list of remembered ones.
LEMMA EndSegmentRemembers ==
  ASSUME RemembersEnough, BaseInv, At \in Segment, EndSegment
  PROVE  \E d : Remembers(d) /\ (d = 1 => Len(processed) >= Remember)
<1> DEFINE n == Len(processed)
           g == Append(processed, At)
<1>1. processed \in Seq(Segment) /\ n \in Nat  BY ListHasShape DEF ListShape
<1>2. /\ g \in Seq(Segment) /\ Len(g) = n + 1 /\ \A i \in 1 .. n : g[i] = processed[i]
      /\ g[n + 1] = At
  BY <1>1, AppendProperties
<1>3. processed' = (IF Len(g) > Remember THEN Tail(g) ELSE g)
  BY DEF EndSegment, RememberSegment, RememberAtMost
<1>4. Remember \in Nat /\ Remember >= 1
  <2>1. MaxSegments \in Nat \ {0} /\ Remember \in Nat  BY Constants
  <2> QED  BY <2>1 DEF RemembersEnough
<1>5. CASE Len(g) > Remember
  <2>1. g # << >>
    <3>1. Len(g) # 0  BY <1>1, <1>2
    <3> QED  BY <3>1, EmptySeq
  <2>2. /\ Tail(g) \in Seq(Segment) /\ Len(Tail(g)) = Len(g) - 1
        /\ \A i \in 1 .. Len(Tail(g)) : Tail(g)[i] = g[i + 1]
    BY <1>2, <2>1, HeadTailProperties
  <2>3. processed' = Tail(g)  BY <1>3, <1>5
  <2> HIDE DEF g
  <2>4. n >= Remember /\ 1 <= n /\ Len(Tail(g)) = n /\ n + 1 - 1 = n
    BY <1>1, <1>2, <1>4, <1>5, <2>2
  <2>5. \A i \in 1 .. n + 1 - 1 :
          processed'[i] = (IF i + 1 <= n THEN processed[i + 1] ELSE At)
    <3> TAKE i \in 1 .. n + 1 - 1
    <3>1. i \in 1 .. Len(Tail(g))  BY <2>4
    <3>2. processed'[i] = g[i + 1]  BY <2>2, <2>3, <3>1
    <3>3. CASE i + 1 <= n
      <4>1. i + 1 \in 1 .. n  BY <1>1, <2>4, <3>3
      <4> QED  BY <1>2, <3>2, <3>3, <4>1
    <3>4. CASE ~(i + 1 <= n)
      <4>1. i + 1 = n + 1  BY <1>1, <2>4, <3>4
      <4> QED  BY <1>2, <3>2, <3>4, <4>1
    <3> QED  BY <3>3, <3>4
  <2>6. Remembers(1)
    <3>1. 1 \in {0, 1} /\ 1 <= n /\ processed' \in Seq(Segment) /\ Len(processed') = n + 1 - 1
      BY <2>2, <2>3, <2>4
    <3> QED  BY <2>5, <3>1 DEF Remembers
  <2> QED  BY <2>4, <2>6
<1>6. CASE ~(Len(g) > Remember)
  <2>1. processed' = g  BY <1>3, <1>6
  <2> HIDE DEF g
  <2>2. \A i \in 1 .. n + 1 - 0 :
          processed'[i] = (IF i + 0 <= n THEN processed[i + 0] ELSE At)
    <3> TAKE i \in 1 .. n + 1 - 0
    <3>1. i + 0 = i /\ (i \in 1 .. n \/ (i = n + 1 /\ ~(i <= n)))  BY <1>1
    <3>2. CASE i \in 1 .. n  BY <1>1, <1>2, <2>1, <3>1, <3>2
    <3>3. CASE i = n + 1 /\ ~(i <= n)  BY <1>2, <2>1, <3>1, <3>3
    <3> QED  BY <3>1, <3>2, <3>3
  <2>3. Remembers(0)
    <3>1. 0 \in {0, 1} /\ 0 <= n /\ processed' \in Seq(Segment) /\ Len(processed') = n + 1 - 0
      BY <1>1, <1>2, <2>1
    <3> QED  BY <2>2, <3>1 DEF Remembers
  <2> QED  BY <2>3
<1> QED  BY <1>5, <1>6

\* The oldest remembered segment is not recent when the list has its full length
\* and another recent segment joins it: there are not enough segments near it.
LEMMA OldestIsNotRecent ==
  ASSUME RemembersEnough, BaseInv, Remembered, ~Known, Recent(At), At \in Segment, At <= Newest,
         Len(processed) >= Remember, 1 <= Len(processed)
  PROVE  ~Recent(processed[1])
<1> SUFFICES ASSUME Recent(processed[1]) PROVE FALSE
  OBVIOUS
<1> DEFINE n == Len(processed)
           a == Newest
           m == MaxSegments
           near == NearAfter(1)
           card == Cardinality(near)
<1>1. /\ n \in Nat /\ a \in Nat /\ m \in Nat \ {0} /\ Segment \subseteq Nat
      /\ processed \in Seq(Segment) /\ DOMAIN processed = 1 .. n
      /\ Range(processed) = {processed[i] : i \in 1 .. n}
  BY ListHasShape, Constants DEF ListShape
<1>2. 1 \in 1 .. n  BY <1>1
<1>3. PICK x \in Segment : x = processed[1]  BY <1>1, <1>2, ElementOfSeq
<1>4. PICK e \in Segment : e = At  OBVIOUS
<1>5. x \in Nat /\ e \in Nat /\ x <= a /\ e <= a /\ x > a - m /\ e > a - m
  BY <1>1, <1>2, <1>3, <1>4 DEF Remembered, Recent
<1>6. e \notin Range(processed)  BY <1>4 DEF Known
<1>7. /\ near \subseteq Range(processed)
      /\ \A v \in near : v # x /\ v > x - m /\ v <= a /\ v \in Nat
  <2>1. ASSUME NEW v \in near
        PROVE  v \in Range(processed) /\ v # x /\ v > x - m /\ v <= a /\ v \in Nat
    <3>1. PICK j \in 1 .. n : 1 < j /\ v = processed[j] /\ processed[j] > processed[1] - m
      BY <1>1 DEF NearAfter
    <3>2. v # x  BY <1>1, <1>2, <1>3, <3>1 DEF Remembered
    <3>3. v <= a  BY <1>1, <3>1 DEF Remembered
    <3>4. v \in Segment  BY <1>1, <3>1, ElementOfSeq
    <3>5. v \in Range(processed)  BY <1>1, <3>1
    <3> QED  BY <1>1, <1>3, <3>1, <3>2, <3>3, <3>4, <3>5
  <2> QED  BY <2>1
<1>8. near \subseteq Segment /\ card \in Nat /\ IsFiniteSet(near)
  BY CountedSets, SegmentSets
<1> HIDE DEF near
<1>9. e \notin near /\ x \notin near /\ e # x
  <2>1. x \in Range(processed)  BY <1>1, <1>2, <1>3
  <2> QED  BY <1>6, <1>7, <2>1
<1>10. Cardinality(near \union {x}) = card + 1 /\ IsFiniteSet(near \union {x})
  BY <1>8, <1>9, FS_AddElement
<1>11. Cardinality((near \union {x}) \union {e}) = card + 1 + 1
  BY <1>9, <1>10, FS_AddElement
<1> DEFINE lo == x - m + 1
           hi == x + m - 1
           s == (near \union {x}) \union {e}
<1>12. lo \in Int /\ hi \in Int /\ lo <= hi /\ hi - lo + 1 = 2 * m - 1
  BY <1>1, <1>5
<1>13. s \subseteq lo .. hi
  <2>1. \A v \in near : v \in lo .. hi
    <3> TAKE v \in near
    <3>1. v \in Nat /\ v > x - m /\ v <= a  BY <1>7
    <3> HIDE DEF a, m
    <3> QED  BY <1>1, <1>5, <3>1
  <2>2. x \in lo .. hi /\ e \in lo .. hi
    <3> HIDE DEF a, m
    <3> QED  BY <1>1, <1>5
  <2> QED  BY <2>1, <2>2
<1>14. Cardinality(s) <= 2 * m - 1
  <2> HIDE DEF lo, hi, s
  <2>1. /\ IsFiniteSet(lo .. hi)
        /\ Cardinality(lo .. hi) = (IF lo > hi THEN 0 ELSE hi - lo + 1)
    <3>1. lo \in Int /\ hi \in Int  BY <1>12
    <3> QED  BY ONLY <3>1, FS_Interval
  <2>2. Cardinality(s) <= Cardinality(lo .. hi)  BY <1>13, <2>1, FS_Subset
  <2>3. ~(lo > hi)  BY <1>12
  <2>4. Cardinality(lo .. hi) = 2 * m - 1  BY <1>12, <2>1, <2>3
  <2> QED  BY <2>2, <2>4
<1>15. n - 1 + Cardinality(Missing(x)) <= m + 2 * card
  <2>1. Missing(processed[1]) = Missing(x)  BY <1>3
  <2> QED  BY <1>1, <1>2, <2>1 DEF Remembered, near
<1>16. Cardinality(Missing(x)) \in Nat  BY CountedSets
<1>17. n >= 5 * m - 4
  <2>1. Remember \in Nat  BY Constants
  <2> QED  BY <1>1, <2>1 DEF RemembersEnough
<1> HIDE DEF n, m, card, s
<1>18. card + 1 + 1 <= 2 * m - 1  BY <1>11, <1>14 DEF s
<1> QED  BY <1>1, <1>8, <1>15, <1>16, <1>17, <1>18

\* A segment at hand that is not too old is recent.
LEMMA TakenUpIsRecent ==
  ASSUME BaseInv, Listing, fetcher.todo # << >>, ~TooOld
  PROVE  Recent(At)
<1> DEFINE n == Len(fetcher.todo)
           a == Newest
           s == At
           m == MaxSegments
<1>1. s = a - n + 1 /\ n \in Nat /\ a \in Nat /\ m \in Nat /\ ~(n > m)
  BY AtFacts, ListHasShape, Constants DEF ListShape, TooOld
<1> HIDE DEF n, a, s, m
<1>2. s > a - m  BY <1>1
<1> QED  BY <1>2 DEF Recent, a, s, m

\* A segment that was taken up is remembered. One may be cut off for it, which is
\* missing for the others from now on and is not recent.
LEMMA EndSegmentKeepsMemory ==
  ASSUME BaseInv, BaseInv', Listing, Remembered, EndSegment,
         ~Known, ~TooOld, fetcher.todo # << >>, Newest <= Newest', Oldest <= Oldest',
         NEW d, Remembers(d), NEW x \in Segment, d = 1 => x = processed[1],
         \A v \in Range(processed) : v \in Range(processed') \/ v = x
  PROVE  Remembered'
<1> DEFINE n == Len(processed)
           m == MaxSegments
           a == Newest
<1>1. /\ At \in Segment /\ At <= a /\ Recent(At) /\ Len(fetcher.todo) \in Nat \ {0}
  BY AtFacts, TakenUpIsRecent
<1>2. /\ \A i \in DOMAIN processed' : processed'[i] <= Newest'
      /\ \A i, j \in DOMAIN processed' : i # j => processed'[i] # processed'[j]
  BY <1>1, RememberedSet
<1>3. /\ n \in Nat /\ m \in Nat /\ a \in Nat /\ d \in {0, 1} /\ d <= n /\ Segment \subseteq Nat
      /\ DOMAIN processed = 1 .. n /\ DOMAIN processed' = 1 .. n + 1 - d
      /\ Len(processed') = n + 1 - d /\ processed' \in Seq(Segment)
      /\ Range(processed) = {processed[i] : i \in 1 .. n} /\ processed \in Seq(Segment)
      /\ \A i \in 1 .. n + 1 - d : processed'[i] = (IF i + d <= n THEN processed[i + d] ELSE At)
  <2>1. ListShape /\ ListShape'  BY ListHasShape, ListHasShapeNext
  <2> QED  BY <2>1, Constants DEF ListShape, Remembers
<1>4. \A s : Missing(s)' \subseteq Missing(s) \union {x}
  <2>1. ASSUME NEW s, NEW t \in Missing(s)' PROVE t \in Missing(s) \union {x}
    <3>1. t \notin Range(processed')  BY <2>1 DEF Missing
    <3>2. t \in Missing(s) \/ t \in Range(processed)  BY <2>1, ListMovesOn
    <3> QED  BY <3>1, <3>2
  <2> QED  BY <2>1
<1>5. ASSUME NEW i \in DOMAIN processed', Recent(processed[i])'
      PROVE  Len(processed') - i + Cardinality(Missing(processed[i])')
               <= m + 2 * Cardinality(NearAfter(i)')
  <2>1. i \in 1 .. n + 1 - d  BY <1>3
  <2>2. PICK s \in Segment : s = processed'[i]
    <3>1. i \in 1 .. Len(processed')  BY <1>3
    <3> QED  BY <1>3, <3>1, ElementOfSeq
  <2>3. Missing(processed[i])' = Missing(s)'  BY <2>2 DEF Missing
  <2>4. /\ Cardinality(Missing(s)') \in Nat /\ Cardinality(Missing(s)) \in Nat
        /\ Cardinality(NearAfter(i)') \in Nat /\ Cardinality(NearAfter(i + d)) \in Nat
        /\ NearAfter(i)' \subseteq Segment /\ NearAfter(i + d) \subseteq Segment
    BY CountedSets, CountedSetsNext
  <2>5. Cardinality(Missing(s)') <= Cardinality(Missing(s)) + 1
    <3>1. Missing(s)' \subseteq Missing(s) \union {x} /\ Missing(s) \subseteq Segment
      BY <1>4, CountedSets
    <3> QED  BY <3>1, OneMoreSegment
  <2>6. CASE i + d <= n
    <3>1. i + d \in 1 .. n /\ s = processed[i + d]  BY <1>3, <2>1, <2>2, <2>6
    <3>2. Recent(s)
      <4>1. Recent(s)'  BY <1>5, <2>2 DEF Recent
      <4> QED  BY <4>1, ListMovesOn
    <3>3. n - (i + d) + Cardinality(Missing(s)) <= m + 2 * Cardinality(NearAfter(i + d))
      <4>1. Recent(processed[i + d]) /\ Missing(processed[i + d]) = Missing(s)
        BY <3>1, <3>2
      <4> QED  BY <1>3, <3>1, <4>1 DEF Remembered
    <3>4. At > processed[i + d] - m
      <4> DEFINE e == At
      <4>1. e > a - m /\ s <= a /\ e \in Nat /\ s \in Nat
        BY <1>1, <1>3, <3>1 DEF Recent, Remembered
      <4> HIDE DEF e, a, m
      <4>2. e > s - m  BY <1>3, <4>1
      <4> QED  BY <3>1, <4>2 DEF e
    <3>5. PICK e \in Segment : e = At  BY <1>1
    <3>6. NearAfter(i + d) \subseteq NearAfter(i)' /\ e \in NearAfter(i)'
      <4>1. i \in 1 .. Len(processed')  BY <1>3
      <4> QED  BY <1>1, <2>6, <3>4, <3>5, <4>1, NearAfterGrows
    <3>7. e \notin NearAfter(i + d)
      <4>1. NearAfter(i + d) \subseteq Range(processed)  BY DEF NearAfter, Range
      <4> QED  BY <3>5, <4>1 DEF Known
    <3>8. Cardinality(NearAfter(i + d)) + 1 <= Cardinality(NearAfter(i)')
      <4> DEFINE A == NearAfter(i + d)
                 B == NearAfter(i)'
      <4>1. A \subseteq B /\ e \in B /\ e \notin A /\ B \subseteq Segment
        BY <2>4, <3>6, <3>7
      <4> HIDE DEF A, B
      <4>2. Cardinality(A) + 1 <= Cardinality(B)  BY <4>1, OneSegmentLess
      <4> QED  BY <4>2 DEF A, B
    <3>9. n + 1 - d - i + Cardinality(Missing(s)') <= m + 2 * Cardinality(NearAfter(i)')
      <4> DEFINE p == Cardinality(Missing(s)')
                 q == Cardinality(Missing(s))
                 w == Cardinality(NearAfter(i + d))
                 z == Cardinality(NearAfter(i)')
      <4>1. p \in Nat /\ q \in Nat /\ w \in Nat /\ z \in Nat  BY <2>4
      <4>2. n - (i + d) + q <= m + 2 * w /\ w + 1 <= z /\ p <= q + 1
        BY <2>5, <3>3, <3>8
      <4> HIDE DEF p, q, w, z
      <4>3. n \in Nat /\ m \in Nat /\ d \in Nat /\ i \in Nat  BY <1>3, <2>1
      <4> HIDE DEF n, m
      <4>4. n + 1 - d - i + p <= m + 2 * z  BY ONLY <4>1, <4>2, <4>3
      <4> QED  BY <4>4 DEF p, z
    <3> QED  BY <1>3, <2>3, <3>9
  <2>7. CASE ~(i + d <= n)
    <3>1. i = n + 1 - d /\ s = At  BY <1>3, <2>1, <2>2, <2>7
    <3>2. Cardinality(Missing(s)) <= m - Len(fetcher.todo)
      <4>1. Cardinality(Missing(At)) <= m - Len(fetcher.todo)  BY DEF Listing, At
      <4>2. Missing(At) = Missing(s)  BY <3>1
      <4> QED  BY <4>1, <4>2
    <3>3. n + 1 - d - i + Cardinality(Missing(s)') <= m + 2 * Cardinality(NearAfter(i)')
      <4> DEFINE p == Cardinality(Missing(s)')
                 q == Cardinality(Missing(s))
                 z == Cardinality(NearAfter(i)')
                 l == Len(fetcher.todo)
      <4>1. /\ p \in Nat /\ q \in Nat /\ z \in Nat /\ n \in Nat /\ i = n + 1 - d
            /\ d \in Nat /\ m \in Nat /\ q <= m - l /\ p <= q + 1 /\ l \in Nat /\ l >= 1
        BY <1>1, <1>3, <2>4, <2>5, <3>1, <3>2
      <4> HIDE DEF p, q, z, n, m, l
      <4>2. n + 1 - d - i + p <= m + 2 * z  BY ONLY <4>1
      <4> QED  BY <4>2 DEF p, z
    <3> QED  BY <1>3, <2>3, <3>3
  <2> QED  BY <2>6, <2>7
<1> QED  BY <1>2, <1>5 DEF Remembered

LEMMA EndSegmentKeepsList ==
  ASSUME RemembersEnough, BaseInv, BaseInv', Listing, Remembered, LineUp, EndSegment
  PROVE  Listing' /\ Remembered' /\ LineUp'
<1>1. /\ fetcher.pc = "room" /\ fetcher'.pc = "next" /\ fetcher.todo # << >>
      /\ fetcher'.todo = Tail(fetcher.todo)
      /\ UNCHANGED <<published, refetched, dropped, cleared>>
  <2>1. fetcher.pc = "room" /\ refetched' = refetched  BY DEF EndSegment, FetchAt
  <2>2. ~EndOfList  BY <2>1 DEF EndOfList, FetchAt
  <2> QED  BY <2>1, <2>2, NextBase
<1>2. ~Known /\ ~TooOld  BY <1>1 DEF LineUp
<1>3. Newest <= Newest' /\ Oldest <= Oldest'  BY <1>1, TailFacts
<1>4. At \in Segment /\ At <= Newest /\ Recent(At)  BY <1>1, <1>2, AtFacts, TakenUpIsRecent
<1>5. PICK d : Remembers(d) /\ (d = 1 => Len(processed) >= Remember)
  BY <1>4, EndSegmentRemembers
<1>6. /\ At \in Range(processed')
      /\ \A v \in Range(processed) : v \in Range(processed') \/ (d = 1 /\ v = processed[1])
  BY <1>2, <1>3, <1>4, <1>5, RememberedSet
<1>7. \E x \in Segment :
        /\ d = 1 => x = processed[1] /\ ~Recent(x)
        /\ \A v \in Range(processed) : v \in Range(processed') \/ (d = 1 /\ v = x)
  <2>1. CASE d = 1
    <3>1. Len(processed) >= Remember /\ 1 <= Len(processed)  BY <1>5, <2>1 DEF Remembers
    <3>2. ~Recent(processed[1])  BY <1>2, <1>4, <3>1, OldestIsNotRecent
    <3>3. processed[1] \in Segment
      <4>1. processed \in Seq(Segment) /\ 1 \in 1 .. Len(processed)
        BY <3>1, ListHasShape DEF ListShape
      <4> QED  BY <4>1, ElementOfSeq
    <3>4. \A v \in Range(processed) : v \in Range(processed') \/ v = processed[1]  BY <1>6
    <3> QED  BY <2>1, <3>2, <3>3, <3>4
  <2>2. CASE d # 1
    <3>1. \A v \in Range(processed) : v \in Range(processed')  BY <1>6, <2>2
    <3> QED  BY <1>4, <2>2, <3>1
  <2> QED  BY <2>1, <2>2
<1>8. PICK x \in Segment :
        /\ d = 1 => x = processed[1] /\ ~Recent(x)
        /\ \A v \in Range(processed) : v \in Range(processed') \/ (d = 1 /\ v = x)
  BY <1>7
<1>9. Remembered'
  <2>1. /\ d = 1 => x = processed[1]
        /\ \A v \in Range(processed) : v \in Range(processed') \/ v = x
    BY <1>8
  <2> QED  BY <1>1, <1>2, <1>3, <1>5, <2>1, EndSegmentKeepsMemory
<1>10. \A v \in Range(processed) : Recent(v)' => v \in Range(processed')
  <2> TAKE v \in Range(processed)
  <2> HAVE Recent(v)'
  <2>1. v \in Segment  BY ListHasShape DEF ListShape
  <2>2. Recent(v)  BY <1>3, <2>1, ListMovesOn
  <2> QED  BY <1>8, <2>2
<1>11. \A s : \A t \in Missing(s)' : t \in Missing(s) \/ (t = x /\ ~Recent(t)')
  <2> TAKE s
  <2> TAKE t \in Missing(s)'
  <2>1. t \notin Range(processed') /\ t \in Segment  BY DEF Missing
  <2>2. CASE t \in Range(processed)
    <3>1. t = x  BY <1>8, <2>1, <2>2
    <3>2. ~Recent(t)'  BY <1>10, <2>1, <2>2
    <3> QED  BY <3>1, <3>2
  <2>3. CASE t \notin Range(processed)  BY <1>3, <2>3, ListMovesOn
  <2> QED  BY <2>2, <2>3
<1>12. Listing'
  <2>1. ASSUME NEW s, s = At + 1
        PROVE  \/ Missing(s)' \subseteq Missing(At)
               \/ /\ ~TooOld
                  /\ \E e \in Segment : /\ Missing(s)' \subseteq Missing(At) \union {e}
                                        /\ Recent(e)' => e \in refetched'
    <3>1. ASSUME NEW t \in Missing(s)' PROVE t \in Missing(At) \/ (t = x /\ ~Recent(t)')
      <4>1. t \in Segment /\ t < s /\ t # At /\ Segment \subseteq Nat
        BY <1>6, Constants DEF Missing
      <4>2. t < At  BY <1>4, <2>1, <4>1
      <4>3. t \in Missing(s) \/ (t = x /\ ~Recent(t)')  BY <1>11
      <4> QED  BY <4>2, <4>3 DEF Missing
    <3>2. CASE x \in Missing(s)' /\ ~Recent(x)'
      <4>1. Missing(s)' \subseteq Missing(At) \union {x}  BY <3>1
      <4> QED  BY <1>2, <3>2, <4>1
    <3>3. CASE ~(x \in Missing(s)' /\ ~Recent(x)')
      <4>1. Missing(s)' \subseteq Missing(At)  BY <3>1, <3>3
      <4> QED  BY <4>1
    <3> QED  BY <3>2, <3>3
  <2> QED  BY <1>1, <2>1, ListingMovesOn
<1>13. LineUp'
  <2> DEFINE L == Line'
  <2>1. /\ Line' \in Seq(Packet) /\ Len(Line') \in Nat /\ DOMAIN Line' = 1 .. Len(Line')
        /\ \A i \in 1 .. Len(Line') : i \in 1 .. Len(Line) /\ Line'[i] = Line[i]
    BY LineCutShort
  <2>2. /\ DOMAIN Line = 1 .. Len(Line) /\ Range(Line) = {Line[i] : i \in 1 .. Len(Line)}
        /\ \A i \in 1 .. Len(Line) : Line[i] \in Packet
    <3>1. Line \in Seq(Packet)  BY LineFacts
    <3> QED  BY <3>1, LineFacts, ElementOfSeq
  <2>3. Range(L) \subseteq Range(Line)
    <3>1. Range(L) = {L[i] : i \in 1 .. Len(L)}  BY <2>1, RangeEquality
    <3> HIDE DEF L
    <3>2. \A i \in 1 .. Len(L) : i \in 1 .. Len(Line) /\ L[i] = Line[i]  BY <2>1 DEF L
    <3> QED  BY <2>2, <3>1, <3>2
  <2>4. \A p \in Range(Line) \union dropped : p.segment \in Segment
    <3>1. Range(Line) \subseteq Packet /\ dropped \subseteq Packet
      BY <2>2 DEF BaseInv, TypeOK
    <3> QED  BY <3>1 DEF Packet
  <2>5. \A i, j \in DOMAIN Line' : i < j =>
          \/ Precedes(Line'[i], Line'[j])
          \/ Line'[i].segment > Line'[j].segment /\ Line'[j].segment \in refetched'
    <3>1. \A i, j \in DOMAIN Line : i < j =>
            \/ Precedes(Line[i], Line[j])
            \/ Line[i].segment > Line[j].segment /\ Line[j].segment \in refetched
      BY DEF LineUp
    <3> QED  BY <1>1, <2>1, <2>2, <3>1
  <2>6. \A p \in Range(L), q \in dropped' : ~ Same(p, q)
    <3>1. \A p \in Range(Line), q \in dropped : ~ Same(p, q)  BY DEF LineUp
    <3> QED  BY <1>1, <2>3, <3>1
  <2>7. cleared' = {}  BY <1>1 DEF LineUp
  <2>8. \A p \in Range(L) \union dropped' : Recent(p.segment)' => p.segment \in Range(processed')
    <3> TAKE p \in Range(L) \union dropped'
    <3> HAVE Recent(p.segment)'
    <3>1. p \in Range(Line) \union dropped /\ p.segment \in Segment  BY <1>1, <2>3, <2>4
    <3>2. Recent(p.segment)  BY <1>3, <3>1, ListMovesOn
    <3>3. p.segment \in Range(processed) \/ p.segment = At  BY <3>1, <3>2 DEF LineUp
    <3> QED  BY <1>6, <1>10, <3>3
  <2>9. \A p \in Range(L) : \A s \in Missing(p.segment)' : Recent(s)' => s \in refetched'
    <3> TAKE p \in Range(L)
    <3> TAKE s \in Missing(p.segment)'
    <3> HAVE Recent(s)'
    <3>1. s \in Missing(p.segment) /\ s \in Segment  BY <1>11 DEF Missing
    <3>2. Recent(s)  BY <1>3, <3>1, ListMovesOn
    <3> QED  BY <1>1, <2>3, <3>1, <3>2 DEF LineUp
  <2>10. fetcher'.pc \notin {"room", "wait", "add"}  BY <1>1
  <2> QED  BY <2>5, <2>6, <2>7, <2>8, <2>9, <2>10 DEF LineUp
<1> QED  BY <1>9, <1>12, <1>13

-----------------------------------------------------------------------------
(* The steps that change the line.                                         *)

\* Packets of which one comes before or overtakes the other are not the same.
LEMMA OrderedAreDistinct ==
  ASSUME NEW p \in Packet, NEW q \in Packet, Precedes(p, q) \/ p.segment > q.segment
  PROVE  ~ Same(p, q) /\ ~ Same(q, p)
<1>1. p.segment \in Nat /\ q.segment \in Nat /\ p.part \in Nat /\ q.part \in Nat
  <2>1. /\ p.segment \in Segment /\ q.segment \in Segment
        /\ p.part \in 1 .. PerSegment /\ q.part \in 1 .. PerSegment
    BY DEF Packet
  <2>2. Segment \subseteq Nat  BY Constants
  <2>3. \A k \in 1 .. PerSegment : k \in Nat  BY Constants
  <2>4. p.part \in Nat /\ q.part \in Nat  BY <2>1, <2>3
  <2> QED  BY <2>1, <2>2, <2>4
<1> QED  BY <1>1 DEF Precedes, Same

\* A segment is taken up that no packet in line is of. Newer ones in line have
\* overtaken it because its download failed.
LEMMA FetchKeepsList ==
  ASSUME BaseInv, BaseInv', Listing, Remembered, LineUp, FetchSegment
  PROVE  Listing' /\ Remembered' /\ LineUp'
<1>1. /\ fetcher.pc = "next" /\ fetcher'.pc = "room" /\ fetcher.todo # << >>
      /\ fetcher'.todo = fetcher.todo /\ At \in Segment
      /\ UNCHANGED <<published, processed, refetched, dropped, cleared>>
      /\ ~Known /\ ~TooOld
  BY FetchSegmentBase DEF FetchSegment
<1>2. Newest' = Newest /\ Oldest' = Oldest  BY <1>1 DEF Newest, Oldest
<1>3. Newest <= Newest' /\ Oldest <= Oldest'
  <2>1. Newest \in Nat /\ Oldest \in Int  BY ListHasShape DEF ListShape
  <2> QED  BY <1>2, <2>1
<1>4. Remembered'  BY <1>1, <1>3, RememberedStays
<1>5. \A s : Missing(s)' = Missing(s)  BY <1>1, <1>2 DEF Missing
<1>6. \A s : Recent(s)' = Recent(s)  BY <1>2 DEF Recent
<1>7. TooOld' = TooOld /\ Known' = Known /\ At' = At  BY <1>1 DEF TooOld, Known, At
<1>8. Listing'
  <2>1. Newest' <= published'  BY <1>1, <1>2 DEF Listing
  <2>2. \A i \in DOMAIN fetcher'.todo : fetcher'.todo[i] = Newest' - Len(fetcher'.todo) + i
    BY <1>1, <1>2 DEF Listing
  <2>3. /\ Cardinality(Missing(Head(fetcher.todo)))
             <= (IF TooOld THEN 0 ELSE MaxSegments - Len(fetcher.todo))
        /\ \A s \in Missing(Head(fetcher.todo)) : Recent(s) => s \in refetched
    BY <1>1 DEF Listing
  <2>4. PICK h : h = Head(fetcher.todo) /\ h = Head(fetcher'.todo)  BY <1>1
  <2>5. Missing(Head(fetcher.todo))' = Missing(h)' /\ Missing(h)' = Missing(h)
    BY <1>5, <2>4 DEF Missing
  <2>6. Missing(Head(fetcher.todo))' = Missing(Head(fetcher.todo))  BY <2>4, <2>5
  <2>7. /\ Cardinality(Missing(Head(fetcher.todo))')
             <= (IF TooOld' THEN 0 ELSE MaxSegments - Len(fetcher'.todo))
        /\ \A s \in Missing(Head(fetcher.todo))' : Recent(s)' => s \in refetched'
    BY <1>1, <1>6, <1>7, <2>3, <2>6
  <2> QED  BY <2>1, <2>2, <2>7 DEF Listing
<1>9. Recent(At)  BY <1>1, TakenUpIsRecent
<1>10. At \notin Range(processed) /\ Oldest < At  BY <1>1, AtFacts DEF Known
<1> DEFINE n == Len(Line)
           L == Line'
<1>11. PICK new \in Seq(Packet) :
         /\ Line' = Line \o new /\ Len(new) = PerSegment
         /\ \A k \in 1 .. PerSegment :
              new[k] \in Packet /\ new[k].segment = At /\ new[k].part = k
  <2>1. frames \in Nat  BY DEF BaseInv, TypeOK
  <2>2. /\ PacketsOf(At) \in Seq(Packet) /\ Len(PacketsOf(At)) = PerSegment
        /\ \A k \in 1 .. PerSegment :
             PacketsOf(At)[k] = [segment |-> At, part |-> k, frame |-> frames + k]
    BY <1>1, <2>1, PacketsFacts
  <2>3. \A k \in 1 .. PerSegment : PacketsOf(At)[k] \in Packet  BY <2>2, ElementOfSeq
  <2>4. \A k \in 1 .. PerSegment : PacketsOf(At)[k].segment = At /\ PacketsOf(At)[k].part = k
    BY <2>2
  <2> QED  BY <2>2, <2>3, <2>4, LineGrows
<1>12. /\ Line \in Seq(Packet) /\ n \in Nat /\ DOMAIN Line = 1 .. n /\ PerSegment \in Nat
       /\ Range(Line) = {Line[i] : i \in 1 .. n}
       /\ \A i \in 1 .. n : Line[i] \in Packet
  <2>1. Line \in Seq(Packet)  BY LineFacts
  <2> QED  BY <2>1, LineFacts, ElementOfSeq, Constants
<1>13. /\ Line' \in Seq(Packet) /\ DOMAIN Line' = 1 .. n + PerSegment
       /\ \A i \in 1 .. n + PerSegment : Line'[i] = (IF i <= n THEN Line[i] ELSE new[i - n])
       /\ Range(L) = {L[i] : i \in 1 .. n + PerSegment}
  <2>1. /\ Line' \in Seq(Packet) /\ Len(Line') = n + PerSegment
        /\ \A i \in 1 .. n + PerSegment : Line'[i] = (IF i <= n THEN Line[i] ELSE new[i - n])
    BY <1>11, <1>12, ConcatProperties
  <2>2. DOMAIN Line' = 1 .. n + PerSegment  BY <2>1, LenProperties
  <2>3. Range(L) = {L[i] : i \in 1 .. Len(L)}  BY <2>1, RangeEquality
  <2> QED  BY <2>1, <2>2, <2>3
<1> HIDE DEF n, L
\* What is in line already, and what comes to it.
<1>14. \A i \in 1 .. n + PerSegment :
         \/ i \in 1 .. n /\ Line'[i] = Line[i]
         \/ /\ ~(i \in 1 .. n) /\ i - n \in 1 .. PerSegment /\ Line'[i] = new[i - n]
            /\ Line'[i] \in Packet /\ Line'[i].segment = At /\ Line'[i].part = i - n
  <2> TAKE i \in 1 .. n + PerSegment
  <2>1. CASE i <= n  BY <1>12, <1>13, <2>1
  <2>2. CASE ~(i <= n)
    <3>1. ~(i \in 1 .. n) /\ i - n \in 1 .. PerSegment  BY <1>12, <2>2
    <3>2. Line'[i] = new[i - n]  BY <1>13, <2>2
    <3>3. /\ new[i - n] \in Packet /\ new[i - n].segment = At /\ new[i - n].part = i - n
      BY <1>11, <3>1
    <3> QED  BY <3>1, <3>2, <3>3
  <2> QED  BY <2>1, <2>2
<1>15. \A p \in Range(L) : p \in Range(Line) \/ p.segment = At
  <2> TAKE p \in Range(L)
  <2>1. PICK i \in 1 .. n + PerSegment : p = L[i]  BY <1>13
  <2>2. i \in 1 .. n => p \in Range(Line)  BY <1>12, <1>14, <2>1 DEF L
  <2> QED  BY <1>14, <2>1, <2>2 DEF L
<1>16. \A p \in Range(Line) \union dropped : p.segment # At
  <2> TAKE p \in Range(Line) \union dropped
  <2>1. Recent(p.segment) => p.segment \in Range(processed)  BY <1>1 DEF LineUp
  <2> QED  BY <1>9, <1>10, <2>1
<1>17. \A i, j \in DOMAIN Line' : i < j =>
         \/ Precedes(Line'[i], Line'[j])
         \/ Line'[i].segment > Line'[j].segment /\ Line'[j].segment \in refetched'
  <2> SUFFICES ASSUME NEW i \in 1 .. n + PerSegment, NEW j \in 1 .. n + PerSegment, i < j
               PROVE  \/ Precedes(Line'[i], Line'[j])
                      \/ Line'[i].segment > Line'[j].segment /\ Line'[j].segment \in refetched'
    BY <1>13
  <2>1. CASE j \in 1 .. n
    <3>1. i \in 1 .. n  BY <1>12, <2>1
    <3>2. Line'[i] = Line[i] /\ Line'[j] = Line[j]  BY <1>14, <2>1, <3>1
    <3>3. \/ Precedes(Line[i], Line[j])
          \/ Line[i].segment > Line[j].segment /\ Line[j].segment \in refetched
      BY <1>12, <2>1, <3>1 DEF LineUp
    <3> QED  BY <1>1, <3>2, <3>3
  <2>2. CASE ~(j \in 1 .. n) /\ i \in 1 .. n
    <3>1. Line'[i] = Line[i] /\ Line'[j].segment = At  BY <1>14, <2>2
    <3>2. Line[i] \in Range(Line) /\ Line[i].segment \in Segment
      BY <1>12, <2>2 DEF Packet
    <3>3. Line[i].segment # At  BY <1>16, <3>2
    <3>4. CASE Line[i].segment < At  BY <3>1, <3>4 DEF Precedes
    <3>5. CASE ~(Line[i].segment < At)
      <4>1. Line[i].segment > At /\ At < Line[i].segment
        <5> DEFINE l == Line[i].segment
                   e == At
        <5>1. l \in Nat /\ e \in Nat /\ l # e /\ ~(l < e)
          BY <1>1, <3>2, <3>3, <3>5, Constants
        <5> HIDE DEF l, e
        <5>2. l > e /\ e < l  BY <5>1
        <5> QED  BY <5>2 DEF l, e
      <4>2. At < Line[i].segment  BY <4>1
      <4>3. At \in Missing(Line[i].segment)  BY <1>1, <1>10, <4>2 DEF Missing
      <4>4. At \in refetched  BY <1>9, <3>2, <4>3 DEF LineUp
      <4> QED  BY <1>1, <3>1, <4>1, <4>4
    <3> QED  BY <3>4, <3>5
  <2>3. CASE ~(j \in 1 .. n) /\ ~(i \in 1 .. n)
    <3>1. /\ Line'[i].segment = At /\ Line'[j].segment = At
          /\ Line'[i].part = i - n /\ Line'[j].part = j - n
      BY <1>14, <2>3
    <3>2. i - n < j - n  BY <1>12
    <3>3. Line'[i].segment = Line'[j].segment /\ Line'[i].part < Line'[j].part  BY <3>1, <3>2
    <3> QED  BY <3>3 DEF Precedes
  <2> QED  BY <2>1, <2>2, <2>3
<1>18. \A p \in Range(L), q \in dropped' : ~ Same(p, q)
  <2> TAKE p \in Range(L), q \in dropped'
  <2>1. q \in dropped  BY <1>1
  <2>2. CASE p \in Range(Line)  BY <2>1, <2>2 DEF LineUp
  <2>3. CASE p.segment = At  BY <1>16, <2>1, <2>3 DEF Same
  <2> QED  BY <1>15, <2>2, <2>3
<1>19. cleared' = {}  BY <1>1 DEF LineUp
<1>20. \A p \in Range(L) \union dropped' : Recent(p.segment)' =>
         \/ p.segment \in Range(processed')
         \/ fetcher'.pc \in {"room", "wait", "add"} /\ p.segment = Head(fetcher'.todo)
  <2> TAKE p \in Range(L) \union dropped'
  <2> HAVE Recent(p.segment)'
  <2>1. CASE p.segment = At  BY <1>1, <2>1 DEF At
  <2>2. CASE p \in Range(Line) \union dropped
    <3>1. Recent(p.segment)  BY <1>6
    <3> QED  BY <1>1, <2>2, <3>1 DEF LineUp
  <2> QED  BY <1>1, <1>15, <2>1, <2>2
<1>21. \A p \in Range(L) : \A s \in Missing(p.segment)' : Recent(s)' => s \in refetched'
  <2> TAKE p \in Range(L)
  <2> TAKE s \in Missing(p.segment)'
  <2> HAVE Recent(s)'
  <2>1. s \in Missing(p.segment) /\ Recent(s)  BY <1>5, <1>6
  <2>2. CASE p \in Range(Line)  BY <1>1, <2>1, <2>2 DEF LineUp
  <2>3. CASE p.segment = At
    <3>1. s \in Missing(Head(fetcher.todo))  BY <2>1, <2>3 DEF At
    <3> QED  BY <1>1, <2>1, <3>1 DEF Listing
  <2> QED  BY <1>15, <2>2, <2>3
<1>22. ~Known' /\ ~TooOld'  BY <1>1, <1>7
<1> QED  BY <1>4, <1>8, <1>17, <1>18, <1>19, <1>20, <1>21, <1>22 DEF LineUp, At, L

\* What AddPacket throws away is no longer in line; the rest stays in order.
LEMMA AddKeepsList ==
  ASSUME BaseInv, BaseInv', Listing, Remembered, LineUp, AddNext
  PROVE  Listing' /\ Remembered' /\ LineUp'
<1>1. /\ fetcher.pc = "add" /\ fetcher'.pc = "room" /\ fetcher'.todo = fetcher.todo
      /\ UNCHANGED <<published, processed, refetched, cleared>>
  BY AddNextBase
<1>2. Newest' = Newest /\ Oldest' = Oldest  BY <1>1 DEF Newest, Oldest
<1>3. Newest <= Newest' /\ Oldest <= Oldest'
  <2>1. Newest \in Nat /\ Oldest \in Int  BY ListHasShape DEF ListShape
  <2> QED  BY <1>2, <2>1
<1>4. Remembered'  BY <1>1, <1>3, RememberedStays
<1>5. \A s : Missing(s)' = Missing(s)  BY <1>1, <1>2 DEF Missing
<1>6. \A s : Recent(s)' = Recent(s)  BY <1>2 DEF Recent
<1>7. TooOld' = TooOld /\ Known' = Known /\ At' = At  BY <1>1 DEF TooOld, Known, At
<1>8. Listing'
  <2>1. Newest' <= published'  BY <1>1, <1>2 DEF Listing
  <2>2. \A i \in DOMAIN fetcher'.todo : fetcher'.todo[i] = Newest' - Len(fetcher'.todo) + i
    BY <1>1, <1>2 DEF Listing
  <2>3. ASSUME fetcher'.todo # << >>
        PROVE  /\ Cardinality(Missing(Head(fetcher.todo))')
                    <= (IF TooOld' THEN 0 ELSE MaxSegments - Len(fetcher'.todo))
               /\ \A s \in Missing(Head(fetcher.todo))' : Recent(s)' => s \in refetched'
    <3>1. PICK h : h = Head(fetcher.todo) /\ h = Head(fetcher'.todo)  BY <1>1
    <3>2. Missing(Head(fetcher.todo))' = Missing(h)' /\ Missing(h)' = Missing(h)
      BY <1>5, <3>1 DEF Missing
    <3>3. Missing(Head(fetcher.todo))' = Missing(Head(fetcher.todo))  BY <3>1, <3>2
    <3>4. /\ Cardinality(Missing(Head(fetcher.todo)))
               <= (IF TooOld THEN 0 ELSE MaxSegments - Len(fetcher.todo))
          /\ \A s \in Missing(Head(fetcher.todo)) : Recent(s) => s \in refetched
      BY <1>1, <2>3 DEF Listing
    <3> QED  BY <1>1, <1>6, <1>7, <3>3, <3>4
  <2> QED  BY <2>1, <2>2, <2>3 DEF Listing
<1>9. PICK x, a, y \in Seq(Packet) :
        Line = x \o (a \o y) /\ Line' = x \o y /\ dropped' = dropped \union Range(a)
  BY LineCutOut
<1> DEFINE n == Len(Line)
           nx == Len(x)
           na == Len(a)
           ny == Len(y)
           L == Line'
<1>10. nx \in Nat /\ na \in Nat /\ ny \in Nat  BY LenProperties
\* The packets that were thrown away, and the rest, at their old places.
<1>11. /\ n = nx + (na + ny)
       /\ \A i \in 1 .. na : nx + i \in 1 .. n /\ Line[nx + i] = a[i]
       /\ \A i \in 1 .. nx : i \in 1 .. n /\ Line[i] = x[i]
       /\ \A i \in 1 .. ny : nx + na + i \in 1 .. n /\ Line[nx + na + i] = y[i]
  <2>1. /\ a \o y \in Seq(Packet) /\ Len(a \o y) = na + ny
        /\ \A i \in 1 .. na + ny : (a \o y)[i] = (IF i <= na THEN a[i] ELSE y[i - na])
    BY ConcatProperties
  <2> DEFINE z == a \o y
  <2> HIDE DEF z
  <2>2. /\ Len(x \o z) = nx + (na + ny)
        /\ \A i \in 1 .. nx + (na + ny) : (x \o z)[i] = (IF i <= nx THEN x[i] ELSE z[i - nx])
    <3>1. x \in Seq(Packet) /\ z \in Seq(Packet)  BY <2>1 DEF z
    <3>2. /\ Len(x \o z) = Len(x) + Len(z)
          /\ \A i \in 1 .. Len(x) + Len(z) :
               (x \o z)[i] = (IF i <= Len(x) THEN x[i] ELSE z[i - Len(x)])
      BY ONLY <3>1, ConcatProperties
    <3>3. Len(z) = na + ny  BY <2>1 DEF z
    <3> QED  BY <3>2, <3>3
  <2>3. /\ Line = x \o z
        /\ \A i \in 1 .. na + ny : z[i] = (IF i <= na THEN a[i] ELSE y[i - na])
    BY <1>9, <2>1 DEF z
  <2>4. n = nx + (na + ny)  BY <2>2, <2>3
  <2> DEFINE l == Line
  <2>5. \A i \in 1 .. nx + (na + ny) : l[i] = (IF i <= nx THEN x[i] ELSE z[i - nx])
    BY <2>2, <2>3
  <2> HIDE DEF n, nx, na, ny, l
  <2>6. ASSUME NEW i \in 1 .. na PROVE nx + i \in 1 .. n /\ l[nx + i] = a[i]
    <3>1. PICK k \in 1 .. nx + (na + ny) : k = nx + i /\ ~(k <= nx) /\ k - nx = i
      BY <1>10
    <3>2. l[k] = z[i]  BY <2>5, <3>1
    <3>3. i \in 1 .. na + ny /\ i <= na  BY <1>10
    <3>4. z[i] = a[i]  BY <2>3, <3>3
    <3> QED  BY <2>4, <3>1, <3>2, <3>4
  <2>7. ASSUME NEW i \in 1 .. nx PROVE i \in 1 .. n /\ l[i] = x[i]
    <3>1. i \in 1 .. nx + (na + ny) /\ i <= nx  BY <1>10
    <3> QED  BY <2>4, <2>5, <3>1
  <2>8. ASSUME NEW i \in 1 .. ny PROVE nx + na + i \in 1 .. n /\ l[nx + na + i] = y[i]
    <3>1. PICK k \in 1 .. nx + (na + ny) : k = nx + na + i /\ ~(k <= nx) /\ k - nx = na + i
      BY <1>10
    <3>2. PICK o \in 1 .. na + ny : o = na + i /\ ~(o <= na) /\ o - na = i  BY <1>10
    <3>3. l[k] = z[o]  BY <2>5, <3>1, <3>2
    <3>4. z[o] = y[i]  BY <2>3, <3>2
    <3> QED  BY <2>4, <3>1, <3>3, <3>4
  <2> QED  BY <2>4, <2>6, <2>7, <2>8 DEF l
<1>12. /\ Line' \in Seq(Packet) /\ DOMAIN Line' = 1 .. nx + ny
       /\ \A i \in 1 .. nx + ny : Line'[i] = (IF i <= nx THEN x[i] ELSE y[i - nx])
       /\ Range(L) = {L[i] : i \in 1 .. nx + ny} /\ Range(a) = {a[i] : i \in 1 .. na}
  <2>1. /\ Line' \in Seq(Packet) /\ Len(Line') = nx + ny
        /\ \A i \in 1 .. nx + ny : Line'[i] = (IF i <= nx THEN x[i] ELSE y[i - nx])
    BY <1>9, ConcatProperties
  <2>2. DOMAIN Line' = 1 .. nx + ny  BY <2>1, LenProperties
  <2>3. Range(L) = {L[i] : i \in 1 .. Len(L)} /\ Range(a) = {a[i] : i \in 1 .. na}
    BY <2>1, RangeEquality
  <2> QED  BY <2>1, <2>2, <2>3
<1> DEFINE old(i) == IF i <= nx THEN i ELSE i + na
<1> HIDE DEF n, nx, na, ny, L
<1>13. \A i \in 1 .. nx + ny : old(i) \in 1 .. n /\ Line'[i] = Line[old(i)]
  <2> TAKE i \in 1 .. nx + ny
  <2>1. CASE i <= nx
    <3>1. i \in 1 .. nx  BY <1>10, <2>1
    <3> QED  BY <1>11, <1>12, <2>1, <3>1
  <2>2. CASE ~(i <= nx)
    <3>1. i - nx \in 1 .. ny /\ nx + na + (i - nx) = i + na  BY <1>10, <2>2
    <3>2. Line'[i] = y[i - nx]  BY <1>12, <2>2
    <3> QED  BY <1>11, <2>2, <3>1, <3>2
  <2> QED  BY <2>1, <2>2
<1>14. \A i \in 1 .. nx + ny : \A j \in 1 .. nx + ny : i < j => old(i) < old(j)
  BY <1>10
<1>15. \A i \in 1 .. nx + ny : \A k \in 1 .. na : old(i) # nx + k
  BY <1>10
<1> HIDE DEF old
<1>16. /\ DOMAIN Line = 1 .. n /\ Range(Line) = {Line[i] : i \in 1 .. n} /\ n \in Nat
       /\ \A i \in 1 .. n : Line[i] \in Packet
  <2>1. Line \in Seq(Packet)  BY LineFacts
  <2> QED  BY <2>1, LineFacts, ElementOfSeq DEF n
<1>17. Range(L) \subseteq Range(Line) /\ Range(a) \subseteq Range(Line)
  <2>1. \A p \in Range(L) : p \in Range(Line)
    <3> TAKE p \in Range(L)
    <3>1. PICK i \in 1 .. nx + ny : p = L[i]  BY <1>12
    <3>2. old(i) \in 1 .. n /\ p = Line[old(i)]  BY <1>13, <3>1 DEF L
    <3> QED  BY <1>16, <3>2
  <2>2. \A p \in Range(a) : p \in Range(Line)
    <3> TAKE p \in Range(a)
    <3>1. PICK i \in 1 .. na : p = a[i]  BY <1>12
    <3>2. nx + i \in 1 .. n /\ p = Line[nx + i]  BY <1>11, <3>1
    <3> QED  BY <1>16, <3>2
  <2> QED  BY <2>1, <2>2
<1>18. \A i, j \in DOMAIN Line' : i < j =>
         \/ Precedes(Line'[i], Line'[j])
         \/ Line'[i].segment > Line'[j].segment /\ Line'[j].segment \in refetched'
  <2> SUFFICES ASSUME NEW i \in 1 .. nx + ny, NEW j \in 1 .. nx + ny, i < j
               PROVE  \/ Precedes(Line'[i], Line'[j])
                      \/ Line'[i].segment > Line'[j].segment /\ Line'[j].segment \in refetched'
    BY <1>12
  <2>1. old(i) < old(j) /\ old(i) \in 1 .. n /\ old(j) \in 1 .. n  BY <1>13, <1>14
  <2>2. \/ Precedes(Line[old(i)], Line[old(j)])
        \/ Line[old(i)].segment > Line[old(j)].segment /\ Line[old(j)].segment \in refetched
    BY <1>16, <2>1 DEF LineUp
  <2>3. Line'[i] = Line[old(i)] /\ Line'[j] = Line[old(j)]  BY <1>13
  <2> QED  BY <1>1, <2>2, <2>3
<1>19. \A p \in Range(L), q \in dropped' : ~ Same(p, q)
  <2> TAKE p \in Range(L), q \in dropped'
  <2>1. CASE q \in dropped  BY <1>17, <2>1 DEF LineUp
  <2>2. CASE q \in Range(a)
    <3>1. PICK i \in 1 .. nx + ny : p = L[i]  BY <1>12
    <3>2. PICK k \in 1 .. na : q = a[k]  BY <1>12, <2>2
    <3>3. PICK u \in 1 .. n : u = old(i) /\ p = Line[u]  BY <1>13, <3>1 DEF L
    <3>4. PICK v \in 1 .. n : v = nx + k /\ q = Line[v]  BY <1>11, <3>2
    <3>5. u # v  BY <1>15, <3>3, <3>4
    <3>6. p \in Packet /\ q \in Packet  BY <1>16, <3>3, <3>4
    <3>7. CASE u < v
      <4>1. Precedes(p, q) \/ p.segment > q.segment  BY <1>16, <3>3, <3>4, <3>7 DEF LineUp
      <4> QED  BY <3>6, <4>1, OrderedAreDistinct
    <3>8. CASE v < u
      <4>1. Precedes(q, p) \/ q.segment > p.segment  BY <1>16, <3>3, <3>4, <3>8 DEF LineUp
      <4> QED  BY <3>6, <4>1, OrderedAreDistinct
    <3>9. u < v \/ v < u  BY <1>16, <3>5
    <3> QED  BY <3>7, <3>8, <3>9
  <2> QED  BY <1>9, <2>1, <2>2
<1>20. cleared' = {}  BY <1>1 DEF LineUp
<1>21. \A p \in Range(L) \union dropped' : Recent(p.segment)' =>
         \/ p.segment \in Range(processed')
         \/ fetcher'.pc \in {"room", "wait", "add"} /\ p.segment = Head(fetcher'.todo)
  <2> TAKE p \in Range(L) \union dropped'
  <2> HAVE Recent(p.segment)'
  <2>1. p \in Range(Line) \union dropped /\ Recent(p.segment)  BY <1>6, <1>9, <1>17
  <2>2. \/ p.segment \in Range(processed)
        \/ fetcher.pc \in {"room", "wait", "add"} /\ p.segment = Head(fetcher.todo)
    BY <2>1 DEF LineUp, At
  <2> QED  BY <1>1, <2>2
<1>22. \A p \in Range(L) : \A s \in Missing(p.segment)' : Recent(s)' => s \in refetched'
  <2> TAKE p \in Range(L)
  <2> TAKE s \in Missing(p.segment)'
  <2> HAVE Recent(s)'
  <2>1. s \in Missing(p.segment) /\ Recent(s) /\ p \in Range(Line)  BY <1>5, <1>6, <1>17
  <2> QED  BY <1>1, <2>1 DEF LineUp
<1>23. ~Known' /\ ~TooOld'  BY <1>1, <1>7 DEF LineUp
<1> QED  BY <1>4, <1>8, <1>18, <1>19, <1>20, <1>21, <1>22, <1>23 DEF LineUp, At, L

-----------------------------------------------------------------------------
(* Every packet once, and in order.                                        *)

\* What the other threads leave to the fetcher.
LEMMA OthersLeave ==
  ASSUME BaseInv, Main \/ Router \/ UserStops \/ Server \/ PlayerReads \/ PlayerExits
  PROVE  /\ UNCHANGED <<processed, refetched>>
         /\ fetcher'.todo = fetcher.todo /\ fetcher'.packets = fetcher.packets
         /\ fetcher'.pc \in {"room", "wait", "add"} <=> fetcher.pc \in {"room", "wait", "add"}
<1> USE DEF playerVars, bufferVars, fetchVars, frameVars, mainVars, serverVars, RouteKeeps,
            RouteLocal, RouteGoes, RouteAt, MainGoes, MainAt
<1>1. fetcher \in FetcherState  BY DEF BaseInv, TypeOK
<1>2. CASE StartRouting
  <2>1. /\ fetcher.pc = "none" /\ fetcher' = [fetcher EXCEPT !.pc = "poll"]
        /\ UNCHANGED <<processed, refetched>>
    BY <1>2 DEF StartRouting, BaseInv, Phases
  <2>2. /\ fetcher'.pc = "poll" /\ fetcher'.todo = fetcher.todo
        /\ fetcher'.packets = fetcher.packets
    BY <1>1, <2>1 DEF FetcherState
  <2> QED  BY <2>1, <2>2
<1>3. CASE ~StartRouting
  <2>1. UNCHANGED <<fetcher, processed, refetched>>
    <3>1. CASE Main
      BY <1>3, <3>1 DEF Main, LeaveMonitor, StopRouting, SignalEndOfStream, JoinFetcher,
        JoinRouter, Notify
    <3>2. CASE Router
      BY <3>2 DEF Router, LaunchMediaPlayer, LaunchFails, LeaveLoop, PlayerGone, KeepRouting,
        GetNextPacket, GetNothing, Idle, CompareFrames, StoreFrame, SendTSPacket, SendFails,
        CleanUp
    <3>3. CASE UserStops \/ Server \/ PlayerReads \/ PlayerExits
      BY <3>3 DEF UserStops, Server, PlayerReads, PlayerExits
    <3> QED  BY <3>1, <3>2, <3>3
  <2> QED  BY <2>1
<1> QED  BY <1>2, <1>3

\* Every step keeps what the invariant says of the list, of the memory and of the
\* line, as long as no playlist has shown a discontinuity.
LEMMA NextLineInv ==
  ASSUME RemembersEnough, LineInv, [Next]_vars
  PROVE  LineInv'
<1>1. BaseInv /\ BaseInv'  BY NextBaseInv DEF LineInv
<1> SUFFICES ASSUME Unbroken' PROVE Listing' /\ Remembered' /\ LineUp'
  BY <1>1 DEF LineInv
<1>2. Unbroken /\ published <= published'
  <2>1. CASE Next  BY <1>1, <2>1, NeverBack
  <2>2. CASE UNCHANGED vars
    <3>1. published' = published /\ Unbroken' = Unbroken
      BY <2>2 DEF vars, serverVars, Unbroken
    <3>2. published \in Nat  BY <1>1, ListHasShape DEF ListShape
    <3> QED  BY <3>1, <3>2
  <2> QED  BY <2>1, <2>2
<1>3. Listing /\ Remembered /\ LineUp  BY <1>2 DEF LineInv
<1> DEFINE Quietly == \/ EndFetch \/ RequestPlaylist \/ PollFails \/ PollEndList \/ PollEmpty
                      \/ FindRoom \/ FindFull \/ EndWait \/ EndOfFetch
           Others == Main \/ Router \/ UserStops \/ Server \/ PlayerReads \/ PlayerExits
<1>4. ~PollDiscontinuity /\ ~ResetFrameStatistics
  <2>1. ~PollDiscontinuity  BY <1>1, <1>2, PollBase
  <2>2. ~ResetFrameStatistics
    BY <1>1, <1>2 DEF ResetFrameStatistics, FetchAt, BaseInv, InTurn
  <2> QED  BY <2>1, <2>2
<1>5. CASE UNCHANGED vars
  <2>1. /\ Line' = Line /\ UNCHANGED <<dropped, cleared, processed, refetched, fetcher>>
    BY <1>5 DEF vars, playerVars, bufferVars, fetchVars, Line, InHand
  <2> QED  BY <1>1, <1>2, <1>3, <2>1, ListUntouched
<1>6. CASE Quietly \/ Others
  <2>1. Next  BY <1>6 DEF Next, Fetcher
  <2>2. /\ UNCHANGED <<processed, refetched>> /\ fetcher'.todo = fetcher.todo
        /\ fetcher'.pc \in {"room", "wait", "add"} <=> fetcher.pc \in {"room", "wait", "add"}
    <3>1. CASE Quietly  BY <1>1, <3>1, FetcherGoesBase
    <3>2. CASE Others  BY <1>1, <3>2, OthersLeave
    <3> QED  BY <1>6, <3>1, <3>2
  <2>3. Line' = Line /\ dropped' = dropped /\ cleared' = cleared
    <3>1. CASE FetchSegment
      <4>1. fetcher.pc \notin {"room", "wait", "add"} /\ fetcher'.pc = "room"
        BY <1>1, <3>1, FetchSegmentBase
      <4> QED  BY <2>2, <4>1
    <3>2. CASE EndSegment
      <4>1. fetcher.pc = "room" /\ fetcher'.pc \in {"next", "poll"}
        BY <1>1, <3>2, NextBase DEF EndSegment, FetchAt
      <4> QED  BY <2>2, <4>1
    <3>3. CASE AddNext
      <4>1. CASE Quietly
        <5>1. fetcher.pc = "add"  BY <3>3 DEF AddNext, FetchAt
        <5> QED
          BY <4>1, <5>1 DEF EndFetch, RequestPlaylist, PollFails, PollEndList, PollEmpty,
            FindRoom, FindFull, EndWait, EndOfFetch, Ready, MorePackets, FetchAt
      <4>2. CASE Others
        <5>1. /\ fetcher'.packets = Tail(fetcher.packets) /\ fetcher.packets # << >>
              /\ fetcher.packets \in Seq(Packet)
          BY <1>1, <3>3, AddNextBase, LineFacts
        <5>2. fetcher'.packets = fetcher.packets
          BY <1>1, <3>3, <4>2, OthersLeave
        <5> DEFINE f == fetcher.packets
        <5>3. f # << >> /\ f \in Seq(Packet)  BY <5>1
        <5> HIDE DEF f
        <5>4. Len(Tail(f)) = Len(f) - 1 /\ Len(f) \in Nat
          BY <5>3, HeadTailProperties, LenProperties
        <5>5. Len(Tail(f)) # Len(f)  BY <5>4
        <5>6. Tail(f) # f  BY <5>5
        <5> QED  BY <5>1, <5>2, <5>6 DEF f
      <4> QED  BY <1>6, <4>1, <4>2
    <3>4. CASE ~FetchSegment /\ ~EndSegment /\ ~AddNext  BY <1>1, <1>4, <2>1, <3>4, LineKept
    <3> QED  BY <3>1, <3>2, <3>3, <3>4
  <2> QED  BY <1>1, <1>2, <1>3, <2>2, <2>3, ListUntouched
<1>7. CASE PollSegments  BY <1>1, <1>3, <1>7, PollKeepsList
<1>8. CASE EndOfList  BY <1>1, <1>3, <1>8, LeavingKeepsList
<1>9. CASE SkipKnown \/ FetchFails  BY <1>1, <1>3, <1>9, SkippingKeepsList
<1>10. CASE SkipOld  BY <1>1, <1>3, <1>10, SkipOldKeepsList
<1>11. CASE FetchSegment  BY <1>1, <1>3, <1>11, FetchKeepsList
<1>12. CASE EndSegment  BY <1>1, <1>3, <1>12, EndSegmentKeepsList
<1>13. CASE AddNext  BY <1>1, <1>3, <1>13, AddKeepsList
<1> QED
  BY <1>4, <1>5, <1>6, <1>7, <1>8, <1>9, <1>10, <1>11, <1>12, <1>13 DEF Next, Fetcher

LEMMA LineInvariant ==
  ASSUME RemembersEnough
  PROVE  Spec => []LineInv
<1>1. Init => LineInv
  <2> SUFFICES ASSUME Init PROVE BaseInv /\ Listing /\ Remembered /\ LineUp
    BY DEF LineInv
  <2>1. BaseInv  BY InitBaseInv
  <2>2. /\ published = 0 /\ fetcher.todo = << >> /\ fetcher.pc = "none" /\ processed = << >>
        /\ dropped = {} /\ cleared = {}
        /\ delivered = << >> /\ buffer = << >> /\ router.packet = NoPacket
        /\ fetcher.packets = << >>
    BY DEF Init
  <2>3. Len(<< >>) = 0 /\ DOMAIN << >> = {} /\ Range(<< >>) = {}
    <3> DEFINE e == << >>
    <3>1. e \in Seq(Packet) /\ Len(e) = 0  BY EmptySeq
    <3>2. DOMAIN e = 1 .. Len(e)  BY <3>1, LenProperties
    <3>3. DOMAIN e = {}  BY <3>1, <3>2
    <3>4. Range(e) = {}  BY <3>3 DEF Range
    <3> QED  BY <3>1, <3>3, <3>4
  <2>4. Listing
    <3>1. Newest = 0  BY <2>2 DEF Newest
    <3> QED  BY <2>2, <2>3, <3>1 DEF Listing
  <2>5. Remembered  BY <2>2, <2>3 DEF Remembered
  <2>6. LineUp
    <3>1. << >> \o << >> = << >>
      <4> DEFINE e == << >>
      <4>1. e \in Seq(Packet)  BY EmptySeq
      <4> HIDE DEF e
      <4>2. e \o e = e
        <5>1. e = << >>  BY DEF e
        <5> QED  BY <4>1, <5>1, ConcatEmptySeq
      <4> QED  BY <4>2 DEF e
    <3>2. InHand = << >>  BY <2>2 DEF InHand
    <3>3. Line = << >>  BY <2>2, <3>1, <3>2 DEF Line
    <3> QED  BY <2>2, <2>3, <3>3 DEF LineUp
  <2> QED  BY <2>1, <2>4, <2>5, <2>6
<1>2. LineInv /\ [Next]_vars => LineInv'  BY NextLineInv
<1> QED  BY <1>1, <1>2, PTL DEF Spec

\* Packets in an orderly line are distinct.
LEMMA LineIsDistinct == LineInv => PacketsAreDistinct
<1> SUFFICES ASSUME LineInv, Unbroken
             PROVE  /\ \A i, j \in DOMAIN Line : i # j => ~ Same(Line[i], Line[j])
                    /\ \A p \in Range(Line), q \in dropped \union cleared : ~ Same(p, q)
  BY DEF PacketsAreDistinct
<1>1. LineUp /\ BaseInv  BY DEF LineInv
<1>2. Line \in Seq(Packet) /\ DOMAIN Line = 1 .. Len(Line) /\ Len(Line) \in Nat
  BY <1>1, LineFacts
<1>3. ASSUME NEW i \in DOMAIN Line, NEW j \in DOMAIN Line, i # j
      PROVE  ~ Same(Line[i], Line[j])
  <2>1. Line[i] \in Packet /\ Line[j] \in Packet  BY <1>2, ElementOfSeq
  <2>2. i < j \/ j < i  BY <1>2, <1>3
  <2>3. CASE i < j
    <3>1. Precedes(Line[i], Line[j]) \/ Line[i].segment > Line[j].segment
      BY <1>1, <2>3 DEF LineUp
    <3> QED  BY <2>1, <3>1, OrderedAreDistinct
  <2>4. CASE j < i
    <3>1. Precedes(Line[j], Line[i]) \/ Line[j].segment > Line[i].segment
      BY <1>1, <2>4 DEF LineUp
    <3> QED  BY <2>1, <3>1, OrderedAreDistinct
  <2> QED  BY <2>2, <2>3, <2>4
<1>4. \A p \in Range(Line), q \in dropped \union cleared : ~ Same(p, q)
  BY <1>1 DEF LineUp
<1> QED  BY <1>3, <1>4

\* The router's state is sound: among other things no packet is in line twice, or
\* again after AddPacket threw it away, until a playlist shows a discontinuity.
\* The fetcher remembers enough segments for that although the list it keeps of
\* them is cut (TransportStreamRouter::HLSFetcherThread).
THEOREM RouterSound ==
  ASSUME RemembersEnough
  PROVE  Spec => []Sound
<1>1. LineInv /\ ThreadsJoined => Sound
  BY LineIsDistinct DEF LineInv, BaseInv, Sound
<1> QED  BY <1>1, LineInvariant, RouterThreadsJoined, PTL

\* Packets are sent to the player in the order of the segments and of the packets
\* within, but for segments whose download failed before.
THEOREM OnlyRefetchedOvertakes ==
  ASSUME RemembersEnough
  PROVE  Spec => []OvertakesOnlyRefetched
<1>1. LineInv => OvertakesOnlyRefetched
  <2> SUFFICES ASSUME LineInv, Unbroken,
                      NEW i \in DOMAIN delivered, NEW j \in DOMAIN delivered, i < j
               PROVE  \/ delivered[i].segment < delivered[j].segment
                      \/ delivered[i].segment = delivered[j].segment
                         /\ delivered[i].part < delivered[j].part
                      \/ delivered[j].segment \in refetched
    BY DEF OvertakesOnlyRefetched
  <2>1. LineUp /\ BaseInv  BY DEF LineInv
  <2>2. /\ delivered \in Seq(Packet) /\ Len(delivered) \in Nat /\ Len(Line) \in Nat
        /\ DOMAIN Line = 1 .. Len(Line) /\ Len(InHand) \in Nat
        /\ Len(Line) >= Len(delivered) + Len(InHand)
        /\ \A k \in 1 .. Len(delivered) : Line[k] = delivered[k]
    <3>1. InHand \in Seq(Packet)  BY <2>1, LineFacts
    <3>2. Len(InHand) \in Nat  BY <3>1, LenProperties
    <3> QED  BY <2>1, <3>2, LineFacts
  <2>3. DOMAIN delivered = 1 .. Len(delivered)  BY <2>2, LenProperties
  <2>4. i \in DOMAIN Line /\ j \in DOMAIN Line  BY <2>2, <2>3
  <2>5. \/ Precedes(Line[i], Line[j])
        \/ Line[i].segment > Line[j].segment /\ Line[j].segment \in refetched
    BY <2>1, <2>4 DEF LineUp
  <2>6. Line[i] = delivered[i] /\ Line[j] = delivered[j]  BY <2>2, <2>3
  <2> QED  BY <2>5, <2>6 DEF Precedes
<1> QED  BY <1>1, LineInvariant, PTL
=============================================================================
