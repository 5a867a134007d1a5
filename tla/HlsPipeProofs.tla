----------------------------- MODULE HlsPipeProofs -----------------------------
(***************************************************************************)
(* Proofs about the HLS mode, for every number of segments, every size of  *)
(* buffer, pipe and playlist, and every limit on errors and retries: the   *)
(* inductive invariant HlsInv of HlsPipe and the safety properties that    *)
(* follow from it.                                                         *)
(***************************************************************************)
EXTENDS HlsPipe, DataLemmas, FiniteSetTheorems, SequenceTheorems, TLAPS

\* What the constants are, in the form the provers need.
LEMMA Constants ==
  /\ NSeg \in Nat /\ Window \in Nat /\ PipeRoom \in Nat \ {0} /\ MaxErrors \in Nat \ {0}
  /\ Targets \subseteq Nat /\ MaxCap \in Nat /\ Few \in Nat \ {0}
  /\ MaxAttempts \in Nat \ {0} /\ MaxEmptyWaits \in Nat \ {0}
  /\ Segment \subseteq Nat
  BY HlsPipeAssumption DEF Segment

\* The sets of segments are finite, and no larger than the stream.
LEMMA SegmentsFinite ==
  ASSUME NEW T \in SUBSET Segment
  PROVE  IsFiniteSet(T) /\ Cardinality(T) \in Nat /\ Cardinality(T) <= NSeg
<1>1. IsFiniteSet(Segment) /\ Cardinality(Segment) = NSeg
  <2>1. NSeg \in Int /\ 1 \in Int  BY Constants
  <2>2. IsFiniteSet(1 .. NSeg) /\ Cardinality(1 .. NSeg) = IF 1 > NSeg THEN 0 ELSE NSeg - 1 + 1
    BY <2>1, FS_Interval
  <2> QED  BY <2>2, Constants DEF Segment
<1> QED  BY <1>1, FS_Subset, FS_CardinalityType

\* Three sequences in line.
LEMMA ThreeInLine ==
  ASSUME NEW d \in Seq(Segment), NEW h \in Seq(Segment), NEW q \in Seq(Segment)
  PROVE  /\ d \o h \o q \in Seq(Segment)
         /\ Len(d \o h \o q) = Len(d) + Len(h) + Len(q)
         /\ Len(d) \in Nat /\ Len(h) \in Nat /\ Len(q) \in Nat
         /\ Range(d \o h \o q) = Range(d) \union Range(h) \union Range(q)
         /\ DOMAIN (d \o h \o q) = 1 .. Len(d) + Len(h) + Len(q)
         /\ \A i \in 1 .. Len(d) : (d \o h \o q)[i] = d[i]
         /\ \A i \in 1 .. Len(d) + Len(h) : (d \o h \o q)[i] = (d \o h)[i]
         /\ \A i \in 1 .. Len(q) : (d \o h \o q)[Len(d) + Len(h) + i] = q[i]
<1> DEFINE p == d \o h
<1>1. /\ p \in Seq(Segment) /\ Len(p) = Len(d) + Len(h)
      /\ Len(d) \in Nat /\ Len(h) \in Nat
      /\ Range(p) = Range(d) \union Range(h)
      /\ \A i \in 1 .. Len(d) : i \in 1 .. Len(p) /\ p[i] = d[i]
  BY Concatenated
<1> HIDE DEF p
<1>2. /\ p \o q \in Seq(Segment) /\ Len(p \o q) = Len(p) + Len(q)
      /\ Len(p) \in Nat /\ Len(q) \in Nat
      /\ Range(p \o q) = Range(p) \union Range(q)
      /\ \A i \in 1 .. Len(p) : i \in 1 .. Len(p \o q) /\ (p \o q)[i] = p[i]
      /\ \A i \in 1 .. Len(q) :
           Len(p) + i \in 1 .. Len(p \o q) /\ (p \o q)[Len(p) + i] = q[i]
  <2>1. p \in Seq(Segment)  BY <1>1
  <2> QED  BY ONLY <2>1, Concatenated, q \in Seq(Segment)
<1>3. DOMAIN (p \o q) = 1 .. Len(p \o q)  BY <1>2, LenProperties
<1> QED  BY <1>1, <1>2, <1>3 DEF p

\* The line, and how the segments are accounted for in it.
LineConserved ==
  /\ seen = Range(Line) \union missed \union cleared
            \union (IF downloader.pc = "push" THEN {Current} ELSE {})
  /\ Cardinality(seen) =
       Len(Line) + Cardinality(missed) + Cardinality(cleared) + One(downloader.pc = "push")

LEMMA LineFacts ==
  ASSUME HlsInv
  PROVE  /\ Line \in Seq(Segment) /\ Len(Line) \in Nat /\ DOMAIN Line = 1 .. Len(Line)
         /\ Len(Line) = Len(delivered) + Len(feeder.hand) + Len(queue)
         /\ Range(Line) = {Line[i] : i \in 1 .. Len(Line)}
         /\ Range(queue) \subseteq Range(Line)
         /\ Len(queue) \in Nat /\ Len(queue) <= NSeg
         /\ Range(Line) \subseteq seen /\ missed \subseteq seen /\ cleared \subseteq seen
         /\ LineConserved
<1>1. delivered \in Seq(Segment) /\ feeder.hand \in Seq(Segment) /\ queue \in Seq(Segment)
  BY DEF HlsInv, Sound, TypeOK, FeederState
<1>2. /\ Line \in Seq(Segment) /\ Len(Line) = Len(delivered) + Len(feeder.hand) + Len(queue)
      /\ Len(delivered) \in Nat /\ Len(feeder.hand) \in Nat /\ Len(queue) \in Nat
      /\ Range(Line) = Range(delivered) \union Range(feeder.hand) \union Range(queue)
  BY <1>1, ThreeInLine DEF Line
<1>3. Range(Line) = {Line[i] : i \in 1 .. Len(Line)} /\ DOMAIN Line = 1 .. Len(Line)
      /\ Len(Line) \in Nat
  BY <1>2, RangeEquality, LenProperties
<1>4. LineConserved
  BY <1>2, SegmentsFinite DEF HlsInv, Sound, TypeOK, SegmentsConserved, LineConserved, One
<1>5. Len(queue) <= NSeg
  <2>1. /\ Cardinality(seen) \in Nat /\ Cardinality(seen) <= NSeg
        /\ Cardinality(missed) \in Nat /\ Cardinality(cleared) \in Nat
    BY SegmentsFinite DEF HlsInv, Sound, TypeOK
  <2>2. One(downloader.pc = "push") \in Nat  BY DEF One
  <2>3. Len(queue) <= Len(Line)  BY <1>2
  <2>4. Len(Line) <= Cardinality(seen)  BY <1>3, <1>4, <2>1, <2>2 DEF LineConserved
  <2> QED  BY <1>2, <1>3, <2>1, <2>3, <2>4, Constants
<1> QED  BY <1>2, <1>3, <1>4, <1>5 DEF LineConserved

\* The same the other way round, in the state after a step.
LEMMA ConservedAgain ==
  ASSUME TypeOK', LineConserved'
  PROVE  SegmentsConserved'
<1>1. /\ delivered' \in Seq(Segment) /\ feeder'.hand \in Seq(Segment)
      /\ queue' \in Seq(Segment)
  BY DEF TypeOK, FeederState
<1>2. /\ Len(Line') = Len(delivered') + Len(feeder'.hand) + Len(queue')
      /\ Len(delivered') \in Nat /\ Len(feeder'.hand) \in Nat /\ Len(queue') \in Nat
      /\ Range(Line') = Range(delivered') \union Range(feeder'.hand) \union Range(queue')
  BY <1>1, ThreeInLine DEF Line
<1>3. Cardinality(missed') \in Nat /\ Cardinality(cleared') \in Nat
  BY SegmentsFinite DEF TypeOK
<1> QED  BY <1>2, <1>3 DEF LineConserved, SegmentsConserved, One

-----------------------------------------------------------------------------
(* Steps that take up and move no segment.                                 *)

Quiet ==
  /\ UNCHANGED <<queue, delivered, seen, missed, cleared, skipped, target>>
  /\ feeder'.hand = feeder.hand
  /\ downloader'.todo = downloader.todo /\ downloader'.size = downloader.size
  /\ published <= published'
  /\ downloader'.pc = "push" <=> downloader.pc = "push"
  /\ downloader'.pc = "decide" => downloader.pc = "decide"
  /\ downloader.pc = "push" /\ urgent => urgent'
  /\ running' => running
  /\ cancel => cancel'

\* Such a step keeps what the invariant says of the segments.
LEMMA QuietKeeps ==
  ASSUME HlsInv, Quiet, TypeOK', WorkersJoined', Phases', FeedsInTurn'
  PROVE  HlsInv'
<1>1. Line' = Line /\ Current' = Current  BY DEF Quiet, Line, Current
<1>2. SegmentsConserved'  BY <1>1 DEF HlsInv, Sound, Quiet, SegmentsConserved
<1>3. TodoUnseen'
  <2>1. (seen \union downloader.todo)' \subseteq 1 .. published'
    <3>1. published \in Int /\ published' \in Int /\ published <= published'
      BY DEF HlsInv, Sound, Quiet, TypeOK
    <3>2. \A s \in 1 .. published : s \in 1 .. published'  BY <3>1
    <3> QED  BY <3>2 DEF HlsInv, Quiet, TodoUnseen
  <2> QED  BY <1>1, <2>1 DEF HlsInv, Quiet, TodoUnseen
<1>4. RoomToPush'
  <2>1. MaxBuffer' = MaxBuffer  BY DEF Quiet, MaxBuffer
  <2> QED  BY <2>1 DEF HlsInv, Quiet, RoomToPush
<1>5. LineUp'  BY <1>1 DEF HlsInv, Quiet, LineUp
<1>6. PassedBy'
  <2>1. ASSUME (running /\ ~cancel)', NEW q \in (seen \union downloader.todo)',
               NEW s \in Segment, s < q, s \notin (seen \union downloader.todo \union skipped)'
        PROVE  s <= published' - Window
    <3>1. s <= published - Window  BY <2>1 DEF HlsInv, Quiet, PassedBy
    <3>2. s \in Int /\ published \in Int /\ published' \in Int /\ Window \in Int
      BY Constants DEF HlsInv, Sound, TypeOK
    <3>3. published <= published'  BY DEF Quiet
    <3>4. \A a, b, c, d \in Int : a <= b - c /\ b <= d => a <= d - c  OBVIOUS
    <3> QED  BY <3>1, <3>2, <3>3, <3>4
  <2>2. \A s \in downloader'.todo, q \in seen' : s # q => q < s \/ s \in skipped'
    BY DEF HlsInv, Quiet, PassedBy
  <2> QED  BY <2>1, <2>2 DEF PassedBy
<1> QED  BY <1>2, <1>3, <1>4, <1>5, <1>6 DEF HlsInv, Sound

\* The steps of the stream thread.
LEMMA MainSteps ==
  ASSUME HlsInv, Main
  PROVE  HlsInv'
<1> USE DEF HlsInv, Sound, Main, EnterCall, CheckCancel, LaunchFails, Launch,
            JoinDownloader, JoinFeeder, JoinFeederJoined, CleanUp, ReturnResult, Notify,
            ReturnFailed, MainGoes, StopDownload, serverVars, bufferVars, downloadVars,
            feedVars, stopVars
<1>1. Quiet  BY DEF Quiet, TypeOK, DownloaderState, FeederState, Phases
<1>2. TypeOK'  BY ZenonT(60) DEF TypeOK, DownloaderState, FeederState
<1>3. WorkersJoined'  BY DEF WorkersJoined, Phases, TypeOK
<1>4. Phases'  BY DEF Phases, TypeOK, DownloaderState, FeederState
<1>5. FeedsInTurn'
  <2>1. CASE Launch
    <3>1. feeder.pc = "none" /\ feeder' = [feeder EXCEPT !.pc = "look"]
      BY <2>1 DEF Phases
    <3>2. /\ feeder'.pc = "look" /\ feeder'.hand = feeder.hand
          /\ feeder'.empties = feeder.empties
      BY <3>1 DEF TypeOK, FeederState
    <3> QED  BY <3>1, <3>2 DEF FeedsInTurn
  <2>2. CASE ~Launch
    <3>1. /\ feeder' = feeder /\ queue' = queue /\ cancel' = cancel
          /\ player' = player \/ player' = "exited"
          /\ running' => running
      BY <2>2 DEF TypeOK
    <3> QED  BY <3>1 DEF FeedsInTurn
  <2> QED  BY <2>1, <2>2
<1> QED  BY <1>1, <1>2, <1>3, <1>4, <1>5, QuietKeeps

\* The steps of the user, the server and the player.
LEMMA OutsideSteps ==
  ASSUME HlsInv, UserStops \/ Server \/ PlayerReads \/ PlayerExits
  PROVE  HlsInv'
<1> USE DEF serverVars, bufferVars, downloadVars, feedVars, callVars, stopVars
<1>0. TypeOK /\ Phases /\ FeedsInTurn /\ WorkersJoined  BY DEF HlsInv, Sound
<1>a. /\ UNCHANGED <<queue, urgent, target, endedNormally, downloader, seen, missed, cleared,
                     skipped, feeder, delivered, running, main, counted, autoStop>>
      /\ player' = player \/ (player = "alive" /\ player' = "exited")
  BY DEF UserStops, Server, PlayerReads, PlayerExits
<1>b. /\ cancel' \in {cancel, TRUE} /\ userStop' \in {userStop, TRUE} /\ live' \in {live, FALSE}
  BY DEF UserStops, Server, PlayerReads, PlayerExits
<1>c. cancel \in BOOLEAN /\ userStop \in BOOLEAN /\ live \in BOOLEAN  BY <1>0 DEF TypeOK
<1>1. /\ UNCHANGED <<queue, urgent, target, endedNormally, downloader, seen, missed, cleared,
                     skipped, feeder, delivered, running, main, counted, autoStop>>
      /\ cancel' \in BOOLEAN /\ userStop' \in BOOLEAN /\ live' \in BOOLEAN
      /\ cancel => cancel'
      /\ player' = player \/ (player = "alive" /\ player' = "exited")
  BY <1>a, <1>b, <1>c
<1>2. published' \in 0 .. NSeg /\ published <= published'
  <2>1. published' = published \/ (published < NSeg /\ published' = published + 1)
    BY DEF UserStops, Server, PlayerReads, PlayerExits
  <2> QED  BY <1>0, <2>1, Constants DEF TypeOK
<1>3. unread' \in 0 .. PipeRoom
  <2>1. unread' = unread \/ (unread > 0 /\ unread' = unread - 1)
    BY DEF UserStops, Server, PlayerReads, PlayerExits
  <2> QED  BY <1>0, <2>1, Constants DEF TypeOK
<1>4. Quiet  BY <1>1, <1>2 DEF Quiet
<1>5. TypeOK'  BY <1>0, <1>1, <1>2, <1>3 DEF TypeOK
<1>6. WorkersJoined'  BY <1>0, <1>1 DEF WorkersJoined
<1>7. Phases'  BY <1>0, <1>1 DEF Phases
<1>8. FeedsInTurn'  BY <1>0, <1>1 DEF FeedsInTurn
<1> QED  BY <1>4, <1>5, <1>6, <1>7, <1>8, QuietKeeps

\* The polls that bring no list, the end of a round and the end of the thread.
LEMMA DownloaderQuietSteps ==
  ASSUME HlsInv, EndDownload \/ PollFails \/ PollEndList \/ PollInvalid \/ Rest
  PROVE  HlsInv'
<1> USE DEF serverVars, bufferVars, downloadVars, feedVars, callVars, stopVars
<1>0. TypeOK /\ Phases /\ FeedsInTurn /\ WorkersJoined  BY DEF HlsInv, Sound
<1>1. /\ UNCHANGED <<published, live, player, queue, target, seen, missed, cleared, skipped,
                     feeder, unread, delivered, running, main, counted, autoStop, cancel,
                     userStop>>
      /\ endedNormally' \in BOOLEAN /\ urgent' \in BOOLEAN
      /\ downloader.pc \in {"poll", "rest"} /\ downloader'.pc \in {"poll", "ended"}
      /\ running \/ downloader'.pc = "ended"
      /\ downloader' = [downloader EXCEPT !.pc = downloader'.pc, !.errors = downloader'.errors]
  BY <1>0 DEF TypeOK, Phases, DownloaderState, EndDownload, PollFails, PollEndList, PollInvalid,
              Rest, Polling, DownloadAt, DownloadKeeps
<1>2. downloader'.errors \in 0 .. MaxErrors
  <2>0. downloader.errors \in 0 .. MaxErrors  BY <1>0 DEF TypeOK, DownloaderState
  <2>1. \/ downloader'.errors = downloader.errors
        \/ downloader'.errors = 0
        \/ downloader.errors < MaxErrors /\ downloader'.errors = downloader.errors + 1
    BY <1>0 DEF TypeOK, DownloaderState, EndDownload, PollFails, PollEndList, PollInvalid,
                Rest, Polling
  <2> QED  BY <2>0, <2>1, Constants
<1>3. /\ downloader' \in DownloaderState
      /\ downloader'.todo = downloader.todo /\ downloader'.size = downloader.size
  BY <1>0, <1>1, <1>2 DEF TypeOK, DownloaderState
<1>4. Quiet
  <2>1. published <= published'  BY <1>0, <1>1 DEF TypeOK
  <2> QED  BY <1>1, <1>3, <2>1 DEF Quiet
<1>5. TypeOK'  BY <1>0, <1>1, <1>3 DEF TypeOK
<1>6. WorkersJoined'  BY <1>0, <1>1 DEF WorkersJoined
<1>7. Phases'  BY <1>0, <1>1 DEF Phases
<1>8. FeedsInTurn'  BY <1>0, <1>1 DEF FeedsInTurn
<1> QED  BY <1>4, <1>5, <1>6, <1>7, <1>8, QuietKeeps

\* Sizes that the feeder may read or compute.
LEMMA FeederSizes ==
  ASSUME HlsInv
  PROVE  0 \in -Few .. NSeg /\ Len(queue) \in -Few .. NSeg /\ Len(queue) >= 0
<1>1. Len(queue) \in Nat /\ Len(queue) <= NSeg  BY LineFacts
<1> QED  BY <1>1, Constants

\* The feeder's looks at the buffer, its pauses, and the ends of a write.
LEMMA FeederQuietSteps ==
  ASSUME HlsInv,
         \/ EndFeed \/ LookAtBuffer \/ EmergencyPause \/ EndPause \/ FoundEmpty
         \/ BeginWrite \/ GiveUpHand \/ WriteFails \/ PipeBroken
  PROVE  HlsInv'
<1> USE DEF serverVars, bufferVars, downloadVars, feedVars, callVars, stopVars
<1>0. TypeOK /\ Phases /\ FeedsInTurn /\ WorkersJoined  BY DEF HlsInv, Sound
<1>a. /\ UNCHANGED <<published, live, player, queue, target, endedNormally, downloader, seen,
                     missed, cleared, skipped, unread, delivered, running, main, counted,
                     autoStop, cancel, userStop>>
      /\ urgent' \in {urgent, TRUE}
  BY DEF EndFeed, LookAtBuffer, EmergencyPause, EndPause, FoundEmpty,
         BeginWrite, GiveUpHand, WriteFails, PipeBroken, FeedKeeps
<1>b. urgent' \in BOOLEAN /\ (urgent => urgent')
  <2>1. urgent \in BOOLEAN  BY <1>0 DEF TypeOK
  <2>2. CASE urgent' = urgent  BY <2>1, <2>2
  <2>3. CASE urgent' = TRUE  BY <2>3
  <2> QED  BY <1>a, <2>2, <2>3
<1>1. /\ UNCHANGED <<published, live, player, queue, target, endedNormally, downloader, seen,
                     missed, cleared, skipped, unread, delivered, running, main, counted,
                     autoStop, cancel, userStop>>
      /\ urgent' \in BOOLEAN /\ (urgent => urgent')
      /\ feeder.pc \in {"look", "take", "pause", "next", "write"}
      /\ feeder'.hand = feeder.hand /\ feeder'.pc # "none"
  <2>1. feeder \in FeederState  BY <1>0 DEF TypeOK
  <2>2. /\ feeder.pc \in {"look", "take", "pause", "next", "write"}
        /\ feeder'.hand = feeder.hand /\ feeder'.pc # "none"
    BY <2>1 DEF FeederState, EndFeed, LookAtBuffer, EmergencyPause, EndPause, FoundEmpty,
                BeginWrite, GiveUpHand, WriteFails, PipeBroken, FeedAt
  <2> QED  BY <1>a, <1>b, <2>2
<1>2. feeder' \in FeederState /\ FeedsInTurn'
  <2> USE DEF FeedAt, FeederState, TypeOK, FeedsInTurn
  <2>1. CASE EndFeed  BY <1>0, <1>1, <2>1 DEF EndFeed, FeedOver, NothingToFeed
  <2>2. CASE LookAtBuffer
    <3>1. Len(queue) \in -Few .. NSeg /\ Len(queue) >= 0  BY FeederSizes
    <3> QED  BY <1>0, <1>1, <2>2, <3>1 DEF LookAtBuffer
  <2>3. CASE EmergencyPause  BY <1>0, <1>1, <2>3 DEF EmergencyPause
  <2>4. CASE EndPause  BY <1>0, <1>1, <2>4 DEF EndPause
  <2>5. CASE FoundEmpty
    <3>0. feeder.empties \in 0 .. MaxEmptyWaits /\ feeder.empties < MaxEmptyWaits
      BY <1>0, <2>5 DEF FoundEmpty
    <3>1. feeder.empties + 1 \in 0 .. MaxEmptyWaits /\ 0 \in -Few .. NSeg
      BY <3>0, FeederSizes, Constants
    <3>2. feeder.empties + 1 # MaxEmptyWaits => feeder.empties + 1 < MaxEmptyWaits
      BY <3>1, Constants
    <3> QED  BY <1>0, <1>1, <2>5, <3>1, <3>2 DEF FoundEmpty
  <2>6. CASE BeginWrite  BY <1>0, <1>1, <2>6 DEF BeginWrite
  <2>7. CASE GiveUpHand  BY <1>0, <1>1, <2>7 DEF GiveUpHand
  <2>8. CASE WriteFails
    <3>0. feeder.attempts \in 0 .. MaxAttempts /\ feeder.attempts < MaxAttempts
      BY <1>0, <2>8 DEF WriteFails
    <3>1. feeder.attempts + 1 \in 0 .. MaxAttempts  BY <3>0, Constants
    <3>2. feeder.attempts + 1 # MaxAttempts => feeder.attempts + 1 < MaxAttempts
      BY <3>1, Constants
    <3> QED  BY <1>0, <1>1, <2>8, <3>1, <3>2 DEF WriteFails
  <2>9. CASE PipeBroken  BY <1>0, <1>1, <2>9 DEF PipeBroken
  <2> QED  BY <2>1, <2>2, <2>3, <2>4, <2>5, <2>6, <2>7, <2>8, <2>9
<1>4. Quiet
  <2>1. published <= published'  BY <1>0, <1>1 DEF TypeOK
  <2> QED  BY <1>1, <2>1 DEF Quiet
<1>5. TypeOK'  BY <1>0, <1>1, <1>2 DEF TypeOK
<1>6. WorkersJoined'  BY <1>0, <1>1 DEF WorkersJoined
<1>7. Phases'  BY <1>0, <1>1 DEF Phases
<1> QED  BY <1>2, <1>4, <1>5, <1>6, <1>7, QuietKeeps

-----------------------------------------------------------------------------
(* The downloader's steps with a segment.                                  *)

\* The segment at hand is the first of those still to come.
LEMMA CurrentFacts ==
  ASSUME HlsInv, downloader.todo # {}
  PROVE  /\ Current \in downloader.todo /\ Current \in Segment /\ Current \in Nat
         /\ downloader.todo \subseteq Segment
         /\ \A x \in downloader.todo : Current <= x
<1>1. downloader.todo \subseteq Segment
  BY DEF HlsInv, Sound, TypeOK, DownloaderState
<1>2. downloader.todo \subseteq Nat  BY <1>1, Constants
<1> QED  BY <1>1, <1>2, MinProperties DEF Current

\* A new list names what has not been seen and is still in the playlist.
LEMMA PollSegmentsStep ==
  ASSUME HlsInv, PollSegments
  PROVE  HlsInv'
<1> USE DEF serverVars, bufferVars, feedVars, callVars, stopVars
<1>0. TypeOK /\ Phases /\ FeedsInTurn /\ TodoUnseen /\ LineUp /\ PassedBy /\ WorkersJoined
  BY DEF HlsInv, Sound
<1>1. /\ UNCHANGED <<published, live, player, queue, urgent, endedNormally, seen, missed,
                     cleared, skipped, feeder, unread, delivered, running, main, counted,
                     autoStop, cancel, userStop>>
      /\ downloader.pc = "poll" /\ running /\ ~cancel
      /\ target' \in Targets
      /\ downloader' = [downloader EXCEPT !.pc = "next", !.errors = 0, !.todo = Unseen]
  BY DEF PollSegments, Polling, DownloadAt, DownloadKeeps
<1>2. Unseen \subseteq Segment /\ Unseen \subseteq 1 .. published /\ Unseen \intersect seen = {}
  <2>1. published \in 0 .. NSeg  BY <1>0 DEF TypeOK
  <2>2. 1 .. published \subseteq Segment  BY <2>1, Constants DEF Segment
  <2> QED  BY <2>2 DEF Unseen, Listed
<1>3. downloader' \in DownloaderState /\ downloader'.pc = "next" /\ downloader'.todo = Unseen
  <2>1. 0 \in 0 .. MaxErrors  BY Constants
  <2>2. downloader \in DownloaderState  BY <1>0 DEF TypeOK
  <2> QED  BY <1>1, <1>2, <2>1, <2>2 DEF DownloaderState
<1>4. TypeOK'  BY <1>0, <1>1, <1>3 DEF TypeOK
<1>5. WorkersJoined'  BY <1>0, <1>1 DEF WorkersJoined
<1>6. Line' = Line  BY <1>1 DEF Line
<1>7. SegmentsConserved'  BY <1>1, <1>3 DEF HlsInv, Sound, SegmentsConserved
<1>8. Phases'  BY <1>0, <1>1, <1>3 DEF Phases
<1>9. FeedsInTurn'  BY <1>0, <1>1 DEF FeedsInTurn
<1>10. TodoUnseen'  BY <1>0, <1>1, <1>2, <1>3 DEF TodoUnseen
<1>11. RoomToPush'  BY <1>3 DEF RoomToPush
<1>12. LineUp'  BY <1>0, <1>1, <1>3, <1>6 DEF LineUp
<1>13. PassedBy'
  <2>1. ASSUME NEW s \in Unseen, NEW q \in seen, s # q PROVE q < s \/ s \in skipped
    <3>0. published \in 0 .. NSeg /\ q \in Segment /\ s \in Segment
      BY <1>0, <1>2 DEF TypeOK
    <3>1. s \in Nat /\ q \in Nat /\ published \in Nat /\ Window \in Nat /\ s \in Segment
      BY <3>0, Constants
    <3>2. ~(s <= published - Window) /\ s \notin seen  BY <3>1 DEF Unseen, Listed
    <3>3. CASE s \in downloader.todo  BY <1>0, <2>1, <3>3 DEF PassedBy
    <3>4. CASE s \notin downloader.todo /\ s \notin skipped
      <4>1. ~(s < q)  BY <1>0, <1>1, <3>1, <3>2, <3>4 DEF PassedBy
      <4> QED  BY <2>1, <3>1, <4>1
    <3> QED  BY <3>3, <3>4
  <2>2. ASSUME NEW q \in seen \union Unseen, NEW s \in Segment,
               s < q, s \notin seen \union Unseen
        PROVE  s <= published - Window
    <3>0. q \in 1 .. published  BY <1>0, <1>2 DEF TodoUnseen
    <3>1. s \in Nat \ {0} /\ published \in Nat /\ Window \in Nat
      BY <1>0, Constants DEF TypeOK, Segment
    <3>2. s \in 1 .. published  BY <2>2, <3>0, <3>1
    <3>3. ~(s > published - Window)  BY <2>2, <3>2 DEF Unseen, Listed
    <3> QED  BY <3>1, <3>3
  <2> QED  BY <1>1, <1>3, <2>1, <2>2 DEF PassedBy
<1> QED  BY <1>4, <1>5, <1>7, <1>8, <1>9, <1>10, <1>11, <1>12, <1>13 DEF HlsInv, Sound

\* The end of a list, and the look at the size of the buffer.
LEMMA ListSteps ==
  ASSUME HlsInv, EndOfList \/ ReadSize
  PROVE  HlsInv'
<1> USE DEF serverVars, bufferVars, feedVars, callVars, stopVars
<1>0. /\ TypeOK /\ Phases /\ FeedsInTurn /\ TodoUnseen /\ LineUp /\ PassedBy
      /\ WorkersJoined /\ downloader \in DownloaderState
  BY DEF HlsInv, Sound, TypeOK
<1>1. /\ UNCHANGED <<published, live, player, queue, urgent, target, endedNormally, seen,
                     missed, cleared, skipped, feeder, unread, delivered, running, main,
                     counted, autoStop, cancel, userStop>>
      /\ downloader.pc = "next"
  BY DEF EndOfList, ReadSize, DownloadAt, DownloadKeeps
<1>2. /\ downloader' \in DownloaderState
      /\ \/ /\ downloader'.pc = "rest" /\ downloader'.todo = {}
            /\ downloader.todo = {} \/ ~running \/ cancel
         \/ /\ downloader'.pc = "decide" /\ downloader'.todo = downloader.todo
            /\ downloader.todo # {} /\ downloader'.size = Len(queue)
  <2>1. CASE EndOfList
    <3>1. downloader' = [downloader EXCEPT !.pc = "rest", !.todo = {}] /\ ~Listing
      BY <2>1 DEF EndOfList
    <3> QED  BY <1>0, <3>1 DEF DownloaderState, Listing
  <2>2. CASE ReadSize
    <3>1. downloader' = [downloader EXCEPT !.pc = "decide", !.size = Len(queue)]
          /\ downloader.todo # {}
      BY <2>2 DEF ReadSize, Listing
    <3>2. Len(queue) \in 0 .. NSeg
      <4>1. Len(queue) \in Nat /\ Len(queue) <= NSeg  BY LineFacts
      <4> QED  BY <4>1, Constants
    <3> QED  BY <1>0, <3>1, <3>2 DEF DownloaderState
  <2> QED  BY <2>1, <2>2
<1>3. downloader'.todo \subseteq downloader.todo /\ downloader'.pc \in {"rest", "decide"}
  BY <1>2
<1>4. TypeOK'  BY <1>0, <1>1, <1>2 DEF TypeOK
<1>5. WorkersJoined'  BY <1>0, <1>1 DEF WorkersJoined
<1>6. Line' = Line  BY <1>1 DEF Line
<1>7. SegmentsConserved'  BY <1>1, <1>3 DEF HlsInv, Sound, SegmentsConserved
<1>8. Phases'  BY <1>0, <1>1, <1>3 DEF Phases
<1>9. FeedsInTurn'  BY <1>0, <1>1 DEF FeedsInTurn
<1>10. TodoUnseen'
  <2>1. downloader.todo \intersect seen = {}  BY <1>0, <1>1 DEF TodoUnseen
  <2> QED  BY <1>0, <1>1, <1>2, <1>3, <2>1 DEF TodoUnseen
<1>11. RoomToPush'
  <2>0. Len(queue) \in Nat  BY LineFacts
  <2>1. Len(queue) <= Len(queue)  BY <2>0
  <2> QED  BY <1>1, <1>2, <2>1 DEF RoomToPush
<1>12. LineUp'  BY <1>0, <1>1, <1>3, <1>6 DEF LineUp
<1>13. PassedBy'
  <2>1. \A s \in downloader'.todo, q \in seen : s # q => q < s \/ s \in skipped
    BY <1>0, <1>3 DEF PassedBy
  <2>2. running /\ ~cancel => downloader'.todo = downloader.todo  BY <1>2
  <2> QED  BY <1>0, <1>1, <2>1, <2>2 DEF PassedBy
<1> QED  BY <1>4, <1>5, <1>7, <1>8, <1>9, <1>10, <1>11, <1>12, <1>13 DEF HlsInv, Sound

\* Going on with the next segment of the list, in any of the ways to do so.
LEMMA PassOver ==
  ASSUME HlsInv, downloader.pc \in {"decide", "push"},
         NEW t \in BOOLEAN, downloader' = [NextSegment EXCEPT !.timer = t],
         seen \subseteq seen', seen' \subseteq seen \union {Current},
         skipped \subseteq skipped', Current \in seen' \union skipped',
         UNCHANGED <<published, running, main, player, cancel, feeder>>
  PROVE  /\ downloader' \in DownloaderState /\ downloader'.pc = "next"
         /\ WorkersJoined' /\ Phases' /\ TodoUnseen' /\ RoomToPush' /\ PassedBy'
<1>0. /\ TypeOK /\ Phases /\ TodoUnseen /\ PassedBy /\ WorkersJoined
      /\ downloader \in DownloaderState /\ downloader.todo # {}
  BY DEF HlsInv, Sound, TypeOK, TodoUnseen
<1> DEFINE c == Current
<1>1. /\ c \in downloader.todo /\ c \in Nat /\ downloader.todo \subseteq Segment
      /\ \A x \in downloader.todo : c <= x
  BY <1>0, CurrentFacts
<1>2. downloader' = [downloader EXCEPT !.pc = "next", !.todo = @ \ {c}, !.size = 0, !.timer = t]
  BY <1>0 DEF NextSegment, DownloaderState
<1>3. seen' \subseteq seen \union {c} /\ c \in seen' \union skipped'  OBVIOUS
<1>4. downloader.todo \intersect seen \subseteq {c}  BY <1>0 DEF TodoUnseen
<1> HIDE DEF c
<1>5. /\ downloader' \in DownloaderState /\ downloader'.pc = "next"
      /\ downloader'.todo = downloader.todo \ {c}
  <2>1. 0 \in 0 .. NSeg  BY Constants
  <2> QED  BY <1>0, <1>2, <2>1, ZenonT(60) DEF DownloaderState
<1>6. WorkersJoined'  BY <1>0 DEF WorkersJoined
<1>7. Phases'  BY <1>0, <1>5 DEF Phases
<1>8. TodoUnseen'  BY <1>0, <1>1, <1>3, <1>4, <1>5 DEF TodoUnseen
<1>9. RoomToPush'  BY <1>5 DEF RoomToPush
<1>10. PassedBy'
  <2>1. ASSUME NEW s \in downloader'.todo, NEW q \in seen', s # q
        PROVE  q < s \/ s \in skipped'
    <3>1. s \in downloader.todo /\ s # c  BY <1>5
    <3>2. CASE q \in seen  BY <1>0, <2>1, <3>1, <3>2 DEF PassedBy
    <3>3. CASE q = c
      <4>1. c <= s /\ s \in Nat /\ c \in Nat  BY <1>1, <3>1, Constants
      <4> QED  BY <3>1, <3>3, <4>1
    <3> QED  BY <1>3, <3>2, <3>3
  <2>2. /\ seen' \union downloader'.todo \subseteq seen \union downloader.todo
        /\ seen \union downloader.todo \union skipped
             \subseteq seen' \union downloader'.todo \union skipped'
    BY <1>1, <1>3, <1>5
  <2>3. ASSUME (running /\ ~cancel)', NEW q \in seen' \union downloader'.todo,
               NEW s \in Segment, s < q, s \notin seen' \union downloader'.todo \union skipped'
        PROVE  s <= published' - Window
    BY <1>0, <2>2, <2>3 DEF PassedBy
  <2> QED  BY <2>1, <2>3 DEF PassedBy
<1> QED  BY <1>5, <1>6, <1>7, <1>8, <1>9, <1>10

LEMMA WaitForRoomStep ==
  ASSUME HlsInv, WaitForRoom
  PROVE  HlsInv'
<1> USE DEF serverVars, bufferVars, feedVars, callVars, stopVars
<1>0. TypeOK /\ FeedsInTurn /\ LineUp /\ TodoUnseen  BY DEF HlsInv, Sound
<1>1. /\ UNCHANGED <<published, live, player, queue, urgent, target, endedNormally, seen,
                     missed, cleared, feeder, unread, delivered, running, main, counted,
                     autoStop, cancel, userStop>>
      /\ downloader.pc = "decide" /\ downloader' = [NextSegment EXCEPT !.timer = TRUE]
      /\ skipped' = skipped \union {Current}
  BY DEF WaitForRoom, DownloadAt, DownloadKeeps
<1>2. /\ downloader' \in DownloaderState /\ downloader'.pc = "next"
      /\ WorkersJoined' /\ Phases' /\ TodoUnseen' /\ RoomToPush' /\ PassedBy'
  BY <1>1, PassOver
<1>3. skipped' \subseteq Segment
  <2>1. downloader.todo # {}  BY <1>0, <1>1 DEF TodoUnseen
  <2> QED  BY <1>0, <1>1, <2>1, CurrentFacts DEF TypeOK
<1>4. TypeOK'  BY <1>0, <1>1, <1>2, <1>3 DEF TypeOK
<1>5. FeedsInTurn'  BY <1>0, <1>1 DEF FeedsInTurn
<1>6. SegmentsConserved'  BY <1>1, <1>2 DEF HlsInv, Sound, SegmentsConserved
<1>7. Line' = Line  BY <1>1 DEF Line
<1>8. LineUp'  BY <1>0, <1>1, <1>2, <1>7 DEF LineUp
<1> QED  BY <1>2, <1>4, <1>5, <1>6, <1>8 DEF HlsInv, Sound

\* The buffer is thrown away: what was in it moves from the line to cleared.
LEMMA ClearBufferStep ==
  ASSUME HlsInv, ClearBuffer
  PROVE  HlsInv'
<1> USE DEF serverVars, bufferVars, feedVars, callVars, stopVars
<1>0. TypeOK /\ FeedsInTurn /\ LineUp /\ TodoUnseen  BY DEF HlsInv, Sound
<1>1. /\ UNCHANGED <<published, live, player, urgent, target, endedNormally, seen, missed,
                     feeder, unread, delivered, running, main, counted, autoStop, cancel,
                     userStop>>
      /\ downloader.pc = "decide" /\ downloader' = [NextSegment EXCEPT !.timer = FALSE]
      /\ skipped' = skipped \union {Current}
      /\ queue' = << >> /\ cleared' = cleared \union Range(queue)
  BY DEF ClearBuffer, ClearBufferSwap, DownloadAt, DownloadKeeps
<1>2. /\ downloader' \in DownloaderState /\ downloader'.pc = "next"
      /\ WorkersJoined' /\ Phases' /\ TodoUnseen' /\ RoomToPush' /\ PassedBy'
  BY <1>1, PassOver
<1>3. skipped' \subseteq Segment /\ cleared' \subseteq Segment /\ queue' \in Seq(Segment)
  <2>1. downloader.todo # {}  BY <1>0, <1>1 DEF TodoUnseen
  <2>2. Range(queue) \subseteq Segment  BY <1>0, RangeOfSeq DEF TypeOK
  <2> QED  BY <1>0, <1>1, <2>1, <2>2, CurrentFacts, EmptySeq DEF TypeOK
<1>4. TypeOK'  BY <1>0, <1>1, <1>2, <1>3 DEF TypeOK
<1>5. FeedsInTurn'  BY <1>0, <1>1 DEF FeedsInTurn
<1> DEFINE d == delivered
           h == feeder.hand
           q == queue
<1>6. /\ d \in Seq(Segment) /\ h \in Seq(Segment) /\ q \in Seq(Segment)
      /\ << >> \in Seq(Segment) /\ Len(<< >>) = 0
  BY <1>0, EmptySeq DEF TypeOK, FeederState
<1>7. Line = d \o h \o q /\ Line' = d \o h \o << >> /\ Range(q) = Range(queue)
  BY <1>1 DEF Line
<1>8. Range(<< >>) = {}
  <2>1. Range(<< >>) = {<< >>[i] : i \in 1 .. Len(<< >>)}  BY <1>6, RangeEquality
  <2>2. \A i \in 1 .. 0 : FALSE  OBVIOUS
  <2> QED  BY <1>6, <2>1, <2>2
<1> HIDE DEF d, h, q
<1> DEFINE n == Len(d) + Len(h)
<1>9. /\ n \in Nat /\ Len(q) \in Nat /\ Len(Line) = n + Len(q) /\ Len(Line') = n
      /\ DOMAIN Line = 1 .. n + Len(q) /\ DOMAIN Line' = 1 .. n
      /\ Range(Line) = Range(d) \union Range(h) \union Range(q)
      /\ Range(Line') = Range(d) \union Range(h)
      /\ \A i \in 1 .. n : Line[i] = (d \o h)[i] /\ Line'[i] = (d \o h)[i]
      /\ \A i \in 1 .. Len(q) : Line[n + i] = q[i]
  <2>1. /\ Len(d \o h \o q) = Len(d) + Len(h) + Len(q)
        /\ Len(d) \in Nat /\ Len(h) \in Nat /\ Len(q) \in Nat
        /\ Range(d \o h \o q) = Range(d) \union Range(h) \union Range(q)
        /\ DOMAIN (d \o h \o q) = 1 .. Len(d) + Len(h) + Len(q)
        /\ \A i \in 1 .. Len(d) + Len(h) : (d \o h \o q)[i] = (d \o h)[i]
        /\ \A i \in 1 .. Len(q) : (d \o h \o q)[Len(d) + Len(h) + i] = q[i]
    BY <1>6, ThreeInLine
  <2> DEFINE e == << >>
  <2>e. e \in Seq(Segment) /\ Len(e) = 0 /\ Range(e) = {} /\ Line' = d \o h \o e
    BY <1>6, <1>7, <1>8
  <2> HIDE DEF e
  <2>2. /\ Len(d \o h \o e) = Len(d) + Len(h) + Len(e)
        /\ Range(d \o h \o e) = Range(d) \union Range(h) \union Range(e)
        /\ DOMAIN (d \o h \o e) = 1 .. Len(d) + Len(h) + Len(e)
        /\ \A i \in 1 .. Len(d) + Len(h) : (d \o h \o e)[i] = (d \o h)[i]
    <3>1. d \in Seq(Segment) /\ h \in Seq(Segment) /\ e \in Seq(Segment)  BY <1>6, <2>e
    <3> QED  BY <3>1, ThreeInLine
  <2>3. Len(d) + Len(h) + 0 = Len(d) + Len(h) /\ Len(d) + Len(h) \in Nat  BY <2>1
  <2> QED  BY <1>7, <2>e, <2>1, <2>2, <2>3
<1> HIDE DEF n
<1>10. /\ \A i \in 1 .. n : i \in DOMAIN Line /\ Line'[i] = Line[i]
       /\ \A i \in 1 .. Len(q) : n + i \in DOMAIN Line /\ Line[n + i] = q[i]
  <2> DEFINE m == Len(q)
  <2>1. n \in Nat /\ m \in Nat  BY <1>9
  <2> HIDE DEF m
  <2>2. \A i \in 1 .. n : i \in 1 .. n + m  BY <2>1
  <2>3. \A i \in 1 .. m : n + i \in 1 .. n + m  BY <2>1
  <2> QED  BY <1>9, <2>2, <2>3 DEF m
<1>11. \A i, j \in DOMAIN Line : i < j =>
          Line[i] # Line[j] /\ (Line[i] < Line[j] \/ Line[j] \in skipped)
  BY <1>0 DEF LineUp
<1>12. \A i, j \in 1 .. Len(q) : i < j => q[i] # q[j]
  <2>1. \A i, j \in 1 .. Len(q) : i < j => n + i < n + j  BY <1>9
  <2> QED  BY <1>10, <1>11, <2>1
<1>13. IsFiniteSet(Range(q)) /\ Cardinality(Range(q)) = Len(q)
  BY <1>6, <1>12, RangeOfInjective
<1>14. Range(Line') \intersect Range(q) = {}
  <2>1. ASSUME NEW x \in Range(Line'), x \in Range(q) PROVE FALSE
    <3>1. Line' \in Seq(Segment)  BY <1>6, <1>7, ThreeInLine
    <3>2. PICK i \in 1 .. n : x = Line'[i]  BY <1>9, <3>1, RangeEquality
    <3>3. PICK j \in 1 .. Len(q) : x = q[j]  BY <1>6, <2>1, RangeEquality
    <3>4. i < n + j  BY <1>9
    <3> QED  BY <1>10, <1>11, <3>2, <3>3, <3>4
  <2> QED  BY <2>1
<1>15. LineUp'
  <2>1. ASSUME NEW i \in DOMAIN Line', NEW j \in DOMAIN Line', i < j
        PROVE  Line'[i] # Line'[j] /\ (Line'[i] < Line'[j] \/ Line'[j] \in skipped')
    BY <1>1, <1>9, <1>10, <1>11, <2>1
  <2>2. Range(Line') \intersect (missed' \union cleared') = {}
    <3>1. Range(Line) \intersect (missed \union cleared) = {}  BY <1>0 DEF LineUp
    <3>2. Range(Line') \subseteq Range(Line)  BY <1>9
    <3> QED  BY <1>1, <1>7, <1>14, <3>1, <3>2
  <2> QED  BY <1>2, <2>1, <2>2 DEF LineUp
<1>16. LineConserved'
  <2>1. LineConserved  BY LineFacts
  <2>2. cleared \intersect Range(q) = {}
    <3>1. Range(Line) \intersect (missed \union cleared) = {}  BY <1>0 DEF LineUp
    <3> QED  BY <1>9, <3>1
  <2>3. Cardinality(cleared') = Cardinality(cleared) + Len(q)
    <3>1. IsFiniteSet(cleared) /\ Cardinality(cleared) \in Nat
      BY <1>0, SegmentsFinite DEF TypeOK
    <3>2. Cardinality(cleared \union Range(q)) =
            Cardinality(cleared) + Cardinality(Range(q)) - Cardinality(cleared \intersect Range(q))
      BY <1>13, <3>1, FS_Union
    <3>3. Cardinality(cleared \intersect Range(q)) = 0  BY <2>2, FS_EmptySet
    <3> QED  BY <1>1, <1>7, <1>9, <1>13, <3>1, <3>2, <3>3
  <2>4. seen' = Range(Line') \union missed' \union cleared'
    <3>1. seen = Range(Line) \union missed \union cleared
      BY <1>1, <2>1 DEF LineConserved
    <3> QED  BY <1>1, <1>7, <1>9, <3>1
  <2>5. Cardinality(seen') = Len(Line') + Cardinality(missed') + Cardinality(cleared')
    <3>1. Cardinality(seen) = Len(Line) + Cardinality(missed) + Cardinality(cleared) + 0
      BY <1>1, <2>1 DEF LineConserved, One
    <3>2. Cardinality(missed) \in Nat /\ Cardinality(cleared) \in Nat
      BY <1>0, SegmentsFinite DEF TypeOK
    <3>3. Cardinality(seen) = n + Cardinality(missed) + (Cardinality(cleared) + Len(q))
      BY <1>9, <3>1, <3>2
    <3> QED  BY <1>1, <1>9, <2>3, <3>3
  <2>6. Cardinality(seen') = Len(Line') + Cardinality(missed') + Cardinality(cleared') + 0
    <3>1. Cardinality(missed') \in Nat /\ Cardinality(cleared') \in Nat
      BY <1>4, SegmentsFinite DEF TypeOK
    <3> QED  BY <1>9, <2>5, <3>1
  <2> QED  BY <1>2, <2>4, <2>6 DEF LineConserved, One
<1>17. SegmentsConserved'  BY <1>4, <1>16, ConservedAgain
<1> QED  BY <1>2, <1>4, <1>5, <1>15, <1>17 DEF HlsInv, Sound

LEMMA FetchSegmentStep ==
  ASSUME HlsInv, FetchSegment
  PROVE  HlsInv'
<1> USE DEF serverVars, bufferVars, feedVars, callVars, stopVars
<1>0. /\ TypeOK /\ Phases /\ FeedsInTurn /\ TodoUnseen /\ LineUp /\ PassedBy /\ RoomToPush
      /\ WorkersJoined /\ downloader \in DownloaderState
  BY DEF HlsInv, Sound, TypeOK
<1> DEFINE c == Current
<1>1. /\ UNCHANGED <<published, live, player, queue, urgent, target, endedNormally, missed,
                     cleared, skipped, feeder, unread, delivered, running, main, counted,
                     autoStop, cancel, userStop>>
      /\ downloader.pc = "decide" /\ ~Full /\ seen' = seen \union {c}
      /\ downloader' = [downloader EXCEPT !.timer = FALSE, !.pc = "push", !.size = 0]
  BY DEF FetchSegment, TakeUp, DownloadAt, DownloadKeeps
<1>2. /\ downloader' \in DownloaderState /\ downloader'.pc = "push"
      /\ downloader'.todo = downloader.todo
  <2>1. 0 \in 0 .. NSeg  BY Constants
  <2> QED  BY <1>0, <1>1, <2>1 DEF DownloaderState
<1>3. Current' = c /\ Line' = Line  BY <1>1, <1>2 DEF Current, Line
<1>4. /\ c \in downloader.todo /\ c \in Segment /\ c \notin seen
      /\ \A x \in downloader.todo : c <= x
  BY <1>0, <1>1, CurrentFacts DEF TodoUnseen
<1> HIDE DEF c
<1>5. TypeOK'
  <2>1. seen' \subseteq Segment  BY <1>0, <1>1, <1>4 DEF TypeOK
  <2> QED  BY <1>0, <1>1, <1>2, <2>1 DEF TypeOK
<1>6. WorkersJoined'  BY <1>0, <1>1 DEF WorkersJoined
<1>7. Phases'  BY <1>0, <1>1, <1>2 DEF Phases
<1>8. FeedsInTurn'  BY <1>0, <1>1 DEF FeedsInTurn
<1>9. SegmentsConserved'
  <2>1. LineConserved /\ Len(Line) \in Nat  BY LineFacts
  <2>2. Cardinality(seen') = Cardinality(seen) + 1
    BY <1>0, <1>1, <1>4, SegmentsFinite, FS_AddElement DEF TypeOK
  <2>3. Cardinality(missed) \in Nat /\ Cardinality(cleared) \in Nat
    BY <1>0, SegmentsFinite DEF TypeOK
  <2>4. Cardinality(seen) = Len(Line) + Cardinality(missed) + Cardinality(cleared) + 0
    BY <1>1, <2>1 DEF LineConserved, One
  <2>5. Cardinality(seen') = Len(Line) + Cardinality(missed) + Cardinality(cleared) + 1
    BY <2>1, <2>2, <2>3, <2>4
  <2>6. seen' = Range(Line) \union missed \union cleared \union {c}
    BY <1>1, <2>1 DEF LineConserved
  <2>7. LineConserved'  BY <1>1, <1>2, <1>3, <2>5, <2>6 DEF LineConserved, One
  <2> QED  BY <1>5, <2>7, ConservedAgain
<1>10. TodoUnseen'
  <2>1. downloader.todo \intersect seen = {}  BY <1>0, <1>1 DEF TodoUnseen
  <2> QED  BY <1>0, <1>1, <1>2, <1>3, <1>4, <2>1 DEF TodoUnseen
<1>11. RoomToPush'
  <2>1. Len(queue) < MaxBuffer \/ urgent
    <3>1. MaxBuffer \in Nat
      <4>1. target \in Nat  BY <1>0, Constants DEF TypeOK
      <4>2. {2 * target, MaxCap} \subseteq Nat /\ {2 * target, MaxCap} # {}
        BY <4>1, Constants
      <4>3. Min({2 * target, MaxCap}) \in {2 * target, MaxCap}  BY <4>2, MinProperties
      <4> QED  BY <4>2, <4>3 DEF MaxBuffer
    <3>2. downloader.size \in 0 .. NSeg  BY <1>0 DEF DownloaderState
    <3>3. Len(queue) \in Nat /\ Len(queue) <= downloader.size
      <4>1. Len(queue) \in Nat  BY LineFacts
      <4> QED  BY <1>0, <1>1, <4>1 DEF RoomToPush
    <3>4. ~(downloader.size >= MaxBuffer) \/ urgent  BY <1>1 DEF Full
    <3> QED  BY <3>1, <3>2, <3>3, <3>4, Constants
  <2>2. MaxBuffer' = MaxBuffer  BY <1>1 DEF MaxBuffer
  <2> QED  BY <1>1, <1>2, <2>1, <2>2 DEF RoomToPush
<1>12. LineUp'
  <2>1. Range(Line) \subseteq seen /\ missed \subseteq seen /\ cleared \subseteq seen
    BY LineFacts
  <2>2. c \notin Range(Line) \union missed \union cleared  BY <1>4, <2>1
  <2> QED  BY <1>0, <1>1, <1>3, <2>2 DEF LineUp
<1>13. PassedBy'
  <2>1. ASSUME NEW s \in downloader.todo, NEW q \in seen \union {c}, s # q
        PROVE  q < s \/ s \in skipped
    <3>1. CASE q \in seen  BY <1>0, <2>1, <3>1 DEF PassedBy
    <3>2. CASE q = c
      <4>1. c <= s /\ c \in Nat /\ s \in Nat
        BY <1>4, CurrentFacts, Constants
      <4> QED  BY <2>1, <3>2, <4>1
    <3> QED  BY <3>1, <3>2
  <2>2. seen' \union downloader'.todo = seen \union downloader.todo  BY <1>1, <1>2, <1>4
  <2> QED  BY <1>0, <1>1, <1>2, <2>1, <2>2 DEF PassedBy
<1> QED  BY <1>5, <1>6, <1>7, <1>8, <1>9, <1>10, <1>11, <1>12, <1>13 DEF HlsInv, Sound

LEMMA FetchFailsStep ==
  ASSUME HlsInv, FetchFails
  PROVE  HlsInv'
<1> USE DEF serverVars, bufferVars, feedVars, callVars, stopVars
<1>0. TypeOK /\ FeedsInTurn /\ LineUp /\ TodoUnseen  BY DEF HlsInv, Sound
<1>1. /\ UNCHANGED <<published, live, player, queue, urgent, target, endedNormally,
                     cleared, skipped, feeder, unread, delivered, running, main, counted,
                     autoStop, cancel, userStop>>
      /\ downloader.pc = "decide" /\ downloader' = [NextSegment EXCEPT !.timer = FALSE]
      /\ seen' = seen \union {Current} /\ missed' = missed \union {Current}
  BY DEF FetchFails, TakeUp, DownloadAt, DownloadKeeps
<1>2. /\ downloader' \in DownloaderState /\ downloader'.pc = "next"
      /\ WorkersJoined' /\ Phases' /\ TodoUnseen' /\ RoomToPush' /\ PassedBy'
  BY <1>1, PassOver
<1> DEFINE c == Current
<1>3. /\ c \in Segment /\ c \notin seen /\ seen' = seen \union {c} /\ missed' = missed \union {c}
      /\ Line' = Line
  <2>1. downloader.todo # {} /\ downloader.todo \intersect seen = {}
    BY <1>0, <1>1 DEF TodoUnseen
  <2> QED  BY <1>1, <2>1, CurrentFacts DEF Line
<1> HIDE DEF c
<1>4. TypeOK'
  <2>1. seen' \subseteq Segment /\ missed' \subseteq Segment  BY <1>0, <1>3 DEF TypeOK
  <2> QED  BY <1>0, <1>1, <1>2, <2>1 DEF TypeOK
<1>5. FeedsInTurn'  BY <1>0, <1>1 DEF FeedsInTurn
<1>6. Range(Line) \subseteq seen /\ missed \subseteq seen /\ cleared \subseteq seen
  BY LineFacts
<1>7. LineUp'  BY <1>0, <1>1, <1>2, <1>3, <1>6 DEF LineUp
<1>8. SegmentsConserved'
  <2>1. LineConserved /\ Len(Line) \in Nat  BY LineFacts
  <2>2. /\ Cardinality(seen') = Cardinality(seen) + 1
        /\ Cardinality(missed') = Cardinality(missed) + 1
    BY <1>0, <1>3, <1>6, SegmentsFinite, FS_AddElement DEF TypeOK
  <2>3. Cardinality(missed) \in Nat /\ Cardinality(cleared) \in Nat
    BY <1>0, SegmentsFinite DEF TypeOK
  <2>4. Cardinality(seen) = Len(Line) + Cardinality(missed) + Cardinality(cleared) + 0
    BY <1>1, <2>1 DEF LineConserved, One
  <2>5. Cardinality(seen') = Len(Line) + Cardinality(missed') + Cardinality(cleared) + 0
    BY <2>1, <2>2, <2>3, <2>4
  <2>6. seen' = Range(Line) \union missed' \union cleared
    BY <1>1, <1>3, <2>1 DEF LineConserved
  <2>7. LineConserved'  BY <1>1, <1>2, <1>3, <2>5, <2>6 DEF LineConserved, One
  <2> QED  BY <1>4, <2>7, ConservedAgain
<1> QED  BY <1>2, <1>4, <1>5, <1>7, <1>8 DEF HlsInv, Sound

\* The segment at hand becomes the last in line.
LEMMA PushSegmentStep ==
  ASSUME HlsInv, PushSegment
  PROVE  HlsInv'
<1> USE DEF serverVars, bufferVars, feedVars, callVars, stopVars
<1>0. TypeOK /\ Phases /\ FeedsInTurn /\ LineUp /\ TodoUnseen /\ PassedBy
  BY DEF HlsInv, Sound
<1> DEFINE c == Current
<1>1. /\ UNCHANGED <<published, live, player, urgent, target, endedNormally, seen, missed,
                     cleared, skipped, feeder, unread, delivered, running, main, counted,
                     autoStop, cancel, userStop>>
      /\ downloader.pc = "push" /\ downloader' = NextSegment
      /\ queue' = Append(queue, c)
  BY DEF PushSegment, DownloadAt, DownloadKeeps
<1>2. /\ c \in Segment /\ c \in downloader.todo /\ c \in seen
      /\ c \notin Range(Line) \union missed \union cleared
  <2>1. downloader.todo # {} /\ c \in seen  BY <1>0, <1>1 DEF TodoUnseen
  <2> QED  BY <1>0, <1>1, <2>1, CurrentFacts DEF LineUp
<1>3. /\ downloader' \in DownloaderState /\ downloader'.pc = "next"
      /\ WorkersJoined' /\ Phases' /\ TodoUnseen' /\ RoomToPush' /\ PassedBy'
  <2>1. downloader.timer \in BOOLEAN /\ downloader \in DownloaderState
    BY <1>0 DEF TypeOK, DownloaderState
  <2>2. downloader' = [NextSegment EXCEPT !.timer = downloader.timer]
    BY <1>1, <2>1 DEF NextSegment, DownloaderState
  <2>3. Current \in seen  BY <1>2
  <2> QED  BY <1>1, <2>1, <2>2, <2>3, PassOver
<1> HIDE DEF c
<1>4. /\ Line \in Seq(Segment) /\ Len(Line) \in Nat /\ DOMAIN Line = 1 .. Len(Line)
      /\ Range(Line) = {Line[i] : i \in 1 .. Len(Line)} /\ Range(Line) \subseteq seen
      /\ LineConserved
  BY LineFacts
<1>5. Line' = Append(Line, c) /\ queue' \in Seq(Segment)
  <2> DEFINE p == delivered \o feeder.hand
  <2>1. p \in Seq(Segment) /\ queue \in Seq(Segment)
    BY <1>0, ConcatProperties DEF TypeOK, FeederState
  <2>2. Line = p \o queue /\ Line' = p \o Append(queue, c)  BY <1>1 DEF Line
  <2> HIDE DEF p
  <2>3. <<c>> \in Seq(Segment) /\ Append(queue, c) = queue \o <<c>>
    BY <1>2, <2>1, AppendIsConcat
  <2>4. p \o (queue \o <<c>>) = (p \o queue) \o <<c>>  BY <2>1, <2>3, ConcatAssociative
  <2>5. Append(Line, c) = Line \o <<c>>  BY <1>2, <1>4, AppendIsConcat
  <2> QED  BY <1>1, <1>2, <2>1, <2>2, <2>3, <2>4, <2>5, AppendProperties
<1>6. TypeOK'  BY <1>0, <1>1, <1>3, <1>5 DEF TypeOK
<1>7. FeedsInTurn'
  <2>1. running  BY <1>0, <1>1 DEF Phases
  <2> QED  BY <1>0, <1>1, <2>1 DEF FeedsInTurn
<1>8. /\ Len(Line') = Len(Line) + 1 /\ Range(Line') = Range(Line) \union {c}
      /\ DOMAIN Line' = 1 .. Len(Line) + 1
      /\ \A i \in 1 .. Len(Line) : Line'[i] = Line[i]
      /\ Line'[Len(Line) + 1] = c
  <2>1. Line' \in Seq(Segment)  BY <1>2, <1>4, <1>5, AppendProperties
  <2>2. Len(Line') = Len(Line) + 1 /\ DOMAIN Line' = 1 .. Len(Line')
    BY <1>2, <1>4, <1>5, <2>1, AppendProperties, LenProperties
  <2> QED  BY <1>2, <1>4, <1>5, <2>2, AppendProperties, RangeOfAppend
<1>9. LineUp'
  <2>1. ASSUME NEW i \in 1 .. Len(Line) + 1, NEW j \in 1 .. Len(Line) + 1, i < j
        PROVE  Line'[i] # Line'[j] /\ (Line'[i] < Line'[j] \/ Line'[j] \in skipped)
    <3>1. i \in 1 .. Len(Line) /\ Line'[i] = Line[i]
      <4>1. i \in 1 .. Len(Line)  BY <1>4, <2>1
      <4> QED  BY <1>8, <4>1
    <3>2. CASE j \in 1 .. Len(Line)  BY <1>0, <1>4, <1>8, <2>1, <3>1, <3>2 DEF LineUp
    <3>3. CASE j = Len(Line) + 1
      <4>1. Line[i] \in Range(Line)  BY <1>4, <3>1
      <4>2. Line[i] # c /\ Line[i] \in seen  BY <1>2, <1>4, <4>1
      <4>3. Line[i] < c \/ c \in skipped  BY <1>0, <1>2, <4>2 DEF PassedBy
      <4> QED  BY <1>8, <3>1, <3>3, <4>2, <4>3
    <3>4. j \in 1 .. Len(Line) \/ j = Len(Line) + 1  BY <1>4
    <3> QED  BY <3>2, <3>3, <3>4
  <2>2. Range(Line') \intersect (missed \union cleared) = {}
    BY <1>0, <1>2, <1>8 DEF LineUp
  <2> QED  BY <1>1, <1>3, <1>8, <2>1, <2>2 DEF LineUp
<1>10. SegmentsConserved'
  <2>1. Cardinality(missed) \in Nat /\ Cardinality(cleared) \in Nat
    BY <1>0, SegmentsFinite DEF TypeOK
  <2>2. Cardinality(seen) = Len(Line) + Cardinality(missed) + Cardinality(cleared) + 1
    BY <1>1, <1>4 DEF LineConserved, One
  <2>3. Cardinality(seen) = (Len(Line) + 1) + Cardinality(missed) + Cardinality(cleared) + 0
    BY <1>4, <2>1, <2>2
  <2>4. seen = Range(Line') \union missed \union cleared
    <3>1. seen = Range(Line) \union missed \union cleared \union {c}
      BY <1>1, <1>4 DEF LineConserved, c
    <3> QED  BY <1>8, <3>1
  <2>5. LineConserved'  BY <1>1, <1>3, <1>8, <2>3, <2>4 DEF LineConserved, One
  <2> QED  BY <1>6, <2>5, ConservedAgain
<1> QED  BY <1>3, <1>6, <1>7, <1>9, <1>10 DEF HlsInv, Sound

-----------------------------------------------------------------------------
(* The feeder's steps with segments: the line stays as it is.              *)

LEMMA SameLine ==
  ASSUME HlsInv, TypeOK', WorkersJoined', Phases', FeedsInTurn',
         Line' = Line, Len(queue') <= Len(queue),
         UNCHANGED <<published, urgent, target, downloader, seen, missed, cleared, skipped,
                     running, cancel>>
  PROVE  HlsInv'
<1>1. LineConserved  BY LineFacts
<1>2. Current' = Current  BY DEF Current
<1>3. LineConserved'  BY <1>1, <1>2 DEF LineConserved
<1>4. SegmentsConserved'  BY <1>3, ConservedAgain
<1>5. TodoUnseen'  BY <1>2 DEF HlsInv, TodoUnseen
<1>6. RoomToPush'
  <2>1. MaxBuffer' = MaxBuffer  BY DEF MaxBuffer
  <2>2. Len(queue) \in Nat /\ Len(queue') \in Nat /\ downloader.size \in Nat
    BY DEF HlsInv, Sound, TypeOK, DownloaderState
  <2>3. MaxBuffer \in Nat
    <3>1. target \in Nat  BY Constants DEF HlsInv, Sound, TypeOK
    <3>2. {2 * target, MaxCap} \subseteq Nat /\ {2 * target, MaxCap} # {}
      BY <3>1, Constants
    <3>3. Min({2 * target, MaxCap}) \in {2 * target, MaxCap}  BY <3>2, MinProperties
    <3> QED  BY <3>2, <3>3 DEF MaxBuffer
  <2>4. \A m \in Nat : Len(queue) <= m => Len(queue') <= m  BY <2>2
  <2>5. Len(queue) < MaxBuffer => Len(queue') < MaxBuffer  BY <2>2, <2>3
  <2> QED  BY <2>1, <2>2, <2>4, <2>5 DEF HlsInv, RoomToPush
<1>7. LineUp'  BY <1>2 DEF HlsInv, LineUp
<1>8. PassedBy'  BY DEF HlsInv, PassedBy
<1> QED  BY <1>4, <1>5, <1>6, <1>7, <1>8 DEF HlsInv, Sound

LEMMA TakeSegmentsStep ==
  ASSUME HlsInv, TakeSegments
  PROVE  HlsInv'
<1> USE DEF serverVars, downloadVars, callVars, stopVars
<1>0. /\ TypeOK /\ Phases /\ FeedsInTurn /\ WorkersJoined /\ feeder \in FeederState
      /\ queue \in Seq(Segment) /\ delivered \in Seq(Segment)
  BY DEF HlsInv, Sound, TypeOK
<1> DEFINE k == Take
           n == Len(queue)
<1>1. /\ UNCHANGED <<published, live, player, urgent, target, endedNormally, downloader, seen,
                     missed, cleared, skipped, unread, delivered, running, main, counted,
                     autoStop, cancel, userStop>>
      /\ feeder.pc = "take" /\ feeder.size # 0 /\ k > 0
      /\ queue' = SubSeq(queue, k + 1, n)
      /\ feeder' = [feeder EXCEPT !.pc = "next", !.hand = SubSeq(queue, 1, k),
                                  !.size = feeder.size - k, !.attempts = 0]
  BY <1>0 DEF TakeSegments, FeedAt, FeedKeeps
<1>2. n \in Nat /\ n <= NSeg  BY LineFacts
<1>3. k \in 1 .. n /\ feeder.size - k \in -Few .. NSeg
  <2> DEFINE want == IF feeder.size < LowBuffer THEN Few ELSE 1
  <2>1. want \in Nat /\ want <= Few  BY Constants
  <2>2. k = Min({n, want})  BY DEF Take
  <2>3. feeder.size \in -Few .. NSeg /\ feeder.size >= 0  BY <1>0, <1>1 DEF FeederState, FeedsInTurn
  <2> HIDE DEF want, k, n
  <2>4. k \in {n, want} /\ k <= n /\ k <= want
    <3>1. {n, want} \subseteq Nat /\ {n, want} # {}  BY <1>2, <2>1
    <3> QED  BY <2>2, <3>1, MinProperties
  <2>5. k \in 1 .. n  BY <1>1, <1>2, <2>1, <2>4
  <2>6. k <= Few /\ k \in Nat  BY <2>1, <2>4, <2>5, Constants, <1>2
  <2>7. feeder.size - k \in -Few .. NSeg  BY <2>3, <2>6, Constants
  <2> QED  BY <2>5, <2>7
<1>4. queue \in Seq(Segment) /\ n = Len(queue)  BY <1>0
<1> HIDE DEF k, n
<1> DEFINE a == SubSeq(queue, 1, k)
           b == SubSeq(queue, k + 1, n)
<1>5. a \o b = queue
  <2>1. /\ 1 \in 1 .. Len(queue) + 1 /\ k \in 1 - 1 .. Len(queue)
        /\ n \in k .. Len(queue)
    BY <1>2, <1>3, <1>4
  <2>2. SubSeq(queue, 1, k) \o SubSeq(queue, k + 1, n) = SubSeq(queue, 1, n)
    BY <1>4, <2>1, ConcatAdjacentSubSeq
  <2> QED  BY <1>4, <2>2, SubSeqFull
<1>6. /\ a \in Seq(Segment) /\ Len(a) = k
      /\ b \in Seq(Segment) /\ Len(b) = n - k
  <2>1. /\ \A i \in 1 .. k : i \in 1 .. n
        /\ \A i \in k + 1 .. n : i \in 1 .. n
        /\ 1 <= k /\ k - 1 + 1 = k /\ k \in Int /\ k + 1 \in Int /\ n \in Int
        /\ (IF k + 1 <= n THEN n - (k + 1) + 1 ELSE 0) = n - k
    BY <1>2, <1>3
  <2>2. \A i \in 1 .. n : queue[i] \in Segment  BY <1>4, ElementOfSeq
  <2>3. a \in Seq(Segment) /\ Len(a) = IF 1 <= k THEN k - 1 + 1 ELSE 0
    BY <2>1, <2>2, SubSeqProperties
  <2>4. b \in Seq(Segment) /\ Len(b) = IF k + 1 <= n THEN n - (k + 1) + 1 ELSE 0
    BY <2>1, <2>2, SubSeqProperties
  <2> QED  BY <2>1, <2>3, <2>4
<1>7. a # << >>
  <2>1. Len(a) # 0  BY <1>2, <1>3, <1>6
  <2> QED  BY <2>1, EmptySeq
<1> HIDE DEF a, b
<1>8. /\ feeder' \in FeederState /\ feeder'.pc = "next" /\ feeder'.hand = a
      /\ feeder'.attempts = 0 /\ feeder'.empties = feeder.empties /\ queue' = b
  <2>1. 0 \in 0 .. MaxAttempts  BY Constants
  <2> QED  BY <1>0, <1>1, <1>3, <1>6, <2>1 DEF FeederState, a, b
<1>9. TypeOK'  BY <1>0, <1>1, <1>6, <1>8 DEF TypeOK
<1>10. WorkersJoined'  BY <1>0, <1>1 DEF WorkersJoined
<1>11. Phases'  BY <1>0, <1>1, <1>8 DEF Phases
<1>12. FeedsInTurn'
  <2>1. 0 < MaxAttempts  BY Constants
  <2> QED  BY <1>0, <1>1, <1>7, <1>8, <2>1 DEF FeedsInTurn
<1>13. Line' = Line
  <2>1. feeder.hand = << >>  BY <1>0, <1>1 DEF FeedsInTurn
  <2>2. Line = delivered \o queue  BY <1>0, <2>1, ConcatEmptySeq DEF Line
  <2>3. Line' = (delivered \o a) \o b  BY <1>1, <1>8 DEF Line
  <2>4. (delivered \o a) \o b = delivered \o (a \o b)  BY <1>0, <1>6, ConcatAssociative
  <2> QED  BY <1>5, <2>2, <2>3, <2>4
<1>14. Len(queue') <= Len(queue)
  <2>1. n - k <= n  BY <1>2, <1>3
  <2> QED  BY <1>4, <1>6, <1>8, <2>1
<1> QED  BY <1>1, <1>9, <1>10, <1>11, <1>12, <1>13, <1>14, SameLine

LEMMA WriteSucceedsStep ==
  ASSUME HlsInv, WriteSucceeds
  PROVE  HlsInv'
<1> USE DEF serverVars, bufferVars, downloadVars, callVars, stopVars
<1> DEFINE h == feeder.hand
<1>0. /\ TypeOK /\ Phases /\ FeedsInTurn /\ WorkersJoined /\ feeder \in FeederState
      /\ queue \in Seq(Segment) /\ delivered \in Seq(Segment) /\ h \in Seq(Segment)
  BY DEF HlsInv, Sound, TypeOK, FeederState
<1>1. /\ UNCHANGED <<published, live, player, queue, urgent, target, endedNormally, downloader,
                     seen, missed, cleared, skipped, running, main, counted, autoStop, cancel,
                     userStop>>
      /\ feeder.pc = "write" /\ unread < PipeRoom /\ unread' = unread + 1
      /\ delivered' = Append(delivered, Head(h))
      /\ feeder' = IF Len(h) > 1
                   THEN [feeder EXCEPT !.pc = "next", !.hand = Tail(h), !.attempts = 0]
                   ELSE [feeder EXCEPT !.pc = "look", !.hand = << >>, !.attempts = 0,
                                       !.size = 0, !.empties = 0]
  BY <1>0 DEF WriteSucceeds, FeedAt, FeedKeeps, FeederState
<1>2. h # << >> /\ feeder.empties < MaxEmptyWaits  BY <1>0, <1>1 DEF FeedsInTurn
<1>3. /\ Head(h) \in Segment /\ Tail(h) \in Seq(Segment) /\ Len(Tail(h)) = Len(h) - 1
      /\ Len(h) \in Nat \ {0} /\ << >> \in Seq(Segment)
  BY <1>0, <1>2, HeadTailProperties, EmptySeq
<1>4. Append(delivered, Head(h)) \o Tail(h) = delivered \o h  BY <1>0, <1>2, MoveHead
<1>5. delivered' \in Seq(Segment)  BY <1>0, <1>1, <1>3, AppendProperties
<1> HIDE DEF h
<1>6. /\ feeder' \in FeederState /\ feeder'.hand = Tail(h) /\ feeder'.attempts = 0
      /\ \/ feeder'.pc = "next" /\ Tail(h) # << >> /\ feeder'.empties = feeder.empties
         \/ feeder'.pc = "look" /\ Tail(h) = << >> /\ feeder'.empties = 0
  <2>1. 0 \in 0 .. MaxAttempts /\ 0 \in 0 .. MaxEmptyWaits /\ 0 \in -Few .. NSeg
    BY Constants
  <2>2. CASE Len(h) > 1
    <3>1. Len(Tail(h)) # 0  BY <1>3, <2>2
    <3>2. Tail(h) # << >>  BY <3>1, EmptySeq
    <3>3. feeder' = [feeder EXCEPT !.pc = "next", !.hand = Tail(h), !.attempts = 0]
      BY <1>1, <2>2
    <3> QED  BY <1>0, <1>3, <2>1, <3>2, <3>3 DEF FeederState
  <2>3. CASE ~(Len(h) > 1)
    <3>1. Len(Tail(h)) = 0  BY <1>3, <2>3
    <3>2. Tail(h) = << >>  BY <1>3, <3>1, EmptySeq
    <3>3. feeder' = [feeder EXCEPT !.pc = "look", !.hand = << >>, !.attempts = 0,
                                   !.size = 0, !.empties = 0]
      BY <1>1, <2>3
    <3> QED  BY <1>0, <1>3, <2>1, <3>2, <3>3 DEF FeederState
  <2> QED  BY <2>2, <2>3
<1>7. TypeOK'
  <2>1. unread' \in 0 .. PipeRoom
    <3>1. unread \in 0 .. PipeRoom  BY <1>0 DEF TypeOK
    <3> QED  BY <1>1, <3>1, Constants
  <2> QED  BY <1>0, <1>1, <1>5, <1>6, <2>1 DEF TypeOK
<1>8. WorkersJoined'  BY <1>0, <1>1 DEF WorkersJoined
<1>9. Phases'  BY <1>0, <1>1, <1>6 DEF Phases
<1>10. FeedsInTurn'
  <2>1. 0 < MaxAttempts /\ 0 < MaxEmptyWaits  BY Constants
  <2> QED  BY <1>1, <1>2, <1>6, <2>1 DEF FeedsInTurn
<1>11. Line' = Line
  <2>1. Line' = Append(delivered, Head(h)) \o Tail(h) \o queue  BY <1>1, <1>6 DEF Line
  <2>2. Line = delivered \o h \o queue  BY DEF Line, h
  <2> QED  BY <1>4, <2>1, <2>2
<1>12. Len(queue') <= Len(queue)
  <2>1. Len(queue) \in Nat  BY LineFacts
  <2> QED  BY <1>1, <2>1
<1> QED  BY <1>1, <1>7, <1>8, <1>9, <1>10, <1>11, <1>12, SameLine

-----------------------------------------------------------------------------
(* The theorems.                                                           *)

LEMMA InitHlsInv ==
  ASSUME Init
  PROVE  HlsInv
<1>1. << >> \in Seq(Segment) /\ Len(<< >>) = 0 /\ Range(<< >>) = {}
  <2>1. << >> \in Seq(Segment) /\ Len(<< >>) = 0  BY EmptySeq
  <2>2. Range(<< >>) = {<< >>[i] : i \in 1 .. Len(<< >>)}  BY <2>1, RangeEquality
  <2>3. \A i \in 1 .. 0 : FALSE  OBVIOUS
  <2> QED  BY <2>1, <2>2, <2>3
<1>2. TypeOK
  <2>1. /\ 0 \in 0 .. NSeg /\ 0 \in 0 .. PipeRoom /\ 0 \in 0 .. MaxErrors
        /\ 0 \in -Few .. NSeg /\ 0 \in 0 .. MaxAttempts /\ 0 \in 0 .. MaxEmptyWaits
    BY Constants
  <2>2. downloader \in DownloaderState  BY <2>1 DEF Init, DownloaderState
  <2>3. feeder \in FeederState  BY <1>1, <2>1 DEF Init, FeederState
  <2> QED  BY <1>1, <2>1, <2>2, <2>3 DEF Init, TypeOK
<1>3. WorkersJoined /\ Phases  BY DEF Init, WorkersJoined, Phases
<1>4. SegmentsConserved
  <2>1. Cardinality({}) = 0  BY FS_EmptySet
  <2> QED  BY <1>1, <2>1 DEF Init, SegmentsConserved, One
<1>5. FeedsInTurn
  <2>1. 0 < MaxEmptyWaits  BY Constants
  <2> QED  BY <2>1 DEF Init, FeedsInTurn
<1>6. TodoUnseen /\ RoomToPush  BY DEF Init, TodoUnseen, RoomToPush
<1>7. LineUp
  <2>1. Line = << >>  BY <1>1, ConcatEmptySeq DEF Init, Line
  <2>2. DOMAIN Line = 1 .. 0  BY <1>1, <2>1, LenProperties
  <2>3. \A i \in 1 .. 0 : FALSE  OBVIOUS
  <2> QED  BY <1>1, <2>1, <2>2, <2>3 DEF Init, LineUp
<1>8. PassedBy  BY DEF Init, PassedBy
<1> QED  BY <1>2, <1>3, <1>4, <1>5, <1>6, <1>7, <1>8 DEF HlsInv, Sound

LEMMA StutterHlsInv ==
  ASSUME HlsInv, UNCHANGED vars
  PROVE  HlsInv'
<1> USE DEF vars, serverVars, bufferVars, downloadVars, feedVars, callVars, stopVars
<1>1. Line' = Line /\ Current' = Current /\ MaxBuffer' = MaxBuffer
  BY DEF Line, Current, MaxBuffer
<1>2. (TypeOK /\ WorkersJoined /\ Phases)'
  BY DEF HlsInv, Sound, TypeOK, WorkersJoined, Phases
<1>3. (SegmentsConserved /\ FeedsInTurn)'
  BY <1>1 DEF HlsInv, Sound, SegmentsConserved, FeedsInTurn
<1>4. (TodoUnseen /\ RoomToPush /\ LineUp /\ PassedBy)'
  BY <1>1 DEF HlsInv, TodoUnseen, RoomToPush, LineUp, PassedBy
<1> QED  BY <1>2, <1>3, <1>4 DEF HlsInv, Sound

LEMMA NextHlsInv ==
  ASSUME HlsInv, [Next]_vars
  PROVE  HlsInv'
<1>1. CASE Main  BY <1>1, MainSteps
<1>2. CASE Downloader
  <2>1. CASE EndDownload \/ PollFails \/ PollEndList \/ PollInvalid \/ Rest
    BY <2>1, DownloaderQuietSteps
  <2>2. CASE PollSegments  BY <2>2, PollSegmentsStep
  <2>3. CASE EndOfList \/ ReadSize  BY <2>3, ListSteps
  <2>4. CASE WaitForRoom  BY <2>4, WaitForRoomStep
  <2>5. CASE ClearBuffer  BY <2>5, ClearBufferStep
  <2>6. CASE FetchSegment  BY <2>6, FetchSegmentStep
  <2>7. CASE FetchFails  BY <2>7, FetchFailsStep
  <2>8. CASE PushSegment  BY <2>8, PushSegmentStep
  <2> QED  BY <1>2, <2>1, <2>2, <2>3, <2>4, <2>5, <2>6, <2>7, <2>8 DEF Downloader
<1>3. CASE Feeder
  <2>1. CASE TakeSegments  BY <2>1, TakeSegmentsStep
  <2>2. CASE WriteSucceeds  BY <2>2, WriteSucceedsStep
  <2>3. CASE \/ EndFeed \/ LookAtBuffer \/ EmergencyPause \/ EndPause \/ FoundEmpty
             \/ BeginWrite \/ GiveUpHand \/ WriteFails \/ PipeBroken
    BY <2>3, FeederQuietSteps
  <2> QED  BY <1>3, <2>1, <2>2, <2>3 DEF Feeder
<1>4. CASE UserStops \/ Server \/ PlayerReads \/ PlayerExits  BY <1>4, OutsideSteps
<1>5. CASE UNCHANGED vars  BY <1>5, StutterHlsInv
<1> QED  BY <1>1, <1>2, <1>3, <1>4, <1>5 DEF Next

\* The inductive invariant: how far the threads have come with each other, where
\* every segment is and in what order, and what the downloader has passed over.
THEOREM HlsInvariant == Spec => []HlsInv
<1>1. Init => HlsInv  BY InitHlsInv
<1>2. HlsInv /\ [Next]_vars => HlsInv'  BY NextHlsInv
<1> QED  BY <1>1, <1>2, PTL DEF Spec

\* Every segment taken up is in exactly one place, and the threads that use the
\* function's locals and the pipe have ended when it closes the pipe and returns.
THEOREM HlsSound == Spec => []Sound
<1>1. HlsInv => Sound  BY DEF HlsInv
<1> QED  BY <1>1, HlsInvariant, PTL

\* Segments reach the player in playlist order, and only one that was passed over
\* because of a full buffer is overtaken.
THEOREM OnlySkippedAreOvertaken == Spec => []OvertakesOnlySkipped
<1>1. ASSUME HlsInv PROVE OvertakesOnlySkipped
  <2>1. /\ delivered \in Seq(Segment) /\ feeder.hand \in Seq(Segment)
        /\ queue \in Seq(Segment)
    BY <1>1 DEF HlsInv, Sound, TypeOK, FeederState
  <2>2. /\ Len(delivered) \in Nat /\ Len(feeder.hand) \in Nat /\ Len(queue) \in Nat
        /\ DOMAIN Line = 1 .. Len(delivered) + Len(feeder.hand) + Len(queue)
        /\ \A i \in 1 .. Len(delivered) : Line[i] = delivered[i]
    BY <2>1, ThreeInLine DEF Line
  <2>3. DOMAIN delivered = 1 .. Len(delivered)  BY <2>1, LenProperties
  <2>4. ASSUME NEW i \in DOMAIN delivered
        PROVE  i \in DOMAIN Line /\ Line[i] = delivered[i] /\ delivered[i] \in Nat
    <3>1. delivered[i] \in Segment  BY <2>1, <2>3, ElementOfSeq
    <3>2. i \in 1 .. Len(delivered) + Len(feeder.hand) + Len(queue)  BY <2>2, <2>3
    <3> QED  BY <2>2, <2>3, <3>1, <3>2, Constants
  <2>5. ASSUME NEW i \in DOMAIN delivered, NEW j \in DOMAIN delivered,
               i < j, delivered[i] > delivered[j]
        PROVE  delivered[j] \in skipped
    <3>1. delivered[i] < delivered[j] \/ delivered[j] \in skipped
      BY <1>1, <2>4, <2>5 DEF HlsInv, LineUp
    <3> QED  BY <2>4, <2>5, <3>1
  <2> QED  BY <2>5 DEF OvertakesOnlySkipped
<1> QED  BY <1>1, HlsInvariant, PTL

\* When the threads have been joined and nothing went wrong, nothing is left behind.
THEOREM NothingLeftBehind == Spec => []DrainedAtEnd
<1>1. ASSUME HlsInv PROVE DrainedAtEnd
  <2>1. ASSUME main = "cleanup", ~cancel, player = "alive",
               feeder.attempts < MaxAttempts, feeder.empties < MaxEmptyWaits
        PROVE  queue = << >> /\ feeder.hand = << >>
    <3>1. feeder.pc = "ended"
      BY <1>1, <2>1 DEF HlsInv, Sound, WorkersJoined, Phases
    <3>2. feeder.attempts \in Nat /\ feeder.empties \in Nat
      BY <1>1, Constants DEF HlsInv, Sound, TypeOK, FeederState
    <3>3. feeder.attempts # MaxAttempts /\ feeder.empties # MaxEmptyWaits
      BY <2>1, <3>2, Constants
    <3> QED  BY <1>1, <2>1, <3>1, <3>3 DEF HlsInv, FeedsInTurn
  <2> QED  BY <2>1 DEF DrainedAtEnd
<1> QED  BY <1>1, HlsInvariant, PTL

\* The buffer grows beyond its maximum only in an urgent round, although the size
\* was looked at before the download and used after it.
THEOREM BufferBounded == Spec => PushesBounded
<1>1. ASSUME HlsInv, [Next]_vars
      PROVE  [Len(queue') > Len(queue) => Len(queue) < MaxBuffer \/ urgent]_vars
  <2>1. ASSUME Next, Len(queue') > Len(queue) PROVE Len(queue) < MaxBuffer \/ urgent
    <3>0. queue \in Seq(Segment) /\ Len(queue) \in Nat  BY <1>1, LineFacts DEF HlsInv, Sound, TypeOK
    <3>1. queue' # queue  BY <2>1, <3>0
    <3>2. CASE PushSegment
      BY <1>1, <3>2 DEF HlsInv, RoomToPush, PushSegment, DownloadAt
    <3>3. CASE ClearBuffer
      <4>1. Len(queue') = 0  BY <3>3, EmptySeq DEF ClearBuffer, ClearBufferSwap
      <4> QED  BY <2>1, <3>0, <4>1
    <3>4. CASE TakeSegments
      <4>1. HlsInv'  BY <1>1, NextHlsInv
      <4>2. Take \in Nat /\ queue' = SubSeq(queue, Take + 1, Len(queue))
        <5> DEFINE want == IF feeder.size < LowBuffer THEN Few ELSE 1
        <5>1. {Len(queue), want} \subseteq Nat /\ {Len(queue), want} # {}
          BY <3>0, Constants
        <5>2. Take = Min({Len(queue), want})  BY DEF Take
        <5> HIDE DEF want
        <5> QED  BY <3>4, <5>1, <5>2, MinProperties DEF TakeSegments
      <4>3. \A i \in Take + 1 .. Len(queue) : queue[i] \in Segment
        <5>1. \A i \in Take + 1 .. Len(queue) : i \in 1 .. Len(queue)  BY <3>0, <4>2
        <5> QED  BY <3>0, <5>1, ElementOfSeq
      <4>4. Len(queue') = IF Take + 1 <= Len(queue) THEN Len(queue) - (Take + 1) + 1 ELSE 0
        BY <3>0, <4>2, <4>3, SubSeqProperties
      <4> QED  BY <2>1, <3>0, <4>2, <4>4
    <3>5. CASE ~PushSegment /\ ~ClearBuffer /\ ~TakeSegments
      BY <2>1, <3>1, <3>5 DEF Next, Main, EnterCall, CheckCancel, LaunchFails, Launch,
         JoinDownloader, JoinFeeder, CleanUp, ReturnResult, Notify, ReturnFailed, bufferVars,
         Downloader, EndDownload, PollFails, PollEndList, PollInvalid, PollSegments, EndOfList,
         ReadSize, WaitForRoom, FetchSegment, FetchFails, Rest,
         Feeder, EndFeed, LookAtBuffer, EmergencyPause, EndPause, FoundEmpty, BeginWrite,
         GiveUpHand, WriteSucceeds, WriteFails, PipeBroken,
         UserStops, Server, PlayerReads, PlayerExits
    <3> QED  BY <3>2, <3>3, <3>4, <3>5
  <2>2. CASE UNCHANGED vars  BY <2>2
  <2> QED  BY <1>1, <2>1, <2>2
<1> QED  BY <1>1, HlsInvariant, PTL DEF Spec, PushesBounded
==============================================================================
