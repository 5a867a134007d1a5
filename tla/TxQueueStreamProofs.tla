------------------------- MODULE TxQueueStreamProofs -------------------------
(***************************************************************************)
(* Proofs about the default stream mode, for every number of segments,     *)
(* every size of queue, pipe and playlist, and every limit on errors: the  *)
(* inductive invariant StreamInv of TxQueueStream, the promise of          *)
(* StreamDelivery, and the life cycle of StreamLife.                       *)
(***************************************************************************)
EXTENDS TxQueueStream, DataLemmas, FiniteSetTheorems, SequenceTheorems, TLAPS

\* What the constants are, in the form the provers need.
LEMMA Constants ==
  /\ NSeg \in Nat /\ Window \in Nat /\ PipeRoom \in Nat \ {0} /\ MaxErrors \in Nat \ {0}
  /\ Segment \subseteq Nat /\ Marker \notin Segment /\ NoItem \notin Segment
  /\ Marker # NoItem
  BY TxQueueStreamAssumption DEF Segment, Marker, NoItem

\* The sets of segments are finite, and no larger than the stream.
LEMMA SegmentsFinite ==
  ASSUME NEW T \in SUBSET Segment
  PROVE  IsFiniteSet(T) /\ Cardinality(T) \in Nat /\ Cardinality(T) <= NSeg
<1>1. IsFiniteSet(Segment) /\ Cardinality(Segment) = NSeg
  <2>1. NSeg \in Int /\ 1 \in Int  BY Constants
  <2>2. IsFiniteSet(1 .. NSeg) /\ Cardinality(1 .. NSeg) = IF 1 > NSeg THEN 0 ELSE NSeg - 1 + 1
    BY <2>1, FS_Interval
  <2> QED  BY <2>2, Constants DEF Segment
<1> QED  BY <1>1, FS_Subset, FS_CardinalityType

-----------------------------------------------------------------------------
(* Steps that move no segment.                                             *)

\* No segment is moved, taken up or counted; a download may be given up.
Quiet ==
  /\ UNCHANGED <<queue, delivered, lost, seen, produced, consumed>>
  /\ producer'.todo = producer.todo /\ producer'.seg = producer.seg
  /\ consumer'.item = consumer.item /\ published <= published'
  /\ producer'.pc = "download" => producer.pc = "download"
  /\ producer'.pc = "count" <=> producer.pc = "count"
  /\ consumer'.pc = "count" <=> consumer.pc = "count"
  /\ consumer'.pc = "write" => consumer.pc = "write"
  /\ Stopping => Stopping'

\* Such a step keeps what the invariant says of the segments.
LEMMA QuietKeeps ==
  ASSUME StreamInv, Quiet, TypeOK', WorkersJoined', Phases'
  PROVE  StreamInv'
<1>1. MarkerIsLast'  BY DEF StreamInv, Quiet, MarkerIsLast
<1>2. SegmentsConserved'  BY DEF StreamInv, Quiet, SegmentsConserved
<1>3. Ordered'  BY DEF StreamInv, Quiet, Ordered
<1>4. SeenFirst'  BY Constants DEF StreamInv, Quiet, SeenFirst, TypeOK
<1>5. PassedBy'
  <2>1. \A s \in (producer.todo \ seen)', q \in seen' : q < s
    BY DEF StreamInv, Quiet, PassedBy
  <2>2. \A s \in Int : s <= published - Window => s <= published' - Window
    <3>1. published \in Int /\ published' \in Int /\ Window \in Int
      BY Constants DEF StreamInv, TypeOK
    <3>2. published <= published'  BY DEF Quiet
    <3> DEFINE p == published
               n == published'
    <3> HIDE DEF p, n
    <3>3. p \in Int /\ n \in Int /\ Window \in Int /\ p <= n  BY <3>1, <3>2 DEF p, n
    <3>4. \A s \in Int : s <= p - Window => s <= n - Window  BY ONLY <3>3
    <3> QED  BY <3>4 DEF p, n
  <2>3. ASSUME ~Stopping', NEW q \in (seen \union producer.todo)', NEW s \in Segment,
               s < q, s \notin (seen \union producer.todo)'
        PROVE  s <= published' - Window
    <3>1. s <= published - Window  BY <2>3 DEF StreamInv, Quiet, PassedBy
    <3>2. s \in Int  BY Constants
    <3> QED  BY <2>2, <3>1, <3>2
  <2> QED  BY <2>1, <2>3 DEF PassedBy
<1>6. CountsBounded'
  <2>1. Cardinality(seen) \in Nat  BY SegmentsFinite DEF StreamInv, TypeOK
  <2> QED  BY <2>1 DEF StreamInv, Quiet, CountsBounded, One, TypeOK
<1> QED  BY <1>1, <1>2, <1>3, <1>4, <1>5, <1>6 DEF StreamInv

\* The steps of the stream thread.
LEMMA MonitorSteps ==
  ASSUME StreamInv, MonitorStep, UNCHANGED logging
  PROVE  StreamInv'
<1> USE DEF StreamInv, MonitorStep, StartStreaming, StartFails, MonitorLoop, ReportStats,
            StopStreaming, JoinProducer, JoinConsumer, DestroyManager, NotifyWindow,
            PostAutoStop, ipcVars, playerVars, stopVars
<1>1. Quiet  BY DEF Quiet, Stopping, TypeOK, Phases, ProducerState, ConsumerState
<1>2. TypeOK'  BY ZenonT(60) DEF TypeOK, ProducerState, ConsumerState
<1>3. WorkersJoined'
  <2>1. logging \subseteq {"producer", "consumer", "monitor"}  BY DEF TypeOK, Worker
  <2> QED  BY <2>1 DEF WorkersJoined, Phases
<1>4. Phases'  BY Constants, ZenonT(60) DEF Phases, TypeOK, ProducerState, ConsumerState
<1> QED  BY <1>1, <1>2, <1>3, <1>4, QuietKeeps

\* The steps of the user-interface thread.
LEMMA WindowSteps ==
  ASSUME StreamInv, UI, UNCHANGED logging
  PROVE  StreamInv'
<1> USE DEF StreamInv, UI, StopStream, UserStops, FlagUserStop, AutoStopReceived, JoinStreamThread,
            ipcVars, playerVars
<1>1. Quiet  BY DEF Quiet, Stopping, TypeOK
<1>2. TypeOK'  BY DEF TypeOK
<1>3. WorkersJoined'  BY DEF WorkersJoined
<1>4. Phases'  BY DEF Phases, TypeOK
<1> QED  BY <1>1, <1>2, <1>3, <1>4, QuietKeeps

\* The steps of the server and of the player.
LEMMA OutsideSteps ==
  ASSUME StreamInv, Publish \/ Player, UNCHANGED logging
  PROVE  StreamInv'
<1> USE DEF ipcVars, playerVars, stopVars
<1>0. TypeOK  BY DEF StreamInv
<1>1. published' \in 0 .. NSeg /\ published <= published'
  <2>1. published \in Int  BY <1>0 DEF TypeOK
  <2>2. CASE Publish  BY <1>0, <2>2, Constants DEF Publish, TypeOK
  <2>3. CASE Player
    <3>1. published' = published  BY <2>3 DEF Player, PlayerReads, Resume, PlayerChanges
    <3> QED  BY <1>0, <2>1, <3>1 DEF TypeOK
  <2> QED  BY <2>2, <2>3
<1>2. pipe' \in 0 .. PipeRoom
  <2>1. pipe' = pipe \/ (pipe > 0 /\ pipe' = pipe - 1)
    BY DEF Publish, Player, PlayerReads, Resume, PlayerChanges
  <2> QED  BY <1>0, <2>1, Constants DEF TypeOK
<1>3. /\ UNCHANGED <<queue, endOfStream, produced, consumed, dropped, lost, delivered,
                     producer, seen, consumer, monitor, stopVars>>
      /\ player' \in {player, "playing", "paused", "closed", "dead"}
  BY DEF Publish, Player, PlayerReads, Resume, PlayerChanges
<1>4. Quiet  BY <1>1, <1>3 DEF Quiet, Stopping
<1>5. TypeOK'  BY <1>0, <1>1, <1>2, <1>3 DEF TypeOK
<1>6. WorkersJoined'  BY <1>3 DEF StreamInv, WorkersJoined
<1>7. Phases'  BY <1>3 DEF StreamInv, Phases
<1> QED  BY <1>4, <1>5, <1>6, <1>7, QuietKeeps

\* A thread that waits for its line to be taken: no worker that has been joined.
LEMMA AddDebugLogStep ==
  ASSUME StreamInv, NEW thread \in Worker \union {"monitor"}, AddDebugLog(thread)
  PROVE  StreamInv'
<1> USE DEF AddDebugLog, streamVars, ipcVars, playerVars, stopVars
<1>0. TypeOK /\ WorkersJoined /\ Phases  BY DEF StreamInv
<1>1. published <= published'  BY <1>0 DEF TypeOK
<1>2. Quiet  BY <1>1 DEF Quiet, Stopping
<1>3. TypeOK'  BY <1>0 DEF TypeOK
<1>4. /\ monitor \in {"init", "destroy", "notify", "post", "done"} => thread = "monitor"
      /\ monitor = "joinConsumer" => thread # "producer"
  BY <1>0 DEF WorkersJoined, Phases, AtAddDebugLog, Worker
<1>5. WorkersJoined' /\ Phases'  BY <1>0, <1>4 DEF WorkersJoined, Phases
<1> QED  BY <1>2, <1>3, <1>5, QuietKeeps

\* The producer's failures, and the raising of its end flag.
LEMMA ProducerQuietSteps ==
  ASSUME StreamInv, ParseFails \/ FetchFails \/ DownloadFails \/ RaiseEndOfStream, UNCHANGED logging
  PROVE  StreamInv'
<1> USE DEF ParseFails, FetchFails, DownloadFails, RaiseEndOfStream,
            ipcVars, playerVars, stopVars
<1>0. TypeOK /\ Phases  BY DEF StreamInv
<1>1. /\ UNCHANGED <<published, queue, produced, consumed, dropped, lost, playerVars,
                     seen, consumer, monitor, stopVars>>
      /\ producer.pc \in {"fetch", "download", "signal"} /\ endOfStream' \in BOOLEAN
  BY <1>0 DEF TypeOK
<1> USE DEF ProducerState
<1>2. /\ producer' = [producer EXCEPT !.pc = producer'.pc, !.errors = producer'.errors]
      /\ producer'.pc \in {"fetch", "next", "signal"}
      /\ producer'.pc = "fetch" => producer.pc = "fetch"
      /\ producer'.pc = "next" => producer.pc = "download"
  BY <1>0 DEF TypeOK
<1>3. /\ producer'.errors \in 0 .. MaxErrors
      /\ producer'.pc = "fetch" => producer'.errors < MaxErrors
      /\ producer'.pc = "next" => producer'.errors = 0
  <2>1. CASE FetchFails
    <3>1. producer.errors \in 0 .. MaxErrors /\ producer.errors < MaxErrors
      BY <1>0, <2>1 DEF TypeOK, Phases
    <3>2. /\ producer'.errors = producer.errors + 1
          /\ producer'.pc = IF producer.errors + 1 >= MaxErrors THEN "signal" ELSE "fetch"
      BY <1>0, <2>1 DEF TypeOK
    <3> QED  BY <3>1, <3>2, Constants
  <2>2. CASE ParseFails  BY <1>0, <2>2, Constants DEF TypeOK
  <2>3. CASE DownloadFails  BY <1>0, <2>3, Constants DEF TypeOK, Phases
  <2>4. CASE RaiseEndOfStream  BY <1>0, <2>4, Constants DEF TypeOK
  <2> QED  BY <2>1, <2>2, <2>3, <2>4
<1> HIDE DEF ParseFails, FetchFails, DownloadFails, RaiseEndOfStream
<1>10. producer' \in ProducerState  BY <1>0, <1>2, <1>3 DEF TypeOK
<1>4. published <= published'  BY <1>0, <1>1 DEF TypeOK
<1>5. producer'.todo = producer.todo /\ producer'.seg = producer.seg
  BY <1>0, <1>2 DEF TypeOK
<1> HIDE DEF ProducerState
<1>6. Quiet  BY <1>1, <1>2, <1>4, <1>5 DEF Quiet, Stopping
<1>7. TypeOK'  BY <1>0, <1>1, <1>10 DEF TypeOK
<1>8. WorkersJoined'  BY <1>1 DEF StreamInv, WorkersJoined
<1>9. Phases'  BY <1>0, <1>1, <1>2, <1>3 DEF Phases
<1> QED  BY <1>6, <1>7, <1>8, <1>9, QuietKeeps

\* The consumer's loop head, its failures and its look at an empty queue.
LEMMA ConsumerQuietSteps ==
  ASSUME StreamInv, ConsumerLoop \/ CheckEndOfStream \/ WriteFails \/ CheckPlayer, UNCHANGED logging
  PROVE  StreamInv'
<1>0. TypeOK /\ Phases  BY DEF StreamInv
<1>1. /\ UNCHANGED <<published, ipcVars, playerVars, producer, seen, monitor, stopVars>>
      /\ consumer' \in ConsumerState /\ consumer'.item = consumer.item
      /\ consumer.pc \in {"loop", "empty", "write", "failed"}
      /\ consumer'.pc \in {"ended", "read", "loop", "failed"}
  BY <1>0 DEF TypeOK, ConsumerState, ConsumerLoop, CheckEndOfStream, WriteFails, CheckPlayer
<1> USE DEF ipcVars, playerVars, stopVars
<1>2. published <= published'  BY <1>0, <1>1 DEF TypeOK
<1>3. Quiet  BY <1>1, <1>2 DEF Quiet, Stopping
<1>4. TypeOK'  BY <1>0, <1>1 DEF TypeOK
<1>5. WorkersJoined'  BY <1>1 DEF StreamInv, WorkersJoined
<1>6. Phases'  BY <1>0, <1>1 DEF Phases
<1> QED  BY <1>3, <1>4, <1>5, <1>6, QuietKeeps

-----------------------------------------------------------------------------
(* The producer's steps with a segment.                                    *)

LEMMA FetchPlaylistStep ==
  ASSUME StreamInv, FetchPlaylist, UNCHANGED logging
  PROVE  StreamInv'
<1> USE DEF FetchPlaylist, ipcVars, playerVars, stopVars
<1>0. TypeOK /\ PassedBy /\ SeenFirst  BY DEF StreamInv
<1>1. Listed \subseteq Segment /\ Listed \subseteq 1 .. published
  BY <1>0, Constants DEF Listed, TypeOK, Segment
<1>2. TypeOK' /\ producer'.todo = Listed /\ producer'.pc = "next" /\ producer'.errors = 0
  <2>1. /\ producer' \in ProducerState /\ producer'.todo = Listed
        /\ producer'.pc = "next" /\ producer'.errors = 0
    <3>1. 0 \in 0 .. MaxErrors /\ Listed \in SUBSET Segment  BY <1>1, Constants
    <3> QED  BY <1>0, <3>1 DEF TypeOK, ProducerState
  <2> QED  BY <1>0, <2>1 DEF TypeOK
<1>3. WorkersJoined'  BY DEF StreamInv, WorkersJoined
<1>4. Phases'  BY <1>2 DEF StreamInv, Phases
<1>5. MarkerIsLast' /\ Ordered'  BY DEF StreamInv, MarkerIsLast, Ordered
<1>6. SegmentsConserved'  BY <1>2 DEF StreamInv, SegmentsConserved
<1>7. SeenFirst'  BY <1>0, <1>1, <1>2 DEF SeenFirst
<1>8. PassedBy'
  <2>1. producer'.todo = Listed /\ seen' = seen /\ published' = published
    BY <1>2
  <2>2. ASSUME NEW s \in Listed \ seen, NEW q \in seen PROVE q < s
    <3>1. s \in Nat /\ q \in Nat /\ published \in Nat /\ Window \in Nat /\ s # q
      BY <1>0, <1>1, Constants DEF TypeOK
    <3>2. ~(s <= published - Window)  BY <3>1 DEF Listed
    <3>3. CASE s \in producer.todo  BY <1>0, <3>3 DEF PassedBy
    <3>4. CASE s \notin producer.todo
      <4>1. ~(s < q)  BY <1>0, <1>1, <3>2, <3>4 DEF PassedBy
      <4> QED  BY <3>1, <4>1
    <3> QED  BY <3>3, <3>4
  <2>3. ASSUME NEW q \in seen \union Listed, NEW s \in Segment,
               s < q, s \notin seen \union Listed
        PROVE  s <= published - Window
    <3>1. s \in Nat \ {0} /\ q \in 1 .. published /\ published \in Nat /\ Window \in Nat
      BY <1>0, <1>1, Constants DEF TypeOK, SeenFirst, Segment
    <3>2. s \in 1 .. published  BY <2>3, <3>1
    <3>3. ~(s > published - Window)  BY <2>3, <3>2 DEF Listed
    <3> QED  BY <3>1, <3>3
  <2> QED  BY <2>1, <2>2, <2>3 DEF PassedBy
<1>9. CountsBounded'
  <2>1. Cardinality(seen) \in Nat  BY <1>0, SegmentsFinite DEF TypeOK
  <2> QED  BY <1>0, <1>2, <2>1 DEF StreamInv, CountsBounded, One, TypeOK
<1> QED  BY <1>2, <1>3, <1>4, <1>5, <1>6, <1>7, <1>8, <1>9 DEF StreamInv

LEMMA NextSegmentStep ==
  ASSUME StreamInv, NextSegment, UNCHANGED logging
  PROVE  StreamInv'
<1> DEFINE s == Min(producer.todo)
<1>0. TypeOK /\ PassedBy /\ SeenFirst  BY DEF StreamInv
<1>1. s \in producer.todo /\ s \in Segment /\ \A x \in producer.todo : s <= x
  <2>1. producer.todo \subseteq Nat /\ producer.todo # {} /\ producer.todo \subseteq Segment
    BY <1>0, Constants DEF TypeOK, ProducerState, NextSegment
  <2> QED  BY <2>1, MinProperties
<1>2. /\ seen' = seen \union {s} /\ producer.pc = "next" /\ ~Stopping
      /\ producer' = [producer EXCEPT !.todo = producer.todo \ {s}, !.seg = s,
           !.pc = IF s \in seen \/ IsQueueNearFull THEN "next" ELSE "download"]
      /\ UNCHANGED <<published, ipcVars, playerVars, consumer, monitor, stopVars>>
  BY DEF NextSegment
<1> HIDE DEF s
<1>3. /\ producer'.todo = producer.todo \ {s} /\ producer'.seg = s
      /\ producer'.errors = producer.errors
      /\ producer'.pc \in {"next", "download"}
      /\ producer'.pc = "download" => s \notin seen
  BY <1>0, <1>2 DEF TypeOK, ProducerState
<1> USE DEF ipcVars, playerVars, stopVars
<1>4. TypeOK'
  <2>1. producer' \in ProducerState  BY <1>0, <1>1, <1>2 DEF TypeOK, ProducerState
  <2> QED  BY <1>0, <1>1, <1>2, <2>1 DEF TypeOK
<1>5. WorkersJoined'  BY <1>2 DEF StreamInv, WorkersJoined
<1>6. Phases'  BY <1>2, <1>3 DEF StreamInv, Phases
<1>7. MarkerIsLast' /\ Ordered'  BY <1>2 DEF StreamInv, MarkerIsLast, Ordered
<1>8. SegmentsConserved'  BY <1>2, <1>3 DEF StreamInv, SegmentsConserved
<1>9. SeenFirst'
  <2>1. ASSUME producer'.pc = "download"
        PROVE  /\ s \in seen' /\ \A q \in seen' : q <= s
               /\ s \notin lost \union Range(queue) \union {consumer.item}
    <3>1. s \notin seen  BY <1>3, <2>1
    <3>2. \A q \in seen : q < s  BY <1>0, <1>1, <3>1 DEF PassedBy
    <3>3. \A q \in seen : q <= s  BY <1>0, <1>1, <3>2, Constants DEF TypeOK
    <3>4. s <= s  BY <1>1, Constants
    <3>5. consumer.item # s  BY <1>0, <1>1, <3>1, Constants DEF SeenFirst, TypeOK
    <3>6. s # Marker  BY <1>1, Constants
    <3> QED  BY <1>0, <1>2, <3>1, <3>3, <3>4, <3>5, <3>6 DEF SeenFirst
  <2>2. (seen \union producer.todo)' \subseteq 1 .. published
    BY <1>0, <1>1, <1>2, <1>3 DEF SeenFirst
  <2>3. lost \subseteq seen' /\ Range(queue) \subseteq seen' \union {Marker}
        /\ (consumer.item \in Segment => consumer.item \in seen')
    BY <1>0, <1>2 DEF SeenFirst
  <2> QED  BY <1>2, <1>3, <2>1, <2>2, <2>3 DEF SeenFirst
<1>10. PassedBy'
  <2>1. ASSUME NEW x \in (producer.todo \ seen)', NEW q \in seen' PROVE q < x
    <3>1. x \in producer.todo \ seen /\ x # s  BY <1>2, <1>3
    <3>2. CASE q \in seen  BY <1>0, <3>1, <3>2 DEF PassedBy
    <3>3. CASE q = s
      <4>1. s <= x /\ s \in Nat /\ x \in Nat  BY <1>0, <1>1, <3>1, Constants DEF TypeOK, ProducerState
      <4> QED  BY <3>1, <3>3, <4>1
    <3> QED  BY <1>2, <3>2, <3>3
  <2>2. (seen \union producer.todo)' = seen \union producer.todo  BY <1>1, <1>2, <1>3
  <2>3. Stopping' = Stopping  BY <1>2 DEF Stopping
  <2> QED  BY <1>0, <1>2, <2>1, <2>2, <2>3 DEF PassedBy
<1>11. CountsBounded'
  <2>1. /\ IsFiniteSet(seen) /\ Cardinality(seen) \in Nat /\ Cardinality(seen') \in Nat
        /\ Cardinality(seen') = IF s \in seen THEN Cardinality(seen) ELSE Cardinality(seen) + 1
    BY <1>0, <1>1, <1>2, SegmentsFinite, FS_AddElement DEF TypeOK
  <2>2. produced \in Nat /\ produced <= Cardinality(seen)
    BY <1>0, <1>2, <2>1 DEF StreamInv, CountsBounded, One, TypeOK
  <2>3. produced' = produced  BY <1>2
  <2> QED  BY <1>3, <2>1, <2>2, <2>3 DEF CountsBounded, One
<1> QED  BY <1>4, <1>5, <1>6, <1>7, <1>8, <1>9, <1>10, <1>11 DEF StreamInv

LEMMA PlaylistDoneStep ==
  ASSUME StreamInv, PlaylistDone, UNCHANGED logging
  PROVE  StreamInv'
<1> USE DEF PlaylistDone, ipcVars, playerVars, stopVars
<1>0. TypeOK /\ PassedBy /\ SeenFirst  BY DEF StreamInv
<1>1. /\ producer.pc = "next" /\ producer'.pc = "fetch" /\ producer'.todo = {}
      /\ producer.todo = {} \/ Stopping
  BY <1>0 DEF TypeOK, ProducerState
<1>2. TypeOK'
  <2>1. producer' \in ProducerState  BY <1>0 DEF TypeOK, ProducerState
  <2> QED  BY <1>0, <2>1 DEF TypeOK
<1>3. WorkersJoined'  BY DEF StreamInv, WorkersJoined
<1>4. Phases'  BY <1>0, Constants DEF StreamInv, Phases, TypeOK, ProducerState
<1>5. MarkerIsLast' /\ Ordered'  BY DEF StreamInv, MarkerIsLast, Ordered
<1>6. SegmentsConserved'  BY <1>1 DEF StreamInv, SegmentsConserved
<1>7. SeenFirst'  BY <1>0, <1>1 DEF SeenFirst
<1>8. PassedBy'  BY <1>0, <1>1 DEF PassedBy, Stopping
<1>9. CountsBounded'  BY <1>1 DEF StreamInv, CountsBounded
<1> QED  BY <1>2, <1>3, <1>4, <1>5, <1>6, <1>7, <1>8, <1>9 DEF StreamInv

\* What a produced segment leaves as it was.
LEMMA ProducedNext ==
  ASSUME StreamInv, producer.pc = "download", producer'.pc = "count",
         producer'.todo = producer.todo, TypeOK', MarkerIsLast', SegmentsConserved',
         Ordered', SeenFirst', Phases',
         UNCHANGED <<published, produced, seen, consumer, monitor, stopVars, logging>>
  PROVE  StreamInv'
<1> USE DEF stopVars
<1>1. WorkersJoined'  BY DEF StreamInv, WorkersJoined
<1>2. PassedBy'  BY DEF StreamInv, PassedBy, Stopping
<1>3. CountsBounded'  BY DEF StreamInv, CountsBounded, One
<1> QED  BY <1>1, <1>2, <1>3 DEF StreamInv

LEMMA ProduceSegmentStep ==
  ASSUME StreamInv, ProduceSegment, UNCHANGED logging
  PROVE  StreamInv'
<1> DEFINE s == producer.seg
<1>0. TypeOK /\ SeenFirst /\ Phases  BY DEF StreamInv
<1>1. /\ producer.pc = "download" /\ producer' = [producer EXCEPT !.pc = "count"]
      /\ UNCHANGED <<published, endOfStream, produced, consumed, dropped,
                     playerVars, seen, consumer, monitor, stopVars>>
      /\ \/ queue' = Append(queue, s) /\ lost' = lost
         \/ queue' = queue /\ lost' = lost \union {s}
  BY DEF ProduceSegment, WriteSegmentToQueue
<1>2. /\ s \in Segment /\ s \in seen /\ s # Marker /\ \A q \in seen : q <= s
      /\ s \notin lost \union Range(queue) \union {consumer.item}
  BY <1>0, <1>1, Constants DEF SeenFirst, TypeOK
<1>3. /\ producer' \in ProducerState /\ producer'.pc = "count"
      /\ producer'.todo = producer.todo /\ producer'.errors = producer.errors
  BY <1>0, <1>1 DEF TypeOK, ProducerState
<1>4. Marker \notin Range(queue) /\ consumer.item # Marker  BY <1>0, <1>1 DEF Phases
<1> HIDE DEF s
<1> USE DEF ipcVars, playerVars, stopVars
<1>5. \A q \in seen : q \in Nat  BY <1>0, Constants DEF TypeOK
<1>6. CASE queue' = Append(queue, s) /\ lost' = lost
  <2>1. /\ queue \in Seq(Segment \union {Marker}) /\ s \in Segment \union {Marker}
        /\ Len(queue) \in Nat
    BY <1>0, <1>2 DEF TypeOK
  <2>2. /\ queue' \in Seq(Segment \union {Marker}) /\ Len(queue') = Len(queue) + 1
        /\ \A i \in 1 .. Len(queue) : queue'[i] = queue[i]
        /\ queue'[Len(queue) + 1] = s
    BY <1>6, <2>1, AppendProperties
  <2>3. Range(queue') = Range(queue) \union {s}  BY <1>6, <2>1, RangeOfAppend
  <2>4. \A i \in 1 .. Len(queue) : queue[i] \in Range(queue)  BY <2>1, RangeEquality
  <2>5. \A i \in 1 .. Len(queue) : queue[i] \in seen /\ queue[i] # Marker /\ queue[i] < s
    <3>1. \A i \in 1 .. Len(queue) : queue[i] \in seen /\ queue[i] # Marker /\ queue[i] # s
      BY <1>0, <1>2, <1>4, <2>4 DEF SeenFirst
    <3> QED  BY <1>2, <1>5, <3>1
  <2>6. DOMAIN queue = 1 .. Len(queue) /\ DOMAIN queue' = 1 .. Len(queue) + 1
    BY <2>1, <2>2, LenProperties
  <2>7. \A i \in DOMAIN queue' : i \in DOMAIN queue \/ i = Len(queue) + 1  BY <2>1, <2>6
  <2>8. TypeOK'  BY <1>0, <1>1, <1>3, <1>6, <2>2 DEF TypeOK
  <2>9. MarkerIsLast'
    <3>1. \A i \in 1 .. Len(queue') - 1 : i \in 1 .. Len(queue)  BY <2>1, <2>2
    <3>2. consumer'.item # Marker  BY <1>1, <1>4
    <3> QED  BY <2>2, <2>5, <3>1, <3>2 DEF MarkerIsLast
  <2>10. SegmentsConserved'
    <3>1. produced + 0 = Cardinality(lost) + Len(queue) - 0 + consumed
                          + One(consumer.pc = "count") - One(consumer.item = Marker)
      BY <1>1, <1>4 DEF StreamInv, SegmentsConserved, One
    <3>2. Cardinality(lost) \in Nat  BY <1>0, SegmentsFinite DEF TypeOK
    <3>3. produced \in Nat /\ consumed \in Nat  BY <1>0, Constants DEF TypeOK
    <3>4. Marker \notin Range(queue')  BY <1>2, <1>4, <2>3
    <3>5. \A p : One(p) \in Nat  BY DEF One
    <3>6. One((producer.pc = "count")') = 1 /\ One((Marker \in Range(queue))') = 0
      BY <1>3, <3>4 DEF One
    <3>7. produced + 1 = Cardinality(lost) + (Len(queue) + 1) - 0 + consumed
                          + One(consumer.pc = "count") - One(consumer.item = Marker)
      BY <2>1, <3>1, <3>2, <3>3, <3>5
    <3> QED  BY <1>1, <1>6, <2>2, <3>6, <3>7 DEF SegmentsConserved
  <2>11. Ordered'
    <3>1. ASSUME NEW i \in DOMAIN queue', NEW j \in DOMAIN queue', i < j,
                 queue'[j] # Marker
          PROVE  queue'[i] < queue'[j]
      <4>1. i \in DOMAIN queue  BY <2>1, <2>6, <3>1
      <4>2. CASE j \in DOMAIN queue
        BY <2>2, <2>6, <3>1, <4>1, <4>2 DEF StreamInv, Ordered
      <4>3. CASE j = Len(queue) + 1  BY <2>2, <2>5, <2>6, <4>1, <4>3
      <4> QED  BY <2>7, <4>2, <4>3
    <3>2. ASSUME consumer.item \in Segment, NEW i \in DOMAIN queue', queue'[i] # Marker
          PROVE  consumer.item < queue'[i]
      <4>1. CASE i \in DOMAIN queue
        BY <2>2, <2>6, <3>2, <4>1 DEF StreamInv, Ordered
      <4>2. CASE i = Len(queue) + 1
        <5>1. consumer.item \in seen /\ consumer.item # s  BY <1>0, <1>2, <3>2 DEF SeenFirst
        <5> QED  BY <1>2, <1>5, <2>2, <4>2, <5>1
      <4> QED  BY <2>7, <4>1, <4>2
    <3> QED  BY <1>1, <3>1, <3>2 DEF StreamInv, Ordered
  <2>12. SeenFirst'  BY <1>0, <1>1, <1>2, <1>3, <1>6, <2>3 DEF SeenFirst
  <2>13. Phases'  BY <1>0, <1>1, <1>2, <1>3, <1>4, <2>3 DEF Phases
  <2> QED  BY <1>1, <1>3, <2>8, <2>9, <2>10, <2>11, <2>12, <2>13, ProducedNext
<1>7. CASE queue' = queue /\ lost' = lost \union {s}
  <2>1. TypeOK'  BY <1>0, <1>1, <1>2, <1>3, <1>7 DEF TypeOK
  <2>2. MarkerIsLast' /\ Ordered'  BY <1>1, <1>7 DEF StreamInv, MarkerIsLast, Ordered
  <2>3. SegmentsConserved'
    <3>1. Cardinality(lost') = Cardinality(lost) + 1 /\ Cardinality(lost) \in Nat
      BY <1>0, <1>2, <1>7, SegmentsFinite, FS_AddElement DEF TypeOK
    <3>2. produced \in Nat /\ consumed \in Nat /\ Len(queue) \in Nat
      BY <1>0, Constants DEF TypeOK
    <3>3. \A p : One(p) \in Nat  BY DEF One
    <3>4. One(producer.pc = "count") = 0 /\ One((producer.pc = "count")') = 1
      BY <1>1, <1>3 DEF One
    <3>5. produced + 0 = Cardinality(lost) + Len(queue) - One(Marker \in Range(queue))
             + consumed + One(consumer.pc = "count") - One(consumer.item = Marker)
      BY <3>4 DEF StreamInv, SegmentsConserved
    <3>6. produced + 1 = (Cardinality(lost) + 1) + Len(queue) - One(Marker \in Range(queue))
             + consumed + One(consumer.pc = "count") - One(consumer.item = Marker)
      BY <3>1, <3>2, <3>3, <3>5
    <3> QED  BY <1>1, <1>7, <3>1, <3>4, <3>6 DEF SegmentsConserved
  <2>4. SeenFirst'  BY <1>0, <1>1, <1>2, <1>3, <1>7 DEF SeenFirst
  <2>5. Phases'  BY <1>0, <1>1, <1>3, <1>4, <1>7 DEF Phases
  <2> QED  BY <1>1, <1>3, <2>1, <2>2, <2>3, <2>4, <2>5, ProducedNext
<1> QED  BY <1>1, <1>6, <1>7

LEMMA CountProducedStep ==
  ASSUME StreamInv, CountProduced, UNCHANGED logging
  PROVE  StreamInv'
<1> USE DEF ipcVars, playerVars, stopVars
<1>0. TypeOK /\ SeenFirst /\ Phases  BY DEF StreamInv
<1>1. /\ producer.pc = "count" /\ producer' = [producer EXCEPT !.pc = "next"]
      /\ produced' = produced + 1
      /\ UNCHANGED <<published, queue, endOfStream, consumed, dropped, lost, playerVars,
                     seen, consumer, monitor, stopVars>>
  BY DEF CountProduced, WriteReturns
<1>2. /\ producer' \in ProducerState /\ producer'.pc = "next"
      /\ producer'.todo = producer.todo /\ producer'.errors = producer.errors
  BY <1>0, <1>1 DEF TypeOK, ProducerState
<1>3. /\ Cardinality(seen) \in Nat /\ Cardinality(seen) <= NSeg
      /\ produced \in Nat /\ produced + 1 <= Cardinality(seen)
  BY <1>0, <1>1, SegmentsFinite, Constants DEF StreamInv, CountsBounded, One, TypeOK
<1>4. TypeOK'
  <2>1. produced' \in 0 .. NSeg  BY <1>1, <1>3, Constants
  <2> QED  BY <1>0, <1>1, <1>2, <2>1 DEF TypeOK
<1>5. WorkersJoined'  BY <1>1 DEF StreamInv, WorkersJoined
<1>6. Phases'  BY <1>0, <1>1, <1>2 DEF Phases
<1>7. MarkerIsLast' /\ Ordered'  BY <1>1 DEF StreamInv, MarkerIsLast, Ordered
<1>8. SegmentsConserved'
  <2>1. One(producer.pc = "count") = 1 /\ One((producer.pc = "count")') = 0
    BY <1>1, <1>2 DEF One
  <2>2. produced + 1 = produced' + 0  BY <1>1, <1>3
  <2> QED  BY <1>1, <2>1, <2>2 DEF StreamInv, SegmentsConserved
<1>9. SeenFirst'  BY <1>0, <1>1, <1>2 DEF SeenFirst
<1>10. PassedBy'  BY <1>1, <1>2 DEF StreamInv, PassedBy, Stopping
<1>11. CountsBounded'
  <2>1. One((producer.pc \in {"download", "count"})') = 0  BY <1>2 DEF One
  <2> QED  BY <1>1, <1>3, <2>1 DEF CountsBounded
<1> QED  BY <1>4, <1>5, <1>6, <1>7, <1>8, <1>9, <1>10, <1>11 DEF StreamInv

LEMMA QueueEndMarkerStep ==
  ASSUME StreamInv, QueueEndMarker, UNCHANGED logging
  PROVE  StreamInv'
<1> USE DEF ipcVars, playerVars, stopVars
<1>0. TypeOK /\ SeenFirst /\ Phases  BY DEF StreamInv
<1>1. /\ producer.pc = "signal" /\ producer' = [producer EXCEPT !.pc = "ended"]
      /\ UNCHANGED <<published, endOfStream, produced, consumed, dropped, lost,
                     playerVars, seen, consumer, monitor, stopVars>>
      /\ queue' = Append(queue, Marker) \/ queue' = queue
  BY DEF QueueEndMarker, WriteSegmentToQueue
<1>2. /\ producer' \in ProducerState /\ producer'.pc = "ended"
      /\ producer'.todo = producer.todo
  BY <1>0, <1>1 DEF TypeOK, ProducerState
<1>3. Marker \notin Range(queue) /\ consumer.item # Marker  BY <1>0, <1>1 DEF Phases
<1>4. /\ queue \in Seq(Segment \union {Marker}) /\ Marker \in Segment \union {Marker}
      /\ Len(queue) \in Nat
  BY <1>0 DEF TypeOK
<1>5. WorkersJoined'  BY <1>1, <1>2 DEF StreamInv, WorkersJoined
<1>6. Phases'  BY <1>0, <1>1, <1>2 DEF Phases
<1>7. PassedBy'  BY <1>1, <1>2 DEF StreamInv, PassedBy, Stopping
<1>8. CountsBounded'
  <2>1. One((producer.pc \in {"download", "count"})') = 0
        /\ One(producer.pc \in {"download", "count"}) = 0
    BY <1>1, <1>2 DEF One
  <2> QED  BY <1>1, <2>1 DEF StreamInv, CountsBounded
<1>9. CASE queue' = queue
  <2>1. TypeOK'  BY <1>0, <1>1, <1>2, <1>9 DEF TypeOK
  <2>2. MarkerIsLast' /\ Ordered'  BY <1>1, <1>9 DEF StreamInv, MarkerIsLast, Ordered
  <2>3. SegmentsConserved'  BY <1>1, <1>2, <1>9 DEF StreamInv, SegmentsConserved
  <2>4. SeenFirst'  BY <1>0, <1>1, <1>2, <1>9 DEF SeenFirst
  <2> QED  BY <1>5, <1>6, <1>7, <1>8, <2>1, <2>2, <2>3, <2>4 DEF StreamInv
<1>10. CASE queue' = Append(queue, Marker)
  <2>1. /\ queue' \in Seq(Segment \union {Marker}) /\ Len(queue') = Len(queue) + 1
        /\ \A i \in 1 .. Len(queue) : queue'[i] = queue[i]
        /\ queue'[Len(queue) + 1] = Marker
    BY <1>4, <1>10, AppendProperties
  <2>2. Range(queue') = Range(queue) \union {Marker}  BY <1>4, <1>10, RangeOfAppend
  <2>3. \A i \in 1 .. Len(queue) : queue[i] # Marker  BY <1>3, <1>4, RangeEquality
  <2>4. DOMAIN queue = 1 .. Len(queue) /\ DOMAIN queue' = 1 .. Len(queue) + 1
    BY <1>4, <2>1, LenProperties
  <2>5. \A i \in DOMAIN queue' : queue'[i] # Marker => i \in DOMAIN queue
    BY <1>4, <2>1, <2>4
  <2>6. TypeOK'  BY <1>0, <1>1, <1>2, <2>1 DEF TypeOK
  <2>7. MarkerIsLast'
    <3>1. \A i \in 1 .. Len(queue') - 1 : i \in 1 .. Len(queue)  BY <1>4, <2>1
    <3>2. consumer'.item # Marker  BY <1>1, <1>3
    <3> QED  BY <2>1, <2>3, <3>1, <3>2 DEF MarkerIsLast
  <2>8. SegmentsConserved'
    <3>1. /\ One(Marker \in Range(queue)) = 0 /\ One((Marker \in Range(queue))') = 1
          /\ One(producer.pc = "count") = 0 /\ One((producer.pc = "count")') = 0
      BY <1>1, <1>2, <1>3, <2>2 DEF One
    <3>2. Cardinality(lost) \in Nat  BY <1>0, SegmentsFinite DEF TypeOK
    <3>3. Cardinality(lost) + Len(queue) - 0 = Cardinality(lost) + (Len(queue) + 1) - 1
      BY <1>4, <3>2
    <3> QED  BY <1>1, <2>1, <3>1, <3>3 DEF StreamInv, SegmentsConserved
  <2>9. Ordered'
    <3>1. ASSUME NEW i \in DOMAIN queue', NEW j \in DOMAIN queue', i < j,
                 queue'[j] # Marker
          PROVE  queue'[i] < queue'[j]
      <4>1. j \in DOMAIN queue  BY <2>5, <3>1
      <4>2. i \in DOMAIN queue  BY <1>4, <2>4, <3>1, <4>1
      <4> QED  BY <2>1, <2>4, <3>1, <4>1, <4>2 DEF StreamInv, Ordered
    <3>2. ASSUME consumer.item \in Segment, NEW i \in DOMAIN queue', queue'[i] # Marker
          PROVE  consumer.item < queue'[i]
      <4>1. i \in DOMAIN queue  BY <2>5, <3>2
      <4> QED  BY <2>1, <2>4, <3>2, <4>1 DEF StreamInv, Ordered
    <3> QED  BY <1>1, <3>1, <3>2 DEF StreamInv, Ordered
  <2>10. SeenFirst'  BY <1>0, <1>1, <1>2, <2>2 DEF SeenFirst
  <2> QED  BY <1>5, <1>6, <1>7, <1>8, <2>6, <2>7, <2>8, <2>9, <2>10 DEF StreamInv
<1> QED  BY <1>1, <1>9, <1>10

-----------------------------------------------------------------------------
(* The consumer's steps with a segment.                                    *)

LEMMA ReadSegmentStep ==
  ASSUME StreamInv, ReadSegment, UNCHANGED logging
  PROVE  StreamInv'
<1> USE DEF ipcVars, playerVars, stopVars
<1>0. TypeOK /\ SeenFirst /\ Phases /\ Ordered /\ MarkerIsLast  BY DEF StreamInv
<1>1. /\ consumer.pc = "read"
      /\ UNCHANGED <<published, endOfStream, produced, consumed, dropped, lost,
                     playerVars, producer, seen, monitor, stopVars>>
  BY DEF ReadSegment
<1>2. WorkersJoined'  BY <1>0, <1>1 DEF StreamInv, WorkersJoined
<1>3. PassedBy'  BY <1>1 DEF StreamInv, PassedBy, Stopping
<1>4. CountsBounded'  BY <1>1 DEF StreamInv, CountsBounded
<1>5. consumer.item # Marker  BY <1>0, <1>1 DEF Phases
<1>6. CASE queue = << >>
  <2>1. queue' = queue /\ consumer' = [consumer EXCEPT !.pc = "empty"]
    BY <1>6 DEF ReadSegment
  <2>2. consumer' \in ConsumerState /\ consumer'.item = consumer.item /\ consumer'.pc = "empty"
    BY <1>0, <2>1 DEF TypeOK, ConsumerState
  <2>3. TypeOK'  BY <1>0, <1>1, <2>1, <2>2 DEF TypeOK
  <2>4. MarkerIsLast' /\ Ordered'  BY <1>0, <1>1, <2>1, <2>2 DEF MarkerIsLast, Ordered
  <2>5. SegmentsConserved'  BY <1>1, <2>1, <2>2 DEF StreamInv, SegmentsConserved
  <2>6. SeenFirst'  BY <1>0, <1>1, <2>1, <2>2 DEF SeenFirst
  <2>7. Phases'  BY <1>0, <1>1, <2>1, <2>2 DEF Phases
  <2> QED  BY <1>2, <1>3, <1>4, <2>3, <2>4, <2>5, <2>6, <2>7 DEF StreamInv
<1>7. CASE queue # << >>
  <2>1. queue' = Tail(queue) /\ consumer' = [consumer EXCEPT !.pc = "count", !.item = Head(queue)]
    BY <1>7 DEF ReadSegment
  <2>2. queue \in Seq(Segment \union {Marker})  BY <1>0 DEF TypeOK
  <2>3. /\ Len(queue) \in Nat \ {0} /\ Head(queue) = queue[1]
        /\ Range(queue) = Range(queue') \union {queue[1]}
    BY <1>7, <2>1, <2>2, RangeOfTail
  <2>4. /\ queue' \in Seq(Segment \union {Marker}) /\ Len(queue') = Len(queue) - 1
        /\ \A i \in 1 .. Len(queue') : queue'[i] = queue[i + 1]
        /\ Head(queue) \in Segment \union {Marker}
    BY <1>7, <2>1, <2>2, HeadTailProperties
  <2>5. DOMAIN queue = 1 .. Len(queue) /\ DOMAIN queue' = 1 .. Len(queue) - 1
    BY <2>2, <2>4, LenProperties
  <2>6. \A i \in DOMAIN queue' : i + 1 \in DOMAIN queue /\ queue'[i] = queue[i + 1]
    BY <2>3, <2>4, <2>5
  <2>7. /\ consumer' \in ConsumerState /\ consumer'.item = queue[1] /\ consumer'.pc = "count"
        /\ queue[1] \in Segment \union {Marker}
    BY <1>0, <2>1, <2>3, <2>4 DEF TypeOK, ConsumerState
  <2>8. TypeOK'  BY <1>0, <1>1, <2>4, <2>7 DEF TypeOK
  <2>9. queue[1] = Marker => queue' = << >> /\ Range(queue') = {}
    <3>1. ASSUME queue[1] = Marker PROVE Len(queue) = 1
      <4>1. ~(1 \in 1 .. Len(queue) - 1)  BY <1>0, <3>1 DEF MarkerIsLast
      <4> DEFINE n == Len(queue)
      <4>2. n \in Nat \ {0} /\ ~(1 \in 1 .. n - 1)  BY <2>3, <4>1
      <4> HIDE DEF n
      <4>3. n = 1  BY <4>2
      <4> QED  BY <4>3 DEF n
    <3>2. ASSUME Len(queue) = 1 PROVE queue' = << >>  BY <2>4, <3>2, EmptySeq
    <3>3. ASSUME queue' = << >> PROVE Range(queue') = {}
      <4>1. Len(queue') = 0  BY <2>4, <3>3, EmptySeq
      <4>2. Range(queue') = {queue'[i] : i \in 1 .. Len(queue')}  BY <2>4, RangeEquality
      <4>3. \A i \in 1 .. 0 : FALSE  OBVIOUS
      <4> QED  BY <4>1, <4>2, <4>3
    <3> QED  BY <3>1, <3>2, <3>3
  <2>10. MarkerIsLast'
    <3>1. ASSUME NEW i \in 1 .. Len(queue') - 1 PROVE queue'[i] # Marker
      <4>1. i \in 1 .. Len(queue') /\ i + 1 \in 1 .. Len(queue) - 1  BY <2>3, <2>4
      <4> QED  BY <1>0, <2>4, <4>1 DEF MarkerIsLast
    <3> QED  BY <2>7, <2>9, <3>1 DEF MarkerIsLast
  <2>11. SegmentsConserved'
    <3>1. One(consumer.pc = "count") = 0 /\ One((consumer.pc = "count")') = 1
          /\ One(consumer.item = Marker) = 0
      BY <1>1, <1>5, <2>7 DEF One
    <3>2. One(Marker \in Range(queue)) = One((Marker \in Range(queue))')
                                         + One((consumer.item = Marker)')
      <4>1. CASE queue[1] = Marker  BY <2>3, <2>7, <2>9, <4>1 DEF One
      <4>2. CASE queue[1] # Marker  BY <2>3, <2>7, <4>2 DEF One
      <4> QED  BY <4>1, <4>2
    <3>3. \A p : One(p) \in Nat  BY DEF One
    <3>4. Cardinality(lost) \in Nat  BY <1>0, SegmentsFinite DEF TypeOK
    <3>5. produced \in Nat /\ consumed \in Nat  BY <1>0, Constants DEF TypeOK
    <3>6. produced + One(producer.pc = "count") =
              Cardinality(lost) + Len(queue) - One(Marker \in Range(queue)) + consumed + 0 - 0
      BY <3>1 DEF StreamInv, SegmentsConserved
    <3>7. produced + One(producer.pc = "count") =
              Cardinality(lost) + Len(queue') - One((Marker \in Range(queue))')
              + consumed + 1 - One((consumer.item = Marker)')
      <4> DEFINE a == One(producer.pc = "count")
                 b == One(Marker \in Range(queue))
                 c == One((Marker \in Range(queue))')
                 d == One((consumer.item = Marker)')
      <4>1. a \in Nat /\ b \in Nat /\ c \in Nat /\ d \in Nat /\ b = c + d  BY <3>2, <3>3
      <4>2. produced + a = Cardinality(lost) + Len(queue) - b + consumed + 0 - 0  BY <3>6
      <4> HIDE DEF a, b, c, d
      <4>3. produced + a = Cardinality(lost) + (Len(queue) - 1) - c + consumed + 1 - d
        BY <2>3, <3>4, <3>5, <4>1, <4>2
      <4>4. produced + a = Cardinality(lost) + Len(queue') - c + consumed + 1 - d
        BY <2>4, <4>3
      <4> QED  BY <4>4 DEF a, c, d
    <3> QED  BY <1>1, <3>1, <3>7 DEF SegmentsConserved
  <2>12. Ordered'
    <3>1. ASSUME NEW i \in DOMAIN queue', NEW j \in DOMAIN queue', i < j, queue'[j] # Marker
          PROVE  queue'[i] < queue'[j]
      <4>1. i + 1 < j + 1  BY <2>3, <2>5, <3>1
      <4> QED  BY <1>0, <2>6, <3>1, <4>1 DEF Ordered
    <3>2. ASSUME queue[1] \in Segment, NEW i \in DOMAIN queue', queue'[i] # Marker
          PROVE  queue[1] < queue'[i]
      <4>1. 1 \in DOMAIN queue /\ 1 < i + 1  BY <2>3, <2>5, <3>2
      <4> QED  BY <1>0, <2>6, <3>2, <4>1 DEF Ordered
    <3>3. ASSUME queue[1] \in Segment, NEW i \in DOMAIN delivered
          PROVE  delivered[i] < queue[1] /\ delivered[i] <= queue[1]
      <4>1. consumer.item \in Segment
        BY <1>0, <1>5, <3>3 DEF Ordered, TypeOK, ConsumerState
      <4>2. delivered[i] <= consumer.item  BY <1>0, <3>3, <4>1 DEF Ordered
      <4>3. consumer.item < queue[1]
        <5>1. 1 \in DOMAIN queue /\ queue[1] # Marker  BY <2>3, <2>5, <3>3, Constants
        <5> QED  BY <1>0, <4>1, <5>1 DEF Ordered
      <4>4. delivered[i] \in Nat /\ consumer.item \in Nat /\ queue[1] \in Nat
        <5>1. delivered \in Seq(Segment)  BY <1>0 DEF TypeOK
        <5>2. delivered[i] \in Segment  BY <3>3, <5>1, ElementOfSeq, LenProperties
        <5> QED  BY <3>3, <4>1, <5>2, Constants
      <4> QED  BY <4>2, <4>3, <4>4
    <3>4. queue[1] # NoItem  BY <2>7, Constants
    <3> QED  BY <1>0, <1>1, <2>7, <3>1, <3>2, <3>3, <3>4 DEF Ordered
  <2>13. SeenFirst'  BY <1>0, <1>1, <2>3, <2>7, Constants DEF SeenFirst
  <2>14. Phases'  BY <1>0, <1>1, <2>3, <2>7, Constants DEF Phases
  <2> QED  BY <1>2, <1>3, <1>4, <2>8, <2>10, <2>11, <2>12, <2>13, <2>14 DEF StreamInv
<1> QED  BY <1>6, <1>7

LEMMA CountConsumedStep ==
  ASSUME StreamInv, CountConsumed, UNCHANGED logging
  PROVE  StreamInv'
<1> USE DEF ipcVars, playerVars, stopVars
<1>0. TypeOK /\ SeenFirst /\ Phases /\ Ordered  BY DEF StreamInv
<1>1. /\ consumer.pc = "count" /\ consumed' = consumed + 1
      /\ consumer' = [consumer EXCEPT
                        !.pc = IF consumer.item = Marker THEN "ended" ELSE "write"]
      /\ UNCHANGED <<published, queue, endOfStream, produced, dropped, lost,
                     playerVars, producer, seen, monitor, stopVars>>
  BY DEF CountConsumed
<1>2. /\ consumer' \in ConsumerState /\ consumer'.item = consumer.item
      /\ consumer'.pc = IF consumer.item = Marker THEN "ended" ELSE "write"
  BY <1>0, <1>1 DEF TypeOK, ConsumerState
<1>3. /\ produced \in Nat /\ consumed \in Nat /\ Len(queue) \in Nat /\ NSeg \in Nat
      /\ Cardinality(lost) \in Nat /\ Cardinality(seen) \in Nat /\ Cardinality(seen) <= NSeg
  <2>1. lost \in SUBSET Segment /\ seen \in SUBSET Segment  BY <1>0 DEF TypeOK
  <2>2. produced \in Nat /\ consumed \in Nat /\ Len(queue) \in Nat /\ NSeg \in Nat
    BY <1>0, Constants DEF TypeOK
  <2> QED  BY <2>1, <2>2, SegmentsFinite
<1>4. \A p : One(p) \in Nat /\ One(p) <= 1  BY DEF One
<1>5. One(consumer.pc = "count") = 1 /\ One((consumer.pc = "count")') = 0
  BY <1>1, <1>2 DEF One
<1>6. produced + One(producer.pc = "count") =
         Cardinality(lost) + Len(queue) - One(Marker \in Range(queue)) + consumed + 1
         - One(consumer.item = Marker)
  BY <1>5 DEF StreamInv, SegmentsConserved
<1>7. TypeOK'
  <2>1. One(Marker \in Range(queue)) <= Len(queue)
    <3>1. CASE Marker \in Range(queue)
      <4>1. queue \in Seq(Segment \union {Marker})  BY <1>0 DEF TypeOK
      <4>2. \E i \in 1 .. Len(queue) : queue[i] = Marker  BY <3>1, <4>1, RangeEquality
      <4>3. Len(queue) >= 1  BY <1>3, <4>2
      <4> QED  BY <1>3, <1>4, <4>3
    <3>2. CASE Marker \notin Range(queue)  BY <1>3, <3>2 DEF One
    <3> QED  BY <3>1, <3>2
  <2>2. One(producer.pc = "count") <= One(producer.pc \in {"download", "count"})  BY DEF One
  <2>3. produced + One(producer.pc = "count") <= NSeg
    <3>1. produced + One(producer.pc \in {"download", "count"}) <= Cardinality(seen)
      BY DEF StreamInv, CountsBounded
    <3> QED  BY <1>3, <1>4, <2>2, <3>1
  <2>4. consumed + 1 <= NSeg + 1
    <3> DEFINE a == One(producer.pc = "count")
               b == One(Marker \in Range(queue))
               c == One(consumer.item = Marker)
    <3>1. a \in Nat /\ b \in Nat /\ c \in Nat /\ c <= 1  BY <1>4
    <3>2. b <= Len(queue) /\ produced + a <= NSeg
          /\ produced + a = Cardinality(lost) + Len(queue) - b + consumed + 1 - c
      BY <1>6, <2>1, <2>3
    <3> HIDE DEF a, b, c
    <3> QED  BY <1>3, <3>1, <3>2
  <2>5. consumed' \in 0 .. NSeg + 1  BY <1>1, <1>3, <2>4
  <2> QED  BY <1>0, <1>1, <1>2, <2>5 DEF TypeOK
<1>8. WorkersJoined'  BY <1>1 DEF StreamInv, WorkersJoined
<1>9. MarkerIsLast'  BY <1>1, <1>2 DEF StreamInv, MarkerIsLast
<1>10. SegmentsConserved'
  <2> DEFINE a == One(producer.pc = "count")
             b == One(Marker \in Range(queue))
             c == One(consumer.item = Marker)
  <2>1. a \in Nat /\ b \in Nat /\ c \in Nat  BY <1>4
  <2>2. produced + a = Cardinality(lost) + Len(queue) - b + consumed + 1 - c  BY <1>6
  <2>3. produced + a = Cardinality(lost) + Len(queue) - b + (consumed + 1) + 0 - c
    <3> HIDE DEF a, b, c
    <3> QED  BY <1>3, <2>1, <2>2
  <2> QED  BY <1>1, <1>2, <1>5, <2>3 DEF SegmentsConserved
<1>11. Phases'  BY <1>0, <1>1, <1>2 DEF Phases
<1>12. Ordered'  BY <1>0, <1>1, <1>2 DEF Ordered
<1>13. SeenFirst'  BY <1>0, <1>1, <1>2 DEF SeenFirst
<1>14. PassedBy'  BY <1>1 DEF StreamInv, PassedBy, Stopping
<1>15. CountsBounded'  BY <1>1 DEF StreamInv, CountsBounded
<1> QED  BY <1>7, <1>8, <1>9, <1>10, <1>11, <1>12, <1>13, <1>14, <1>15 DEF StreamInv

\* What a write delivers is later than everything delivered before.
LEMMA WritesInOrder ==
  ASSUME StreamInv, WriteToPlayer
  PROVE  /\ consumer.item \in Segment
         /\ \A i \in DOMAIN delivered : delivered[i] < consumer.item
         /\ delivered' = Append(delivered, consumer.item)
  BY DEF StreamInv, TypeOK, ConsumerState, Phases, Ordered, WriteToPlayer

LEMMA WriteToPlayerStep ==
  ASSUME StreamInv, WriteToPlayer, UNCHANGED logging
  PROVE  StreamInv'
<1> USE DEF ipcVars, playerVars, stopVars
<1> DEFINE s == consumer.item
<1>0. TypeOK /\ SeenFirst /\ Phases /\ Ordered  BY DEF StreamInv
<1>1. /\ consumer.pc = "write" /\ player \in {"playing", "paused"}
      /\ pipe < PipeRoom /\ pipe' = pipe + 1
      /\ consumer' = [consumer EXCEPT !.pc = "loop"]
      /\ UNCHANGED <<published, ipcVars, player, producer, seen, monitor, stopVars>>
  BY DEF WriteToPlayer
<1>2. /\ s \in Segment /\ delivered' = Append(delivered, s)
      /\ \A i \in DOMAIN delivered : delivered[i] < s
  BY WritesInOrder
<1>3. consumer' \in ConsumerState /\ consumer'.item = s /\ consumer'.pc = "loop"
  BY <1>0, <1>1 DEF TypeOK, ConsumerState
<1>4. delivered \in Seq(Segment) /\ Len(delivered) \in Nat  BY <1>0 DEF TypeOK
<1> HIDE DEF s
<1>5. /\ delivered' \in Seq(Segment) /\ Len(delivered') = Len(delivered) + 1
      /\ \A i \in 1 .. Len(delivered) : delivered'[i] = delivered[i]
      /\ delivered'[Len(delivered) + 1] = s
  BY <1>2, <1>4, AppendProperties
<1>6. DOMAIN delivered = 1 .. Len(delivered) /\ DOMAIN delivered' = 1 .. Len(delivered) + 1
  BY <1>4, <1>5, LenProperties
<1>7. \A i \in DOMAIN delivered' : i \in DOMAIN delivered \/ i = Len(delivered) + 1
  BY <1>4, <1>6
<1>8. TypeOK'
  <2>1. pipe' \in 0 .. PipeRoom  BY <1>0, <1>1, Constants DEF TypeOK
  <2> QED  BY <1>0, <1>1, <1>3, <1>5, <2>1 DEF TypeOK
<1>9. WorkersJoined'  BY <1>1 DEF StreamInv, WorkersJoined
<1>10. MarkerIsLast'  BY <1>1, <1>3 DEF StreamInv, MarkerIsLast, s
<1>11. SegmentsConserved'
  <2>1. One(consumer.pc = "count") = 0 /\ One((consumer.pc = "count")') = 0
    BY <1>1, <1>3 DEF One
  <2> QED  BY <1>1, <1>3, <2>1 DEF StreamInv, SegmentsConserved, s
<1>12. Phases'  BY <1>0, <1>1, <1>3 DEF Phases, s
<1>13. Ordered'
  <2>1. ASSUME NEW i \in DOMAIN delivered', NEW j \in DOMAIN delivered', i < j
        PROVE  delivered'[i] < delivered'[j]
    <3>1. i \in DOMAIN delivered  BY <1>4, <1>6, <2>1
    <3>2. CASE j \in DOMAIN delivered  BY <1>0, <1>5, <1>6, <2>1, <3>1, <3>2 DEF Ordered
    <3>3. CASE j = Len(delivered) + 1  BY <1>2, <1>5, <1>6, <3>1, <3>3
    <3> QED  BY <1>7, <3>2, <3>3
  <2>2. ASSUME NEW i \in DOMAIN delivered' PROVE delivered'[i] <= s
    <3>1. s \in Nat  BY <1>2, Constants
    <3>2. CASE i = Len(delivered) + 1  BY <1>5, <3>1, <3>2
    <3>3. CASE i \in DOMAIN delivered
      <4>1. delivered[i] \in Nat  BY <1>4, <1>6, <3>3, ElementOfSeq, Constants
      <4> QED  BY <1>2, <1>5, <1>6, <3>1, <3>3, <4>1
    <3> QED  BY <1>7, <3>2, <3>3
  <2>3. s # NoItem  BY <1>2, Constants
  <2> QED  BY <1>0, <1>1, <1>2, <1>3, <2>1, <2>2, <2>3 DEF Ordered, s
<1>14. SeenFirst'  BY <1>0, <1>1, <1>3 DEF SeenFirst, s
<1>15. PassedBy'  BY <1>1 DEF StreamInv, PassedBy, Stopping
<1>16. CountsBounded'  BY <1>1 DEF StreamInv, CountsBounded
<1> QED  BY <1>8, <1>9, <1>10, <1>11, <1>12, <1>13, <1>14, <1>15, <1>16 DEF StreamInv

-----------------------------------------------------------------------------
(* The invariant.                                                          *)

LEMMA InitStream == Init => StreamInv
<1> SUFFICES ASSUME Init PROVE StreamInv
  OBVIOUS
<1> USE DEF Init
<1>1. << >> \in Seq(Segment) /\ << >> \in Seq(Segment \union {Marker}) /\ Len(<< >>) = 0
  OBVIOUS
<1>2. DOMAIN << >> = {} /\ Range(<< >>) = {}
  BY <1>1 DEF Range
<1>3. Cardinality({}) = 0  BY FS_EmptySet
<1>4. producer \in ProducerState /\ consumer \in ConsumerState
  BY Constants DEF ProducerState, ConsumerState
<1>5. TypeOK
  <2>1. 0 \in 0 .. NSeg /\ 0 \in 0 .. NSeg + 1 /\ 0 \in 0 .. PipeRoom  BY Constants
  <2>2. {FALSE, FALSE, FALSE, FALSE} \subseteq BOOLEAN  OBVIOUS
  <2>3. delivered \in Seq(Segment) /\ queue \in Seq(Segment \union {Marker})  BY <1>1
  <2> QED  BY <1>4, <2>1, <2>2, <2>3 DEF TypeOK
<1>6. WorkersJoined  BY DEF WorkersJoined
<1>7. MarkerIsLast  BY <1>1, Constants DEF MarkerIsLast
<1>8. SegmentsConserved  BY <1>1, <1>2, <1>3, Constants DEF SegmentsConserved, One
<1>9. Phases  BY <1>2, Constants DEF Phases
<1>10. Ordered  BY <1>2, Constants DEF Ordered
<1>11. SeenFirst  BY <1>2, Constants DEF SeenFirst
<1>12. PassedBy  BY DEF PassedBy
<1>13. CountsBounded  BY <1>3 DEF CountsBounded, One
<1> QED  BY <1>5, <1>6, <1>7, <1>8, <1>9, <1>10, <1>11, <1>12, <1>13 DEF StreamInv

LEMMA NextStream == StreamInv /\ [Next]_vars => StreamInv'
<1> SUFFICES ASSUME StreamInv, [Next]_vars PROVE StreamInv'
  OBVIOUS
<1>1. CASE UNCHANGED vars
  <2> USE <1>1 DEF vars, streamVars, ipcVars, playerVars, stopVars
  <2>0. TypeOK  BY DEF StreamInv
  <2>1. published <= published'  BY <2>0 DEF TypeOK
  <2>2. Quiet  BY <2>1 DEF Quiet, Stopping
  <2>3. TypeOK'  BY <2>0 DEF TypeOK
  <2>4. WorkersJoined' /\ Phases'  BY DEF StreamInv, WorkersJoined, Phases
  <2> QED  BY <2>2, <2>3, <2>4, QuietKeeps
<1>2. CASE Producer
  BY <1>2, FetchPlaylistStep, NextSegmentStep, PlaylistDoneStep, ProduceSegmentStep,
     CountProducedStep, QueueEndMarkerStep, ProducerQuietSteps
     DEF Producer, ProducerStep
<1>3. CASE Consumer
  BY <1>3, ReadSegmentStep, CountConsumedStep, WriteToPlayerStep, ConsumerQuietSteps
     DEF Consumer, ConsumerStep
<1>4. CASE Monitor  BY <1>4, MonitorSteps DEF Monitor
<1>5. CASE UI /\ UNCHANGED logging  BY <1>5, WindowSteps
<1>6. CASE (Publish \/ Player) /\ UNCHANGED logging  BY <1>6, OutsideSteps
<1>7. ASSUME NEW thread \in Worker \union {"monitor"}, AddDebugLog(thread)
      PROVE  StreamInv'
  BY <1>7, AddDebugLogStep
<1> QED  BY <1>1, <1>2, <1>3, <1>4, <1>5, <1>6, <1>7 DEF Next

\* The invariant holds in every state of the stream mode of
\* src/tx_queue_ipc.cpp and src/stream_thread.cpp.
THEOREM StreamInvariant == Spec => []StreamInv
  BY InitStream, NextStream, PTL DEF Spec

-----------------------------------------------------------------------------
(* What follows from it.                                                   *)

\* The stream's state as a whole is sound: it is well typed, no worker outlives
\* the manager it uses, the counters of the two threads add up with the queue
\* and with what did not fit, and nothing is queued behind the end marker.
THEOREM StreamSound == Spec => []Sound
<1>1. StreamInv => Sound  BY DEF StreamInv, Sound
<1> QED  BY <1>1, StreamInvariant, PTL

\* Whatever is written to the player is the next segment of the promise, and
\* is written before the stream thread returns.
LEMMA DeliveryStep ==
  StreamInv /\ StreamInv' /\ [Next]_vars
    => [Delivery!Publish \/ Delivery!Deliver \/ Delivery!Finish]_(Delivery!deliveryVars)
<1> SUFFICES ASSUME StreamInv, [Next]_vars
             PROVE  Delivery!Publish \/ Delivery!Deliver \/ Delivery!Finish
                    \/ UNCHANGED Delivery!deliveryVars
  OBVIOUS
<1>1. CASE WriteToPlayer
  <2> DEFINE s == consumer.item
  <2>1. s \in Segment /\ (\A i \in DOMAIN delivered : delivered[i] < s)
        /\ delivered' = Append(delivered, s)
    BY <1>1, WritesInOrder
  <2>2. s \in 1 .. published
    BY <1>1, <2>1 DEF StreamInv, SeenFirst
  <2>3. monitor # "done" /\ UNCHANGED <<published, monitor>>
    BY <1>1 DEF WriteToPlayer, StreamInv, WorkersJoined
  <2>4. Delivery!Deliver  BY <2>1, <2>2, <2>3 DEF Delivery!Deliver
  <2> QED  BY <2>4
<1>2. CASE Publish
  BY <1>2 DEF Publish, Delivery!Publish, playerVars
<1>3. CASE Monitor
  <2>1. UNCHANGED <<published, delivered>>
    BY <1>3 DEF Monitor, MonitorStep, StartStreaming, StartFails, MonitorLoop, ReportStats, StopStreaming,
                JoinProducer, JoinConsumer, DestroyManager, NotifyWindow,
                PostAutoStop, playerVars
  <2>2. monitor # "done"
    BY <1>3 DEF Monitor, MonitorStep, StartStreaming, StartFails, MonitorLoop, ReportStats, StopStreaming,
                JoinProducer, JoinConsumer, DestroyManager, NotifyWindow, PostAutoStop
  <2>3. Delivery!Finish \/ UNCHANGED Delivery!deliveryVars
    BY <2>1, <2>2 DEF Delivery!Finish, Delivery!deliveryVars
  <2> QED  BY <2>3
<1>4. CASE UNCHANGED <<published, delivered, monitor>>
  BY <1>4 DEF Delivery!deliveryVars
<1>5. WriteToPlayer \/ Publish \/ Monitor \/ UNCHANGED <<published, delivered, monitor>>
  <2>1. CASE Producer
    BY <2>1 DEF Producer, ProducerStep, FetchPlaylist, ParseFails, FetchFails, NextSegment, PlaylistDone,
                ProduceSegment, CountProduced, DownloadFails, RaiseEndOfStream,
                QueueEndMarker, playerVars
  <2>2. CASE Consumer
    BY <2>2 DEF Consumer, ConsumerStep, ConsumerLoop, ReadSegment, CheckEndOfStream, CountConsumed,
                WriteFails, CheckPlayer, playerVars
  <2>3. CASE UI \/ Player
    BY <2>3 DEF UI, StopStream, UserStops, FlagUserStop, AutoStopReceived, JoinStreamThread,
                Player, PlayerReads, Resume, PlayerChanges, playerVars
  <2>4. CASE UNCHANGED vars \/ \E thread \in Worker \union {"monitor"} : AddDebugLog(thread)
    BY <2>4 DEF AddDebugLog, vars, streamVars, playerVars
  <2> QED  BY <2>1, <2>2, <2>3, <2>4 DEF Next
<1> QED  BY <1>1, <1>2, <1>3, <1>4, <1>5

\* The stream mode delivers what StreamDelivery promises: segments in playlist
\* order, none twice, none after the stream thread has returned.
THEOREM StreamImplementsDelivery == Spec => ImplementsDelivery
<1>1. Init => Delivery!DeliveryInit  BY DEF Init, Delivery!DeliveryInit
<1> QED
  BY <1>1, DeliveryStep, StreamInvariant, PTL
     DEF Spec, ImplementsDelivery, Delivery!DeliverySpec

\* Every step of the stream mode is a step of the life cycle or leaves it alone.
LEMMA LifeStep ==
  StreamInv /\ StreamInv' /\ [Next]_vars => [Life!LifeNext]_(Life!lifeVars)
<1> SUFFICES ASSUME StreamInv, [Next]_vars
             PROVE  Life!LifeNext \/ UNCHANGED Life!lifeVars
  OBVIOUS
<1> USE DEF stopVars
<1>0. TypeOK  BY DEF StreamInv
<1>1. ASSUME UNCHANGED <<player, pipe, consumer>> PROVE LifePlayer' = LifePlayer
  BY <1>1 DEF LifePlayer, Stuck
<1>2. ASSUME UNCHANGED monitor PROVE LifePhase' = LifePhase
  BY <1>2 DEF LifePhase
\* The stream thread.
<1>3. CASE StartStreaming
  <2>1. LifePhase = "starting" /\ LifePhase' = "running"
    BY <1>3 DEF StartStreaming, LifePhase
  <2>2. LifePlayer' = "alive"  BY <1>0, <1>3 DEF StartStreaming, LifePlayer, Stuck, TypeOK, ConsumerState
  <2> QED  BY <1>3, <2>1, <2>2 DEF StartStreaming, Life!LifeNext, Life!Starts, Life!Go
<1>4. CASE StartFails
  <2>1. LifePhase = "starting" /\ LifePhase' = "done"  BY <1>4 DEF StartFails, LifePhase
  <2>2. LifePlayer' = LifePlayer  BY <1>1, <1>4 DEF StartFails, playerVars
  <2> QED  BY <1>4, <2>1, <2>2 DEF StartFails, Life!LifeNext, Life!FailsToStart, Life!Go
<1>5. CASE MonitorLoop \/ ReportStats
  <2>1. LifePhase = "running"  BY <1>5 DEF MonitorLoop, ReportStats, LifePhase
  <2>2. LifePlayer' = LifePlayer /\ UNCHANGED stopVars
    BY <1>1, <1>5 DEF MonitorLoop, ReportStats, playerVars
  <2>3. CASE monitor' = "stop"
    <3>1. LifePhase' = "stopping"  BY <2>3 DEF LifePhase
    <3>2. cancel \/ LifePlayer = "exited"
      BY <1>5, <2>3 DEF MonitorLoop, ReportStats, LifePlayer
    <3>3. Life!LeavesLoop  BY <2>1, <2>2, <3>1, <3>2 DEF Life!LeavesLoop, Life!Go
    <3> QED  BY <3>3 DEF Life!LifeNext
  <2>4. CASE monitor' # "stop"
    <3>1. LifePhase' = "running"  BY <1>5, <2>4 DEF MonitorLoop, ReportStats, LifePhase
    <3> QED  BY <2>1, <2>2, <3>1 DEF Life!lifeVars
  <2> QED  BY <2>3, <2>4
<1>6. CASE StopStreaming \/ JoinProducer \/ JoinConsumer
  <2>1. LifePhase' = LifePhase  BY <1>6 DEF StopStreaming, JoinProducer, JoinConsumer, LifePhase
  <2>2. LifePlayer' = LifePlayer
    BY <1>1, <1>6 DEF StopStreaming, JoinProducer, JoinConsumer, playerVars
  <2> QED
    BY <1>6, <2>1, <2>2 DEF StopStreaming, JoinProducer, JoinConsumer, Life!lifeVars
<1>7. CASE DestroyManager
  <2>1. LifePhase = "stopping" /\ LifePhase' = "notify"
    BY <1>7 DEF DestroyManager, LifePhase
  <2>2. consumer.pc # "write"  BY <1>7 DEF DestroyManager, StreamInv, WorkersJoined
  <2>3. LifePlayer # "stuck" /\ LifePlayer' = "exited"
    BY <1>7, <2>2 DEF DestroyManager, LifePlayer, Stuck
  <2> QED
    BY <1>7, <2>1, <2>3 DEF DestroyManager, Life!LifeNext, Life!CleansUp, Life!Go
<1>8. CASE NotifyWindow
  <2>1. LifePhase = "notify" /\ LifePhase' = IF userStop THEN "done" ELSE "post"
    BY <1>8 DEF NotifyWindow, LifePhase
  <2>2. LifePlayer' = LifePlayer  BY <1>1, <1>8 DEF NotifyWindow, playerVars
  <2>3. CASE userStop
    BY <1>8, <2>1, <2>2, <2>3 DEF NotifyWindow, Life!LifeNext, Life!Ends, Life!Go
  <2>4. CASE ~userStop
    BY <1>8, <2>1, <2>2, <2>4 DEF NotifyWindow, Life!LifeNext, Life!WillPost, Life!Go
  <2> QED  BY <2>3, <2>4
<1>15. CASE PostAutoStop
  <2>1. LifePhase = "post" /\ LifePhase' = "done"  BY <1>15 DEF PostAutoStop, LifePhase
  <2>2. LifePlayer' = LifePlayer  BY <1>1, <1>15 DEF PostAutoStop, playerVars
  <2> QED  BY <1>15, <2>1, <2>2 DEF PostAutoStop, Life!LifeNext, Life!Posts, Life!Go
\* The user interface.
<1>9. CASE UI
  <2>1. UNCHANGED <<player, pipe, consumer, monitor>>
    BY <1>9 DEF UI, StopStream, UserStops, FlagUserStop, AutoStopReceived, JoinStreamThread, playerVars
  <2>2. LifePhase' = LifePhase /\ LifePlayer' = LifePlayer  BY <1>1, <1>2, <2>1
  <2>3. CASE UserStops \/ AutoStopReceived
    BY <2>2, <2>3 DEF UserStops, AutoStopReceived, Life!LifeNext, Life!Cancel
  <2>4. CASE FlagUserStop
    <3>1. cancel  BY <2>4 DEF FlagUserStop, StreamInv, Phases
    <3> QED  BY <2>2, <2>4, <3>1 DEF FlagUserStop, Life!LifeNext, Life!FlagUser
  <2>5. CASE JoinStreamThread  BY <2>2, <2>5 DEF JoinStreamThread, Life!lifeVars
  <2> QED  BY <1>9, <2>3, <2>4, <2>5 DEF UI, StopStream
\* The player and the worker threads, which can make its pipe run full.
<1>10. ASSUME UNCHANGED <<monitor, cancel, userStop, autoStop>>,
              player = "none" => player' = "none", player = "dead" => player' = "dead",
              player \notin {"none"} => player' # "none"
       PROVE  Life!LifeNext \/ UNCHANGED Life!lifeVars
  <2>1. LifePhase' = LifePhase  BY <1>2, <1>10
  <2>2. CASE player \in {"none", "dead"}
    <3>1. LifePlayer' = LifePlayer  BY <1>10, <2>2 DEF LifePlayer
    <3> QED  BY <1>10, <2>1, <3>1 DEF Life!lifeVars
  <2>3. CASE player \notin {"none", "dead"}
    <3>1. LifePlayer \in {"alive", "stuck"} /\ LifePlayer' \in {"alive", "stuck", "exited"}
      BY <1>10, <2>3 DEF LifePlayer
    <3> QED  BY <1>10, <2>1, <3>1 DEF Life!LifeNext, Life!PlayerMoves
  <2> QED  BY <2>2, <2>3
<1>11. CASE Producer
  <2>1. UNCHANGED <<monitor, cancel, userStop, autoStop, player>>
    BY <1>11 DEF Producer, ProducerStep, FetchPlaylist, ParseFails, FetchFails, NextSegment, PlaylistDone,
                 ProduceSegment, CountProduced, DownloadFails, RaiseEndOfStream,
                 QueueEndMarker, playerVars
  <2> QED  BY <1>10, <2>1
<1>12. CASE Consumer
  <2>1. UNCHANGED <<monitor, cancel, userStop, autoStop, player>>
    BY <1>12 DEF Consumer, ConsumerStep, ConsumerLoop, ReadSegment, CheckEndOfStream, CountConsumed,
                 WriteToPlayer, WriteFails, CheckPlayer, playerVars
  <2> QED  BY <1>10, <2>1
<1>13. CASE Player
  <2>1. /\ UNCHANGED <<monitor, cancel, userStop, autoStop>>
        /\ player \in {"playing", "paused", "closed"} /\ player' # "none"
    BY <1>13 DEF Player, PlayerReads, Resume, PlayerChanges
  <2> QED  BY <1>10, <2>1
<1>14. CASE \/ Publish \/ UNCHANGED vars
            \/ \E thread \in Worker \union {"monitor"} : AddDebugLog(thread)
  <2>1. UNCHANGED <<player, pipe, consumer, monitor, cancel, userStop, autoStop>>
    BY <1>14 DEF Publish, AddDebugLog, vars, streamVars, playerVars, stopVars
  <2> QED  BY <1>1, <1>2, <2>1 DEF Life!lifeVars
<1> QED
  BY <1>3, <1>4, <1>5, <1>6, <1>7, <1>8, <1>9, <1>11, <1>12, <1>13, <1>14, <1>15
     DEF Next, Monitor, MonitorStep

\* The stream mode lives the life that TabManager assumes of a stream thread: it
\* leaves its loop only for a cancel or an exited player, cleans up only when
\* nothing is stuck in a write, and posts auto-stop only at its end.
THEOREM StreamImplementsLife == Spec => ImplementsLife
<1>1. Init => Life!LifeInit
  BY DEF Init, Life!LifeInit, LifePhase, LifePlayer
<1> QED
  BY <1>1, LifeStep, StreamInvariant, PTL DEF Spec, ImplementsLife, Life!LifeSpec
=============================================================================
