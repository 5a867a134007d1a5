---------------------------- MODULE AppPartsProofs ----------------------------
(* The parts that share no state with the streams. The shared memory ring      *)
(* delivers what it publishes, for every size and any number of crashes; the   *)
(* resources of the streams stay sound whatever guards are made and destroyed  *)
(* and whichever processes die; favourites come back and a hidden window can   *)
(* be got back; requests close what they opened; a list of qualities leads to  *)
(* the URLs it shows; the segments of a parsed playlist add up.                *)
EXTENDS MCAppParts, DataLemmas, FiniteSetTheorems, SequenceTheorems, TLAPS

(* ------------------------ the shared memory ring ------------------------- *)

\* The size is one that the lemmas of DataLemmas speak of.
LEMMA SizeType == Size \in Nat \ {0} /\ Size > 1
  BY RingAssumption

\* What DataLemmas says of a ring of this size.
LEMMA StepOn ==
  ASSUME NEW p \in Int, NEW n \in 0 .. Size
  PROVE  /\ p % Size \in 0 .. Size - 1
         /\ (p + n) % Size = IF (p % Size) + n >= Size THEN (p % Size) + n - Size ELSE (p % Size) + n
         /\ ((p % Size) + n) % Size = (p + n) % Size
<1>1. Size \in Nat \ {0}  BY SizeType
<1>2. p % Size \in 0 .. Size - 1  BY <1>1, Division, Zenon
<1>3. (p + n) % Size = IF (p % Size) + n >= Size THEN (p % Size) + n - Size ELSE (p % Size) + n
  BY <1>1, Advance, Zenon
<1>4. ((p % Size) + n) % Size = (p + n) % Size  BY <1>1, MaskedAdvance, Zenon
<1> QED  BY <1>2, <1>3, <1>4

(* ------------------------------ the header ------------------------------- *)

\* The two positions of the header tell how much there is to read and to write,
\* although they are masked: one cell is always free.
LEMMA HeaderCounts ==
  ASSUME MapTypes, Positions, UnreadIntact
  PROVE  /\ GetAvailableReadData = written - Count
         /\ GetAvailableWriteSpace = Size - 1 - (written - Count)
<1> DEFINE n == written - Count
           m == Count % Size
<1>1. Count \in Nat /\ written \in Nat  BY LenProperties DEF MapTypes, Count
<1>2. n \in 0 .. Size - 1 /\ written = Count + n  BY <1>1, SizeType DEF UnreadIntact
<1>3. m \in 0 .. Size - 1  BY <1>1, SizeType, StepOn
<1>4. writerPos = IF m + n >= Size THEN m + n - Size ELSE m + n
  <2> HIDE DEF n
  <2>1. (Count + n) % Size = IF m + n >= Size THEN m + n - Size ELSE m + n
    <3>1. Count \in Int /\ n \in 0 .. Size  BY <1>1, <1>2, SizeType
    <3> QED  BY <3>1, StepOn, Zenon
  <2> QED  BY <1>2, <2>1 DEF Positions
<1>5. readerPos = m  BY DEF Positions
<1>6. n = written - Count  OBVIOUS
<1> HIDE DEF n, m
<1> QED
  BY <1>2, <1>3, <1>4, <1>5, <1>6, SizeType DEF GetAvailableReadData, GetAvailableWriteSpace

\* The cell j places behind a position: WriteData's two copies reach it if j is
\* less than what they copy, and put the j-th byte there.
LEMMA CellBehind ==
  ASSUME NEW p \in Nat, NEW n \in 0 .. Size - 1, NEW j \in 0 .. Size - 1
  PROVE  /\ (p + j) % Size \in Cells
         /\ Covers(p % Size, n, (p + j) % Size) <=> j < n
         /\ Offset(p % Size, (p + j) % Size) = j
<1> DEFINE m == p % Size
           c == (p + j) % Size
<1>1. m \in 0 .. Size - 1  BY SizeType, StepOn
<1>2. c = IF m + j >= Size THEN m + j - Size ELSE m + j
  <2>1. p \in Int /\ j \in 0 .. Size  BY SizeType
  <2> QED  BY <2>1, StepOn, Zenon
<1> HIDE DEF m, c
<1>3. c \in Cells  BY <1>1, <1>2, SizeType DEF Cells
<1>4. Covers(m, n, c) <=> j < n  BY <1>1, <1>2, SizeType DEF Covers
<1>5. Offset(m, c) = j  BY <1>1, <1>2, SizeType DEF Offset
<1> QED  BY <1>3, <1>4, <1>5 DEF m, c

\* A turn ahead is the same cell.
LEMMA FullTurn ==
  ASSUME NEW p \in Nat
  PROVE  (p + Size) % Size = p % Size
<1>1. p \in Int /\ Size \in 0 .. Size  BY SizeType
<1>2. p % Size \in 0 .. Size - 1  BY <1>1, StepOn
<1>3. (p + Size) % Size = IF (p % Size) + Size >= Size THEN (p % Size) + Size - Size
                                                      ELSE (p % Size) + Size
  BY <1>1, StepOn, Zenon
<1> QED  BY <1>2, <1>3, SizeType

(* ------------------------------- the steps ------------------------------- *)

\* The ring starts empty.
LEMMA InitMap == Init => MapInv
<1> SUFFICES ASSUME Init PROVE MapInv
  OBVIOUS
<1>1. << >> \in Seq(Nat) /\ Len(<< >>) = 0  BY EmptySeq
<1>2. MapTypes  BY <1>1, SizeType DEF Init, MapTypes, Cells
<1>3. MutexHeld /\ Copying /\ Ending /\ EndMeansAllRead
  BY DEF Init, MutexHeld, Copying, Ending, EndMeansAllRead
<1>4. Positions
  <2>1. 0 % Size = 0  BY SizeType, OneRemainder, 0 = (Size * 0) + 0
  <2> QED  BY <1>1, <2>1 DEF Init, Positions, Count
<1>5. UnreadIntact /\ Received
  BY <1>1, SizeType DEF Init, UnreadIntact, Received, Count
<1> QED  BY <1>2, <1>3, <1>4, <1>5 DEF MapInv

\* What a process does that moves no byte and no position: at most it forgets
\* what it was copying.
Still ==
  /\ UNCHANGED << writerPos, readerPos, data, written, rcvd >>
  /\ writer' = "copied" => writer = "copied" /\ chunk' = chunk /\ left' = left
  /\ reader' = "copied" => reader = "copied" /\ buf' = buf

\* Such a step leaves the contents of the ring as the invariant describes them.
LEMMA StillKeeps ==
  ASSUME MapInv, Still, MapTypes', MutexHeld', Ending', EndMeansAllRead'
  PROVE  MapInv'
<1>1. Count' = Count /\ written' = written /\ data' = data  BY DEF Still, Count
<1>2. Positions' /\ UnreadIntact' /\ Received'
  BY <1>1 DEF MapInv, Still, Positions, UnreadIntact, Received
<1>3. Copying'  BY <1>1 DEF MapInv, Still, Copying
<1> QED  BY <1>2, <1>3 DEF MapInv

\* The writer's calls and the turns in which it copies nothing.
LEMMA WriterWaits ==
  ASSUME MapInv,
         \/ \E n \in Chunks : WriteCall(n)
         \/ WriteReturn \/ WriteNoLock \/ WriteNoSpace
         \/ WaitReturn \/ WaitSpace \/ WaitSleep \/ Cancel \/ SignalStreamEnd
  PROVE  MapInv'
<1> USE DEF MapInv, header, mutex, writing, reading
<1>1. Still
  BY DEF Still, WriteCall, WriteReturn, WriteNoLock, WriteNoSpace, WaitReturn, WaitSpace,
         WaitSleep, Cancel, SignalStreamEnd
<1>2. MapTypes'
  BY RingAssumption DEF MapTypes, WriteCall, WriteReturn, WriteNoLock, WriteNoSpace,
     WaitReturn, WaitSpace, WaitSleep, Cancel, SignalStreamEnd, LockOnce, LockFails
<1>3. MutexHeld'
  BY DEF MapTypes, MutexHeld, WriteCall, WriteReturn, WriteNoLock, WriteNoSpace,
     WaitReturn, WaitSpace, WaitSleep, Cancel, SignalStreamEnd, LockOnce, LockFails
<1>4. Ending'
  BY DEF MapTypes, Ending, WriteCall, WriteReturn, WriteNoLock, WriteNoSpace,
     WaitReturn, WaitSpace, WaitSleep, Cancel, SignalStreamEnd
<1>5. EndMeansAllRead'
  BY DEF EndMeansAllRead, Count, WriteCall, WriteReturn, WriteNoLock, WriteNoSpace,
     WaitReturn, WaitSpace, WaitSleep, Cancel, SignalStreamEnd
<1> QED  BY <1>1, <1>2, <1>3, <1>4, <1>5, StillKeeps

\* Processes that come and go, or look in vain.
LEMMA ProcessesChange ==
  ASSUME MapInv,
         \/ WriterClose \/ WriterCrash \/ OpenAsReader \/ ReadNoLock
         \/ ReaderClose \/ ReaderCrash
  PROVE  MapInv'
<1> USE DEF MapInv, header, mutex, writing, reading
<1>0. << >> \in Seq(Nat)  BY EmptySeq
<1>1. Still
  BY DEF Still, WriterClose, WriterCrash, OpenAsReader, ReadNoLock, ReaderClose, ReaderCrash
<1>2. MapTypes'
  <2>1. CASE WriterClose \/ WriterCrash
    BY <2>1 DEF MapTypes, WriterClose, WriterCrash, Die
  <2>2. CASE OpenAsReader \/ ReadNoLock
    BY <2>2 DEF MapTypes, OpenAsReader, ReadNoLock, LockOnce, LockFails
  <2>3. CASE ReaderClose \/ ReaderCrash
    BY <1>0, <2>3 DEF MapTypes, ReaderClose, ReaderCrash, Die
  <2> QED  BY <2>1, <2>2, <2>3
<1>3. MutexHeld'
  BY DEF MapTypes, MutexHeld, WriterClose, WriterCrash, OpenAsReader, ReadNoLock,
     ReaderClose, ReaderCrash, Die, LockOnce, LockFails
<1>4. Ending'
  BY DEF MapTypes, Ending, WriterClose, WriterCrash, OpenAsReader, ReadNoLock, ReaderClose,
     ReaderCrash
<1>5. EndMeansAllRead'
  BY DEF EndMeansAllRead, Count, WriterClose, WriterCrash, OpenAsReader, ReadNoLock,
     ReaderClose, ReaderCrash
<1> QED  BY <1>1, <1>2, <1>3, <1>4, <1>5, StillKeeps

\* The reader finds the stream ended: by then nothing is left in the ring.
LEMMA EndStep ==
  ASSUME MapInv, ReaderSeesEnd
  PROVE  MapInv'
<1> USE DEF MapInv, header, mutex, writing, ReaderSeesEnd
<1>1. Still  BY DEF Still
<1>2. MapTypes' /\ MutexHeld' /\ Ending'
  BY DEF MapTypes, MutexHeld, Ending, IsStreamEnded
<1>3. Count = written
  <2>1. Count \in Nat /\ written \in Nat  BY LenProperties DEF MapTypes, Count
  <2> QED  BY <2>1, HeaderCounts DEF IsStreamEnded
<1>4. EndMeansAllRead'  BY <1>3 DEF EndMeansAllRead, Count
<1> QED  BY <1>1, <1>2, <1>4, StillKeeps

\* The copy into the ring: only free cells are written, with the mutex held.
LEMMA CopyStep ==
  ASSUME MapInv, WriteCopy
  PROVE  MapInv'
<1> USE DEF MapInv, header, reading
<1>0. /\ writer = "writing" /\ writer' = "copied" /\ owner \in {"free", "writer"}
      /\ owner' = "writer" /\ kept' = kept /\ left' = left
      /\ chunk' = Least(left, GetAvailableWriteSpace)
      /\ UNCHANGED << writerPos, readerPos, ended, reader, buf, rcvd, written >>
  BY DEF WriteCopy, Lock, MayLock
<1>1. Count \in Nat /\ written \in Nat /\ left \in Nat /\ Count' = Count
  BY <1>0, LenProperties DEF MapTypes, Count
<1>2. written - Count \in 0 .. Size - 1  BY DEF UnreadIntact
<1>3. /\ chunk' \in 0 .. Size - 1 /\ chunk' <= left
      /\ chunk' <= Size - 1 - (written - Count)
  BY <1>0, <1>1, <1>2, SizeType, HeaderCounts DEF Least
<1>4. data' = [c \in Cells |-> IF Covers(writerPos, chunk', c)
                               THEN written + 1 + Offset(writerPos, c) ELSE data[c]]
  BY DEF WriteCopy
<1>5. writerPos = written % Size  BY DEF Positions
<1>6. ASSUME NEW i \in written + 1 .. written + chunk'
      PROVE  data'[(i - 1) % Size] = i
  <2> DEFINE j == i - 1 - written
  <2> DEFINE n == chunk'
  <2>0. n \in Int /\ n <= Size - 1  BY <1>3, SizeType
  <2>n. i \in written + 1 .. written + n  OBVIOUS
  <2> HIDE DEF n
  <2>1. j \in 0 .. Size - 1 /\ j < n /\ written + j = i - 1
    BY <1>1, <2>0, <2>n, SizeType
  <2> USE DEF n
  <2> HIDE DEF j
  <2>2. /\ (written + j) % Size \in Cells
        /\ Covers(writerPos, chunk', (written + j) % Size)
        /\ Offset(writerPos, (written + j) % Size) = j
    BY <1>1, <1>3, <1>5, <2>1, CellBehind
  <2>3. data'[(written + j) % Size] = written + 1 + j  BY <1>4, <2>2
  <2> QED  BY <1>1, <2>1, <2>3, SizeType
<1>7. ASSUME NEW i \in Count + 1 .. written
      PROVE  data'[(i - 1) % Size] = data[(i - 1) % Size]
  <2> DEFINE j == i - 1 + Size - written
  <2>1. /\ j \in 0 .. Size - 1 /\ ~(j < chunk') /\ i - 1 \in Nat
        /\ written + j = (i - 1) + Size
    BY <1>1, <1>2, <1>3, SizeType
  <2> HIDE DEF j
  <2>2. (written + j) % Size \in Cells /\ ~Covers(writerPos, chunk', (written + j) % Size)
    BY <1>1, <1>3, <1>5, <2>1, CellBehind
  <2>3. (written + j) % Size = (i - 1) % Size  BY <2>1, FullTurn
  <2> QED  BY <1>4, <2>2, <2>3
<1>8. MapTypes'
  <2>1. ASSUME NEW c \in Cells PROVE Offset(writerPos, c) \in Nat
    <3>1. writerPos \in 0 .. Size - 1  BY <1>1, <1>5, SizeType, StepOn
    <3> QED  BY <3>1, SizeType DEF Offset, Cells
  <2>2. data' \in [Cells -> Nat]  BY <1>1, <1>4, <2>1 DEF MapTypes
  <2> QED  BY <1>0, <1>1, <1>3, <2>2 DEF MapTypes
<1>9. MutexHeld'  BY <1>0 DEF MapTypes, MutexHeld
<1>10. UnreadIntact'  BY <1>0, <1>1, <1>7 DEF UnreadIntact
<1>11. Copying'
  <2>1. reader' # "copied"  BY <1>0 DEF MutexHeld
  <2> QED  BY <1>0, <1>1, <1>3, <1>6, <2>1 DEF Copying
<1>12. Positions' /\ Received' /\ Ending' /\ EndMeansAllRead'
  BY <1>0, <1>1 DEF Positions, Received, Ending, EndMeansAllRead, MapTypes
<1> QED  BY <1>8, <1>9, <1>10, <1>11, <1>12

\* The copied bytes become part of the stream.
LEMMA PublishStep ==
  ASSUME MapInv, WritePublish
  PROVE  MapInv'
<1> USE DEF MapInv, reading
<1>0. /\ writer = "copied" /\ writer' = "writing" /\ owner = "writer"
      /\ owner' = (IF kept = "writer" THEN "writer" ELSE "free") /\ kept' = kept
      /\ writerPos' = (writerPos + chunk) % Size /\ written' = written + chunk
      /\ left' = left - chunk /\ chunk' = 0
      /\ UNCHANGED << readerPos, ended, data, reader, buf, rcvd >>
  BY DEF WritePublish, Release, MutexHeld
<1>1. /\ Count \in Nat /\ written \in Nat /\ left \in Nat /\ chunk \in Nat
      /\ Count' = Count
  BY <1>0, LenProperties DEF MapTypes, Count
<1>2. /\ chunk <= left /\ chunk <= Size - 1 - (written - Count)
      /\ \A i \in written + 1 .. written + chunk : data[(i - 1) % Size] = i
  BY <1>0 DEF Copying
<1>3. written - Count \in 0 .. Size - 1  BY DEF UnreadIntact
<1>4. chunk \in 0 .. Size  BY <1>1, <1>2, <1>3, SizeType
<1>5. MapTypes'  BY <1>0, <1>1, <1>2 DEF MapTypes
<1>6. MutexHeld'  BY <1>0 DEF MapTypes, MutexHeld
<1>7. Positions'
  <2>1. writerPos' = (written + chunk) % Size
    <3>1. written \in Int  BY <1>1
    <3>2. ((written % Size) + chunk) % Size = (written + chunk) % Size
      BY <1>4, <3>1, StepOn, Zenon
    <3> QED  BY <1>0, <3>2 DEF Positions
  <2> QED  BY <1>0, <1>1, <2>1 DEF Positions
<1>8. UnreadIntact'
  <2>1. written' - Count' \in 0 .. Size - 1  BY <1>0, <1>1, <1>2, <1>3, SizeType
  <2>2. ASSUME NEW i \in Count' + 1 .. written' PROVE data'[(i - 1) % Size] = i
    <3>1. i \in Count + 1 .. written \/ i \in written + 1 .. written + chunk
      BY <1>0, <1>1, <1>3
    <3> QED  BY <1>0, <1>2, <3>1 DEF UnreadIntact
  <2> QED  BY <2>1, <2>2 DEF UnreadIntact
<1>9. Copying'
  <2>1. reader' # "copied"  BY <1>0 DEF MutexHeld
  <2> QED  BY <1>0, <2>1 DEF Copying
<1>10. Received' /\ Ending' /\ EndMeansAllRead'
  BY <1>0, <1>1 DEF Received, Ending, EndMeansAllRead, MapTypes
<1> QED  BY <1>5, <1>6, <1>7, <1>8, <1>9, <1>10

\* The copy out of the ring takes the next bytes of the stream.
LEMMA ReadStep ==
  ASSUME MapInv, NEW n \in Chunks, ReadCopy(n)
  PROVE  MapInv'
<1> USE DEF MapInv, header, writing
<1> DEFINE k == Least(n, GetAvailableReadData)
<1>0. /\ reader = "idle" /\ reader' = "copied" /\ owner \in {"free", "reader"}
      /\ owner' = "reader" /\ kept' = kept
      /\ buf' = [i \in 1 .. k |-> data[IF readerPos + (i - 1) < Size
                                       THEN readerPos + (i - 1)
                                       ELSE (i - 1) - (Size - readerPos)]]
      /\ UNCHANGED << writerPos, readerPos, ended, data, writer, left, chunk, rcvd, written >>
  BY DEF ReadCopy, Lock, MayLock
<1>1. Count \in Nat /\ written \in Nat /\ Count' = Count
  BY <1>0, LenProperties DEF MapTypes, Count
<1>2. written - Count \in 0 .. Size - 1  BY DEF UnreadIntact
<1>3. k \in Nat /\ k <= written - Count /\ k <= Size - 1
  BY <1>1, <1>2, SizeType, RingAssumption, HeaderCounts DEF Least
<1> HIDE DEF k
<1>4. ASSUME NEW i \in 1 .. k PROVE buf'[i] = Count + i
  <2> DEFINE m == Count % Size
             j == i - 1
             c == (Count + j) % Size
  <2>1. j \in 0 .. Size /\ j < Size  BY <1>3, SizeType
  <2>2. m \in 0 .. Size - 1 /\ readerPos = m  BY <1>1, SizeType, StepOn DEF Positions
  <2>3. c = IF m + j >= Size THEN m + j - Size ELSE m + j
    <3> HIDE DEF j
    <3>1. Count \in Int  BY <1>1
    <3> QED  BY <2>1, <3>1, StepOn, Zenon
  <2>4. data[c] = Count + i
    <3>1. Count + i \in Count + 1 .. written /\ (Count + i) - 1 = Count + j
      BY <1>1, <1>3
    <3> HIDE DEF j
    <3> QED  BY <3>1 DEF UnreadIntact
  <2>5. buf'[i] = data[IF m + j < Size THEN m + j ELSE j - (Size - m)]  BY <1>0, <2>2
  <2> HIDE DEF m, j, c
  <2>6. (IF m + j < Size THEN m + j ELSE j - (Size - m)) = c
    BY <2>1, <2>2, <2>3, SizeType
  <2> QED  BY <2>4, <2>5, <2>6
<1>5. buf' \in Seq(Nat) /\ Len(buf') = k
  <2>1. buf' = [i \in 1 .. k |-> Count + i]  BY <1>0, <1>4
  <2>2. \A i \in 1 .. k : Count + i \in Nat  BY <1>1, <1>3
  <2> HIDE DEF k
  <2> QED  BY <1>3, <2>1, <2>2, IsASeq, LenProperties
<1>6. MapTypes'  BY <1>0, <1>5 DEF MapTypes
<1>7. MutexHeld'  BY <1>0 DEF MapTypes, MutexHeld
<1>8. Positions' /\ UnreadIntact' /\ Received' /\ Ending' /\ EndMeansAllRead'
  BY <1>0, <1>1 DEF Positions, UnreadIntact, Received, Ending, EndMeansAllRead, MapTypes
<1>9. Copying'
  <2>1. writer' # "copied"  BY <1>0 DEF MutexHeld
  <2> QED  BY <1>0, <1>1, <1>3, <1>4, <1>5, <2>1 DEF Copying
<1> QED  BY <1>6, <1>7, <1>8, <1>9

\* The bytes are handed to the caller of ReadData.
LEMMA TakeStep ==
  ASSUME MapInv, ReadTake
  PROVE  MapInv'
<1> USE DEF MapInv, writing
<1>0. /\ reader = "copied" /\ reader' = "idle" /\ owner = "reader"
      /\ owner' = (IF kept = "reader" THEN "reader" ELSE "free") /\ kept' = kept
      /\ readerPos' = (readerPos + Len(buf)) % Size
      /\ rcvd' = rcvd \o buf /\ buf' = << >>
      /\ UNCHANGED << writerPos, ended, data, writer, left, chunk, written >>
  BY DEF ReadTake, Release, MutexHeld
<1> DEFINE k == Len(buf)
<1>1. rcvd \in Seq(Nat) /\ buf \in Seq(Nat)  BY DEF MapTypes
<1>2. Count \in Nat /\ written \in Nat /\ k \in Nat
  BY <1>1, LenProperties DEF MapTypes, Count
<1>3. /\ rcvd' \in Seq(Nat) /\ Count' = Count + k
      /\ \A i \in 1 .. Count + k :
           rcvd'[i] = IF i <= Count THEN rcvd[i] ELSE buf[i - Count]
  BY <1>0, <1>1, ConcatProperties DEF Count
<1>4. k <= written - Count /\ \A i \in 1 .. k : buf[i] = Count + i  BY <1>0 DEF Copying
<1> HIDE DEF k
<1>5. written - Count \in 0 .. Size - 1  BY DEF UnreadIntact
<1>6. k \in 0 .. Size  BY <1>2, <1>4, <1>5, SizeType
<1>7. MapTypes'  BY <1>0, <1>3, EmptySeq DEF MapTypes
<1>8. MutexHeld'  BY <1>0 DEF MapTypes, MutexHeld
<1>9. Positions'
  <2>1. readerPos' = (Count + k) % Size
    <3>1. Count \in Int  BY <1>2
    <3>2. ((Count % Size) + k) % Size = (Count + k) % Size  BY <1>6, <3>1, StepOn, Zenon
    <3> QED  BY <1>0, <3>2 DEF Positions, k
  <2> QED  BY <1>0, <1>3, <2>1 DEF Positions
<1>10. UnreadIntact'
  <2>1. written' - Count' \in 0 .. Size - 1  BY <1>0, <1>2, <1>3, <1>4, <1>5, SizeType
  <2>2. ASSUME NEW i \in Count' + 1 .. written' PROVE data'[(i - 1) % Size] = i
    <3>1. i \in Count + 1 .. written  BY <1>0, <1>2, <1>3
    <3> QED  BY <1>0, <3>1 DEF UnreadIntact
  <2> QED  BY <2>1, <2>2 DEF UnreadIntact
<1>11. Copying'
  <2>1. writer' # "copied"  BY <1>0 DEF MutexHeld
  <2> QED  BY <1>0, <2>1 DEF Copying
<1>12. Received'
  <2>1. ASSUME NEW i \in 1 .. Count + k PROVE rcvd'[i] = i
    <3>1. CASE i <= Count
      <4>1. i \in 1 .. Count  BY <1>2, <3>1
      <4> QED  BY <1>3, <3>1, <4>1 DEF Received
    <3>2. CASE ~(i <= Count)
      <4>1. i - Count \in 1 .. k  BY <1>2, <3>2
      <4>2. buf[i - Count] = Count + (i - Count)  BY <1>4, <4>1
      <4> QED  BY <1>2, <1>3, <3>2, <4>2
    <3> QED  BY <3>1, <3>2
  <2> QED  BY <1>3, <2>1 DEF Received
<1>13. Ending' /\ EndMeansAllRead'  BY <1>0 DEF Ending, EndMeansAllRead
<1> QED  BY <1>7, <1>8, <1>9, <1>10, <1>11, <1>12, <1>13

\* Every step keeps the invariant.
LEMMA NextMap == MapInv /\ [Next]_vars => MapInv'
<1> SUFFICES ASSUME MapInv, [Next]_vars PROVE MapInv'
  OBVIOUS
<1>1. CASE \E n \in Chunks : ReadCopy(n)  BY <1>1, ReadStep
<1>2. CASE WriteCopy  BY <1>2, CopyStep
<1>3. CASE WritePublish  BY <1>3, PublishStep
<1>4. CASE ReadTake  BY <1>4, TakeStep
<1>5. CASE ReaderSeesEnd  BY <1>5, EndStep
<1>6. CASE \/ \E n \in Chunks : WriteCall(n)
           \/ WriteReturn \/ WriteNoLock \/ WriteNoSpace
           \/ WaitReturn \/ WaitSpace \/ WaitSleep \/ Cancel \/ SignalStreamEnd
  BY <1>6, WriterWaits
<1>7. CASE \/ WriterClose \/ WriterCrash \/ OpenAsReader \/ ReadNoLock
           \/ ReaderClose \/ ReaderCrash
  BY <1>7, ProcessesChange
<1>8. CASE UNCHANGED vars
  <2>1. Still  BY <1>8 DEF Still, vars, header, writing, reading
  <2>2. MapTypes' /\ MutexHeld' /\ Ending' /\ EndMeansAllRead'
    BY <1>8 DEF MapInv, MapTypes, MutexHeld, Ending, EndMeansAllRead, Count, vars, header,
       mutex, writing, reading
  <2> QED  BY <2>1, <2>2, StillKeeps
<1> QED  BY <1>1, <1>2, <1>3, <1>4, <1>5, <1>6, <1>7, <1>8 DEF Next

(* ------------------------------- theorems -------------------------------- *)

\* The header, the bytes and both processes agree in every reachable state.
THEOREM MapInvariant == Spec => []MapInv
  BY InitMap, NextMap, PTL DEF Spec

\* No byte that WriteData has published is lost before ReadData has returned it,
\* whichever process dies, with the mutex or without.
THEOREM PublishedStayIntact == Spec => []UnreadIntact
<1>1. MapInv => UnreadIntact  BY DEF MapInv
<1> QED  BY <1>1, MapInvariant, PTL

\* At most one process is between its copy and its release, although a mutex
\* that was abandoned is taken for one that could not be had.
THEOREM OneCopyAtATime == Spec => []MutexHeld
<1>1. MapInv => MutexHeld  BY DEF MapInv
<1> QED  BY <1>1, MapInvariant, PTL

\* A reader that finds the stream ended has read all of it.
THEOREM EndIsReadUp == Spec => []EndMeansAllRead
<1>1. MapInv => EndMeansAllRead  BY DEF MapInv
<1> QED  BY <1>1, MapInvariant, PTL

(* ------------------------ the ring is a channel -------------------------- *)

\* The bytes 1 .. n, the stream up to byte n.
LEMMA StreamUpTo ==
  ASSUME NEW n \in Nat
  PROVE  /\ [i \in 1 .. n |-> i] \in Seq(Nat)
         /\ Len([i \in 1 .. n |-> i]) = n
<1> DEFINE s == [i \in 1 .. n |-> i]
<1>1. \A i \in 1 .. n : i \in Nat  OBVIOUS
<1>2. s \in [1 .. n -> Nat]  BY <1>1
<1>3. s \in Seq(Nat)  BY <1>2
<1>4. Len(s) = n
  <2>1. DOMAIN s = 1 .. n  OBVIOUS
  <2>2. DOMAIN s = 1 .. Len(s) /\ Len(s) \in Nat  BY <1>3, LenProperties
  <2> HIDE DEF s
  <2> QED  BY <2>1, <2>2
<1> QED  BY <1>3, <1>4

\* Only publishing and taking change what has been sent and received.
LEMMA OthersAreSilent ==
  ASSUME [Next]_vars, ~WritePublish, ~ReadTake
  PROVE  UNCHANGED << written, rcvd >>
<1> USE DEF header, mutex, writing, reading
<1>1. CASE \E n \in Chunks : WriteCall(n) \/ ReadCopy(n)
  BY <1>1 DEF WriteCall, ReadCopy
<1>2. CASE \/ WriteReturn \/ WriteNoLock \/ WriteNoSpace \/ WriteCopy
           \/ WaitReturn \/ WaitSpace \/ WaitSleep \/ Cancel \/ SignalStreamEnd
  BY <1>2 DEF WriteReturn, WriteNoLock, WriteNoSpace, WriteCopy, WaitReturn, WaitSpace,
     WaitSleep, Cancel, SignalStreamEnd
<1>3. CASE \/ WriterClose \/ WriterCrash \/ OpenAsReader \/ ReadNoLock
           \/ ReaderSeesEnd \/ ReaderClose \/ ReaderCrash
  BY <1>3 DEF WriterClose, WriterCrash, OpenAsReader, ReadNoLock, ReaderSeesEnd,
     ReaderClose, ReaderCrash
<1>4. CASE UNCHANGED vars  BY <1>4 DEF vars
<1> QED  BY <1>1, <1>2, <1>3, <1>4 DEF Next

\* A step of the ring is a step of the channel or none.
LEMMA ChannelStep ==
  ASSUME MapInv, MapInv', [Next]_vars
  PROVE  [Channel!ChanNext]_(Channel!chanVars)
<1> DEFINE sent == [i \in 1 .. written |-> i]
<1>1. /\ written \in Nat /\ written' \in Nat /\ Len(rcvd) \in Nat /\ Len(rcvd') \in Nat
      /\ rcvd \in Seq(Nat) /\ rcvd' \in Seq(Nat)
  BY LenProperties DEF MapInv, MapTypes
<1>2. /\ written - Len(rcvd) \in 0 .. Size - 1 /\ written' - Len(rcvd') \in 0 .. Size - 1
      /\ \A i \in 1 .. Len(rcvd') : rcvd'[i] = i
  BY DEF MapInv, UnreadIntact, Received, Count
<1>3. /\ sent \in Seq(Nat) /\ Len(sent) = written
      /\ \A i \in 1 .. written : sent[i] = i
  BY <1>1, StreamUpTo
<1>4. /\ sent' \in Seq(Nat) /\ Len(sent') = written'
      /\ \A i \in 1 .. written' : sent'[i] = i
  BY <1>1, StreamUpTo
<1>5. CASE UNCHANGED << written, rcvd >>
  BY <1>5 DEF Channel!chanVars
<1>6. CASE WritePublish
  <2>1. rcvd' = rcvd /\ written' = written + chunk /\ chunk \in Nat
    BY <1>6 DEF WritePublish, reading, MapInv, MapTypes
  <2> HIDE DEF sent
  <2>2. Len(sent) <= Len(sent')  BY <1>1, <1>3, <1>4, <2>1
  <2>3. \A i \in 1 .. Len(sent) : sent[i] = sent'[i]
    BY <1>1, <1>3, <1>4, <2>1
  <2>4. SubSeq(sent', 1, Len(sent)) = sent  BY <1>3, <1>4, <2>2, <2>3, PrefixIsSubSeq
  <2>5. Len(sent') - Len(rcvd) <= Size - 1  BY <1>1, <1>2, <1>4, <2>1, SizeType
  <2> USE DEF sent
  <2>6. Channel!Send  BY <2>1, <2>2, <2>4, <2>5 DEF Channel!Send
  <2> QED  BY <2>6 DEF Channel!ChanNext
<1>7. CASE ReadTake
  <2>1. /\ rcvd' = rcvd \o buf /\ written' = written /\ buf \in Seq(Nat) /\ rcvd \in Seq(Nat)
    BY <1>7 DEF ReadTake, MapInv, MapTypes
  <2>2. Len(rcvd) <= Len(rcvd')
    <3>1. Len(rcvd') = Len(rcvd) + Len(buf)  BY <2>1, ConcatProperties
    <3>2. Len(buf) \in Nat  BY <2>1, LenProperties
    <3> QED  BY <1>1, <3>1, <3>2
  <2>3. sent' = sent  BY <2>1
  <2> HIDE DEF sent
  <2>4. Len(rcvd') <= Len(sent)  BY <1>1, <1>2, <1>3, <2>1, SizeType
  <2>5. \A i \in 1 .. Len(rcvd') : rcvd'[i] = sent[i]  BY <1>1, <1>2, <1>3, <2>4
  <2>6. rcvd' = SubSeq(sent, 1, Len(rcvd'))  BY <1>1, <1>3, <2>4, <2>5, PrefixIsSubSeq
  <2> USE DEF sent
  <2>7. Channel!Receive  BY <2>2, <2>3, <2>4, <2>6 DEF Channel!Receive
  <2> QED  BY <2>7 DEF Channel!ChanNext
<1> QED  BY <1>5, <1>6, <1>7, OthersAreSilent

\* ReadData returns the bytes WriteData wrote, in order and each once, across
\* crashes and new readers, with at most Size - 1 of them under way.
THEOREM MapImplementsChannel == Spec => ImplementsChannel
<1>1. Init => Channel!ChanInit
  <2>1. Init => [i \in 1 .. written |-> i] = << >>  BY DEF Init
  <2> QED  BY <2>1 DEF Init, Channel!ChanInit
<1>2. MapInv /\ MapInv' /\ [Next]_vars => [Channel!ChanNext]_(Channel!chanVars)
  BY ChannelStep
<1> QED
  BY <1>1, <1>2, MapInvariant, PTL DEF Spec, ImplementsChannel, Channel!ChanSpec

(* ----------------------- resources and the window ------------------------ *)

\* StreamResources has FiniteSets of its own, with the same definitions.
LEMMA SameFiniteSets ==
  \A S : R!Cardinality(S) = Cardinality(S) /\ (R!IsFiniteSet(S) <=> IsFiniteSet(S))
BY DEF R!Cardinality, Cardinality, R!IsFiniteSet, IsFiniteSet

\* The invariant of StreamResources holds when no stream has been started.
LEMMA ResourcesStart == R!Init => R!ResourcesInv
<1> SUFFICES ASSUME R!Init PROVE R!ResourcesInv
  OBVIOUS
<1> USE PartAssumptions DEF R!Init
<1>1. R!TypeOK
  BY FS_EmptySet, SameFiniteSets DEF R!TypeOK, R!ResourceAssumption
<1>2. R!SparedAreFailures
  BY DEF R!SparedAreFailures
<1>3. R!NeverOvercounts
  BY FS_EmptySet, SameFiniteSets DEF R!NeverOvercounts
<1> QED
  BY <1>1, <1>2, <1>3 DEF R!ResourcesInv

\* A new guard adds its stream to both the jobs and the count, or to neither.
LEMMA CreateGuardKeeps ==
  ASSUME R!ResourcesInv, NEW g \in Guards, NEW id \in StreamIds, R!CreateGuard(g, id)
  PROVE  R!ResourcesInv'
<1> USE DEF R!CreateGuard
<1>1. IsFiniteSet(jobs) /\ active \in Nat /\ active <= Cardinality(jobs)
  BY SameFiniteSets DEF R!ResourcesInv, R!TypeOK, R!NeverOvercounts
<1>2. Cardinality(jobs) \in Nat
  BY <1>1, FS_CardinalityType
<1>3. /\ IsFiniteSet(jobs')
      /\ Cardinality(jobs') = IF id \in jobs THEN Cardinality(jobs) ELSE Cardinality(jobs) + 1
  BY <1>1, FS_AddElement
<1>4. R!TypeOK'
  BY <1>1, <1>3, SameFiniteSets DEF R!ResourcesInv, R!TypeOK
<1>5. R!SparedAreFailures'
  BY DEF R!ResourcesInv, R!SparedAreFailures
<1>6. R!NeverOvercounts'
  BY <1>1, <1>2, <1>3, SameFiniteSets DEF R!NeverOvercounts
<1> QED
  BY <1>4, <1>5, <1>6 DEF R!ResourcesInv

\* A process runs when it is entered, so no check has spared it yet.
LEMMA AssignProcessKeeps ==
  ASSUME R!ResourcesInv, NEW g \in Guards, NEW p \in Processes, R!AssignProcess(g, p)
  PROVE  R!ResourcesInv'
<1> USE DEF R!AssignProcess
<1>1. guard[g] \in StreamIds
  BY DEF R!ResourcesInv, R!TypeOK
<1>2. R!TypeOK'
  BY DEF R!ResourcesInv, R!TypeOK
<1>3. R!SparedAreFailures'
  <2>1. spared[p] = 0
    BY DEF R!ResourcesInv, R!SparedAreFailures
  <2>2. ASSUME NEW id \in StreamIds
        PROVE  process'[id] = IF id = guard[g] THEN p ELSE process[id]
    BY <1>1 DEF R!ResourcesInv, R!TypeOK
  <2>3. ASSUME NEW id \in StreamIds PROVE failures[id] \in Nat
    BY DEF R!ResourcesInv, R!TypeOK
  <2> QED
    BY <1>1, <2>1, <2>2, <2>3 DEF R!ResourcesInv, R!SparedAreFailures
<1>4. R!NeverOvercounts'
  BY DEF R!ResourcesInv, R!NeverOvercounts
<1> QED
  BY <1>2, <1>3, <1>4 DEF R!ResourcesInv

\* A check that spares a dead process counts as a failure of its stream, and only
\* a process that runs sets the failures back.
LEMMA CheckHealthKeeps ==
  ASSUME R!ResourcesInv, NEW g \in Guards, R!CheckHealth(g)
  PROVE  R!ResourcesInv'
<1> DEFINE id == guard[g]
           p == process[id]
           n == failures[id] + 1
<1>1. id \in StreamIds /\ p \in Processes
  BY DEF R!CheckHealth, R!ResourcesInv, R!TypeOK
<1>2. /\ UNCHANGED << guard, jobs, member, process, active, alive >>
      /\ p \in alive \/ failures[id] < MaxFailures
      /\ failures' = [failures EXCEPT ![id] = IF p \in alive THEN 0 ELSE n]
      /\ spared' = [spared EXCEPT ![p] = IF p \notin alive /\ n < MaxFailures THEN @ + 1 ELSE @]
  BY DEF R!CheckHealth, R!IsProcessGenuinelyRunning
<1>3. MaxFailures \in Nat /\ failures[id] \in 0 .. MaxFailures
      /\ spared[p] \in 0 .. MaxFailures - 1 /\ spared[p] <= failures[id]
  BY <1>1, PartAssumptions
  DEF R!ResourceAssumption, R!ResourcesInv, R!TypeOK, R!SparedAreFailures
<1>4. /\ \A i \in StreamIds : failures'[i] = IF i # id THEN failures[i]
                                              ELSE IF p \in alive THEN 0 ELSE n
      /\ \A q \in Processes : spared'[q] =
           IF q = p /\ p \notin alive /\ n < MaxFailures THEN spared[q] + 1 ELSE spared[q]
  BY <1>1, <1>2 DEF R!ResourcesInv, R!TypeOK
<1>5. R!TypeOK'
  <2>1. (IF p \in alive THEN 0 ELSE n) \in 0 .. MaxFailures
    BY <1>2, <1>3
  <2>2. (IF p \notin alive /\ n < MaxFailures THEN spared[p] + 1 ELSE spared[p])
          \in 0 .. MaxFailures - 1
    BY <1>3
  <2> QED
    BY <1>1, <1>2, <2>1, <2>2 DEF R!ResourcesInv, R!TypeOK
<1>6. R!SparedAreFailures'
  <2>1. ASSUME NEW q \in alive' PROVE spared'[q] = 0
    BY <1>2, <1>4 DEF R!ResourcesInv, R!TypeOK, R!SparedAreFailures
  <2>2. ASSUME NEW i \in StreamIds, NEW q \in Processes, process'[i] = q
        PROVE  spared'[q] <= failures'[i]
    <3>1. process[i] = q /\ (i = id <=> q = p)
      BY <1>1, <1>2, <2>2, PartAssumptions
      DEF R!ResourceAssumption, R!ResourcesInv, R!SparedAreFailures
    <3>2. spared[q] <= failures[i] /\ spared[q] \in Int /\ failures[i] \in Int
      BY <3>1 DEF R!ResourcesInv, R!TypeOK, R!SparedAreFailures
    <3>3. CASE i # id
      BY <1>4, <3>1, <3>2, <3>3
    <3>4. CASE i = id /\ p \in alive
      <4>1. spared[q] = 0
        BY <3>1, <3>4 DEF R!ResourcesInv, R!SparedAreFailures
      <4> QED
        BY <1>4, <3>1, <3>4, <4>1
    <3>5. CASE i = id /\ p \notin alive
      BY <1>4, <3>1, <3>2, <3>5
    <3> QED
      BY <3>3, <3>4, <3>5
  <2> QED
    BY <1>2, <2>1, <2>2 DEF R!ResourcesInv, R!SparedAreFailures
<1>7. R!NeverOvercounts'
  BY <1>2 DEF R!ResourcesInv, R!NeverOvercounts
<1> QED
  BY <1>5, <1>6, <1>7 DEF R!ResourcesInv

\* The count goes down with the jobs, and also when the job is gone already.
LEMMA DestroyGuardKeeps ==
  ASSUME R!ResourcesInv, NEW g \in Guards, R!DestroyGuard(g)
  PROVE  R!ResourcesInv'
<1> USE DEF R!DestroyGuard
<1>1. IsFiniteSet(jobs) /\ active \in Nat /\ active <= Cardinality(jobs)
  BY SameFiniteSets DEF R!ResourcesInv, R!TypeOK, R!NeverOvercounts
<1>2. Cardinality(jobs) \in Nat
  BY <1>1, FS_CardinalityType
<1>3. /\ IsFiniteSet(jobs')
      /\ Cardinality(jobs') = IF guard[g] \in jobs THEN Cardinality(jobs) - 1
                                                   ELSE Cardinality(jobs)
  BY <1>1, FS_RemoveElement
<1>4. guard[g] \in StreamIds /\ MaxFailures \in Nat
  BY PartAssumptions DEF R!ResourceAssumption, R!ResourcesInv, R!TypeOK
<1>5. R!TypeOK'
  BY <1>1, <1>3, <1>4, SameFiniteSets DEF R!ResourcesInv, R!TypeOK
<1>6. R!SparedAreFailures'
  <2>1. /\ \A i \in StreamIds : process'[i] = IF i = guard[g] THEN R!None ELSE process[i]
        /\ \A i \in StreamIds : i # guard[g] => failures'[i] = failures[i]
        /\ alive' \subseteq alive /\ spared' = spared
    BY <1>4 DEF R!ResourcesInv, R!TypeOK
  <2>2. R!None \notin Processes
    BY PartAssumptions DEF R!ResourceAssumption
  <2> QED
    BY <2>1, <2>2 DEF R!ResourcesInv, R!SparedAreFailures
<1>7. R!NeverOvercounts'
  <2>1. Cardinality(jobs') \in Nat
    BY <1>3, FS_CardinalityType
  <2>2. active' = IF active > 0 THEN active - 1 ELSE 0
    OBVIOUS
  <2>3. active' <= Cardinality(jobs')
    BY ONLY <1>1, <1>2, <1>3, <2>1, <2>2
  <2> QED
    BY <2>3, SameFiniteSets DEF R!NeverOvercounts
<1> QED
  BY <1>5, <1>6, <1>7 DEF R!ResourcesInv

\* A process that dies leaves every count as it is.
LEMMA ProcessDiesKeeps ==
  ASSUME R!ResourcesInv, NEW p \in Processes, R!ProcessDies(p)
  PROVE  R!ResourcesInv'
<1> USE DEF R!ProcessDies
<1>1. R!TypeOK'
  BY DEF R!ResourcesInv, R!TypeOK
<1>2. R!SparedAreFailures'
  BY DEF R!ResourcesInv, R!SparedAreFailures
<1>3. R!NeverOvercounts'
  BY DEF R!ResourcesInv, R!NeverOvercounts
<1> QED
  BY <1>1, <1>2, <1>3 DEF R!ResourcesInv

\* Every behaviour of the program's separate parts keeps the bookkeeping of
\* StreamResourceManager in order.
THEOREM ResourcesInvariant == PartsSpec => []R!ResourcesInv
<1>1. PartsInit => R!ResourcesInv
  BY ResourcesStart DEF PartsInit
<1>2. R!ResourcesInv /\ [PartsNext]_partsVars => R!ResourcesInv'
  <2> SUFFICES ASSUME R!ResourcesInv, [PartsNext]_partsVars PROVE R!ResourcesInv'
    OBVIOUS
  <2>1. CASE R!Next
    BY <2>1, CreateGuardKeeps, AssignProcessKeeps, CheckHealthKeeps, DestroyGuardKeeps,
       ProcessDiesKeeps DEF R!Next
  <2>2. CASE UNCHANGED resources
    BY <2>2 DEF resources, R!ResourcesInv, R!TypeOK, R!SparedAreFailures, R!NeverOvercounts
  <2> QED
    BY <2>1, <2>2 DEF PartsNext, partsVars, Moves
<1> QED
  BY <1>1, <1>2, PTL DEF PartsSpec

\* A process that has died is called healthy fewer than MaxFailures times, and the
\* count of active streams never exceeds the streams that have resources: for any
\* number of guards, ids and processes (IsStreamProcessHealthy, the guard's
\* constructor and destructor).
THEOREM ResourcesStaySound == PartsSpec => []ResourcesSound
<1>1. R!ResourcesInv => ResourcesSound
  <2> SUFFICES ASSUME R!ResourcesInv PROVE R!ToleranceBounded /\ R!NeverOvercounts
    BY DEF ResourcesSound, R!ResourcesSound
  <2>1. MaxFailures \in Nat /\ spared \in [Processes -> 0 .. MaxFailures - 1]
    BY PartAssumptions DEF R!ResourceAssumption, R!ResourcesInv, R!TypeOK
  <2>2. \A p \in Processes : spared[p] < MaxFailures
    BY <2>1
  <2> QED
    BY <2>2 DEF R!ToleranceBounded, R!ResourcesInv
<1> QED
  BY <1>1, ResourcesInvariant, PTL
(* ------------------------------ the tray icon ----------------------------- *)

\* Why a hidden window can be got back: the flag of CreateTrayIcon is set exactly
\* as long as the window is hidden, so each hiding asks the shell anew, and what
\* takes the icon away is either recorded or shows the window.
TrayInv ==
  /\ running /\ hidden => made
  /\ running /\ made => hidden
  /\ running /\ hidden => icon \/ refused

\* Favourites and settings do not touch the tray; the others keep it in order.
LEMMA DesktopKeepsTray ==
  ASSUME TrayInv, D!Next
  PROVE  TrayInv'
<1> USE DEF TrayInv
<1>1. CASE D!WriteBom \/ D!WriteLine \/ D!CloseFile
  BY <1>1 DEF D!WriteBom, D!WriteLine, D!CloseFile, D!tray
<1>2. CASE \/ D!AddFavorite
           \/ \E n \in Ids : D!TypeName(n)
           \/ \E i \in DOMAIN favorites : D!OnFavoriteDoubleClick(i) \/ D!DeleteFavorite(i)
  <2>1. UNCHANGED << D!tray, running >>
    BY <1>2 DEF D!AddFavorite, D!TypeName, D!OnFavoriteDoubleClick, D!DeleteFavorite
  <2> QED
    BY <2>1 DEF D!tray
<1>3. CASE \/ D!ShowSettingsDialog \/ D!ConfirmSettings \/ D!CancelSettings
           \/ \E v \in [player : Players, tray : BOOLEAN] : D!EditDialog(v)
  <2>1. UNCHANGED << D!tray, running >>
    BY <1>3 DEF D!ShowSettingsDialog, D!ConfirmSettings, D!CancelSettings, D!EditDialog
  <2> QED
    BY <2>1 DEF D!tray
<1>4. CASE D!Minimize
  <2>1. ~made /\ made' /\ hidden' /\ refused' = ~icon' /\ icon' \in BOOLEAN
    BY <1>4, Zenon DEF D!Minimize, D!Ready, D!CreateTrayIcon
  <2> QED
    BY <2>1
<1>5. CASE D!LoseIcon
  BY <1>5, Zenon DEF D!LoseIcon
<1>6. CASE D!ShowFromTray
  BY <1>6, Zenon DEF D!ShowFromTray
<1>7. CASE D!Quit \/ D!Crash
  BY <1>7, Zenon DEF D!Quit, D!Crash
<1>8. CASE D!Start
  BY <1>8, Zenon DEF D!Start
<1> QED
  BY <1>1, <1>2, <1>3, <1>4, <1>5, <1>6, <1>7, <1>8 DEF D!Next

\* Whenever the window is hidden its icon is in the task bar, unless the shell
\* refused or lost the icon of this very hiding: over any number of starts,
\* crashes, minimizings and restorings (CreateTrayIcon, RemoveTrayIcon).
THEOREM HiddenWindowIsReachable == PartsSpec => []WindowReachable
<1>1. PartsInit => TrayInv
  BY Zenon DEF PartsInit, D!Init, TrayInv
<1>2. TrayInv /\ [PartsNext]_partsVars => TrayInv'
  <2> SUFFICES ASSUME TrayInv, [PartsNext]_partsVars PROVE TrayInv'
    OBVIOUS
  <2>1. CASE D!Next
    BY <2>1, DesktopKeepsTray
  <2>2. CASE UNCHANGED desktop
    BY <2>2 DEF desktop, TrayInv
  <2> QED
    BY <2>1, <2>2 DEF PartsNext, partsVars, Moves
<1>3. TrayInv => WindowReachable
  BY DEF TrayInv, WindowReachable, D!WindowReachable
<1> QED
  BY <1>1, <1>2, <1>3, PTL DEF PartsSpec

(* ------------------------------ favourites ------------------------------- *)

\* A favourite as it is kept, the visible names of a list of them, and the step
\* that finds them.
Shown == Ids \cup {"", "torn"}
Favorite == [marks : Nat, id : Shown]
Shows(x) == x.id # ""
Showing == [p \in Seq(Shown) \X Favorite |->
              IF Shows(p[2]) THEN Append(p[1], p[2].id) ELSE p[1]]
ShownNames(list) == Folded(Showing, << >>, list)

\* Desktop has a FiniteSetsExt of its own, with the same definition.
LEMMA SameMaxD == \A s : D!Max(s) = Max(s)
BY DEF D!Max, Max

\* Looking at one more favourite is a step of a fold.
LEMMA ShowingIsStep ==
  /\ IsStep(Showing, Seq(Shown), Favorite) /\ << >> \in Seq(Shown)
  /\ \A v \in Seq(Shown), x \in Favorite :
       Showing[<< v, x >>] = IF Shows(x) THEN Append(v, x.id) ELSE v
<1> DEFINE S == Seq(Shown)
<1>1. \A v \in S, x \in Shown : Append(v, x) \in S
  BY AppendProperties
<1>2. \A x \in Favorite : x.id \in Shown
  BY DEF Favorite
<1>3. << >> \in S
  OBVIOUS
<1>4. Showing = [p \in S \X Favorite |-> IF Shows(p[2]) THEN Append(p[1], p[2].id) ELSE p[1]]
  BY DEF Showing
<1> HIDE DEF S
<1>5. Showing \in [S \X Favorite -> S]
  BY <1>1, <1>2, <1>4
<1>6. \A v \in S, x \in Favorite :
        Showing[<< v, x >>] = IF Shows(x) THEN Append(v, x.id) ELSE v
  BY <1>4
<1> QED
  BY <1>3, <1>5, <1>6 DEF S, IsStep

\* Visible is that fold.
LEMMA VisibleIsFolding ==
  ASSUME NEW s \in Seq(Favorite)
  PROVE  D!Visible(s) = ShownNames(s)
<1> DEFINE n == Len(s)
           S == Seq(Shown)
           a == << >>
           Is(it) == it = [u \in SUBSET DOMAIN s |->
                             IF u = {} THEN << >>
                             ELSE IF Shows(s[D!Max(u)])
                                  THEN Append(it[u \ {D!Max(u)}], s[D!Max(u)].id)
                                  ELSE it[u \ {D!Max(u)}]]
           c == CHOOSE it : Is(it)
<1>1. D!Visible(s) = c[DOMAIN s] /\ DOMAIN s = 1 .. n
  BY LenProperties DEF Shows, D!Visible, D!FoldLeft, D!MapThenFoldSet
<1>2. IsStep(Showing, S, Favorite) /\ a \in S
  BY ShowingIsStep
<1>0. \A v \in S, x \in Favorite :
        Showing[<< v, x >>] = IF Shows(x) THEN Append(v, x.id) ELSE v
  BY ShowingIsStep
<1> HIDE DEF S
<1>3. PICK it : BySetsWithin(it, S, Favorite, Showing, a, s)
  BY <1>2, FoldedSetsExist
<1>4. Is(it)
  BY <1>0, <1>1, <1>3, SameMaxD DEF BySetsWithin
<1>5. Is(c)
  BY <1>4
<1> HIDE DEF c
<1>6. c[{}] = a
  BY <1>5
<1> HIDE DEF a
<1>7. ASSUME NEW u \in SUBSET (1 .. n), u # {}, c[u \ {Max(u)}] \in S
      PROVE  c[u] = Showing[<< c[u \ {Max(u)}], s[Max(u)] >>]
  <2>1. s[Max(u)] \in Favorite
    BY <1>3, <1>7 DEF BySetsWithin
  <2>2. c[u] = IF Shows(s[Max(u)]) THEN Append(c[u \ {Max(u)}], s[Max(u)].id)
                                    ELSE c[u \ {Max(u)}]
    BY <1>1, <1>5, <1>7, SameMaxD
  <2> QED
    BY <1>0, <1>7, <2>1, <2>2
<1>8. c[1 .. n] = Folded(Showing, a, s)
  <2>1. BySets(c, S, Showing, a, s)
    BY <1>6, <1>7 DEF BySets
  <2> QED
    BY <1>2, <2>1, FoldedBySets
<1> QED
  BY <1>1, <1>8 DEF a, ShownNames

\* There is a favourite.
LEMMA ExampleFavorite == [marks |-> 0, id |-> ""] \in Favorite
BY DEF Favorite, Shown

\* One more favourite adds its name, if it has one to show.
LEMMA NamesGrow ==
  ASSUME NEW s \in Seq(Favorite), NEW x \in Favorite
  PROVE  /\ ShownNames(<< >>) = << >> /\ ShownNames(s) \in Seq(Shown)
         /\ ShownNames(Append(s, x)) = IF Shows(x) THEN Append(ShownNames(s), x.id) ELSE ShownNames(s)
<1> DEFINE S == Seq(Shown)
           a == << >>
<1>1. IsStep(Showing, S, Favorite) /\ a \in S
  BY ShowingIsStep
<1> HIDE DEF S, a
<1>2. /\ Folded(Showing, a, << >>) = a /\ Folded(Showing, a, s) \in S
      /\ Folded(Showing, a, Append(s, x)) = Showing[<< Folded(Showing, a, s), x >>]
  BY <1>1, FoldedSteps
<1> QED
  BY <1>2, ShowingIsStep DEF S, a, ShownNames

\* Byte order marks do not show.
LEMMA MarksDoNotShow ==
  ASSUME NEW s \in Seq(Favorite), NEW t \in Seq(Favorite), Len(s) = Len(t),
         \A i \in 1 .. Len(s) : s[i].id = t[i].id
  PROVE  ShownNames(s) = ShownNames(t)
<1> DEFINE S == Seq(Shown)
           a == << >>
<1>1. IsStep(Showing, S, Favorite) /\ a \in S
  BY ShowingIsStep
<1>0. \A v \in S, x \in Favorite :
        Showing[<< v, x >>] = IF Shows(x) THEN Append(v, x.id) ELSE v
  BY ShowingIsStep
<1> HIDE DEF S, a
<1>2. PICK f \in [0 .. Len(s) -> S] :
        Stages(f, Showing, a, s) /\ Folded(Showing, a, s) = f[Len(s)]
  BY <1>1, FoldedStages
<1>3. StagesWithin(f, S, Showing, a, t)
  <2>1. f[0] = a
    BY <1>2 DEF Stages
  <2>2. ASSUME NEW i \in 1 .. Len(t), f[i - 1] \in S
        PROVE  f[i] = Showing[<< f[i - 1], t[i] >>]
    <3>1. i \in 1 .. Len(s)
      OBVIOUS
    <3>2. s[i] \in Favorite /\ t[i] \in Favorite /\ s[i].id = t[i].id
      BY <3>1, ElementOfSeq
    <3>3. f[i] = Showing[<< f[i - 1], s[i] >>]
      BY <1>2, <3>1 DEF Stages
    <3>4. Shows(s[i]) <=> Shows(t[i])
      BY <3>2 DEF Shows
    <3> QED
      BY <1>0, <2>2, <3>2, <3>3, <3>4
  <2> QED
    BY <2>1, <2>2 DEF StagesWithin
<1>4. f[Len(t)] = Folded(Showing, a, t)
  BY <1>1, <1>3, FoldedStages
<1> QED
  BY <1>2, <1>4 DEF a, ShownNames

\* What shows of a beginning is a beginning of what shows.
LEMMA BeginningsShow ==
  ASSUME NEW s \in Seq(Favorite), NEW t \in Seq(Favorite)
  PROVE  /\ Len(ShownNames(s)) <= Len(ShownNames(s \o t))
         /\ \A i \in 1 .. Len(ShownNames(s)) : ShownNames(s \o t)[i] = ShownNames(s)[i]
<1> DEFINE n == Len(t)
           m == Len(s)
           u == s \o t
           first(k) == SubSeq(u, 1, m + k)
           T == {k \in 0 .. n : /\ Len(ShownNames(s)) <= Len(ShownNames(first(k)))
                                /\ \A i \in 1 .. Len(ShownNames(s)) : ShownNames(first(k))[i] = ShownNames(s)[i]}
<1>1. n \in Nat /\ m \in Nat /\ u \in Seq(Favorite) /\ Len(u) = m + n
      /\ \A i \in 1 .. m : u[i] = s[i]
  BY LenProperties, ConcatProperties
<1>2. \A i \in 1 .. m + n : u[i] \in Favorite
  BY <1>1, ElementOfSeq
<1> HIDE DEF n, m, u
<1>3. ASSUME NEW k \in 0 .. n
      PROVE  /\ first(k) \in Seq(Favorite) /\ Len(first(k)) = m + k
             /\ \A i \in 1 .. m + k : first(k)[i] = u[i]
  <2>1. \A i \in 1 .. m + k : u[i] \in Favorite
    BY <1>1, <1>2
  <2>2. /\ first(k) \in Seq(Favorite)
        /\ Len(first(k)) = IF 1 <= m + k THEN (m + k) - 1 + 1 ELSE 0
        /\ \A i \in 1 .. (m + k) - 1 + 1 : first(k)[i] = u[1 + i - 1]
    BY <1>1, <2>1, SubSeqProperties
  <2> QED
    BY <1>1, <2>2
<1>4. first(0) = s /\ first(n) = u
  <2>1. Len(first(0)) = Len(s) /\ \A i \in 1 .. Len(s) : first(0)[i] = s[i]
    BY <1>1, <1>3 DEF m
  <2>2. first(0) = s
    BY <1>1, <1>3, <2>1, SeqEqual
  <2>3. Len(first(n)) = Len(u) /\ \A i \in 1 .. Len(u) : first(n)[i] = u[i]
    BY <1>1, <1>3
  <2>4. first(n) = u
    BY <1>1, <1>3, <2>3, SeqEqual
  <2> QED
    BY <2>2, <2>4
<1>5. Len(ShownNames(s)) \in Nat
  BY ExampleFavorite, NamesGrow, LenProperties
<1>6. 0 \in T
  <2>1. 0 \in 0 .. n /\ first(0) = s
    BY <1>1, <1>4
  <2> HIDE DEF first
  <2> QED
    BY <1>5, <2>1
<1>7. ASSUME NEW k \in 0 .. n, k \in T, k < n PROVE k + 1 \in T
  <2>1. k + 1 \in 0 .. n /\ m + k + 1 \in 1 .. m + n /\ m + (k + 1) = m + k + 1
    BY <1>1, <1>7
  <2> DEFINE x == u[m + k + 1]
  <2>2. x \in Favorite
    BY <1>2, <2>1
  <2>3. first(k + 1) = Append(first(k), x)
    <3>1. /\ first(k) \in Seq(Favorite) /\ Len(first(k)) = m + k
          /\ \A i \in 1 .. m + k : first(k)[i] = u[i]
      BY <1>3
    <3>2. /\ first(k + 1) \in Seq(Favorite) /\ Len(first(k + 1)) = m + k + 1
          /\ \A i \in 1 .. m + k + 1 : first(k + 1)[i] = u[i]
      BY <1>3, <2>1
    <3> HIDE DEF first, x
    <3>3. /\ Append(first(k), x) \in Seq(Favorite) /\ Len(Append(first(k), x)) = m + k + 1
          /\ \A i \in 1 .. m + k : Append(first(k), x)[i] = first(k)[i]
          /\ Append(first(k), x)[m + k + 1] = x
      BY <2>2, <3>1, AppendProperties
    <3>4. ASSUME NEW i \in 1 .. m + k + 1 PROVE first(k + 1)[i] = Append(first(k), x)[i]
      <4>1. CASE i \in 1 .. m + k
        BY <3>1, <3>2, <3>3, <4>1
      <4>2. CASE i = m + k + 1
        BY <3>2, <3>3, <4>2 DEF x
      <4>3. m + k \in Nat
        BY <1>1
      <4>4. i \in 1 .. m + k \/ i = m + k + 1
        BY <4>3
      <4> QED
        BY <4>1, <4>2, <4>4
    <3> QED
      BY <3>2, <3>3, <3>4, SeqEqual
  <2>4. first(k) \in Seq(Favorite)
    BY <1>3
  <2> DEFINE v == ShownNames(first(k))
             w == ShownNames(first(k + 1))
  <2>5. /\ v \in Seq(Shown)
        /\ w = IF Shows(x) THEN Append(v, x.id) ELSE v
    <3> HIDE DEF first, x
    <3> QED
      BY <2>2, <2>3, <2>4, NamesGrow
  <2>6. x.id \in Shown
    BY <2>2 DEF Favorite
  <2>7. Len(ShownNames(s)) <= Len(v) /\ \A i \in 1 .. Len(ShownNames(s)) : v[i] = ShownNames(s)[i]
    BY <1>7
  <2> HIDE DEF v, w, x
  <2>8. /\ Len(w) >= Len(v) /\ Len(v) \in Nat /\ Len(w) \in Nat
        /\ \A i \in 1 .. Len(v) : w[i] = v[i]
    <3>1. CASE Shows(x)
      BY <2>5, <2>6, <3>1, AppendProperties, LenProperties
    <3>2. CASE ~Shows(x)
      BY <2>5, <3>2, LenProperties
    <3> QED
      BY <3>1, <3>2
  <2>9. /\ Len(ShownNames(s)) <= Len(w)
        /\ \A i \in 1 .. Len(ShownNames(s)) : w[i] = ShownNames(s)[i]
    BY <1>5, <2>7, <2>8
  <2> QED
    BY <2>1, <2>9 DEF w
<1>8. n \in T
  <2>1. \A i \in 0 .. n : i \in T
    <3> HIDE DEF T
    <3> QED
      BY <1>1, <1>6, <1>7, UpTo
  <2> HIDE DEF T
  <2> QED
    BY <1>1, <2>1
<1> QED
  BY <1>4, <1>8 DEF u

\* What the file gives back of a save that ended, or was cut short.
Back == IF file.bom THEN ShownNames(file.lines) ELSE << >>
Survived ==
  /\ whole => Back = handed
  /\ Len(Back) <= Len(handed)
  /\ \A i \in 1 .. Len(Back) : Back[i] = handed[i] \/ (i = Len(Back) /\ Back[i] = "torn")

\* The file and what has still to be written to it are what was handed over; when
\* nothing is being written the file holds that, or a beginning of it.
FavoritesInv ==
  /\ favorites \in Seq(Favorite) /\ box \in Favorite
  /\ file \in [bom : BOOLEAN, lines : Seq(Favorite)]
  /\ unwritten \in Seq(Favorite) /\ saving \in BOOLEAN
  /\ ~running => ~saving
  /\ ~file.bom => file.lines = << >>
  /\ saving => ~whole /\ handed = ShownNames(file.lines \o unwritten)
  /\ ~saving => Survived

\* LoadFavoritesFromFile changes marks only.
LEMMA LoadedShows ==
  ASSUME NEW f \in [bom : BOOLEAN, lines : Seq(Favorite)], ~f.bom => f.lines = << >>
  PROVE  /\ D!LoadFavoritesFromFile(f) \in Seq(Favorite)
         /\ ShownNames(D!LoadFavoritesFromFile(f)) = IF f.bom THEN ShownNames(f.lines) ELSE << >>
<1>1. f.lines \in Seq(Favorite) /\ << >> \in Seq(Favorite)
  BY EmptySeq
<1>2. CASE ~f.bom
  <2>1. D!LoadFavoritesFromFile(f) = << >>
    BY <1>2 DEF D!LoadFavoritesFromFile
  <2> QED
    BY <1>1, <1>2, <2>1, ExampleFavorite, NamesGrow
<1>3. CASE f.bom /\ f.lines = << >>
  <2> DEFINE x == [marks |-> 1, id |-> ""]
  <2>1. D!LoadFavoritesFromFile(f) = << x >>
    BY <1>3 DEF D!LoadFavoritesFromFile
  <2>2. x \in Favorite /\ ~Shows(x)
    BY DEF Favorite, Shown, Shows
  <2> HIDE DEF x
  <2>3. Append(<< >>, x) = << x >> /\ << x >> \in Seq(Favorite)
    BY <2>2
  <2>4. ShownNames(Append(<< >>, x)) = << >> /\ ShownNames(<< >>) = << >>
    BY <1>1, <2>2, NamesGrow
  <2> QED
    BY <1>3, <2>1, <2>3, <2>4
<1>4. CASE f.bom /\ f.lines # << >>
  <2> DEFINE t == [f.lines EXCEPT ![1].marks = @ + 1]
             x == [f.lines[1] EXCEPT !.marks = @ + 1]
  <2>1. D!LoadFavoritesFromFile(f) = t
    BY <1>4 DEF D!LoadFavoritesFromFile
  <2>2. Len(f.lines) \in Nat /\ 1 \in 1 .. Len(f.lines) /\ f.lines[1] \in Favorite
    BY <1>1, <1>4, EmptySeq, LenProperties, ElementOfSeq
  <2>3. x \in Favorite /\ x.id = f.lines[1].id
    BY <2>2 DEF Favorite
  <2>4. t = [f.lines EXCEPT ![1] = x]
    BY <1>1, <2>2
  <2> HIDE DEF t, x
  <2>5. /\ t \in Seq(Favorite) /\ Len(t) = Len(f.lines)
        /\ \A i \in 1 .. Len(f.lines) : t[i] = IF i = 1 THEN x ELSE f.lines[i]
    BY <1>1, <2>2, <2>3, <2>4, ExceptSeq
  <2>6. \A i \in 1 .. Len(t) : t[i].id = f.lines[i].id
    BY <2>3, <2>5
  <2>7. ShownNames(t) = ShownNames(f.lines)
    BY <1>1, <2>5, <2>6, MarksDoNotShow
  <2> QED
    BY <1>4, <2>1, <2>5, <2>7
<1> QED
  BY <1>2, <1>3, <1>4

\* SaveFavoritesToFile begins with an empty file and all lines still to be written.
LEMMA SavingBegins ==
  ASSUME FavoritesInv, NEW list \in Seq(Favorite), D!Ready, D!SaveFavorites(list),
         UNCHANGED << box, running >>
  PROVE  FavoritesInv'
<1>1. favorites' = list /\ favorites' \in Seq(Favorite) /\ running /\ ~saving
  BY DEF D!SaveFavorites, D!Ready
<1>2. CASE UNCHANGED << file, unwritten, saving, handed, whole >>
  BY <1>1, <1>2 DEF FavoritesInv, Survived, Back
<1>3. CASE /\ file' = D!NoFile /\ unwritten' = list /\ saving' = TRUE
           /\ handed' = D!Visible(list) /\ whole' = FALSE
  <2>1. << >> \in Seq(Favorite) /\ << >> \o list = list
    BY EmptySeq, ConcatEmptySeq
  <2>2. file' = [bom |-> FALSE, lines |-> << >>]
    BY <1>3 DEF D!NoFile
  <2>3. handed' = ShownNames(file'.lines \o unwritten')
    BY <1>3, <2>1, <2>2, VisibleIsFolding
  <2> QED
    BY <1>1, <1>3, <2>1, <2>2, <2>3 DEF FavoritesInv
<1> QED
  BY <1>2, <1>3 DEF D!SaveFavorites

\* Closing the file: it holds all that was handed over.
LEMMA SavingEnds ==
  ASSUME FavoritesInv, D!CloseFile
  PROVE  FavoritesInv'
<1>1. /\ file.lines \in Seq(Favorite) /\ file.bom /\ unwritten = << >>
      /\ handed = ShownNames(file.lines \o unwritten)
  BY DEF D!CloseFile, FavoritesInv
<1>2. handed = Back
  BY <1>1, ConcatEmptySeq DEF Back
<1>3. ShownNames(file.lines) \in Seq(Shown)
  BY <1>1, ExampleFavorite, NamesGrow
<1>4. Len(Back) \in Nat
  BY <1>1, <1>3, LenProperties DEF Back
<1>5. Back' = Back /\ handed' = handed
  BY DEF D!CloseFile, Back
<1>6. Survived'
  BY <1>2, <1>4, <1>5 DEF Survived
<1> QED
  BY <1>6 DEF D!CloseFile, FavoritesInv

\* A line goes from what is unwritten to the file.
LEMMA LineWritten ==
  ASSUME FavoritesInv, D!WriteLine
  PROVE  FavoritesInv'
<1> DEFINE s == file.lines
           x == Head(unwritten)
           t == Tail(unwritten)
<1>1. /\ s \in Seq(Favorite) /\ unwritten \in Seq(Favorite) /\ unwritten # << >>
      /\ saving /\ file.bom /\ running
  BY DEF D!WriteLine, FavoritesInv
<1>2. x \in Favorite /\ t \in Seq(Favorite) /\ unwritten = << x >> \o t
  BY <1>1, HeadTailProperties
<1>3. file' = [file EXCEPT !.lines = Append(s, x)] /\ unwritten' = t
  BY DEF D!WriteLine
<1> HIDE DEF s, x, t
<1>4. Append(s, x) \in Seq(Favorite) /\ Append(s, x) \o t = s \o unwritten
  <2>1. Append(s, x) = s \o << x >> /\ << x >> \in Seq(Favorite) /\ Append(s, x) \in Seq(Favorite)
    BY <1>1, <1>2, AppendIsConcat, AppendProperties
  <2>2. (s \o << x >>) \o t = s \o (<< x >> \o t)
    BY ONLY <1>1, <1>2, <2>1, ConcatAssociative
  <2> QED
    BY <1>2, <2>1, <2>2
<1>5. file'.lines = Append(s, x) /\ file'.bom /\ file' \in [bom : BOOLEAN, lines : Seq(Favorite)]
  BY <1>1, <1>3, <1>4 DEF FavoritesInv
<1> QED
  BY <1>1, <1>2, <1>3, <1>4, <1>5 DEF D!WriteLine, FavoritesInv, s

\* A crash leaves a beginning, perhaps with a piece of one more name.
LEMMA CrashKeeps ==
  ASSUME FavoritesInv, D!Crash
  PROVE  FavoritesInv'
<1> DEFINE s == file.lines
           x == Head(unwritten)
           t == Tail(unwritten)
<1>1. /\ s \in Seq(Favorite) /\ unwritten \in Seq(Favorite)
      /\ file \in [bom : BOOLEAN, lines : Seq(Favorite)] /\ << >> \in Seq(Favorite)
      /\ saving' = FALSE /\ running' = FALSE /\ unwritten' = << >>
      /\ UNCHANGED << favorites, box, handed, whole >>
  BY EmptySeq DEF D!Crash, FavoritesInv
<1>2. SUFFICES /\ Survived' /\ file' \in [bom : BOOLEAN, lines : Seq(Favorite)]
               /\ ~file'.bom => file'.lines = << >>
  BY <1>1 DEF FavoritesInv
<1>3. CASE ~saving
  <2>1. file' = file
    BY <1>3 DEF D!Crash
  <2> QED
    BY <1>1, <1>3, <2>1 DEF FavoritesInv, Survived, Back
<1>4. CASE saving /\ file' = file
  <2>1. ~whole' /\ handed' = ShownNames(s \o unwritten) /\ (~file.bom => s = << >>)
    BY <1>1, <1>4 DEF FavoritesInv
  <2>2. Back' = IF file.bom THEN ShownNames(s) ELSE << >>
    BY <1>4 DEF Back
  <2> HIDE DEF s
  <2>3. /\ Len(ShownNames(s)) <= Len(ShownNames(s \o unwritten))
        /\ \A i \in 1 .. Len(ShownNames(s)) : ShownNames(s \o unwritten)[i] = ShownNames(s)[i]
    BY <1>1, BeginningsShow
  <2>4. s \o unwritten \in Seq(Favorite)
    BY <1>1, ConcatProperties
  <2>5. Len(ShownNames(s \o unwritten)) \in Nat
    BY <2>4, ExampleFavorite, NamesGrow, LenProperties
  <2>6. Survived'
    <3>1. CASE file.bom
      BY <2>1, <2>2, <2>3, <3>1 DEF Survived
    <3>2. CASE ~file.bom
      <4>1. Back' = << >> /\ Len(Back') = 0
        BY <2>2, <3>2
      <4> QED
        BY <2>1, <2>5, <4>1 DEF Survived
    <3> QED
      BY <3>1, <3>2
  <2> QED
    BY <1>1, <1>4, <2>1, <2>6 DEF s
<1>5. CASE /\ saving /\ file.bom /\ unwritten # << >> /\ x.id # ""
           /\ file' = [file EXCEPT !.lines = Append(@, [x EXCEPT !.id = D!Torn])]
  <2> DEFINE y == [x EXCEPT !.id = D!Torn]
  <2>0. unwritten \in Seq(Favorite) /\ unwritten # << >>
    BY <1>1, <1>5
  <2>1. x \in Favorite /\ t \in Seq(Favorite) /\ unwritten = << x >> \o t
    BY <2>0, HeadTailProperties
  <2>2. y \in Favorite /\ y.id = "torn" /\ Shows(y) /\ Shows(x) /\ x.id \in Shown
    BY <1>5, <2>1 DEF Favorite, Shown, Shows, D!Torn
  <2>3. /\ file'.lines = Append(s, y) /\ file'.bom
    BY <1>1, <1>5
  <2>4. ~whole' /\ handed' = ShownNames(s \o unwritten)
    BY <1>1, <1>5 DEF FavoritesInv
  <2> HIDE DEF s, x, t, y
  <2>5. Append(s, y) \in Seq(Favorite) /\ Append(s, x) \in Seq(Favorite)
    BY <1>1, <2>1, <2>2, AppendProperties
  <2>6. Append(s, x) \o t = s \o unwritten
    <3>1. Append(s, x) = s \o << x >> /\ << x >> \in Seq(Favorite)
      BY <1>1, <2>1, AppendIsConcat
    <3>2. (s \o << x >>) \o t = s \o (<< x >> \o t)
      BY ONLY <1>1, <2>1, <3>1, ConcatAssociative
    <3> QED
      BY <2>1, <3>1, <3>2
  <2> DEFINE v == ShownNames(s)
             h == ShownNames(s \o unwritten)
             m == Len(v)
  <2>7. v \in Seq(Shown) /\ m \in Nat
    BY <1>1, ExampleFavorite, NamesGrow, LenProperties
  <2>8. ShownNames(Append(s, x)) = Append(v, x.id) /\ ShownNames(Append(s, y)) = Append(v, y.id)
    BY <1>1, <2>1, <2>2, NamesGrow
  <2>9. /\ Len(ShownNames(Append(s, x))) <= Len(ShownNames(Append(s, x) \o t))
        /\ \A i \in 1 .. Len(ShownNames(Append(s, x))) :
             ShownNames(Append(s, x) \o t)[i] = ShownNames(Append(s, x))[i]
    BY <2>1, <2>5, BeginningsShow
  <2> HIDE DEF v, h
  <2>10. /\ Len(Append(v, x.id)) = m + 1 /\ Len(Append(v, y.id)) = m + 1
         /\ \A i \in 1 .. m : Append(v, x.id)[i] = v[i] /\ Append(v, y.id)[i] = v[i]
         /\ Append(v, y.id)[m + 1] = y.id
    <3>1. y.id \in Shown /\ x.id \in Shown
      BY <2>2 DEF Favorite
    <3> QED
      BY <2>7, <3>1, AppendProperties
  <2>11. m + 1 <= Len(h) /\ \A i \in 1 .. m + 1 : h[i] = Append(v, x.id)[i]
    BY <2>6, <2>8, <2>9, <2>10 DEF h
  <2>12. Back' = Append(v, y.id)
    BY <2>3, <2>8 DEF Back
  <2>13. ASSUME NEW i \in 1 .. Len(Back')
         PROVE  Back'[i] = handed'[i] \/ (i = Len(Back') /\ Back'[i] = "torn")
    <3>1. i \in 1 .. m + 1 /\ Len(Back') = m + 1
      BY <2>10, <2>12
    <3>2. CASE i = m + 1
      BY <2>2, <2>10, <2>12, <3>1, <3>2
    <3>3. CASE i # m + 1
      <4>1. i \in 1 .. m
        BY <2>7, <3>1, <3>3
      <4> QED
        BY <2>4, <2>10, <2>11, <2>12, <3>1, <4>1 DEF h
    <3> QED
      BY <3>2, <3>3
  <2>14. Survived'
    BY <2>4, <2>10, <2>11, <2>12, <2>13 DEF Survived, h
  <2>15. file' \in [bom : BOOLEAN, lines : Seq(Favorite)]
    BY <1>1, <1>5, <2>5 DEF s, y
  <2> QED
    BY <2>3, <2>14, <2>15
<1> QED
  BY <1>3, <1>4, <1>5 DEF D!Crash

\* No step of the desktop parts the file from what was handed over.
LEMMA FavoritesStep ==
  ASSUME FavoritesInv, D!Next
  PROVE  FavoritesInv'
<1>1. CASE D!WriteBom
  <2>1. /\ file' = [file EXCEPT !.bom = TRUE] /\ saving
        /\ UNCHANGED << favorites, box, unwritten, saving, handed, whole, running >>
    BY <1>1 DEF D!WriteBom
  <2>2. file'.bom /\ file'.lines = file.lines /\ file' \in [bom : BOOLEAN, lines : Seq(Favorite)]
    BY <2>1 DEF FavoritesInv
  <2> QED
    BY <2>1, <2>2 DEF FavoritesInv
<1>2. CASE D!WriteLine
  BY <1>2, LineWritten
<1>3. CASE D!CloseFile
  BY <1>3, SavingEnds
<1>4. CASE D!AddFavorite
  <2>1. Append(favorites, box) \in Seq(Favorite)
    BY AppendProperties DEF FavoritesInv
  <2> QED
    BY <1>4, <2>1, SavingBegins DEF D!AddFavorite
<1>5. ASSUME NEW n \in Ids, D!TypeName(n) PROVE FavoritesInv'
  <2>1. D!Plain(n) \in Favorite
    BY DEF D!Plain, Favorite, Shown
  <2> QED
    BY <1>5, <2>1 DEF D!TypeName, FavoritesInv, Survived, Back
<1>6. ASSUME NEW i \in DOMAIN favorites, D!OnFavoriteDoubleClick(i) PROVE FavoritesInv'
  <2>1. favorites[i] \in Favorite
    BY LenProperties, ElementOfSeq DEF FavoritesInv
  <2> QED
    BY <1>6, <2>1 DEF D!OnFavoriteDoubleClick, FavoritesInv, Survived, Back
<1>7. ASSUME NEW i \in DOMAIN favorites, D!DeleteFavorite(i) PROVE FavoritesInv'
  <2> DEFINE s == favorites
  <2>1. s \in Seq(Favorite) /\ i \in 1 .. Len(s) /\ Len(s) \in Nat
    BY LenProperties DEF FavoritesInv
  <2>2. D!RemoveAt(s, i) = SubSeq(s, 1, i - 1) \o SubSeq(s, i + 1, Len(s))
    BY DEF D!RemoveAt
  <2>3. /\ \A j \in 1 .. i - 1 : s[j] \in Favorite
        /\ \A j \in i + 1 .. Len(s) : s[j] \in Favorite
    BY <2>1, ElementOfSeq
  <2> HIDE DEF s
  <2>4. SubSeq(s, 1, i - 1) \in Seq(Favorite) /\ SubSeq(s, i + 1, Len(s)) \in Seq(Favorite)
    BY <2>1, <2>3, SubSeqProperties
  <2>5. D!RemoveAt(s, i) \in Seq(Favorite)
    BY <2>2, <2>4, ConcatProperties
  <2> QED
    BY <1>7, <2>5, SavingBegins DEF D!DeleteFavorite, s
<1>8. CASE \/ D!ShowSettingsDialog \/ D!ConfirmSettings \/ D!CancelSettings \/ D!LoseIcon
           \/ D!Minimize \/ D!ShowFromTray \/ D!Quit
           \/ \E v \in [player : Players, tray : BOOLEAN] : D!EditDialog(v)
  <2>1. UNCHANGED << favorites, box, file, unwritten, saving, handed, whole >>
    BY <1>8
    DEF D!ShowSettingsDialog, D!ConfirmSettings, D!CancelSettings, D!EditDialog, D!LoseIcon,
        D!Minimize, D!ShowFromTray, D!Quit, D!favs
  <2>2. running' = running \/ ~saving
    BY <1>8
    DEF D!ShowSettingsDialog, D!ConfirmSettings, D!CancelSettings, D!EditDialog, D!LoseIcon,
        D!Minimize, D!ShowFromTray, D!Quit, D!Ready
  <2> QED
    BY <2>1, <2>2 DEF FavoritesInv, Survived, Back
<1>9. CASE D!Crash
  BY <1>9, CrashKeeps
<1>10. CASE D!Start
  <2>1. favorites' \in Seq(Favorite)
    BY <1>10, LoadedShows DEF D!Start, FavoritesInv
  <2>2. box' \in Favorite
    BY <1>10, ExampleFavorite DEF D!Start, D!Plain
  <2>3. UNCHANGED << file, unwritten, saving, handed, whole >> /\ running' = TRUE
    BY <1>10 DEF D!Start
  <2> QED
    BY <2>1, <2>2, <2>3 DEF FavoritesInv, Survived, Back
<1> QED
  BY <1>1, <1>2, <1>3, <1>4, <1>5, <1>6, <1>7, <1>8, <1>9, <1>10 DEF D!Next

\* The file keeps what was handed over, and crashes leave a beginning of it.
THEOREM FavoritesInvariant == PartsSpec => []FavoritesInv
<1>1. PartsInit => FavoritesInv
  <2> SUFFICES ASSUME PartsInit PROVE FavoritesInv
    OBVIOUS
  <2>1. /\ favorites = << >> /\ box = [marks |-> 0, id |-> ""] /\ unwritten = << >>
        /\ file = [bom |-> FALSE, lines |-> << >>] /\ saving = FALSE /\ handed = << >>
    BY DEF PartsInit, D!Init, D!Plain, D!NoFile
  <2>2. << >> \in Seq(Favorite) /\ Len(<< >>) = 0
    BY EmptySeq
  <2>3. Back = << >>
    BY <2>1 DEF Back
  <2>4. Survived
    <3>1. Back = handed /\ Len(Back) = 0 /\ Len(handed) = 0
      BY <2>1, <2>2, <2>3
    <3>2. \A i \in 1 .. 0 : FALSE
      OBVIOUS
    <3> QED
      BY <3>1, <3>2 DEF Survived
  <2>5. file \in [bom : BOOLEAN, lines : Seq(Favorite)] /\ file.lines = << >>
    BY <2>1, <2>2
  <2> QED
    BY <2>1, <2>2, <2>4, <2>5, ExampleFavorite DEF FavoritesInv
<1>2. FavoritesInv /\ [PartsNext]_partsVars => FavoritesInv'
  <2> SUFFICES ASSUME FavoritesInv, [PartsNext]_partsVars PROVE FavoritesInv'
    OBVIOUS
  <2>1. CASE D!Next
    BY <2>1, FavoritesStep
  <2>2. CASE UNCHANGED desktop
    BY <2>2 DEF desktop, FavoritesInv, Survived, Back
  <2> QED
    BY <2>1, <2>2 DEF PartsNext, Moves, partsVars
<1> QED
  BY <1>1, <1>2, PTL DEF PartsSpec

\* SaveFavoritesToFile, LoadFavoritesFromFile: a start brings back the names of
\* the last save that began, or the first of them and a piece of the next,
\* whatever crashed and however often the mark was read back as part of a name.
THEOREM FavoritesComeBack == PartsSpec => FavoritesSurvive
<1>1. FavoritesInv /\ [PartsNext]_partsVars =>
        [D!Start => LET back == D!Visible(favorites')
                    IN  /\ whole => back = handed
                        /\ Len(back) <= Len(handed)
                        /\ \A i \in DOMAIN back :
                             back[i] = handed[i] \/ (i = Len(back) /\ back[i] = D!Torn)]_(D!vars)
  <2> SUFFICES ASSUME FavoritesInv, D!Start
               PROVE  LET back == D!Visible(favorites')
                      IN  /\ whole => back = handed
                          /\ Len(back) <= Len(handed)
                          /\ \A i \in DOMAIN back :
                               back[i] = handed[i] \/ (i = Len(back) /\ back[i] = D!Torn)
    OBVIOUS
  <2>1. favorites' = D!LoadFavoritesFromFile(file) /\ ~saving
    BY DEF D!Start, FavoritesInv
  <2>2. favorites' \in Seq(Favorite) /\ ShownNames(favorites') = Back
    BY <2>1, LoadedShows DEF FavoritesInv, Back
  <2>3. D!Visible(favorites') = Back /\ Back \in Seq(Shown)
    BY <2>2, ExampleFavorite, NamesGrow, VisibleIsFolding
  <2>4. DOMAIN Back = 1 .. Len(Back)
    BY <2>3, LenProperties
  <2>5. Survived
    BY <2>1 DEF FavoritesInv
  <2> QED
    BY <2>3, <2>4, <2>5 DEF Survived, D!Torn
<1> QED
  BY <1>1, FavoritesInvariant, PTL DEF PartsSpec, FavoritesSurvive, D!FavoritesSurvive

(* ------------------------ requests and qualities ------------------------- *)

\* Why no handle stays open: a tab without a request has none and opens none, and
\* every way out of a request, after a failure or a last byte, closes them all.
CallInv ==
  /\ C!HandlesClosed
  /\ at = "idle" => phase = "open"

\* The WinHTTP calls open handles during a request only, and return without any.
LEMMA RequestClosesHandles ==
  ASSUME CallInv, C!CallStep
  PROVE  CallInv'
<1> USE DEF CallInv, C!HandlesClosed, C!call
<1>1. CASE C!OpenHandle
  BY <1>1 DEF C!OpenHandle
<1>2. CASE C!OpenFails
  BY <1>2 DEF C!OpenFails
<1>3. CASE C!SendRequest \/ C!SendFails
  <2>1. at # "idle"
    BY <1>3 DEF C!SendRequest, C!SendFails, C!Kinds
  <2> QED
    BY <1>3, <2>1 DEF C!SendRequest, C!SendFails
<1>4. CASE C!ReadData
  BY <1>4 DEF C!ReadData
<1>5. CASE C!ReadEnd
  BY <1>5 DEF C!ReadEnd
<1> QED
  BY <1>1, <1>2, <1>3, <1>4, <1>5 DEF C!CallStep

\* A new request, and the end of a load, begin without a handle.
LEMMA AskingHasNoHandles ==
  ASSUME NEW e, NEW l, C!Ask(e, l)
  PROVE  CallInv'
BY DEF C!Ask, CallInv, C!HandlesClosed

\* No WinHTTP handle stays open behind a request, whichever of its calls failed
\* and whichever request follows (HttpGet, HttpPost and their callers).
THEOREM HandlesStayClosed == PartsSpec => []HandlesClosed
<1>1. PartsInit => CallInv
  BY DEF PartsInit, C!Init, CallInv, C!HandlesClosed
<1>2. CallInv /\ [PartsNext]_partsVars => CallInv'
  <2> SUFFICES ASSUME CallInv, [PartsNext]_partsVars PROVE CallInv'
    OBVIOUS
  <2>1. CASE C!CallStep
    BY <2>1, RequestClosesHandles
  <2>2. CASE C!FallBack \/ C!TryLegacy \/ C!GotToken \/ C!NoToken \/ C!NoPlaylist \/ C!GotPlaylist
    <3>1. \E e, l : C!Ask(e, l)
      BY <2>2, Zenon DEF C!FallBack, C!TryLegacy, C!GotToken, C!NoToken, C!NoPlaylist, C!GotPlaylist,
                         C!EndLoad
    <3> QED
      BY <3>1, AskingHasNoHandles
  <2>3. CASE C!LoadChannel
    <3>1. UNCHANGED C!call \/ C!Ask("modern", "tls")
      BY <2>3, Zenon DEF C!LoadChannel
    <3> QED
      BY <3>1, AskingHasNoHandles DEF CallInv, C!HandlesClosed, C!call
  <2>4. CASE \/ C!StopStream
             \/ \E t \in C!Texts : C!TypeChannel(t)
             \/ \E i \in DOMAIN listed : C!WatchStream(i)
    <3>1. UNCHANGED C!call
      BY <2>4, Zenon DEF C!StopStream, C!TypeChannel, C!WatchStream
    <3> QED
      BY <3>1 DEF CallInv, C!HandlesClosed, C!call
  <2>5. CASE C!ParserFails
    <3>1. at' = "lost" /\ phase' = "returned" /\ handles' = handles /\ phase = "returned"
      BY <2>5 DEF C!ParserFails
    <3> QED
      BY <3>1 DEF CallInv, C!HandlesClosed
  <2>6. CASE \E i \in DOMAIN listed : C!WatchLong(i)
    <3>1. at' = "lost" /\ phase' = "returned" /\ handles' = handles /\ at = "idle"
      BY <2>6, Zenon DEF C!WatchLong
    <3> QED
      BY <3>1 DEF CallInv, C!HandlesClosed
  <2>7. CASE UNCHANGED channelTab
    BY <2>7 DEF channelTab, CallInv, C!HandlesClosed
  <2> QED
    BY <2>1, <2>2, <2>3, <2>4, <2>5, <2>6, <2>7 DEF PartsNext, partsVars, Moves, C!Next, C!CallStep
<1>3. CallInv => HandlesClosed
  BY DEF CallInv, HandlesClosed
<1> QED
  BY <1>1, <1>2, <1>3, PTL DEF PartsSpec

\* ChannelTab has a FiniteSetsExt of its own, with the same definition.
LEMMA SameMaxC == \A s : C!Max(s) = Max(s)
BY DEF C!Max, Max

\* What is kept of a sequence is in the set.
LEMMA KeepIsFolding ==
  ASSUME NEW Q, NEW s \in Seq(Q), NEW set
  PROVE  C!Keep(s, set) \in Seq(Q \cap set)
<1> DEFINE n == Len(s)
           S == Seq(Q \cap set)
           G == [p \in S \X Q |-> IF p[2] \in set THEN Append(p[1], p[2]) ELSE p[1]]
           Is(it) == it = [u \in SUBSET DOMAIN s |->
                             IF u = {} THEN << >>
                             ELSE IF s[C!Max(u)] \in set THEN Append(it[u \ {C!Max(u)}], s[C!Max(u)])
                                                         ELSE it[u \ {C!Max(u)}]]
           c == CHOOSE it : Is(it)
<1>0. \A v \in S, x \in Q : x \in set => Append(v, x) \in S
  BY AppendProperties
<1>1. C!Keep(s, set) = c[DOMAIN s] /\ DOMAIN s = 1 .. n
  BY LenProperties DEF C!Keep, C!FoldLeft, C!MapThenFoldSet
<1>2. /\ IsStep(G, S, Q) /\ << >> \in S
      /\ \A v \in S, x \in Q : G[<< v, x >>] = IF x \in set THEN Append(v, x) ELSE v
  BY <1>0 DEF IsStep
<1> HIDE DEF G, S
<1>3. PICK it : BySetsWithin(it, S, Q, G, << >>, s)
  BY <1>2, FoldedSetsExist
<1>4. Is(it)
  BY <1>1, <1>2, <1>3, SameMaxC DEF BySetsWithin
<1>5. Is(c)
  BY <1>4
<1> HIDE DEF c
<1>6. c[{}] = << >>
  BY <1>5
<1>7. ASSUME NEW u \in SUBSET (1 .. n), u # {}, c[u \ {Max(u)}] \in S
      PROVE  c[u] = G[<< c[u \ {Max(u)}], s[Max(u)] >>]
  <2>1. s[Max(u)] \in Q
    BY <1>3, <1>7 DEF BySetsWithin
  <2>2. c[u] = IF s[Max(u)] \in set THEN Append(c[u \ {Max(u)}], s[Max(u)])
                                    ELSE c[u \ {Max(u)}]
    BY <1>1, <1>5, <1>7, SameMaxC
  <2> QED
    BY <1>2, <1>7, <2>1, <2>2
<1>8. c[1 .. n] = Folded(G, << >>, s)
  <2>1. BySets(c, S, G, << >>, s)
    BY <1>6, <1>7 DEF BySets
  <2> QED
    BY <1>2, <2>1, FoldedBySets
<1>9. Folded(G, << >>, s) \in S
  BY <1>2, FoldedSteps
<1> QED
  BY <1>1, <1>8, <1>9 DEF S

\* The list holds standard names of the qualities.
LEMMA SortedAreStandard ==
  ASSUME NEW Q, NEW quals \in Seq(Q)
  PROVE  /\ C!SortQualities(quals) \in Seq({C!StandardizeQualityName(quals[i]) : i \in 1 .. Len(quals)})
<1> DEFINE n == Len(quals)
           Z == {C!StandardizeQualityName(quals[i]) : i \in 1 .. n}
           std == [i \in DOMAIN quals |-> C!StandardizeQualityName(quals[i])]
           known == C!Keep(C!Order, C!ToSet(std))
           S == Seq(Z)
           G == [p \in S \X Z |-> IF C!Contains(p[1], p[2]) THEN p[1] ELSE Append(p[1], p[2])]
           Is(it) == it = [u \in SUBSET DOMAIN std |->
                             IF u = {} THEN known
                             ELSE IF C!Contains(it[u \ {C!Max(u)}], std[C!Max(u)])
                                  THEN it[u \ {C!Max(u)}]
                                  ELSE Append(it[u \ {C!Max(u)}], std[C!Max(u)])]
           c == CHOOSE it : Is(it)
<1>1. n \in Nat /\ DOMAIN quals = 1 .. n
  BY LenProperties
<1>2. std \in Seq(Z) /\ Len(std) = n /\ DOMAIN std = 1 .. n
  <2>1. std \in [1 .. n -> Z]
    BY <1>1
  <2> HIDE DEF std, Z, n
  <2> QED
    BY <1>1, <2>1
<1>3. C!ToSet(std) = Z
  BY <1>1 DEF C!ToSet
<1>4. known \in S
  <2> DEFINE O == {C!Order[i] : i \in 1 .. 7}
  <2>1. C!Order \in Seq(O)
    BY DEF C!Order
  <2> HIDE DEF O
  <2>2. known \in Seq(O \cap Z)
    BY <1>3, <2>1, KeepIsFolding
  <2>3. O \cap Z \subseteq Z
    OBVIOUS
  <2> HIDE DEF known, Z
  <2> QED
    BY <2>2, <2>3, SeqMonotonic
<1> HIDE DEF known
<1>5. C!SortQualities(quals) = c[DOMAIN std]
  BY DEF C!SortQualities, C!FoldLeft, C!MapThenFoldSet, known
<1> HIDE DEF std, Z, n
<1>6. \A v \in S, x \in Z : Append(v, x) \in S
  BY AppendProperties
<1>7. /\ IsStep(G, S, Z)
      /\ \A v \in S, x \in Z : G[<< v, x >>] = IF C!Contains(v, x) THEN v ELSE Append(v, x)
  BY <1>6 DEF IsStep
<1> HIDE DEF G, S
<1>8. PICK it : BySetsWithin(it, S, Z, G, known, std)
  BY <1>2, <1>4, <1>7, FoldedSetsExist
<1>9. Is(it)
  BY <1>2, <1>7, <1>8, SameMaxC DEF BySetsWithin
<1>10. Is(c)
  BY <1>9
<1> HIDE DEF c
<1>11. c[{}] = known
  BY <1>10
<1>12. ASSUME NEW u \in SUBSET (1 .. n), u # {}, c[u \ {Max(u)}] \in S
       PROVE  c[u] = G[<< c[u \ {Max(u)}], std[Max(u)] >>]
  <2>1. std[Max(u)] \in Z
    BY <1>2, <1>8, <1>12 DEF BySetsWithin
  <2>2. c[u] = IF C!Contains(c[u \ {Max(u)}], std[Max(u)]) THEN c[u \ {Max(u)}]
               ELSE Append(c[u \ {Max(u)}], std[Max(u)])
    BY <1>2, <1>10, <1>12, SameMaxC
  <2> QED
    BY <1>7, <1>12, <2>1, <2>2
<1>13. c[1 .. n] = Folded(G, known, std)
  <2>1. BySets(c, S, G, known, std)
    BY <1>2, <1>11, <1>12 DEF BySets
  <2> QED
    BY <1>2, <1>4, <1>7, <2>1, FoldedBySets
<1>14. Folded(G, known, std) \in S
  BY <1>2, <1>4, <1>7, FoldedSteps
<1> QED
  BY <1>2, <1>5, <1>13, <1>14 DEF S, Z, n

\* The last of the positions that have a property is one that has it.
LEMMA LastOne ==
  ASSUME NEW n \in Nat, NEW T, T \subseteq 1 .. n, T # {}
  PROVE  \E i \in T : \A j \in i + 1 .. n : j \notin T
<1>1. Max(T) \in T /\ \A y \in T : y <= Max(T)
  BY MaxProperties
<1>0. PICK m \in T : \A y \in T : y <= m
  BY <1>1
<1>2. ASSUME NEW j \in m + 1 .. n, j \in T PROVE FALSE
  <2>1. m \in 1 .. n /\ j <= m
    BY <1>0, <1>2
  <2> QED
    BY <2>1
<1> QED
  BY <1>2

\* Every standard name leads back to a quality it is the standard name of.
LEMMA OriginalOfStandard ==
  ASSUME NEW Q, NEW quals \in Seq(Q), NEW o, o = C!StandardToOriginal(quals)
  PROVE  /\ DOMAIN o = {C!StandardizeQualityName(quals[i]) : i \in 1 .. Len(quals)}
         /\ \A s \in DOMAIN o : o[s] \in Q /\ C!StandardizeQualityName(o[s]) = s
<1> DEFINE n == Len(quals)
           std(i) == C!StandardizeQualityName(quals[i])
           Is(i, s) == std(i) = s /\ \A j \in i + 1 .. n : std(j) # s
           last(s) == CHOOSE i \in 1 .. n : Is(i, s)
<1>1. n \in Nat /\ DOMAIN quals = 1 .. n /\ \A i \in 1 .. n : quals[i] \in Q
  BY LenProperties, ElementOfSeq
<1>2. o = [s \in {std(i) : i \in 1 .. n} |-> quals[last(s)]]
  BY <1>1 DEF C!StandardToOriginal
<1>3. ASSUME NEW s \in {std(i) : i \in 1 .. n}
      PROVE  last(s) \in 1 .. n /\ std(last(s)) = s
  <2> DEFINE T == {i \in 1 .. n : std(i) = s}
  <2>1. T \subseteq 1 .. n /\ T # {}
    OBVIOUS
  <2>2. PICK i \in T : \A j \in i + 1 .. n : j \notin T
    BY <1>1, <2>1, LastOne
  <2>3. i \in 1 .. n /\ \A j \in i + 1 .. n : j \in 1 .. n
    BY <1>1
  <2>4. Is(i, s)
    BY <2>2, <2>3
  <2> QED
    BY <2>3, <2>4
<1> QED
  BY <1>1, <1>2, <1>3

\* Reading a master playlist: after k lines, what was found so far and the name
\* the next URL gets.
MasterRead(v, lines, k) ==
  /\ \A e \in 1 .. Len(v.found) : \E i \in 1 .. k :
       /\ lines[i].kind = "url" /\ lines[i].url = v.found[e].url
       /\ C!NameOf(lines, i) = v.found[e].name
  /\ LET before == {j \in 1 .. k : lines[j].kind # "tag"}
     IN  \/ v.name = C!NoName /\ (before = {} \/ lines[Max(before)].kind # "inf")
         \/ /\ v.name # C!NoName /\ before # {} /\ lines[Max(before)].kind = "inf"
            /\ v.name = C!Label(lines[Max(before)])

\* The name of a URL by the line that was last before it.
LEMMA NameOfUrl ==
  ASSUME NEW n \in Nat, NEW lines, NEW i \in 1 .. n
  PROVE  LET before == {j \in 1 .. i - 1 : lines[j].kind # "tag"}
         IN  C!NameOf(lines, i) = IF before # {} /\ lines[Max(before)].kind = "inf"
                                  THEN C!Label(lines[Max(before)]) ELSE << "url", lines[i].url >>
<1> DEFINE before == {j \in 1 .. i - 1 : lines[j].kind # "tag"}
           k == CHOOSE x \in before : \A m \in before : m <= x
<1>1. before \subseteq 1 .. n /\ \A x \in before : x \in Int
  OBVIOUS
<1>2. C!NameOf(lines, i) = IF before # {} /\ lines[k].kind = "inf"
                           THEN C!Label(lines[k]) ELSE << "url", lines[i].url >>
  BY DEF C!NameOf
<1>3. before # {} => k = Max(before)
  <2> SUFFICES ASSUME before # {} PROVE k = Max(before)
    OBVIOUS
  <2> HIDE DEF before
  <2>1. Max(before) \in before /\ \A y \in before : y <= Max(before)
    BY <1>1, MaxProperties
  <2>2. k \in before /\ \A m \in before : m <= k
    BY <2>1
  <2>3. Max(before) <= k /\ k <= Max(before) /\ k \in Int /\ Max(before) \in Int
    BY <1>1, <2>1, <2>2
  <2> QED
    BY <2>3
<1> QED
  BY <1>2, <1>3

\* One more line.
LEMMA LineRead ==
  ASSUME NEW n \in Nat, NEW lines, NEW k \in 1 .. n, NEW v, NEW E,
         v.found \in Seq(E), v = [name |-> v.name, found |-> v.found],
         lines[k].kind \in {"inf", "url", "tag"},
         MasterRead(v, lines, k - 1),
         [name |-> IF v.name = C!NoName THEN << "url", lines[k].url >> ELSE v.name,
          url |-> lines[k].url] \in E
  PROVE  MasterRead(C!ParseLine(v, lines[k]), lines, k)
<1> DEFINE before == {j \in 1 .. k - 1 : lines[j].kind # "tag"}
           after == {j \in 1 .. k : lines[j].kind # "tag"}
           l == lines[k]
           w == C!ParseLine(v, l)
<1>1. after = IF l.kind = "tag" THEN before ELSE before \cup {k}
  OBVIOUS
<1>2. l.kind # "tag" => after # {} /\ Max(after) = k
  <2> SUFFICES ASSUME l.kind # "tag" PROVE Max(after) = k /\ after # {}
    OBVIOUS
  <2>1. after \subseteq 1 .. n /\ k \in after /\ \A j \in after : j \in Int /\ j <= k
    OBVIOUS
  <2> HIDE DEF after
  <2>2. Max(after) \in after /\ \A y \in after : y <= Max(after)
    BY <2>1, MaxProperties
  <2>3. Max(after) <= k /\ k <= Max(after) /\ Max(after) \in Int
    BY <2>1, <2>2
  <2> QED
    BY <2>1, <2>3
<1>3. \A e \in 1 .. Len(v.found) : \E i \in 1 .. k :
        /\ lines[i].kind = "url" /\ lines[i].url = v.found[e].url
        /\ C!NameOf(lines, i) = v.found[e].name
  <2>1. \A i \in 1 .. k - 1 : i \in 1 .. k
    OBVIOUS
  <2> QED
    BY <2>1 DEF MasterRead
<1>4. \/ v.name = C!NoName /\ (before = {} \/ lines[Max(before)].kind # "inf")
      \/ /\ v.name # C!NoName /\ before # {} /\ lines[Max(before)].kind = "inf"
         /\ v.name = C!Label(lines[Max(before)])
  BY DEF MasterRead
<1> SUFFICES /\ \A e \in 1 .. Len(w.found) : \E i \in 1 .. k :
                  /\ lines[i].kind = "url" /\ lines[i].url = w.found[e].url
                  /\ C!NameOf(lines, i) = w.found[e].name
             /\ \/ w.name = C!NoName /\ (after = {} \/ lines[Max(after)].kind # "inf")
                \/ /\ w.name # C!NoName /\ after # {} /\ lines[Max(after)].kind = "inf"
                   /\ w.name = C!Label(lines[Max(after)])
  BY DEF MasterRead
<1>5. CASE l.kind = "tag"
  <2>1. w = v /\ after = before
    BY <1>1, <1>5 DEF C!ParseLine
  <2> HIDE DEF w, after, before
  <2> QED
    BY <1>3, <1>4, <2>1
<1>6. CASE l.kind = "inf"
  <2>1. w = [v EXCEPT !.name = C!Label(l)]
    BY <1>6 DEF C!ParseLine
  <2>2. C!Label(l) # C!NoName
    BY DEF C!Label, C!NoName, C!Unknown
  <2>3. w.found = v.found /\ w.name = C!Label(l)
    BY <2>1
  <2> HIDE DEF w, after, before
  <2> QED
    BY <1>2, <1>3, <1>6, <2>2, <2>3
<1>7. CASE l.kind = "url"
  <2> DEFINE e == [name |-> IF v.name = C!NoName THEN << "url", l.url >> ELSE v.name, url |-> l.url]
  <2>1. w = [name |-> C!NoName, found |-> Append(v.found, e)]
    BY <1>7 DEF C!ParseLine
  <2>2. w.name = C!NoName /\ w.found = Append(v.found, e)
    BY <2>1
  <2>3. C!NameOf(lines, k) = e.name
    <3>1. C!NameOf(lines, k) = IF before # {} /\ lines[Max(before)].kind = "inf"
                               THEN C!Label(lines[Max(before)]) ELSE << "url", l.url >>
      BY NameOfUrl
    <3> HIDE DEF before
    <3> QED
      BY <1>4, <3>1
  <2>4. e.url = l.url
    OBVIOUS
  <2>5. e \in E
    OBVIOUS
  <2> HIDE DEF w, after, before, e
  <2>6. /\ Len(w.found) = Len(v.found) + 1 /\ Len(v.found) \in Nat
        /\ w.found[Len(v.found) + 1] = e
        /\ \A i \in 1 .. Len(v.found) : w.found[i] = v.found[i]
    BY <2>2, <2>5, AppendProperties, LenProperties
  <2>7. ASSUME NEW x \in 1 .. Len(w.found)
        PROVE  \E i \in 1 .. k : /\ lines[i].kind = "url" /\ lines[i].url = w.found[x].url
                                 /\ C!NameOf(lines, i) = w.found[x].name
    <3>1. CASE x = Len(v.found) + 1
      <4>1. k \in 1 .. k
        OBVIOUS
      <4> QED
        BY <1>7, <2>3, <2>4, <2>6, <3>1, <4>1
    <3>2. CASE x # Len(v.found) + 1
      <4>1. x \in 1 .. Len(v.found)
        BY <2>6, <3>2
      <4> QED
        BY <1>3, <2>6, <4>1
    <3> QED
      BY <3>1, <3>2
  <2> QED
    BY <1>2, <1>7, <2>2, <2>7
<1> QED
  BY <1>5, <1>6, <1>7

\* ParseM3U8MasterPlaylist yields URLs of the playlist under the names they have there.
LEMMA MasterFound ==
  ASSUME NEW L, NEW lines \in Seq(L),
         \A i \in 1 .. Len(lines) : lines[i].kind \in {"inf", "url", "tag"},
         NEW found, found = C!ParseM3U8MasterPlaylist(lines)
  PROVE  /\ \E E : found \in Seq(E)
         /\ \A e \in 1 .. Len(found) : \E i \in 1 .. Len(lines) :
              /\ lines[i].kind = "url" /\ lines[i].url = found[e].url
              /\ C!NameOf(lines, i) = found[e].name
<1> DEFINE n == Len(lines)
           M == {lines[i] : i \in 1 .. n}
           N == {C!NoName} \cup {C!Label(lines[i]) : i \in 1 .. n}
           E == [name : N \cup {<< "url", lines[i].url >> : i \in 1 .. n},
                 url : {lines[i].url : i \in 1 .. n}]
           S == [name : N, found : Seq(E)]
           G == [p \in S \X M |-> C!ParseLine(p[1], p[2])]
           a == [name |-> C!NoName, found |-> << >>]
           Is(it) == it = [u \in SUBSET DOMAIN lines |->
                             IF u = {} THEN a
                             ELSE C!ParseLine(it[u \ {C!Max(u)}], lines[C!Max(u)])]
           c == CHOOSE it : Is(it)
<1>1. n \in Nat /\ DOMAIN lines = 1 .. n
  BY LenProperties
<1>2. lines \in Seq(M)
  <2>1. lines \in [1 .. n -> M]
    BY <1>1, LenProperties
  <2> HIDE DEF M, n
  <2> QED
    BY <1>1, <2>1
<1>3. found = c[DOMAIN lines].found
  BY DEF C!ParseM3U8MasterPlaylist, C!FoldLeft, C!MapThenFoldSet
<1>4. ASSUME NEW v \in S, NEW l \in M
      PROVE  /\ C!ParseLine(v, l) \in S
             /\ [name |-> IF v.name = C!NoName THEN << "url", l.url >> ELSE v.name, url |-> l.url] \in E
  <2> DEFINE e == [name |-> IF v.name = C!NoName THEN << "url", l.url >> ELSE v.name, url |-> l.url]
  <2>1. PICK i \in 1 .. n : l = lines[i]
    OBVIOUS
  <2>2. e \in E
    BY <2>1
  <2>3. v.name \in N /\ v.found \in Seq(E) /\ C!Label(l) \in N /\ C!NoName \in N
    BY <2>1
  <2>4. l.kind \in {"inf", "url", "tag"}
    BY <2>1
  <2>5. v = [name |-> v.name, found |-> v.found]
    OBVIOUS
  <2> HIDE DEF e, E, N
  <2>6. Append(v.found, e) \in Seq(E)
    BY <2>2, <2>3, AppendProperties
  <2>7. CASE l.kind = "inf"
    <3>1. C!ParseLine(v, l) = [v EXCEPT !.name = C!Label(l)]
      BY <2>7 DEF C!ParseLine
    <3> QED
      BY <2>2, <2>3, <3>1 DEF e
  <2>8. CASE l.kind = "url"
    <3>1. C!ParseLine(v, l) = [name |-> C!NoName, found |-> Append(v.found, e)]
      BY <2>8 DEF C!ParseLine, e
    <3> QED
      BY <2>2, <2>3, <2>6, <3>1 DEF e
  <2>9. CASE l.kind = "tag"
    <3>1. C!ParseLine(v, l) = v
      BY <2>9 DEF C!ParseLine
    <3> QED
      BY <2>2, <3>1 DEF e
  <2> QED
    BY <2>4, <2>7, <2>8, <2>9
<1>5. a \in S
  OBVIOUS
<1>6. \A v \in S : v = [name |-> v.name, found |-> v.found] /\ v.found \in Seq(E)
  OBVIOUS
<1>7. IsStep(G, S, M) /\ \A v \in S, l \in M : G[<< v, l >>] = C!ParseLine(v, l)
  BY <1>4 DEF IsStep
<1> HIDE DEF G, S, E, N
<1>8. PICK it : BySetsWithin(it, S, M, G, a, lines)
  BY <1>2, <1>5, <1>7, FoldedSetsExist
<1>9. Is(it)
  BY <1>1, <1>7, <1>8, SameMaxC DEF BySetsWithin
<1>10. Is(c)
  BY <1>9
<1> HIDE DEF c
<1>11. c[{}] = a
  BY <1>10
<1> HIDE DEF a, M
<1>12. ASSUME NEW u \in SUBSET (1 .. n), u # {}, c[u \ {Max(u)}] \in S
      PROVE  c[u] = G[<< c[u \ {Max(u)}], lines[Max(u)] >>]
  <2>1. lines[Max(u)] \in M
    BY <1>8, <1>12 DEF BySetsWithin
  <2>2. c[u] = C!ParseLine(c[u \ {Max(u)}], lines[Max(u)])
    BY <1>1, <1>10, <1>12, SameMaxC
  <2> QED
    BY <1>7, <1>12, <2>1, <2>2
<1>13. c[1 .. n] = Folded(G, a, lines)
  <2>1. BySets(c, S, G, a, lines)
    BY <1>11, <1>12 DEF BySets
  <2> QED
    BY <1>2, <1>5, <1>7, <2>1, FoldedBySets
<1>14. PICK f \in [0 .. n -> S] : Stages(f, G, a, lines) /\ Folded(G, a, lines) = f[n]
  BY <1>2, <1>5, <1>7, FoldedStages
<1>15. \A k \in 0 .. n : MasterRead(f[k], lines, k)
  <2> DEFINE T == {k \in 0 .. n : MasterRead(f[k], lines, k)}
  <2>1. 0 \in T
    <3>1. f[0] = a
      BY <1>14 DEF Stages
    <3>2. a.found = << >> /\ a.name = C!NoName /\ \A j \in 1 .. 0 : FALSE
      BY DEF a
    <3>3. MasterRead(a, lines, 0)
      BY <3>2 DEF MasterRead
    <3> QED
      BY <1>1, <3>1, <3>3
  <2>2. ASSUME NEW k \in 0 .. n, k \in T, k < n PROVE k + 1 \in T
    <3>1. k + 1 \in 1 .. n /\ (k + 1) - 1 = k /\ k + 1 \in 0 .. n
      BY <1>1, <2>2
    <3>2. f[k] \in S /\ lines[k + 1] \in M
      BY <1>2, <3>1, ElementOfSeq
    <3>3. f[k + 1] = C!ParseLine(f[k], lines[k + 1])
      BY <1>7, <1>14, <3>1, <3>2 DEF Stages
    <3>4. MasterRead(f[k], lines, (k + 1) - 1)
      BY <2>2, <3>1
    <3>5. MasterRead(C!ParseLine(f[k], lines[k + 1]), lines, k + 1)
      BY <1>1, <1>4, <1>6, <3>1, <3>2, <3>4, LineRead
    <3> QED
      BY <3>1, <3>3, <3>5
  <2>3. \A k \in 0 .. n : k \in T
    <3> HIDE DEF T
    <3> QED
      BY <1>1, <2>1, <2>2, UpTo
  <2> QED
    BY <2>3
<1>16. n \in 0 .. n /\ found = f[n].found
  BY <1>1, <1>3, <1>13, <1>14
<1>17. found \in Seq(E)
  BY <1>6, <1>14, <1>16
<1>18. \A e \in 1 .. Len(found) : \E i \in 1 .. n :
         /\ lines[i].kind = "url" /\ lines[i].url = found[e].url
         /\ C!NameOf(lines, i) = found[e].name
  <2>1. MasterRead(f[n], lines, n)
    BY <1>15, <1>16
  <2> HIDE DEF n
  <2> QED
    BY <1>16, <2>1 DEF MasterRead
<1>19. \E X : found \in Seq(X)
  <2> WITNESS E
  <2> QED
    BY <1>17
<1> QED
  BY <1>18, <1>19

\* ParsePlaylist leads every name to a URL that has this name in the playlist.
LEMMA ParsedResolves ==
  ASSUME NEW L, NEW lines \in Seq(L),
         \A i \in 1 .. Len(lines) : lines[i].kind \in {"inf", "url", "tag"},
         NEW q \in DOMAIN C!ParsePlaylist(lines)
  PROVE  \E i \in 1 .. Len(lines) :
           /\ lines[i].kind = "url" /\ lines[i].url = C!ParsePlaylist(lines)[q]
           /\ C!NameOf(lines, i) = q
<1> DEFINE found == C!ParseM3U8MasterPlaylist(lines)
           n == Len(found)
           Is(e, s) == found[e].name = s /\ \A j \in e + 1 .. n : found[j].name # s
           last(s) == CHOOSE e \in DOMAIN found : Is(e, s)
<1>1. /\ \E E : found \in Seq(E)
      /\ \A e \in 1 .. n : \E i \in 1 .. Len(lines) :
           /\ lines[i].kind = "url" /\ lines[i].url = found[e].url
           /\ C!NameOf(lines, i) = found[e].name
  BY MasterFound
<1>2. n \in Nat /\ DOMAIN found = 1 .. n
  BY <1>1, LenProperties
<1>3. C!ParsePlaylist(lines) = [s \in {found[e].name : e \in DOMAIN found} |-> found[last(s)].url]
  BY DEF C!ParsePlaylist
<1> HIDE DEF found, n
<1>4. q \in {found[e].name : e \in 1 .. n}
  BY <1>2, <1>3
<1>5. \E e \in DOMAIN found : Is(e, q)
  <2> DEFINE T == {e \in 1 .. n : found[e].name = q}
  <2>1. T \subseteq 1 .. n /\ T # {}
    BY <1>4
  <2>2. PICK e \in T : \A j \in e + 1 .. n : j \notin T
    BY <1>2, <2>1, LastOne
  <2>3. e \in 1 .. n /\ \A j \in e + 1 .. n : j \in 1 .. n
    BY <1>2
  <2> QED
    BY <1>2, <2>2, <2>3
<1>6. last(q) \in 1 .. n /\ found[last(q)].name = q
  BY <1>2, <1>5
<1>7. C!ParsePlaylist(lines)[q] = found[last(q)].url
  BY <1>2, <1>3, <1>4
<1> QED
  BY <1>1, <1>6, <1>7

\* The names a list of qualities came from are those of the URLs.
QualityNames == C!ToSet(Names)

\* The list, the names behind it and the URLs fit together, and they are those
\* of the playlist that was read last, of which only the last line can be torn;
\* while a load runs, nothing plays.
ListInv ==
  /\ at # "idle" => playing = << >>
  /\ at = "playlist" /\ result # C!Nothing =>
       /\ result = [reply |-> result.reply, have |-> result.have]
       /\ result.reply \in Playlists /\ result.have \in 0 .. 2 * Len(result.reply)
  /\ \A i \in DOMAIN served :
       served[i].kind = "url" => served[i].url[2] = "whole" \/ i = Len(served)
  /\ \A q \in DOMAIN urls : \E i \in DOMAIN served :
       served[i].kind = "url" /\ served[i].url = urls[q] /\ C!NameOf(served, i) = q
  /\ \A s \in DOMAIN original :
       original[s] \in DOMAIN urls /\ C!StandardizeQualityName(original[s]) = s
  /\ \A i \in DOMAIN listed : listed[i] \in DOMAIN original
  /\ C!WatchPlaysChoice

\* What is read of a playlist is whole, but for the last line if it breaks off.
LEMMA LinesReadFacts ==
  ASSUME NEW r, r.reply \in Playlists, r.have \in 0 .. 2 * Len(r.reply)
  PROVE  LET lines == C!LinesRead(r)
         IN  \E L :
               /\ lines \in Seq(L)
               /\ \A i \in 1 .. Len(lines) : lines[i].kind \in {"inf", "url", "tag"}
               /\ \A i \in 1 .. Len(lines) :
                    lines[i].kind = "url" => lines[i].url[2] = "whole" \/ i = Len(lines)
<1> DEFINE s == r.reply
           n == (r.have + 1) \div 2
           lines == C!LinesRead(r)
           L == {lines[i] : i \in 1 .. n}
<1>1. /\ s \in Seq(C!ToSet(s)) /\ DOMAIN s = 1 .. Len(s) /\ Len(s) \in Nat
      /\ \A i \in 1 .. Len(s) : /\ s[i].kind \in {"inf", "url", "tag"}
                                /\ s[i].kind = "url" => s[i].url[2] = "whole"
  <2>1. /\ s \in Seq(C!ToSet(s))
        /\ \A i \in DOMAIN s : /\ s[i].kind \in {"inf", "url", "tag"}
                               /\ s[i].kind = "url" => s[i].url[2] = "whole"
    BY PartAssumptions DEF C!ChannelTabAssumption
  <2>2. DOMAIN s = 1 .. Len(s) /\ Len(s) \in Nat
    BY <2>1, LenProperties
  <2> QED
    BY <2>1, <2>2
<1>2. n \in Nat /\ n <= Len(s) /\ \A i \in 1 .. n : 2 * i <= r.have \/ i = n
  BY <1>1
<1> HIDE DEF n
<1>3. lines = [i \in 1 .. n |-> IF 2 * i <= r.have THEN s[i] ELSE C!Torn(s[i])]
  BY DEF C!LinesRead, n
<1>4. lines \in Seq(L) /\ Len(lines) = n
  <2>1. lines \in [1 .. n -> L]
    BY <1>3
  <2> QED
    BY <1>2, <2>1, LenProperties
<1>5. ASSUME NEW i \in 1 .. n
      PROVE  /\ lines[i].kind \in {"inf", "url", "tag"}
             /\ lines[i].kind = "url" => lines[i].url[2] = "whole" \/ i = n
  <2>1. i \in 1 .. Len(s)
    BY <1>1, <1>2
  <2>2. CASE 2 * i <= r.have
    <3>1. lines[i] = s[i]
      BY <1>3, <2>2
    <3>2. /\ s[i].kind \in {"inf", "url", "tag"}
          /\ s[i].kind = "url" => s[i].url[2] = "whole"
      BY <1>1, <2>1
    <3> QED
      BY <3>1, <3>2
  <2>3. CASE ~(2 * i <= r.have)
    <3>1. i = n /\ lines[i] = C!Torn(s[i])
      BY <1>2, <1>3, <2>3
    <3>2. C!Torn(s[i]).kind \in {"inf", "url", "tag"}
      BY <1>1, <2>1 DEF C!Torn
    <3> QED
      BY <3>1, <3>2
  <2> QED
    BY <2>2, <2>3
<1> QED
  BY <1>4, <1>5

\* A list that is filled from what was read, whole or cut short, fits together.
LEMMA GotPlaylistKeeps ==
  ASSUME ListInv, C!GotPlaylist
  PROVE  ListInv'
<1> DEFINE lines == C!LinesRead(result)
           found == C!ParsePlaylist(lines)
           quals == C!Keep(Names, DOMAIN found)
<1>1. /\ at = "playlist" /\ result # C!Nothing
      /\ served' = lines /\ urls' = found /\ listed' = C!SortQualities(quals)
      /\ original' = C!StandardToOriginal(quals)
      /\ at' = "idle" /\ playing' = playing
  BY DEF C!GotPlaylist, C!EndLoad, C!Ask
<1>2. result.reply \in Playlists /\ result.have \in 0 .. 2 * Len(result.reply) /\ playing = << >>
  BY <1>1 DEF ListInv
<1>3. PICK L : /\ lines \in Seq(L)
               /\ \A i \in 1 .. Len(lines) : lines[i].kind \in {"inf", "url", "tag"}
               /\ \A i \in 1 .. Len(lines) :
                    lines[i].kind = "url" => lines[i].url[2] = "whole" \/ i = Len(lines)
  BY <1>2, LinesReadFacts
<1> HIDE DEF lines
<1>4. \A q \in DOMAIN found : \E i \in DOMAIN lines :
        lines[i].kind = "url" /\ lines[i].url = found[q] /\ C!NameOf(lines, i) = q
  <2>1. DOMAIN lines = 1 .. Len(lines) /\ lines \in Seq(L)
    BY <1>3, LenProperties
  <2>2. \A i \in 1 .. Len(lines) : lines[i].kind \in {"inf", "url", "tag"}
    BY <1>3
  <2> QED
    BY <2>1, <2>2, ParsedResolves
<1> HIDE DEF found
<1>5. quals \in Seq(C!ToSet(Names) \cap DOMAIN found)
  <2>1. Names \in Seq(C!ToSet(Names))
    BY PartAssumptions DEF C!ChannelTabAssumption
  <2> QED
    BY <2>1, KeepIsFolding
<1> HIDE DEF quals
<1>6. /\ DOMAIN original' = {C!StandardizeQualityName(quals[i]) : i \in 1 .. Len(quals)}
      /\ \A s \in DOMAIN original' :
           original'[s] \in DOMAIN found /\ C!StandardizeQualityName(original'[s]) = s
  BY <1>1, <1>5, OriginalOfStandard
<1>7. \A i \in DOMAIN listed' : listed'[i] \in DOMAIN original'
  <2>1. listed' \in Seq(DOMAIN original')
    BY <1>1, <1>5, <1>6, SortedAreStandard
  <2> QED
    BY <2>1, LenProperties, ElementOfSeq
<1>8. C!WatchPlaysChoice'
  BY <1>1, <1>2 DEF C!WatchPlaysChoice
<1>9. \A i \in DOMAIN served' :
        served'[i].kind = "url" => served'[i].url[2] = "whole" \/ i = Len(served')
  <2>1. DOMAIN lines = 1 .. Len(lines)
    BY <1>3, LenProperties
  <2> QED
    BY <1>1, <1>3, <2>1
<1> QED
  BY <1>1, <1>4, <1>6, <1>7, <1>8, <1>9 DEF ListInv

\* Watch takes the URL the entry of the list leads to.
LEMMA WatchStreamKeeps ==
  ASSUME ListInv, NEW i \in DOMAIN listed, C!WatchStream(i)
  PROVE  ListInv'
<1> DEFINE s == listed[i]
           q == original[s]
<1>1. s \in DOMAIN original /\ q \in DOMAIN urls /\ C!StandardizeQualityName(q) = s
  BY DEF ListInv
<1>2. /\ at = "idle" /\ playing' = << s, urls[q] >>
      /\ UNCHANGED << urls, listed, original, served, at, result >>
  BY <1>1 DEF C!WatchStream, C!call
<1>3. PICK j \in DOMAIN served :
        served[j].kind = "url" /\ served[j].url = urls[q] /\ C!NameOf(served, j) = q
  BY <1>1 DEF ListInv
<1>4. C!WatchPlaysChoice'
  <2>1. playing'[1] = s /\ playing'[2] = urls[q] /\ served' = served
    BY <1>2
  <2>2. urls[q][2] = "whole" \/ j = Len(served)
    BY <1>3 DEF ListInv
  <2> QED
    BY <1>1, <1>3, <2>1, <2>2 DEF C!WatchPlaysChoice
<1> QED
  BY <1>2, <1>4 DEF ListInv

\* What is read of a playlist is a beginning of one.
LEMMA ReadingKeeps ==
  ASSUME ListInv, C!ReadData \/ C!ReadEnd \/ C!SendRequest
  PROVE  ListInv'
<1>1. UNCHANGED << playing, urls, listed, original, served, at >>
  BY DEF C!ReadData, C!ReadEnd, C!SendRequest, C!tab
<1>2. ASSUME at = "playlist", result' # C!Nothing
      PROVE  /\ result' = [reply |-> result'.reply, have |-> result'.have]
             /\ result'.reply \in Playlists /\ result'.have \in 0 .. 2 * Len(result'.reply)
  <2>1. CASE C!SendRequest
    <3>1. PICK r \in Playlists : result' = [reply |-> r, have |-> 0]
      BY <1>2, <2>1 DEF C!SendRequest, C!Replies
    <3>2. Len(r) \in Nat
      BY PartAssumptions, LenProperties DEF C!ChannelTabAssumption
    <3> QED
      BY <3>1, <3>2
  <2>2. CASE C!ReadData
    <3>1. result.have < 2 * Len(result.reply) /\ result' = [result EXCEPT !.have = @ + 1]
      BY <1>2, <2>2 DEF C!ReadData, C!Pieces
    <3>2. result # C!Nothing
      <4>1. Len(<< >>) = 0
        OBVIOUS
      <4> QED
        BY <3>1, <4>1 DEF C!Nothing
    <3>3. /\ result = [reply |-> result.reply, have |-> result.have]
          /\ result.reply \in Playlists /\ result.have \in 0 .. 2 * Len(result.reply)
      BY <1>2, <3>2 DEF ListInv
    <3>4. Len(result.reply) \in Nat
      BY <3>3, PartAssumptions, LenProperties DEF C!ChannelTabAssumption
    <3>5. result'.reply = result.reply /\ result'.have = result.have + 1
      BY <3>1, <3>3
    <3> QED
      BY <3>1, <3>3, <3>4, <3>5
  <2>3. CASE C!ReadEnd
    <3>1. result' = result \/ result' = C!Nothing
      BY <2>3 DEF C!ReadEnd, C!get_http_body
    <3> QED
      BY <1>2, <3>1 DEF ListInv
  <2> QED
    BY <2>1, <2>2, <2>3
<1> QED
  BY <1>1, <1>2 DEF ListInv, C!WatchPlaysChoice

\* A load that goes on, gives up or begins leaves the list alone.
LEMMA AskingKeeps ==
  ASSUME ListInv, at # "idle" \/ playing = << >>,
         UNCHANGED << playing, urls, listed, original, served >>,
         result' = C!Nothing \/ UNCHANGED << at, result >>
  PROVE  ListInv'
BY DEF ListInv, C!WatchPlaysChoice

\* No step of the tab parts the list from what it stands for.
LEMMA ListStep ==
  ASSUME ListInv, C!Next
  PROVE  ListInv'
<1>1. CASE C!OpenHandle \/ C!OpenFails \/ C!SendFails
  <2>1. UNCHANGED << playing, urls, listed, original, served, at >>
    BY <1>1 DEF C!OpenHandle, C!OpenFails, C!SendFails, C!tab
  <2>2. result' = result \/ result' = C!Nothing
    BY <1>1 DEF C!OpenHandle, C!OpenFails, C!SendFails
  <2> QED
    BY <2>1, <2>2 DEF ListInv, C!WatchPlaysChoice
<1>2. CASE C!SendRequest \/ C!ReadData \/ C!ReadEnd
  BY <1>2, ReadingKeeps
<1>3. CASE C!FallBack \/ C!TryLegacy \/ C!GotToken \/ C!NoToken \/ C!NoPlaylist
  <2>1. UNCHANGED << playing, urls, listed, original, served >> /\ result' = C!Nothing
    BY <1>3
    DEF C!FallBack, C!TryLegacy, C!GotToken, C!NoToken, C!NoPlaylist, C!Ask, C!EndLoad, C!tab
  <2>2. at # "idle"
    BY <1>3
    DEF C!FallBack, C!TryLegacy, C!GotToken, C!NoToken, C!NoPlaylist
  <2> QED
    BY <2>1, <2>2, AskingKeeps
<1>4. CASE C!GotPlaylist
  BY <1>4, GotPlaylistKeeps
<1>5. CASE C!LoadChannel
  <2>1. UNCHANGED << playing, urls, listed, original, served >> /\ playing = << >>
    BY <1>5 DEF C!LoadChannel
  <2>2. result' = C!Nothing \/ UNCHANGED << at, result >>
    BY <1>5 DEF C!LoadChannel, C!Ask, C!call
  <2> QED
    BY <2>1, <2>2, AskingKeeps
<1>6. CASE C!StopStream
  <2>1. UNCHANGED << urls, listed, original, served, at, result >> /\ playing' = << >>
    BY <1>6 DEF C!StopStream, C!call
  <2> QED
    BY <2>1 DEF ListInv, C!WatchPlaysChoice
<1>7. ASSUME NEW t, C!TypeChannel(t) PROVE ListInv'
  <2>1. UNCHANGED << playing, urls, listed, original, served, at, result >>
    BY <1>7 DEF C!TypeChannel, C!call
  <2> QED
    BY <2>1 DEF ListInv, C!WatchPlaysChoice
<1>8. ASSUME NEW i \in DOMAIN listed, C!WatchStream(i) PROVE ListInv'
  BY <1>8, WatchStreamKeeps
<1>9. CASE C!ParserFails \/ \E i \in DOMAIN listed : C!WatchLong(i)
  <2>1. UNCHANGED << playing, urls, listed, original, served >> /\ playing = << >> /\ at' = "lost"
    <3>1. UNCHANGED C!tab /\ at' = "lost" /\ (at # "idle" \/ playing = << >>)
      BY <1>9, Zenon DEF C!ParserFails, C!WatchLong
    <3> QED
      BY <3>1 DEF C!tab, ListInv
  <2> QED
    BY <2>1 DEF ListInv, C!WatchPlaysChoice
<1> QED
  BY <1>1, <1>2, <1>3, <1>4, <1>5, <1>6, <1>7, <1>8, <1>9 DEF C!Next

\* In every behaviour of the parts the list of qualities, the names and URLs
\* behind it and the stream that plays are those of one playlist.
THEOREM ListInvariant == PartsSpec => []ListInv
<1>1. PartsInit => ListInv
  <2> SUFFICES ASSUME PartsInit PROVE ListInv
    OBVIOUS
  <2>1. at = "idle" /\ playing = << >> /\ urls = << >> /\ original = << >> /\ listed = << >>
       /\ served = << >>
    BY DEF PartsInit, C!Init
  <2>2. DOMAIN urls = {} /\ DOMAIN original = {} /\ DOMAIN listed = {} /\ DOMAIN served = {}
    BY <2>1
  <2> QED
    BY <2>1, <2>2 DEF ListInv, C!WatchPlaysChoice
<1>2. ListInv /\ [PartsNext]_partsVars => ListInv'
  <2> SUFFICES ASSUME ListInv, [PartsNext]_partsVars PROVE ListInv'
    OBVIOUS
  <2>1. CASE C!Next
    BY <2>1, ListStep
  <2>2. CASE UNCHANGED channelTab
    BY <2>2 DEF channelTab, ListInv, C!WatchPlaysChoice
  <2> QED
    BY <2>1, <2>2 DEF PartsNext, Moves, partsVars
<1> QED
  BY <1>1, <1>2, PTL DEF PartsSpec

\* LoadChannel and WatchStream: every entry of the list leads to a URL of the
\* playlist read last, and a stream that runs plays the URL its entry stands for.
THEOREM ListAlwaysPlays == PartsSpec => []ListPlays
<1>1. ListInv => ListPlays
  BY DEF ListInv, ListPlays, C!ListPlays, C!ListResolves
<1> QED
  BY <1>1, ListInvariant, PTL

(* ------------------------------- playlists ------------------------------- *)

\* PlaylistTiming has a FiniteSetsExt of its own, with the same definition.
LEMMA SameMax == \A s : P!Max(s) = Max(s)
BY DEF P!Max, Max

\* What the parser reads, what it knows meanwhile, and what it hands out.
PlaylistLine ==
  [tag : {"EXTINF"}, value : Nat \cup {-1}] \cup
  [tag : {"PLAYLIST-TYPE"}, value : {"EVENT", "VOD"}] \cup
  [tag : {"TARGETDURATION", "MEDIA-SEQUENCE", "ENDLIST", "DISCONTINUITY",
          "DISCONTINUITY-SEQUENCE", "url"}, value : Nat]
FoundSegment == [url : Nat, number : Nat, duration : Nat, declared : Nat, cut : BOOLEAN]
ParserState ==
  [found : Seq(FoundSegment),
   next : [duration : Nat, declared : Nat, cut : BOOLEAN, timed : BOOLEAN],
   target : Nat, sequence : Nat, live : BOOLEAN, cuts : BOOLEAN]
Segment == [url : Nat, number : Nat, declared : Nat, cut : BOOLEAN, duration : Nat, start : Nat]

Reader == [p \in ParserState \X PlaylistLine |-> P!ParseLine(p[1], p[2])]

LEMMA FoundOneMore ==
  ASSUME NEW s, s \in ParserState, NEW f, f \in Seq(FoundSegment),
         NEW x, x \in [duration : Nat, declared : Nat, cut : BOOLEAN, timed : BOOLEAN],
         NEW d, d = [s EXCEPT !.found = f, !.next = x]
  PROVE  d \in ParserState
BY DEF ParserState

\* A line makes one state of the parser of another.
LEMMA ParseLineType ==
  ASSUME NEW s \in ParserState, NEW l \in PlaylistLine
  PROVE  P!ParseLine(s, l) \in ParserState
<1> USE DEF ParserState, P!ParseLine
<1>1. CASE l.tag = "EXTINF"
  <2>1. l.value \in Nat \cup {-1}
    BY <1>1 DEF PlaylistLine
  <2>2. P!ParseLine(s, l) = P!ParseInfoLine(s, l.value)
    BY <1>1
  <2> DEFINE d == IF l.value = P!Bad THEN s.next.declared ELSE l.value
             t == IF l.value = P!Bad THEN s.target ELSE l.value
  <2>3. d \in Nat /\ t \in Nat
    BY <2>1 DEF P!Bad
  <2> DEFINE next == [duration |-> t, timed |-> TRUE, declared |-> d, cut |-> s.next.cut]
  <2>4. P!ParseLine(s, l) = [s EXCEPT !.next = next]
    BY <2>2 DEF P!ParseInfoLine
  <2>5. next \in [duration : Nat, declared : Nat, cut : BOOLEAN, timed : BOOLEAN]
    BY <2>3
  <2> HIDE DEF next
  <2> QED
    BY <2>4, <2>5, ZenonT(60)
<1>2. CASE l.tag = "url"
  <2>1. l.value \in Nat
    BY <1>2 DEF PlaylistLine
  <2>2. P!ParseLine(s, l) = P!ParseUrl(s, l.value)
    BY <1>2
  <2>3. CASE ~ s.next.timed
    BY <2>2, <2>3 DEF P!ParseUrl
  <2>4. CASE s.next.timed
    <3> DEFINE x == [url |-> l.value, number |-> s.sequence + Len(s.found),
                     duration |-> s.next.duration, declared |-> s.next.declared,
                     cut |-> s.next.cut]
    <3>1. x \in FoundSegment
      BY <2>1, LenProperties DEF FoundSegment
    <3> HIDE DEF x
    <3>2. Append(s.found, x) \in Seq(FoundSegment)
      BY <3>1, AppendProperties
    <3>3. P!ParseLine(s, l) = [s EXCEPT !.found = Append(s.found, x), !.next = P!Fresh]
      BY <2>2, <2>4 DEF P!ParseUrl, x
    <3>4. P!Fresh \in [duration : Nat, declared : Nat, cut : BOOLEAN, timed : BOOLEAN]
      BY DEF P!Fresh
    <3> HIDE DEF ParserState, P!ParseLine
    <3> QED
      BY <3>2, <3>3, <3>4, FoundOneMore
  <2> QED
    BY <2>3, <2>4
<1>3. CASE l.tag = "PLAYLIST-TYPE"
  <2>1. P!ParseLine(s, l) = [s EXCEPT !.live = l.value # "VOD"]
    BY <1>3
  <2>2. (l.value # "VOD") \in BOOLEAN
    OBVIOUS
  <2> DEFINE b == l.value # "VOD"
  <2>3. P!ParseLine(s, l) = [s EXCEPT !.live = b] /\ b \in BOOLEAN
    BY <2>1, <2>2
  <2> HIDE DEF b, P!ParseLine
  <2> QED
    BY <2>3
<1>4. CASE l.tag \notin {"EXTINF", "url", "PLAYLIST-TYPE"}
  <2>1. l.value \in Nat
        /\ l.tag \in {"TARGETDURATION", "MEDIA-SEQUENCE", "ENDLIST", "DISCONTINUITY",
                     "DISCONTINUITY-SEQUENCE"}
    BY <1>4 DEF PlaylistLine
  <2> QED
    BY <2>1
<1> QED
  BY <1>1, <1>2, <1>3, <1>4

\* Reading a line is a step of a fold.
LEMMA ReaderIsStep == IsStep(Reader, ParserState, PlaylistLine)
BY ParseLineType DEF IsStep, Reader

\* Reading a playlist is putting its lines in one after the other.
LEMMA ReadingIsFolding ==
  ASSUME NEW a \in ParserState, NEW s \in Seq(PlaylistLine)
  PROVE  P!FoldLeft(P!ParseLine, a, s) = Folded(Reader, a, s)
<1> DEFINE n == Len(s)
           Is(it) == it = [u \in SUBSET DOMAIN s |->
                             IF u = {} THEN a
                             ELSE P!ParseLine(it[u \ {P!Max(u)}], s[P!Max(u)])]
           c == CHOOSE it : Is(it)
<1>1. P!FoldLeft(P!ParseLine, a, s) = c[DOMAIN s] /\ DOMAIN s = 1 .. n
  BY LenProperties DEF P!FoldLeft, P!MapThenFoldSet
<1>2. \A v \in ParserState, l \in PlaylistLine : Reader[<< v, l >>] = P!ParseLine(v, l)
  BY DEF Reader
<1>3. PICK it : BySetsWithin(it, ParserState, PlaylistLine, Reader, a, s)
  BY ReaderIsStep, FoldedSetsExist
<1>4. Is(it)
  BY <1>1, <1>2, <1>3, SameMax DEF BySetsWithin
<1>5. Is(c)
  BY <1>4
<1> HIDE DEF c
<1>6. c[{}] = a
  BY <1>5
<1>7. ASSUME NEW u \in SUBSET (1 .. n), u # {}, c[u \ {Max(u)}] \in ParserState
      PROVE  c[u] = Reader[<< c[u \ {Max(u)}], s[Max(u)] >>]
  <2>1. s[Max(u)] \in PlaylistLine
    BY <1>3, <1>7 DEF BySetsWithin
  <2>2. c[u] = P!ParseLine(c[u \ {Max(u)}], s[Max(u)])
    BY <1>1, <1>5, <1>7, SameMax
  <2> QED
    BY <1>2, <1>7, <2>1, <2>2
<1>8. c[1 .. n] = Folded(Reader, a, s)
  <2>1. BySets(c, ParserState, Reader, a, s)
    BY <1>6, <1>7 DEF BySets
  <2> QED
    BY <2>1, ReaderIsStep, FoldedBySets
<1> QED
  BY <1>1, <1>8

\* FlattenSeq puts the sequences of a sequence one behind the other.
LEMMA FlatteningIsFolding ==
  ASSUME NEW L, NEW s \in Seq(Seq(L))
  PROVE  LET Join == [p \in Seq(L) \X Seq(L) |-> p[1] \o p[2]]
         IN  IsStep(Join, Seq(L), Seq(L)) /\ P!FlattenSeq(s) = Folded(Join, << >>, s)
<1> DEFINE Join == [p \in Seq(L) \X Seq(L) |-> p[1] \o p[2]]
           n == Len(s)
           Is(it) == it = [i \in 1 .. n |-> IF i = 1 THEN s[i] ELSE it[i - 1] \o s[i]]
           c == CHOOSE it : Is(it)
<1>0. \A v, w \in Seq(L) : v \o w \in Seq(L)
  BY ConcatProperties
<1>1. IsStep(Join, Seq(L), Seq(L)) /\ \A v, w \in Seq(L) : Join[<< v, w >>] = v \o w
  BY <1>0 DEF IsStep
<1> HIDE DEF Join
<1>2. << >> \in Seq(L) /\ n \in Nat /\ \A i \in 1 .. n : s[i] \in Seq(L)
  BY LenProperties, ElementOfSeq
<1>3. PICK f \in [0 .. n -> Seq(L)] : Stages(f, Join, << >>, s) /\ Folded(Join, << >>, s) = f[n]
  <2>1. PICK S, e : S = Seq(L) /\ e = << >>
    OBVIOUS
  <2>2. e \in S /\ IsStep(Join, S, S) /\ s \in Seq(S)
    BY <1>1, <1>2, <2>1
  <2>3. \E f \in [0 .. Len(s) -> S] : Stages(f, Join, e, s) /\ Folded(Join, e, s) = f[Len(s)]
    BY <2>2, FoldedStages
  <2> QED
    BY <2>1, <2>3
<1>4. f[0] = << >> /\ \A i \in 1 .. n : f[i] = f[i - 1] \o s[i] /\ f[i] \in Seq(L)
  <2>1. \A i \in 1 .. n : i - 1 \in 0 .. n /\ i \in 0 .. n
    BY <1>2
  <2> QED
    BY <1>1, <1>2, <1>3, <2>1 DEF Stages
<1>5. CASE n = 0
  <2>1. s = << >> /\ Folded(Join, << >>, s) = << >>
    BY <1>3, <1>4, <1>5, EmptySeq
  <2>2. P!FlattenSeq(s) = s
    BY <1>5 DEF P!FlattenSeq
  <2> QED
    BY <1>1, <2>1, <2>2 DEF Join
<1>6. CASE n # 0
  <2> DEFINE g == [i \in 1 .. n |-> f[i]]
  <2>1. Is(g)
    <3>1. ASSUME NEW i \in 1 .. n PROVE g[i] = IF i = 1 THEN s[i] ELSE g[i - 1] \o s[i]
      <4>1. CASE i = 1
        <5>0. 1 \in 1 .. n /\ 1 - 1 = 0
          BY <4>1
        <5>1. f[1] = << >> \o s[1] /\ s[1] \in Seq(L)
          BY <1>2, <1>4, <5>0
        <5>2. << >> \o s[1] = s[1]
          BY <5>1, ConcatEmptySeq
        <5> QED
          BY <4>1, <5>1, <5>2
      <4>2. CASE i # 1
        <5>1. i - 1 \in 1 .. n
          BY <1>2, <4>2
        <5> QED
          BY <1>4, <4>2, <5>1
      <4> QED
        BY <4>1, <4>2
    <3> QED
      BY <3>1
  <2> HIDE DEF g
  <2>2. Is(c)
    BY <2>1
  <2> HIDE DEF c
  <2>3. P!FlattenSeq(s) = c[n]
    BY <1>6 DEF P!FlattenSeq, c
  <2>4. \A i \in 1 .. n : c[i] = IF i = 1 THEN s[i] ELSE c[i - 1] \o s[i]
    BY <2>2
  <2> DEFINE T == {i \in 0 .. n : i = 0 \/ c[i] = f[i]}
  <2>5. 0 \in T
    BY <1>2
  <2>6. ASSUME NEW i \in 0 .. n, i \in T, i < n PROVE i + 1 \in T
    <3>1. i + 1 \in 1 .. n /\ (i + 1) - 1 = i /\ i + 1 \in 0 .. n
      BY <1>2, <2>6
    <3>2. CASE i = 0
      <4>0. 1 \in 1 .. n /\ 1 - 1 = 0 /\ i + 1 = 1
        BY <3>1, <3>2
      <4>1. c[1] = s[1] /\ f[1] = << >> \o s[1] /\ s[1] \in Seq(L)
        BY <1>2, <1>4, <2>4, <4>0
      <4>2. c[1] = f[1]
        BY <4>1, ConcatEmptySeq
      <4> QED
        BY <3>1, <4>0, <4>2
    <3>3. CASE i # 0
      <4>0. i + 1 # 1 /\ c[i] = f[i]
        BY <2>6, <3>3
      <4>1. c[i + 1] = c[(i + 1) - 1] \o s[i + 1]
        BY <2>4, <3>1, <4>0, Zenon
      <4>2. f[i + 1] = f[(i + 1) - 1] \o s[i + 1]
        BY <1>4, <3>1, Zenon
      <4> QED
        BY <3>1, <4>0, <4>1, <4>2
    <3> QED
      BY <3>2, <3>3
  <2>7. \A i \in 0 .. n : i \in T
    <3> HIDE DEF T
    <3> QED
      BY <1>2, <2>5, <2>6, UpTo
  <2>8. c[n] = f[n]
    BY <1>2, <1>6, <2>7
  <2> QED
    BY <1>1, <1>3, <2>3, <2>8 DEF Join
<1> QED
  BY <1>5, <1>6

\* Putting one or two lines behind others.
LEMMA FewerLines ==
  ASSUME NEW L, NEW s \in Seq(L), NEW x \in L, NEW y \in L
  PROVE  /\ s \o << x >> = Append(s, x) /\ s \o << x, y >> = Append(Append(s, x), y)
         /\ << x >> \o << y >> = << x, y >> /\ Append(s, x) \in Seq(L)
         /\ << >> \o << x, y >> = << x, y >>
<1>1. << x >> \in Seq(L) /\ << y >> \in Seq(L) /\ << x, y >> \in Seq(L)
  OBVIOUS
<1>2. s \o << x >> = Append(s, x) /\ Append(s, x) \in Seq(L)
  BY <1>1, AppendProperties
<1>3. << x >> \o << y >> = << x, y >>
  <2> DEFINE u == << x >>
             v == << y >>
             w == << x, y >>
  <2>1. /\ Len(u) = 1 /\ Len(v) = 1 /\ Len(w) = 2
        /\ u[1] = x /\ v[1] = y /\ w[1] = x /\ w[2] = y
    OBVIOUS
  <2>2. u \in Seq(L) /\ v \in Seq(L) /\ w \in Seq(L)
    BY <1>1
  <2> HIDE DEF u, v, w
  <2>3. /\ u \o v \in Seq(L) /\ Len(u \o v) = 2
        /\ \A i \in 1 .. 2 : (u \o v)[i] = IF i <= 1 THEN u[i] ELSE v[i - 1]
    BY <2>1, <2>2, ConcatProperties, SMTT(30)
  <2>4. \A i \in 1 .. 2 : i = 1 \/ (i = 2 /\ ~(i <= 1) /\ i - 1 = 1)
    OBVIOUS
  <2>5. \A i \in 1 .. 2 : (u \o v)[i] = w[i]
    BY <2>1, <2>3, <2>4
  <2>6. u \o v = w
    BY <2>1, <2>2, <2>3, <2>5, SeqEqual
  <2> QED
    BY <2>6 DEF u, v, w
<1>4. s \o << x, y >> = (s \o << x >>) \o << y >>
  <2>1. (s \o << x >>) \o << y >> = s \o (<< x >> \o << y >>)
    BY <1>1, ConcatAssociative
  <2> QED
    BY <1>3, <2>1, Zenon
<1>5. Append(s, x) \o << y >> = Append(Append(s, x), y)
  BY <1>2
<1>6. << >> \o << x, y >> = << x, y >>
  BY <1>1, ConcatEmptySeq
<1> QED
  BY <1>2, <1>3, <1>4, <1>5, <1>6

StreamType == stream \in Seq([duration : Durations, cut : BOOLEAN])

\* The parser has read the first k of the playlist's segments, the first of them
\* being the stream's segment first, and nothing of the next one, unless the
\* playlist counts the discontinuities gone by (n): that marks the first.
HasRead(v, first, k, n) ==
  /\ v \in ParserState /\ v.sequence = first /\ Len(v.found) = k
  /\ v.next = IF k = 0 /\ n THEN [P!Fresh EXCEPT !.cut = TRUE] ELSE P!Fresh
  /\ \A j \in 1 .. k : /\ v.found[j].url = first + j - 1 /\ v.found[j].number = first + j - 1
                       /\ v.found[j].cut = IF j = 1 /\ n THEN TRUE ELSE stream[first + j].cut

\* The lines of the stream's segment i, counted from 1.
SegmentLines(i) ==
  (IF stream[i].cut THEN << P!Tag("DISCONTINUITY", 0) >> ELSE << >>)
  \o << P!Tag("EXTINF", stream[i].duration), P!Tag("url", i - 1) >>

\* The tags of a playlist are lines of one.
LEMMA TagTypes ==
  /\ \A t \in {"TARGETDURATION", "MEDIA-SEQUENCE", "ENDLIST", "DISCONTINUITY",
              "DISCONTINUITY-SEQUENCE", "url"}, n \in Nat : P!Tag(t, n) \in PlaylistLine
  /\ \A n \in {"EVENT", "VOD"} : P!Tag("PLAYLIST-TYPE", n) \in PlaylistLine
  /\ \A n \in Nat \cup {-1} : P!Tag("EXTINF", n) \in PlaylistLine
BY DEF P!Tag, PlaylistLine

\* Reading the lines of the next segment.
LEMMA SegmentRead ==
  ASSUME StreamType, NEW v, NEW first \in Nat, NEW k \in Nat, first + k + 1 \in 1 .. Len(stream),
         NEW n \in BOOLEAN, HasRead(v, first, k, n), NEW b \in BOOLEAN, b = stream[first + k + 1].cut,
         NEW x, x = IF b THEN P!ParseLine(v, P!Tag("DISCONTINUITY", 0)) ELSE v
  PROVE  HasRead(P!ParseLine(P!ParseLine(x, P!Tag("EXTINF", stream[first + k + 1].duration)),
                             P!Tag("url", first + k)), first, k + 1, n)
<1> DEFINE c == IF k = 0 /\ n THEN TRUE ELSE b
           d == stream[first + k + 1].duration
           y == P!ParseLine(x, P!Tag("EXTINF", d))
           z == P!ParseLine(y, P!Tag("url", first + k))
<1>1. d \in Nat \cup {-1}
  <2>1. stream[first + k + 1] \in [duration : Durations, cut : BOOLEAN]
    BY ElementOfSeq DEF StreamType
  <2> QED
    BY <2>1, PartAssumptions DEF P!TimingAssumption
<1> HIDE DEF d
<1>2. /\ v \in ParserState /\ v.sequence = first /\ Len(v.found) = k
      /\ v.next.cut = (k = 0 /\ n)
  <2>1. P!Fresh.cut = FALSE /\ [P!Fresh EXCEPT !.cut = TRUE].cut = TRUE
    BY DEF P!Fresh
  <2> QED
    BY <2>1 DEF HasRead
<1>3. /\ x \in ParserState /\ x.sequence = first /\ x.found = v.found
      /\ x.next.cut = c
  <2>1. CASE b
    <3>1. P!ParseLine(v, P!Tag("DISCONTINUITY", 0)) = [v EXCEPT !.cuts = TRUE, !.next.cut = TRUE]
      BY DEF P!ParseLine, P!Tag
    <3>2. x \in ParserState
      BY <1>2, <2>1, ParseLineType, TagTypes
    <3>3. x = [v EXCEPT !.cuts = TRUE, !.next.cut = TRUE]
      BY <2>1, <3>1
    <3>4. x.sequence = v.sequence /\ x.found = v.found /\ x.next.cut = TRUE
      BY <1>2, <3>3 DEF ParserState
    <3> QED
      BY <1>2, <2>1, <3>2, <3>4
  <2>2. CASE ~b
    <3>1. x = v /\ c = (k = 0 /\ n)
      BY <2>2
    <3> QED
      BY <1>2, <3>1
  <2> QED
    BY <2>1, <2>2
<1>4. /\ y \in ParserState /\ y.sequence = first /\ y.found = v.found
      /\ y.next.timed = TRUE /\ y.next.cut = c
  <2>1. y \in ParserState
    BY <1>1, <1>3, ParseLineType, TagTypes
  <2>2. y = P!ParseInfoLine(x, d)
    BY DEF P!ParseLine, P!Tag
  <2>4. y.sequence = x.sequence /\ y.found = x.found /\ y.next.timed = TRUE /\ y.next.cut = x.next.cut
    BY <1>3, <2>2 DEF P!ParseInfoLine, ParserState
  <2> QED
    BY <1>3, <2>1, <2>4
<1>c. c \in BOOLEAN
  OBVIOUS
<1> HIDE DEF y, c
<1> DEFINE e == [url |-> first + k, number |-> y.sequence + Len(y.found),
                 duration |-> y.next.duration, declared |-> y.next.declared, cut |-> y.next.cut]
<1>5. z \in ParserState
  BY <1>4, ParseLineType, TagTypes
<1>6. z = [y EXCEPT !.found = Append(y.found, e), !.next = P!Fresh]
  BY <1>4 DEF P!ParseLine, P!Tag, P!ParseUrl
<1>7. e.url = first + k /\ e.number = first + k /\ e.cut = c
  BY <1>2, <1>4
<1>8. e \in FoundSegment
  BY <1>2, <1>4, <1>c DEF FoundSegment, ParserState
<1> HIDE DEF e
<1>9. z.sequence = first /\ z.found = Append(v.found, e) /\ z.next = P!Fresh
  BY <1>4, <1>6 DEF ParserState
<1>10. /\ Len(z.found) = k + 1 /\ z.found[k + 1] = e
       /\ \A j \in 1 .. k : z.found[j] = v.found[j]
  <2>1. v.found \in Seq(FoundSegment)
    BY <1>2 DEF ParserState
  <2> QED
    BY <1>2, <1>8, <1>9, <2>1, AppendProperties
<1>11. ASSUME NEW j \in 1 .. k + 1
       PROVE  /\ z.found[j].url = first + j - 1 /\ z.found[j].number = first + j - 1
              /\ z.found[j].cut = IF j = 1 /\ n THEN TRUE ELSE stream[first + j].cut
  <2>1. CASE j = k + 1
    <3>1. first + j - 1 = first + k /\ first + j = first + k + 1
      BY <2>1
    <3>2. c = IF j = 1 /\ n THEN TRUE ELSE stream[first + j].cut
      <4>1. (j = 1) <=> (k = 0)
        BY <2>1
      <4>2. CASE k = 0 /\ n
        BY <4>1, <4>2 DEF c
      <4>3. CASE ~(k = 0 /\ n)
        BY <3>1, <4>1, <4>3 DEF c
      <4> QED
        BY <4>2, <4>3
    <3> QED
      BY <1>7, <1>10, <2>1, <3>1, <3>2
  <2>2. CASE j # k + 1
    <3>1. j \in 1 .. k
      BY <2>2
    <3> QED
      BY <1>10, <3>1 DEF HasRead
  <2> QED
    BY <2>1, <2>2
<1> HIDE DEF z
<1>12. HasRead(z, first, k + 1, n)
  <2>1. k + 1 # 0
    OBVIOUS
  <2>2. z.next = IF k + 1 = 0 /\ n THEN [P!Fresh EXCEPT !.cut = TRUE] ELSE P!Fresh
    BY <1>9, <2>1
  <2> QED
    BY <1>5, <1>9, <1>10, <1>11, <2>2 DEF HasRead
<1> QED
  BY <1>12 DEF z, y, d

\* Lines that are not about a segment change nothing the segments depend on.
LEMMA OtherLineRead ==
  ASSUME NEW v, NEW first \in Nat, NEW k \in Nat, NEW n \in BOOLEAN, HasRead(v, first, k, n)
  PROVE  /\ HasRead(P!ParseLine(v, P!Tag("TARGETDURATION", Target)), first, k, n)
         /\ HasRead(P!ParseLine(v, P!Tag("ENDLIST", 0)), first, k, n)
         /\ \A type \in {"EVENT", "VOD"} :
              HasRead(P!ParseLine(v, P!Tag("PLAYLIST-TYPE", type)), first, k, n)
<1>1. v \in ParserState /\ Target \in Nat
  BY PartAssumptions DEF HasRead, P!TimingAssumption
<1>2. ASSUME NEW l, \/ l = P!Tag("TARGETDURATION", Target) \/ l = P!Tag("ENDLIST", 0)
                    \/ \E type \in {"EVENT", "VOD"} : l = P!Tag("PLAYLIST-TYPE", type)
      PROVE  HasRead(P!ParseLine(v, l), first, k, n)
  <2>1. l \in PlaylistLine
    BY <1>1, <1>2, TagTypes
  <2>2. P!ParseLine(v, l) \in ParserState
    BY <1>1, <2>1, ParseLineType
  <2>3. \/ P!ParseLine(v, l) = [v EXCEPT !.target = l.value] \/ P!ParseLine(v, l) = [v EXCEPT !.live = FALSE]
        \/ P!ParseLine(v, l) = [v EXCEPT !.live = l.value # "VOD"]
    BY <1>2 DEF P!ParseLine, P!Tag
  <2>4. /\ P!ParseLine(v, l).sequence = v.sequence /\ P!ParseLine(v, l).next = v.next
        /\ P!ParseLine(v, l).found = v.found
    BY <1>1, <2>3 DEF ParserState
  <2> QED
    BY <2>2, <2>4 DEF HasRead
<1> QED
  BY <1>2

\* The parser finds exactly the segments that are in the playlist.
LEMMA PlaylistRead ==
  ASSUME StreamType, NEW first \in 0 .. Len(stream), first + Window >= Len(stream),
         NEW h \in P!Heads(first), closed \in BOOLEAN,
         NEW a \in ParserState, a.found = << >>, a.next = P!Fresh
  PROVE  HasRead(P!FoldLeft(P!ParseLine, a, P!Playlist(first, h)), first, Len(stream) - first,
                 h.numbered)
<1> DEFINE m == Len(stream) - first
           head == << P!Tag("TARGETDURATION", Target) >>
           media == P!Tag("MEDIA-SEQUENCE", first)
           early == h.early
           n == h.numbered
           pre0 == (IF early THEN head ELSE << >>) \o << media >>
           kind == P!Tag("PLAYLIST-TYPE", h.type)
           gone == P!Tag("DISCONTINUITY-SEQUENCE", 0)
           pre1 == pre0 \o (IF h.type = "none" THEN << >> ELSE << kind >>)
           pre == pre1 \o (IF n THEN << gone >> ELSE << >>)
           seqs == [i \in 1 .. m |-> SegmentLines(first + i)]
           flat == P!FlattenSeq(seqs)
           whole1 == (pre \o flat) \o (IF early THEN << >> ELSE head)
           whole2 == whole1 \o (IF closed THEN << P!Tag("ENDLIST", 0) >> ELSE << >>)
           F(s) == Folded(Reader, a, s)
<1>1. /\ Len(stream) \in Nat /\ first \in Nat /\ m \in Nat /\ Target \in Nat /\ Window \in Nat
      /\ \A i \in 1 .. m : first + i \in 1 .. Len(stream)
  BY PartAssumptions, LenProperties DEF StreamType, P!TimingAssumption
<1>2. P!Playlist(first, h) = whole2
  <2>1. (IF first + Window < Len(stream) THEN first + Window ELSE Len(stream)) = Len(stream)
    BY <1>1
  <2> QED
    BY <2>1 DEF P!Playlist, SegmentLines
<1>3. /\ media \in PlaylistLine /\ P!Tag("TARGETDURATION", Target) \in PlaylistLine
      /\ P!Tag("ENDLIST", 0) \in PlaylistLine /\ P!Tag("DISCONTINUITY", 0) \in PlaylistLine
  BY <1>1, TagTypes
<1>4. ASSUME NEW i \in 1 .. m
      PROVE  /\ P!Tag("EXTINF", stream[first + i].duration) \in PlaylistLine
             /\ P!Tag("url", first + i - 1) \in PlaylistLine
             /\ stream[first + i].cut \in BOOLEAN
             /\ SegmentLines(first + i) \in Seq(PlaylistLine)
  <2>1. stream[first + i] \in [duration : Durations, cut : BOOLEAN]
    BY <1>1, ElementOfSeq DEF StreamType
  <2>2. stream[first + i].duration \in Nat \cup {-1} /\ stream[first + i].cut \in BOOLEAN
    BY <2>1, PartAssumptions DEF P!TimingAssumption
  <2>3. first + i - 1 \in Nat
    BY <1>1
  <2>4. /\ P!Tag("EXTINF", stream[first + i].duration) \in PlaylistLine
        /\ P!Tag("url", first + i - 1) \in PlaylistLine
    BY <2>2, <2>3, TagTypes
  <2> DEFINE e == P!Tag("EXTINF", stream[first + i].duration)
             u == P!Tag("url", first + i - 1)
             c == IF stream[first + i].cut THEN << P!Tag("DISCONTINUITY", 0) >> ELSE << >>
  <2>5. << e, u >> \in Seq(PlaylistLine) /\ c \in Seq(PlaylistLine)
    BY <1>3, <2>4
  <2> HIDE DEF c, e, u
  <2>6. c \o << e, u >> \in Seq(PlaylistLine)
    BY <2>5, ConcatProperties
  <2> QED
    BY <2>2, <2>4, <2>6 DEF SegmentLines, c, e, u
<1> DEFINE Join == [p \in Seq(PlaylistLine) \X Seq(PlaylistLine) |-> p[1] \o p[2]]
<1>5. seqs \in Seq(Seq(PlaylistLine)) /\ Len(seqs) = m /\ \A i \in 1 .. m : seqs[i] = SegmentLines(first + i)
  <2>1. \A i \in 1 .. m : SegmentLines(first + i) \in Seq(PlaylistLine)
    BY <1>4
  <2>2. seqs \in [1 .. m -> Seq(PlaylistLine)]
    BY <2>1
  <2>3. seqs \in Seq(Seq(PlaylistLine)) /\ Len(seqs) = m
    <3> HIDE DEF seqs, m
    <3> QED
      BY <1>1, <2>2
  <2> QED
    BY <2>3
<1>6. IsStep(Join, Seq(PlaylistLine), Seq(PlaylistLine)) /\ flat = Folded(Join, << >>, seqs)
  BY <1>5, FlatteningIsFolding
<1>7. \A v, w \in Seq(PlaylistLine) : Join[<< v, w >>] = v \o w
  OBVIOUS
<1> HIDE DEF Join, seqs, flat
<1>8. PICK f \in [0 .. m -> Seq(PlaylistLine)] : Stages(f, Join, << >>, seqs) /\ flat = f[m]
  <2>1. << >> \in Seq(PlaylistLine)
    OBVIOUS
  <2> DEFINE Ls == Seq(PlaylistLine)
  <2> HIDE DEF Ls
  <2>3. << >> \in Ls /\ IsStep(Join, Ls, Ls) /\ seqs \in Seq(Ls)
    BY <1>5, <1>6, <2>1 DEF Ls
  <2>2. \E f \in [0 .. Len(seqs) -> Ls] :
          Stages(f, Join, << >>, seqs) /\ Folded(Join, << >>, seqs) = f[Len(seqs)]
    BY <2>3, FoldedStages
  <2> QED
    BY <1>5, <1>6, <2>2 DEF Ls
<1>9. /\ \A s \in Seq(PlaylistLine), e \in PlaylistLine :
           F(Append(s, e)) = P!ParseLine(F(s), e) /\ F(s) \in ParserState
      /\ F(<< >>) = a
  <2>1. \A v \in ParserState, l \in PlaylistLine : Reader[<< v, l >>] = P!ParseLine(v, l)
    BY DEF Reader
  <2>2. << >> \in Seq(PlaylistLine)
    OBVIOUS
  <2>3. F(<< >>) = a
    BY <2>2, ReaderIsStep, FoldedSteps, SMTT(30)
  <2>4. ASSUME NEW s \in Seq(PlaylistLine), NEW e \in PlaylistLine
        PROVE  F(Append(s, e)) = P!ParseLine(F(s), e) /\ F(s) \in ParserState
    <3>1. F(s) \in ParserState /\ F(Append(s, e)) = Reader[<< F(s), e >>]
      BY ReaderIsStep, FoldedSteps
    <3> QED
      BY <2>1, <3>1
  <2> QED
    BY <2>3, <2>4
<1> HIDE DEF F, media
<1>10a. pre0 \in Seq(PlaylistLine) /\ HasRead(F(pre0), first, 0, FALSE)
  <2>0. << >> \in Seq(PlaylistLine) /\ head \in Seq(PlaylistLine) /\ << media >> \in Seq(PlaylistLine)
    BY <1>3
  <2>1. ASSUME NEW v \in ParserState, v.found = << >>, v.next = P!Fresh
        PROVE  HasRead(P!ParseLine(v, media), first, 0, FALSE)
    <3>1. P!ParseLine(v, media) \in ParserState
      BY <1>3, ParseLineType
    <3>2. P!ParseLine(v, media) = [v EXCEPT !.sequence = first]
      BY DEF P!ParseLine, P!Tag, media
    <3>3. /\ P!ParseLine(v, media).sequence = first /\ P!ParseLine(v, media).found = << >>
          /\ P!ParseLine(v, media).next = P!Fresh
      BY <2>1, <3>2 DEF ParserState
    <3> QED
      BY <3>1, <3>3 DEF HasRead
  <2>2. CASE early
    <3> DEFINE t == P!Tag("TARGETDURATION", Target)
    <3>1. t \in PlaylistLine
      BY <1>3
    <3>2. P!ParseLine(a, t) \in ParserState
      BY <3>1, ParseLineType
    <3>3. P!ParseLine(a, t) = [a EXCEPT !.target = Target]
      BY DEF P!ParseLine, P!Tag
    <3>4. P!ParseLine(a, t).found = << >> /\ P!ParseLine(a, t).next = P!Fresh
      BY <3>3 DEF ParserState
    <3> HIDE DEF t
    <3>5. << t >> = Append(<< >>, t) /\ << t >> \in Seq(PlaylistLine)
      BY <3>1
    <3>6. F(<< t >>) = P!ParseLine(a, t)
      BY <1>9, <2>0, <3>1, <3>5
    <3>7. pre0 = Append(<< t >>, media) /\ pre0 \in Seq(PlaylistLine)
      BY <1>3, <2>2, <3>5, FewerLines DEF t
    <3>8. F(pre0) = P!ParseLine(P!ParseLine(a, t), media)
      BY <1>3, <1>9, <3>5, <3>6, <3>7
    <3> QED
      BY <2>1, <3>2, <3>4, <3>7, <3>8
  <2>3. CASE ~early
    <3>1. pre0 = << media >> /\ << media >> = Append(<< >>, media)
      BY <2>0, <2>3, ConcatEmptySeq
    <3>2. F(pre0) = P!ParseLine(a, media)
      BY <1>3, <1>9, <2>0, <3>1
    <3> QED
      BY <2>0, <2>1, <3>1, <3>2
  <2> QED
    BY <2>2, <2>3
<1> HIDE DEF pre0
<1>h. /\ early \in BOOLEAN /\ n \in BOOLEAN /\ h.type \in {"none", "EVENT", "VOD"}
      /\ (h.type # "none" => kind \in PlaylistLine) /\ gone \in PlaylistLine
  BY TagTypes DEF P!Heads
<1>10b. pre1 \in Seq(PlaylistLine) /\ HasRead(F(pre1), first, 0, FALSE)
  <2>1. CASE h.type = "none"
    <3>1. pre1 = pre0
      BY <1>10a, <2>1, ConcatEmptySeq
    <3> QED
      BY <1>10a, <3>1
  <2>2. CASE h.type # "none"
    <3>1. pre1 = Append(pre0, kind) /\ pre1 \in Seq(PlaylistLine)
      BY <1>10a, <1>h, <2>2, FewerLines
    <3>2. F(pre1) = P!ParseLine(F(pre0), kind)
      BY <1>9, <1>10a, <1>h, <2>2, <3>1
    <3>3. h.type \in {"EVENT", "VOD"}
      BY <1>h, <2>2
    <3> QED
      BY <1>1, <1>10a, <3>1, <3>2, <3>3, OtherLineRead
  <2> QED
    BY <2>1, <2>2
<1> HIDE DEF pre1, kind
<1>10. pre \in Seq(PlaylistLine) /\ HasRead(F(pre), first, 0, n)
  <2>1. CASE ~n
    <3>1. pre = pre1 /\ n = FALSE
      BY <1>10b, <1>h, <2>1, ConcatEmptySeq
    <3> QED
      BY <1>10b, <3>1
  <2>2. CASE n
    <3>1. pre = Append(pre1, gone) /\ pre \in Seq(PlaylistLine)
      BY <1>10b, <1>h, <2>2, FewerLines
    <3>2. F(pre) = P!ParseLine(F(pre1), gone)
      BY <1>9, <1>10b, <1>h, <3>1
    <3> DEFINE v == F(pre1)
    <3>3. v \in ParserState /\ v.next = P!Fresh /\ v.sequence = first /\ Len(v.found) = 0
      BY <1>10b DEF HasRead
    <3>4. P!ParseLine(v, gone) \in ParserState
      BY <1>h, <3>3, ParseLineType
    <3>5. P!ParseLine(v, gone) = [v EXCEPT !.cuts = TRUE, !.next.cut = TRUE]
      BY DEF P!ParseLine, P!Tag, gone
    <3> HIDE DEF v
    <3>6. /\ P!ParseLine(v, gone).sequence = first /\ P!ParseLine(v, gone).found = v.found
          /\ P!ParseLine(v, gone).next = [P!Fresh EXCEPT !.cut = TRUE]
      BY <3>3, <3>5 DEF ParserState
    <3>7. HasRead(P!ParseLine(v, gone), first, 0, TRUE)
      BY <3>3, <3>4, <3>6 DEF HasRead
    <3> QED
      BY <1>h, <2>2, <3>1, <3>2, <3>7 DEF v
  <2> QED
    BY <1>h, <2>1, <2>2
<1> HIDE DEF gone
<1> HIDE DEF pre
<1> DEFINE T == {k \in 0 .. m : HasRead(F(pre \o f[k]), first, k, n)}
<1>11. 0 \in T
  <2>1. f[0] = << >> /\ pre \o f[0] = pre
    BY <1>8, <1>10, ConcatEmptySeq DEF Stages
  <2>2. 0 \in 0 .. m
    BY <1>1
  <2> QED
    BY <1>10, <2>1, <2>2
<1>12. ASSUME NEW k \in 0 .. m, k \in T, k < m PROVE k + 1 \in T
  <2>1. /\ k + 1 \in 1 .. m /\ (k + 1) - 1 = k /\ k + 1 \in 0 .. m /\ k \in Nat
        /\ first + (k + 1) = first + k + 1 /\ first + (k + 1) - 1 = first + k
    BY <1>1, <1>12
  <2> DEFINE i == first + k + 1
             d == P!Tag("DISCONTINUITY", 0)
             e == P!Tag("EXTINF", stream[i].duration)
             u == P!Tag("url", first + k)
             s == pre \o f[k]
             b == stream[i].cut
  <2>2. /\ d \in PlaylistLine /\ e \in PlaylistLine /\ u \in PlaylistLine /\ b \in BOOLEAN
        /\ SegmentLines(i) \in Seq(PlaylistLine)
    BY <1>3, <1>4, <2>1
  <2>3. f[k] \in Seq(PlaylistLine) /\ f[k + 1] = f[k] \o SegmentLines(i)
    BY <1>5, <1>7, <1>8, <2>1, <2>2, ZenonT(60) DEF Stages
  <2>4. s \in Seq(PlaylistLine) /\ pre \o f[k + 1] = s \o SegmentLines(i)
    <3>1. s \in Seq(PlaylistLine)
      BY <1>10, <2>3, ConcatProperties
    <3>2. pre \in Seq(PlaylistLine)
      BY <1>10
    <3>3. ASSUME NEW q \in Seq(PlaylistLine), NEW g \in Seq(PlaylistLine)
          PROVE  (pre \o q) \o g = pre \o (q \o g)
      BY ONLY <3>2, ConcatAssociative, q \in Seq(PlaylistLine), g \in Seq(PlaylistLine), SMTT(30)
    <3> QED
      BY <2>2, <2>3, <3>1, <3>3
  <2>5. SegmentLines(i) = (IF b THEN << d >> ELSE << >>) \o << e, u >>
    BY <2>1 DEF SegmentLines
  <2>6. HasRead(F(s), first, k, n)
    BY <1>12
  <2>7. i \in 1 .. Len(stream)
    BY <1>1, <2>1
  <2> DEFINE x == IF b THEN P!ParseLine(F(s), d) ELSE F(s)
  <2>8. HasRead(P!ParseLine(P!ParseLine(x, e), u), first, k + 1, n)
    BY <1>1, <1>h, <2>1, <2>2, <2>6, <2>7, SegmentRead
  <2> HIDE DEF s, d, e, u, b
  <2>9. s \o SegmentLines(i) = (IF b THEN Append(s, d) ELSE s) \o << e, u >>
    <3>1. CASE b
      <4>1. << d >> \in Seq(PlaylistLine) /\ << e, u >> \in Seq(PlaylistLine)
        BY <2>2
      <4>2. s \o (<< d >> \o << e, u >>) = (s \o << d >>) \o << e, u >>
        BY <2>4, <4>1, ConcatAssociative, SMTT(30)
      <4>3. s \o << d >> = Append(s, d)
        BY <2>2, <2>4, FewerLines
      <4> QED
        BY <2>5, <3>1, <4>2, <4>3
    <3>2. CASE ~b
      <4>1. SegmentLines(i) = << e, u >>
        BY <2>2, <2>5, <3>2, FewerLines
      <4> QED
        BY <3>2, <4>1
    <3> QED
      BY <3>1, <3>2
  <2> DEFINE r == IF b THEN Append(s, d) ELSE s
  <2>10. r \in Seq(PlaylistLine) /\ F(r) = x
    BY <1>9, <2>2, <2>4, FewerLines
  <2> HIDE DEF r, x
  <2>11. /\ r \o << e, u >> = Append(Append(r, e), u) /\ Append(r, e) \in Seq(PlaylistLine)
    BY <2>2, <2>10, FewerLines
  <2>12. F(Append(Append(r, e), u)) = P!ParseLine(P!ParseLine(x, e), u)
    BY <1>9, <2>2, <2>10, <2>11
  <2>13. pre \o f[k + 1] = Append(Append(r, e), u)
    BY <2>4, <2>9, <2>11 DEF r
  <2>14. HasRead(F(pre \o f[k + 1]), first, k + 1, n)
    BY <2>8, <2>12, <2>13
  <2> QED
    BY <2>1, <2>14
<1>13. HasRead(F(pre \o flat), first, m, n) /\ flat \in Seq(PlaylistLine)
  <2>1. \A k \in 0 .. m : k \in T
    <3> HIDE DEF T
    <3> QED
      BY <1>1, <1>11, <1>12, UpTo
  <2>2. m \in 0 .. m
    BY <1>1
  <2> QED
    BY <1>8, <2>1, <2>2
<1> HIDE DEF m, n, early
<1>14. whole1 \in Seq(PlaylistLine) /\ HasRead(F(whole1), first, m, n)
  <2>1. pre \o flat \in Seq(PlaylistLine)
    BY <1>10, <1>13, ConcatProperties
  <2>2. CASE early
    <3>1. whole1 = pre \o flat
      BY <2>1, <2>2, ConcatEmptySeq
    <3> QED
      BY <1>13, <2>1, <3>1
  <2>3. CASE ~early
    <3> DEFINE t == P!Tag("TARGETDURATION", Target)
    <3>1. whole1 = Append(pre \o flat, t) /\ whole1 \in Seq(PlaylistLine)
      BY <1>3, <2>1, <2>3, FewerLines
    <3>2. F(whole1) = P!ParseLine(F(pre \o flat), t)
      BY <1>3, <1>9, <2>1, <3>1
    <3> QED
      BY <1>1, <1>13, <1>h, <3>1, <3>2, OtherLineRead
  <2> QED
    BY <2>2, <2>3
<1> HIDE DEF whole1
<1>15. whole2 \in Seq(PlaylistLine) /\ HasRead(F(whole2), first, m, n)
  <2>1. CASE ~closed
    <3>1. whole2 = whole1
      BY <1>14, <2>1, ConcatEmptySeq
    <3> QED
      BY <1>14, <3>1
  <2>2. CASE closed
    <3> DEFINE t == P!Tag("ENDLIST", 0)
    <3>1. whole2 = Append(whole1, t) /\ whole2 \in Seq(PlaylistLine)
      BY <1>3, <1>14, <2>2, FewerLines
    <3>2. F(whole2) = P!ParseLine(F(whole1), t)
      BY <1>3, <1>9, <1>14, <3>1
    <3> QED
      BY <1>1, <1>14, <3>1, <3>2, <1>h, OtherLineRead DEF m
  <2> QED
    BY <2>1, <2>2
<1> HIDE DEF whole2
<1>16. P!FoldLeft(P!ParseLine, a, whole2) = F(whole2)
  BY <1>15, ReadingIsFolding DEF F
<1> QED
  BY <1>2, <1>15, <1>16 DEF m, n

Adder(field) == [p \in Nat \X Segment |-> p[1] + p[2][field]]

LEMMA AdderIsStep ==
  ASSUME NEW field \in {"declared", "duration"}
  PROVE  IsStep(Adder(field), Nat, Segment)
<1>1. \A x \in Segment : x[field] \in Nat
  BY DEF Segment
<1> QED
  BY <1>1 DEF Adder, IsStep

\* Adding up a field of the segments.
LEMMA AddingIsFolding ==
  ASSUME NEW field \in {"declared", "duration"}, NEW s \in Seq(Segment)
  PROVE  /\ IsStep(Adder(field), Nat, Segment)
         /\ P!FoldLeft(LAMBDA a, x : a + x[field], 0, s) = Folded(Adder(field), 0, s)
<1> DEFINE n == Len(s)
           G == Adder(field)
           Is(it) == it = [u \in SUBSET DOMAIN s |->
                             IF u = {} THEN 0 ELSE it[u \ {P!Max(u)}] + s[P!Max(u)][field]]
           c == CHOOSE it : Is(it)
<1>0. \A x \in Segment : x[field] \in Nat
  BY DEF Segment
<1>1. P!FoldLeft(LAMBDA a, x : a + x[field], 0, s) = c[DOMAIN s] /\ DOMAIN s = 1 .. n
  BY LenProperties DEF P!FoldLeft, P!MapThenFoldSet
<1>2. IsStep(G, Nat, Segment) /\ \A v \in Nat, x \in Segment : G[<< v, x >>] = v + x[field]
  BY <1>0 DEF Adder, IsStep
<1> HIDE DEF G
<1>3. PICK it : BySetsWithin(it, Nat, Segment, G, 0, s)
  BY <1>2, FoldedSetsExist
<1>4. Is(it)
  BY <1>1, <1>2, <1>3, SameMax DEF BySetsWithin
<1>5. Is(c)
  BY <1>4
<1> HIDE DEF c
<1>6. c[{}] = 0
  BY <1>5
<1>7. ASSUME NEW u \in SUBSET (1 .. n), u # {}, c[u \ {Max(u)}] \in Nat
      PROVE  c[u] = G[<< c[u \ {Max(u)}], s[Max(u)] >>]
  <2>1. s[Max(u)] \in Segment
    BY <1>3, <1>7 DEF BySetsWithin
  <2>2. c[u] = c[u \ {Max(u)}] + s[Max(u)][field]
    BY <1>1, <1>5, <1>7, SameMax
  <2> QED
    BY <1>2, <1>7, <2>1, <2>2
<1>8. c[1 .. n] = Folded(G, 0, s)
  <2> DEFINE N == Nat
             z == 0
  <2>1. BySets(c, N, G, z, s) /\ z \in N /\ IsStep(G, N, Segment)
    BY <1>2, <1>6, <1>7 DEF BySets
  <2> HIDE DEF N, z
  <2>2. c[1 .. Len(s)] = Folded(G, z, s)
    BY <2>1, FoldedBySets
  <2> QED
    BY <2>2 DEF z
<1> QED
  BY <1>1, <1>2, <1>8 DEF G

\* The duration CalculatePreciseTiming hands out.
Precise(x) == IF x.declared > 0 THEN x.declared ELSE x.duration

\* How long the segments before the i-th one play.
PlayedBefore(s, i) == Folded(Adder("duration"), 0, SubSeq(s, 1, i - 1))

\* The timing of the segments found: each starts when those before it have played.
LEMMA TimingAddsUp ==
  ASSUME NEW s \in Seq(FoundSegment), NEW t, t = P!CalculatePreciseTiming(s)
  PROVE  /\ t \in Seq(Segment) /\ Len(t) = Len(s)
         /\ \A i \in 1 .. Len(s) : /\ t[i].url = s[i].url /\ t[i].number = s[i].number
                                   /\ t[i].cut = s[i].cut
                                   /\ t[i].start = PlayedBefore(t, i)
<1> DEFINE n == Len(s)
           G == [p \in Nat \X FoundSegment |-> p[1] + Precise(p[2])]
           Is(it) == it = [i \in 0 .. n |-> IF i < 2 THEN 0 ELSE it[i - 1] + Precise(s[i - 1])]
           start == CHOOSE it : Is(it)
<1>1. /\ n \in Nat /\ DOMAIN s = 1 .. n /\ \A i \in 1 .. n : s[i] \in FoundSegment
      /\ \A x \in FoundSegment : Precise(x) \in Nat
  BY LenProperties, ElementOfSeq DEF FoundSegment, Precise
<1>2. IsStep(G, Nat, FoundSegment) /\ \A v \in Nat, x \in FoundSegment : G[<< v, x >>] = v + Precise(x)
  BY <1>1 DEF IsStep
<1> HIDE DEF G
<1>3. PICK f \in [0 .. n -> Nat] : Stages(f, G, 0, s)
  <2>1. 0 \in Nat
    OBVIOUS
  <2> QED
    BY <1>2, <2>1, FoldedStages, Zenon
<1>4. f[0] = 0 /\ \A i \in 1 .. n : f[i] = f[i - 1] + Precise(s[i]) /\ f[i] \in Nat /\ f[i - 1] \in Nat
  <2>1. \A i \in 1 .. n : i - 1 \in 0 .. n /\ i \in 0 .. n
    BY <1>1
  <2> QED
    BY <1>1, <1>2, <1>3, <2>1 DEF Stages
<1>5. Is([i \in 0 .. n |-> IF i = 0 THEN 0 ELSE f[i - 1]])
  <2> DEFINE g == [i \in 0 .. n |-> IF i = 0 THEN 0 ELSE f[i - 1]]
  <2>1. ASSUME NEW i \in 0 .. n
        PROVE  g[i] = IF i < 2 THEN 0 ELSE g[i - 1] + Precise(s[i - 1])
    <3>1. CASE i = 0
      BY <3>1
    <3>2. CASE i = 1
      BY <1>4, <3>2
    <3>3. CASE i \notin {0, 1}
      <4>1. i - 1 \in 1 .. n /\ i - 1 \in 0 .. n /\ i - 1 # 0 /\ ~(i < 2)
        BY <1>1, <3>3
      <4>2. g[i] = f[i - 1] /\ g[i - 1] = f[(i - 1) - 1]
        BY <3>3, <4>1
      <4> HIDE DEF g
      <4> QED
        BY <1>4, <4>1, <4>2
    <3> QED
      BY <3>1, <3>2, <3>3
  <2> QED
    BY <2>1
<1>6. Is(start)
  BY <1>5
<1> HIDE DEF start
<1>7. \A i \in 0 .. n : start[i] = IF i < 2 THEN 0 ELSE start[i - 1] + Precise(s[i - 1])
  BY <1>6
<1>8. \A i \in 1 .. n : start[i] = f[i - 1]
  <2> DEFINE T == {i \in 0 .. n : i = 0 \/ start[i] = f[i - 1]}
  <2>1. 0 \in T
    BY <1>1
  <2>2. ASSUME NEW i \in 0 .. n, i \in T, i < n PROVE i + 1 \in T
    <3>1. i + 1 \in 0 .. n /\ (i + 1) - 1 = i
      BY <1>1, <2>2
    <3>2. CASE i = 0
      <4>1. start[i + 1] = 0
        BY <1>7, <3>1, <3>2
      <4> QED
        BY <1>4, <3>1, <3>2, <4>1
    <3>3. CASE i # 0
      <4>1. i \in 1 .. n /\ ~(i + 1 < 2) /\ start[i] = f[i - 1]
        BY <1>1, <2>2, <3>3
      <4>2. start[i + 1] = start[i] + Precise(s[i])
        BY <1>7, <3>1, <4>1
      <4>3. f[i] = f[i - 1] + Precise(s[i])
        BY <1>4, <4>1
      <4> QED
        BY <3>1, <4>1, <4>2, <4>3
    <3> QED
      BY <3>2, <3>3
  <2>3. \A i \in 0 .. n : i \in T
    <3> HIDE DEF T
    <3> QED
      BY <1>1, <2>1, <2>2, UpTo
  <2>4. \A i \in 1 .. n : i \in 0 .. n /\ i # 0
    BY <1>1
  <2> QED
    BY <2>3, <2>4
<1> DEFINE r(i) == [url |-> s[i].url, number |-> s[i].number, declared |-> s[i].declared,
                    cut |-> s[i].cut, duration |-> Precise(s[i]), start |-> start[i]]
<1>9. t = [i \in 1 .. n |-> r(i)]
  BY <1>1 DEF P!CalculatePreciseTiming, Precise, start
<1>10. \A i \in 1 .. n : r(i) \in Segment
  BY <1>1, <1>4, <1>8 DEF FoundSegment, Segment
<1>11. t \in Seq(Segment) /\ Len(t) = n /\ \A i \in 1 .. n : t[i] = r(i)
  <2>1. t \in [1 .. n -> Segment]
    BY <1>9, <1>10
  <2>2. \A i \in 1 .. n : t[i] = r(i)
    BY <1>9
  <2> HIDE DEF r, n
  <2> QED
    BY <1>1, <2>1, <2>2
<1>12. ASSUME NEW i \in 1 .. n
       PROVE  t[i].start = PlayedBefore(t, i)
  <2> DEFINE u == SubSeq(t, 1, i - 1)
             A == Adder("duration")
  <2>1. \A j \in 1 .. i - 1 : t[j] \in Segment
    BY <1>1, <1>11, ElementOfSeq
  <2>2. /\ u \in Seq(Segment) /\ Len(u) = IF 1 <= i - 1 THEN i - 1 - 1 + 1 ELSE 0
        /\ \A j \in 1 .. i - 1 - 1 + 1 : u[j] = t[1 + j - 1]
    BY <1>1, <2>1, SubSeqProperties
  <2>3. Len(u) = i - 1 /\ \A j \in 1 .. i - 1 : u[j] = t[j] /\ j \in 1 .. n
    BY <1>1, <2>2
  <2> HIDE DEF u
  <2>4. \A v \in Nat, x \in Segment : A[<< v, x >>] = v + x["duration"]
    BY DEF Adder, Segment
  <2>5. IsStep(A, Nat, Segment)
    BY AdderIsStep
  <2> HIDE DEF A
  <2>6. \A j \in 1 .. i - 1 : f[j] = A[<< f[j - 1], u[j] >>]
    <3>1. ASSUME NEW j \in 1 .. i - 1 PROVE f[j] = A[<< f[j - 1], u[j] >>]
      <4>0. u[j] = t[j] /\ j \in 1 .. n /\ t[j] \in Segment
        BY <2>1, <2>3
      <4>3. t[j] = r(j)
        BY <1>11, <4>0
      <4>4. t[j].duration = Precise(s[j])
        BY <4>3
      <4>1. u[j] = t[j] /\ j \in 1 .. n /\ t[j].duration = Precise(s[j]) /\ t[j] \in Segment
        BY <4>0, <4>4
      <4>2. f[j] = f[j - 1] + Precise(s[j]) /\ f[j - 1] \in Nat
        BY <1>4, <4>1
      <4> QED
        BY <2>4, <4>1, <4>2
    <3> QED
      BY <3>1
  <2>7. StagesWithin(f, Nat, A, 0, u)
    BY <1>4, <2>3, <2>6 DEF StagesWithin
  <2>8. f[i - 1] = Folded(A, 0, u)
    <3> DEFINE N == Nat
               z == 0
    <3>1. StagesWithin(f, N, A, z, u) /\ z \in N /\ IsStep(A, N, Segment)
      BY <2>5, <2>7
    <3> HIDE DEF N, z
    <3>2. f[Len(u)] = Folded(A, z, u)
      BY <2>2, <3>1, FoldedStages
    <3> QED
      BY <2>3, <3>2 DEF z
  <2>9. t[i].start = f[i - 1]
    <3>1. t[i] = r(i)
      BY <1>11
    <3>2. r(i).start = start[i]
      OBVIOUS
    <3> QED
      BY <1>8, <3>1, <3>2
  <2> QED
    BY <2>8, <2>9 DEF u, A, PlayedBefore
<1>13. ASSUME NEW i \in 1 .. n
       PROVE  t[i].url = s[i].url /\ t[i].number = s[i].number /\ t[i].cut = s[i].cut
  <2>1. t[i] = r(i)
    BY <1>11
  <2> QED
    BY <2>1
<1> QED
  BY <1>11, <1>12, <1>13

\* Why number and discontinuity of a segment stay the stream's: what the parser knows is
\* well formed, and a segment's URL leads to a segment of the stream.
PlaylistInv ==
  /\ StreamType /\ closed \in BOOLEAN /\ numbered \in BOOLEAN
  /\ target \in Nat /\ sequence \in Nat /\ live \in BOOLEAN
  /\ segments \in Seq(Segment)
  /\ \A i \in 1 .. Len(segments) :
       /\ segments[i].url + 1 \in 1 .. Len(stream)
       /\ segments[i].number = segments[i].url
       /\ segments[i].cut = IF i = 1 /\ numbered THEN TRUE ELSE stream[segments[i].url + 1].cut
  /\ \A i \in 1 .. Len(segments) : segments[i].start = PlayedBefore(segments, i)

\* ParsePlaylist hands out segments that stand where the stream has them.
LEMMA ParsingKeeps ==
  ASSUME PlaylistInv, NEW first \in Int, NEW h \in P!Heads(first), P!ParsePlaylist(first, h)
  PROVE  PlaylistInv'
<1> DEFINE a == [found |-> << >>, next |-> P!Fresh, target |-> target,
                 sequence |-> sequence, live |-> live, cuts |-> FALSE]
           v == P!FoldLeft(P!ParseLine, a, P!Playlist(first, h))
           m == Len(stream) - first
<1>1. /\ first \in 0 .. Len(stream) /\ first + Window >= Len(stream)
      /\ segments' = P!CalculatePreciseTiming(v.found)
      /\ target' = v.target /\ sequence' = v.sequence /\ live' = v.live /\ numbered' = h.numbered
      /\ UNCHANGED << stream, closed >>
  BY DEF P!ParsePlaylist
<1>2. a \in ParserState /\ a.found = << >> /\ a.next = P!Fresh
  <2>1. << >> \in Seq(FoundSegment)
        /\ P!Fresh \in [duration : Nat, declared : Nat, cut : BOOLEAN, timed : BOOLEAN]
    BY DEF P!Fresh
  <2> QED
    BY <2>1 DEF PlaylistInv, ParserState
<1> HIDE DEF a
<1>3. HasRead(v, first, m, h.numbered)
  BY <1>1, <1>2, PlaylistRead DEF PlaylistInv
<1> HIDE DEF v
<1>4. m \in Nat /\ Len(stream) \in Nat /\ first \in Nat
  BY <1>1, LenProperties DEF PlaylistInv, StreamType
<1>5. v.found \in Seq(FoundSegment) /\ Len(v.found) = m /\ v.target \in Nat /\ v.sequence \in Nat
      /\ v.live \in BOOLEAN
  BY <1>3 DEF HasRead, ParserState
<1>6. /\ segments' \in Seq(Segment) /\ Len(segments') = m
      /\ \A i \in 1 .. m : /\ segments'[i].url = v.found[i].url
                           /\ segments'[i].number = v.found[i].number
                           /\ segments'[i].cut = v.found[i].cut
                           /\ segments'[i].start = PlayedBefore(segments', i)
  <2> DEFINE t == P!CalculatePreciseTiming(v.found)
  <2>1. /\ t \in Seq(Segment) /\ Len(t) = m
        /\ \A i \in 1 .. m : /\ t[i].url = v.found[i].url /\ t[i].number = v.found[i].number
                             /\ t[i].cut = v.found[i].cut /\ t[i].start = PlayedBefore(t, i)
    BY <1>5, TimingAddsUp
  <2>2. segments' = t
    BY <1>1
  <2> HIDE DEF t
  <2> QED
    BY <2>1, <2>2
<1>7. ASSUME NEW i \in 1 .. m
      PROVE  /\ segments'[i].url + 1 \in 1 .. Len(stream)
             /\ segments'[i].number = segments'[i].url
             /\ segments'[i].cut = IF i = 1 /\ numbered' THEN TRUE ELSE stream[segments'[i].url + 1].cut
  <2>1. segments'[i].url = first + i - 1 /\ segments'[i].number = first + i - 1
        /\ segments'[i].cut = IF i = 1 /\ numbered' THEN TRUE ELSE stream[first + i].cut
    BY <1>1, <1>3, <1>6 DEF HasRead
  <2>2. (first + i - 1) + 1 = first + i /\ first + i \in 1 .. Len(stream)
    BY <1>4
  <2> QED
    BY <2>1, <2>2
<1>9. StreamType' /\ closed' \in BOOLEAN /\ numbered' \in BOOLEAN
  BY <1>1 DEF PlaylistInv, StreamType, P!Heads
<1> QED
  BY <1>1, <1>5, <1>6, <1>7, <1>9 DEF PlaylistInv

\* Neither the stream that goes on nor a parse parts the segments from the stream.
LEMMA PlaylistStep ==
  ASSUME PlaylistInv, P!Next
  PROVE  PlaylistInv'
<1>1. ASSUME NEW d \in Durations, NEW cut \in BOOLEAN, P!Produce(d, cut)
      PROVE  PlaylistInv'
  <2> DEFINE x == [duration |-> d, cut |-> cut]
  <2>1. /\ stream' = Append(stream, x) /\ closed' = closed
        /\ UNCHANGED << segments, numbered, target, sequence, live, cuts >>
    BY <1>1 DEF P!Produce, P!parser
  <2>2. stream \in Seq([duration : Durations, cut : BOOLEAN]) /\ x \in [duration : Durations, cut : BOOLEAN]
    BY DEF PlaylistInv, StreamType
  <2> HIDE DEF x
  <2>3. /\ stream' \in Seq([duration : Durations, cut : BOOLEAN])
        /\ Len(stream') = Len(stream) + 1 /\ Len(stream) \in Nat
        /\ \A i \in 1 .. Len(stream) : stream'[i] = stream[i]
    BY <2>1, <2>2, AppendProperties, LenProperties
  <2>4. ASSUME NEW i \in 1 .. Len(segments)
        PROVE  /\ segments[i].url + 1 \in 1 .. Len(stream')
               /\ segments[i].number = segments[i].url
               /\ segments[i].cut = IF i = 1 /\ numbered THEN TRUE ELSE stream'[segments[i].url + 1].cut
    <3>1. segments[i].url + 1 \in 1 .. Len(stream)
      BY DEF PlaylistInv
    <3>2. segments[i].url + 1 \in 1 .. Len(stream') /\ stream'[segments[i].url + 1] = stream[segments[i].url + 1]
      BY <2>3, <3>1
    <3> QED
      BY <3>2 DEF PlaylistInv
  <2> QED
    BY <2>1, <2>3, <2>4 DEF PlaylistInv, StreamType
<1>2. CASE P!End
  <2>1. closed' = TRUE /\ UNCHANGED << stream, segments, numbered, target, sequence, live, cuts >>
    BY <1>2 DEF P!End, P!parser
  <2> QED
    BY <2>1 DEF PlaylistInv, StreamType
<1>3. ASSUME NEW first \in 0 .. Len(stream), NEW h \in P!Heads(first), P!ParsePlaylist(first, h)
      PROVE  PlaylistInv'
  BY <1>3, ParsingKeeps
<1> QED
  BY <1>1, <1>2, <1>3 DEF P!Next

\* The playlist part of the program keeps its invariant.
THEOREM PlaylistInvariant == PartsSpec => []PlaylistInv
<1>1. PartsInit => PlaylistInv
  <2> SUFFICES ASSUME PartsInit PROVE PlaylistInv
    OBVIOUS
  <2>1. /\ stream = << >> /\ closed = FALSE /\ numbered = FALSE
        /\ segments = << >> /\ target = 0 /\ sequence = 0 /\ live = FALSE
    BY DEF PartsInit, P!Init
  <2>2. stream \in Seq([duration : Durations, cut : BOOLEAN]) /\ segments \in Seq(Segment)
        /\ Len(segments) = 0
    BY <2>1
  <2>3. \A i \in 1 .. Len(segments) : FALSE
    BY <2>2
  <2> QED
    BY <2>1, <2>2, <2>3 DEF PlaylistInv, StreamType
<1>2. PlaylistInv /\ [PartsNext]_partsVars => PlaylistInv'
  <2> SUFFICES ASSUME PlaylistInv, [PartsNext]_partsVars PROVE PlaylistInv'
    OBVIOUS
  <2>1. CASE P!Next
    BY <2>1, PlaylistStep
  <2>2. CASE UNCHANGED playlist
    BY <2>2 DEF playlist, PlaylistInv, StreamType
  <2> QED
    BY <2>1, <2>2 DEF PartsNext, partsVars, Moves
<1> QED
  BY <1>1, <1>2, PTL DEF PartsSpec

\* A segment has the stream's number and discontinuity in every playlist it is in,
\* but for the mark that EXT-X-DISCONTINUITY-SEQUENCE puts on the first, and starts
\* when all those before it have been played: for streams of any length, any
\* durations, a window of any size and any head of the playlist (ParsePlaylist,
\* CalculatePreciseTiming).
THEOREM ParsedStaysSound == PartsSpec => []ParsedSound
<1>1. PlaylistInv => ParsedSound
  <2> SUFFICES ASSUME PlaylistInv PROVE P!SegmentsAgree /\ P!StartsAddUp
    BY DEF ParsedSound, P!ParsedSound
  <2>1. DOMAIN segments = 1 .. Len(segments) /\ Len(segments) \in Nat
    BY LenProperties DEF PlaylistInv
  <2>2. P!SegmentsAgree
    <3> SUFFICES ASSUME NEW i \in DOMAIN segments
                 PROVE  /\ segments[i].number = segments[i].url
                        /\ segments[i].cut = (stream[segments[i].url + 1].cut \/ (i = 1 /\ numbered))
      BY DEF P!SegmentsAgree
    <3>1. /\ segments[i].number = segments[i].url /\ segments[i].url + 1 \in 1 .. Len(stream)
          /\ segments[i].cut = IF i = 1 /\ numbered THEN TRUE ELSE stream[segments[i].url + 1].cut
      BY <2>1 DEF PlaylistInv
    <3>2. stream[segments[i].url + 1] \in [duration : Durations, cut : BOOLEAN]
      BY <3>1, ElementOfSeq DEF PlaylistInv, StreamType
    <3>3. stream[segments[i].url + 1].cut \in BOOLEAN
      BY <3>2
    <3> QED
      BY <3>1, <3>3
  <2>3. ASSUME NEW i \in DOMAIN segments
        PROVE  segments[i].start = P!FoldLeft(LAMBDA a, x : a + x.duration, 0, SubSeq(segments, 1, i - 1))
    <3> DEFINE u == SubSeq(segments, 1, i - 1)
    <3>1. u \in Seq(Segment)
      <4>1. i \in 1 .. Len(segments) /\ i - 1 \in Int /\ \A j \in 1 .. i - 1 : j \in 1 .. Len(segments)
        BY <2>1
      <4>2. \A j \in 1 .. i - 1 : segments[j] \in Segment
        BY <4>1, ElementOfSeq DEF PlaylistInv
      <4> QED
        BY <4>1, <4>2, SubSeqProperties
    <3> HIDE DEF u
    <3>2. P!FoldLeft(LAMBDA a, x : a + x.duration, 0, u) = Folded(Adder("duration"), 0, u)
      BY <3>1, AddingIsFolding
    <3>3. segments[i].start = PlayedBefore(segments, i)
      BY <2>1 DEF PlaylistInv
    <3> QED
      BY <3>2, <3>3 DEF u, PlayedBefore
  <2> QED
    BY <2>2, <2>3 DEF P!StartsAddUp
<1> QED
  BY <1>1, PlaylistInvariant, PTL

\* Twelve seconds of segments, rounded up, are at least twelve seconds long.
LEMMA RoundedUp ==
  ASSUME NEW n \in Nat, NEW t \in Nat \ {0}
  PROVE  /\ (n + t - 1) \div t \in Nat
         /\ ((n + t - 1) \div t) * t >= n
<1> DEFINE q == (n + t - 1) \div t
           r == (n + t - 1) % t
<1>1. q \in Int /\ n + t - 1 = (t * q) + r /\ r \in 0 .. t - 1
  <2>1. \A p \in Int : (p \div t) \in Int /\ p = (t * (p \div t)) + (p % t) /\ p % t \in 0 .. t - 1
    BY Division
  <2>2. n + t - 1 \in Int
    OBVIOUS
  <2> QED
    BY <2>1, <2>2
<1> HIDE DEF q, r
<1>2. t * q >= n
  BY <1>1
<1>3. q >= 0
  <2>1. CASE q <= -1
    <3>1. t * ((-q) - 1) >= 0
      BY <1>1, <2>1
    <3>2. t * ((-q) - 1) = (-(t * q)) - t
      BY <1>1
    <3> QED
      BY <1>1, <1>2, <3>1, <3>2
  <2> QED
    BY <1>1, <2>1
<1>4. q * t = t * q
  BY <1>1
<1> QED
  BY <1>1, <1>2, <1>3, <1>4 DEF q

\* The recommended buffer holds twelve seconds of the playlist, or fifteen
\* segments: for any durations (BufferingOptimizer::CalculateOptimalBufferSize).
THEOREM BufferAlwaysCovers == PartsSpec => []BufferCoversTwelve
<1>1. PlaylistInv => BufferCoversTwelve
  <2> SUFFICES ASSUME PlaylistInv PROVE P!BufferCoversTwelve
    BY DEF BufferCoversTwelve
  <2> DEFINE t == P!Declared
             n == 12000 * Len(segments)
             want == (n + t - 1) \div t
             size == P!CalculateOptimalBufferSize
  <2>1. segments \in Seq(Segment) /\ Len(segments) \in Nat
    BY LenProperties DEF PlaylistInv
  <2>2. t \in Nat
    <3> DEFINE N == Nat
               z == 0
               G == Adder("declared")
    <3>1. t = Folded(G, z, segments) /\ IsStep(G, N, Segment) /\ z \in N
      BY <2>1, AddingIsFolding DEF P!Declared, P!FoldLeft, P!MapThenFoldSet
    <3> HIDE DEF N, z, G, t
    <3>2. t \in N
      BY <2>1, <3>1, FoldedSteps
    <3> QED
      BY <3>2 DEF N
  <2>3. CASE t > 0 /\ segments # << >>
    <3>1. n \in Nat /\ n >= 0
      BY <2>1
    <3>2. size = IF (IF want < 15 THEN want ELSE 15) > 6
                 THEN (IF want < 15 THEN want ELSE 15) ELSE 6
      BY <2>2, <2>3 DEF P!CalculateOptimalBufferSize
    <3> HIDE DEF t, n, size
    <3>3. want \in Nat /\ want * t >= n
      BY <2>2, <2>3, <3>1, RoundedUp
    <3> HIDE DEF want
    <3>4. CASE want >= 15
      BY <3>2, <3>3, <3>4 DEF P!BufferCoversTwelve, size
    <3>5. CASE want < 15 /\ want >= 6
      <4>1. size = want
        BY <3>2, <3>3, <3>5
      <4> QED
        BY <3>3, <4>1 DEF P!BufferCoversTwelve, size, n, t
    <3>6. CASE want < 6
      <4>1. size = 6
        BY <3>2, <3>3, <3>6
      <4>2. 6 * t >= want * t
        <5>1. (6 - want) * t >= 0
          BY <2>2, <3>3, <3>6
        <5>2. (6 - want) * t = (6 * t) - (want * t)
          BY <2>2, <3>3
        <5> QED
          BY <2>2, <3>3, <5>1, <5>2
      <4>3. size * t >= n
        BY <2>2, <3>1, <3>3, <4>1, <4>2
      <4> QED
        BY <4>3 DEF P!BufferCoversTwelve, size, n, t
    <3> QED
      BY <3>3, <3>4, <3>5, <3>6
  <2>4. CASE segments = << >>
    <3>1. size = 8 /\ Len(segments) = 0
      BY <2>4 DEF P!CalculateOptimalBufferSize
    <3> HIDE DEF t, size
    <3>2. size * t >= n
      BY <2>2, <3>1
    <3> QED
      BY <3>2 DEF P!BufferCoversTwelve, size, n, t
  <2>5. CASE ~(t > 0)
    BY <2>5 DEF P!BufferCoversTwelve
  <2> QED
    BY <2>3, <2>4, <2>5
<1> QED
  BY <1>1, PlaylistInvariant, PTL
==============================================================================
