---------------------------- MODULE MemoryMapRing ----------------------------
(* StreamMemoryMap (src/stream_memory_map.cpp): a ring of bytes in a named     *)
(* file mapping, written by this program and read by a player's process. Each  *)
(* access to the header happens with a named mutex held; a process can die at  *)
(* any point, with the mutex held too, and a new reader can open the mapping.  *)
(*                                                                             *)
(* Byte i of the stream is the number i. The header's data_available and       *)
(* sequence_number are left out: the code writes them and never reads them.    *)
EXTENDS Integers, Sequences

CONSTANTS Size,      \* buffer_size
          Chunks,    \* sizes WriteData and ReadData are called with
          MaxBytes,  \* bound: bytes handed to WriteData in all
          MaxWaits,  \* turns of WaitForSpace before it gives up (200 in the code)
          MaxCrashes \* bound: processes that die

ASSUME RingAssumption ==
  /\ Size \in Nat /\ Size > 1
  /\ Chunks \subseteq Nat \ {0}
  /\ MaxBytes \in Nat /\ MaxWaits \in Nat /\ MaxCrashes \in Nat

VARIABLES
  writerPos, readerPos, ended, writerActive, readerActive, \* the header
  data,     \* the bytes of the ring, 0 where none was written
  owner,    \* who owns the mutex: "free", "writer", "reader" or "abandoned"
  kept,     \* the process that got the mutex abandoned and does not know it
  writer,   \* state of the writing process
  left,     \* bytes its WriteData has still to write
  chunk,    \* bytes the critical section in progress has copied in
  waits,    \* turns of WaitForSpace so far
  cancel,   \* cancel_token
  reader,   \* state of the reading process
  buf,      \* bytes the reader's critical section has copied out
  given,    \* bytes handed to WriteData so far
  written,  \* bytes published in the ring
  rcvd,     \* bytes ReadData has returned, over all readers
  crashes

header == << writerPos, readerPos, ended, writerActive, readerActive >>
mutex == << owner, kept >>
writing == << writer, left, chunk, waits, cancel, given >>
reading == << reader, buf, rcvd >>
vars == << header, data, mutex, writing, reading, written, crashes >>

Cells == 0 .. Size - 1
Count == Len(rcvd)       \* bytes taken out so far

(* ------------------------------ the mutex -------------------------------- *)

\* AcquireLock: the mutex is recursive for its owner. A mutex whose owner died
\* is handed over with WAIT_ABANDONED, which AcquireLock reports as failure.
MayLock(p) == owner \in {"free", p}
Lock(p) == MayLock(p) /\ owner' = p /\ UNCHANGED kept
LockFails(p) ==
  \/ owner = "abandoned" /\ owner' = p /\ kept' = p
  \/ owner \notin {"free", "abandoned", p} /\ UNCHANGED mutex

\* ReleaseLock gives back one count: not the one taken by an abandoned wait.
Release(p) == owner' = (IF kept = p THEN p ELSE "free") /\ UNCHANGED kept

\* A critical section without a step in which its process could die.
LockOnce(p) == MayLock(p) /\ UNCHANGED mutex

Die(p) ==
  /\ owner' = IF owner = p THEN "abandoned" ELSE owner
  /\ kept' = IF kept = p THEN "none" ELSE kept

(* ------------------------------- the ring -------------------------------- *)

\* Mutant: no cell is kept free to tell a full ring from an empty one.
GetAvailableWriteSpaceFull ==
  IF writerPos >= readerPos THEN Size - (writerPos - readerPos)
                            ELSE readerPos - writerPos

GetAvailableWriteSpace ==
  IF writerPos >= readerPos THEN Size - (writerPos - readerPos) - 1
                            ELSE readerPos - writerPos - 1

\* Mutant: equal positions are taken for a full ring.
GetAvailableReadDataEqual ==
  IF writerPos > readerPos THEN writerPos - readerPos
                           ELSE (Size - readerPos) + writerPos

GetAvailableReadData ==
  IF writerPos >= readerPos THEN writerPos - readerPos
                            ELSE (Size - readerPos) + writerPos

Least(a, b) == IF a < b THEN a ELSE b

\* The n cells that follow pos, split where the ring wraps around.
Covers(pos, n, c) ==
  IF pos + n <= Size THEN pos <= c /\ c < pos + n
  ELSE pos <= c \/ c < n - (Size - pos)

\* How far behind pos a cell lies.
Offset(pos, c) == IF c >= pos THEN c - pos ELSE c + Size - pos

(* ------------------------------ the writer ------------------------------- *)

\* WriteData(n); callers do not write after SignalStreamEnd.
WriteCall(n) ==
  /\ writer = "idle" /\ ~cancel /\ ended = 0
  /\ given + n <= MaxBytes
  /\ writer' = "writing" /\ left' = n /\ given' = given + n
  /\ UNCHANGED << header, data, mutex, chunk, waits, cancel, reading, written, crashes >>

\* One turn of WriteData: nothing is left, the lock cannot be had, there is no
\* space, or bytes are copied in behind the write position.
WriteReturn ==
  /\ writer = "writing" /\ (left = 0 \/ cancel)
  /\ writer' = "idle" /\ left' = 0
  /\ UNCHANGED << header, data, mutex, chunk, waits, cancel, given, reading, written, crashes >>

WriteNoLock ==
  /\ writer = "writing" /\ left > 0 /\ ~cancel
  /\ LockFails("writer")
  /\ writer' = "idle" /\ left' = 0
  /\ UNCHANGED << header, data, chunk, waits, cancel, given, reading, written, crashes >>

WriteNoSpace ==
  /\ writer = "writing" /\ left > 0 /\ ~cancel
  /\ LockOnce("writer") /\ GetAvailableWriteSpace = 0
  /\ writer' = "waiting" /\ waits' = 0
  /\ UNCHANGED << header, data, left, chunk, cancel, given, reading, written, crashes >>

WriteCopy ==
  /\ writer = "writing" /\ left > 0 /\ ~cancel
  /\ Lock("writer") /\ GetAvailableWriteSpace > 0
  /\ chunk' = Least(left, GetAvailableWriteSpace)
  /\ data' = [c \in Cells |-> IF Covers(writerPos, chunk', c)
                              THEN written + 1 + Offset(writerPos, c) ELSE data[c]]
  /\ writer' = "copied"
  /\ UNCHANGED << header, left, waits, cancel, given, reading, written, crashes >>

\* The write position moves past the copied bytes and the lock is released.
WritePublish ==
  /\ writer = "copied"
  /\ writerPos' = (writerPos + chunk) % Size
  /\ written' = written + chunk /\ left' = left - chunk
  /\ chunk' = 0 /\ writer' = "writing"
  /\ Release("writer")
  /\ UNCHANGED << readerPos, ended, writerActive, readerActive, data, waits, cancel,
                  given, reading, crashes >>

\* One turn of WaitForSpace(1).
WaitReturn ==
  /\ writer = "waiting"
  /\ \/ waits >= MaxWaits \/ cancel
     \/ LockOnce("writer") /\ GetAvailableWriteSpace = 0 /\ readerActive = 0
  /\ writer' = "idle" /\ left' = 0
  /\ UNCHANGED << header, data, mutex, chunk, waits, cancel, given, reading, written, crashes >>

WaitSpace ==
  /\ writer = "waiting" /\ waits < MaxWaits /\ ~cancel
  /\ LockOnce("writer") /\ GetAvailableWriteSpace >= 1
  /\ writer' = "writing"
  /\ UNCHANGED << header, data, left, chunk, waits, cancel, given, reading, written, crashes >>

\* Mutant: a turn in which the lock cannot be had is not counted.
WaitSleepUncounted ==
  /\ writer = "waiting" /\ waits < MaxWaits /\ ~cancel
  /\ \/ LockOnce("writer") /\ GetAvailableWriteSpace = 0 /\ readerActive # 0
        /\ waits' = waits + 1
     \/ LockFails("writer") /\ UNCHANGED waits
  /\ UNCHANGED << header, data, writer, left, chunk, cancel, given, reading, written, crashes >>

WaitSleep ==
  /\ writer = "waiting" /\ waits < MaxWaits /\ ~cancel
  /\ \/ LockOnce("writer") /\ GetAvailableWriteSpace = 0 /\ readerActive # 0
     \/ LockFails("writer")
  /\ waits' = waits + 1
  /\ UNCHANGED << header, data, writer, left, chunk, cancel, given, reading, written, crashes >>

Cancel ==
  /\ ~cancel /\ cancel' = TRUE
  /\ UNCHANGED << header, data, mutex, writer, left, chunk, waits, given, reading, written, crashes >>

\* SignalStreamEnd does nothing when the lock cannot be had.
SignalStreamEnd ==
  /\ writer = "idle"
  /\ \/ LockOnce("writer") /\ ended' = 1 /\ writerActive' = 0
     \/ LockFails("writer") /\ UNCHANGED << ended, writerActive >>
  /\ UNCHANGED << writerPos, readerPos, readerActive, data, writing, reading, written, crashes >>

\* Close clears the flag if it gets the lock; the thread that used the mapping
\* ends soon after, and a mutex it still owns is then abandoned.
WriterClose ==
  /\ writer = "idle"
  /\ writerActive' = (IF MayLock("writer") THEN 0 ELSE writerActive) /\ Die("writer")
  /\ writer' = "gone"
  /\ UNCHANGED << writerPos, readerPos, ended, readerActive, data, left, chunk, waits,
                  cancel, given, reading, written, crashes >>

WriterCrash ==
  /\ writer # "gone" /\ crashes < MaxCrashes
  /\ Die("writer")
  /\ writer' = "gone" /\ left' = 0 /\ chunk' = 0 /\ crashes' = crashes + 1
  /\ UNCHANGED << header, data, waits, cancel, given, reading, written >>

(* ------------------------------ the reader ------------------------------- *)

\* OpenAsReader succeeds without the lock too; then readerActive stays as it was.
OpenAsReader ==
  /\ reader = "gone" /\ writer # "gone"
  /\ \/ LockOnce("reader") /\ readerActive' = 1
     \/ LockFails("reader") /\ UNCHANGED readerActive
  /\ reader' = "idle"
  /\ UNCHANGED << writerPos, readerPos, ended, writerActive, data, writing, buf, rcvd,
                  written, crashes >>

\* ReadData(n), up to the copy; without the lock or without data it returns 0.
ReadCopy(n) ==
  /\ reader = "idle" /\ Lock("reader") /\ GetAvailableReadData > 0
  /\ LET k == Least(n, GetAvailableReadData)
     IN  buf' = [i \in 1 .. k |-> data[IF readerPos + (i - 1) < Size
                                       THEN readerPos + (i - 1)
                                       ELSE (i - 1) - (Size - readerPos)]]
  /\ reader' = "copied"
  /\ UNCHANGED << header, data, writing, rcvd, written, crashes >>

ReadNoLock ==
  /\ reader = "idle" /\ LockFails("reader")
  /\ UNCHANGED << header, data, writing, reading, written, crashes >>

\* The read position moves on, the lock is released, ReadData returns the bytes.
ReadTake ==
  /\ reader = "copied"
  /\ readerPos' = (readerPos + Len(buf)) % Size
  /\ rcvd' = rcvd \o buf /\ buf' = << >> /\ reader' = "idle"
  /\ Release("reader")
  /\ UNCHANGED << writerPos, ended, writerActive, readerActive, data, writing, written, crashes >>

\* IsStreamEnded looks without the lock: first the flag, then the positions;
\* they are the reader's own by then, since nothing is written after the flag.
\* Mutant: the flag alone ends the stream.
IsStreamEndedFlag == ended # 0

IsStreamEnded == ended # 0 /\ GetAvailableReadData = 0

ReaderSeesEnd ==
  /\ reader = "idle" /\ IsStreamEnded
  /\ reader' = "ended"
  /\ UNCHANGED << header, data, mutex, writing, buf, rcvd, written, crashes >>

ReaderClose ==
  /\ reader \in {"idle", "ended"}
  /\ readerActive' = (IF MayLock("reader") THEN 0 ELSE readerActive) /\ Die("reader")
  /\ reader' = "gone"
  /\ UNCHANGED << writerPos, readerPos, ended, writerActive, data, writing, buf, rcvd,
                  written, crashes >>

ReaderCrash ==
  /\ reader # "gone" /\ crashes < MaxCrashes
  /\ Die("reader")
  /\ reader' = "gone" /\ buf' = << >> /\ crashes' = crashes + 1
  /\ UNCHANGED << header, data, writing, rcvd, written >>

WriterStep ==
  \/ WriteReturn \/ WriteNoLock \/ WriteNoSpace \/ WriteCopy \/ WritePublish
  \/ WaitReturn \/ WaitSpace \/ WaitSleep

Next ==
  \/ \E n \in Chunks : WriteCall(n) \/ ReadCopy(n)
  \/ WriteReturn \/ WriteNoLock \/ WriteNoSpace \/ WriteCopy \/ WritePublish
  \/ WaitReturn \/ WaitSpace \/ WaitSleep
  \/ Cancel \/ SignalStreamEnd \/ WriterClose \/ WriterCrash
  \/ OpenAsReader \/ ReadNoLock \/ ReadTake \/ ReaderSeesEnd
  \/ ReaderClose \/ ReaderCrash

\* CreateAsWriter for a name no process has mapped: a zeroed header.
Init ==
  /\ writerPos = 0 /\ readerPos = 0 /\ ended = 0
  /\ writerActive = 1 /\ readerActive = 0
  /\ data = [c \in Cells |-> 0]
  /\ owner = "free" /\ kept = "none"
  /\ writer = "idle" /\ left = 0 /\ chunk = 0 /\ waits = 0 /\ cancel = FALSE
  /\ reader = "gone" /\ buf = << >>
  /\ given = 0 /\ written = 0 /\ rcvd = << >> /\ crashes = 0

Spec == Init /\ [][Next]_vars

\* The writing thread keeps running; nothing is assumed of the reader.
FairSpec == Spec /\ WF_vars(WriterStep)

(* ------------------------------ properties ------------------------------- *)

\* Between two critical sections the mutex is owned only by a process that got
\* it abandoned; otherwise its owner is between its copy and its release.
MutexHeld ==
  /\ owner = "writer" => writer = "copied" \/ kept = "writer"
  /\ owner = "reader" => reader = "copied" \/ kept = "reader"
  /\ writer = "copied" => owner = "writer"
  /\ reader = "copied" => owner = "reader"
  /\ kept \in {"none", owner}

\* Every byte published and not yet read is in its cell, whatever process died
\* between copying bytes and moving a position, and there is one cell to spare.
UnreadIntact ==
  /\ written - Count \in 0 .. Size - 1
  /\ \A i \in Count + 1 .. written : data[(i - 1) % Size] = i

\* An inductive invariant: what the header says of the stream, and what a process
\* between its copy and its release has copied.
MapTypes ==
  /\ written \in Nat /\ left \in Nat /\ chunk \in Nat
  /\ rcvd \in Seq(Nat) /\ buf \in Seq(Nat) /\ data \in [Cells -> Nat]
  /\ ended \in {0, 1}
  /\ writer \in {"idle", "writing", "copied", "waiting", "gone"}
  /\ reader \in {"idle", "copied", "ended", "gone"}
  /\ owner \in {"free", "writer", "reader", "abandoned"}
  /\ kept \in {"none", "writer", "reader"}

Positions == writerPos = written % Size /\ readerPos = Count % Size

Copying ==
  /\ writer = "copied" =>
       /\ chunk <= left /\ chunk <= Size - 1 - (written - Count)
       /\ \A i \in written + 1 .. written + chunk : data[(i - 1) % Size] = i
  /\ reader = "copied" =>
       /\ Len(buf) <= written - Count
       /\ \A i \in 1 .. Len(buf) : buf[i] = Count + i

Received == \A i \in 1 .. Count : rcvd[i] = i

Ending ==
  /\ ended = 1 => writer \in {"idle", "gone"}
  /\ reader = "ended" => ended = 1

\* ReadData returns the bytes WriteData wrote, in order and each once, across
\* crashes and new readers, and never more than Size - 1 are under way.
Channel == INSTANCE TxChannel
             WITH Bound <- Size - 1, sent <- [i \in 1 .. written |-> i]
ImplementsChannel == Channel!ChanSpec

\* The reader that finds the stream ended has read all of it, although
\* IsStreamEnded looks at flag and positions without the lock.
EndMeansAllRead == reader = "ended" => Count = written

MapInv ==
  /\ MapTypes /\ MutexHeld /\ Positions /\ UnreadIntact /\ Copying /\ Received
  /\ Ending /\ EndMeansAllRead

\* WriteData returns even if the reader is stuck, dead or holds the mutex.
WriteReturns == (writer \in {"writing", "copied", "waiting"}) ~> (writer \in {"idle", "gone"})
==============================================================================
