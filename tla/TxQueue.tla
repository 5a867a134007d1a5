------------------------------- MODULE TxQueue -------------------------------
(***************************************************************************)
(* The lock-free transactional queue of src/tx-queue-impl.inl: a ring of   *)
(* Cap bytes shared by one producer and one consumer thread.  Each thread  *)
(* works inside a transaction object (tx_write_t, tx_read_t) with private  *)
(* copies of the two indices; the destructor publishes the private index   *)
(* unless the transaction was invalidated.                                 *)
(*                                                                         *)
(* Positions are absolute byte counts here; what the code keeps in head_,  *)
(* tail_ and the private copies is Ix(position), and only Ix(position) is  *)
(* used where the code computes.                                           *)
(*                                                                         *)
(* Memory model: the solution is built for x86 and x64 only, where stores  *)
(* become visible in program order.  A load of the other thread's index    *)
(* may still return an old value, so it picks any value that index has     *)
(* held since the one this thread saw last (headStores, tailStores).  Both *)
(* the relaxed load of a constructor and the acquire load of imp_write or  *)
(* imp_read are such loads.  The producer_core_ and consumer_core_ fields  *)
(* only decide whether a failing call yields its time slice.               *)
(***************************************************************************)
EXTENDS Integers, Sequences, FiniteSets

CONSTANTS
  Cap,              \* capacity_ of a queue that is_ok(): a power of two
  Sizes,            \* the sizes _size passed to write() and read()
  MaxBytes          \* bound of the model: bytes ever copied into the ring

ASSUME TxQueueAssumption ==
  /\ Cap \in Nat \ {0}
  /\ Sizes \subseteq Nat
  /\ MaxBytes \in Nat

VARIABLES
  storage,          \* storage_: the stamp of the byte in each cell
  head,             \* head_: where the next read transaction starts
  tail,             \* tail_: where the next write transaction starts
  headStores,       \* the values of head_ the producer may still load
  tailStores,       \* the values of tail_ the consumer may still load
  wtx,              \* the producer's transaction (tx_write_t)
  rtx,              \* the consumer's transaction (tx_read_t)
  stamp,            \* the stamp of the next byte copied into the ring
  sent,             \* history: the bytes committed by the producer
  rcvd              \* history: the bytes committed by the consumer

vars == <<storage, head, tail, headStores, tailStores, wtx, rtx, stamp,
          sent, rcvd>>

Cells == 0 .. Cap - 1

\* index & (capacity_ - 1), for a capacity_ that is a power of two.
Ix(p) == p % Cap

\* A transaction object: at is its private tail_ (head_), seen its
\* cached_head_ (cached_tail_), data the bytes it has copied so far.
NoTx == [st |-> "none", at |-> 0, seen |-> 0, data |-> << >>]

Tx == [st : {"none", "open", "invalid"}, at : Nat, seen : Nat, data : Seq(Nat)]

TypeOK ==
  /\ storage \in [Cells -> 0 .. stamp - 1]     \* stamps already issued
  /\ head \in Nat /\ tail \in Nat
  /\ headStores \in SUBSET Nat /\ tailStores \in SUBSET Nat
  /\ wtx \in Tx /\ rtx \in Tx
  /\ stamp \in Nat \ {0}
  /\ sent \in Seq(Nat) /\ rcvd \in Seq(Nat)

Init ==
  /\ storage = [i \in Cells |-> 0]
  /\ head = 0 /\ tail = 0
  /\ headStores = {0} /\ tailStores = {0}
  /\ wtx = NoTx /\ rtx = NoTx
  /\ stamp = 1
  /\ sent = << >> /\ rcvd = << >>

\* available_space and available_data of imp_write and imp_read: unsigned
\* arithmetic on indices below Cap, masked to the ring.
AvailableSpaceAll(h, t) == ((Ix(h) - Ix(t) - 1 + Cap) % Cap) + 1    \* mutant
AvailableDataUnmasked(t, h) == Ix(t) - Ix(h) + Cap                   \* mutant
AvailableSpace(h, t) == (Ix(h) - Ix(t) - 1 + Cap) % Cap
AvailableData(t, h) == (Ix(t) - Ix(h) + Cap) % Cap

\* A load of one of the shared indices by the other thread: any value stored
\* since the last one it saw; the older ones can never be loaded again.
Observed(stores, v) == {x \in stores : x >= v}

-----------------------------------------------------------------------------
(* The producer's transaction.                                             *)

WriteBegin ==
  /\ wtx.st = "none"
  /\ \E h \in headStores :
       /\ wtx' = [st |-> "open", at |-> tail, seen |-> h, data |-> << >>]
       /\ headStores' = Observed(headStores, h)
  /\ UNCHANGED <<storage, head, tail, tailStores, rtx, stamp, sent, rcvd>>

\* The one or two memcpy calls of imp_write: n bytes from cell t on, the part
\* that does not fit before the end of the ring from cell 0 on.
CopyInOnePart(t, n) ==         \* mutant: no second memcpy
  [i \in Cells |-> IF i - t \in 0 .. n - 1 THEN stamp + (i - t) ELSE storage[i]]
CopyIn(t, n) ==
  [i \in Cells |->
     LET k == IF i >= t THEN i - t ELSE Cap - t + i
     IN  IF k < n THEN stamp + k ELSE storage[i]]

Stamps(n) == [k \in 1 .. n |-> stamp + k - 1]

\* imp_write with room: at once, or after one look at the current head_.
Write(n) ==
  /\ wtx.st = "open"
  /\ stamp + n <= MaxBytes + 1
  /\ \/ /\ n <= AvailableSpace(wtx.seen, wtx.at)
        /\ wtx' = [wtx EXCEPT !.at = @ + n, !.data = @ \o Stamps(n)]
        /\ UNCHANGED headStores
     \/ /\ n > AvailableSpace(wtx.seen, wtx.at)
        /\ \E h \in headStores :
             /\ n <= AvailableSpace(h, wtx.at)
             /\ headStores' = Observed(headStores, h)
             /\ wtx' = [wtx EXCEPT !.seen = h, !.at = @ + n,
                                   !.data = @ \o Stamps(n)]
  /\ storage' = CopyIn(Ix(wtx.at), n)
  /\ stamp' = stamp + n
  /\ UNCHANGED <<head, tail, tailStores, rtx, sent, rcvd>>

\* imp_write without room, even for the head_ it has just loaded.
WriteFull(n) ==
  /\ wtx.st = "open"
  /\ n > AvailableSpace(wtx.seen, wtx.at)
  /\ \E h \in headStores :
       /\ n > AvailableSpace(h, wtx.at)
       /\ headStores' = Observed(headStores, h)
       /\ wtx' = [wtx EXCEPT !.st = "invalid", !.seen = h]
  /\ UNCHANGED <<storage, head, tail, tailStores, rtx, stamp, sent, rcvd>>

WriteInvalidate ==
  /\ wtx.st = "open"
  /\ wtx' = [wtx EXCEPT !.st = "invalid"]
  /\ UNCHANGED <<storage, head, tail, headStores, tailStores, rtx, stamp,
                 sent, rcvd>>

\* The destructor of tx_write_t.
WriteEnd ==
  /\ wtx.st # "none"
  /\ IF wtx.st = "open"
     THEN /\ tail' = wtx.at
          /\ tailStores' = tailStores \union {wtx.at}
          /\ sent' = sent \o wtx.data
     ELSE UNCHANGED <<tail, tailStores, sent>>
  /\ wtx' = NoTx
  /\ UNCHANGED <<storage, head, headStores, rtx, stamp, rcvd>>

-----------------------------------------------------------------------------
(* The consumer's transaction.                                             *)

ReadBegin ==
  /\ rtx.st = "none"
  /\ \E t \in tailStores :
       /\ rtx' = [st |-> "open", at |-> head, seen |-> t, data |-> << >>]
       /\ tailStores' = Observed(tailStores, t)
  /\ UNCHANGED <<storage, head, tail, headStores, wtx, stamp, sent, rcvd>>

\* The one or two memcpy calls of imp_read.
CopyOutShifted(h, n) ==        \* mutant: the second memcpy starts at cell 1
  [k \in 1 .. n |-> storage[IF h + k - 1 >= Cap THEN h + k - Cap ELSE h + k - 1]]
CopyOut(h, n) ==
  [k \in 1 .. n |->
     storage[IF h + k - 1 >= Cap THEN h + k - 1 - Cap ELSE h + k - 1]]

Read(n) ==
  /\ rtx.st = "open"
  /\ \/ /\ n <= AvailableData(rtx.seen, rtx.at)
        /\ rtx' = [rtx EXCEPT !.at = @ + n,
                              !.data = @ \o CopyOut(Ix(rtx.at), n)]
        /\ UNCHANGED tailStores
     \/ /\ n > AvailableData(rtx.seen, rtx.at)
        /\ \E t \in tailStores :
             /\ n <= AvailableData(t, rtx.at)
             /\ tailStores' = Observed(tailStores, t)
             /\ rtx' = [rtx EXCEPT !.seen = t, !.at = @ + n,
                                   !.data = @ \o CopyOut(Ix(rtx.at), n)]
  /\ UNCHANGED <<storage, head, tail, headStores, wtx, stamp, sent, rcvd>>

\* imp_read without enough data, even for the tail_ it has just loaded.
ReadEmpty(n) ==
  /\ rtx.st = "open"
  /\ n > AvailableData(rtx.seen, rtx.at)
  /\ \E t \in tailStores :
       /\ n > AvailableData(t, rtx.at)
       /\ tailStores' = Observed(tailStores, t)
       /\ rtx' = [rtx EXCEPT !.st = "invalid", !.seen = t]
  /\ UNCHANGED <<storage, head, tail, headStores, wtx, stamp, sent, rcvd>>

ReadInvalidate ==
  /\ rtx.st = "open"
  /\ rtx' = [rtx EXCEPT !.st = "invalid"]
  /\ UNCHANGED <<storage, head, tail, headStores, tailStores, wtx, stamp,
                 sent, rcvd>>

\* The destructor of tx_read_t.
ReadEnd ==
  /\ rtx.st # "none"
  /\ IF rtx.st = "open"
     THEN /\ head' = rtx.at
          /\ headStores' = headStores \union {rtx.at}
          /\ rcvd' = rcvd \o rtx.data
     ELSE UNCHANGED <<head, headStores, rcvd>>
  /\ rtx' = NoTx
  /\ UNCHANGED <<storage, tail, tailStores, wtx, stamp, sent>>

-----------------------------------------------------------------------------
Producer ==
  \/ WriteBegin
  \/ \E n \in Sizes : Write(n) \/ WriteFull(n)
  \/ WriteInvalidate
  \/ WriteEnd

Consumer ==
  \/ ReadBegin
  \/ \E n \in Sizes : Read(n) \/ ReadEmpty(n)
  \/ ReadInvalidate
  \/ ReadEnd

Next == Producer \/ Consumer

Spec == Init /\ [][Next]_vars

-----------------------------------------------------------------------------
(* Properties.                                                             *)

\* Every byte the producer published and the consumer has not released is
\* still in its cell, whatever the open write transaction has copied since
\* (imp_write trusts a head_ that may be stale).
UnreadIntact ==
  \A p \in head .. tail - 1 : storage[Ix(p)] = sent[p + 1]

\* The producer's private tail_ never laps any value of head_ that the
\* producer may still load: one cell always stays free, so a full ring is
\* never taken for an empty one.
NeverLaps ==
  wtx.st = "open" => \A h \in headStores : wtx.at - h < Cap

\* An open read transaction has copied exactly the next published bytes and
\* none of an uncommitted or abandoned write.
ReadsPublished ==
  rtx.st = "open" =>
    /\ rtx.at <= tail
    /\ rtx.data = SubSeq(sent, head + 1, rtx.at)

\* The bytes are received in the order they were committed, with none lost,
\* duplicated or torn, and never more than Cap - 1 of them wait in the ring.
Channel == INSTANCE TxChannel WITH Bound <- Cap - 1
ImplementsChannel == Channel!ChanSpec
-----------------------------------------------------------------------------
(* The inductive invariant behind these properties.                        *)

\* The histories match the shared indices.
Histories ==
  /\ head <= tail /\ Len(sent) = tail /\ Len(rcvd) = head
  /\ \A p \in 1 .. head : rcvd[p] = sent[p]

\* The values still loadable are older than the current index, but never so
\* old that they would make the ring look emptier (fuller) than it is.
Loadable ==
  /\ head \in headStores /\ \A h \in headStores : h <= head /\ tail - h < Cap
  /\ tail \in tailStores /\ \A t \in tailStores : head <= t /\ t <= tail

Writing == wtx.st = "open" =>
  /\ wtx.at = tail + Len(wtx.data)
  /\ wtx.seen <= head /\ wtx.at - wtx.seen < Cap
  /\ \A h \in headStores : wtx.seen <= h
  /\ \A k \in 1 .. Len(wtx.data) : storage[Ix(tail + k - 1)] = wtx.data[k]

Reading == rtx.st = "open" =>
  /\ rtx.at = head + Len(rtx.data)
  /\ rtx.at <= rtx.seen /\ rtx.seen <= tail
  /\ \A t \in tailStores : rtx.seen <= t
  /\ \A k \in 1 .. Len(rtx.data) : rtx.data[k] = sent[head + k]

RingInv == TypeOK /\ Histories /\ Loadable /\ Writing /\ Reading /\ UnreadIntact
=============================================================================
