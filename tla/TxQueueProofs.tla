---------------------------- MODULE TxQueueProofs ----------------------------
(***************************************************************************)
(* Proofs about the ring of TxQueue, for every capacity, every set of      *)
(* sizes and every bound.  The first part is the arithmetic of the masked  *)
(* indices, the second the inductive invariant, the third what follows.    *)
(***************************************************************************)
EXTENDS TxQueue, DataLemmas, SequenceTheorems, TLAPS

-----------------------------------------------------------------------------
(* Masked indices.                                                         *)

\* Division with remainder by the capacity.
LEMMA DivMod ==
  ASSUME NEW p \in Int
  PROVE  /\ (p \div Cap) \in Int
         /\ p = (Cap * (p \div Cap)) + (p % Cap)
         /\ p % Cap \in Cells
  BY TxQueueAssumption DEF Cells

\* The remainder is the only cell that differs by a multiple of Cap.
LEMMA UniqueRemainder ==
  ASSUME NEW p \in Int, NEW q \in Int, NEW r \in Cells, p = (Cap * q) + r
  PROVE  p % Cap = r
<1>1. Cap \in Nat \ {0} /\ r \in 0 .. Cap - 1  BY TxQueueAssumption DEF Cells
<1> QED  BY <1>1, OneRemainder, Zenon

\* Positions are masked to cells.
LEMMA IxType ==
  ASSUME NEW p \in Int
  PROVE  Ix(p) \in Cells
  BY DivMod DEF Ix

\* Advancing by at most a full turn wraps around at most once.
LEMMA IxStep ==
  ASSUME NEW p \in Int, NEW n \in 0 .. Cap
  PROVE  Ix(p + n) = IF Ix(p) + n >= Cap THEN Ix(p) + n - Cap ELSE Ix(p) + n
<1>1. Cap \in Nat \ {0}  BY TxQueueAssumption
<1>2. (p + n) % Cap = IF (p % Cap) + n >= Cap THEN (p % Cap) + n - Cap ELSE (p % Cap) + n
  BY <1>1, Advance, Zenon
<1> QED  BY <1>2 DEF Ix

\* available_data is the number of bytes between two positions less than a
\* turn apart.
LEMMA DataBetween ==
  ASSUME NEW h \in Nat, NEW t \in Nat, h <= t, t - h < Cap
  PROVE  AvailableData(t, h) = t - h
<1> DEFINE n == t - h
           a == Ix(h)
           b == Ix(t)
<1>1. n \in 0 .. Cap /\ t = h + n /\ n < Cap  BY TxQueueAssumption
<1>2. a \in Cells /\ b \in Cells  BY IxType
<1>3. b = IF a + n >= Cap THEN a + n - Cap ELSE a + n
  <2> HIDE DEF n
  <2> QED  BY <1>1, IxStep
<1> HIDE DEF n, a, b
<1>4. CASE a + n >= Cap
  <2>1. b - a + Cap = n  BY <1>1, <1>2, <1>3, <1>4, TxQueueAssumption DEF Cells
  <2>2. n % Cap = n
    BY <1>1, UniqueRemainder, TxQueueAssumption DEF Cells
  <2> QED  BY <2>1, <2>2 DEF AvailableData, a, b, n
<1>5. CASE ~(a + n >= Cap)
  <2>1. b - a + Cap = (Cap * 1) + n
    BY <1>1, <1>2, <1>3, <1>5, TxQueueAssumption DEF Cells
  <2>2. b - a + Cap \in Int  BY <1>2, TxQueueAssumption DEF Cells
  <2>3. n \in Cells  BY <1>1, TxQueueAssumption DEF Cells
  <2>4. (b - a + Cap) % Cap = n
    BY <2>1, <2>2, <2>3, UniqueRemainder
  <2> QED  BY <2>4 DEF AvailableData, a, b, n
<1> QED  BY <1>4, <1>5

\* available_space is what remains of Cap - 1 bytes.
LEMMA SpaceLeft ==
  ASSUME NEW h \in Nat, NEW t \in Nat, h <= t, t - h < Cap
  PROVE  AvailableSpace(h, t) = Cap - 1 - (t - h)
<1> DEFINE n == t - h
           a == Ix(h)
           b == Ix(t)
           r == Cap - 1 - n
<1>1. n \in 0 .. Cap /\ t = h + n /\ n < Cap  BY TxQueueAssumption
<1>2. a \in Cells /\ b \in Cells  BY IxType
<1>3. b = IF a + n >= Cap THEN a + n - Cap ELSE a + n
  <2> HIDE DEF n
  <2> QED  BY <1>1, IxStep
<1>4. r \in Cells  BY <1>1, TxQueueAssumption DEF Cells
<1>5. r = Cap - 1 - n  OBVIOUS
<1> HIDE DEF n, a, b, r
<1>6. CASE a + n >= Cap
  <2>1. a - b - 1 + Cap = (Cap * 1) + r
    BY <1>1, <1>2, <1>3, <1>5, <1>6, TxQueueAssumption DEF Cells
  <2>2. a - b - 1 + Cap \in Int  BY <1>2, TxQueueAssumption DEF Cells
  <2>3. (a - b - 1 + Cap) % Cap = r  BY <2>1, <2>2, <1>4, UniqueRemainder
  <2> QED  BY <2>3 DEF AvailableSpace, a, b, n, r
<1>7. CASE ~(a + n >= Cap)
  <2>1. a - b - 1 + Cap = (Cap * 0) + r
    BY <1>1, <1>2, <1>3, <1>5, <1>7, TxQueueAssumption DEF Cells
  <2>2. a - b - 1 + Cap \in Int  BY <1>2, TxQueueAssumption DEF Cells
  <2>3. (a - b - 1 + Cap) % Cap = r  BY <2>1, <2>2, <1>4, UniqueRemainder
  <2> QED  BY <2>3 DEF AvailableSpace, a, b, n, r
<1> QED  BY <1>6, <1>7

-----------------------------------------------------------------------------
(* What the copies of imp_write and imp_read do to a position.             *)

\* A write of n bytes at position t leaves a byte alone that is at an earlier
\* position and less than a turn behind the end of the write.
LEMMA CopyInKeeps ==
  ASSUME NEW t \in Nat, NEW n \in Nat, NEW p \in Nat,
         p < t, t + n - p <= Cap
  PROVE  CopyIn(Ix(t), n)[Ix(p)] = storage[Ix(p)]
<1> DEFINE d == t - p
           a == Ix(p)
           b == Ix(t)
<1>1. d \in 1 .. Cap /\ t = p + d /\ d + n <= Cap  BY TxQueueAssumption
<1>2. a \in Cells /\ b \in Cells  BY IxType
<1>3. b = IF a + d >= Cap THEN a + d - Cap ELSE a + d
  <2> HIDE DEF d
  <2> QED  BY <1>1, IxStep, TxQueueAssumption
<1> HIDE DEF d, a, b
<1>4. ~((IF a >= b THEN a - b ELSE Cap - b + a) < n)
  BY <1>1, <1>2, <1>3, TxQueueAssumption DEF Cells
<1>5. CopyIn(b, n)[a] = storage[a]  BY <1>2, <1>4 DEF CopyIn
<1> QED  BY <1>5 DEF a, b

\* The bytes of a write end up at the positions from t on.
LEMMA CopyInWrites ==
  ASSUME NEW t \in Nat, NEW n \in 0 .. Cap, NEW k \in 0 .. n - 1
  PROVE  CopyIn(Ix(t), n)[Ix(t + k)] = stamp + k
<1> DEFINE a == Ix(t + k)
           b == Ix(t)
<1>1. a \in Cells /\ b \in Cells  BY IxType, TxQueueAssumption
<1>2. a = IF b + k >= Cap THEN b + k - Cap ELSE b + k
  BY IxStep, TxQueueAssumption
<1> HIDE DEF a, b
<1>3. (IF a >= b THEN a - b ELSE Cap - b + a) = k
  BY <1>1, <1>2, TxQueueAssumption DEF Cells
<1>4. k < n  BY TxQueueAssumption
<1>5. CopyIn(b, n)[a] = stamp + k  BY <1>1, <1>3, <1>4 DEF CopyIn
<1> QED  BY <1>5 DEF a, b

\* A write stores stamps issued before it or by it.
LEMMA CopyInType ==
  ASSUME TypeOK, NEW b \in Cells, NEW n \in Nat
  PROVE  CopyIn(b, n) \in [Cells -> 0 .. (stamp + n) - 1]
<1> SUFFICES ASSUME NEW i \in Cells
             PROVE  CopyIn(b, n)[i] \in 0 .. (stamp + n) - 1
  BY DEF CopyIn
<1> DEFINE k == IF i >= b THEN i - b ELSE Cap - b + i
<1>1. k \in Nat  BY TxQueueAssumption DEF Cells
<1>2. storage[i] \in 0 .. stamp - 1 /\ stamp \in Nat \ {0}  BY DEF TypeOK
<1>3. CopyIn(b, n)[i] = IF k < n THEN stamp + k ELSE storage[i]
  BY DEF CopyIn
<1> HIDE DEF k
<1> QED  BY <1>1, <1>2, <1>3

\* The k-th byte of a read is the one at the k-th position from h on.
LEMMA CopyOutReads ==
  ASSUME NEW h \in Nat, NEW n \in 0 .. Cap, NEW k \in 1 .. n
  PROVE  CopyOut(Ix(h), n)[k] = storage[Ix(h + k - 1)]
<1> DEFINE a == Ix(h)
           j == k - 1
<1>1. j \in 0 .. Cap /\ h + k - 1 = h + j /\ a \in Cells
  BY IxType, TxQueueAssumption
<1>2. Ix(h + j) = IF a + j >= Cap THEN a + j - Cap ELSE a + j
  <2> HIDE DEF j
  <2> QED  BY <1>1, IxStep
<1>3. a + k - 1 = a + j  BY <1>1, TxQueueAssumption DEF Cells
<1>4. CopyOut(a, n)[k] =
        storage[IF a + k - 1 >= Cap THEN a + k - 1 - Cap ELSE a + k - 1]
  BY DEF CopyOut
<1> HIDE DEF a, j
<1> QED  BY <1>1, <1>2, <1>3, <1>4 DEF a

\* What one call writes and reads are sequences of n bytes.
LEMMA CopySequences ==
  ASSUME TypeOK, NEW n \in Nat, n <= Cap, NEW h \in Nat
  PROVE  /\ Stamps(n) \in Seq(Nat) /\ Len(Stamps(n)) = n
         /\ CopyOut(Ix(h), n) \in Seq(Nat) /\ Len(CopyOut(Ix(h), n)) = n
<1>1. \A k \in 1 .. n : stamp + k - 1 \in Nat  BY DEF TypeOK
<1>2. Stamps(n) \in [1 .. n -> Nat]  BY <1>1 DEF Stamps
<1>3. \A k \in 1 .. n : CopyOut(Ix(h), n)[k] \in Nat
  <2> TAKE k \in 1 .. n
  <2>1. Ix(h + k - 1) \in Cells  BY IxType
  <2>2. storage[Ix(h + k - 1)] \in Nat  BY <2>1 DEF TypeOK
  <2> QED  BY <2>2, CopyOutReads, TxQueueAssumption
<1>4. CopyOut(Ix(h), n) \in [1 .. n -> Nat]  BY <1>3 DEF CopyOut
<1> QED  BY <1>2, <1>4, LenProperties, IsASeq

-----------------------------------------------------------------------------
(* The inductive invariant.                                                *)

USE DEF Tx, Observed

\* The ring starts empty.
LEMMA InitRing == Init => RingInv
<1> SUFFICES ASSUME Init PROVE RingInv
  OBVIOUS
<1>1. << >> \in Seq(Nat) /\ Len(<< >>) = 0  BY EmptySeq
<1>2. NoTx \in Tx /\ NoTx.st = "none"  BY <1>1 DEF NoTx
<1>3. TypeOK  BY <1>1, <1>2 DEF Init, TypeOK
<1>4. Histories  BY <1>1 DEF Init, Histories
<1>5. Loadable  BY TxQueueAssumption DEF Init, Loadable
<1>6. Writing /\ Reading  BY <1>2 DEF Init, Writing, Reading
<1>7. UnreadIntact  BY DEF Init, UnreadIntact
<1> QED  BY <1>3, <1>4, <1>5, <1>6, <1>7 DEF RingInv

\* The bounds between the positions that the steps of both threads rest on.
LEMMA Positions ==
  ASSUME RingInv
  PROVE  /\ head \in Nat /\ tail \in Nat /\ head <= tail /\ tail - head < Cap
         /\ wtx.st = "open" =>
              /\ wtx.at \in Nat /\ wtx.seen \in Nat
              /\ wtx.seen <= head /\ tail <= wtx.at /\ wtx.at - wtx.seen < Cap
              /\ wtx.data \in Seq(Nat) /\ Len(wtx.data) \in Nat
         /\ rtx.st = "open" =>
              /\ rtx.at \in Nat /\ rtx.seen \in Nat
              /\ head <= rtx.at /\ rtx.at <= rtx.seen /\ rtx.seen <= tail
              /\ rtx.data \in Seq(Nat) /\ Len(rtx.data) \in Nat
<1>1. head \in Nat /\ tail \in Nat /\ head <= tail /\ tail - head < Cap
  BY DEF RingInv, TypeOK, Histories, Loadable
<1>2. ASSUME wtx.st = "open"
      PROVE  /\ wtx.at \in Nat /\ wtx.seen \in Nat
             /\ wtx.seen <= head /\ tail <= wtx.at /\ wtx.at - wtx.seen < Cap
             /\ wtx.data \in Seq(Nat) /\ Len(wtx.data) \in Nat
  <2>1. wtx.at \in Nat /\ wtx.seen \in Nat /\ wtx.data \in Seq(Nat)
    BY DEF RingInv, TypeOK
  <2>2. Len(wtx.data) \in Nat  BY <2>1, LenProperties
  <2> QED  BY <1>1, <1>2, <2>1, <2>2 DEF RingInv, Writing
<1>3. ASSUME rtx.st = "open"
      PROVE  /\ rtx.at \in Nat /\ rtx.seen \in Nat
             /\ head <= rtx.at /\ rtx.at <= rtx.seen /\ rtx.seen <= tail
             /\ rtx.data \in Seq(Nat) /\ Len(rtx.data) \in Nat
  <2>1. rtx.at \in Nat /\ rtx.seen \in Nat /\ rtx.data \in Seq(Nat)
    BY DEF RingInv, TypeOK
  <2>2. Len(rtx.data) \in Nat  BY <2>1, LenProperties
  <2> QED  BY <1>1, <1>3, <2>1, <2>2 DEF RingInv, Reading
<1> QED  BY <1>1, <1>2, <1>3

\* A write of n bytes that relies on the value seen of head_ and leaves the
\* values from seen on loadable: what both branches of Write come down to.
WriteEffect(n, seen) ==
  /\ wtx.st = "open" /\ wtx.seen <= seen /\ seen <= head
  /\ n <= AvailableSpace(seen, wtx.at)
  /\ headStores' \subseteq headStores /\ head \in headStores'
  /\ \A h \in headStores' : seen <= h
  /\ wtx' = [wtx EXCEPT !.seen = seen, !.at = @ + n, !.data = @ \o Stamps(n)]
  /\ storage' = CopyIn(Ix(wtx.at), n) /\ stamp' = stamp + n
  /\ UNCHANGED <<head, tail, tailStores, rtx, sent, rcvd>>

\* The room computed from a stale head_ is room indeed: such a write keeps
\* the invariant.
LEMMA WriteStep ==
  ASSUME RingInv, NEW n \in Nat, NEW seen \in Nat, WriteEffect(n, seen)
  PROVE  RingInv'
<1>0. TypeOK /\ Histories /\ Loadable /\ Writing /\ Reading /\ UnreadIntact
  BY DEF RingInv
<1>e. /\ wtx.st = "open" /\ wtx.seen <= seen /\ seen <= head
      /\ n <= AvailableSpace(seen, wtx.at)
  BY DEF WriteEffect
<1>f. /\ head' = head /\ tail' = tail /\ tailStores' = tailStores /\ rtx' = rtx
      /\ sent' = sent /\ rcvd' = rcvd /\ stamp' = stamp + n
      /\ storage' = CopyIn(Ix(wtx.at), n)
  BY DEF WriteEffect
<1>g. /\ headStores' \subseteq headStores /\ head \in headStores'
      /\ \A h \in headStores' : seen <= h
  BY DEF WriteEffect
<1>1. /\ head \in Nat /\ tail \in Nat /\ head <= tail /\ tail <= wtx.at
      /\ wtx.at \in Nat /\ wtx.seen \in Nat /\ wtx.at - wtx.seen < Cap
      /\ wtx.data \in Seq(Nat) /\ Len(wtx.data) \in Nat
      /\ stamp \in Nat \ {0}
  BY <1>e, Positions DEF RingInv, TypeOK
<1>2. seen <= wtx.at /\ wtx.at - seen < Cap  BY <1>1, <1>e, TxQueueAssumption
<1>3. n <= Cap - 1 - (wtx.at - seen)  BY <1>1, <1>2, <1>e, SpaceLeft
<1>4. n <= Cap /\ n \in 0 .. Cap /\ wtx.at + n - seen < Cap
  BY <1>1, <1>2, <1>3, TxQueueAssumption
<1>5. Stamps(n) \in Seq(Nat) /\ Len(Stamps(n)) = n
  BY <1>0, <1>1, <1>4, CopySequences
<1> DEFINE d == wtx.data \o Stamps(n)
<1>6. /\ d \in Seq(Nat) /\ Len(d) = Len(wtx.data) + n
      /\ \A i \in 1 .. Len(wtx.data) + n :
           d[i] = IF i <= Len(wtx.data) THEN wtx.data[i]
                                        ELSE Stamps(n)[i - Len(wtx.data)]
  <2> DEFINE s1 == wtx.data
             s2 == Stamps(n)
  <2>1. s1 \in Seq(Nat) /\ s2 \in Seq(Nat) /\ Len(s2) = n  BY <1>1, <1>5
  <2> HIDE DEF s1, s2
  <2>2. /\ s1 \o s2 \in Seq(Nat) /\ Len(s1 \o s2) = Len(s1) + Len(s2)
        /\ \A i \in 1 .. Len(s1) + Len(s2) :
             (s1 \o s2)[i] = IF i <= Len(s1) THEN s1[i] ELSE s2[i - Len(s1)]
    BY <2>1, ConcatProperties
  <2> QED  BY <2>1, <2>2 DEF s1, s2
<1>7. wtx' = [wtx EXCEPT !.seen = seen, !.at = @ + n, !.data = d]
  BY DEF WriteEffect
<1> HIDE DEF d
<1>8. Len(d) \in Nat /\ Len(d) = Len(wtx.data) + n  BY <1>1, <1>6
<1>a. /\ wtx'.st = "open" /\ wtx'.at = wtx.at + n /\ wtx'.seen = seen
      /\ wtx'.data = d /\ wtx' \in Tx
  <2>1. wtx \in Tx  BY <1>0 DEF TypeOK
  <2>2. wtx.at + n \in Nat  BY <1>1
  <2> QED  BY <1>6, <1>7, <1>e, <2>1, <2>2
<1>b. TypeOK'
  <2>1. Ix(wtx.at) \in Cells  BY <1>1, IxType
  <2>2. CopyIn(Ix(wtx.at), n) \in [Cells -> 0 .. (stamp + n) - 1]
    BY <1>0, <2>1, CopyInType
  <2>3. stamp + n \in Nat \ {0}  BY <1>1
  <2>4. storage' \in [Cells -> 0 .. stamp' - 1]
    BY <1>f, <2>2
  <2>5. headStores' \in SUBSET Nat  BY <1>0, <1>g DEF TypeOK
  <2> QED  BY <1>0, <1>a, <1>f, <2>3, <2>4, <2>5 DEF TypeOK
<1>9. Histories'  BY <1>0, <1>f DEF Histories
<1>10. Loadable'  BY <1>0, <1>f, <1>g DEF Loadable
<1>11. Reading'  BY <1>0, <1>f DEF Reading
\* Positions from the oldest loadable head_ on keep their bytes.
<1>12. ASSUME NEW p \in Nat, head <= p, p < wtx.at
       PROVE  storage'[Ix(p)] = storage[Ix(p)]
  <2>1. wtx.at + n - p <= Cap  BY <1>1, <1>4, <1>12, <1>e, TxQueueAssumption
  <2> QED  BY <1>1, <1>12, <1>f, <2>1, CopyInKeeps
<1>13. UnreadIntact'
  BY <1>0, <1>1, <1>12, <1>f DEF UnreadIntact
<1>14. ASSUME NEW k \in 1 .. Len(d)
       PROVE  storage'[Ix(tail + k - 1)] = d[k]
  <2>1. wtx.at = tail + Len(wtx.data)  BY <1>0, <1>e DEF Writing
  <2>2. CASE k <= Len(wtx.data)
    <3>1. /\ tail + k - 1 \in Nat /\ head <= tail + k - 1 /\ tail + k - 1 < wtx.at
          /\ k \in 1 .. Len(wtx.data)
      BY <1>1, <1>8, <2>1, <2>2
    <3>2. storage'[Ix(tail + k - 1)] = storage[Ix(tail + k - 1)]
      BY <1>12, <3>1
    <3>3. storage[Ix(tail + k - 1)] = wtx.data[k]  BY <1>0, <1>e, <3>1 DEF Writing
    <3> QED  BY <1>1, <1>6, <1>8, <2>2, <3>2, <3>3
  <2>3. CASE k > Len(wtx.data)
    <3> DEFINE j == k - Len(wtx.data)
    <3>0. k \in Nat /\ Len(wtx.data) < k /\ k <= Len(wtx.data) + n
      BY <1>1, <1>8, <2>3
    <3>1. j \in 1 .. n /\ j - 1 \in 0 .. n - 1 /\ tail + k - 1 = wtx.at + (j - 1)
      <4> DEFINE m == Len(wtx.data)
                 a == wtx.at
      <4>1. /\ m \in Nat /\ tail \in Nat /\ a = tail + m
            /\ k \in Nat /\ m < k /\ k <= m + n
        BY <1>1, <2>1, <3>0
      <4> HIDE DEF m, a
      <4>2. k - m \in 1 .. n /\ k - m - 1 \in 0 .. n - 1  BY <4>1
      <4>3. tail + k - 1 = a + (k - m - 1)  BY <4>1
      <4> QED  BY <4>2, <4>3 DEF m, a
    <3>2. storage'[Ix(wtx.at + (j - 1))] = stamp + (j - 1)
      BY <1>1, <1>4, <1>f, <3>1, CopyInWrites
    <3>3. d[k] = Stamps(n)[j]  BY <1>1, <1>6, <1>8, <2>3
    <3>4. Stamps(n)[j] = stamp + j - 1  BY <3>1 DEF Stamps
    <3>5. stamp + (j - 1) = stamp + j - 1  BY <1>1, <3>1
    <3> QED  BY <3>1, <3>2, <3>3, <3>4, <3>5
  <2> QED  BY <1>1, <2>2, <2>3
<1>15. Writing'
  <2>1. wtx.at = tail + Len(wtx.data)  BY <1>0, <1>e DEF Writing
  <2>2. wtx'.at = tail' + Len(wtx'.data)  BY <1>1, <1>8, <1>a, <1>f, <2>1
  <2>3. wtx'.seen <= head' /\ wtx'.at - wtx'.seen < Cap
    BY <1>1, <1>4, <1>a, <1>e, <1>f
  <2>4. \A h \in headStores' : wtx'.seen <= h  BY <1>a, <1>g
  <2>5. \A k \in 1 .. Len(wtx'.data) : storage'[Ix(tail' + k - 1)] = wtx'.data[k]
    BY <1>14, <1>a, <1>f DEF Ix
  <2> QED  BY <2>2, <2>3, <2>4, <2>5 DEF Writing, Ix
<1> QED  BY <1>b, <1>9, <1>10, <1>11, <1>13, <1>15 DEF RingInv

\* A read of n bytes that relies on the value seen of tail_: what both
\* branches of Read come down to.
ReadEffect(n, seen) ==
  /\ rtx.st = "open" /\ rtx.seen <= seen /\ seen <= tail
  /\ n <= AvailableData(seen, rtx.at)
  /\ tailStores' \subseteq tailStores /\ tail \in tailStores'
  /\ \A t \in tailStores' : seen <= t
  /\ rtx' = [rtx EXCEPT !.seen = seen, !.at = @ + n,
                         !.data = @ \o CopyOut(Ix(rtx.at), n)]
  /\ UNCHANGED <<storage, head, tail, headStores, wtx, stamp, sent, rcvd>>

\* A read copies published bytes only, and copies them in order.
LEMMA ReadStep ==
  ASSUME RingInv, NEW n \in Nat, NEW seen \in Nat, ReadEffect(n, seen)
  PROVE  RingInv'
<1>0. TypeOK /\ Histories /\ Loadable /\ Writing /\ Reading /\ UnreadIntact
  BY DEF RingInv
<1>e. /\ rtx.st = "open" /\ rtx.seen <= seen /\ seen <= tail
      /\ n <= AvailableData(seen, rtx.at)
  BY DEF ReadEffect
<1>f. /\ head' = head /\ tail' = tail /\ headStores' = headStores /\ wtx' = wtx
      /\ sent' = sent /\ rcvd' = rcvd /\ stamp' = stamp /\ storage' = storage
  BY DEF ReadEffect
<1>g. /\ tailStores' \subseteq tailStores /\ tail \in tailStores'
      /\ \A t \in tailStores' : seen <= t
  BY DEF ReadEffect
<1>1. /\ head \in Nat /\ tail \in Nat /\ head <= rtx.at /\ tail - head < Cap
      /\ rtx.at \in Nat /\ rtx.seen \in Nat /\ rtx.at <= rtx.seen
      /\ rtx.data \in Seq(Nat) /\ Len(rtx.data) \in Nat
  BY <1>e, Positions
<1>2. rtx.at <= seen /\ seen - rtx.at < Cap  BY <1>1, <1>e, TxQueueAssumption
<1>3. n <= seen - rtx.at  BY <1>1, <1>2, <1>e, DataBetween
<1>4. n <= Cap /\ n \in 0 .. Cap /\ rtx.at + n <= seen
  BY <1>1, <1>2, <1>3, TxQueueAssumption
<1>5. /\ CopyOut(Ix(rtx.at), n) \in Seq(Nat)
      /\ Len(CopyOut(Ix(rtx.at), n)) = n
  BY <1>0, <1>1, <1>4, CopySequences
<1> DEFINE s1 == rtx.data
           s2 == CopyOut(Ix(rtx.at), n)
           d == s1 \o s2
           m == Len(s1)
<1>6. s1 \in Seq(Nat) /\ s2 \in Seq(Nat) /\ m \in Nat /\ Len(s2) = n
  BY <1>1, <1>5
<1>7. rtx' = [rtx EXCEPT !.seen = seen, !.at = @ + n, !.data = d]
  BY DEF ReadEffect
<1>8. /\ d \in Seq(Nat) /\ Len(d) = m + n
      /\ \A i \in 1 .. m + n : d[i] = IF i <= m THEN s1[i] ELSE s2[i - m]
  <2> HIDE DEF s1, s2
  <2> QED  BY <1>6, ConcatProperties
<1>9. rtx.at = head + m  BY <1>0, <1>e DEF Reading
<1>10. \A k \in 1 .. m : s1[k] = sent[head + k]  BY <1>0, <1>e DEF Reading
<1>11. \A k \in 1 .. n : s2[k] = storage[Ix(rtx.at + k - 1)]
  BY <1>1, <1>4, CopyOutReads
<1> DEFINE a == rtx.at
<1>12. /\ a \in Nat /\ a = head + m /\ a + n <= seen /\ head <= a /\ seen <= tail
  BY <1>1, <1>4, <1>9, <1>e
<1>13. \A k \in 1 .. n : s2[k] = storage[Ix(a + k - 1)]  BY <1>11
<1> HIDE DEF d, s1, s2, m, a
<1>14. /\ rtx'.st = "open" /\ rtx'.at = a + n /\ rtx'.seen = seen
       /\ rtx'.data = d /\ rtx' \in Tx
  <2>1. rtx \in Tx  BY <1>0 DEF TypeOK
  <2>2. rtx.at + n \in Nat  BY <1>1
  <2> QED  BY <1>7, <1>8, <1>e, <2>1, <2>2 DEF a
<1>15. TypeOK'
  <2>1. tailStores' \in SUBSET Nat  BY <1>0, <1>g DEF TypeOK
  <2> QED  BY <1>0, <1>14, <1>f, <2>1 DEF TypeOK
<1>16. Histories'  BY <1>0, <1>f DEF Histories
<1>17. Loadable'  BY <1>0, <1>f, <1>g DEF Loadable
<1>18. Writing'  BY <1>0, <1>f DEF Writing, Ix
<1>19. UnreadIntact'  BY <1>0, <1>f DEF UnreadIntact, Ix
<1>20. ASSUME NEW k \in 1 .. m + n
       PROVE  d[k] = sent[head + k]
  <2>1. CASE k <= m  BY <1>6, <1>8, <1>10, <2>1
  <2>2. CASE m < k
    <3>1. k - m \in 1 .. n  BY <1>6, <2>2
    <3>2. d[k] = storage[Ix(a + (k - m) - 1)]  BY <1>6, <1>8, <1>13, <2>2, <3>1
    <3>3. /\ a + (k - m) - 1 = head + k - 1
          /\ head + k - 1 \in head .. tail - 1
          /\ (head + k - 1) + 1 = head + k
      BY <1>1, <1>6, <1>12, <1>e, <2>2, <3>1
    <3>4. storage[Ix(head + k - 1)] = sent[(head + k - 1) + 1]
      BY <1>0, <3>3 DEF UnreadIntact
    <3> QED  BY <3>2, <3>3, <3>4
  <2> QED  BY <1>6, <2>1, <2>2
<1>21. Reading'
  <2>1. rtx'.at = head' + Len(rtx'.data)
    <3>1. a + n = head + (m + n)  BY <1>1, <1>6, <1>12
    <3> QED  BY <3>1, <1>8, <1>14, <1>f
  <2>2. rtx'.at <= rtx'.seen /\ rtx'.seen <= tail'  BY <1>12, <1>14, <1>f
  <2>3. \A t \in tailStores' : rtx'.seen <= t  BY <1>14, <1>g
  <2>4. \A k \in 1 .. Len(rtx'.data) : rtx'.data[k] = sent'[head' + k]
    BY <1>8, <1>14, <1>20, <1>f
  <2> QED  BY <2>1, <2>2, <2>3, <2>4 DEF Reading
<1> QED  BY <1>15, <1>16, <1>17, <1>18, <1>19, <1>21 DEF RingInv

\* Committing a write appends the transaction's bytes to the stream.
LEMMA WriteEndStep ==
  ASSUME RingInv, WriteEnd
  PROVE  RingInv'
<1>0. TypeOK /\ Histories /\ Loadable /\ Writing /\ Reading /\ UnreadIntact
  BY DEF RingInv
<1>1. NoTx \in Tx /\ NoTx.st = "none"  BY EmptySeq DEF NoTx
<1>2. CASE wtx.st # "open"
  <2>1. /\ wtx' = NoTx
        /\ UNCHANGED <<storage, head, tail, headStores, tailStores, rtx, stamp,
                       sent, rcvd>>
    BY <1>2 DEF WriteEnd
  <2>2. TypeOK'  BY <1>0, <1>1, <2>1 DEF TypeOK
  <2>3. Histories' /\ Loadable' /\ Reading' /\ UnreadIntact'
    BY <1>0, <2>1 DEF Histories, Loadable, Reading, UnreadIntact, Ix
  <2>4. Writing'  BY <1>1, <2>1 DEF Writing
  <2> QED  BY <2>2, <2>3, <2>4 DEF RingInv
<1>3. CASE wtx.st = "open"
  <2> DEFINE d == wtx.data
             m == Len(d)
             a == wtx.at
             s == sent \o d
  <2>1. /\ tail' = a /\ tailStores' = tailStores \union {a} /\ sent' = s
        /\ wtx' = NoTx
        /\ storage' = storage /\ head' = head /\ headStores' = headStores
        /\ rtx' = rtx /\ stamp' = stamp /\ rcvd' = rcvd
    BY <1>3 DEF WriteEnd
  <2>2. /\ head \in Nat /\ tail \in Nat /\ a \in Nat /\ m \in Nat
        /\ head <= tail /\ wtx.seen \in Nat /\ a - wtx.seen < Cap
        /\ d \in Seq(Nat) /\ sent \in Seq(Nat)
    BY <1>0, <1>3, Positions DEF TypeOK
  <2>3. a = tail + m /\ Len(sent) = tail  BY <1>0, <1>3 DEF Writing, Histories
  <2>4. \A h \in headStores : wtx.seen <= h /\ h \in Nat
    BY <1>0, <1>3 DEF Writing, TypeOK
  <2>5. \A k \in 1 .. m : storage[Ix(tail + k - 1)] = d[k]
    BY <1>0, <1>3 DEF Writing
  <2>6. /\ s \in Seq(Nat) /\ Len(s) = tail + m
        /\ \A i \in 1 .. tail + m : s[i] = IF i <= tail THEN sent[i] ELSE d[i - tail]
    <3> HIDE DEF d, m
    <3>1. Len(d) = m  BY DEF m
    <3> QED  BY <2>2, <2>3, <3>1, ConcatProperties
  <2> HIDE DEF d, m, a, s
  <2>7. TypeOK'  BY <1>0, <1>1, <2>1, <2>2, <2>6 DEF TypeOK
  <2>8. Histories'
    <3>1. \A p \in 1 .. head : rcvd[p] = s[p]
      BY <1>0, <2>2, <2>6 DEF Histories
    <3>2. head <= a /\ Len(s) = a /\ Len(rcvd) = head
      BY <1>0, <2>2, <2>3, <2>6 DEF Histories
    <3> QED  BY <2>1, <3>1, <3>2 DEF Histories
  <2>9. Loadable'
    <3>1. \A h \in headStores : h <= head /\ a - h < Cap
      BY <1>0, <2>2, <2>4, TxQueueAssumption DEF Loadable
    <3>2. \A t \in tailStores \union {a} : head <= t /\ t <= a
      <4> TAKE t \in tailStores \union {a}
      <4>1. CASE t \in tailStores
        <5>1. head <= t /\ t <= tail /\ t \in Nat
          BY <1>0, <4>1 DEF Loadable, TypeOK
        <5> QED  BY <2>2, <2>3, <5>1
      <4>2. CASE t = a  BY <2>2, <2>3, <4>2
      <4> QED  BY <4>1, <4>2
    <3>3. head \in headStores  BY <1>0 DEF Loadable
    <3> QED  BY <2>1, <3>1, <3>2, <3>3 DEF Loadable
  <2>10. Writing'  BY <1>1, <2>1 DEF Writing
  <2>11. Reading'
    <3> SUFFICES ASSUME rtx.st = "open" PROVE Reading'
      BY <2>1 DEF Reading
    <3>1. /\ rtx.at = head + Len(rtx.data) /\ rtx.at <= rtx.seen
          /\ rtx.seen <= tail /\ \A t \in tailStores : rtx.seen <= t
          /\ \A k \in 1 .. Len(rtx.data) : rtx.data[k] = sent[head + k]
      BY <1>0 DEF Reading
    <3>2. rtx.seen \in Nat /\ rtx.at \in Nat /\ Len(rtx.data) \in Nat
      BY Positions
    <3>3. rtx.seen <= a  BY <2>2, <2>3, <3>1, <3>2
    <3>4. \A k \in 1 .. Len(rtx.data) : rtx.data[k] = s[head + k]
      <4> DEFINE r == Len(rtx.data)
      <4>1. head + r <= tail /\ r \in Nat  BY <2>2, <3>1, <3>2
      <4> HIDE DEF r
      <4>2. \A k \in 1 .. r : head + k \in 1 .. tail + m /\ head + k <= tail
        BY <2>2, <4>1
      <4>3. \A k \in 1 .. r : s[head + k] = sent[head + k]  BY <2>6, <4>2
      <4> QED  BY <3>1, <4>3 DEF r
    <3> QED  BY <2>1, <3>1, <3>3, <3>4 DEF Reading
  <2>12. UnreadIntact'
    <3>1. ASSUME NEW p \in head .. a - 1
          PROVE  storage[Ix(p)] = s[p + 1]
      <4>1. CASE p < tail
        <5>1. storage[Ix(p)] = sent[p + 1]
          BY <1>0, <2>2, <4>1 DEF UnreadIntact
        <5>2. p + 1 \in 1 .. tail + m /\ p + 1 <= tail  BY <2>2, <4>1
        <5> QED  BY <2>6, <5>1, <5>2
      <4>2. CASE tail <= p
        <5> DEFINE k == (p + 1) - tail
        <5>1. k \in 1 .. m /\ p = tail + k - 1 /\ (p + 1) - tail = k
          BY <2>2, <2>3, <4>2
        <5>2. p + 1 \in 1 .. tail + m /\ ~(p + 1 <= tail)
          BY <2>2, <2>3, <4>2
        <5> HIDE DEF k
        <5>3. storage[Ix(p)] = d[k]  BY <2>5, <5>1
        <5>4. s[p + 1] = d[k]  BY <2>6, <5>1, <5>2
        <5> QED  BY <5>3, <5>4
      <4> QED  BY <2>2, <4>1, <4>2
    <3> QED  BY <2>1, <3>1 DEF UnreadIntact, Ix
  <2> QED  BY <2>7, <2>8, <2>9, <2>10, <2>11, <2>12 DEF RingInv
<1> QED  BY <1>2, <1>3

\* Committing a read releases the cells and extends what was received.
LEMMA ReadEndStep ==
  ASSUME RingInv, ReadEnd
  PROVE  RingInv'
<1>0. TypeOK /\ Histories /\ Loadable /\ Writing /\ Reading /\ UnreadIntact
  BY DEF RingInv
<1>1. NoTx \in Tx /\ NoTx.st = "none"  BY EmptySeq DEF NoTx
<1>2. CASE rtx.st # "open"
  <2>1. /\ rtx' = NoTx
        /\ UNCHANGED <<storage, head, tail, headStores, tailStores, wtx, stamp,
                       sent, rcvd>>
    BY <1>2 DEF ReadEnd
  <2>2. TypeOK'  BY <1>0, <1>1, <2>1 DEF TypeOK
  <2>3. Histories' /\ Loadable' /\ Writing' /\ UnreadIntact'
    BY <1>0, <2>1 DEF Histories, Loadable, Writing, UnreadIntact, Ix
  <2>4. Reading'  BY <1>1, <2>1 DEF Reading
  <2> QED  BY <2>2, <2>3, <2>4 DEF RingInv
<1>3. CASE rtx.st = "open"
  <2> DEFINE d == rtx.data
             m == Len(d)
             a == rtx.at
             r == rcvd \o d
  <2>1. /\ head' = a /\ headStores' = headStores \union {a} /\ rcvd' = r
        /\ rtx' = NoTx
        /\ storage' = storage /\ tail' = tail /\ tailStores' = tailStores
        /\ wtx' = wtx /\ stamp' = stamp /\ sent' = sent
    BY <1>3 DEF ReadEnd
  <2>2. /\ head \in Nat /\ tail \in Nat /\ a \in Nat /\ m \in Nat
        /\ rtx.seen \in Nat /\ a <= rtx.seen /\ rtx.seen <= tail
        /\ tail - head < Cap
        /\ d \in Seq(Nat) /\ rcvd \in Seq(Nat)
    BY <1>0, <1>3, Positions DEF TypeOK
  <2>3. a = head + m /\ Len(rcvd) = head  BY <1>0, <1>3 DEF Reading, Histories
  <2>4. \A t \in tailStores : rtx.seen <= t /\ t \in Nat /\ t <= tail
    BY <1>0, <1>3 DEF Reading, TypeOK, Loadable
  <2>5. \A k \in 1 .. m : d[k] = sent[head + k]  BY <1>0, <1>3 DEF Reading
  <2>6. /\ r \in Seq(Nat) /\ Len(r) = head + m
        /\ \A i \in 1 .. head + m : r[i] = IF i <= head THEN rcvd[i] ELSE d[i - head]
    <3> HIDE DEF d, m
    <3>1. Len(d) = m  BY DEF m
    <3> QED  BY <2>2, <2>3, <3>1, ConcatProperties
  <2> HIDE DEF d, m, a, r
  <2>7. TypeOK'  BY <1>0, <1>1, <2>1, <2>2, <2>6 DEF TypeOK
  <2>8. Histories'
    <3>1. ASSUME NEW p \in 1 .. a
          PROVE  r[p] = sent[p]
      <4>1. CASE p <= head
        BY <1>0, <2>2, <2>3, <2>6, <4>1 DEF Histories
      <4>2. CASE head < p
        <5>1. p - head \in 1 .. m /\ p \in 1 .. head + m /\ ~(p <= head)
              /\ head + (p - head) = p
          BY <2>2, <2>3, <4>2
        <5> QED  BY <2>5, <2>6, <5>1
      <4> QED  BY <2>2, <4>1, <4>2
    <3>2. a <= tail /\ Len(r) = a /\ Len(sent) = tail
      BY <1>0, <2>2, <2>3, <2>6 DEF Histories
    <3> QED  BY <2>1, <3>1, <3>2 DEF Histories
  <2>9. Loadable'
    <3>1. \A h \in headStores \union {a} : h <= a /\ tail - h < Cap
      <4> TAKE h \in headStores \union {a}
      <4>1. CASE h \in headStores
        <5>1. h <= head /\ tail - h < Cap /\ h \in Nat
          BY <1>0, <4>1 DEF Loadable, TypeOK
        <5> QED  BY <2>2, <2>3, <5>1
      <4>2. CASE h = a  BY <2>2, <2>3, <4>2, TxQueueAssumption
      <4> QED  BY <4>1, <4>2
    <3>2. \A t \in tailStores : a <= t /\ t <= tail  BY <2>2, <2>4
    <3>3. tail \in tailStores  BY <1>0 DEF Loadable
    <3> QED  BY <2>1, <3>1, <3>2, <3>3 DEF Loadable
  <2>10. Reading'  BY <1>1, <2>1 DEF Reading
  <2>11. Writing'
    <3> SUFFICES ASSUME wtx.st = "open" PROVE Writing'
      BY <2>1 DEF Writing
    <3>1. /\ wtx.at = tail + Len(wtx.data) /\ wtx.seen <= head
          /\ wtx.at - wtx.seen < Cap /\ \A h \in headStores : wtx.seen <= h
          /\ \A k \in 1 .. Len(wtx.data) :
               storage[Ix(tail + k - 1)] = wtx.data[k]
      BY <1>0 DEF Writing
    <3>2. wtx.seen \in Nat  BY Positions
    <3>3. wtx.seen <= a  BY <2>2, <2>3, <3>1, <3>2
    <3> QED  BY <2>1, <3>1, <3>3 DEF Writing, Ix
  <2>12. UnreadIntact'
    <3>1. \A p \in a .. tail - 1 : p \in head .. tail - 1  BY <2>2, <2>3
    <3> QED  BY <1>0, <2>1, <3>1 DEF UnreadIntact, Ix
  <2> QED  BY <2>7, <2>8, <2>9, <2>10, <2>11, <2>12 DEF RingInv
<1> QED  BY <1>2, <1>3

\* Looking at the other thread's index prunes the values still loadable, but
\* never the current one.
LEMMA ObservedHead ==
  ASSUME RingInv, NEW h \in headStores
  PROVE  /\ h \in Nat /\ h <= head
         /\ Observed(headStores, h) \subseteq headStores
         /\ head \in Observed(headStores, h)
         /\ \A x \in Observed(headStores, h) : h <= x
  BY DEF RingInv, TypeOK, Loadable

LEMMA ObservedTail ==
  ASSUME RingInv, NEW t \in tailStores
  PROVE  /\ t \in Nat /\ head <= t /\ t <= tail
         /\ Observed(tailStores, t) \subseteq tailStores
         /\ tail \in Observed(tailStores, t)
         /\ \A x \in Observed(tailStores, t) : t <= x
  BY DEF RingInv, TypeOK, Loadable

\* A step of the producer that copies and publishes nothing.
WriterTurns(tx, stores) ==
  /\ wtx' = tx /\ headStores' = stores
  /\ UNCHANGED <<storage, head, tail, tailStores, rtx, stamp, sent, rcvd>>

LEMMA WriterTurnsStep ==
  ASSUME RingInv, NEW tx \in Tx, NEW stores \in SUBSET headStores,
         head \in stores, WriterTurns(tx, stores),
         tx.st = "open" =>
           /\ tx.at = tail /\ tx.data = << >>
           /\ tx.seen \in headStores /\ \A x \in stores : tx.seen <= x
  PROVE  RingInv'
<1>0. TypeOK /\ Histories /\ Loadable /\ Writing /\ Reading /\ UnreadIntact
  BY DEF RingInv
<1>1. /\ wtx' = tx /\ headStores' = stores /\ storage' = storage /\ head' = head
      /\ tail' = tail /\ tailStores' = tailStores /\ rtx' = rtx /\ stamp' = stamp
      /\ sent' = sent /\ rcvd' = rcvd
  BY DEF WriterTurns
<1>2. TypeOK'  BY <1>0, <1>1 DEF TypeOK
<1>3. Histories'  BY <1>0, <1>1 DEF Histories
<1>4. Loadable'  BY <1>0, <1>1 DEF Loadable
<1>5. Reading'  BY <1>0, <1>1 DEF Reading
<1>6. UnreadIntact'  BY <1>0, <1>1 DEF UnreadIntact, Ix
<1>7. Writing'
  <2> SUFFICES ASSUME tx.st = "open" PROVE Writing'
    BY <1>1 DEF Writing
  <2>0. Len(<< >>) = 0 /\ tail \in Nat  BY <1>0, EmptySeq DEF TypeOK
  <2>1. Len(tx.data) = 0 /\ tail \in Nat /\ tx.at = tail + Len(tx.data)
    BY <2>0
  <2>2. tx.seen <= head /\ tx.at - tx.seen < Cap  BY <1>0 DEF Loadable
  <2> QED  BY <1>1, <2>1, <2>2 DEF Writing
<1> QED  BY <1>2, <1>3, <1>4, <1>5, <1>6, <1>7 DEF RingInv

\* A step of the consumer that copies and releases nothing.
ReaderTurns(tx, stores) ==
  /\ rtx' = tx /\ tailStores' = stores
  /\ UNCHANGED <<storage, head, tail, headStores, wtx, stamp, sent, rcvd>>

LEMMA ReaderTurnsStep ==
  ASSUME RingInv, NEW tx \in Tx, NEW stores \in SUBSET tailStores,
         tail \in stores, ReaderTurns(tx, stores),
         tx.st = "open" =>
           /\ tx.at = head /\ tx.data = << >>
           /\ tx.seen \in tailStores /\ \A x \in stores : tx.seen <= x
  PROVE  RingInv'
<1>0. TypeOK /\ Histories /\ Loadable /\ Writing /\ Reading /\ UnreadIntact
  BY DEF RingInv
<1>1. /\ rtx' = tx /\ tailStores' = stores /\ storage' = storage /\ head' = head
      /\ tail' = tail /\ headStores' = headStores /\ wtx' = wtx /\ stamp' = stamp
      /\ sent' = sent /\ rcvd' = rcvd
  BY DEF ReaderTurns
<1>2. TypeOK'  BY <1>0, <1>1 DEF TypeOK
<1>3. Histories'  BY <1>0, <1>1 DEF Histories
<1>4. Loadable'  BY <1>0, <1>1 DEF Loadable
<1>5. Writing'  BY <1>0, <1>1 DEF Writing, Ix
<1>6. UnreadIntact'  BY <1>0, <1>1 DEF UnreadIntact, Ix
<1>7. Reading'
  <2> SUFFICES ASSUME tx.st = "open" PROVE Reading'
    BY <1>1 DEF Reading
  <2>0. Len(<< >>) = 0 /\ head \in Nat  BY <1>0, EmptySeq DEF TypeOK
  <2>1. Len(tx.data) = 0 /\ head \in Nat /\ tx.at = head + Len(tx.data)
    BY <2>0
  <2>2. tx.at <= tx.seen /\ tx.seen <= tail  BY <1>0 DEF Loadable
  <2> QED  BY <1>1, <2>1, <2>2 DEF Reading
<1> QED  BY <1>2, <1>3, <1>4, <1>5, <1>6, <1>7 DEF RingInv

\* Every step of either thread keeps the invariant.
LEMMA NextRing == RingInv /\ [Next]_vars => RingInv'
<1> SUFFICES ASSUME RingInv, [Next]_vars PROVE RingInv'
  OBVIOUS
<1>0. /\ head \in headStores /\ tail \in tailStores /\ head \in Nat /\ tail \in Nat
      /\ wtx \in Tx /\ rtx \in Tx /\ << >> \in Seq(Nat)
      /\ headStores \in SUBSET Nat /\ tailStores \in SUBSET Nat
  BY EmptySeq DEF RingInv, TypeOK, Loadable
<1>1. CASE WriteBegin
  <2>1. PICK h \in headStores :
          /\ wtx' = [st |-> "open", at |-> tail, seen |-> h, data |-> << >>]
          /\ headStores' = Observed(headStores, h)
    BY <1>1 DEF WriteBegin
  <2> DEFINE tx == [st |-> "open", at |-> tail, seen |-> h, data |-> << >>]
  <2>2. WriterTurns(tx, Observed(headStores, h))
    BY <1>1, <2>1 DEF WriteBegin, WriterTurns
  <2>3. /\ tx \in Tx /\ tx.at = tail /\ tx.data = << >> /\ tx.seen = h
    BY <1>0
  <2> HIDE DEF tx
  <2> QED  BY <2>2, <2>3, ObservedHead, WriterTurnsStep
<1>2. ASSUME NEW n \in Sizes, Write(n) PROVE RingInv'
  <2>1. n \in Nat  BY TxQueueAssumption
  <2>2. wtx.st = "open" /\ wtx.seen \in Nat  BY <1>2, Positions DEF Write
  <2>3. CASE /\ n <= AvailableSpace(wtx.seen, wtx.at)
             /\ wtx' = [wtx EXCEPT !.at = @ + n, !.data = @ \o Stamps(n)]
             /\ UNCHANGED headStores
    <3>1. wtx.seen <= wtx.seen /\ wtx.seen <= head  BY <2>2, Positions
    <3>2. \A h \in headStores' : wtx.seen <= h
      BY <2>2, <2>3 DEF RingInv, Writing
    <3>3. wtx' = [wtx EXCEPT !.seen = wtx.seen, !.at = @ + n,
                             !.data = @ \o Stamps(n)]
      BY <1>0, <2>3
    <3>4. WriteEffect(n, wtx.seen)
      BY <1>0, <1>2, <2>2, <2>3, <3>1, <3>2, <3>3 DEF Write, WriteEffect
    <3> QED  BY <2>1, <2>2, <3>4, WriteStep
  <2>4. ASSUME NEW h \in headStores, n <= AvailableSpace(h, wtx.at),
               headStores' = Observed(headStores, h),
               wtx' = [wtx EXCEPT !.seen = h, !.at = @ + n,
                                  !.data = @ \o Stamps(n)]
        PROVE  RingInv'
    <3>1. wtx.seen <= h  BY <2>2 DEF RingInv, Writing
    <3>2. WriteEffect(n, h)
      BY <1>2, <2>2, <2>4, <3>1, ObservedHead DEF Write, WriteEffect
    <3> QED  BY <2>1, <3>2, ObservedHead, WriteStep
  <2> QED  BY <1>2, <2>3, <2>4 DEF Write
<1>3. ASSUME NEW n \in Sizes, WriteFull(n) PROVE RingInv'
  <2>1. PICK h \in headStores :
          /\ headStores' = Observed(headStores, h)
          /\ wtx' = [wtx EXCEPT !.st = "invalid", !.seen = h]
    BY <1>3 DEF WriteFull
  <2> DEFINE tx == [wtx EXCEPT !.st = "invalid", !.seen = h]
  <2>2. WriterTurns(tx, Observed(headStores, h))
    BY <1>3, <2>1 DEF WriteFull, WriterTurns
  <2>3. tx \in Tx /\ tx.st = "invalid"  BY <1>0
  <2> HIDE DEF tx
  <2> QED  BY <2>2, <2>3, ObservedHead, WriterTurnsStep
<1>4. CASE WriteInvalidate
  <2> DEFINE tx == [wtx EXCEPT !.st = "invalid"]
  <2>1. WriterTurns(tx, headStores)  BY <1>4 DEF WriteInvalidate, WriterTurns
  <2>2. tx \in Tx /\ tx.st = "invalid"  BY <1>0
  <2> HIDE DEF tx
  <2> QED  BY <1>0, <2>1, <2>2, WriterTurnsStep
<1>5. CASE WriteEnd  BY <1>5, WriteEndStep
<1>6. CASE ReadBegin
  <2>1. PICK t \in tailStores :
          /\ rtx' = [st |-> "open", at |-> head, seen |-> t, data |-> << >>]
          /\ tailStores' = Observed(tailStores, t)
    BY <1>6 DEF ReadBegin
  <2> DEFINE tx == [st |-> "open", at |-> head, seen |-> t, data |-> << >>]
  <2>2. ReaderTurns(tx, Observed(tailStores, t))
    BY <1>6, <2>1 DEF ReadBegin, ReaderTurns
  <2>3. /\ tx \in Tx /\ tx.at = head /\ tx.data = << >> /\ tx.seen = t
    BY <1>0
  <2> HIDE DEF tx
  <2> QED  BY <2>2, <2>3, ObservedTail, ReaderTurnsStep
<1>7. ASSUME NEW n \in Sizes, Read(n) PROVE RingInv'
  <2>1. n \in Nat  BY TxQueueAssumption
  <2>2. rtx.st = "open" /\ rtx.seen \in Nat  BY <1>7, Positions DEF Read
  <2>3. CASE /\ n <= AvailableData(rtx.seen, rtx.at)
             /\ rtx' = [rtx EXCEPT !.at = @ + n,
                                   !.data = @ \o CopyOut(Ix(rtx.at), n)]
             /\ UNCHANGED tailStores
    <3>1. rtx.seen <= rtx.seen /\ rtx.seen <= tail  BY <2>2, Positions
    <3>2. \A t \in tailStores' : rtx.seen <= t
      BY <2>2, <2>3 DEF RingInv, Reading
    <3>3. rtx' = [rtx EXCEPT !.seen = rtx.seen, !.at = @ + n,
                             !.data = @ \o CopyOut(Ix(rtx.at), n)]
      BY <1>0, <2>3
    <3>4. ReadEffect(n, rtx.seen)
      BY <1>0, <1>7, <2>2, <2>3, <3>1, <3>2, <3>3 DEF Read, ReadEffect
    <3> QED  BY <2>1, <2>2, <3>4, ReadStep
  <2>4. ASSUME NEW t \in tailStores, n <= AvailableData(t, rtx.at),
               tailStores' = Observed(tailStores, t),
               rtx' = [rtx EXCEPT !.seen = t, !.at = @ + n,
                                  !.data = @ \o CopyOut(Ix(rtx.at), n)]
        PROVE  RingInv'
    <3>1. rtx.seen <= t  BY <2>2 DEF RingInv, Reading
    <3>2. ReadEffect(n, t)
      BY <1>7, <2>2, <2>4, <3>1, ObservedTail DEF Read, ReadEffect
    <3> QED  BY <2>1, <3>2, ObservedTail, ReadStep
  <2> QED  BY <1>7, <2>3, <2>4 DEF Read
<1>8. ASSUME NEW n \in Sizes, ReadEmpty(n) PROVE RingInv'
  <2>1. PICK t \in tailStores :
          /\ tailStores' = Observed(tailStores, t)
          /\ rtx' = [rtx EXCEPT !.st = "invalid", !.seen = t]
    BY <1>8 DEF ReadEmpty
  <2> DEFINE tx == [rtx EXCEPT !.st = "invalid", !.seen = t]
  <2>2. ReaderTurns(tx, Observed(tailStores, t))
    BY <1>8, <2>1 DEF ReadEmpty, ReaderTurns
  <2>3. tx \in Tx /\ tx.st = "invalid"  BY <1>0
  <2> HIDE DEF tx
  <2> QED  BY <2>2, <2>3, ObservedTail, ReaderTurnsStep
<1>9. CASE ReadInvalidate
  <2> DEFINE tx == [rtx EXCEPT !.st = "invalid"]
  <2>1. ReaderTurns(tx, tailStores)  BY <1>9 DEF ReadInvalidate, ReaderTurns
  <2>2. tx \in Tx /\ tx.st = "invalid"  BY <1>0
  <2> HIDE DEF tx
  <2> QED  BY <1>0, <2>1, <2>2, ReaderTurnsStep
<1>10. CASE ReadEnd  BY <1>10, ReadEndStep
<1>11. CASE UNCHANGED vars
  <2>1. TypeOK' /\ Histories' /\ Loadable' /\ Writing' /\ Reading' /\ UnreadIntact'
    BY <1>11 DEF RingInv, vars, TypeOK, Histories, Loadable, Writing, Reading,
                 UnreadIntact, Ix
  <2> QED  BY <2>1 DEF RingInv
<1> QED
  BY <1>1, <1>2, <1>3, <1>4, <1>5, <1>6, <1>7, <1>8, <1>9, <1>10, <1>11
  DEF Next, Producer, Consumer

\* The ring keeps its inductive invariant in every behaviour of the two
\* threads, for every capacity and whatever stale indices they load.
THEOREM RingInvariant == Spec => []RingInv
  BY InitRing, NextRing, PTL DEF Spec

-----------------------------------------------------------------------------
(* What follows from it.                                                   *)

\* The state is well typed (the data members of src/tx_queue_wrapper.h).
THEOREM TypeCorrect == Spec => []TypeOK
<1>1. RingInv => TypeOK  BY DEF RingInv
<1> QED  BY <1>1, RingInvariant, PTL

\* imp_write never overwrites a byte the consumer has not released.
THEOREM UnreadStaysIntact == Spec => []UnreadIntact
<1>1. RingInv => UnreadIntact  BY DEF RingInv
<1> QED  BY <1>1, RingInvariant, PTL

\* One cell always stays free between the producer and the oldest head_ it
\* may still load.
THEOREM ProducerNeverLaps == Spec => []NeverLaps
<1>1. RingInv => NeverLaps
  <2> SUFFICES ASSUME RingInv, wtx.st = "open", NEW h \in headStores
               PROVE  wtx.at - h < Cap
    BY DEF NeverLaps
  <2>1. wtx.seen <= h /\ wtx.at - wtx.seen < Cap  BY DEF RingInv, Writing
  <2>2. h \in Nat /\ wtx.seen \in Nat /\ wtx.at \in Nat
    BY Positions, ObservedHead
  <2> QED  BY <2>1, <2>2, TxQueueAssumption
<1> QED  BY <1>1, RingInvariant, PTL

\* What an open read transaction has copied is the next published bytes.
THEOREM ReaderSeesPublishedBytes == Spec => []ReadsPublished
<1>1. RingInv => ReadsPublished
  <2> SUFFICES ASSUME RingInv, rtx.st = "open" PROVE ReadsPublished
    BY DEF ReadsPublished
  <2> DEFINE d == rtx.data
             m == Len(d)
             a == rtx.at
             u == SubSeq(sent, head + 1, a)
  <2>1. /\ head \in Nat /\ tail \in Nat /\ a \in Nat /\ m \in Nat /\ a = head + m
        /\ a <= tail /\ d \in Seq(Nat) /\ sent \in Seq(Nat) /\ Len(sent) = tail
        /\ \A k \in 1 .. m : d[k] = sent[head + k]
    <3>1. rtx.seen \in Nat /\ rtx.at <= rtx.seen /\ rtx.seen <= tail
      BY Positions
    <3>2. /\ rtx.at = head + Len(rtx.data) /\ Len(sent) = tail /\ sent \in Seq(Nat)
          /\ \A k \in 1 .. Len(rtx.data) : rtx.data[k] = sent[head + k]
      BY DEF RingInv, TypeOK, Reading, Histories
    <3>3. /\ head \in Nat /\ tail \in Nat /\ rtx.at \in Nat
          /\ rtx.data \in Seq(Nat) /\ Len(rtx.data) \in Nat
      BY Positions
    <3>4. rtx.at <= tail  BY <3>1, <3>3
    <3> QED  BY <3>2, <3>3, <3>4
  <2>2. Len(d) = m  OBVIOUS
  <2> HIDE DEF d, m, a, u
  <2>3. \A i \in head + 1 .. a : sent[i] \in Nat  BY <2>1, ElementOfSeq
  <2>4. /\ u \in Seq(Nat) /\ Len(u) = m
        /\ \A i \in 1 .. m : u[i] = sent[head + i]
    <3>1. /\ u \in Seq(Nat) /\ Len(u) = IF head + 1 <= a THEN a - (head + 1) + 1 ELSE 0
          /\ \A i \in 1 .. a - (head + 1) + 1 : u[i] = sent[(head + 1) + i - 1]
      BY <2>1, <2>3, SubSeqProperties DEF u
    <3>2. a - (head + 1) + 1 = m  BY <2>1
    <3>3. Len(u) = m  BY <2>1, <3>1
    <3>4. \A i \in 1 .. m : (head + 1) + i - 1 = head + i  BY <2>1
    <3> QED  BY <3>1, <3>2, <3>3, <3>4
  <2>5. \A i \in 1 .. Len(d) : d[i] = u[i]  BY <2>1, <2>2, <2>4
  <2>6. d = u  BY <2>1, <2>2, <2>4, <2>5, SeqEqual
  <2> QED  BY <2>1, <2>6 DEF ReadsPublished, d, a, u
<1> QED  BY <1>1, RingInvariant, PTL

-----------------------------------------------------------------------------
(* The ring implements the channel.                                        *)

\* A step of the ring is a step of the channel or none.
LEMMA ChannelStep ==
  ASSUME RingInv, RingInv', [Next]_vars
  PROVE  [Channel!ChanNext]_(Channel!chanVars)
<1>0. /\ sent \in Seq(Nat) /\ rcvd \in Seq(Nat) /\ sent' \in Seq(Nat)
      /\ rcvd' \in Seq(Nat)
      /\ Len(sent) = tail /\ Len(rcvd) = head /\ head \in Nat /\ tail \in Nat
      /\ Len(sent') = tail' /\ Len(rcvd') = head' /\ head' \in Nat /\ tail' \in Nat
      /\ head <= tail /\ head' <= tail' /\ tail' - head' < Cap
      /\ \A p \in 1 .. head' : rcvd'[p] = sent'[p]
  BY DEF RingInv, TypeOK, Histories, Loadable
<1>1. CASE UNCHANGED <<sent, rcvd>>
  BY <1>1 DEF Channel!chanVars
<1>2. CASE WriteEnd /\ wtx.st = "open"
  <2> DEFINE d == wtx.data
  <2>1. sent' = sent \o d /\ rcvd' = rcvd /\ head' = head
    BY <1>2 DEF WriteEnd
  <2>2. d \in Seq(Nat) /\ Len(d) \in Nat  BY <1>2, Positions
  <2> HIDE DEF d
  <2>3. /\ Len(sent') = tail + Len(d)
        /\ \A i \in 1 .. tail : sent'[i] = sent[i]
    <3>1. /\ Len(sent \o d) = Len(sent) + Len(d)
          /\ \A i \in 1 .. Len(sent) + Len(d) :
               (sent \o d)[i] = IF i <= Len(sent) THEN sent[i] ELSE d[i - Len(sent)]
      BY <1>0, <2>2, ConcatProperties
    <3>2. \A i \in 1 .. tail : i \in 1 .. tail + Len(d) /\ i <= tail
      BY <1>0, <2>2
    <3> QED  BY <1>0, <2>1, <3>1, <3>2
  <2>4. Len(sent) <= Len(sent')  BY <1>0, <2>2, <2>3
  <2>5. SubSeq(sent', 1, Len(sent)) = sent
    BY <1>0, <2>3, <2>4, PrefixIsSubSeq
  <2>6. Len(sent') - Len(rcvd) <= Cap - 1
    <3>1. tail' - head < Cap  BY <1>0, <2>1
    <3>0. tail' \in Nat /\ head \in Nat  BY <1>0
    <3>a. \A x, y \in Nat : x - y < Cap => x - y <= Cap - 1
      BY TxQueueAssumption
    <3>2. tail' - head <= Cap - 1  BY <3>0, <3>1, <3>a
    <3> QED  BY <1>0, <3>2
  <2>7. Channel!Send  BY <2>1, <2>4, <2>5, <2>6 DEF Channel!Send
  <2> QED  BY <2>7 DEF Channel!ChanNext
<1>3. CASE ReadEnd /\ rtx.st = "open"
  <2>1. sent' = sent /\ tail' = tail /\ head' = rtx.at  BY <1>3 DEF ReadEnd
  <2>2. head <= head'  BY <1>3, <2>1, Positions
  <2>3. Len(rcvd) <= Len(rcvd') /\ Len(rcvd') <= Len(sent)
    BY <1>0, <2>1, <2>2
  <2>4. \A i \in 1 .. Len(rcvd') : rcvd'[i] = sent[i]  BY <1>0, <2>1
  <2>5. rcvd' = SubSeq(sent, 1, Len(rcvd'))
    BY <1>0, <2>3, <2>4, PrefixIsSubSeq
  <2>6. Channel!Receive  BY <2>1, <2>3, <2>5 DEF Channel!Receive
  <2> QED  BY <2>6 DEF Channel!ChanNext
<1> QED
  <2>1. CASE Producer
    BY <1>1, <1>2, <2>1
    DEF Producer, WriteBegin, Write, WriteFull, WriteInvalidate, WriteEnd
  <2>2. CASE Consumer
    BY <1>1, <1>3, <2>2
    DEF Consumer, ReadBegin, Read, ReadEmpty, ReadInvalidate, ReadEnd
  <2>3. CASE UNCHANGED vars  BY <1>1, <2>3 DEF vars
  <2> QED  BY <2>1, <2>2, <2>3 DEF Next

\* The queue delivers the committed bytes in order, without loss, duplication
\* or tearing, and never holds more than Cap - 1 of them.
THEOREM RingImplementsChannel == Spec => ImplementsChannel
<1>1. Init => Channel!ChanInit  BY DEF Init, Channel!ChanInit
<1>2. RingInv /\ RingInv' /\ [Next]_vars => [Channel!ChanNext]_(Channel!chanVars)
  BY ChannelStep
<1> QED
  BY <1>1, <1>2, RingInvariant, PTL DEF Spec, ImplementsChannel, Channel!ChanSpec
=============================================================================
