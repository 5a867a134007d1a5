------------------------------ MODULE DataLemmas ------------------------------
(* Facts about the data of the models that their proofs share: positions in *)
(* a ring, which are masked to the cell p % C, sequences, least elements.   *)
EXTENDS Integers, FiniteSetsExt, FiniteSetTheorems, SequenceTheorems, TLAPS

\* Division with remainder by the size of a ring.
LEMMA Division ==
  ASSUME NEW C \in Nat \ {0}, NEW p \in Int
  PROVE  /\ (p \div C) \in Int
         /\ p = (C * (p \div C)) + (p % C)
         /\ p % C \in 0 .. C - 1
  OBVIOUS

\* A multiple of the size that is smaller than the size is zero.
LEMMA ShortMultiple ==
  ASSUME NEW C \in Nat \ {0}, NEW k \in Int, C * k < C, -C < C * k
  PROVE  k = 0
<1>1. CASE k >= 1
  <2>1. C * (k - 1) >= 0  BY <1>1
  <2>2. C * (k - 1) = (C * k) - C  OBVIOUS
  <2> QED  BY <2>1, <2>2
<1>2. CASE k <= -1
  <2>1. C * ((-k) - 1) >= 0  BY <1>2
  <2>2. C * ((-k) - 1) = (-(C * k)) - C  OBVIOUS
  <2> QED  BY <2>1, <2>2
<1> QED  BY <1>1, <1>2

\* The remainder is the only cell that differs by a multiple of the size.
LEMMA OneRemainder ==
  ASSUME NEW C \in Nat \ {0}, NEW p \in Int, NEW q \in Int, NEW r \in 0 .. C - 1,
         p = (C * q) + r
  PROVE  p % C = r
<1> DEFINE d == p \div C
           m == p % C
<1>1. d \in Int /\ p = (C * d) + m /\ m \in 0 .. C - 1  BY Division
<1> HIDE DEF d, m
<1>2. C * (d - q) = (C * d) - (C * q)  BY <1>1
<1>3. C * (d - q) = r - m  BY <1>1, <1>2
<1>4. C * (d - q) < C /\ -C < C * (d - q)  BY <1>1, <1>3
<1>5. d - q \in Int  BY <1>1
<1>6. d - q = 0  BY <1>4, <1>5, ShortMultiple
<1>7. d = q  BY <1>1, <1>6
<1>8. m = r  BY <1>1, <1>7
<1> QED  BY <1>8 DEF m

\* Advancing by at most a full turn wraps around at most once.
LEMMA Advance ==
  ASSUME NEW C \in Nat \ {0}, NEW p \in Int, NEW n \in 0 .. C
  PROVE  (p + n) % C = IF (p % C) + n >= C THEN (p % C) + n - C ELSE (p % C) + n
<1> DEFINE d == p \div C
           m == p % C
<1>1. d \in Int /\ p = (C * d) + m /\ m \in 0 .. C - 1  BY Division
<1> HIDE DEF d, m
<1>2. p + n \in Int  OBVIOUS
<1>3. CASE m + n >= C
  <2>1. p + n = (C * (d + 1)) + (m + n - C)  BY <1>1
  <2>2. m + n - C \in 0 .. C - 1 /\ d + 1 \in Int  BY <1>1, <1>3
  <2>3. (p + n) % C = m + n - C  BY <1>2, <2>1, <2>2, OneRemainder
  <2> QED  BY <1>3, <2>3 DEF m
<1>4. CASE ~(m + n >= C)
  <2>1. p + n = (C * d) + (m + n)  BY <1>1
  <2>2. m + n \in 0 .. C - 1  BY <1>1, <1>4
  <2>3. (p + n) % C = m + n  BY <1>1, <1>2, <2>1, <2>2, OneRemainder
  <2> QED  BY <1>4, <2>3 DEF m
<1> QED  BY <1>3, <1>4

\* It does not matter whether the position was masked before it advances.
LEMMA MaskedAdvance ==
  ASSUME NEW C \in Nat \ {0}, NEW p \in Int, NEW n \in 0 .. C
  PROVE  ((p % C) + n) % C = (p + n) % C
<1> DEFINE m == p % C
<1>1. m \in 0 .. C - 1  BY Division
<1> HIDE DEF m
<1>2. m = (C * 0) + m /\ 0 \in Int /\ m \in Int  BY <1>1
<1>3. m % C = m  BY <1>1, <1>2, OneRemainder
<1>4. (m + n) % C = IF m + n >= C THEN m + n - C ELSE m + n
  BY <1>2, <1>3, Advance
<1> QED  BY <1>4, Advance DEF m

\* Two number sequences of which one begins with the other.
LEMMA PrefixIsSubSeq ==
  ASSUME NEW s \in Seq(Nat), NEW r \in Seq(Nat), Len(r) <= Len(s),
         \A i \in 1 .. Len(r) : r[i] = s[i]
  PROVE  SubSeq(s, 1, Len(r)) = r
<1> DEFINE n == Len(r)
           u == SubSeq(s, 1, n)
<1>1. n \in Nat /\ Len(s) \in Nat /\ n <= Len(s)  BY LenProperties
<1>2. \A i \in 1 .. n : r[i] = s[i]  OBVIOUS
<1>3. Len(r) = n  OBVIOUS
<1> HIDE DEF n, u
<1>4. \A i \in 1 .. n : s[i] \in Nat  BY <1>1, ElementOfSeq
<1>5. /\ u \in Seq(Nat) /\ Len(u) = IF 1 <= n THEN n - 1 + 1 ELSE 0
      /\ \A i \in 1 .. n - 1 + 1 : u[i] = s[1 + i - 1]
  BY <1>1, <1>4, SubSeqProperties DEF u
<1>6. Len(u) = n /\ n - 1 + 1 = n /\ \A i \in 1 .. n : 1 + i - 1 = i
  BY <1>1, <1>5
<1>7. \A i \in 1 .. Len(u) : u[i] = r[i]  BY <1>2, <1>5, <1>6
<1>8. u = r  BY <1>3, <1>5, <1>6, <1>7, SeqEqual
<1> QED  BY <1>8 DEF u, n

\* A set of natural numbers has a least element.
LEMMA LeastExists ==
  ASSUME NEW T, T \subseteq Nat, T # {}
  PROVE  \E x \in T : \A y \in T : x <= y
<1> DEFINE R == OpToRel(<, Nat)
<1>1. IsWellFoundedOn(R, Nat)  BY NatLessThanWellFounded
<1>2. \A x, y \in Nat : <<y, x>> \in R <=> y < x  BY DEF OpToRel
<1> HIDE DEF R
<1>3. PICK x \in T : \A y \in T : ~ (<<y, x>> \in R)  BY <1>1, WFMin
<1>4. \A y \in T : ~ (y < x)  BY <1>2, <1>3
<1>5. \A y \in T : x <= y  BY <1>3, <1>4
<1> QED  BY <1>5

\* It is what Min chooses.
LEMMA MinProperties ==
  ASSUME NEW T, T \subseteq Nat, T # {}
  PROVE  /\ Min(T) \in T
         /\ \A y \in T : Min(T) <= y
<1>1. \E x \in T : \A y \in T : x =< y  BY LeastExists
<1> QED  BY <1>1 DEF Min

\* What is in a sequence after one more element was appended.
LEMMA RangeOfAppend ==
  ASSUME NEW S, NEW s \in Seq(S), NEW e \in S
  PROVE  Range(Append(s, e)) = Range(s) \union {e}
<1>1. Range(s) = {s[i] : i \in 1 .. Len(s)}  BY RangeEquality
<1>2. Append(s, e) \in Seq(S)  BY AppendProperties
<1>3. Range(Append(s, e)) = {Append(s, e)[i] : i \in 1 .. Len(Append(s, e))}
  BY <1>2, RangeEquality
<1>4. Len(s) \in Nat  BY LenProperties
<1>5. \A i \in 1 .. Len(s) + 1 : i \in 1 .. Len(s) \/ i = Len(s) + 1  BY <1>4
<1>6. \A i \in 1 .. Len(s) : i \in 1 .. Len(s) + 1  BY <1>4
<1>7. Len(s) + 1 \in 1 .. Len(s) + 1  BY <1>4
<1> QED  BY <1>1, <1>3, <1>5, <1>6, <1>7, AppendProperties

\* The head of a sequence and what is left of it.
LEMMA RangeOfTail ==
  ASSUME NEW S, NEW s \in Seq(S), s # << >>
  PROVE  /\ Range(s) = Range(Tail(s)) \union {Head(s)}
         /\ Head(s) = s[1] /\ Len(s) \in Nat \ {0}
<1>1. Range(s) = {s[i] : i \in 1 .. Len(s)}  BY RangeEquality
<1>2. Tail(s) \in Seq(S) /\ Len(Tail(s)) = Len(s) - 1  BY HeadTailProperties
<1>3. Range(Tail(s)) = {Tail(s)[i] : i \in 1 .. Len(Tail(s))}  BY <1>2, RangeEquality
<1>4. Len(s) \in Nat \ {0}  BY EmptySeq
<1>5. \A i \in 1 .. Len(Tail(s)) : Tail(s)[i] = s[i + 1]  BY HeadTailProperties
<1>6. Head(s) = s[1]  OBVIOUS
<1>7. \A i \in 1 .. Len(s) : i = 1 \/ (i - 1 \in 1 .. Len(Tail(s)) /\ (i - 1) + 1 = i)
  BY <1>2, <1>4
<1>8. \A i \in 1 .. Len(Tail(s)) : i + 1 \in 1 .. Len(s)  BY <1>2, <1>4
<1>9. 1 \in 1 .. Len(s)  BY <1>4
<1>10. ASSUME NEW x \in Range(s) PROVE x \in Range(Tail(s)) \union {Head(s)}
  <2>1. PICK i \in 1 .. Len(s) : x = s[i]  BY <1>1
  <2>2. CASE i = 1  BY <1>6, <2>1, <2>2
  <2>3. CASE i # 1
    <3>1. i - 1 \in 1 .. Len(Tail(s)) /\ (i - 1) + 1 = i  BY <1>7, <2>3
    <3>2. Tail(s)[i - 1] = s[i]  BY <1>5, <3>1
    <3> QED  BY <1>3, <2>1, <3>1, <3>2
  <2> QED  BY <2>2, <2>3
<1>11. Range(Tail(s)) \union {Head(s)} \subseteq Range(s)
  BY <1>1, <1>3, <1>5, <1>6, <1>8, <1>9
<1> QED  BY <1>4, <1>6, <1>10, <1>11

\* A sequence without repetitions is as long as the set of its elements is large.
LEMMA RangeOfInjective ==
  ASSUME NEW S, NEW s \in Seq(S),
         \A i, j \in 1 .. Len(s) : i < j => s[i] # s[j]
  PROVE  IsFiniteSet(Range(s)) /\ Cardinality(Range(s)) = Len(s)
<1>1. /\ Len(s) \in Nat /\ DOMAIN s = 1 .. Len(s) /\ s \in [1 .. Len(s) -> S]
  BY LenProperties
<1>2. Range(s) = {s[i] : i \in 1 .. Len(s)}  BY RangeEquality
<1>3. s \in [1 .. Len(s) -> Range(s)]  BY <1>1, <1>2
<1>4. \A i, j \in 1 .. Len(s) : s[i] = s[j] => i = j
  <2>1. ASSUME NEW i \in 1 .. Len(s), NEW j \in 1 .. Len(s), s[i] = s[j], i # j
        PROVE  FALSE
    <3>1. i < j \/ j < i  BY <1>1, <2>1
    <3> QED  BY <2>1, <3>1
  <2> QED  BY <2>1
<1>5. s \in Injection(1 .. Len(s), Range(s))  BY <1>3, <1>4 DEF Injection, IsInjective
<1>6. s \in Surjection(1 .. Len(s), Range(s))  BY <1>2, <1>3 DEF Surjection
<1>7. IsFiniteSet(1 .. Len(s)) /\ Cardinality(1 .. Len(s)) = Len(s)
  <2>1. 1 \in Int /\ Len(s) \in Int  BY <1>1
  <2>2. /\ Cardinality(1 .. Len(s)) = IF 1 > Len(s) THEN 0 ELSE Len(s) - 1 + 1
        /\ IsFiniteSet(1 .. Len(s))
    BY <2>1, FS_Interval
  <2> QED  BY <1>1, <2>2
<1>8. IsFiniteSet(Range(s)) /\ Cardinality(Range(s)) = Cardinality(1 .. Len(s))
  BY <1>5, <1>6, <1>7, FS_Surjection
<1> QED  BY <1>7, <1>8

\* The elements of a sequence, and where they stand in a longer one.
LEMMA Concatenated ==
  ASSUME NEW S, NEW s \in Seq(S), NEW t \in Seq(S)
  PROVE  /\ s \o t \in Seq(S) /\ Len(s \o t) = Len(s) + Len(t)
         /\ Len(s) \in Nat /\ Len(t) \in Nat
         /\ Range(s \o t) = Range(s) \union Range(t)
         /\ \A i \in 1 .. Len(s) : i \in 1 .. Len(s \o t) /\ (s \o t)[i] = s[i]
         /\ \A i \in 1 .. Len(t) :
              Len(s) + i \in 1 .. Len(s \o t) /\ (s \o t)[Len(s) + i] = t[i]
<1>1. Len(s) \in Nat /\ Len(t) \in Nat  BY LenProperties
<1>2. /\ s \o t \in Seq(S) /\ Len(s \o t) = Len(s) + Len(t)
      /\ \A i \in 1 .. Len(s) + Len(t) :
           (s \o t)[i] = IF i <= Len(s) THEN s[i] ELSE t[i - Len(s)]
  BY ConcatProperties
<1>3. ASSUME NEW i \in 1 .. Len(s)
      PROVE  i \in 1 .. Len(s \o t) /\ (s \o t)[i] = s[i]
  <2>1. i \in 1 .. Len(s) + Len(t) /\ i <= Len(s)  BY <1>1
  <2> QED  BY <1>2, <2>1
<1>4. ASSUME NEW i \in 1 .. Len(t)
      PROVE  Len(s) + i \in 1 .. Len(s \o t) /\ (s \o t)[Len(s) + i] = t[i]
  <2>1. Len(s) + i \in 1 .. Len(s) + Len(t) /\ ~(Len(s) + i <= Len(s))
        /\ (Len(s) + i) - Len(s) = i
    BY <1>1
  <2> QED  BY <1>2, <2>1
<1> QED  BY <1>1, <1>2, <1>3, <1>4, RangeConcatenation

\* Moving the first element of the second sequence to the end of the first one.
LEMMA MoveHead ==
  ASSUME NEW S, NEW s \in Seq(S), NEW t \in Seq(S), t # << >>
  PROVE  Append(s, Head(t)) \o Tail(t) = s \o t
<1>1. /\ Head(t) \in S /\ Tail(t) \in Seq(S) /\ Len(Tail(t)) = Len(t) - 1
      /\ Head(t) = t[1] /\ \A i \in 1 .. Len(Tail(t)) : Tail(t)[i] = t[i + 1]
  BY HeadTailProperties, RangeOfTail
<1> DEFINE a == Append(s, Head(t))
           l == a \o Tail(t)
<1>2. /\ a \in Seq(S) /\ Len(a) = Len(s) + 1
      /\ \A i \in 1 .. Len(s) : a[i] = s[i]
      /\ a[Len(s) + 1] = t[1]
  BY <1>1, AppendProperties
<1> HIDE DEF a
<1>3. /\ l \in Seq(S) /\ Len(l) = Len(a) + Len(Tail(t))
      /\ \A i \in 1 .. Len(a) + Len(Tail(t)) :
           l[i] = IF i <= Len(a) THEN a[i] ELSE Tail(t)[i - Len(a)]
  BY <1>1, <1>2, ConcatProperties
<1>4. /\ s \o t \in Seq(S) /\ Len(s \o t) = Len(s) + Len(t)
      /\ \A i \in 1 .. Len(s) + Len(t) :
           (s \o t)[i] = IF i <= Len(s) THEN s[i] ELSE t[i - Len(s)]
  BY ConcatProperties
<1> HIDE DEF l
<1>5. Len(s) \in Nat /\ Len(t) \in Nat \ {0}  BY LenProperties, EmptySeq
<1>6. Len(l) = Len(s \o t)  BY <1>1, <1>2, <1>3, <1>4, <1>5
<1>7. ASSUME NEW i \in 1 .. Len(l) PROVE l[i] = (s \o t)[i]
  <2>0. i \in 1 .. Len(s) + Len(t) /\ i \in 1 .. Len(a) + Len(Tail(t))
    BY <1>3, <1>4, <1>6
  <2>1. CASE i <= Len(s)
    <3>1. i \in 1 .. Len(s) /\ i <= Len(a)  BY <1>2, <1>5, <2>0, <2>1
    <3> QED  BY <1>2, <1>3, <1>4, <2>0, <2>1, <3>1
  <2>2. CASE i = Len(s) + 1
    <3>1. i <= Len(a) /\ ~(i <= Len(s)) /\ i - Len(s) = 1  BY <1>2, <1>5, <2>2
    <3> QED  BY <1>2, <1>3, <1>4, <2>0, <2>2, <3>1
  <2>3. CASE i > Len(s) + 1
    <3>1. ~(i <= Len(a)) /\ ~(i <= Len(s)) /\ i - Len(a) \in 1 .. Len(Tail(t))
          /\ (i - Len(a)) + 1 = i - Len(s)
      BY <1>1, <1>2, <1>5, <2>0, <2>3
    <3>2. l[i] = Tail(t)[i - Len(a)]  BY <1>3, <2>0, <3>1
    <3>3. Tail(t)[i - Len(a)] = t[i - Len(s)]  BY <1>1, <3>1
    <3> QED  BY <1>4, <2>0, <3>1, <3>2, <3>3
  <2> QED  BY <1>5, <2>0, <2>1, <2>2, <2>3
<1>8. l = s \o t  BY <1>3, <1>4, <1>6, <1>7, SeqEqual
<1> QED  BY <1>8 DEF l, a

\* Induction over the natural numbers up to n, for a property given as the set
\* of the numbers that have it.
LEMMA UpTo ==
  ASSUME NEW n \in Nat, NEW T, 0 \in T, \A i \in 0 .. n : i \in T /\ i < n => i + 1 \in T
  PROVE  \A i \in 0 .. n : i \in T
<1> SUFFICES ASSUME NEW k \in 0 .. n, k \notin T PROVE FALSE
  OBVIOUS
<1> DEFINE U == {i \in 0 .. n : i \notin T}
<1>1. U \subseteq Nat /\ k \in U /\ \A i \in 0 .. n : i \notin T => i \in U
  OBVIOUS
<1>2. \A x \in U : x \in 0 .. n /\ x \notin T
  OBVIOUS
<1> HIDE DEF U
<1>3. PICK x \in U : \A y \in U : x <= y
  BY <1>1, LeastExists
<1>4. x \in 0 .. n /\ x \notin T /\ x # 0
  BY <1>2
<1>5. x - 1 \in 0 .. n /\ x - 1 < n /\ (x - 1) + 1 = x /\ ~ (x <= x - 1)
  BY <1>4
<1>6. x - 1 \notin T
  BY <1>4, <1>5
<1> QED
  BY <1>1, <1>3, <1>5, <1>6

\* The beginnings of a sequence's domain: what is left when the last goes.
LEMMA Beginnings ==
  ASSUME NEW n \in Nat
  PROVE  /\ 1 .. 0 = {}
         /\ \A k \in 0 .. n : 1 .. k \in SUBSET (1 .. n)
         /\ \A k \in 1 .. n : /\ 1 .. k # {} /\ Max(1 .. k) = k
                              /\ (1 .. k) \ {k} = 1 .. k - 1
                              /\ k - 1 \in 0 .. n /\ k \in 0 .. n
<1>1. ASSUME NEW k \in 1 .. n PROVE Max(1 .. k) = k
  <2>1. k \in 1 .. k /\ \A y \in 1 .. k : k >= y
    OBVIOUS
  <2>2. Max(1 .. k) \in 1 .. k /\ \A y \in 1 .. k : Max(1 .. k) >= y
    BY <2>1 DEF Max
  <2> QED
    BY <2>1, <2>2
<1>2. \A k \in 1 .. n : 1 .. k # {} /\ (1 .. k) \ {k} = 1 .. k - 1 /\ k - 1 \in 0 .. n /\ k \in 0 .. n
  OBVIOUS
<1> QED
  BY <1>1, <1>2

\* The largest of some positions.
LEMMA MaxProperties ==
  ASSUME NEW n \in Nat, NEW s, s \subseteq 1 .. n, s # {}
  PROVE  Max(s) \in s /\ \A y \in s : y <= Max(s)
<1> DEFINE T == {n - x : x \in s}
<1>0. \A x \in s : x \in Int /\ n - x \in Nat
  OBVIOUS
<1>1. T \subseteq Nat /\ T # {}
  BY <1>0
<1>2. PICK t \in T : \A y \in T : t <= y
  BY <1>1, LeastExists
<1>3. PICK x \in s : t = n - x
  OBVIOUS
<1>4. ASSUME NEW y \in s PROVE x >= y
  <2>1. n - x <= n - y
    BY <1>2, <1>3
  <2>2. x \in Int /\ y \in Int
    BY <1>0
  <2> QED
    BY <2>1, <2>2
<1>5. Max(s) \in s /\ \A y \in s : Max(s) >= y
  BY <1>4 DEF Max
<1> QED
  BY <1>5

\* G[<<v, x>>] is a value in S for each v in S and x in L.
IsStep(G, S, L) == G \in [S \X L -> S]

\* The function a fold over the positions 1 .. n is defined by.
OnSets(it, n, a, G) ==
  \A s \in SUBSET (1 .. n) :
    it[s] = IF s = {} THEN a ELSE G[<< it[s \ {Max(s)}], Max(s) >>]

\* It exists.
LEMMA FoldExists ==
  ASSUME NEW S, NEW n \in Nat, NEW a \in S, NEW G, IsStep(G, S, 1 .. n)
  PROVE  \E it \in [SUBSET (1 .. n) -> S] : OnSets(it, n, a, G)
<1>0. G \in [S \X (1 .. n) -> S]
  BY DEF IsStep
<1> DEFINE Good(it, k) == \A s \in SUBSET (1 .. k) :
                            it[s] = IF s = {} THEN a ELSE G[<< it[s \ {Max(s)}], Max(s) >>]
           T == {k \in 0 .. n : \E it \in [SUBSET (1 .. n) -> S] : Good(it, k)}
<1>1. 0 \in T
  <2> DEFINE it == [s \in SUBSET (1 .. n) |-> a]
  <2>1. it \in [SUBSET (1 .. n) -> S] /\ \A s \in SUBSET (1 .. 0) : s = {}
    OBVIOUS
  <2>2. it[{}] = a
    OBVIOUS
  <2> HIDE DEF it
  <2>3. Good(it, 0)
    BY <2>1, <2>2
  <2>4. 0 \in 0 .. n
    OBVIOUS
  <2> QED
    BY <2>1, <2>3, <2>4
<1>2. ASSUME NEW k \in 0 .. n, k \in T, k < n PROVE k + 1 \in T
  <2>1. PICK it \in [SUBSET (1 .. n) -> S] : Good(it, k)
    BY <1>2
  <2>0. k + 1 \in 1 .. n /\ \A s \in SUBSET (1 .. n) : s \ {k + 1} \in SUBSET (1 .. n)
    BY <1>2
  <2> DEFINE up == [s \in SUBSET (1 .. n) |->
                      IF k + 1 \in s THEN G[<< it[s \ {k + 1}], k + 1 >>] ELSE it[s]]
  <2>2. up \in [SUBSET (1 .. n) -> S]
    BY <1>0, <2>0
  <2>3. \A s \in SUBSET (1 .. n) :
          up[s] = IF k + 1 \in s THEN G[<< it[s \ {k + 1}], k + 1 >>] ELSE it[s]
    OBVIOUS
  <2> HIDE DEF up
  <2>4. ASSUME NEW s \in SUBSET (1 .. k + 1)
        PROVE  up[s] = IF s = {} THEN a ELSE G[<< up[s \ {Max(s)}], Max(s) >>]
    <3>0. \A x \in s : x \in 1 .. n /\ (x = k + 1 \/ x \in 1 .. k)
      BY <1>2
    <3>1. s \in SUBSET (1 .. n) /\ s \ {k + 1} \in SUBSET (1 .. k)
          /\ (k + 1 \notin s => s \in SUBSET (1 .. k))
      BY <3>0
    <3>2. CASE k + 1 \in s
      <4>1. s # {} /\ k + 1 \in Nat
        BY <3>2
      <4>2. Max(s) \in s /\ \A y \in s : y <= Max(s)
        BY <4>1, MaxProperties
      <4>3. Max(s) = k + 1
        <5>1. Max(s) \in 1 .. k + 1 /\ k + 1 <= Max(s)
          BY <3>2, <4>2
        <5> QED
          BY <5>1
      <4>4. up[s \ {k + 1}] = it[s \ {k + 1}]
        BY <2>0, <2>3, <3>1
      <4> QED
        BY <2>3, <3>1, <3>2, <4>1, <4>3, <4>4
    <3>3. CASE k + 1 \notin s /\ s # {}
      <4>1. Max(s) \in s
        BY <3>1, <3>3, MaxProperties
      <4>2. s \ {Max(s)} \in SUBSET (1 .. n) /\ k + 1 \notin s \ {Max(s)}
        BY <3>1, <3>3
      <4>3. up[s \ {Max(s)}] = it[s \ {Max(s)}] /\ up[s] = it[s]
        BY <2>3, <3>1, <3>3, <4>2
      <4> QED
        BY <2>1, <3>1, <3>3, <4>3
    <3>4. CASE s = {}
      <4>1. up[s] = it[s] /\ it[s] = a
        BY <2>1, <2>3, <3>1, <3>4
      <4> QED
        BY <3>4, <4>1
    <3> QED
      BY <3>2, <3>3, <3>4
  <2>5. Good(up, k + 1) /\ k + 1 \in 0 .. n
    BY <2>0, <2>4
  <2> QED
    BY <2>2, <2>5
<1>3. \A i \in 0 .. n : i \in T
  <2> HIDE DEF T
  <2> QED
    BY <1>1, <1>2, UpTo
<1>4. n \in 0 .. n
  OBVIOUS
<1> QED
  BY <1>3, <1>4 DEF OnSets

\* What is left of a when the elements of s are put in one after the other, G[<<v, x>>]
\* being what x makes of v. The folds of the models are such functions.
Folded(G, a, s) ==
  LET f[i \in 0 .. Len(s)] == IF i = 0 THEN a ELSE G[<< f[i - 1], s[i] >>] IN f[Len(s)]

Stages(f, G, a, s) ==
  f[0] = a /\ \A i \in 1 .. Len(s) : f[i] = G[<< f[i - 1], s[i] >>]

StagesWithin(h, S, G, a, s) ==
  h[0] = a /\ \A i \in 1 .. Len(s) : h[i - 1] \in S => h[i] = G[<< h[i - 1], s[i] >>]

\* The values on the way, and that there is only one way.
LEMMA FoldedStages ==
  ASSUME NEW S, NEW L, NEW a \in S, NEW G, IsStep(G, S, L), NEW s \in Seq(L)
  PROVE  /\ \E f \in [0 .. Len(s) -> S] : Stages(f, G, a, s) /\ Folded(G, a, s) = f[Len(s)]
         /\ \A h : StagesWithin(h, S, G, a, s) => h[Len(s)] = Folded(G, a, s)
<1> DEFINE n == Len(s)
           H == [p \in S \X (1 .. n) |-> G[<< p[1], s[p[2]] >>]]
           Is(f) == f = [i \in 0 .. n |-> IF i = 0 THEN a ELSE G[<< f[i - 1], s[i] >>]]
<1>1. n \in Nat /\ \A i \in 1 .. n : s[i] \in L
  BY LenProperties, ElementOfSeq
<1>2. IsStep(H, S, 1 .. n) /\ \A v \in S, i \in 1 .. n : H[<< v, i >>] = G[<< v, s[i] >>]
  BY <1>1 DEF IsStep
<1> HIDE DEF H
<1>3. PICK it \in [SUBSET (1 .. n) -> S] : OnSets(it, n, a, H)
  BY <1>1, <1>2, FoldExists
<1> DEFINE g == [i \in 0 .. n |-> it[1 .. i]]
<1>4. /\ g \in [0 .. n -> S] /\ g[0] = a
      /\ \A i \in 1 .. n : g[i] = G[<< g[i - 1], s[i] >>]
  <2>1. \A i \in 0 .. n : g[i] = it[1 .. i] /\ it[1 .. i] \in S
    BY <1>1, <1>3, Beginnings
  <2>2. 0 \in 0 .. n /\ it[1 .. 0] = a
    <3>1. 1 .. 0 = {} /\ 0 \in 0 .. n
      BY <1>1
    <3>2. it[{}] = a
      BY <1>3 DEF OnSets
    <3> QED
      BY <3>1, <3>2, Zenon
  <2>3. ASSUME NEW i \in 1 .. n PROVE g[i] = G[<< g[i - 1], s[i] >>]
    <3>1. /\ 1 .. i # {} /\ Max(1 .. i) = i /\ (1 .. i) \ {i} = 1 .. i - 1
          /\ i - 1 \in 0 .. n /\ i \in 0 .. n /\ 1 .. i \in SUBSET (1 .. n)
      BY <1>1, Beginnings
    <3>2. it[1 .. i] = H[<< it[1 .. i - 1], i >>]
      BY <1>3, <3>1 DEF OnSets
    <3> QED
      BY <1>2, <2>1, <3>1, <3>2
  <2> QED
    BY <2>1, <2>2, <2>3
<1> HIDE DEF g
<1>5. Is(g)
  <2>1. ASSUME NEW i \in 0 .. n PROVE g[i] = IF i = 0 THEN a ELSE G[<< g[i - 1], s[i] >>]
    <3>1. i = 0 \/ i \in 1 .. n
      BY <1>1
    <3> QED
      BY <1>4, <3>1
  <2> QED
    BY <1>4, <2>1
<1> DEFINE f == CHOOSE f : Is(f)
<1>6. Is(f) /\ Folded(G, a, s) = f[n]
  BY <1>5 DEF Folded
<1> HIDE DEF Is
<1>7. ASSUME NEW h, h[0] = a,
             \A i \in 1 .. n : h[i - 1] \in S => h[i] = G[<< h[i - 1], s[i] >>]
      PROVE  \A i \in 0 .. n : h[i] = g[i]
  <2> DEFINE T == {i \in 0 .. n : h[i] = g[i]}
  <2>1. 0 \in T
    BY <1>1, <1>4, <1>7
  <2>2. ASSUME NEW i \in 0 .. n, i \in T, i < n PROVE i + 1 \in T
    <3>1. i + 1 \in 1 .. n /\ (i + 1) - 1 = i /\ i + 1 \in 0 .. n
      BY <1>1, <2>2
    <3>2. h[i] = g[i] /\ h[i] \in S
      BY <1>4, <2>2
    <3>3. h[i + 1] = G[<< h[i], s[i + 1] >>] /\ g[i + 1] = G[<< g[i], s[i + 1] >>]
      BY <1>4, <1>7, <3>1, <3>2
    <3> QED
      BY <3>1, <3>2, <3>3
  <2>3. \A i \in 0 .. n : i \in T
    <3> HIDE DEF T
    <3> QED
      BY <1>1, <2>1, <2>2, UpTo
  <2> QED
    BY <2>3
<1>8. f[0] = a /\ \A i \in 1 .. n : f[i] = G[<< f[i - 1], s[i] >>]
  <2>1. 0 \in 0 .. n /\ \A i \in 1 .. n : i \in 0 .. n /\ i # 0
    BY <1>1
  <2> QED
    BY <1>6, <2>1 DEF Is
<1>9. n \in 0 .. n
  BY <1>1
<1> HIDE DEF f
<1>10. f[n] = g[n]
  BY <1>7, <1>8, <1>9
<1>11. Stages(g, G, a, s)
  BY <1>4 DEF Stages
<1>12. ASSUME NEW h, StagesWithin(h, S, G, a, s) PROVE h[n] = Folded(G, a, s)
  BY <1>6, <1>7, <1>9, <1>10, <1>12 DEF StagesWithin
<1> QED
  BY <1>4, <1>6, <1>10, <1>11, <1>12

\* What a fold yields is one of its values, and the last element is put in last.
LEMMA FoldedSteps ==
  ASSUME NEW S, NEW L, NEW a \in S, NEW G, IsStep(G, S, L), NEW s \in Seq(L)
  PROVE  /\ Folded(G, a, << >>) = a
         /\ Folded(G, a, s) \in S
         /\ \A e \in L : Folded(G, a, Append(s, e)) = G[<< Folded(G, a, s), e >>]
<1>1. Folded(G, a, << >>) = a
  <2>1. << >> \in Seq(L) /\ Len(<< >>) = 0 /\ 0 \in 0 .. 0
    OBVIOUS
  <2>2. PICK f \in [0 .. Len(<< >>) -> S] :
          Stages(f, G, a, << >>) /\ Folded(G, a, << >>) = f[Len(<< >>)]
    BY <2>1, FoldedStages
  <2> QED
    BY <2>1, <2>2 DEF Stages
<1>2. PICK f \in [0 .. Len(s) -> S] : Stages(f, G, a, s) /\ Folded(G, a, s) = f[Len(s)]
  BY FoldedStages
<1>3. Folded(G, a, s) \in S
  BY <1>2, LenProperties
<1>4. ASSUME NEW e \in L
      PROVE  Folded(G, a, Append(s, e)) = G[<< Folded(G, a, s), e >>]
  <2> DEFINE r == Append(s, e)
             n == Len(s)
  <2>1. /\ r \in Seq(L) /\ Len(r) = n + 1 /\ n \in Nat
        /\ \A i \in 1 .. n : r[i] = s[i]
        /\ r[n + 1] = e
    BY AppendProperties, LenProperties
  <2> HIDE DEF r
  <2>2. PICK h \in [0 .. Len(r) -> S] : Stages(h, G, a, r) /\ Folded(G, a, r) = h[Len(r)]
    BY <2>1, FoldedStages
  <2>3. ASSUME NEW i \in 1 .. n PROVE h[i] = G[<< h[i - 1], s[i] >>]
    <3>1. i \in 1 .. Len(r) /\ r[i] = s[i]
      BY <2>1
    <3> QED
      BY <2>2, <3>1 DEF Stages
  <2>4. StagesWithin(h, S, G, a, s)
    BY <2>2, <2>3, Zenon DEF Stages, StagesWithin
  <2>5. h[n] = Folded(G, a, s)
    BY <2>4, FoldedStages
  <2>6. n + 1 \in 1 .. n + 1 /\ (n + 1) - 1 = n
    BY <2>1
  <2> QED
    BY <2>1, <2>2, <2>5, <2>6 DEF r, Stages
<1> QED
  BY <1>1, <1>3, <1>4

\* A function on the sets of positions of s that goes from one to the next by G, as
\* the folds of SequencesExt do: c as long as its values are in S, it always.
BySets(c, S, G, a, s) ==
  /\ c[{}] = a
  /\ \A u \in SUBSET (1 .. Len(s)) :
       u # {} /\ c[u \ {Max(u)}] \in S => c[u] = G[<< c[u \ {Max(u)}], s[Max(u)] >>]

BySetsWithin(it, S, L, G, a, s) ==
  /\ it \in [SUBSET (1 .. Len(s)) -> S]
  /\ \A u \in SUBSET (1 .. Len(s)) :
       /\ u = {} => it[u] = a
       /\ u # {} => /\ it[u \ {Max(u)}] \in S /\ s[Max(u)] \in L
                    /\ it[u] = G[<< it[u \ {Max(u)}], s[Max(u)] >>]

\* A function on sets that goes through the positions of s as the folds of
\* SequencesExt do yields the fold.
LEMMA FoldedBySets ==
  ASSUME NEW S, NEW L, NEW a \in S, NEW G, IsStep(G, S, L), NEW s \in Seq(L), NEW c,
         BySets(c, S, G, a, s)
  PROVE  c[1 .. Len(s)] = Folded(G, a, s)
<1> DEFINE n == Len(s)
           h == [i \in 0 .. n |-> c[1 .. i]]
<1>0. /\ c[{}] = a
      /\ \A u \in SUBSET (1 .. n) :
           u # {} /\ c[u \ {Max(u)}] \in S => c[u] = G[<< c[u \ {Max(u)}], s[Max(u)] >>]
  BY DEF BySets
<1>1. n \in Nat
  BY LenProperties
<1>2. h[0] = a /\ h[n] = c[1 .. n]
  BY <1>0, <1>1, Beginnings
<1>3. ASSUME NEW i \in 1 .. n, h[i - 1] \in S PROVE h[i] = G[<< h[i - 1], s[i] >>]
  <2>1. /\ 1 .. i # {} /\ Max(1 .. i) = i /\ (1 .. i) \ {i} = 1 .. i - 1
        /\ i - 1 \in 0 .. n /\ i \in 0 .. n /\ 1 .. i \in SUBSET (1 .. n)
    BY <1>1, Beginnings
  <2>2. h[i] = c[1 .. i] /\ h[i - 1] = c[1 .. i - 1]
    BY <2>1
  <2> QED
    BY <1>0, <1>3, <2>1, <2>2
<1> HIDE DEF h
<1>4. StagesWithin(h, S, G, a, s)
  BY <1>2, <1>3 DEF StagesWithin
<1>5. h[n] = Folded(G, a, s)
  BY <1>4, FoldedStages
<1> QED
  BY <1>2, <1>5

\* The function such a fold is defined by exists.
LEMMA FoldedSetsExist ==
  ASSUME NEW S, NEW L, NEW a \in S, NEW G, IsStep(G, S, L), NEW s \in Seq(L)
  PROVE  \E it : BySetsWithin(it, S, L, G, a, s)
<1> DEFINE n == Len(s)
           H == [p \in S \X (1 .. n) |-> G[<< p[1], s[p[2]] >>]]
<1>1. n \in Nat /\ \A i \in 1 .. n : s[i] \in L
  BY LenProperties, ElementOfSeq
<1>2. IsStep(H, S, 1 .. n) /\ \A v \in S, i \in 1 .. n : H[<< v, i >>] = G[<< v, s[i] >>]
  BY <1>1 DEF IsStep
<1> HIDE DEF H
<1>3. PICK it \in [SUBSET (1 .. n) -> S] : OnSets(it, n, a, H)
  BY <1>1, <1>2, FoldExists
<1>4. ASSUME NEW u \in SUBSET (1 .. n), u # {}
      PROVE  /\ it[u \ {Max(u)}] \in S /\ s[Max(u)] \in L
             /\ it[u] = G[<< it[u \ {Max(u)}], s[Max(u)] >>]
  <2>1. Max(u) \in u
    BY <1>1, <1>4, MaxProperties
  <2>2. Max(u) \in 1 .. n /\ u \ {Max(u)} \in SUBSET (1 .. n)
    BY <2>1
  <2> QED
    BY <1>1, <1>2, <1>3, <1>4, <2>2 DEF OnSets
<1> QED
  BY <1>3, <1>4 DEF OnSets, BySetsWithin

(* ------------------------------ parts of a stream --------------------------- *)

\* The n values of f that follow the one at b.
Slice(f, b, n) == [i \in 1 .. n |-> f[b + i]]

Values(f) == {f[j] : j \in Nat}

\* A slice is a sequence of so many values.
LEMMA SliceProperties ==
  ASSUME NEW f, NEW b \in Nat, NEW n \in Nat
  PROVE  /\ Slice(f, b, n) \in Seq(Values(f))
         /\ Len(Slice(f, b, n)) = n
         /\ \A i \in 1 .. n : Slice(f, b, n)[i] = f[b + i]
         /\ Slice(f, b, 0) = << >>
<1>1. \A i \in 1 .. n : f[b + i] \in Values(f)
  <2>1. \A i \in 1 .. n : b + i \in Nat
    OBVIOUS
  <2> QED
    BY <2>1 DEF Values
<1>2. Slice(f, b, n) \in [1 .. n -> Values(f)]
  BY <1>1 DEF Slice
<1>3. Slice(f, b, n) \in Seq(Values(f)) /\ Len(Slice(f, b, n)) = n
  BY <1>2
<1>4. \A i \in 1 .. n : Slice(f, b, n)[i] = f[b + i]
  BY DEF Slice
<1>5. Slice(f, b, 0) = << >>
  BY DEF Slice
<1> QED
  BY <1>3, <1>4, <1>5

\* A slice is known by its length and its elements.
LEMMA IsSlice ==
  ASSUME NEW f, NEW b \in Nat, NEW n \in Nat, NEW S, NEW s, s \in Seq(S),
         Len(s) = n, \A i \in 1 .. n : s[i] = f[b + i]
  PROVE  s = Slice(f, b, n)
<1>1. DOMAIN s = 1 .. n /\ s = [i \in 1 .. n |-> s[i]]
  BY LenProperties
<1> QED
  BY <1>1 DEF Slice

\* The next value makes a slice one longer.
LEMMA SliceAppend ==
  ASSUME NEW f, NEW b \in Nat, NEW n \in Nat
  PROVE  Append(Slice(f, b, n), f[b + n + 1]) = Slice(f, b, n + 1)
<1> DEFINE S == Values(f)
           s == Slice(f, b, n)
           t == Append(s, f[b + n + 1])
<1>1. s \in Seq(S) /\ Len(s) = n /\ \A i \in 1 .. n : s[i] = f[b + i]
  BY SliceProperties
<1>2. f[b + n + 1] \in S /\ b + (n + 1) = b + n + 1 /\ n + 1 \in Nat
  BY DEF Values
<1> HIDE DEF s, S
<1>3. /\ t \in Seq(S) /\ Len(t) = n + 1
      /\ \A i \in 1 .. n : t[i] = s[i]
      /\ t[n + 1] = f[b + n + 1]
  BY <1>1, <1>2, AppendProperties
<1> HIDE DEF t
<1>4. \A i \in 1 .. n + 1 : t[i] = f[b + i]
  <2>1. \A i \in 1 .. n + 1 : i \in 1 .. n \/ i = n + 1
    OBVIOUS
  <2> QED
    BY <1>1, <1>2, <1>3, <2>1
<1>5. t = Slice(f, b, n + 1)
  <2>1. t \in Seq(S) /\ Len(t) = n + 1 /\ n + 1 \in Nat
    BY <1>3
  <2> QED
    BY <1>4, <2>1, IsSlice
<1> QED
  BY <1>5 DEF t, s

\* The same, with the index named.
LEMMA SliceGrows ==
  ASSUME NEW f, NEW b \in Nat, NEW n \in Nat, NEW i, i = b + n + 1, NEW m, m = n + 1
  PROVE  Append(Slice(f, b, n), f[i]) = Slice(f, b, m)
BY SliceAppend, Zenon

\* Two slices that follow each other are one.
LEMMA SliceConcat ==
  ASSUME NEW f, NEW b \in Nat, NEW n \in Nat, NEW m \in Nat
  PROVE  Slice(f, b, n) \o Slice(f, b + n, m) = Slice(f, b, n + m)
<1> DEFINE S == Values(f)
           s == Slice(f, b, n)
           t == Slice(f, b + n, m)
           u == s \o t
<1>0. b + n \in Nat /\ n + m \in Nat
  OBVIOUS
<1>1. /\ s \in Seq(S) /\ Len(s) = n /\ \A i \in 1 .. n : s[i] = f[b + i]
      /\ t \in Seq(S) /\ Len(t) = m /\ \A i \in 1 .. m : t[i] = f[(b + n) + i]
  BY <1>0, SliceProperties
<1> HIDE DEF s, t, S
<1>2. /\ u \in Seq(S) /\ Len(u) = n + m
      /\ \A i \in 1 .. n + m : u[i] = IF i <= n THEN s[i] ELSE t[i - n]
  BY <1>1, ConcatProperties, ZenonT(60)
<1> HIDE DEF u
<1>3. ASSUME NEW i \in 1 .. n + m PROVE u[i] = f[b + i]
  <2>1. CASE i <= n
    BY <1>1, <1>2, <2>1
  <2>2. CASE ~(i <= n)
    <3>1. i - n \in 1 .. m /\ (b + n) + (i - n) = b + i
      BY <2>2
    <3> QED
      BY <1>1, <1>2, <2>2, <3>1
  <2> QED
    BY <2>1, <2>2
<1>4. u = Slice(f, b, n + m)
  <2>1. u \in Seq(S) /\ Len(u) = n + m /\ n + m \in Nat
    BY <1>2
  <2> QED
    BY <1>3, <2>1, IsSlice
<1> QED
  BY <1>4 DEF u, s, t

Follows(f, b, n, c, m) == Slice(f, b, n) \o Slice(f, c, m) = Slice(f, b, n + m)

\* The same, with the place of the second named.
LEMMA SliceFollows ==
  ASSUME NEW f, NEW b \in Nat, NEW n \in Nat, NEW m \in Nat, NEW c, c = b + n
  PROVE  Follows(f, b, n, c, m)
BY SliceConcat DEF Follows

IsPart(f, b, n, i, j, c, q) == SubSeq(Slice(f, b, n), i, j) = Slice(f, c, q)

\* A part of a slice is a slice.
LEMMA SliceSub ==
  ASSUME NEW f, NEW b \in Nat, NEW n \in Nat, NEW p \in Nat, NEW q \in Nat, p + q <= n
  PROVE  IsPart(f, b, n, p + 1, p + q, b + p, q)
<1> DEFINE S == Values(f)
           s == Slice(f, b, n)
           u == SubSeq(s, p + 1, p + q)
<1>0. b + p \in Nat /\ p + 1 \in Nat \ {0} /\ p + q \in Nat
  OBVIOUS
<1>1. s \in Seq(S) /\ Len(s) = n /\ \A i \in 1 .. n : s[i] = f[b + i]
  BY SliceProperties
<1> HIDE DEF s, S
<1>2. \A i \in p + 1 .. p + q : i \in 1 .. n /\ s[i] \in S
  <2>1. \A i \in p + 1 .. p + q : i \in 1 .. n
    OBVIOUS
  <2> QED
    BY <1>1, <2>1, ElementOfSeq
<1>3. /\ u \in Seq(S)
      /\ Len(u) = IF p + 1 <= p + q THEN (p + q) - (p + 1) + 1 ELSE 0
      /\ \A i \in 1 .. (p + q) - (p + 1) + 1 : u[i] = s[(p + 1) + i - 1]
  BY <1>0, <1>1, <1>2, SubSeqProperties
<1> HIDE DEF u
<1>4. Len(u) = q /\ (p + q) - (p + 1) + 1 = q
  BY <1>3
<1>5. ASSUME NEW i \in 1 .. q PROVE u[i] = f[(b + p) + i]
  <2>1. (p + 1) + i - 1 \in 1 .. n /\ b + ((p + 1) + i - 1) = (b + p) + i
    OBVIOUS
  <2> QED
    BY <1>1, <1>3, <1>4, <2>1
<1>6. u = Slice(f, b + p, q)
  <2>1. u \in Seq(S) /\ Len(u) = q /\ b + p \in Nat
    BY <1>3, <1>4
  <2> QED
    BY <1>5, <2>1, IsSlice
<1> QED
  BY <1>6 DEF u, s, IsPart

\* The same, with its bounds named.
LEMMA SlicePart ==
  ASSUME NEW f, NEW b \in Nat, NEW n \in Nat, NEW p \in Nat, NEW q \in Nat, p + q <= n,
         NEW i, i = p + 1, NEW j, j = p + q, NEW c, c = b + p
  PROVE  IsPart(f, b, n, i, j, c, q)
BY SliceSub

\* What is left of a slice without its first value.
LEMMA SliceTail ==
  ASSUME NEW f, NEW b \in Nat, NEW n \in Nat \ {0}
  PROVE  /\ Slice(f, b, n) # << >>
         /\ Head(Slice(f, b, n)) = f[b + 1]
         /\ Tail(Slice(f, b, n)) = Slice(f, b + 1, n - 1)
<1> DEFINE S == Values(f)
           s == Slice(f, b, n)
<1>1. s \in Seq(S) /\ Len(s) = n /\ \A i \in 1 .. n : s[i] = f[b + i]
  BY SliceProperties
<1>0. 1 \in 1 .. n /\ n - 1 \in Nat /\ b + 1 \in Nat
  OBVIOUS
<1> HIDE DEF s, S
<1>2. s # << >> /\ Head(s) = s[1]
  BY <1>1
<1>3. /\ Tail(s) \in Seq(S) /\ Len(Tail(s)) = n - 1
      /\ \A i \in 1 .. Len(Tail(s)) : Tail(s)[i] = s[i + 1]
  BY <1>1, <1>2, HeadTailProperties
<1>4. ASSUME NEW i \in 1 .. n - 1 PROVE Tail(s)[i] = f[(b + 1) + i]
  <2>1. i + 1 \in 1 .. n /\ b + (i + 1) = (b + 1) + i
    OBVIOUS
  <2> QED
    BY <1>1, <1>3, <2>1
<1>5. Tail(s) = Slice(f, b + 1, n - 1)
  <2>1. Tail(s) \in Seq(S) /\ Len(Tail(s)) = n - 1 /\ n - 1 \in Nat /\ b + 1 \in Nat
    BY <1>0, <1>3
  <2> DEFINE r == Tail(s)
  <2> HIDE DEF r
  <2> QED
    BY <1>4, <2>1, IsSlice DEF r
<1> QED
  BY <1>0, <1>1, <1>2, <1>5 DEF s
==============================================================================
