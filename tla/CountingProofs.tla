-------------------------- MODULE CountingProofs ----------------------------
(***************************************************************************)
(* What Count gives for the operations on sequences that the queues of the *)
(* programs go through.  The proofs about the pingpongs count where a      *)
(* buffer, a frame or a completion is, and rest on these lemmas only.      *)
(***************************************************************************)
EXTENDS Counting, FiniteSetTheorems, FunctionTheorems, SequenceTheorems, TLAPS

(* Positions are finite in number, and not more than the sequence is long. *)
LEMMA CountType ==
    ASSUME NEW T, NEW s \in Seq(T), NEW S
    PROVE  /\ IsFiniteSet(Positions(s, S))
           /\ Count(s, S) \in Nat
           /\ Count(s, S) <= Len(s)
  <1>1. Len(s) \in Nat /\ DOMAIN s = 1..Len(s)
    BY LenProperties
  <1>2. IsFiniteSet(1..Len(s)) /\ Cardinality(1..Len(s)) = Len(s)
    BY <1>1, FS_Interval
  <1>3. Positions(s, S) \in SUBSET (1..Len(s))
    BY <1>1 DEF Positions
  <1>4. IsFiniteSet(Positions(s, S)) /\ Cardinality(Positions(s, S)) <= Len(s)
    BY <1>2, <1>3, FS_Subset
  <1> QED
    BY <1>4, FS_CardinalityType DEF Count

(* Nothing is counted exactly when no position holds a member of S. *)
LEMMA CountZero ==
    ASSUME NEW T, NEW s \in Seq(T), NEW S
    PROVE  Count(s, S) = 0 <=> \A n \in 1..Len(s) : s[n] \notin S
  <1>1. Count(s, S) = 0 <=> Positions(s, S) = {}
    BY CountType, FS_EmptySet DEF Count
  <1>2. DOMAIN s = 1..Len(s)
    BY LenProperties
  <1> QED
    BY <1>1, <1>2 DEF Positions

(* An empty queue holds nothing. *)
LEMMA CountEmpty ==
    ASSUME NEW S
    PROVE  Count(<<>>, S) = 0
  <1>1. Positions(<<>>, S) = {}
    BY DEF Positions
  <1> QED
    BY <1>1, FS_EmptySet DEF Count

(* A member that occurs twice is counted twice. *)
LEMMA CountTwo ==
    ASSUME NEW T, NEW s \in Seq(T), NEW S,
           NEW m \in 1..Len(s), NEW n \in 1..Len(s), m # n, s[m] \in S, s[n] \in S
    PROVE  Count(s, S) >= 2
  <1>1. {m, n} \in SUBSET Positions(s, S)
    BY LenProperties DEF Positions
  <1>2. IsFiniteSet({m}) /\ Cardinality({m}) = 1
    BY FS_Singleton
  <1>3. Cardinality({m} \cup {n}) = 2
    <2>1. n \notin {m}
      OBVIOUS
    <2>2. Cardinality({m} \cup {n}) = IF n \in {m} THEN Cardinality({m}) ELSE Cardinality({m}) + 1
      BY <1>2, FS_AddElement, Zenon
    <2> QED
      BY <1>2, <2>1, <2>2
  <1>4. {m} \cup {n} = {m, n}
    OBVIOUS
  <1>5. Cardinality({m, n}) <= Cardinality(Positions(s, S))
    BY <1>1, CountType, FS_Subset
  <1> QED
    BY <1>3, <1>4, <1>5, CountType DEF Count

(* Everything is counted when all that occurs is in S. *)
LEMMA CountAll ==
    ASSUME NEW T, NEW s \in Seq(T), NEW S, \A n \in 1..Len(s) : s[n] \in S
    PROVE  Count(s, S) = Len(s)
  <1>1. Positions(s, S) = 1..Len(s) /\ Len(s) \in Nat
    BY LenProperties DEF Positions
  <1>2. Cardinality(1..Len(s)) = IF 1 > Len(s) THEN 0 ELSE Len(s) - 1 + 1
    BY <1>1, FS_Interval, 1 \in Int
  <1> QED
    BY <1>1, <1>2 DEF Count

(* What is appended to a queue is counted with the rest. *)
LEMMA CountAppend ==
    ASSUME NEW T, NEW s \in Seq(T), NEW S, NEW x \in T
    PROVE  Count(Append(s, x), S) = Count(s, S) + Hit(x, S)
  <1> DEFINE P == Positions(s, S)
  <1>1. Len(s) \in Nat /\ DOMAIN s = 1..Len(s)
    BY LenProperties
  <1>2. /\ DOMAIN Append(s, x) = 1..(Len(s) + 1)
        /\ \A i \in 1..Len(s) : Append(s, x)[i] = s[i]
        /\ Append(s, x)[Len(s) + 1] = x
    BY AppendProperties, LenProperties
  <1>3. Len(s) + 1 \notin P
    BY <1>1 DEF Positions
  <1>4. CASE x \in S
    <2>1. Positions(Append(s, x), S) = P \cup {Len(s) + 1}
      BY <1>1, <1>2, <1>4 DEF Positions
    <2> QED
      BY <2>1, <1>3, <1>4, CountType, FS_AddElement DEF Count, Hit
  <1>5. CASE x \notin S
    <2>1. Positions(Append(s, x), S) = P
      BY <1>1, <1>2, <1>5 DEF Positions
    <2> QED
      BY <2>1, <1>5, CountType DEF Count, Hit
  <1> QED
    BY <1>4, <1>5

(* What two queues hold together. *)
LEMMA CountConcat ==
    ASSUME NEW T, NEW s \in Seq(T), NEW t \in Seq(T), NEW S
    PROVE  Count(s \o t, S) = Count(s, S) + Count(t, S)
  <1> DEFINE P == Positions(s, S)
             Q == Positions(t, S)
             R == {n \in (Len(s) + 1)..(Len(s) + Len(t)) : t[n - Len(s)] \in S}
             f == [n \in Q |-> n + Len(s)]
  <1>1. /\ Len(s) \in Nat /\ DOMAIN s = 1..Len(s)
        /\ Len(t) \in Nat /\ DOMAIN t = 1..Len(t)
    BY LenProperties
  <1>2. /\ DOMAIN (s \o t) = 1..(Len(s) + Len(t))
        /\ \A i \in 1..(Len(s) + Len(t)) :
              (s \o t)[i] = IF i <= Len(s) THEN s[i] ELSE t[i - Len(s)]
    <2>1. s \o t \in Seq(T) /\ Len(s \o t) = Len(s) + Len(t)
      BY ConcatProperties
    <2> QED
      BY <2>1, ConcatProperties, LenProperties
  <1>3. Positions(s \o t, S) = P \cup R
    BY <1>1, <1>2 DEF Positions
  <1>4. P \cap R = {}
    BY <1>1 DEF Positions
  <1>5. f \in Bijection(Q, R)
    <2>1. f \in [Q -> R]
      BY <1>1 DEF Positions
    <2>2. \A a, b \in Q : f[a] = f[b] => a = b
      BY <1>1 DEF Positions
    <2>3. \A r \in R : \E q \in Q : f[q] = r
      <3> TAKE r \in R
      <3>1. r - Len(s) \in Q /\ f[r - Len(s)] = r
        BY <1>1 DEF Positions
      <3> QED
        BY <3>1
    <2> QED
      BY <2>1, <2>2, <2>3, Fun_IsBij
  <1>6. IsFiniteSet(Q) /\ IsFiniteSet(P)
    BY CountType
  <1>7. IsFiniteSet(R) /\ Cardinality(R) = Cardinality(Q)
    BY <1>5, <1>6, FS_Bijection DEF ExistsBijection
  <1>8. Cardinality(P \cup R) = Cardinality(P) + Cardinality(R) - Cardinality({})
    BY <1>4, <1>6, <1>7, FS_Union
  <1> HIDE DEF P, Q, R, f
  <1> QED
    BY <1>3, <1>6, <1>7, <1>8, FS_EmptySet, FS_CardinalityType DEF Count, P, Q

(* What is left when the first is taken from a queue. *)
LEMMA CountTail ==
    ASSUME NEW T, NEW s \in Seq(T), NEW S, s # <<>>
    PROVE  Count(s, S) = Count(Tail(s), S) + Hit(Head(s), S)
  <1>1. Head(s) \in T /\ Tail(s) \in Seq(T)
    BY HeadTailProperties
  <1> DEFINE h == <<Head(s)>>
             e == SubSeq(s, 1, 0)
  <1>2. h \in Seq(T) /\ e \in Seq(T) /\ h = Append(e, Head(s)) /\ e = <<>>
    BY <1>1
  <1>3. s = h \o Tail(s)
    BY <1>1
  <1> HIDE DEF h, e
  <1>4. Count(h \o Tail(s), S) = Count(h, S) + Count(Tail(s), S)
    BY <1>1, <1>2, CountConcat, Zenon
  <1>5. Count(Append(e, Head(s)), S) = Count(e, S) + Hit(Head(s), S)
    BY <1>1, <1>2, CountAppend, Zenon
  <1>6. Count(e, S) = 0
    BY <1>2, CountEmpty
  <1>7. Count(Tail(s), S) \in Nat
    BY <1>1, CountType, Zenon
  <1>8. Count(s, S) = Count(h, S) + Count(Tail(s), S)
    BY <1>3, <1>4, Zenon
  <1>9. Count(h, S) = Count(e, S) + Hit(Head(s), S)
    BY <1>2, <1>5, Zenon
  <1> QED
    BY <1>6, <1>7, <1>8, <1>9 DEF Hit

(* A queue from which the first n are taken. *)
LEMMA CountSplit ==
    ASSUME NEW T, NEW s \in Seq(T), NEW S, NEW n \in 0..Len(s)
    PROVE  /\ SubSeq(s, 1, n) \in Seq(T) /\ SubSeq(s, n + 1, Len(s)) \in Seq(T)
           /\ Len(SubSeq(s, 1, n)) = n /\ Len(SubSeq(s, n + 1, Len(s))) = Len(s) - n
           /\ Count(s, S) = Count(SubSeq(s, 1, n), S) + Count(SubSeq(s, n + 1, Len(s)), S)
  <1>1. Len(s) \in Nat
    BY LenProperties
  <1>2. \A i \in 1..Len(s) : s[i] \in T
    BY ElementOfSeq
  <1>3. SubSeq(s, 1, n) \in Seq(T) /\ Len(SubSeq(s, 1, n)) = n
    BY <1>1, <1>2, SubSeqProperties
  <1>4. SubSeq(s, n + 1, Len(s)) \in Seq(T) /\ Len(SubSeq(s, n + 1, Len(s))) = Len(s) - n
    BY <1>1, <1>2, SubSeqProperties
  <1>5. SubSeq(s, 1, n) \o SubSeq(s, n + 1, Len(s)) = s
    <2>1. n \in 1 - 1..Len(s) /\ 1 \in 1..Len(s) + 1 /\ Len(s) \in n..Len(s)
      BY <1>1
    <2>2. SubSeq(s, 1, n) \o SubSeq(s, n + 1, Len(s)) = SubSeq(s, 1, Len(s))
      BY <2>1, ConcatAdjacentSubSeq
    <2> QED
      BY <2>2, SubSeqFull
  <1>6. Count(SubSeq(s, 1, n) \o SubSeq(s, n + 1, Len(s)), S) =
            Count(SubSeq(s, 1, n), S) + Count(SubSeq(s, n + 1, Len(s)), S)
    BY <1>3, <1>4, CountConcat, Zenon
  <1> QED
    BY <1>3, <1>4, <1>5, <1>6
(* What is found in the first n of a queue is found in the queue. *)
LEMMA CountPrefix ==
    ASSUME NEW T, NEW s \in Seq(T), NEW S, NEW n \in 0..Len(s)
    PROVE  /\ Count(SubSeq(s, 1, n), S) \in 0..Count(s, S)
           /\ n > 0 /\ s[n] \in S => Count(SubSeq(s, 1, n), S) > 0
  <1> DEFINE p == SubSeq(s, 1, n)
             r == SubSeq(s, n + 1, Len(s))
  <1>1. p \in Seq(T) /\ r \in Seq(T) /\ Count(s, S) = Count(p, S) + Count(r, S)
    BY CountSplit
  <1>2. Count(p, S) \in Nat /\ Count(r, S) \in Nat
    BY <1>1, CountType, Zenon
  <1>3. ASSUME n > 0, s[n] \in S
        PROVE  Count(p, S) # 0
    <2>1. Len(p) = n /\ p[n] = s[n]
      BY <1>3, LenProperties
    <2> HIDE DEF p
    <2> QED
      BY <1>1, <1>3, <2>1, CountZero
  <1> HIDE DEF p, r
  <1>4. Count(p, S) \in 0..Count(s, S)
    BY <1>1, <1>2
  <1> QED
    BY <1>2, <1>3, <1>4 DEF p

(* The first of a queue and the first n after it. *)
LEMMA CountTailPrefix ==
    ASSUME NEW T, NEW s \in Seq(T), NEW S, s # <<>>, NEW n \in 1..Len(Tail(s))
    PROVE  Count(SubSeq(s, 1, n + 1), S) = Count(SubSeq(Tail(s), 1, n), S) + Hit(Head(s), S)
  <1> DEFINE p == SubSeq(s, 1, n + 1)
  <1>1. Len(s) \in Nat /\ Len(Tail(s)) = Len(s) - 1 /\ n + 1 \in 1..Len(s) /\ 1 \in 1..Len(s)
    BY LenProperties, HeadTailProperties
  <1>2. p \in Seq(T) /\ p # <<>>
    BY <1>1
  <1>3. Head(p) = Head(s) /\ Tail(p) = SubSeq(Tail(s), 1, n)
    BY <1>1
  <1>4. Count(p, S) = Count(Tail(p), S) + Hit(Head(p), S)
    BY <1>2, CountTail, Zenon
  <1> QED
    BY <1>3, <1>4, Zenon

(* A value that occurs at one position only is counted once. *)
LEMMA CountOnce ==
    ASSUME NEW T, NEW s \in Seq(T), NEW S, NEW m \in 1..Len(s), s[m] \in S,
           \A n \in 1..Len(s) : s[n] \in S => n = m
    PROVE  Count(s, S) = 1
  <1>1. Positions(s, S) = {m}
    BY LenProperties DEF Positions
  <1> QED
    BY <1>1, FS_Singleton DEF Count

(* In a sequence without repetitions nothing is counted twice. *)
LEMMA CountAtMostOnce ==
    ASSUME NEW T, NEW s \in Seq(T), NEW x,
           \A m, n \in 1..Len(s) : s[m] = s[n] => m = n
    PROVE  Count(s, {x}) \in {0, 1}
  <1>1. CASE \E m \in 1..Len(s) : s[m] = x
    <2> PICK m \in 1..Len(s) : s[m] = x
      BY <1>1
    <2>1. s[m] \in {x} /\ \A n \in 1..Len(s) : s[n] \in {x} => n = m
      OBVIOUS
    <2> QED
      BY <2>1, CountOnce
  <1>2. CASE ~\E m \in 1..Len(s) : s[m] = x
    BY <1>2, CountZero
  <1> QED
    BY <1>1, <1>2
(* A queue of members of T is one of members of a larger set. *)
LEMMA SeqWiden ==
    ASSUME NEW T, NEW U, NEW s \in Seq(T), \A x \in T : x \in U
    PROVE  s \in Seq(U)
  <1>1. Len(s) \in Nat /\ DOMAIN s = 1..Len(s) /\ \A n \in 1..Len(s) : s[n] \in T
    BY LenProperties, ElementOfSeq
  <1>2. s = [n \in 1..Len(s) |-> s[n]]
    BY <1>1
  <1>3. [n \in 1..Len(s) |-> s[n]] \in [1..Len(s) -> U]
    BY <1>1
  <1>4. s \in [1..Len(s) -> U]
    BY <1>2, <1>3
  <1> QED
    BY <1>1, <1>4, SeqDef
(* A queue that agrees with the beginning of a longer one is its prefix. *)
LEMMA SamePrefix ==
    ASSUME NEW T, NEW U, NEW s \in Seq(T), NEW t \in Seq(U), Len(s) <= Len(t),
           \A n \in 1..Len(s) : s[n] = t[n]
    PROVE  SubSeq(s, 1, Len(s)) = SubSeq(t, 1, Len(s))
  <1>1. Len(s) \in Nat /\ Len(t) \in Nat
    BY LenProperties
  <1>2. SubSeq(s, 1, Len(s)) = [i \in 1..Len(s) |-> s[i]]
    BY <1>1, SubSeqProperties
  <1>3. SubSeq(t, 1, Len(s)) = [i \in 1..Len(s) |-> t[i]]
    BY <1>1, SubSeqProperties
  <1> QED
    BY <1>2, <1>3
=============================================================================
