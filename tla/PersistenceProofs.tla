------------------------- MODULE PersistenceProofs --------------------------
(***************************************************************************)
(* Theorems about the persistence agent (Persistence) for every width of   *)
(* the timestamps, every number and range of buckets and every number of   *)
(* payloads.                                                               *)
(*                                                                         *)
(* The payload that the agent remembers is the last one it counted, so a   *)
(* counter is increased for exactly the value that the log of counted      *)
(* payloads gains; that bucket_idx picks the bucket the value lies in is a *)
(* fact about division alone.                                              *)
(***************************************************************************)
EXTENDS Persistence, SequenceTheorems, FiniteSetTheorems, TLAPS

-----------------------------------------------------------------------------
(* The inductive invariant. *)

(* Counters and the number of payloads. *)
Counters ==
    /\ Len(given) <= MaxWrites /\ tot_packets <= Len(given)
    /\ \A c \in Columns, k \in Buckets : buckets[c][k] <= Len(given)

(* The agent remembers the last payload it counted. *)
Remembers ==
    flags = "buckets" =>
        IF counted = <<>> THEN prev_payload = NoPayload ELSE prev_payload = counted[Len(counted)]

(* The extremes of the columns, before there are any too. *)
ColumnsStart ==
    (flags = "buckets" /\ Len(counted) <= 1) => \A c \in Columns : min[c] = UINT64_MAX /\ max[c] = 0

(* The extreme latencies, and the payloads that have them. *)
MinSoFar ==
    /\ \A n \in 1..Len(given) : min[5] <= compute_latency(given[n])
    /\ min[5] # UINT64_MAX =>
          \E n \in 1..Len(given) : min_payload = given[n] /\ compute_latency(given[n]) = min[5]

MaxSoFar ==
    /\ \A n \in 1..Len(given) : max[5] >= compute_latency(given[n])
    /\ max[5] # 0 =>
          \E n \in 1..Len(given) : max_payload = given[n] /\ compute_latency(given[n]) = max[5]

Reported == closed => file = Report

MinMaxInv == flags = "min_max" => MinSoFar /\ MaxSoFar /\ Reported

PersistenceInv ==
    /\ TypeOK /\ Counters /\ Remembers
    /\ CountedInOrder /\ Histogram
    /\ ColumnsStart /\ ColumnExtremes
    /\ MinMaxInv

-----------------------------------------------------------------------------
(* Division. *)

(* Multiplication keeps the order. *)
LEMMA TimesMonotone ==
    ASSUME NEW a \in Nat, NEW b \in Nat, NEW s \in Nat, a <= b
    PROVE  a * s <= b * s
  <1>1. b * s - a * s = (b - a) * s
    OBVIOUS
  <1>2. (b - a) * s >= 0
    OBVIOUS
  <1> QED
    BY <1>1, <1>2

(* A quotient is the number of whole parts. *)
LEMMA Quotient ==
    ASSUME NEW u \in Nat, NEW s \in Nat \ {0}
    PROVE  u \div s \in Nat /\ (u \div s) * s <= u /\ u < (u \div s + 1) * s
  OBVIOUS

(* There is only one such number. *)
LEMMA QuotientUnique ==
    ASSUME NEW u \in Nat, NEW s \in Nat \ {0}, NEW j \in Nat, j * s <= u, u < (j + 1) * s
    PROVE  u \div s = j
  <1> DEFINE q == u \div s
  <1>1. q \in Nat /\ q * s <= u /\ u < (q + 1) * s
    BY Quotient
  <1> HIDE DEF q
  <1>2. CASE q < j
    <2>1. (q + 1) * s <= j * s
      BY <1>1, <1>2, TimesMonotone
    <2> QED
      BY <1>1, <2>1
  <1>3. CASE j < q
    <2>1. (j + 1) * s <= q * s
      BY <1>1, <1>3, TimesMonotone
    <2> QED
      BY <1>1, <2>1
  <1> QED
    BY <1>1, <1>2, <1>3 DEF q

(* A common factor. *)
LEMMA CommonFactor ==
    ASSUME NEW a \in Nat, NEW b \in Nat, NEW s \in Nat \ {0}
    PROVE  (a * s <= b * s <=> a <= b) /\ (a * s < b * s <=> a < b)
  <1>1. \A m, n \in Nat : m < n => m * s < n * s
    <2> TAKE m, n \in Nat
    <2> HAVE m < n
    <2>1. (m + 1) * s <= n * s
      BY TimesMonotone
    <2>2. (m + 1) * s = m * s + s
      OBVIOUS
    <2>3. m * s \in Nat /\ n * s \in Nat
      OBVIOUS
    <2> QED
      BY <2>1, <2>2, <2>3
  <1>2. a * s \in Nat /\ b * s \in Nat
    OBVIOUS
  <1>3. CASE a < b
    BY <1>1, <1>2, <1>3
  <1>4. CASE b < a
    BY <1>1, <1>2, <1>4
  <1>5. CASE a = b
    BY <1>2, <1>5
  <1> QED
    BY <1>3, <1>4, <1>5

(* Quotient and remainder. *)
LEMMA Remainder ==
    ASSUME NEW d \in Nat, NEW b \in Nat, b > 0
    PROVE  d = b * (d \div b) + (d % b)
  BY SMTT(30)

(* Parts of equal size. *)
LEMMA WholeParts ==
    ASSUME NEW d \in Nat \ {0}, NEW b \in Nat \ {0}, d % b = 0
    PROVE  d \div b \in Nat \ {0} /\ d = (d \div b) * b
  <1>1. d = b * (d \div b) + (d % b)
    BY Remainder
  <1>2. d \div b \in Nat
    BY Quotient
  <1>3. d = (d \div b) * b
    BY <1>1, <1>2
  <1> QED
    BY <1>2, <1>3

(* bucket_idx picks the bucket that a value lies in: the ends of the range *)
(* survive the conversion to int64_t, and a value that does not is         *)
(* negative.                                                               *)
LEMMA BucketOf ==
    ASSUME NEW lo \in Nat, NEW hi \in Nat, lo < hi, 2 * hi < Word, (hi - lo) % NUM_BUCKETS = 0,
           NEW v \in 0..(Word - 1), NEW k \in Buckets
    PROVE  InBucket(v, [min |-> lo, max |-> hi], k) <=> k = bucket_idx(v, [min |-> lo, max |-> hi])
  <1> DEFINE r == [min |-> lo, max |-> hi]
             d == hi - lo
             s == d \div NUM_BUCKETS
             u == v - lo
  <1>1. NUM_BUCKETS \in Nat \ {0} /\ d \in Nat \ {0} /\ r.min = lo /\ r.max = hi
    BY BucketsAssumption
  <1>v. v \in Nat /\ Word \in Nat
    BY WordAssumption
  <1>c. Signed(lo) = lo /\ Signed(hi) = hi
    BY <1>v DEF Signed
  <1>2. s \in Nat \ {0} /\ d = s * NUM_BUCKETS
    BY <1>1, WholeParts
  <1>3. bucket_size(r) = s
    BY <1>1, <1>c DEF bucket_size
  <1>4. k \in Nat
    BY <1>1 DEF Buckets
  <1>n. CASE ~(2 * v < Word)
    <2>1. Signed(v) = v - Word /\ v - Word < lo
      BY <1>v, <1>n DEF Signed
    <2>2. bucket_idx(v, r) = 0
      BY <1>1, <1>c, <2>1 DEF bucket_idx
    <2>3. InBucket(v, r, k) <=> k = 0
      BY <1>v, <1>n DEF InBucket
    <2> QED
      BY <2>2, <2>3
  <1> SUFFICES ASSUME 2 * v < Word PROVE InBucket(v, r, k) <=> k = bucket_idx(v, r)
    BY <1>n
  <1>w. Signed(v) = v /\ ~(2 * v >= Word)
    BY <1>v DEF Signed
  <1>5. InBucket(v, r, k) <=> IF v < lo THEN k = 0
                              ELSE IF v >= hi THEN k = NUM_BUCKETS + 1
                              ELSE k \in 1..NUM_BUCKETS /\ (k - 1) * d <= u * NUM_BUCKETS
                                                        /\ u * NUM_BUCKETS < k * d
    BY <1>1, <1>w DEF InBucket
  <1>6. bucket_idx(v, r) = IF v < lo THEN 0
                           ELSE IF v > hi THEN NUM_BUCKETS + 1
                           ELSE u \div s + 1
    BY <1>1, <1>3, <1>c, <1>w DEF bucket_idx
  <1> HIDE DEF s, r
  <1>7. CASE v < lo
    BY <1>5, <1>6, <1>7 DEF r
  <1>8. CASE v > hi
    BY <1>5, <1>6, <1>8 DEF r
  <1>9. CASE v = hi
    <2>1. NUM_BUCKETS * s <= u /\ u < (NUM_BUCKETS + 1) * s
      BY <1>1, <1>2, <1>9
    <2>2. u \in Nat
      BY <1>1, <1>9
    <2>3. u \div s = NUM_BUCKETS
      BY <1>1, <1>2, <2>1, <2>2, QuotientUnique
    <2> QED
      BY <1>1, <1>5, <1>6, <1>9, <2>3 DEF r
  <1>10. CASE lo <= v /\ v < hi
    <2>1. u \in Nat /\ u < d
      BY <1>10
    <2> HIDE DEF u, d
    <2> DEFINE q == u \div s
    <2>2. q \in Nat /\ q * s <= u /\ u < (q + 1) * s
      BY <1>2, <2>1, Quotient
    <2>3. \A j \in Nat : j * s <= u /\ u < (j + 1) * s => q = j
      BY <1>2, <2>1, QuotientUnique
    <2> HIDE DEF q
    <2>4. q + 1 \in 1..NUM_BUCKETS
      <3>1. CASE q >= NUM_BUCKETS
        <4>1. NUM_BUCKETS * s <= q * s
          BY <1>1, <1>2, <2>2, <3>1, TimesMonotone
        <4>2. NUM_BUCKETS * s = d /\ q * s \in Nat /\ d \in Nat
          BY <1>1, <1>2, <2>2
        <4> QED
          BY <2>1, <2>2, <4>1, <4>2
      <3> QED
        BY <1>1, <2>2, <3>1
    <2>5. ASSUME NEW j \in Nat
          PROVE  (j * d <= u * NUM_BUCKETS <=> j * s <= u) /\ (u * NUM_BUCKETS < j * d <=> u < j * s)
      <3>1. j * d = (j * s) * NUM_BUCKETS /\ j * s \in Nat
        BY <1>1, <1>2
      <3>2. /\ (j * s) * NUM_BUCKETS <= u * NUM_BUCKETS <=> j * s <= u
            /\ u * NUM_BUCKETS < (j * s) * NUM_BUCKETS <=> u < j * s
        BY <1>1, <2>1, <3>1, CommonFactor
      <3> QED
        BY <3>1, <3>2
    <2>6. InBucket(v, r, k) <=> /\ k \in 1..NUM_BUCKETS
                                /\ (k - 1) * d <= u * NUM_BUCKETS /\ u * NUM_BUCKETS < k * d
      BY <1>5, <1>10
    <2>7. bucket_idx(v, r) = q + 1
      BY <1>6, <1>10 DEF q
    <2>8. CASE k = 0
      BY <2>2, <2>6, <2>7, <2>8 DEF r
    <2>9. CASE k # 0
      <3>1. k - 1 \in Nat /\ (k - 1) + 1 = k
        BY <1>4, <2>9
      <3>2. (k - 1) * s <= u /\ u < k * s <=> q = k - 1
        <4>1. q = k - 1 => (k - 1) * s <= u /\ u < k * s
          BY <2>2, <3>1
        <4> QED
          BY <2>3, <3>1, <4>1
      <3>3. InBucket(v, r, k) <=> k \in 1..NUM_BUCKETS /\ (k - 1) * s <= u /\ u < k * s
        BY <1>4, <2>5, <2>6, <3>1
      <3>4. q = k - 1 <=> k = q + 1
        BY <1>4, <2>2
      <3> QED
        BY <2>4, <2>7, <3>2, <3>3, <3>4 DEF r
    <2> QED
      BY <2>8, <2>9
  <1> QED
    BY <1>7, <1>8, <1>9, <1>10

-----------------------------------------------------------------------------
(* Values. *)

(* The constants. *)
LEMMA Sizes ==
    /\ Word \in Nat /\ Word > 1 /\ UINT64_MAX \in Nat /\ NUM_BUCKETS \in Nat /\ MaxWrites \in Nat
    /\ \A ts \in Stamps : ts # NoPayload /\ \A c \in 1..4 : ts[c] \in 0..UINT64_MAX
  <1>1. Word \in Nat /\ Word > 1 /\ UINT64_MAX \in Nat /\ UINT64_MAX = Word - 1
    BY WordAssumption DEF UINT64_MAX
  <1>2. ASSUME NEW ts \in Stamps PROVE ts # NoPayload /\ \A c \in 1..4 : ts[c] \in 0..UINT64_MAX
    <2>1. ts \in [1..4 -> 0..(Word - 1)]
      BY StampsAssumption
    <2>2. DOMAIN ts = 1..4 /\ 1 \in 1..4
      BY <2>1
    <2>3. ts # <<>>
      BY <2>2
    <2> QED
      BY <1>1, <2>1, <2>3 DEF NoPayload
  <1> QED
    BY <1>1, <1>2, BucketsAssumption, WritesAssumption

(* A latency fits in a timestamp. *)
LEMMA LatencyRange == ASSUME NEW ts \in Stamps PROVE compute_latency(ts) \in 0..UINT64_MAX
  <1>1. \A a, b \in Int : Sub(a, b) \in 0..(Word - 1)
    BY WordAssumption DEF Sub
  <1>2. \A c \in {1, 2, 3, 4} : ts[c] \in Int
    BY Sizes
  <1>3. Sub(ts[4], ts[1]) \in Int /\ Sub(ts[3], ts[2]) \in Int
    <2>1. ts[1] \in Int /\ ts[2] \in Int /\ ts[3] \in Int /\ ts[4] \in Int
      BY <1>2
    <2>2. Sub(ts[4], ts[1]) \in 0..(Word - 1) /\ Sub(ts[3], ts[2]) \in 0..(Word - 1)
      BY <1>1, <2>1
    <2> QED
      BY <2>2, WordAssumption
  <1>4. PICK x \in 0..(Word - 1) : x = Sub(Sub(ts[4], ts[1]), Sub(ts[3], ts[2]))
    BY <1>1, <1>3
  <1>5. x \div 2 \in 0..x
    BY WordAssumption
  <1> QED
    BY <1>4, <1>5, WordAssumption DEF compute_latency, UINT64_MAX

(* So do the differences of payloads in order. *)
LEMMA ValueRange ==
    ASSUME NEW ts \in Stamps, NEW prev \in Stamps, \A c \in 1..4 : ~(ts[c] < prev[c]), NEW c \in Columns
    PROVE  Value(ts, prev, c) \in 0..UINT64_MAX
  <1>1. CASE c = 5
    BY <1>1, LatencyRange DEF Value
  <1>2. CASE c # 5
    <2>1. c \in 1..4
      BY <1>2 DEF Columns
    <2>2. ts[c] \in 0..UINT64_MAX /\ prev[c] \in 0..UINT64_MAX /\ ~(ts[c] < prev[c])
      BY <2>1, Sizes
    <2> QED
      BY <1>2, <2>2, Sizes DEF Value
  <1> QED
    BY <1>1, <1>2

(* The ranges of the columns. *)
LEMMA RangeOf ==
    ASSUME interval \in Intervals, NEW c \in Columns
    PROVE  \E lo, hi \in Nat : lo < hi /\ 2 * hi < Word /\ bucket_ranges(c) = [min |-> lo, max |-> hi]
  <1>1. /\ interval \in Nat /\ OFFSET \in Nat \ {0} /\ Word \in Nat
        /\ 2 * (interval + OFFSET) < Word /\ 2 * (2 * OFFSET) < Word
    BY IntervalsAssumption, BucketsAssumption, WordAssumption
  <1>2. CASE c = 5
    BY <1>1, <1>2 DEF bucket_ranges
  <1>3. CASE c # 5 /\ interval < OFFSET
    BY <1>1, <1>3 DEF bucket_ranges
  <1>4. CASE c # 5 /\ ~(interval < OFFSET)
    <2>1. interval - OFFSET \in Nat /\ interval + OFFSET \in Nat /\ interval - OFFSET < interval + OFFSET
      BY <1>1, <1>4
    <2> QED
      BY <1>1, <1>4, <2>1 DEF bucket_ranges
  <1> QED
    BY <1>2, <1>3, <1>4

(* bucket_idx and the ranges of the columns. *)
LEMMA ColumnBucket ==
    ASSUME interval \in Intervals, NEW c \in Columns, NEW v \in 0..UINT64_MAX, NEW k \in Buckets,
           (bucket_ranges(c).max - bucket_ranges(c).min) % NUM_BUCKETS = 0
    PROVE  InBucket(v, bucket_ranges(c), k) <=> k = bucket_idx(v, bucket_ranges(c))
  <1>1. PICK lo \in Nat, hi \in Nat : lo < hi /\ 2 * hi < Word /\ bucket_ranges(c) = [min |-> lo, max |-> hi]
    BY RangeOf
  <1>2. (hi - lo) % NUM_BUCKETS = 0
    BY <1>1
  <1>3. InBucket(v, [min |-> lo, max |-> hi], k) <=> k = bucket_idx(v, [min |-> lo, max |-> hi])
    BY <1>1, <1>2, BucketOf DEF UINT64_MAX
  <1> QED
    BY <1>1, <1>3

-----------------------------------------------------------------------------
(* Steps. *)

(* A payload at the end of a log. *)
LEMMA Logged ==
    ASSUME NEW q \in Seq(Stamps), NEW ts \in Stamps
    PROVE  /\ Append(q, ts) \in Seq(Stamps) /\ Len(q) \in Nat
           /\ Len(Append(q, ts)) = Len(q) + 1
           /\ \A n \in 1..Len(q) : Append(q, ts)[n] = q[n]
           /\ Append(q, ts)[Len(q) + 1] = ts
           /\ DOMAIN q = 1..Len(q) /\ DOMAIN Append(q, ts) = 1..(Len(q) + 1)
           /\ \A n \in 1..Len(q) : q[n] \in Stamps
  <1>1. Append(q, ts) \in Seq(Stamps) /\ Len(Append(q, ts)) = Len(q) + 1
    BY AppendProperties
  <1> QED
    BY <1>1, AppendProperties, LenProperties, ElementOfSeq

(* The first states. *)
LEMMA PersistenceStarts == Init => PersistenceInv
  <1> SUFFICES ASSUME Init PROVE PersistenceInv
    OBVIOUS
  <1> USE DEF Init
  <1>1. given = <<>> /\ counted = <<>> /\ Len(given) = 0 /\ Len(counted) = 0
    OBVIOUS
  <1>2. given \in Seq(Stamps) /\ counted \in Seq(Stamps)
    BY EmptySeq
  <1>3. UINT64_MAX \in Nat /\ MaxWrites \in Nat /\ 0 \in 0..UINT64_MAX /\ UINT64_MAX \in 0..UINT64_MAX
        /\ 0 \in 0..MaxWrites
    BY Sizes
  <1>4. min \in [Columns -> 0..UINT64_MAX] /\ max \in [Columns -> 0..UINT64_MAX]
        /\ buckets \in [Columns -> [Buckets -> 0..MaxWrites]]
    BY <1>3 DEF InitialMin
  <1>5. TypeOK
    BY <1>2, <1>3, <1>4 DEF TypeOK
  <1>6. \A c \in Columns, k \in Buckets : buckets[c][k] = 0
    OBVIOUS
  <1>7. Counters
    BY <1>1, <1>3, <1>6 DEF Counters
  <1>8. Remembers
    BY <1>1 DEF Remembers
  <1>9. 2..Len(counted) = {} /\ 1..Len(given) = {} /\ DOMAIN given = {} /\ DOMAIN counted = {}
    BY <1>1
  <1>10. CountedInOrder
    BY <1>9 DEF CountedInOrder
  <1>11. Histogram
    <2>1. \A c \in Columns, k \in Buckets :
             {n \in 2..Len(counted) : InBucket(ColumnValue(n, c), bucket_ranges(c), k)} = {}
      BY <1>9
    <2> QED
      BY <1>6, <2>1, FS_EmptySet DEF Histogram
  <1>12. ColumnsStart
    BY DEF ColumnsStart, InitialMin
  <1>13. ColumnExtremes
    BY <1>1, <1>9 DEF ColumnExtremes
  <1>14. min[5] = UINT64_MAX /\ max[5] = 0
    BY DEF InitialMin, Columns
  <1>15. MinMaxInv
    BY <1>9, <1>14 DEF MinMaxInv, MinSoFar, MaxSoFar, Reported
  <1> QED
    BY <1>5, <1>7, <1>8, <1>10, <1>11, <1>12, <1>13, <1>15 DEF PersistenceInv

(* What the buckets account for when nothing about them changes. *)
LEMMA ColumnsUnchanged ==
    ASSUME PersistenceInv, UNCHANGED <<flags, interval, min, max, buckets, counted, prev_payload>>
    PROVE  (Remembers /\ Histogram /\ ColumnsStart /\ ColumnExtremes)'
  BY DEF PersistenceInv, Remembers, Histogram, ColumnsStart, ColumnExtremes, ColumnValue, bucket_ranges

(* Closing the agent. *)
LEMMA ClosePreserves == PersistenceInv /\ persistence_close => PersistenceInv'
  <1> SUFFICES ASSUME PersistenceInv, persistence_close PROVE PersistenceInv'
    OBVIOUS
  <1> USE DEF persistence_close
  <1>1. TypeOK' /\ Counters'
    BY DEF PersistenceInv, TypeOK, Counters
  <1>2. CountedInOrder'
    BY DEF PersistenceInv, CountedInOrder
  <1>3. (Remembers /\ Histogram /\ ColumnsStart /\ ColumnExtremes)'
    BY ColumnsUnchanged
  <1>4. Report' = Report \/ flags = "all"
    BY DEF Report
  <1>5. MinMaxInv'
    BY <1>4 DEF PersistenceInv, MinMaxInv, MinSoFar, MaxSoFar, Reported
  <1> QED
    BY <1>1, <1>2, <1>3, <1>5 DEF PersistenceInv

(* A step that changes nothing. *)
LEMMA PersistenceStutters == PersistenceInv /\ UNCHANGED vars => PersistenceInv'
  <1> SUFFICES ASSUME PersistenceInv, UNCHANGED vars PROVE PersistenceInv'
    OBVIOUS
  <1> USE DEF vars
  <1>1. TypeOK' /\ Counters' /\ CountedInOrder'
    BY DEF PersistenceInv, TypeOK, Counters, CountedInOrder
  <1>2. (Remembers /\ Histogram /\ ColumnsStart /\ ColumnExtremes)'
    BY ColumnsUnchanged
  <1>3. MinMaxInv'
    BY DEF PersistenceInv, MinMaxInv, MinSoFar, MaxSoFar, Reported, Report
  <1> QED
    BY <1>1, <1>2, <1>3 DEF PersistenceInv

(* What every write does to the log of the payloads. *)
LEMMA Given ==
    ASSUME PersistenceInv, Len(given) < MaxWrites, NEW ts \in Stamps, given' = Append(given, ts)
    PROVE  /\ given \in Seq(Stamps) /\ given' \in Seq(Stamps) /\ Len(given) \in Nat
           /\ Len(given') = Len(given) + 1 /\ Len(given') <= MaxWrites
           /\ \A n \in 1..Len(given) : given'[n] = given[n] /\ given[n] \in Stamps
           /\ given'[Len(given) + 1] = ts
           /\ DOMAIN given = 1..Len(given) /\ DOMAIN given' = 1..(Len(given) + 1)
  <1>1. given \in Seq(Stamps)
    BY DEF PersistenceInv, TypeOK
  <1>2. /\ Append(given, ts) \in Seq(Stamps) /\ Len(given) \in Nat
        /\ Len(Append(given, ts)) = Len(given) + 1
        /\ \A n \in 1..Len(given) : Append(given, ts)[n] = given[n]
        /\ Append(given, ts)[Len(given) + 1] = ts
        /\ DOMAIN given = 1..Len(given) /\ DOMAIN Append(given, ts) = 1..(Len(given) + 1)
        /\ \A n \in 1..Len(given) : given[n] \in Stamps
    BY <1>1, Logged
  <1>3. Len(given) + 1 <= MaxWrites
    BY <1>2, Sizes
  <1> QED
    BY <1>1, <1>2, <1>3

(* A line for every payload. *)
LEMMA AllPreserves ==
    ASSUME PersistenceInv, ~closed, Len(given) < MaxWrites, NEW ts \in Stamps,
           persistence_write_all_timestamps(ts), given' = Append(given, ts),
           UNCHANGED <<flags, interval, closed>>
    PROVE  PersistenceInv'
  <1> USE DEF persistence_write_all_timestamps
  <1>1. /\ given' \in Seq(Stamps) /\ Len(given) \in Nat
        /\ Len(given') = Len(given) + 1 /\ Len(given') <= MaxWrites
    BY Given
  <1>2. TypeOK'
    BY <1>1 DEF PersistenceInv, TypeOK
  <1>3. tot_packets \in Nat /\ \A c \in Columns, k \in Buckets : buckets[c][k] \in Nat
    BY Sizes DEF PersistenceInv, TypeOK
  <1>4. Counters'
    BY <1>1, <1>3 DEF PersistenceInv, Counters
  <1>5. (Remembers /\ Histogram /\ ColumnsStart /\ ColumnExtremes)'
    BY ColumnsUnchanged
  <1>6. CountedInOrder' /\ MinMaxInv'
    BY DEF CountedInOrder, MinMaxInv
  <1> QED
    BY <1>2, <1>4, <1>5, <1>6 DEF PersistenceInv

(* The extreme latencies. *)
LEMMA MinMaxPreserves ==
    ASSUME PersistenceInv, ~closed, Len(given) < MaxWrites, NEW ts \in Stamps,
           persistence_write_min_max_latency(ts), given' = Append(given, ts),
           UNCHANGED <<flags, interval, closed>>
    PROVE  PersistenceInv'
  <1> DEFINE l == compute_latency(ts)
             g == Len(given)
  <1>1. /\ given' \in Seq(Stamps) /\ g \in Nat
        /\ Len(given') = g + 1 /\ Len(given') <= MaxWrites
        /\ \A n \in 1..g : given'[n] = given[n] /\ given[n] \in Stamps
        /\ given'[g + 1] = ts
    BY Given
  <1>2. l \in 0..UINT64_MAX /\ UINT64_MAX \in Nat
    BY LatencyRange, Sizes
  <1>3. flags = "min_max" /\ flags' = flags /\ interval' = interval /\ closed' = closed
        /\ UNCHANGED <<prev_payload, tot_packets, buckets, outside, file, counted>>
    BY DEF persistence_write_min_max_latency
  <1>4. /\ min' = IF l < min[5] THEN [min EXCEPT ![5] = l] ELSE min
        /\ min_payload' = IF l < min[5] THEN ts ELSE min_payload
        /\ max' = IF l > max[5] THEN [max EXCEPT ![5] = l] ELSE max
        /\ max_payload' = IF l > max[5] THEN ts ELSE max_payload
    BY DEF persistence_write_min_max_latency
  <1>5. min \in [Columns -> 0..UINT64_MAX] /\ max \in [Columns -> 0..UINT64_MAX] /\ 5 \in Columns
    BY DEF PersistenceInv, TypeOK, Columns
  <1>6. min[5] \in 0..UINT64_MAX /\ max[5] \in 0..UINT64_MAX
    BY <1>5
  <1> HIDE DEF l
  <1>7. min'[5] = (IF l < min[5] THEN l ELSE min[5]) /\ max'[5] = (IF l > max[5] THEN l ELSE max[5])
    BY <1>4, <1>5
  <1>8. TypeOK'
    <2>1. min' \in [Columns -> 0..UINT64_MAX] /\ max' \in [Columns -> 0..UINT64_MAX]
      BY <1>2, <1>4, <1>5
    <2>2. \A p \in {min_payload, max_payload, prev_payload} : p = NoPayload \/ p \in Stamps
      BY DEF PersistenceInv, TypeOK
    <2>3. \A p \in {min_payload', max_payload', prev_payload'} : p = NoPayload \/ p \in Stamps
      BY <1>3, <1>4, <2>2
    <2> QED
      BY <1>1, <1>3, <2>1, <2>3 DEF PersistenceInv, TypeOK
  <1>9. tot_packets \in Nat /\ \A c \in Columns, k \in Buckets : buckets[c][k] \in Nat
    BY Sizes DEF PersistenceInv, TypeOK
  <1>10. Counters'
    BY <1>1, <1>3, <1>9 DEF PersistenceInv, Counters
  <1>11. (Remembers /\ Histogram /\ ColumnsStart /\ ColumnExtremes /\ CountedInOrder)'
    BY <1>3 DEF Remembers, Histogram, ColumnsStart, ColumnExtremes, CountedInOrder
  <1>12. ASSUME NEW n \in 1..g
         PROVE  given'[n] = given[n] /\ compute_latency(given[n]) \in 0..UINT64_MAX
    BY <1>1, LatencyRange
  <1>13. compute_latency(given'[g + 1]) = l
    BY <1>1 DEF l
  <1>14. MinSoFar'
    <2>1. \A n \in 1..g : min[5] <= compute_latency(given[n])
      BY <1>3 DEF PersistenceInv, MinMaxInv, MinSoFar
    <2>2. ASSUME NEW n \in 1..(g + 1) PROVE min'[5] <= compute_latency(given'[n])
      <3>1. CASE n = g + 1
        BY <1>2, <1>6, <1>7, <1>13, <3>1
      <3>2. CASE n # g + 1
        <4>1. n \in 1..g
          BY <1>1, <3>2
        <4>2. given'[n] = given[n] /\ compute_latency(given[n]) \in 0..UINT64_MAX /\ min[5] <= compute_latency(given[n])
          BY <1>12, <2>1, <4>1
        <4> QED
          BY <1>2, <1>6, <1>7, <4>2
      <3> QED
        BY <3>1, <3>2
    <2>3. ASSUME min'[5] # UINT64_MAX
          PROVE  \E n \in 1..(g + 1) : min_payload' = given'[n] /\ compute_latency(given'[n]) = min'[5]
      <3>1. CASE l < min[5]
        <4>1. min_payload' = given'[g + 1] /\ compute_latency(given'[g + 1]) = min'[5] /\ g + 1 \in 1..(g + 1)
          BY <1>1, <1>4, <1>7, <1>13, <3>1
        <4> QED
          BY <4>1
      <3>2. CASE ~(l < min[5])
        <4>1. min_payload' = min_payload /\ min'[5] = min[5]
          BY <1>4, <1>7, <3>2
        <4>2. PICK n \in 1..g : min_payload = given[n] /\ compute_latency(given[n]) = min[5]
          BY <1>3, <2>3, <4>1 DEF PersistenceInv, MinMaxInv, MinSoFar
        <4>3. given'[n] = given[n] /\ n \in 1..(g + 1)
          BY <1>1
        <4> QED
          BY <4>1, <4>2, <4>3
      <3> QED
        BY <3>1, <3>2
    <2> QED
      BY <1>1, <2>2, <2>3 DEF MinSoFar
  <1>15. MaxSoFar'
    <2>1. \A n \in 1..g : max[5] >= compute_latency(given[n])
      BY <1>3 DEF PersistenceInv, MinMaxInv, MaxSoFar
    <2>2. ASSUME NEW n \in 1..(g + 1) PROVE max'[5] >= compute_latency(given'[n])
      <3>1. CASE n = g + 1
        BY <1>2, <1>6, <1>7, <1>13, <3>1
      <3>2. CASE n # g + 1
        <4>1. n \in 1..g
          BY <1>1, <3>2
        <4>2. given'[n] = given[n] /\ compute_latency(given[n]) \in 0..UINT64_MAX /\ max[5] >= compute_latency(given[n])
          BY <1>12, <2>1, <4>1
        <4> QED
          BY <1>2, <1>6, <1>7, <4>2
      <3> QED
        BY <3>1, <3>2
    <2>3. ASSUME max'[5] # 0
          PROVE  \E n \in 1..(g + 1) : max_payload' = given'[n] /\ compute_latency(given'[n]) = max'[5]
      <3>1. CASE l > max[5]
        <4>1. max_payload' = given'[g + 1] /\ compute_latency(given'[g + 1]) = max'[5] /\ g + 1 \in 1..(g + 1)
          BY <1>1, <1>4, <1>7, <1>13, <3>1
        <4> QED
          BY <4>1
      <3>2. CASE ~(l > max[5])
        <4>1. max_payload' = max_payload /\ max'[5] = max[5]
          BY <1>4, <1>7, <3>2
        <4>2. PICK n \in 1..g : max_payload = given[n] /\ compute_latency(given[n]) = max[5]
          BY <1>3, <2>3, <4>1 DEF PersistenceInv, MinMaxInv, MaxSoFar
        <4>3. given'[n] = given[n] /\ n \in 1..(g + 1)
          BY <1>1
        <4> QED
          BY <4>1, <4>2, <4>3
      <3> QED
        BY <3>1, <3>2
    <2> QED
      BY <1>1, <2>2, <2>3 DEF MaxSoFar
  <1>16. Reported'
    BY <1>3 DEF Reported
  <1> QED
    BY <1>8, <1>10, <1>11, <1>14, <1>15, <1>16 DEF PersistenceInv, MinMaxInv

(* The log of the counted payloads is empty exactly when none is *)
(* remembered.                                                   *)
LEMMA LastCounted ==
    ASSUME PersistenceInv, flags = "buckets"
    PROVE  /\ counted \in Seq(Stamps) /\ Len(counted) \in Nat /\ DOMAIN counted = 1..Len(counted)
           /\ \A n \in 1..Len(counted) : counted[n] \in Stamps
           /\ prev_payload = NoPayload => counted = <<>> /\ Len(counted) = 0
           /\ prev_payload # NoPayload => /\ Len(counted) >= 1 /\ Len(counted) \in 1..Len(counted)
                                          /\ prev_payload = counted[Len(counted)]
                                          /\ prev_payload \in Stamps
  <1>1. counted \in Seq(Stamps)
    BY DEF PersistenceInv, TypeOK
  <1>2. Len(counted) \in Nat /\ DOMAIN counted = 1..Len(counted) /\ \A n \in 1..Len(counted) : counted[n] \in Stamps
    BY <1>1, LenProperties, ElementOfSeq
  <1>3. IF counted = <<>> THEN prev_payload = NoPayload ELSE prev_payload = counted[Len(counted)]
    BY DEF PersistenceInv, Remembers
  <1>4. CASE counted = <<>>
    BY <1>1, <1>2, <1>3, <1>4
  <1>5. CASE counted # <<>>
    <2>1. Len(counted) # 0
      BY <1>1, <1>5, EmptySeq
    <2>2. Len(counted) >= 1 /\ Len(counted) \in 1..Len(counted)
      BY <1>2, <2>1
    <2>3. prev_payload = counted[Len(counted)] /\ prev_payload \in Stamps
      BY <1>2, <1>3, <1>5, <2>2
    <2>4. prev_payload # NoPayload
      BY <2>3, Sizes
    <2> QED
      BY <1>1, <1>2, <2>2, <2>3, <2>4
  <1> QED
    BY <1>4, <1>5

(* The counters that every write to the buckets moves. *)
LEMMA BucketsWrite ==
    ASSUME PersistenceInv, ~closed, Len(given) < MaxWrites, NEW ts \in Stamps,
           persistence_write_buckets(ts), given' = Append(given, ts),
           UNCHANGED <<flags, interval, closed>>
    PROVE  /\ flags = "buckets" /\ flags' = flags /\ interval' = interval
           /\ tot_packets' \in 0..MaxWrites /\ tot_packets' <= Len(given')
           /\ MinMaxInv'
           /\ min_payload' = min_payload /\ max_payload' = max_payload
  <1>1. flags = "buckets" /\ tot_packets' = tot_packets + 1 /\ UNCHANGED <<min_payload, max_payload>>
    BY DEF persistence_write_buckets
  <1>2. Len(given) \in Nat /\ Len(given') = Len(given) + 1 /\ Len(given') <= MaxWrites
    BY Given
  <1>3. tot_packets \in Nat /\ tot_packets <= Len(given)
    BY Sizes DEF PersistenceInv, TypeOK, Counters
  <1>4. tot_packets' \in 0..MaxWrites /\ tot_packets' <= Len(given')
    BY <1>1, <1>2, <1>3, Sizes
  <1>5. MinMaxInv'
    BY <1>1 DEF MinMaxInv
  <1> QED
    BY <1>1, <1>4, <1>5

(* The first payload. *)
LEMMA FirstPreserves ==
    ASSUME PersistenceInv, ~closed, Len(given) < MaxWrites, NEW ts \in Stamps,
           persistence_write_buckets(ts), WriteFirst(ts), given' = Append(given, ts),
           UNCHANGED <<flags, interval, closed>>
    PROVE  PersistenceInv'
  <1> DEFINE g == Len(given)
  <1>1. /\ flags = "buckets" /\ flags' = flags /\ interval' = interval
        /\ tot_packets' \in 0..MaxWrites /\ tot_packets' <= Len(given')
        /\ MinMaxInv'
        /\ min_payload' = min_payload /\ max_payload' = max_payload
    BY BucketsWrite
  <1>2. prev_payload = NoPayload /\ prev_payload' = ts /\ counted' = <<ts>> /\ UNCHANGED <<min, max, buckets, outside>>
    BY DEF WriteFirst
  <1>3. /\ given' \in Seq(Stamps) /\ g \in Nat /\ Len(given') = g + 1 /\ Len(given') <= MaxWrites
        /\ \A n \in 1..g : given'[n] = given[n] /\ given[n] \in Stamps
        /\ given'[g + 1] = ts
        /\ DOMAIN given = 1..g /\ DOMAIN given' = 1..(g + 1)
    BY Given
  <1>4. counted = <<>> /\ Len(counted) = 0 /\ DOMAIN counted = {}
    BY <1>1, <1>2, LastCounted
  <1>5. Len(counted') = 1 /\ counted' \in Seq(Stamps) /\ counted'[1] = ts /\ DOMAIN counted' = {1}
    BY <1>2
  <1>6. TypeOK'
    <2>1. \A p \in {min_payload, max_payload, prev_payload} : p = NoPayload \/ p \in Stamps
      BY DEF PersistenceInv, TypeOK
    <2>2. \A p \in {min_payload', max_payload', prev_payload'} : p = NoPayload \/ p \in Stamps
      BY <1>1, <1>2, <2>1
    <2> QED
      BY <1>1, <1>2, <1>3, <1>5, <2>2 DEF PersistenceInv, TypeOK
  <1>7. \A c \in Columns, k \in Buckets : buckets[c][k] \in Nat
    BY Sizes DEF PersistenceInv, TypeOK
  <1>8. Counters'
    BY <1>1, <1>2, <1>3, <1>7 DEF PersistenceInv, Counters
  <1>9. Remembers'
    BY <1>2, <1>5 DEF Remembers
  <1>10. 2..Len(counted') = {} /\ 2..Len(counted) = {}
    BY <1>4, <1>5
  <1>11. CountedInOrder'
    <2>1. DOMAIN given = {}
      BY <1>1, <1>4 DEF PersistenceInv, CountedInOrder
    <2>2. ASSUME NEW n \in DOMAIN given' PROVE counted'[1] = given'[n]
      <3>1. n = g + 1
        BY <1>3, <2>1
      <3> QED
        BY <1>3, <1>5, <3>1
    <2> QED
      BY <1>5, <1>10, <2>2 DEF CountedInOrder
  <1>12. Histogram'
    <2>1. ASSUME NEW c \in Columns, NEW k \in Buckets,
                 (bucket_ranges(c).max - bucket_ranges(c).min) % NUM_BUCKETS = 0
          PROVE  buckets[c][k] = 0
      <3>1. buckets[c][k] = Cardinality({n \in 2..Len(counted) : InBucket(ColumnValue(n, c), bucket_ranges(c), k)})
        BY <1>1, <2>1 DEF PersistenceInv, Histogram
      <3>2. {n \in 2..Len(counted) : InBucket(ColumnValue(n, c), bucket_ranges(c), k)} = {}
        BY <1>10
      <3> QED
        BY <3>1, <3>2, FS_EmptySet
    <2>2. \A c \in Columns : bucket_ranges(c)' = bucket_ranges(c)
      BY <1>1 DEF bucket_ranges
    <2>3. ASSUME NEW c \in Columns, NEW k \in Buckets,
                 (bucket_ranges(c).max - bucket_ranges(c).min) % NUM_BUCKETS = 0
          PROVE  buckets'[c][k] = Cardinality({n \in 2..Len(counted') : InBucket(ColumnValue(n, c)', bucket_ranges(c), k)})
      <3>1. {n \in 2..Len(counted') : InBucket(ColumnValue(n, c)', bucket_ranges(c), k)} = {}
        BY <1>10
      <3> QED
        BY <1>2, <2>1, <2>3, <3>1, FS_EmptySet
    <2> QED
      BY <2>2, <2>3 DEF Histogram
  <1>13. ColumnsStart'
    BY <1>1, <1>2, <1>4 DEF PersistenceInv, ColumnsStart
  <1>14. ColumnExtremes'
    BY <1>5, <1>10 DEF ColumnExtremes
  <1> QED
    BY <1>1, <1>6, <1>8, <1>9, <1>11, <1>12, <1>13, <1>14 DEF PersistenceInv

(* A payload that is older than the one before it. *)
LEMMA RejectedPreserves ==
    ASSUME PersistenceInv, ~closed, Len(given) < MaxWrites, NEW ts \in Stamps,
           persistence_write_buckets(ts), WriteRejected(ts), given' = Append(given, ts),
           UNCHANGED <<flags, interval, closed>>
    PROVE  PersistenceInv'
  <1> DEFINE g == Len(given)
  <1>1. /\ flags = "buckets" /\ flags' = flags /\ interval' = interval
        /\ tot_packets' \in 0..MaxWrites /\ tot_packets' <= Len(given')
        /\ MinMaxInv'
        /\ min_payload' = min_payload /\ max_payload' = max_payload
    BY BucketsWrite
  <1>2. /\ prev_payload # NoPayload /\ \E c \in 1..4 : ts[c] < prev_payload[c]
        /\ UNCHANGED <<min, max, buckets, outside, prev_payload, counted>>
    BY DEF WriteRejected, OutOfOrder
  <1>3. /\ given' \in Seq(Stamps) /\ g \in Nat /\ Len(given') = g + 1 /\ Len(given') <= MaxWrites
        /\ \A n \in 1..g : given'[n] = given[n]
        /\ given'[g + 1] = ts
        /\ DOMAIN given = 1..g /\ DOMAIN given' = 1..(g + 1)
    BY Given
  <1>4. TypeOK'
    BY <1>1, <1>2, <1>3 DEF PersistenceInv, TypeOK
  <1>5. \A c \in Columns, k \in Buckets : buckets[c][k] \in Nat
    BY Sizes DEF PersistenceInv, TypeOK
  <1>6. Counters'
    BY <1>1, <1>2, <1>3, <1>5 DEF PersistenceInv, Counters
  <1>7. (Remembers /\ Histogram /\ ColumnsStart /\ ColumnExtremes)'
    BY <1>1, <1>2, ColumnsUnchanged
  <1>8. CountedInOrder'
    <2>1. Len(counted) \in DOMAIN counted /\ counted[Len(counted)] = prev_payload
      BY <1>1, <1>2, LastCounted
    <2>2. ASSUME NEW n \in DOMAIN given'
          PROVE  \/ \E m \in DOMAIN counted : counted[m] = given'[n]
                 \/ \E m \in DOMAIN counted, c \in 1..4 : given'[n][c] < counted[m][c]
      <3>1. CASE n = g + 1
        BY <1>2, <1>3, <2>1, <3>1
      <3>2. CASE n # g + 1
        <4>1. n \in DOMAIN given /\ given'[n] = given[n]
          BY <1>3, <3>2
        <4> QED
          BY <1>1, <4>1 DEF PersistenceInv, CountedInOrder
      <3> QED
        BY <3>1, <3>2
    <2> QED
      BY <1>1, <1>2, <2>2 DEF PersistenceInv, CountedInOrder
  <1> QED
    BY <1>1, <1>4, <1>6, <1>7, <1>8 DEF PersistenceInv

(* The values of the columns when a payload is counted: those there were, *)
(* and one more.                                                          *)
LEMMA CountedStep ==
    ASSUME PersistenceInv, flags = "buckets", NEW ts \in Stamps, WriteCounted(ts)
    PROVE  /\ Len(counted) \in Nat /\ Len(counted) >= 1 /\ counted' \in Seq(Stamps)
           /\ Len(counted') = Len(counted) + 1
           /\ DOMAIN counted = 1..Len(counted) /\ DOMAIN counted' = 1..(Len(counted) + 1)
           /\ \A n \in 1..Len(counted) : counted'[n] = counted[n]
           /\ counted'[Len(counted) + 1] = ts /\ prev_payload = counted[Len(counted)]
           /\ \A c \in Columns : \A n \in 2..Len(counted) : ColumnValue(n, c)' = ColumnValue(n, c)
           /\ \A c \in Columns : \A n : n = Len(counted) + 1 => ColumnValue(n, c)' = Value(ts, prev_payload, c)
           /\ \A c \in Columns : Value(ts, prev_payload, c) \in 0..UINT64_MAX
           /\ \A c \in 1..4 : ts[c] >= prev_payload[c]
  <1> DEFINE L == Len(counted)
  <1>1. prev_payload # NoPayload /\ (\A c \in 1..4 : ~(ts[c] < prev_payload[c])) /\ counted' = Append(counted, ts)
    BY DEF WriteCounted, OutOfOrder
  <1>2. counted \in Seq(Stamps) /\ L >= 1 /\ prev_payload = counted[L] /\ prev_payload \in Stamps
    BY <1>1, LastCounted
  <1>3. /\ counted' \in Seq(Stamps) /\ L \in Nat
        /\ Len(counted') = L + 1
        /\ \A n \in 1..L : counted'[n] = counted[n]
        /\ counted'[L + 1] = ts
        /\ DOMAIN counted = 1..L /\ DOMAIN counted' = 1..(L + 1)
    BY <1>1, <1>2, Logged
  <1> HIDE DEF L
  <1>4. \A n \in 2..L : n \in 1..L /\ n - 1 \in 1..L
    BY <1>3
  <1>5. \A c \in Columns : \A n \in 2..L : ColumnValue(n, c)' = ColumnValue(n, c)
    BY <1>3, <1>4 DEF ColumnValue
  <1>6. (L + 1) - 1 = L /\ L \in 1..L
    BY <1>2, <1>3
  <1>7. counted'[(L + 1) - 1] = prev_payload
    BY <1>2, <1>3, <1>6
  <1>8. \A c \in Columns : \A n : n = L + 1 => ColumnValue(n, c)' = Value(ts, prev_payload, c)
    BY <1>3, <1>7 DEF ColumnValue
  <1>9. \A c \in Columns : Value(ts, prev_payload, c) \in 0..UINT64_MAX
    BY <1>1, <1>2, ValueRange
  <1>10. ASSUME NEW c \in 1..4 PROVE ts[c] >= prev_payload[c]
    <2>1. ts[c] \in 0..UINT64_MAX /\ prev_payload[c] \in 0..UINT64_MAX /\ ~(ts[c] < prev_payload[c])
      BY <1>1, <1>2, Sizes
    <2> QED
      BY <2>1, Sizes
  <1> QED
    BY <1>2, <1>3, <1>5, <1>8, <1>9, <1>10 DEF L

(* The histogram gains the value in its bucket. *)
LEMMA CountedHistogram ==
    ASSUME PersistenceInv, flags = "buckets", UNCHANGED <<flags, interval>>,
           NEW ts \in Stamps, WriteCounted(ts)
    PROVE  Histogram'
  <1> DEFINE L == Len(counted)
             val(c) == Value(ts, prev_payload, c)
  <1>1. /\ L \in Nat /\ L >= 1 /\ Len(counted') = L + 1
        /\ \A c \in Columns : \A n \in 2..L : ColumnValue(n, c)' = ColumnValue(n, c)
        /\ \A c \in Columns : \A n : n = L + 1 => ColumnValue(n, c)' = val(c)
        /\ \A c \in Columns : val(c) \in 0..UINT64_MAX
    BY CountedStep
  <1>2. \A c \in Columns : bucket_ranges(c)' = bucket_ranges(c)
    BY DEF bucket_ranges
  <1>3. \A c \in Columns, k \in Buckets :
           buckets'[c][k] = IF k = bucket_idx(val(c), bucket_ranges(c)) THEN buckets[c][k] + 1 ELSE buckets[c][k]
    BY DEF WriteCounted
  <1>4. interval \in Intervals
    BY DEF PersistenceInv, TypeOK
  <1> HIDE DEF L
  <1>5. ASSUME NEW c \in Columns, NEW k \in Buckets,
               (bucket_ranges(c).max - bucket_ranges(c).min) % NUM_BUCKETS = 0
        PROVE  buckets'[c][k] = Cardinality({n \in 2..(L + 1) : InBucket(ColumnValue(n, c)', bucket_ranges(c), k)})
    <2> DEFINE A == {n \in 2..L : InBucket(ColumnValue(n, c), bucket_ranges(c), k)}
               B == {n \in 2..(L + 1) : InBucket(ColumnValue(n, c)', bucket_ranges(c), k)}
               in == InBucket(val(c), bucket_ranges(c), k)
    <2>1. buckets[c][k] = Cardinality(A)
      BY <1>5 DEF PersistenceInv, Histogram, L
    <2>2. val(c) \in 0..UINT64_MAX
      BY <1>1, Sizes
    <2>3. in <=> k = bucket_idx(val(c), bucket_ranges(c))
      BY <1>4, <1>5, <2>2, ColumnBucket
    <2>4. \A n : n \in 2..(L + 1) <=> n \in 2..L \/ n = L + 1
      BY <1>1
    <2>5. L + 1 \notin 2..L
      BY <1>1
    <2>6. ASSUME NEW n PROVE n \in B <=> n \in A \/ (n = L + 1 /\ in)
      <3>1. CASE n \in 2..L
        <4>1. ColumnValue(n, c)' = ColumnValue(n, c) /\ n # L + 1
          BY <1>1, <2>5, <3>1
        <4> QED
          BY <2>4, <3>1, <4>1
      <3>2. CASE n = L + 1
        <4>1. ColumnValue(n, c)' = val(c) /\ n \notin 2..L
          BY <1>1, <2>5, <3>2
        <4> QED
          BY <2>4, <3>2, <4>1
      <3>3. CASE n \notin 2..L /\ n # L + 1
        BY <2>4, <3>3
      <3> QED
        BY <3>1, <3>2, <3>3
    <2>7. IsFiniteSet(A)
      <3>1. IsFiniteSet(2..L)
        BY <1>1, FS_Interval
      <3>2. A \in SUBSET (2..L)
        OBVIOUS
      <3> QED
        BY <3>1, <3>2, FS_Subset
    <2>8. L + 1 \notin A
      BY <2>5
    <2> HIDE DEF A, B, in
    <2>9. CASE in
      <3>1. B = A \cup {L + 1}
        BY <2>6, <2>9
      <3>2. Cardinality(A \cup {L + 1}) = Cardinality(A) + 1
        BY <2>7, <2>8, FS_AddElement
      <3>3. buckets'[c][k] = buckets[c][k] + 1
        BY <1>3, <2>3, <2>9
      <3> QED
        BY <2>1, <3>1, <3>2, <3>3 DEF B
    <2>10. CASE ~in
      <3>1. B = A
        BY <2>6, <2>10
      <3>2. buckets'[c][k] = buckets[c][k]
        BY <1>3, <2>3, <2>10
      <3> QED
        BY <2>1, <3>1, <3>2 DEF B
    <2> QED
      BY <2>9, <2>10
  <1> QED
    BY <1>1, <1>2, <1>5 DEF Histogram, L

(* The extremes of the columns stay those of the values. *)
LEMMA CountedExtremes ==
    ASSUME PersistenceInv, flags = "buckets", UNCHANGED <<flags, interval>>,
           NEW ts \in Stamps, WriteCounted(ts)
    PROVE  ColumnExtremes'
  <1> DEFINE L == Len(counted)
             val(c) == Value(ts, prev_payload, c)
  <1>1. /\ L \in Nat /\ L >= 1 /\ Len(counted') = L + 1
        /\ \A c \in Columns : \A n \in 2..L : ColumnValue(n, c)' = ColumnValue(n, c)
        /\ \A c \in Columns : \A n : n = L + 1 => ColumnValue(n, c)' = val(c)
        /\ \A c \in Columns : val(c) \in 0..UINT64_MAX
    BY CountedStep
  <1>2. \A c \in Columns : /\ min'[c] = IF val(c) < min[c] THEN val(c) ELSE min[c]
                           /\ max'[c] = IF val(c) > max[c] THEN val(c) ELSE max[c]
    BY DEF WriteCounted
  <1>3. \A c \in Columns : min[c] \in 0..UINT64_MAX /\ max[c] \in 0..UINT64_MAX
    BY DEF PersistenceInv, TypeOK
  <1>4. ASSUME NEW c \in Columns
        PROVE  /\ \A n \in 2..(L + 1) : min'[c] <= ColumnValue(n, c)' /\ ColumnValue(n, c)' <= max'[c]
               /\ \E n \in 2..(L + 1) : min'[c] = ColumnValue(n, c)'
               /\ \E n \in 2..(L + 1) : max'[c] = ColumnValue(n, c)'
    <2> DEFINE v == val(c)
               mn == min[c]
               mx == max[c]
               mn1 == min'[c]
               mx1 == max'[c]
    <2>1. v \in 0..UINT64_MAX /\ mn \in 0..UINT64_MAX /\ mx \in 0..UINT64_MAX /\ UINT64_MAX \in Nat
      BY <1>1, <1>3, Sizes
    <2>2. mn1 = (IF v < mn THEN v ELSE mn) /\ mx1 = (IF v > mx THEN v ELSE mx)
      BY <1>2
    <2>3. \A n \in 2..L : mn <= ColumnValue(n, c) /\ ColumnValue(n, c) <= mx
      BY DEF PersistenceInv, ColumnExtremes
    <2>4. L > 1 => /\ \E n \in 2..L : mn = ColumnValue(n, c)
                   /\ \E n \in 2..L : mx = ColumnValue(n, c)
      BY DEF PersistenceInv, ColumnExtremes
    <2>5. L = 1 => mn = UINT64_MAX /\ mx = 0
      BY DEF PersistenceInv, ColumnsStart
    <2>6. (\A n : n = L + 1 => ColumnValue(n, c)' = v) /\ L + 1 \in 2..(L + 1)
      BY <1>1
    <2>7. ASSUME NEW n \in 2..L PROVE n \in 2..(L + 1) /\ ColumnValue(n, c)' = ColumnValue(n, c)
      BY <1>1
    <2> HIDE DEF v, mn, mx, mn1, mx1, L
    <2>8. mn1 <= mn /\ mn1 <= v /\ mx <= mx1 /\ v <= mx1 /\ mn1 \in Nat /\ mx1 \in Nat
      BY <2>1, <2>2
    <2>9. ASSUME NEW n \in 2..(L + 1) PROVE mn1 <= ColumnValue(n, c)' /\ ColumnValue(n, c)' <= mx1
      <3>1. CASE n = L + 1
        BY <2>6, <2>8, <3>1
      <3>2. CASE n # L + 1
        <4>1. n \in 2..L
          BY <1>1, <3>2 DEF L
        <4>2. ColumnValue(n, c)' = ColumnValue(n, c)
          BY <2>7, <4>1
        <4>3. ColumnValue(n, c) \in Int
          <5>1. \A m \in 2..L : m \in 1..L /\ m - 1 \in 1..L
            BY <1>1 DEF L
          <5>2. counted[n] \in Stamps /\ counted[n - 1] \in Stamps
            BY <4>1, <5>1, LastCounted DEF L
          <5>3. CASE c = 5
            <6>1. compute_latency(counted[n]) \in 0..UINT64_MAX
              BY <5>2, LatencyRange
            <6> QED
              BY <2>1, <5>3, <6>1 DEF ColumnValue, Value
          <5>4. CASE c # 5
            <6>1. c \in 1..4
              BY <5>4 DEF Columns
            <6>2. counted[n][c] \in 0..UINT64_MAX /\ counted[n - 1][c] \in 0..UINT64_MAX
              BY <5>2, <6>1, Sizes
            <6>3. counted[n][c] - counted[n - 1][c] \in Int
              BY <6>2, <2>1
            <6> QED
              BY <5>4, <6>3 DEF ColumnValue, Value
          <5> QED
            BY <5>3, <5>4
        <4>4. mn <= ColumnValue(n, c) /\ ColumnValue(n, c) <= mx
          BY <2>3, <4>1
        <4> QED
          BY <2>1, <2>8, <4>2, <4>3, <4>4
      <3> QED
        BY <3>1, <3>2
    <2>10. \E n \in 2..(L + 1) : mn1 = ColumnValue(n, c)'
      <3>1. CASE mn1 = v
        BY <2>6, <3>1
      <3>2. CASE mn1 # v
        <4>1. mn1 = mn
          BY <2>2, <3>2
        <4>2. CASE L > 1
          <5>1. PICK n \in 2..L : mn = ColumnValue(n, c)
            BY <2>4, <4>2
          <5> QED
            BY <2>7, <4>1, <5>1
        <4>3. CASE L = 1
          BY <2>1, <2>2, <2>5, <3>2, <4>3
        <4> QED
          BY <1>1, <4>2, <4>3
      <3> QED
        BY <3>1, <3>2
    <2>11. \E n \in 2..(L + 1) : mx1 = ColumnValue(n, c)'
      <3>1. CASE mx1 = v
        BY <2>6, <3>1
      <3>2. CASE mx1 # v
        <4>1. mx1 = mx
          BY <2>2, <3>2
        <4>2. CASE L > 1
          <5>1. PICK n \in 2..L : mx = ColumnValue(n, c)
            BY <2>4, <4>2
          <5> QED
            BY <2>7, <4>1, <5>1
        <4>3. CASE L = 1
          BY <2>1, <2>2, <2>5, <3>2, <4>3
        <4> QED
          BY <1>1, <4>2, <4>3
      <3> QED
        BY <3>1, <3>2
    <2> QED
      BY <2>9, <2>10, <2>11 DEF mn1, mx1
  <1> HIDE DEF L
  <1> QED
    BY <1>1, <1>4 DEF ColumnExtremes

(* A payload that is counted. *)
LEMMA CountedPreserves ==
    ASSUME PersistenceInv, ~closed, Len(given) < MaxWrites, NEW ts \in Stamps,
           persistence_write_buckets(ts), WriteCounted(ts), given' = Append(given, ts),
           UNCHANGED <<flags, interval, closed>>
    PROVE  PersistenceInv'
  <1> DEFINE g == Len(given)
             L == Len(counted)
             val(c) == Value(ts, prev_payload, c)
             idx(c) == bucket_idx(val(c), bucket_ranges(c))
  <1>1. /\ flags = "buckets" /\ flags' = flags /\ interval' = interval
        /\ tot_packets' \in 0..MaxWrites /\ tot_packets' <= Len(given')
        /\ MinMaxInv'
        /\ min_payload' = min_payload /\ max_payload' = max_payload
    BY BucketsWrite
  <1>2. /\ min' = [c \in Columns |-> IF val(c) < min[c] THEN val(c) ELSE min[c]]
        /\ max' = [c \in Columns |-> IF val(c) > max[c] THEN val(c) ELSE max[c]]
        /\ buckets' = [c \in Columns |-> [k \in Buckets |->
                           IF k = idx(c) THEN buckets[c][k] + 1 ELSE buckets[c][k]]]
        /\ outside' = outside + Cardinality({c \in Columns : idx(c) \notin Buckets})
        /\ prev_payload' = ts
    BY DEF WriteCounted
  <1>3. /\ given' \in Seq(Stamps) /\ g \in Nat /\ Len(given') = g + 1 /\ Len(given') <= MaxWrites
        /\ \A n \in 1..g : given'[n] = given[n]
        /\ given'[g + 1] = ts
        /\ DOMAIN given = 1..g /\ DOMAIN given' = 1..(g + 1)
    BY Given
  <1>4. /\ L \in Nat /\ L >= 1 /\ counted' \in Seq(Stamps) /\ Len(counted') = L + 1
        /\ DOMAIN counted = 1..L /\ DOMAIN counted' = 1..(L + 1)
        /\ \A n \in 1..L : counted'[n] = counted[n]
        /\ counted'[L + 1] = ts /\ prev_payload = counted[L]
        /\ \A c \in Columns : val(c) \in 0..UINT64_MAX
        /\ \A c \in 1..4 : ts[c] >= prev_payload[c]
    BY <1>1, CountedStep
  <1> HIDE DEF val, idx, g, L
  <1>5. buckets' \in [Columns -> [Buckets -> 0..MaxWrites]] /\ \A c \in Columns, k \in Buckets : buckets'[c][k] <= g + 1
    <2>1. ASSUME NEW c \in Columns, NEW k \in Buckets
          PROVE  buckets'[c][k] \in 0..MaxWrites /\ buckets'[c][k] <= g + 1
      <3>1. buckets[c][k] \in Nat /\ buckets[c][k] <= g
        BY Sizes DEF PersistenceInv, TypeOK, Counters, g
      <3>2. buckets'[c][k] = buckets[c][k] + 1 \/ buckets'[c][k] = buckets[c][k]
        BY <1>2
      <3> QED
        BY <1>3, <3>1, <3>2, Sizes
    <2>2. buckets' = [c \in Columns |-> [k \in Buckets |-> buckets'[c][k]]]
      BY <1>2
    <2> QED
      BY <2>1, <2>2
  <1>6. TypeOK'
    <2>1. min \in [Columns -> 0..UINT64_MAX] /\ max \in [Columns -> 0..UINT64_MAX]
      BY DEF PersistenceInv, TypeOK
    <2>2. min' \in [Columns -> 0..UINT64_MAX] /\ max' \in [Columns -> 0..UINT64_MAX]
      BY <1>2, <1>4, <2>1
    <2>3. outside' \in Nat
      <3>1. IsFiniteSet(Columns)
        <4>1. IsFiniteSet(1..5)
          BY 1 \in Int, 5 \in Int, FS_Interval
        <4> QED
          BY <4>1 DEF Columns
      <3>2. {c \in Columns : idx(c) \notin Buckets} \in SUBSET Columns
        OBVIOUS
      <3>3. Cardinality({c \in Columns : idx(c) \notin Buckets}) \in Nat
        BY <3>1, <3>2, FS_Subset, FS_CardinalityType
      <3> QED
        BY <1>2, <3>3 DEF PersistenceInv, TypeOK
    <2>4. \A p \in {min_payload, max_payload, prev_payload} : p = NoPayload \/ p \in Stamps
      BY DEF PersistenceInv, TypeOK
    <2>5. \A p \in {min_payload', max_payload', prev_payload'} : p = NoPayload \/ p \in Stamps
      BY <1>1, <1>2, <2>4
    <2> QED
      BY <1>1, <1>3, <1>4, <1>5, <2>2, <2>3, <2>5 DEF PersistenceInv, TypeOK
  <1>7. Counters'
    BY <1>1, <1>3, <1>5 DEF Counters
  <1>8. Remembers'
    <2>1. counted' # <<>> /\ prev_payload' = counted'[Len(counted')]
      <3>1. Len(counted') # 0
        BY <1>4
      <3> QED
        BY <1>2, <1>4, <3>1
    <2> QED
      BY <2>1 DEF Remembers
  <1>9. ColumnsStart'
    BY <1>4 DEF ColumnsStart
  <1>10. Histogram' /\ ColumnExtremes'
    BY <1>1, CountedHistogram, CountedExtremes
  <1>11. CountedInOrder'
    <2>1. ASSUME NEW n \in 2..(L + 1), NEW c \in 1..4 PROVE counted'[n][c] >= counted'[n - 1][c]
      <3>1. CASE n = L + 1
        <4>1. n - 1 = L /\ L \in 1..L
          BY <1>4, <3>1
        <4>2. counted'[n] = ts /\ counted'[n - 1] = prev_payload
          BY <1>4, <3>1, <4>1
        <4> QED
          BY <1>4, <4>2
      <3>2. CASE n # L + 1
        <4>1. n \in 2..L /\ n \in 1..L /\ n - 1 \in 1..L
          BY <1>4, <3>2
        <4>2. counted[n][c] >= counted[n - 1][c]
          BY <1>1, <4>1 DEF PersistenceInv, CountedInOrder, L
        <4> QED
          BY <1>4, <4>1, <4>2
      <3> QED
        BY <3>1, <3>2
    <2>2. ASSUME NEW n \in DOMAIN given'
          PROVE  \/ \E m \in DOMAIN counted' : counted'[m] = given'[n]
                 \/ \E m \in DOMAIN counted', c \in 1..4 : given'[n][c] < counted'[m][c]
      <3>1. CASE n = g + 1
        <4>1. L + 1 \in DOMAIN counted' /\ counted'[L + 1] = given'[n]
          BY <1>3, <1>4, <3>1
        <4> QED
          BY <4>1
      <3>2. CASE n # g + 1
        <4>1. n \in DOMAIN given /\ given'[n] = given[n]
          BY <1>3, <3>2
        <4>2. \/ \E m \in DOMAIN counted : counted[m] = given[n]
              \/ \E m \in DOMAIN counted, c \in 1..4 : given[n][c] < counted[m][c]
          BY <1>1, <4>1 DEF PersistenceInv, CountedInOrder
        <4>3. \A m \in DOMAIN counted : m \in DOMAIN counted' /\ counted'[m] = counted[m]
          BY <1>4
        <4> QED
          BY <4>1, <4>2, <4>3
      <3> QED
        BY <3>1, <3>2
    <2> QED
      BY <1>4, <2>1, <2>2 DEF CountedInOrder
  <1> QED
    BY <1>1, <1>6, <1>7, <1>8, <1>9, <1>10, <1>11 DEF PersistenceInv

(* Every step. *)
LEMMA PersistenceStep == PersistenceInv /\ [Next]_vars => PersistenceInv'
  <1> SUFFICES ASSUME PersistenceInv, [Next]_vars PROVE PersistenceInv'
    OBVIOUS
  <1>1. CASE Write
    <2>1. ~closed /\ Len(given) < MaxWrites /\ UNCHANGED <<flags, interval, closed>>
      BY <1>1 DEF Write
    <2>2. PICK ts \in Stamps : /\ \/ persistence_write_all_timestamps(ts)
                                 \/ persistence_write_min_max_latency(ts)
                                 \/ persistence_write_buckets(ts)
                              /\ given' = Append(given, ts)
      BY <1>1 DEF Write
    <2>3. CASE persistence_write_all_timestamps(ts)
      BY <2>1, <2>2, <2>3, AllPreserves
    <2>4. CASE persistence_write_min_max_latency(ts)
      BY <2>1, <2>2, <2>4, MinMaxPreserves
    <2>5. CASE persistence_write_buckets(ts)
      <3>1. WriteFirst(ts) \/ WriteRejected(ts) \/ WriteCounted(ts)
        BY <2>5 DEF persistence_write_buckets
      <3>2. CASE WriteFirst(ts)
        BY <2>1, <2>2, <2>5, <3>2, FirstPreserves
      <3>3. CASE WriteRejected(ts)
        BY <2>1, <2>2, <2>5, <3>3, RejectedPreserves
      <3>4. CASE WriteCounted(ts)
        BY <2>1, <2>2, <2>5, <3>4, CountedPreserves
      <3> QED
        BY <3>1, <3>2, <3>3, <3>4
    <2> QED
      BY <2>2, <2>3, <2>4, <2>5
  <1>2. CASE persistence_close
    BY <1>2, ClosePreserves
  <1>3. CASE UNCHANGED vars
    BY <1>3, PersistenceStutters
  <1> QED
    BY <1>1, <1>2, <1>3 DEF Next

-----------------------------------------------------------------------------
(* Theorems. *)

(* The min_max report names the extreme payloads. *)
LEMMA ReportNamesExtremes == PersistenceInv => MinMaxReport
  <1> SUFFICES ASSUME PersistenceInv, flags = "min_max", closed PROVE MinMaxReport
    BY DEF MinMaxReport
  <1> DEFINE A == IF min[5] # UINT64_MAX THEN <<min_payload>> ELSE <<>>
             B == IF max[5] # 0 THEN <<max_payload>> ELSE <<>>
  <1>1. MinSoFar /\ MaxSoFar /\ file = A \o B
    BY DEF PersistenceInv, MinMaxInv, Reported, Report
  <1>2. given \in Seq(Stamps) /\ min[5] \in 0..UINT64_MAX /\ max[5] \in 0..UINT64_MAX /\ UINT64_MAX \in Nat
    BY Sizes DEF PersistenceInv, TypeOK, Columns
  <1>3. DOMAIN given = 1..Len(given) /\ \A n \in 1..Len(given) : given[n] \in Stamps
    BY <1>2, LenProperties, ElementOfSeq
  <1>4. min[5] # UINT64_MAX => /\ file # <<>> /\ file[1] = min_payload
                              /\ compute_latency(min_payload) = min[5]
                              /\ \E m \in DOMAIN given : min_payload = given[m]
    BY <1>1, <1>3 DEF MinSoFar
  <1>5. max[5] # 0 => /\ file # <<>> /\ file[Len(file)] = max_payload
                      /\ compute_latency(max_payload) = max[5]
                      /\ \E m \in DOMAIN given : max_payload = given[m]
    BY <1>1, <1>3 DEF MaxSoFar
  <1>6. \A n \in DOMAIN file : \/ file[n] = min_payload /\ min[5] # UINT64_MAX
                               \/ file[n] = max_payload /\ max[5] # 0
    <2> DEFINE lo == min[5] # UINT64_MAX
               hi == max[5] # 0
    <2>1. CASE lo /\ hi
      <3>1. file = <<min_payload>> \o <<max_payload>>
        BY <1>1, <2>1
      <3>2. DOMAIN file = {1, 2} /\ file[1] = min_payload /\ file[2] = max_payload
        BY <3>1
      <3> QED
        BY <2>1, <3>2
    <2>2. CASE lo /\ ~hi
      <3>1. file = <<min_payload>> \o <<>>
        BY <1>1, <2>2
      <3>2. DOMAIN file = {1} /\ file[1] = min_payload
        BY <3>1
      <3> QED
        BY <2>2, <3>2
    <2>3. CASE ~lo /\ hi
      <3>1. file = <<max_payload>>
        BY <1>1, <2>3
      <3> QED
        BY <2>3, <3>1
    <2>4. CASE ~lo /\ ~hi
      <3>1. DOMAIN file = {}
        BY <1>1, <2>4
      <3> QED
        BY <3>1
    <2> QED
      BY <2>1, <2>2, <2>3, <2>4
  <1>7. \A n \in DOMAIN file : \E m \in DOMAIN given : file[n] = given[m]
    BY <1>4, <1>5, <1>6
  <1>8. ASSUME NEW l \in Latencies
        PROVE  /\ l < UINT64_MAX => file # <<>> /\ compute_latency(file[1]) <= l
               /\ l > 0 => file # <<>> /\ compute_latency(file[Len(file)]) >= l
    <2>1. PICK n \in 1..Len(given) : l = compute_latency(given[n])
      BY <1>3 DEF Latencies
    <2>2. l \in 0..UINT64_MAX
      BY <1>3, <2>1, LatencyRange
    <2>3. min[5] <= l /\ max[5] >= l
      BY <1>1, <2>1 DEF MinSoFar, MaxSoFar
    <2>4. (l < UINT64_MAX => min[5] # UINT64_MAX) /\ (l > 0 => max[5] # 0)
      BY <1>2, <2>2, <2>3
    <2> QED
      BY <1>4, <1>5, <2>3, <2>4
  <1> QED
    BY <1>7, <1>8 DEF MinMaxReport

(* The inductive invariant holds in every mode of the agent. *)
THEOREM PersistenceInvariant == Spec => []PersistenceInv
  <1>1. Init => PersistenceInv
    BY PersistenceStarts
  <1>2. PersistenceInv /\ [Next]_vars => PersistenceInv'
    BY PersistenceStep
  <1> QED
    BY <1>1, <1>2, PTL DEF Spec

(* The types of the variables: the extremes of a column never leave the   *)
(* range of a timestamp, and no counter passes the number of payloads.    *)
THEOREM PersistenceTypes == Spec => []TypeOK
  <1>1. PersistenceInv => TypeOK
    BY DEF PersistenceInv
  <1> QED
    BY <1>1, PersistenceInvariant, PTL

(* persistence_write_buckets accounts for payloads in order only, and     *)
(* leaves out none but the ones older than a payload it accounted for.    *)
THEOREM PersistenceCountedInOrder == Spec => []CountedInOrder
  <1>1. PersistenceInv => CountedInOrder
    BY DEF PersistenceInv
  <1> QED
    BY <1>1, PersistenceInvariant, PTL

(* The histogram of persistence_write_buckets is that of the values.      *)
THEOREM PersistenceHistogram == Spec => []Histogram
  <1>1. PersistenceInv => Histogram
    BY DEF PersistenceInv
  <1> QED
    BY <1>1, PersistenceInvariant, PTL

(* The extremes that persistence_close reports are those of the           *)
(* experiment, in both modes that have them.                              *)
THEOREM PersistenceExtremes == Spec => []Extremes
  <1>1. PersistenceInv => Extremes
    BY ReportNamesExtremes DEF PersistenceInv, Extremes
  <1> QED
    BY <1>1, PersistenceInvariant, PTL
=============================================================================
