---------------------------- MODULE Persistence -----------------------------
(***************************************************************************)
(* The persistence agent of the clients (common/persistence.c): what is    *)
(* kept of the payloads of an experiment in each of its three modes, and   *)
(* what the file says when the agent is closed.  Timestamps and latencies  *)
(* are unsigned and wrap at Word (2^64 in the code).                       *)
(***************************************************************************)
EXTENDS Integers, Sequences, FiniteSets

CONSTANTS Word,         \* timestamps are numbers below Word
          NUM_BUCKETS,
          OFFSET,
          Intervals,    \* send intervals to consider
          Stamps,       \* the four timestamps a payload may carry
          MaxWrites     \* bound on the payloads of one experiment

ASSUME WordAssumption == Word \in Nat /\ Word > 1
ASSUME BucketsAssumption ==
    /\ NUM_BUCKETS \in Nat \ {0}
    /\ OFFSET \in Nat \ {0}
    /\ OFFSET % NUM_BUCKETS = 0
    /\ 4 * OFFSET < Word
ASSUME IntervalsAssumption == \A n \in Intervals : n \in Nat /\ 2 * (n + OFFSET) < Word
ASSUME StampsAssumption == \A ts \in Stamps : ts \in [1..4 -> 0..(Word - 1)]
ASSUME WritesAssumption == MaxWrites \in Nat

VARIABLES
    flags,         \* "all", "min_max" or "buckets" (never changes)
    interval,      \* send_interval (never changes)
    min, max,      \* extreme latencies (min_max), or of each column (buckets)
    min_payload,   \* payload of the least latency (min_max)
    max_payload,   \* payload of the greatest latency (min_max)
    prev_payload,  \* last payload put in the buckets
    tot_packets,
    buckets,       \* column -> bucket -> count; columns 1..4 and the latency
    outside,       \* increments that missed the array of buckets
    file,          \* what the file holds
    closed,
    given,         \* history: every payload handed to write
    counted        \* history: the payloads the buckets account for

vars == <<flags, interval, min, max, min_payload, max_payload, prev_payload,
          tot_packets, buckets, outside, file, closed, given, counted>>

NoPayload == <<>>
Columns == 1..5           \* four relative latencies and the absolute one
Buckets == 0..(NUM_BUCKETS + 1)
UINT64_MAX == Word - 1

(* Mutant: the initial minimum is not set. *)
InitialMinZero == 0

InitialMin == UINT64_MAX

(* Mutant: timestamps are subtracted as if they were signed. *)
SubNoWrap(a, b) == a - b

Sub(a, b) == (a - b) % Word

compute_latency(ts) == Sub(Sub(ts[4], ts[1]), Sub(ts[3], ts[2])) \div 2

(* The range of the buckets of a column. *)
bucket_ranges(c) ==
    IF c = 5 THEN [min |-> 0, max |-> interval + OFFSET]
    ELSE IF interval < OFFSET THEN [min |-> 0, max |-> 2 * OFFSET]
    ELSE [min |-> interval - OFFSET, max |-> interval + OFFSET]

(* A uint64_t handed over as an int64_t. *)
Signed(v) == IF 2 * v < Word THEN v ELSE v - Word

bucket_size(r) == (Signed(r.max) - Signed(r.min)) \div NUM_BUCKETS

(* Mutant: the bucket for values below the range is forgotten. *)
bucket_idxNoShift(val, r) ==
    IF Signed(val) < Signed(r.min) THEN 0
    ELSE IF Signed(val) > Signed(r.max) THEN NUM_BUCKETS + 1
    ELSE (Signed(val) - Signed(r.min)) \div bucket_size(r)

bucket_idx(val, r) ==
    IF Signed(val) < Signed(r.min) THEN 0
    ELSE IF Signed(val) > Signed(r.max) THEN NUM_BUCKETS + 1
    ELSE (Signed(val) - Signed(r.min)) \div bucket_size(r) + 1

(* What a payload contributes to a column, after the payload before it. *)
Value(ts, prev, c) == IF c = 5 THEN compute_latency(ts) ELSE ts[c] - prev[c]

Init ==
    /\ flags \in {"all", "min_max", "buckets"}
    /\ interval \in Intervals
    /\ min = [c \in Columns |-> InitialMin]
    /\ max = [c \in Columns |-> 0]
    /\ min_payload = NoPayload /\ max_payload = NoPayload
    /\ prev_payload = NoPayload
    /\ tot_packets = 0
    /\ buckets = [c \in Columns |-> [k \in Buckets |-> 0]]
    /\ outside = 0
    /\ file = <<>>
    /\ closed = FALSE
    /\ given = <<>> /\ counted = <<>>

-----------------------------------------------------------------------------
(* A line for every payload; a line that cannot be written is missing. *)
persistence_write_all_timestamps(ts) ==
    /\ flags = "all"
    /\ file' \in {file, Append(file, ts)}
    /\ UNCHANGED <<min, max, min_payload, max_payload, prev_payload,
                   tot_packets, buckets, outside, counted>>

(* Mutant: the maximum is looked at only when the minimum has not moved. *)
write_min_max_latencyElse(ts) ==
    /\ flags = "min_max"
    /\ LET latency == compute_latency(ts)
           isMin == latency < min[5]
           isMax == ~isMin /\ latency > max[5]
       IN /\ min' = IF isMin THEN [min EXCEPT ![5] = latency] ELSE min
          /\ min_payload' = IF isMin THEN ts ELSE min_payload
          /\ max' = IF isMax THEN [max EXCEPT ![5] = latency] ELSE max
          /\ max_payload' = IF isMax THEN ts ELSE max_payload
    /\ UNCHANGED <<prev_payload, tot_packets, buckets, outside, file, counted>>

persistence_write_min_max_latency(ts) ==
    /\ flags = "min_max"
    /\ LET latency == compute_latency(ts) IN
          /\ min' = IF latency < min[5] THEN [min EXCEPT ![5] = latency] ELSE min
          /\ min_payload' = IF latency < min[5] THEN ts ELSE min_payload
          /\ max' = IF latency > max[5] THEN [max EXCEPT ![5] = latency] ELSE max
          /\ max_payload' = IF latency > max[5] THEN ts ELSE max_payload
    /\ UNCHANGED <<prev_payload, tot_packets, buckets, outside, file, counted>>

(* The first payload is only remembered. *)
WriteFirst(ts) ==
    /\ prev_payload = NoPayload
    /\ prev_payload' = ts
    /\ counted' = <<ts>>
    /\ UNCHANGED <<min, max, buckets, outside>>

(* Mutant: only the first timestamp is compared. *)
OutOfOrderFirst(ts) == ts[1] < prev_payload[1]

OutOfOrder(ts) == \E c \in 1..4 : ts[c] < prev_payload[c]

(* A payload older than the one before it in some timestamp is rejected. *)
WriteRejected(ts) ==
    /\ prev_payload # NoPayload
    /\ OutOfOrder(ts)
    /\ UNCHANGED <<min, max, buckets, outside, prev_payload, counted>>

WriteCounted(ts) ==
    /\ prev_payload # NoPayload
    /\ ~OutOfOrder(ts)
    /\ LET v(c) == Value(ts, prev_payload, c)
           idx(c) == bucket_idx(v(c), bucket_ranges(c))
       IN /\ min' = [c \in Columns |-> IF v(c) < min[c] THEN v(c) ELSE min[c]]
          /\ max' = [c \in Columns |-> IF v(c) > max[c] THEN v(c) ELSE max[c]]
          /\ buckets' = [c \in Columns |-> [k \in Buckets |->
                            IF k = idx(c) THEN buckets[c][k] + 1 ELSE buckets[c][k]]]
          /\ outside' = outside + Cardinality({c \in Columns : idx(c) \notin Buckets})
    /\ prev_payload' = ts
    /\ counted' = Append(counted, ts)

persistence_write_buckets(ts) ==
    /\ flags = "buckets"
    /\ tot_packets' = tot_packets + 1
    /\ WriteFirst(ts) \/ WriteRejected(ts) \/ WriteCounted(ts)
    /\ UNCHANGED <<min_payload, max_payload, file>>

Write ==
    /\ ~closed
    /\ Len(given) < MaxWrites
    /\ \E ts \in Stamps :
          /\ \/ persistence_write_all_timestamps(ts)
             \/ persistence_write_min_max_latency(ts)
             \/ persistence_write_buckets(ts)
          /\ given' = Append(given, ts)
    /\ UNCHANGED <<flags, interval, closed>>

(* The report: the extreme payloads, or the histogram. *)
Report ==
    IF flags = "all" THEN file
    ELSE IF flags = "min_max"
         THEN (IF min[5] # UINT64_MAX THEN <<min_payload>> ELSE <<>>)
              \o (IF max[5] # 0 THEN <<max_payload>> ELSE <<>>)
    ELSE <<tot_packets, min, max, buckets>>

persistence_close ==
    /\ ~closed
    /\ closed' = TRUE
    /\ file' = Report
    /\ UNCHANGED <<flags, interval, min, max, min_payload, max_payload,
                   prev_payload, tot_packets, buckets, outside, given, counted>>

Next == Write \/ persistence_close

Spec == Init /\ [][Next]_vars

-----------------------------------------------------------------------------
(* Properties. *)

(* The types of the variables. *)
TypeOK ==
    /\ flags \in {"all", "min_max", "buckets"}
    /\ interval \in Intervals
    /\ min \in [Columns -> 0..UINT64_MAX]
    /\ max \in [Columns -> 0..UINT64_MAX]
    /\ \A p \in {min_payload, max_payload, prev_payload} : p = NoPayload \/ p \in Stamps
    /\ tot_packets \in 0..MaxWrites
    /\ buckets \in [Columns -> [Buckets -> 0..MaxWrites]]
    /\ outside \in Nat
    /\ closed \in BOOLEAN
    /\ given \in Seq(Stamps) /\ counted \in Seq(Stamps)

Latencies == {compute_latency(given[n]) : n \in DOMAIN given}

(* The min_max report names payloads of the experiment that have the least *)
(* and the greatest latency; a line is missing only when nothing was       *)
(* written or the extreme is the initial value.                            *)
MinMaxReport ==
    (flags = "min_max" /\ closed) =>
        /\ \A l \in Latencies :
              /\ l < UINT64_MAX => file # <<>> /\ compute_latency(file[1]) <= l
              /\ l > 0 => file # <<>> /\ compute_latency(file[Len(file)]) >= l
        /\ \A n \in DOMAIN file : \E m \in DOMAIN given : file[n] = given[m]

(* The bucket of a value: 0 below the range, NUM_BUCKETS + 1 from its end  *)
(* on, between them the one of NUM_BUCKETS equal parts that it lies in.    *)
(* This is not quite what persistence.c:22 says (bucket 0 for values < min *)
(* and the last one for values > max): the last one has v = max as well,   *)
(* and a difference from Word / 2 on, which is negative to bucket_idx, is  *)
(* in bucket 0.                                                            *)
InBucket(v, r, k) ==
    IF v < r.min \/ 2 * v >= Word THEN k = 0
    ELSE IF v >= r.max THEN k = NUM_BUCKETS + 1
    ELSE k \in 1..NUM_BUCKETS /\ (k - 1) * (r.max - r.min) <= (v - r.min) * NUM_BUCKETS
                              /\ (v - r.min) * NUM_BUCKETS < k * (r.max - r.min)

(* The values of column c, one for every payload counted after the first. *)
ColumnValue(n, c) == Value(counted[n], counted[n - 1], c)

(* The histogram is the one of the values: each of the four differences    *)
(* between a payload and the one counted before it is in the bucket of its *)
(* part of the range, and so is the latency when its range (interval +     *)
(* OFFSET) is a multiple of the number of buckets.  InBucket says where a  *)
(* value outside the range goes; for a latency range that is no such       *)
(* multiple, only EveryValueCounted speaks.                                *)
Histogram ==
    flags = "buckets" =>
        \A c \in Columns, k \in Buckets :
            LET r == bucket_ranges(c) IN
            (r.max - r.min) % NUM_BUCKETS = 0 =>
                buckets[c][k] =
                    Cardinality({n \in 2..Len(counted) : InBucket(ColumnValue(n, c), r, k)})

(* The MIN and MAX lines of the report are the extremes of the columns. *)
ColumnExtremes ==
    flags = "buckets" =>
        \A c \in Columns :
            /\ \A n \in 2..Len(counted) :
                  min[c] <= ColumnValue(n, c) /\ ColumnValue(n, c) <= max[c]
            /\ Len(counted) > 1 =>
                  /\ \E n \in 2..Len(counted) : min[c] = ColumnValue(n, c)
                  /\ \E n \in 2..Len(counted) : max[c] = ColumnValue(n, c)

(* The least and the greatest value that either report names are those of  *)
(* the experiment: MinMaxReport in the one mode, ColumnExtremes in the     *)
(* other.                                                                  *)
Extremes == MinMaxReport /\ ColumnExtremes

(* A payload out of order does not disturb the buckets: what is counted is *)
(* in order in all four timestamps, and a payload is left out only when it *)
(* is older than one that was counted.                                     *)
CountedInOrder ==
    flags = "buckets" =>
        /\ \A n \in 2..Len(counted), c \in 1..4 : counted[n][c] >= counted[n - 1][c]
        /\ \A n \in DOMAIN given :
              \/ \E m \in DOMAIN counted : counted[m] = given[n]
              \/ \E m \in DOMAIN counted, c \in 1..4 : given[n][c] < counted[m][c]

(* The comment of persistence.c:22: there is a bucket for values below the *)
(* range and one for values above it, so that every value has a bucket in  *)
(* the array.                                                              *)
EveryValueCounted == outside = 0
=============================================================================
