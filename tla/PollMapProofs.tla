--------------------------- MODULE PollMapProofs ----------------------------
(***************************************************************************)
(* Theorems about PollMap for every size of the map, every number of       *)
(* packets and every arrival order.  The types hold for any number of      *)
(* CPUs; the rest holds when one CPU runs the XDP program (Cpus = {c}),    *)
(* which is where the commit protocol of the magic number is sound.        *)
(*                                                                         *)
(* The argument: as long as the client has not been interrupted, the       *)
(* readable slots form one circular interval that starts at the slot the   *)
(* user program polls (next_map_idx) and ends before the slot the XDP      *)
(* program writes (TailSlot), and the slot at distance d from the start    *)
(* holds the payload number taken + d + 1 of the committed ones.           *)
(***************************************************************************)
EXTENDS PollMap, TLAPS

(* Payloads committed and not yet taken. *)
Waiting == Len(committed) - taken

(* The slot the XDP program on c writes next. *)
TailSlot(c) == IF xpc[c] = "idle" THEN index ELSE key[c]

(* Steps from the polled slot to slot i, around the circle. *)
Dist(i) == IF i >= next_map_idx THEN i - next_map_idx
                                ELSE (i - next_map_idx) + PACKETS_MAP_SIZE

(* The slot d steps from the polled slot. *)
SlotAt(d) == IF next_map_idx + d < PACKETS_MAP_SIZE
             THEN next_map_idx + d ELSE (next_map_idx + d) - PACKETS_MAP_SIZE

Reading == {"copyHead", "copyTail", "clearHead", "clearTail"}
Copying == {"copyHead", "copyTail", "commit"}

(* Where the two ends of the interval are. *)
IndexInv(c) ==
    /\ Waiting \in 0..PACKETS_MAP_SIZE
    /\ TailSlot(c) = SlotAt(Waiting)
    /\ xpc[c] # "idle" => index = Succ(key[c])
    /\ xpc[c] \in Copying => Waiting < PACKETS_MAP_SIZE
    /\ upc \in Reading => Waiting > 0

(* What the slots hold. *)
SlotInv ==
    \A i \in Slots :
        /\ valid_pingpong_payload(last_payload[i]) <=> Dist(i) < Waiting
        /\ Dist(i) < Waiting =>
              /\ last_payload[i].ts = committed[taken + Dist(i) + 1].ts
              /\ (i # next_map_idx \/ upc # "clearTail")
                    => last_payload[i].id = committed[taken + Dist(i) + 1].id

(* How far the copy into the map has got. *)
XdpInv(c) ==
    /\ xpc[c] # "idle" => Whole(payload[c])
    /\ xpc[c] = "check" => payload[c].magic = PINGPONG_MAGIC
    /\ xpc[c] \in Copying => payload[c].magic = PINGPONG_MAGIC - 1
    /\ xpc[c] \in {"copyTail", "commit"} => last_payload[key[c]].id = payload[c].id
    /\ xpc[c] = "commit" => /\ last_payload[key[c]].ts = payload[c].ts
                            /\ last_payload[key[c]].magic = PINGPONG_MAGIC - 1

(* How far the copy out of the map has got. *)
UserInv ==
    /\ upc \in {"copyTail", "clearHead", "clearTail"}
          => buf_payload.id = committed[taken + 1].id
    /\ upc \in {"clearHead", "clearTail"}
          => buf_payload.ts = committed[taken + 1].ts
    /\ upc = "check" => Whole(buf_payload)

(* After an interruption the client leaves before it uses what it polls,   *)
(* so nothing is claimed of the map any more.                              *)
IInv(c) ==
    /\ SERVER => ~global_exit
    /\ upc = "write" => Whole(buf_payload)
    /\ \A n \in DOMAIN written : Whole(written[n])
    /\ \A n \in DOMAIN committed : Whole(committed[n])
    /\ taken <= Len(committed)
    /\ ~global_exit => IndexInv(c) /\ SlotInv /\ XdpInv(c) /\ UserInv

-----------------------------------------------------------------------------
(* The arithmetic of the circular index. *)
LEMMA SuccSlot ==
    ASSUME NEW i \in Slots
    PROVE  /\ Succ(i) \in Slots
           /\ Succ(i) = IF i = PACKETS_MAP_SIZE - 1 THEN 0 ELSE i + 1
  BY SizeAssumption DEF Succ, Slots

(* Distances around the circle. *)
LEMMA Circle ==
    ASSUME next_map_idx \in Slots
    PROVE  /\ \A i, j \in Slots : Dist(i) = Dist(j) => i = j
           /\ \A i \in Slots : Dist(i) \in Slots
           /\ \A d \in Slots : SlotAt(d) \in Slots /\ Dist(SlotAt(d)) = d
           /\ \A d \in Slots : SlotAt(d + 1) = Succ(SlotAt(d))
           /\ SlotAt(PACKETS_MAP_SIZE) = next_map_idx
           /\ SlotAt(0) = next_map_idx
  <1> USE SizeAssumption DEF Slots
  <1>1. /\ \A i, j \in Slots : Dist(i) = Dist(j) => i = j
        /\ \A i \in Slots : Dist(i) \in Slots
    BY DEF Dist
  <1>2. \A d \in Slots : SlotAt(d) \in Slots /\ Dist(SlotAt(d)) = d
    BY DEF Dist, SlotAt
  <1>3. \A d \in Slots : SlotAt(d + 1) = Succ(SlotAt(d))
    BY <1>2, SuccSlot DEF SlotAt
  <1>4. SlotAt(PACKETS_MAP_SIZE) = next_map_idx /\ SlotAt(0) = next_map_idx
    BY DEF SlotAt
  <1> QED
    BY <1>1, <1>2, <1>3, <1>4

(* The bits of the magic number. *)
LEMMA Bits ==
    /\ ClearBit0(3) = 2
    /\ SetBit0(2) = 3
    /\ \A m \in 0..3 : ClearBit0(m) \in 0..3 /\ SetBit0(m) \in 0..3
  BY DEF ClearBit0, SetBit0

(* What changing the id of a payload gives. *)
LEMMA SetId ==
    ASSUME NEW p \in PayloadType, NEW v \in 0..Iters
    PROVE  /\ [p EXCEPT !.id = v] \in PayloadType
           /\ [p EXCEPT !.id = v] = [id |-> v, ts |-> p.ts, phase |-> p.phase,
                                     magic |-> p.magic]
  BY DEF PayloadType

(* What changing the magic number of a payload gives. *)
LEMMA SetMagic ==
    ASSUME NEW p \in PayloadType, NEW v \in 0..3
    PROVE  /\ [p EXCEPT !.magic = v] \in PayloadType
           /\ [p EXCEPT !.magic = v] = [id |-> p.id, ts |-> p.ts, phase |-> p.phase,
                                        magic |-> v]
  BY DEF PayloadType

(* A cleared slot (pp_poll.c:45) is a payload. *)
LEMMA ZeroedType == Zeroed \in PayloadType
  BY ItersAssumption DEF Zeroed, PayloadType

(* The types of the fields of a payload and of its content. *)
LEMMA PayloadFields ==
    ASSUME NEW p \in PayloadType
    PROVE  /\ p.id \in 0..Iters /\ p.ts \in 0..Iters /\ p.magic \in 0..3
           /\ Content(p) \in ContentType
           /\ Content(p).id = p.id /\ Content(p).ts = p.ts
  BY DEF PayloadType, ContentType, Content

-----------------------------------------------------------------------------
(* What the steps that copy or clear half a payload do to it. *)

(* h is f with another payload, of the given fields, at k. *)
Updated(f, h, S, k, id, ts, magic) ==
    /\ h \in [S -> PayloadType]
    /\ h[k].id = id /\ h[k].ts = ts /\ h[k].magic = magic
    /\ \A i \in S \ {k} : h[i] = f[i]

(* An accepted frame loses the low bit of its magic (pingpong.c:84). *)
LEMMA CheckSlotEffect ==
    ASSUME TypeOK, NEW c \in Cpus, CheckSlot(c)
    PROVE  \/ payload' = payload /\ xpc'[c] = "full"
           \/ /\ xpc'[c] = "copyHead"
              /\ Updated(payload, payload', Cpus, c, payload[c].id, payload[c].ts,
                         ClearBit0(payload[c].magic))
  <1> DEFINE r == [payload[c] EXCEPT !.magic = ClearBit0(payload[c].magic)]
  <1>1. payload[c] \in PayloadType
    BY DEF TypeOK
  <1>2. r \in PayloadType /\ r = [id |-> payload[c].id, ts |-> payload[c].ts,
                                   phase |-> payload[c].phase,
                                   magic |-> ClearBit0(payload[c].magic)]
    BY <1>1, SetMagic, Bits, PayloadFields
  <1>3. /\ r.id = payload[c].id
        /\ r.ts = payload[c].ts
        /\ r.magic = ClearBit0(payload[c].magic)
    BY <1>2
  <1> QED
    BY <1>2, <1>3 DEF CheckSlot, TypeOK, Updated

(* The first half of the copy changes the id of the reserved slot only. *)
LEMMA CopyHeadEffect ==
    ASSUME TypeOK, NEW c \in Cpus, CopyHead(c)
    PROVE  Updated(last_payload, last_payload', Slots, key[c], payload[c].id,
                   last_payload[key[c]].ts, last_payload[key[c]].magic)
  <1> DEFINE r == [last_payload[key[c]] EXCEPT !.id = payload[c].id]
  <1>1. last_payload[key[c]] \in PayloadType /\ payload[c] \in PayloadType
    BY DEF TypeOK
  <1>2. r \in PayloadType /\ r = [id |-> payload[c].id, ts |-> last_payload[key[c]].ts,
                                   phase |-> last_payload[key[c]].phase,
                                   magic |-> last_payload[key[c]].magic]
    BY <1>1, SetId, PayloadFields
  <1>3. /\ r.id = payload[c].id
        /\ r.ts = last_payload[key[c]].ts
        /\ r.magic = last_payload[key[c]].magic
    BY <1>2
  <1> QED
    BY <1>2, <1>3 DEF CopyHead, TypeOK, Updated

(* The second half of the copy leaves the slot uncommitted. *)
LEMMA CopyTailEffect ==
    ASSUME TypeOK, NEW c \in Cpus, CopyTail(c)
    PROVE  Updated(last_payload, last_payload', Slots, key[c],
                   last_payload[key[c]].id, payload[c].ts, payload[c].magic)
  <1> DEFINE r == [payload[c] EXCEPT !.id = last_payload[key[c]].id]
  <1>1. last_payload[key[c]] \in PayloadType /\ payload[c] \in PayloadType
    BY DEF TypeOK
  <1>2. r \in PayloadType /\ r = [id |-> last_payload[key[c]].id, ts |-> payload[c].ts,
                                   phase |-> payload[c].phase,
                                   magic |-> payload[c].magic]
    BY <1>1, SetId, PayloadFields
  <1>3. /\ r.id = last_payload[key[c]].id
        /\ r.ts = payload[c].ts
        /\ r.magic = payload[c].magic
    BY <1>2
  <1> QED
    BY <1>2, <1>3 DEF CopyTail, TypeOK, Updated

(* Committing changes the magic of the reserved slot only (pingpong.c:88). *)
LEMMA CommitEffect ==
    ASSUME TypeOK, NEW c \in Cpus, Commit(c)
    PROVE  Updated(last_payload, last_payload', Slots, key[c], last_payload[key[c]].id,
                   last_payload[key[c]].ts, SetBit0(last_payload[key[c]].magic))
  <1> DEFINE r == [last_payload[key[c]] EXCEPT !.magic = SetBit0(last_payload[key[c]].magic)]
  <1>1. last_payload[key[c]] \in PayloadType
    BY DEF TypeOK
  <1>2. r \in PayloadType /\ r = [id |-> last_payload[key[c]].id, ts |-> last_payload[key[c]].ts,
                                   phase |-> last_payload[key[c]].phase,
                                   magic |-> SetBit0(last_payload[key[c]].magic)]
    BY <1>1, SetMagic, Bits, PayloadFields
  <1>3. /\ r.id = last_payload[key[c]].id
        /\ r.ts = last_payload[key[c]].ts
        /\ r.magic = SetBit0(last_payload[key[c]].magic)
    BY <1>2
  <1> QED
    BY <1>2, <1>3 DEF Commit, TypeOK, Updated

(* Clearing the first half keeps the slot readable. *)
LEMMA PollClearHeadEffect ==
    ASSUME TypeOK, PollClearHead
    PROVE  Updated(last_payload, last_payload', Slots, next_map_idx, 0,
                   last_payload[next_map_idx].ts, last_payload[next_map_idx].magic)
  <1> DEFINE r == [last_payload[next_map_idx] EXCEPT !.id = 0]
  <1>1. last_payload[next_map_idx] \in PayloadType
    BY DEF TypeOK
  <1>a. 0 \in 0..Iters
    BY ItersAssumption
  <1>2. r \in PayloadType /\ r = [id |-> 0, ts |-> last_payload[next_map_idx].ts,
                                   phase |-> last_payload[next_map_idx].phase,
                                   magic |-> last_payload[next_map_idx].magic]
    BY <1>1, <1>a, SetId
  <1>3. /\ r.id = 0
        /\ r.ts = last_payload[next_map_idx].ts
        /\ r.magic = last_payload[next_map_idx].magic
    BY <1>2
  <1> QED
    BY <1>2, <1>3 DEF PollClearHead, TypeOK, Updated

(* Clearing the second half makes the slot free (pp_poll.c:45). *)
LEMMA PollClearTailEffect ==
    ASSUME TypeOK, PollClearTail
    PROVE  Updated(last_payload, last_payload', Slots, next_map_idx,
                   last_payload[next_map_idx].id, 0, 0)
  <1> DEFINE r == [Zeroed EXCEPT !.id = last_payload[next_map_idx].id]
  <1>1. last_payload[next_map_idx] \in PayloadType
    BY DEF TypeOK
  <1>2. r \in PayloadType /\ r = [id |-> last_payload[next_map_idx].id, ts |-> Zeroed.ts,
                                   phase |-> Zeroed.phase,
                                   magic |-> Zeroed.magic]
    BY <1>1, SetId, ZeroedType, PayloadFields
  <1>3. /\ r.id = last_payload[next_map_idx].id
        /\ r.ts = 0
        /\ r.magic = 0
    BY <1>2 DEF Zeroed
  <1> QED
    BY <1>2, <1>3 DEF PollClearTail, Slot, TypeOK, Updated

(* The two halves of the copy into buf_payload. *)
LEMMA PollCopyEffect ==
    ASSUME TypeOK
    PROVE  /\ PollCopyHead => /\ buf_payload' \in PayloadType
                              /\ buf_payload'.id = last_payload[next_map_idx].id
           /\ PollCopyTail => /\ buf_payload' \in PayloadType
                              /\ buf_payload'.id = buf_payload.id
                              /\ buf_payload'.ts = last_payload[next_map_idx].ts
  <1>1. last_payload[next_map_idx] \in PayloadType /\ buf_payload \in PayloadType
    BY DEF TypeOK
  <1>2. ASSUME PollCopyHead
        PROVE  /\ buf_payload' \in PayloadType
               /\ buf_payload'.id = last_payload[next_map_idx].id
    <2> DEFINE r == [buf_payload EXCEPT !.id = last_payload[next_map_idx].id]
    <2>1. /\ r \in PayloadType
          /\ r = [id |-> last_payload[next_map_idx].id, ts |-> buf_payload.ts,
                  phase |-> buf_payload.phase, magic |-> buf_payload.magic]
      BY <1>1, SetId, PayloadFields
    <2> QED
      BY <1>2, <2>1 DEF PollCopyHead, Slot
  <1>3. ASSUME PollCopyTail
        PROVE  /\ buf_payload' \in PayloadType
               /\ buf_payload'.id = buf_payload.id
               /\ buf_payload'.ts = last_payload[next_map_idx].ts
    <2> DEFINE r == [last_payload[next_map_idx] EXCEPT !.id = buf_payload.id]
    <2>1. /\ r \in PayloadType
          /\ r = [id |-> buf_payload.id, ts |-> last_payload[next_map_idx].ts,
                  phase |-> last_payload[next_map_idx].phase,
                  magic |-> last_payload[next_map_idx].magic]
      BY <1>1, SetId, PayloadFields
    <2> QED
      BY <1>3, <2>1 DEF PollCopyTail, Slot
  <1> QED
    BY <1>2, <1>3

-----------------------------------------------------------------------------
(* Every step of the user program and of the XDP program on any CPU keeps  *)
(* the types: the circular indices stay inside the map.                    *)
LEMMA TypeStep == TypeOK /\ [Next]_vars => TypeOK'
  <1> SUFFICES ASSUME TypeOK, [Next]_vars PROVE TypeOK'
    OBVIOUS
  <1> USE DEF TypeOK
  <1>1. ASSUME NEW c \in Cpus, Reserve(c) PROVE TypeOK'
    <2>1. PICK n \in wire, ph \in Phases :
             payload' = [payload EXCEPT ![c] = new_pingpong_payload(n, ph)]
      BY <1>1 DEF Reserve
    <2>2. new_pingpong_payload(n, ph) \in PayloadType
      BY ItersAssumption, PhasesAssumption
      DEF new_pingpong_payload, PINGPONG_MAGIC, PayloadType
    <2>3. payload' \in [Cpus -> PayloadType]
      BY <2>1, <2>2
    <2>4. index' \in Slots
      BY <1>1, SuccSlot DEF Reserve
    <2> QED
      BY <1>1, <2>3, <2>4 DEF Reserve, userVars
  <1>2. ASSUME NEW c \in Cpus, CheckSlot(c) PROVE TypeOK'
    BY <1>2, CheckSlotEffect DEF CheckSlot, userVars, Updated
  <1>3. ASSUME NEW c \in Cpus, ResetIndex(c) PROVE TypeOK'
    BY <1>3 DEF ResetIndex, userVars
  <1>4. ASSUME NEW c \in Cpus, CopyHead(c) PROVE TypeOK'
    BY <1>4, CopyHeadEffect DEF CopyHead, userVars, Updated
  <1>5. ASSUME NEW c \in Cpus, CopyTail(c) PROVE TypeOK'
    BY <1>5, CopyTailEffect DEF CopyTail, userVars, Updated
  <1>6. ASSUME NEW c \in Cpus, Commit(c) PROVE TypeOK'
    <2>1. committed' \in Seq(ContentType)
      <3>1. Content(last_payload[key[c]]) \in ContentType
        BY PayloadFields
      <3> QED
        BY <1>6, <3>1 DEF Commit
    <2> QED
      BY <1>6, <2>1, CommitEffect DEF Commit, userVars, Updated
  <1>7. CASE PollWait
    BY <1>7 DEF PollWait, xdpVars
  <1>8. CASE PollCopyHead
    BY <1>8, PollCopyEffect DEF PollCopyHead, xdpVars
  <1>9. CASE PollCopyTail
    BY <1>9, PollCopyEffect DEF PollCopyTail, xdpVars
  <1>10. CASE PollClearHead
    BY <1>10, PollClearHeadEffect DEF PollClearHead, xdpVars, Updated
  <1>11. CASE PollClearTail
    BY <1>11, PollClearTailEffect, SuccSlot DEF PollClearTail, xdpVars, Updated
  <1>12. CASE CheckPhase
    BY <1>12 DEF CheckPhase, xdpVars, LoopTest
  <1>13. CASE Write
    BY <1>13, PayloadFields DEF Write, xdpVars, LoopTest
  <1>14. CASE SendFails
    BY <1>14, PayloadFields DEF SendFails, xdpVars
  <1>15. CASE sigint_handler
    BY <1>15 DEF sigint_handler, xdpVars, userVars
  <1>16. CASE UNCHANGED vars
    BY <1>16 DEF vars, xdpVars, userVars
  <1> QED
    BY <1>1, <1>2, <1>3, <1>4, <1>5, <1>6, <1>7, <1>8, <1>9, <1>10, <1>11,
       <1>12, <1>13, <1>14, <1>15, <1>16 DEF Next, User, Xdp

(* The types hold at the start. *)
LEMMA TypeInit == Init => TypeOK
  <1> SUFFICES ASSUME Init PROVE TypeOK
    OBVIOUS
  <1>1. SERVER \in BOOLEAN
    BY BuildsAssumption DEF Init
  <1>2. 0 \in Slots /\ 0 \in 0..Iters
    BY SizeAssumption, ItersAssumption DEF Slots
  <1>3. /\ last_payload \in [Slots -> PayloadType]
        /\ payload \in [Cpus -> PayloadType]
        /\ buf_payload \in PayloadType
    BY ZeroedType DEF Init
  <1>4. wire \subseteq 1..Iters /\ written \in Seq(ContentType)
                               /\ committed \in Seq(ContentType)
    BY DEF Init
  <1> QED
    BY <1>1, <1>2, <1>3, <1>4 DEF Init, TypeOK

(* The variables of PollMap keep their types in every behaviour, for any   *)
(* number of CPUs: no index leaves the map (pingpong.c:58, pp_poll.c:47).  *)
THEOREM TypeCorrect == Spec => []TypeOK
  BY TypeInit, TypeStep, PTL DEF Spec

-----------------------------------------------------------------------------
(* One CPU runs the XDP program. *)

(* The inductive invariant holds at the start. *)
LEMMA IInvInit ==
    ASSUME NEW c, Cpus = {c}, Init
    PROVE  IInv(c)
  <1>1. Waiting = 0 /\ next_map_idx = 0 /\ TailSlot(c) = 0
    BY DEF Init, Waiting, TailSlot
  <1>2. IndexInv(c)
    BY <1>1, SizeAssumption DEF IndexInv, SlotAt, Init, Copying, Reading
  <1>3. SlotInv
    BY <1>1, SizeAssumption
    DEF SlotInv, Init, Dist, Slots, Zeroed, valid_pingpong_payload, PINGPONG_MAGIC
  <1>4. XdpInv(c) /\ UserInv
    BY DEF XdpInv, UserInv, Init, Copying
  <1> QED
    BY <1>2, <1>3, <1>4, BuildsAssumption DEF IInv, Init

(* The steps of the XDP program keep the invariant. *)
LEMMA IInvXdp ==
    ASSUME NEW c, Cpus = {c}, TypeOK, IInv(c), Xdp(c)
    PROVE  IInv(c)'
  <1> c \in Cpus
    OBVIOUS
  <1> next_map_idx \in Slots /\ index \in Slots /\ key[c] \in Slots /\ taken \in Nat
      /\ committed \in Seq(ContentType) /\ last_payload \in [Slots -> PayloadType]
      /\ payload \in [Cpus -> PayloadType] /\ key \in [Cpus -> Slots]
      /\ xpc \in [Cpus -> {"idle", "check", "full", "copyHead", "copyTail", "commit"}]
      /\ PACKETS_MAP_SIZE \in Nat \ {0}
    BY SizeAssumption DEF TypeOK
  <1>1. CASE Reserve(c)
    <2> USE <1>1 DEF Reserve, userVars
    <2>1. ~global_exit => IndexInv(c)'
      BY SuccSlot DEF IInv, IndexInv, SlotAt, TailSlot, Waiting, Copying
    <2>2. ~global_exit => SlotInv'
      BY DEF IInv, SlotInv, Dist, Waiting
    <2>3. ~global_exit => XdpInv(c)'
      BY ItersAssumption DEF XdpInv, TypeOK, new_pingpong_payload, Whole, Copying
    <2>4. ~global_exit => UserInv'
      BY DEF IInv, UserInv
    <2> QED
      BY <2>1, <2>2, <2>3, <2>4 DEF IInv
  <1>2. CASE CheckSlot(c)
    <2> USE <1>2 DEF CheckSlot, userVars
    <2>1. ~global_exit => IndexInv(c)'
      <3> SUFFICES ASSUME ~global_exit PROVE IndexInv(c)'
        OBVIOUS
      <3>1. Waiting' = Waiting /\ TailSlot(c)' = TailSlot(c) /\ TailSlot(c) = key[c]
            /\ SlotAt(Waiting)' = SlotAt(Waiting)
        BY DEF Waiting, TailSlot, SlotAt
      <3>2. ~valid_pingpong_payload(last_payload[key[c]]) => Waiting < PACKETS_MAP_SIZE
        BY <3>1, Circle DEF IInv, IndexInv, SlotInv, Slots
      <3> QED
        BY <3>1, <3>2 DEF IInv, IndexInv, Copying
    <2>2. ~global_exit => SlotInv'
      BY DEF IInv, SlotInv, Dist, Waiting
    <2>3. ~global_exit => XdpInv(c)'
      BY CheckSlotEffect, Bits DEF IInv, XdpInv, Whole, Copying, Updated, PINGPONG_MAGIC
    <2>4. ~global_exit => UserInv'
      BY DEF IInv, UserInv
    <2> QED
      BY <2>1, <2>2, <2>3, <2>4 DEF IInv
  <1>3. CASE ResetIndex(c)
    <2> USE <1>3 DEF ResetIndex, userVars
    <2>1. ~global_exit => IndexInv(c)'
      BY DEF IInv, IndexInv, SlotAt, TailSlot, Waiting, Copying
    <2>2. ~global_exit => SlotInv'
      BY DEF IInv, SlotInv, Dist, Waiting
    <2>3. ~global_exit => XdpInv(c)' /\ UserInv'
      BY DEF IInv, XdpInv, UserInv, Copying
    <2> QED
      BY <2>1, <2>2, <2>3 DEF IInv
  <1>4. CASE CopyHead(c)
    <2> USE <1>4, CopyHeadEffect DEF CopyHead, userVars
    <2>1. ~global_exit => IndexInv(c)'
      BY DEF IInv, IndexInv, SlotAt, TailSlot, Waiting, Copying
    <2>2. ~global_exit => ~(Dist(key[c]) < Waiting)
      <3>1. ~global_exit => Waiting \in Slots /\ key[c] = SlotAt(Waiting)
        BY DEF IInv, IndexInv, TailSlot, Copying, Slots
      <3>2. ~global_exit => Dist(key[c]) = Waiting /\ Waiting \in Int
        BY <3>1, Circle DEF Slots
      <3> QED
        BY <3>2
    <2>3. ~global_exit => SlotInv'
      BY <2>2 DEF IInv, SlotInv, Dist, Waiting, Updated, valid_pingpong_payload
    <2>4. ~global_exit => XdpInv(c)' /\ UserInv'
      BY DEF IInv, XdpInv, UserInv, Copying, Updated
    <2> QED
      BY <2>1, <2>3, <2>4 DEF IInv
  <1>5. CASE CopyTail(c)
    <2> USE <1>5, CopyTailEffect DEF CopyTail, userVars
    <2>1. ~global_exit => IndexInv(c)'
      BY DEF IInv, IndexInv, SlotAt, TailSlot, Waiting, Copying
    <2>2. ~global_exit => ~(Dist(key[c]) < Waiting)
      <3>1. ~global_exit => Waiting \in Slots /\ key[c] = SlotAt(Waiting)
        BY DEF IInv, IndexInv, TailSlot, Copying, Slots
      <3>2. ~global_exit => Dist(key[c]) = Waiting /\ Waiting \in Int
        BY <3>1, Circle DEF Slots
      <3> QED
        BY <3>2
    <2>3. ~global_exit => SlotInv'
      BY <2>2 DEF IInv, SlotInv, XdpInv, Copying, Dist, Waiting, Updated,
                  valid_pingpong_payload, PINGPONG_MAGIC
    <2>4. ~global_exit => XdpInv(c)' /\ UserInv'
      BY DEF IInv, XdpInv, UserInv, Copying, Updated
    <2> QED
      BY <2>1, <2>3, <2>4 DEF IInv
  <1>6. CASE Commit(c)
    <2> USE <1>6 DEF Commit, userVars
    <2> DEFINE p == Content(last_payload[key[c]])
    <2>1. p \in ContentType /\ p.id = last_payload[key[c]].id
                            /\ p.ts = last_payload[key[c]].ts
      BY PayloadFields
    <2>2. ASSUME ~global_exit
          PROVE  /\ Len(committed') = Len(committed) + 1
                 /\ committed'[Len(committed) + 1] = p
                 /\ \A n \in 1..Len(committed) : committed'[n] = committed[n]
                 /\ DOMAIN committed' = 1..(Len(committed) + 1)
                 /\ Whole(p)
      BY <2>1, <2>2 DEF IInv, XdpInv, Whole, Copying
    <2>3. ASSUME ~global_exit
          PROVE  /\ taken <= Len(committed) /\ Len(committed) \in Nat
                 /\ Waiting' = Waiting + 1 /\ Waiting < PACKETS_MAP_SIZE
                 /\ Waiting \in Nat /\ Dist(key[c]) = Waiting
                 /\ next_map_idx' = next_map_idx /\ taken' = taken /\ upc' = upc
      <3>1. taken <= Len(committed) /\ Len(committed) \in Nat
        BY <2>3 DEF IInv
      <3>2. Waiting' = Waiting + 1
        BY <2>2, <2>3, <3>1 DEF Waiting
      <3>3. Waiting \in Nat /\ Waiting < PACKETS_MAP_SIZE /\ IndexInv(c)
        BY <2>3 DEF IInv, IndexInv, Copying
      <3>4. Dist(key[c]) = Waiting
        BY <3>3, Circle DEF IndexInv, TailSlot, Slots
      <3> QED
        BY <3>1, <3>2, <3>3, <3>4
    <2>4. ~global_exit => IndexInv(c)'
      <3> SUFFICES ASSUME ~global_exit PROVE IndexInv(c)'
        OBVIOUS
      <3>1. xpc'[c] = "idle" /\ index' = index
        OBVIOUS
      <3>2. key[c] = SlotAt(Waiting) /\ index = Succ(key[c])
        BY DEF IInv, IndexInv, TailSlot
      <3>3. index = SlotAt(Waiting + 1)
        BY <2>3, <3>2, Circle DEF Slots
      <3>4. TailSlot(c)' = SlotAt(Waiting)'
        BY <2>3, <3>1, <3>3 DEF TailSlot, SlotAt
      <3> QED
        BY <2>3, <3>1, <3>4 DEF IndexInv, Copying
    <2>5. ASSUME ~global_exit PROVE SlotInv'
      <3> SUFFICES ASSUME NEW i \in Slots
                   PROVE  /\ valid_pingpong_payload(last_payload'[i]) <=> Dist(i) < Waiting + 1
                          /\ Dist(i) < Waiting + 1 =>
                              /\ last_payload'[i].ts = committed'[taken + Dist(i) + 1].ts
                              /\ (i # next_map_idx \/ upc # "clearTail") =>
                                   last_payload'[i].id = committed'[taken + Dist(i) + 1].id
        <4>1. \A i \in Slots : Dist(i)' = Dist(i)
          BY <2>3, <2>5 DEF Dist
        <4> QED
          BY <2>3, <2>5, <4>1 DEF SlotInv, valid_pingpong_payload
      <3>1. CASE i = key[c]
        BY <3>1, <2>1, <2>2, <2>3, <2>5, CommitEffect, Bits
        DEF IInv, XdpInv, Updated, Waiting, valid_pingpong_payload, PINGPONG_MAGIC
      <3>2. CASE i # key[c]
        <4>1. Dist(i) # Waiting /\ Dist(i) \in Nat
          <5>1. Dist(key[c]) = Waiting
            BY <2>3, <2>5
          <5> QED
            BY <3>2, <5>1, Circle DEF Slots
        <4>2. last_payload'[i] = last_payload[i]
          BY <3>2, CommitEffect DEF Updated
        <4>3. Dist(i) < Waiting => taken + Dist(i) + 1 \in 1..Len(committed)
          BY <4>1, <2>3, <2>5 DEF Waiting
        <4> QED
          BY <4>1, <4>2, <4>3, <2>2, <2>3, <2>5 DEF IInv, SlotInv, Waiting
      <3> QED
        BY <3>1, <3>2
    <2>6. ~global_exit => XdpInv(c)'
      BY DEF XdpInv, Copying
    <2>7. ~global_exit => UserInv'
      BY <2>2, <2>3 DEF IInv, UserInv, IndexInv, Reading, Waiting
    <2> QED
      BY <2>2, <2>3, <2>4, <2>5, <2>6, <2>7 DEF IInv
  <1> QED
    BY <1>1, <1>2, <1>3, <1>4, <1>5, <1>6 DEF Xdp

(* The steps of the user program and the signal keep the invariant. *)
LEMMA IInvUser ==
    ASSUME NEW c, Cpus = {c}, TypeOK, IInv(c), User \/ sigint_handler
    PROVE  IInv(c)'
  <1> c \in Cpus
    OBVIOUS
  <1> /\ next_map_idx \in Slots /\ taken \in Nat /\ committed \in Seq(ContentType)
      /\ last_payload \in [Slots -> PayloadType] /\ key[c] \in Slots /\ index \in Slots
      /\ written \in Seq(ContentType) /\ buf_payload \in PayloadType
      /\ PACKETS_MAP_SIZE \in Nat \ {0}
    BY SizeAssumption DEF TypeOK
  <1>1. CASE PollWait
    <2> USE <1>1 DEF PollWait, xdpVars
    <2>1. ~global_exit => Waiting > 0 /\ Waiting' = Waiting
      <3>1. Dist(next_map_idx) = 0
        BY DEF Dist, Slots
      <3> QED
        BY <3>1 DEF IInv, SlotInv, Slot, IndexInv, Waiting
    <2>2. ~global_exit => IndexInv(c)'
      BY <2>1 DEF IInv, IndexInv, SlotAt, TailSlot
    <2>3. ~global_exit => SlotInv'
      BY DEF IInv, SlotInv, Dist, Waiting
    <2>4. ~global_exit => XdpInv(c)' /\ UserInv'
      BY DEF IInv, XdpInv, UserInv
    <2> QED
      BY <2>2, <2>3, <2>4 DEF IInv
  <1>2. CASE PollCopyHead
    <2> USE <1>2 DEF PollCopyHead, xdpVars
    <2>1. ~global_exit => IndexInv(c)'
      BY DEF IInv, IndexInv, SlotAt, TailSlot, Waiting, Reading
    <2>2. ~global_exit => SlotInv'
      BY DEF IInv, SlotInv, Dist, Waiting
    <2>3. ~global_exit => last_payload[next_map_idx].id = committed[taken + 1].id
      <3>1. Dist(next_map_idx) = 0
        BY DEF Dist, Slots
      <3> QED
        BY <3>1 DEF IInv, SlotInv, IndexInv, Reading
    <2>4. ~global_exit => XdpInv(c)' /\ UserInv'
      BY <2>3, PollCopyEffect DEF IInv, XdpInv, UserInv
    <2> QED
      BY <2>1, <2>2, <2>4 DEF IInv
  <1>3. CASE PollCopyTail
    <2> USE <1>3 DEF PollCopyTail, xdpVars
    <2>1. ~global_exit => IndexInv(c)'
      BY DEF IInv, IndexInv, SlotAt, TailSlot, Waiting, Reading
    <2>2. ~global_exit => SlotInv'
      BY DEF IInv, SlotInv, Dist, Waiting
    <2>3. ~global_exit => last_payload[next_map_idx].ts = committed[taken + 1].ts
      <3>1. Dist(next_map_idx) = 0
        BY DEF Dist, Slots
      <3> QED
        BY <3>1 DEF IInv, SlotInv, IndexInv, Reading
    <2>4. ~global_exit => XdpInv(c)' /\ UserInv'
      BY <2>3, PollCopyEffect DEF IInv, XdpInv, UserInv
    <2> QED
      BY <2>1, <2>2, <2>4 DEF IInv
  <1>4. CASE PollClearHead
    <2> USE <1>4 DEF PollClearHead, xdpVars
    <2>1. ~global_exit => IndexInv(c)'
      BY DEF IInv, IndexInv, SlotAt, TailSlot, Waiting, Reading
    <2>2. ~global_exit => SlotInv'
      BY PollClearHeadEffect DEF IInv, SlotInv, Dist, Waiting, Updated, valid_pingpong_payload
    <2>3. ASSUME ~global_exit, xpc[c] \in Copying PROVE key[c] # next_map_idx
      <3>1. Waiting \in Slots /\ Waiting > 0 /\ key[c] = SlotAt(Waiting)
        BY <2>3 DEF IInv, IndexInv, TailSlot, Copying, Reading, Slots
      <3> QED
        BY <3>1 DEF SlotAt, Slots
    <2>4. ~global_exit => XdpInv(c)' /\ UserInv'
      BY <2>3, PollClearHeadEffect DEF IInv, XdpInv, UserInv, Updated, Copying
    <2> QED
      BY <2>1, <2>2, <2>4 DEF IInv
  <1>5. CASE PollClearTail
    <2> USE <1>5 DEF PollClearTail, xdpVars
    <2> DEFINE u == next_map_idx
    <2>1. /\ ~global_exit => taken' = taken + 1 /\ taken' <= Len(committed)
                              /\ Waiting > 0 /\ Waiting \in 0..PACKETS_MAP_SIZE
                              /\ Waiting' = Waiting - 1
          /\ global_exit => taken' = taken
      BY DEF IInv, IndexInv, Reading, Waiting
    <2>2. /\ u' \in Slots
          /\ u' = IF u = PACKETS_MAP_SIZE - 1 THEN 0 ELSE u + 1
      BY SuccSlot
    <2>3. ASSUME ~global_exit PROVE IndexInv(c)'
      <3>1. SlotAt(Waiting)' = SlotAt(Waiting)
        BY <2>1, <2>2, <2>3 DEF SlotAt, Slots
      <3>2. TailSlot(c)' = TailSlot(c)
        BY DEF TailSlot
      <3> QED
        BY <2>1, <2>3, <3>1, <3>2 DEF IInv, IndexInv, Reading, Copying
    <2>4. ASSUME ~global_exit PROVE SlotInv'
      <3> SUFFICES ASSUME NEW i \in Slots
                   PROVE  /\ valid_pingpong_payload(last_payload'[i]) <=> Dist(i)' < Waiting - 1
                          /\ Dist(i)' < Waiting - 1 =>
                              /\ last_payload'[i].ts = committed[taken + 1 + Dist(i)' + 1].ts
                              /\ last_payload'[i].id = committed[taken + 1 + Dist(i)' + 1].id
        BY <2>1, <2>4 DEF SlotInv, valid_pingpong_payload
      <3>1. CASE i = u
        <4>1. Dist(i)' = PACKETS_MAP_SIZE - 1
          BY <3>1, <2>2 DEF Dist, Slots
        <4>2. ~valid_pingpong_payload(last_payload'[i])
          BY <3>1, PollClearTailEffect DEF Updated, valid_pingpong_payload, PINGPONG_MAGIC
        <4> QED
          BY <4>1, <4>2, <2>1, <2>4
      <3>2. CASE i # u
        <4>1. Dist(i)' = Dist(i) - 1 /\ Dist(i) \in Int
          BY <3>2, <2>2 DEF Dist, Slots
        <4>2. last_payload'[i] = last_payload[i]
          BY <3>2, PollClearTailEffect DEF Updated
        <4>3. taken + 1 + (Dist(i) - 1) + 1 = taken + Dist(i) + 1
          BY <4>1
        <4> QED
          BY <3>2, <4>1, <4>2, <4>3, <2>1, <2>4 DEF IInv, SlotInv
      <3> QED
        BY <3>1, <3>2
    <2>5. ASSUME ~global_exit, xpc[c] \in Copying PROVE key[c] # u
      <3>1. Waiting \in Slots /\ Waiting > 0 /\ key[c] = SlotAt(Waiting)
        BY <2>5 DEF IInv, IndexInv, TailSlot, Copying, Reading, Slots
      <3> QED
        BY <3>1 DEF SlotAt, Slots
    <2>6. ~global_exit => XdpInv(c)'
      BY <2>5, PollClearTailEffect DEF IInv, XdpInv, Updated, Copying
    <2>7. ~global_exit => UserInv'
      <3> SUFFICES ASSUME ~global_exit PROVE Whole(buf_payload)
        BY DEF UserInv
      <3>1. taken + 1 \in DOMAIN committed
        BY <2>1
      <3> QED
        BY <3>1 DEF IInv, UserInv, Whole
    <2> QED
      BY <2>1, <2>3, <2>4, <2>6, <2>7 DEF IInv
  <1>6. CASE CheckPhase
    <2> USE <1>6 DEF CheckPhase, xdpVars, LoopTest
    <2>1. ~global_exit => IndexInv(c)'
      BY DEF IInv, IndexInv, SlotAt, TailSlot, Waiting, Reading
    <2>2. ~global_exit => SlotInv'
      BY DEF IInv, SlotInv, Dist, Waiting
    <2>3. ~global_exit => XdpInv(c)' /\ UserInv'
      BY DEF IInv, XdpInv, UserInv
    <2>4. upc' = "write" => Whole(buf_payload')
      BY DEF IInv, UserInv
    <2> QED
      BY <2>1, <2>2, <2>3, <2>4 DEF IInv
  <1>7. CASE Write \/ SendFails
    <2> USE <1>7 DEF Write, SendFails, xdpVars, LoopTest
    <2>1. ~global_exit => IndexInv(c)'
      BY DEF IInv, IndexInv, SlotAt, TailSlot, Waiting, Reading
    <2>2. ~global_exit => SlotInv'
      BY DEF IInv, SlotInv, Dist, Waiting
    <2>3. ~global_exit => XdpInv(c)' /\ UserInv'
      BY DEF IInv, XdpInv, UserInv
    <2>4. \A n \in DOMAIN written' : Whole(written'[n])
      <3>1. Content(buf_payload) \in ContentType /\ Whole(Content(buf_payload))
        BY PayloadFields DEF IInv, Whole
      <3>2. written' = written \/ written' = Append(written, Content(buf_payload))
        OBVIOUS
      <3>3. \A n \in DOMAIN written : Whole(written[n])
        BY DEF IInv
      <3> HIDE <1>7
      <3> QED
        BY <3>1, <3>2, <3>3
    <2> QED
      BY <2>1, <2>2, <2>3, <2>4 DEF IInv
  <1>8. CASE sigint_handler
    BY <1>8 DEF IInv, sigint_handler, xdpVars, userVars
  <1> QED
    BY <1>1, <1>2, <1>3, <1>4, <1>5, <1>6, <1>7, <1>8 DEF User

(* Stuttering keeps the invariant. *)
LEMMA IInvStutter ==
    ASSUME NEW c, IInv(c), UNCHANGED vars
    PROVE  IInv(c)'
  BY DEF IInv, IndexInv, SlotInv, XdpInv, UserInv, Waiting, TailSlot, SlotAt, Dist,
         Whole, vars, xdpVars, userVars

(* The inductive invariant holds in every behaviour with one CPU. *)
LEMMA IInvHolds ==
    ASSUME NEW c, Cpus = {c}
    PROVE  Spec => [](TypeOK /\ IInv(c))
  <1>1. Init => TypeOK /\ IInv(c)
    BY TypeInit, IInvInit
  <1>2. TypeOK /\ IInv(c) /\ [Next]_vars => (TypeOK /\ IInv(c))'
    BY TypeStep, IInvXdp, IInvUser, IInvStutter DEF Next
  <1> QED
    BY <1>1, <1>2, PTL DEF Spec

(* common.h:105 holds for every map size and any number of packets when    *)
(* one CPU runs the XDP program: what the user program handles was written *)
(* completely, with no interruption, loss or reordering of frames making   *)
(* a difference.                                                           *)
THEOREM PayloadIntegrity ==
    ASSUME NEW c, Cpus = {c}
    PROVE  Spec => []NoTornPayload
  <1>1. IInv(c) => NoTornPayload
    BY DEF IInv, NoTornPayload
  <1> QED
    BY <1>1, IInvHolds, PTL

(* With one CPU, add_packet_to_map drops a frame only when the map is      *)
(* really full (pingpong.c:70).                                            *)
THEOREM DropsOnlyWhenFull ==
    ASSUME NEW c, Cpus = {c}
    PROVE  Spec => []DropOnlyWhenFull
  <1>1. ASSUME TypeOK, IInv(c) PROVE DropOnlyWhenFull
    <2> SUFFICES ASSUME xpc[c] = "check", ~global_exit, NEW i \in Slots,
                        valid_pingpong_payload(last_payload[key[c]])
                 PROVE  valid_pingpong_payload(last_payload[i])
      BY DEF DropOnlyWhenFull
    <2>1. /\ IndexInv(c) /\ SlotInv /\ key[c] = SlotAt(Waiting)
          /\ key[c] \in Slots /\ next_map_idx \in Slots
      BY <1>1 DEF IInv, IndexInv, TailSlot, TypeOK
    <2>2. Waiting \in 0..PACKETS_MAP_SIZE /\ Dist(key[c]) < Waiting
      BY <2>1 DEF IndexInv, SlotInv
    <2>3. Waiting = PACKETS_MAP_SIZE
      <3>1. Waiting \in Slots => Dist(key[c]) = Waiting
        BY <2>1, Circle
      <3> QED
        BY <2>2, <3>1, SizeAssumption DEF Slots
    <2>4. Dist(i) < Waiting
      BY <2>1, <2>3, Circle, SizeAssumption DEF Slots
    <2> QED
      BY <2>1, <2>4 DEF SlotInv
  <1> QED
    BY <1>1, IInvHolds, PTL

(* With one CPU, a readable payload changes only when the user program     *)
(* clears the slot it polls (pingpong.c:33).                               *)
THEOREM NeverOverwritten ==
    ASSUME NEW c, Cpus = {c}
    PROVE  Spec => NoOverwrite
  <1> DEFINE A == \A i \in Slots :
                    (valid_pingpong_payload(last_payload[i])
                        /\ last_payload'[i] # last_payload[i] /\ ~global_exit)
                    => i = next_map_idx /\ upc \in {"clearHead", "clearTail"}
  <1>1. ASSUME TypeOK, IInv(c), [Next]_vars PROVE [A]_vars
    <2> SUFFICES ASSUME Next, NEW i \in Slots, ~global_exit,
                        valid_pingpong_payload(last_payload[i]),
                        last_payload'[i] # last_payload[i]
                 PROVE  i = next_map_idx /\ upc \in {"clearHead", "clearTail"}
      BY <1>1
    <2>1. CASE User \/ sigint_handler
      <3>1. CASE PollClearHead
        BY <3>1, <1>1, PollClearHeadEffect DEF PollClearHead, Updated
      <3>2. CASE PollClearTail
        BY <3>2, <1>1, PollClearTailEffect DEF PollClearTail, Updated
      <3> QED
        BY <2>1, <3>1, <3>2
        DEF User, PollWait, PollCopyHead, PollCopyTail, CheckPhase, Write, SendFails,
            sigint_handler
    <2>2. ASSUME xpc[c] \in Copying PROVE ~valid_pingpong_payload(last_payload[key[c]])
      <3>1. /\ IndexInv(c) /\ SlotInv /\ key[c] = SlotAt(Waiting)
            /\ key[c] \in Slots /\ next_map_idx \in Slots
        BY <2>2, <1>1 DEF IInv, IndexInv, TailSlot, TypeOK, Copying
      <3>2. Waiting \in Slots
        BY <2>2, <3>1, SizeAssumption DEF IndexInv, Slots
      <3>3. Dist(key[c]) = Waiting /\ Waiting \in Int
        BY <3>1, <3>2, Circle DEF Slots
      <3> QED
        BY <3>1, <3>3 DEF SlotInv
    <2>3. CASE Xdp(c)
      <3>1. c \in Cpus
        OBVIOUS
      <3>2. CASE CopyHead(c)
        BY <3>1, <3>2, <2>2, <1>1, CopyHeadEffect DEF CopyHead, Updated, Copying
      <3>3. CASE CopyTail(c)
        BY <3>1, <3>3, <2>2, <1>1, CopyTailEffect DEF CopyTail, Updated, Copying
      <3>4. CASE Commit(c)
        BY <3>1, <3>4, <2>2, <1>1, CommitEffect DEF Commit, Updated, Copying
      <3> QED
        BY <2>3, <3>2, <3>3, <3>4 DEF Xdp, Reserve, CheckSlot, ResetIndex
    <2> QED
      BY <2>1, <2>3 DEF Next
  <1> QED
    BY <1>1, IInvHolds, PTL DEF Spec, NoOverwrite

-----------------------------------------------------------------------------
(* Every step of PollMap with one CPU is a step of the queue or leaves the *)
(* queue as it is.                                                         *)
LEMMA QueueStep ==
    ASSUME NEW c, Cpus = {c}, TypeOK, IInv(c), [Next]_vars
    PROVE  [PQ!Next]_(PQ!vars)
  <1> USE DEF PQ!vars, PQ!Next
  <1> /\ buf_payload \in PayloadType /\ taken \in Nat /\ committed \in Seq(ContentType)
      /\ c \in Cpus /\ PACKETS_MAP_SIZE \in Nat /\ global_exit \in BOOLEAN
    BY SizeAssumption DEF TypeOK
  <1>0. Whole(buf_payload) => Content(buf_payload) # NoContent
    BY PayloadFields, ZeroedType DEF Whole, NoContent, Content, Zeroed
  <1>1. CASE Xdp(c)
    <2>1. Hand' = Hand /\ UNCHANGED <<taken, written, global_exit>>
      BY <1>1 DEF Xdp, Reserve, CheckSlot, ResetIndex, CopyHead, CopyTail, Commit,
                  userVars, Hand
    <2>2. CASE Commit(c) /\ ~global_exit
      <3> DEFINE p == Content(last_payload[key[c]])
      <3>1. last_payload[key[c]] \in PayloadType
        BY DEF TypeOK
      <3>2. /\ last_payload[key[c]].id = last_payload[key[c]].ts
            /\ last_payload[key[c]].id # 0
        BY <2>2 DEF Commit, IInv, XdpInv, Whole, Copying
      <3>3. /\ p = [id |-> last_payload[key[c]].id, ts |-> last_payload[key[c]].id]
            /\ last_payload[key[c]].id \in 1..Iters
        <4>1. last_payload[key[c]].id \in 0..Iters
          BY <3>1, PayloadFields
        <4>2. last_payload[key[c]].id \in 1..Iters
          BY <4>1, <3>2, ItersAssumption
        <4> QED
          BY <4>2, <3>2 DEF Content
      <3>4. Len(committed) - taken < PACKETS_MAP_SIZE
        BY <2>2 DEF Commit, IInv, IndexInv, Waiting, Copying
      <3>5. PQ!Put
        BY <2>1, <2>2, <3>3, <3>4 DEF PQ!Put, Commit
      <3> QED
        BY <3>5
    <2>3. CASE ~(Commit(c) /\ ~global_exit)
      <3>1. committed' = committed
        BY <1>1, <2>3 DEF Xdp, Reserve, CheckSlot, ResetIndex, CopyHead, CopyTail, Commit
      <3> QED
        BY <2>1, <3>1
    <2> QED
      BY <2>2, <2>3
  <1>2. CASE PollWait \/ PollCopyHead \/ PollCopyTail \/ PollClearHead
    <2>1. Hand' = Hand /\ UNCHANGED <<committed, taken, written, global_exit>>
      BY <1>2 DEF PollWait, PollCopyHead, PollCopyTail, PollClearHead, Hand
    <2> QED
      BY <2>1
  <1>3. CASE PollClearTail
    <2> USE <1>3 DEF PollClearTail
    <2>1. UNCHANGED <<committed, written, global_exit>> /\ Hand = NoContent
      BY DEF Hand
    <2>2. CASE global_exit
      BY <2>1, <2>2 DEF Hand
    <2>3. CASE ~global_exit
      <3>1. taken < Len(committed)
        BY <2>3 DEF IInv, IndexInv, Waiting, Reading
      <3>2. /\ buf_payload.id = committed[taken + 1].id
            /\ buf_payload.ts = committed[taken + 1].ts
        BY <2>3 DEF IInv, UserInv
      <3>3. committed[taken + 1] \in ContentType
        BY <3>1
      <3>4. Hand' = committed[taken + 1]
        BY <2>3, <3>2, <3>3 DEF Hand, Content, ContentType
      <3>5. PQ!Get
        BY <2>1, <2>3, <3>1, <3>4 DEF PQ!Get
      <3> QED
        BY <3>5
    <2> QED
      BY <2>2, <2>3
  <1>4. CASE CheckPhase
    <2>1. UNCHANGED <<committed, taken, written, global_exit, buf_payload>>
      BY <1>4 DEF CheckPhase
    <2>2. Hand' = Hand \/ (Hand # NoContent /\ Hand' = NoContent)
      BY <1>4, <1>0, <2>1 DEF CheckPhase, Hand, LoopTest, IInv, UserInv
    <2> QED
      BY <2>1, <2>2 DEF PQ!Discard
  <1>5. CASE Write \/ SendFails
    <2>1. /\ Hand = Content(buf_payload) /\ Hand # NoContent /\ Hand' = NoContent
          /\ UNCHANGED <<committed, taken, global_exit>>
          /\ written' = written \/ written' = Append(written, Hand)
      BY <1>5, <1>0 DEF Write, SendFails, Hand, LoopTest, IInv
    <2> QED
      BY <2>1 DEF PQ!Deliver, PQ!Discard
  <1>6. CASE sigint_handler
    BY <1>6 DEF sigint_handler, userVars, PQ!Close, Hand
  <1>7. CASE UNCHANGED vars
    BY <1>7 DEF vars, userVars, Hand
  <1> QED
    BY <1>1, <1>2, <1>3, <1>4, <1>5, <1>6, <1>7 DEF Next, User

(* With one CPU the eBPF map and the polling loop implement the bounded    *)
(* queue of whole payloads, for every map size: what add_packet_to_map     *)
(* commits comes out of poll_next_payload once, unaltered and in order.    *)
THEOREM MapImplementsQueue ==
    ASSUME NEW c, Cpus = {c}
    PROVE  Spec => ImplementsQueue
  <1>1. Init => PQ!Init
    BY DEF Init, PQ!Init, Hand
  <1>2. TypeOK /\ IInv(c) /\ [Next]_vars => [PQ!Next]_(PQ!vars)
    BY QueueStep
  <1> QED
    BY <1>1, <1>2, IInvHolds, PTL DEF Spec, ImplementsQueue, PQ!Spec
=============================================================================
