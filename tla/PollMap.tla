------------------------------ MODULE PollMap -------------------------------
(***************************************************************************)
(* The shared eBPF map of the pp_poll experiment: the XDP program          *)
(* (xdp/pingpong.c) writes each pingpong frame into the next slot of a     *)
(* circular array, and the user program (xdp/pp_poll.c) busy-polls the     *)
(* slots in the same order through an mmap of that array.  The two sides   *)
(* share nothing but the slots; the magic number of a slot is the only     *)
(* handshake between them.                                                 *)
(*                                                                         *)
(* A payload is copied and cleared by ordinary memory accesses, in         *)
(* ascending address order (the struct is packed and the build targets     *)
(* x86-64, where stores are seen in order).  The copy is modelled in two   *)
(* halves: the head is the id, the tail is the timestamps, the phase and   *)
(* the magic number.  ts stands for all the timestamps: a whole payload    *)
(* has the ts of its own id, so a payload put together from two packets    *)
(* shows.  The magic number is abstracted to two bits, of which only the   *)
(* lowest is used by the commit protocol.                                  *)
(***************************************************************************)
EXTENDS Integers, Sequences, FiniteSets

CONSTANTS PACKETS_MAP_SIZE,  \* slots of the map
          Cpus,              \* CPUs that may run the XDP program at one time
          Iters,             \* packets of the experiment; bounds the frames
          Phases,            \* phases of the frames that arrive, strays included
          Builds             \* values of the SERVER macro to consider

ASSUME SizeAssumption == PACKETS_MAP_SIZE \in Nat \ {0}
ASSUME ItersAssumption == Iters \in Nat \ {0}
ASSUME PhasesAssumption == Phases \subseteq 0..3
ASSUME BuildsAssumption == Builds \subseteq BOOLEAN

VARIABLES
    SERVER,        \* the build: TRUE is the server's program (never changes)
    wire,          \* ids of the frames that have not reached the XDP program
    last_payload,  \* the map: slot -> payload
    index,         \* lck[0].index, the next slot the XDP program uses
    xpc,           \* per CPU: next step of xdp_main
    key,           \* per CPU: the slot it reserved
    payload,       \* per CPU: the payload of the frame it handles
    upc,           \* next step of the user program's loop
    next_map_idx,  \* the slot the user program polls
    buf_payload,   \* the user program's copy
    current_id,    \* highest id handled
    global_exit,   \* set by the client's SIGINT handler
    written,       \* payloads persisted (client) or sent back (server)
    committed,     \* history: payloads committed to the map, in order
    taken          \* history: how many of them the user program has taken

xdpVars == <<index, xpc, key, payload>>
userVars == <<upc, next_map_idx, buf_payload, current_id, written>>
vars == <<SERVER, wire, last_payload, xdpVars, userVars, global_exit,
          committed, taken>>

Slots == 0..(PACKETS_MAP_SIZE - 1)

PINGPONG_MAGIC == 3
ClearBit0(m) == m - (m % 2)
SetBit0(m) == IF m % 2 = 0 THEN m + 1 ELSE m

valid_pingpong_payload(p) == p.magic = PINGPONG_MAGIC

Zeroed == [id |-> 0, ts |-> 0, phase |-> 0, magic |-> 0]

new_pingpong_payload(n, ph) ==
    [id |-> n, ts |-> n, phase |-> ph, magic |-> PINGPONG_MAGIC]

(* Mutant: the index is not wrapped. *)
SuccNoWrap(i) == i + 1

Succ(i) == (i + 1) % PACKETS_MAP_SIZE

(* What a reader of the payload gets, the commit protocol's magic aside. *)
Content(p) == [id |-> p.id, ts |-> p.ts]
NoContent == Content(Zeroed)

Init ==
    /\ SERVER \in Builds
    /\ wire = 1..Iters
    /\ last_payload = [i \in Slots |-> Zeroed]
    /\ index = 0
    /\ xpc = [c \in Cpus |-> "idle"]
    /\ key = [c \in Cpus |-> 0]
    /\ payload = [c \in Cpus |-> Zeroed]
    /\ upc = "poll"
    /\ next_map_idx = 0
    /\ buf_payload = Zeroed
    /\ current_id = 0
    /\ global_exit = FALSE
    /\ written = <<>>
    /\ committed = <<>>
    /\ taken = 0

-----------------------------------------------------------------------------
(* The XDP program.  Frames come in any order; a frame that stays on the   *)
(* wire was lost, or was passed on by xdp_main without touching the map.   *)

(* A pingpong frame arrives at c, which reserves a slot under the lock. *)
Reserve(c) ==
    /\ xpc[c] = "idle"
    /\ \E n \in wire, ph \in Phases :
          /\ wire' = wire \ {n}
          /\ payload' = [payload EXCEPT ![c] = new_pingpong_payload(n, ph)]
    /\ key' = [key EXCEPT ![c] = index]
    /\ index' = Succ(index)
    /\ xpc' = [xpc EXCEPT ![c] = "check"]
    /\ UNCHANGED <<SERVER, last_payload, userVars, global_exit, committed, taken>>

(* Mutant: the slot is used without looking at it. *)
CheckSlotBlind(c) ==
    /\ xpc[c] = "check"
    /\ xpc' = [xpc EXCEPT ![c] = "copyHead"]
    /\ payload' = [payload EXCEPT ![c].magic = ClearBit0(@)]
    /\ UNCHANGED <<SERVER, wire, last_payload, index, key, userVars, global_exit,
                   committed, taken>>

(* The slot is taken (the map is full), or the magic's low bit is cleared  *)
(* in the frame itself before the copy.                                    *)
CheckSlot(c) ==
    /\ xpc[c] = "check"
    /\ \/ /\ valid_pingpong_payload(last_payload[key[c]])
          /\ xpc' = [xpc EXCEPT ![c] = "full"]
          /\ UNCHANGED payload
       \/ /\ ~valid_pingpong_payload(last_payload[key[c]])
          /\ xpc' = [xpc EXCEPT ![c] = "copyHead"]
          /\ payload' = [payload EXCEPT ![c].magic = ClearBit0(@)]
    /\ UNCHANGED <<SERVER, wire, last_payload, index, key, userVars, global_exit,
                   committed, taken>>

(* Mutant: a dropped frame leaves the index past its slot. *)
ResetIndexForgotten(c) ==
    /\ xpc[c] = "full"
    /\ xpc' = [xpc EXCEPT ![c] = "idle"]
    /\ UNCHANGED <<SERVER, wire, last_payload, index, key, payload, userVars,
                   global_exit, committed, taken>>

(* The frame is dropped; under the lock, the next index is moved back. *)
ResetIndex(c) ==
    /\ xpc[c] = "full"
    /\ index' = key[c]
    /\ xpc' = [xpc EXCEPT ![c] = "idle"]
    /\ UNCHANGED <<SERVER, wire, last_payload, key, payload, userVars,
                   global_exit, committed, taken>>

(* Mutant: the magic is written with the id, before the rest. *)
CopyHeadCommits(c) ==
    /\ xpc[c] = "copyHead"
    /\ last_payload' = [last_payload EXCEPT ![key[c]].id = payload[c].id,
                                            ![key[c]].magic = PINGPONG_MAGIC]
    /\ xpc' = [xpc EXCEPT ![c] = "copyTail"]
    /\ UNCHANGED <<SERVER, wire, index, key, payload, userVars, global_exit,
                   committed, taken>>

CopyHead(c) ==
    /\ xpc[c] = "copyHead"
    /\ last_payload' = [last_payload EXCEPT ![key[c]].id = payload[c].id]
    /\ xpc' = [xpc EXCEPT ![c] = "copyTail"]
    /\ UNCHANGED <<SERVER, wire, index, key, payload, userVars, global_exit,
                   committed, taken>>

CopyTail(c) ==
    /\ xpc[c] = "copyTail"
    /\ last_payload' = [last_payload EXCEPT
            ![key[c]] = [payload[c] EXCEPT !.id = last_payload[key[c]].id]]
    /\ xpc' = [xpc EXCEPT ![c] = "commit"]
    /\ UNCHANGED <<SERVER, wire, index, key, payload, userVars, global_exit,
                   committed, taken>>

(* The low bit of the magic makes the slot readable. *)
Commit(c) ==
    /\ xpc[c] = "commit"
    /\ last_payload' = [last_payload EXCEPT ![key[c]].magic = SetBit0(@)]
    /\ committed' = IF global_exit THEN committed
                    ELSE Append(committed, Content(last_payload[key[c]]))
    /\ xpc' = [xpc EXCEPT ![c] = "idle"]
    /\ UNCHANGED <<SERVER, wire, index, key, payload, userVars, global_exit, taken>>

Xdp(c) == \/ Reserve(c) \/ CheckSlot(c) \/ ResetIndex(c)
          \/ CopyHead(c) \/ CopyTail(c) \/ Commit(c)

-----------------------------------------------------------------------------
(* The user program: poll_next_payload, then the body of the loop of       *)
(* start_client or start_server.                                           *)

Slot == last_payload[next_map_idx]

PollWait ==
    /\ upc = "poll"
    /\ valid_pingpong_payload(Slot) \/ global_exit
    /\ upc' = "copyHead"
    /\ UNCHANGED <<SERVER, wire, last_payload, xdpVars, next_map_idx,
                   buf_payload, current_id, written, global_exit, committed, taken>>

PollCopyHead ==
    /\ upc = "copyHead"
    /\ buf_payload' = [buf_payload EXCEPT !.id = Slot.id]
    /\ upc' = "copyTail"
    /\ UNCHANGED <<SERVER, wire, last_payload, xdpVars, next_map_idx,
                   current_id, written, global_exit, committed, taken>>

PollCopyTail ==
    /\ upc = "copyTail"
    /\ buf_payload' = [Slot EXCEPT !.id = buf_payload.id]
    /\ upc' = "clearHead"
    /\ UNCHANGED <<SERVER, wire, last_payload, xdpVars, next_map_idx,
                   current_id, written, global_exit, committed, taken>>

PollClearHead ==
    /\ upc = "clearHead"
    /\ last_payload' = [last_payload EXCEPT ![next_map_idx].id = 0]
    /\ upc' = "clearTail"
    /\ UNCHANGED <<SERVER, wire, xdpVars, next_map_idx, buf_payload,
                   current_id, written, global_exit, committed, taken>>

(* Mutant: the slot is not cleared, so its payload is read again. *)
PollClearTailSkipped ==
    /\ upc = "clearTail"
    /\ next_map_idx' = Succ(next_map_idx)
    /\ taken' = IF global_exit THEN taken ELSE taken + 1
    /\ upc' = "check"
    /\ UNCHANGED <<SERVER, wire, last_payload, xdpVars, buf_payload, current_id,
                   written, global_exit, committed>>

(* Clearing the magic hands the slot back to the XDP program. *)
PollClearTail ==
    /\ upc = "clearTail"
    /\ last_payload' = [last_payload EXCEPT
                            ![next_map_idx] = [Zeroed EXCEPT !.id = Slot.id]]
    /\ next_map_idx' = Succ(next_map_idx)
    /\ taken' = IF global_exit THEN taken ELSE taken + 1
    /\ upc' = "check"
    /\ UNCHANGED <<SERVER, wire, xdpVars, buf_payload, current_id, written,
                   global_exit, committed>>

(* The condition of the while loop. *)
LoopTest(id) == IF id < Iters /\ ~global_exit THEN "poll" ELSE "done"

(* The client leaves on SIGINT and skips a packet of a wrong phase; the    *)
(* server ends on a packet of a wrong phase.                               *)
CheckPhase ==
    /\ upc = "check"
    /\ upc' = IF SERVER
              THEN IF buf_payload.phase # 0 THEN "done" ELSE "write"
              ELSE IF global_exit THEN "done"
                   ELSE IF buf_payload.phase # 2 THEN LoopTest(current_id)
                        ELSE "write"
    /\ UNCHANGED <<SERVER, wire, last_payload, xdpVars, next_map_idx,
                   buf_payload, current_id, written, global_exit, committed, taken>>

(* The client stamps and persists the payload; the server sends it back. *)
Write ==
    /\ upc = "write"
    /\ written' = Append(written, Content(buf_payload))
    /\ current_id' = IF buf_payload.id > current_id THEN buf_payload.id
                                                    ELSE current_id
    /\ upc' = LoopTest(current_id')
    /\ UNCHANGED <<SERVER, wire, last_payload, xdpVars, next_map_idx,
                   buf_payload, global_exit, committed, taken>>

(* The server returns when sendto fails. *)
SendFails ==
    /\ upc = "write"
    /\ SERVER
    /\ upc' = "done"
    /\ current_id' = IF buf_payload.id > current_id THEN buf_payload.id
                                                    ELSE current_id
    /\ UNCHANGED <<SERVER, wire, last_payload, xdpVars, next_map_idx,
                   buf_payload, written, global_exit, committed, taken>>

sigint_handler ==
    /\ ~SERVER
    /\ ~global_exit
    /\ upc # "done"
    /\ global_exit' = TRUE
    /\ UNCHANGED <<SERVER, wire, last_payload, xdpVars, userVars, committed, taken>>

User == \/ PollWait \/ PollCopyHead \/ PollCopyTail \/ PollClearHead
        \/ PollClearTail \/ CheckPhase \/ Write \/ SendFails

Next == User \/ sigint_handler \/ \E c \in Cpus : Xdp(c)

(* The kernel finishes an XDP program it has started and keeps scheduling  *)
(* the user program; nothing makes a frame arrive.                         *)
Fairness ==
    /\ WF_vars(User)
    /\ \A c \in Cpus : WF_vars(xpc[c] # "idle" /\ Xdp(c))

Spec == Init /\ [][Next]_vars
FairSpec == Spec /\ Fairness
-----------------------------------------------------------------------------
(* Properties. *)

PayloadType == [id : 0..Iters, ts : 0..Iters, phase : 0..3, magic : 0..3]
ContentType == [id : 0..Iters, ts : 0..Iters]

(* Every variable keeps its type; in particular every index the two sides  *)
(* compute is a slot of the map.                                           *)
TypeOK ==
    /\ SERVER \in BOOLEAN
    /\ wire \subseteq 1..Iters
    /\ last_payload \in [Slots -> PayloadType]
    /\ index \in Slots
    /\ xpc \in [Cpus -> {"idle", "check", "full", "copyHead", "copyTail", "commit"}]
    /\ key \in [Cpus -> Slots]
    /\ payload \in [Cpus -> PayloadType]
    /\ upc \in {"poll", "copyHead", "copyTail", "clearHead", "clearTail",
                "check", "write", "done"}
    /\ next_map_idx \in Slots
    /\ buf_payload \in PayloadType
    /\ current_id \in 0..Iters
    /\ global_exit \in BOOLEAN
    /\ written \in Seq(ContentType)
    /\ committed \in Seq(ContentType)
    /\ taken \in Nat

Whole(p) == p.id # 0 /\ p.ts = p.id

(* The claim of common.h:105: a payload that the user program handles is   *)
(* one the XDP program wrote completely, never a mixture of two packets    *)
(* and never a slot that was cleared or half written.                      *)
NoTornPayload ==
    /\ upc = "write" => Whole(buf_payload)
    /\ \A n \in DOMAIN written : Whole(written[n])

(* add_packet_to_map drops a frame as "map is full" only when every slot   *)
(* holds a payload that the user program has not finished reading.         *)
DropOnlyWhenFull ==
    \A c \in Cpus :
        (xpc[c] = "check" /\ valid_pingpong_payload(last_payload[key[c]]) /\ ~global_exit)
            => \A i \in Slots : valid_pingpong_payload(last_payload[i])

(* The comment of pingpong.c:33: a payload the user program can read stays *)
(* as it is until the user program itself clears the slot it polls.        *)
NoOverwrite ==
    [][\A i \in Slots :
          (valid_pingpong_payload(last_payload[i]) /\ last_payload'[i] # last_payload[i]
              /\ ~global_exit)
          => i = next_map_idx /\ upc \in {"clearHead", "clearTail"}]_vars

(* The map and the polling loop implement the bounded queue: nothing the   *)
(* XDP program commits is lost, duplicated, reordered or altered before    *)
(* the user program handles it.                                            *)
Hand == IF upc = "write" \/ (upc = "check" /\ ~global_exit)
        THEN Content(buf_payload) ELSE NoContent

PQ == INSTANCE PayloadQueue WITH
        Capacity <- PACKETS_MAP_SIZE,
        Payload <- {[id |-> n, ts |-> n] : n \in 1..Iters},
        NoPayload <- NoContent,
        log <- committed, taken <- taken, hand <- Hand,
        out <- written, closed <- global_exit

(* Refinement of the abstract queue: the map of pingpong.c together with   *)
(* poll_next_payload behaves as PayloadQueue does.                         *)
ImplementsQueue == PQ!Spec

(* Every committed payload is taken by the polling loop, unless the loop   *)
(* has ended: the poller is never left waiting on a slot the XDP program   *)
(* has gone past.                                                          *)
Drained ==
    \A n \in 1..Iters :
        (Len(committed) >= n) ~> (taken >= n \/ upc = "done" \/ global_exit)
=============================================================================
