---------------------------- MODULE PayloadQueue ----------------------------
(***************************************************************************)
(* What the eBPF map of pp_poll promises to the program that polls it: a   *)
(* bounded first-in first-out queue of whole payloads between the network  *)
(* side and one consumer.  The queue is the part of log after the first    *)
(* taken entries.  A payload that finds the queue full is dropped by its   *)
(* producer (it is never put); the consumer holds at most one payload      *)
(* taken from the queue and either delivers it, once, or discards it; when *)
(* the consumer is interrupted nothing more is put or taken.               *)
(***************************************************************************)
EXTENDS Naturals, Sequences

CONSTANTS Capacity,  \* number of payloads the queue holds
          Payload,   \* the whole payloads a producer may put
          NoPayload  \* the empty hand of the consumer

VARIABLES log,     \* every payload ever put, oldest first
          taken,   \* how many of them the consumer has taken
          hand,    \* the payload the consumer holds
          out,     \* every payload delivered, in order
          closed   \* the consumer was interrupted

vars == <<log, taken, hand, out, closed>>

Init ==
    /\ log = <<>>
    /\ taken = 0
    /\ hand = NoPayload
    /\ out = <<>>
    /\ closed = FALSE

Put ==
    /\ ~closed
    /\ Len(log) - taken < Capacity
    /\ \E p \in Payload : log' = Append(log, p)
    /\ UNCHANGED <<taken, hand, out, closed>>

Get ==
    /\ ~closed
    /\ taken < Len(log)
    /\ hand = NoPayload
    /\ hand' = log[taken + 1]
    /\ taken' = taken + 1
    /\ UNCHANGED <<log, out, closed>>

Deliver ==
    /\ hand # NoPayload
    /\ out' = Append(out, hand)
    /\ hand' = NoPayload
    /\ UNCHANGED <<log, taken, closed>>

Discard ==
    /\ hand # NoPayload
    /\ hand' = NoPayload
    /\ UNCHANGED <<log, taken, out, closed>>

(* An interruption may also abandon the payload in hand. *)
Close ==
    /\ ~closed
    /\ closed' = TRUE
    /\ hand' \in {hand, NoPayload}
    /\ UNCHANGED <<log, taken, out>>

Next == Put \/ Get \/ Deliver \/ Discard \/ Close

Spec == Init /\ [][Next]_vars
=============================================================================
