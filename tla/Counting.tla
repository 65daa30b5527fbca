------------------------------ MODULE Counting ------------------------------
(***************************************************************************)
(* How often things occur in a queue.                                      *)
(***************************************************************************)
EXTENDS Integers, Sequences, FiniteSets

(* Positions of sequence s that hold a member of S. *)
Positions(s, S) == {n \in DOMAIN s : s[n] \in S}

Count(s, S) == Cardinality(Positions(s, S))

(* What x adds to a count. *)
Hit(x, S) == IF x \in S THEN 1 ELSE 0
=============================================================================
