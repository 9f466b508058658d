---------------------------- MODULE MCChangeContract ----------------------------
(***************************************************************************)
(* ChangeContract for TLC.  Home Assistant changes twice and only the      *)
(* picture between the two meets the contract, so that a refresh can read  *)
(* too early, in time, too late, and on both sides of a change.            *)
(***************************************************************************)
EXTENDS ChangeContract, TLC

CONSTANT c1
OnlyFirstState == [c \in {c1} |-> {[registries |-> 1, automations |-> 1]}]
Interchangeable == Permutations(Workers)

=============================================================================
