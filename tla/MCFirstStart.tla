----------------------------- MODULE MCFirstStart -----------------------------
(***************************************************************************)
(* FirstStart for TLC.  With three targets one can be gone, one half gone  *)
(* and one untouched when a start is interrupted.                          *)
(***************************************************************************)
EXTENDS FirstStart, TLC

Interchangeable == Permutations(Targets)

=============================================================================
