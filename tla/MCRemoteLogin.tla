----------------------------- MODULE MCRemoteLogin -----------------------------
(***************************************************************************)
(* RemoteLogin for TLC.  Two terminals compete for the lock, and one of    *)
(* them can try once more after it was told the other was there.           *)
(***************************************************************************)
EXTENDS RemoteLogin, TLC

Interchangeable == Permutations(Logins)

=============================================================================
