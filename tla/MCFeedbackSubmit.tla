--------------------------- MODULE MCFeedbackSubmit ---------------------------
(***************************************************************************)
(* FeedbackSubmit for TLC.  Two invocations and two tokens are enough for  *)
(* a submission that begins with a token shown while another, that has     *)
(* consumed its own, has not yet acquired the claim.                       *)
(***************************************************************************)
EXTENDS FeedbackSubmit, TLC

Interchangeable == Permutations(Invocations) \cup Permutations(Tokens)

=============================================================================
