--------------------------- MODULE MCBrowserIdentity ---------------------------
(* The instance of BrowserIdentity for TLC.  A failed run may leave a login *)
(* and a token behind, so there is one more of each than failures.          *)
EXTENDS BrowserIdentity
=============================================================================
