----------------------------- MODULE MCCatalogSync -----------------------------
(***************************************************************************)
(* CatalogSync for TLC.  Three processes can have a slow, a failing and a  *)
(* newer refresh at once; with Retention = 1 every refresh that ends prunes*)
(* what the one before it left.                                            *)
(***************************************************************************)
EXTENDS CatalogSync, TLC

Interchangeable == Permutations(Workers)

=============================================================================
