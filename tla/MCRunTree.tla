----------------------------- MODULE MCRunTree -----------------------------
(***************************************************************************)
(* Model-checking instances of RunTree.  The .cfg files give the limits;   *)
(* the sets are here.                                                      *)
(***************************************************************************)
EXTENDS RunTree

(* A cheap and an expensive response: with a limit of a few units both an  *)
(* exact fit and an overshoot happen.                                      *)
MCResponseTokens == {1, 2}
=============================================================================
