---------------------------- MODULE MCControlPlane ----------------------------
(***************************************************************************)
(* Three requests of a principal whose bucket holds one, other processes   *)
(* on the catalog, one crash or failing write.                             *)
(***************************************************************************)
EXTENDS ControlPlane, TLC

Symmetry == Permutations(Request)
=============================================================================
