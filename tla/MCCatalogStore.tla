---------------------------- MODULE MCCatalogStore ----------------------------
(***************************************************************************)
(* Instances of CatalogStore.  Two threads that share one process share    *)
(* its lock; two that do not are, for example, the proxy and the control   *)
(* plane on one catalog file.                                              *)
(***************************************************************************)
EXTENDS CatalogStore, TLC

CONSTANTS t1, t2, p1, p2, deployment, research

MCThread == {t1, t2}
OneProcess == [t \in MCThread |-> p1]
TwoProcesses == (t1 :> p1) @@ (t2 :> p2)

(* A replacement by nothing, and by two workstreams of which one has a turn. *)
MCReplacements == {NoWorkstreams, (deployment :> {0}) @@ (research :> {})}
=============================================================================
