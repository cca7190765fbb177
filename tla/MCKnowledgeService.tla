-------------------------- MODULE MCKnowledgeService --------------------------
(***************************************************************************)
(* Instances of KnowledgeService: three ingests of one source, two of them *)
(* with the same text, and one of another source.                          *)
(***************************************************************************)
EXTENDS KnowledgeService, TLC

CONSTANTS notes, report, v1, v2, r1, r2, r3, r4, q1

MCSourceOf == (r1 :> notes) @@ (r2 :> notes) @@ (r3 :> notes) @@ (r4 :> report)
MCVersionOf == (r1 :> v1) @@ (r2 :> v2) @@ (r3 :> v1) @@ (r4 :> v1)
=============================================================================
