-------------------------- MODULE MCKnowledgeClient --------------------------
(***************************************************************************)
(* A thread that asks two queries, a cache of one entry, and a file that   *)
(* is written twice and may be removed.                                    *)
(***************************************************************************)
EXTENDS KnowledgeClient
=============================================================================
