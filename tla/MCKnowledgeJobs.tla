---------------------------- MODULE MCKnowledgeJobs ----------------------------
(***************************************************************************)
(* Instances of KnowledgeJobs: two jobs that ingest one source, each a     *)
(* version of its own or both the same.  The jobs of different versions    *)
(* may change places, with their versions.                                 *)
(***************************************************************************)
EXTENDS KnowledgeJobs, TLC

CONSTANTS notes, v1, v2, j1, j2

MCRequest == {j1, j2} \X (1..MaxEpoch)
MCSourceOf == [r \in MCRequest |-> notes]
MCVersionOf == [r \in MCRequest |-> IF r[1] = j1 THEN v1 ELSE v2]
MCSameVersion == [r \in MCRequest |-> v1]
MCSymmetry ==
    {f \in Permutations({j1, j2, v1, v2}) :
        {f[j1], f[j2]} = {j1, j2} /\ (f[j1] = j1 <=> f[v1] = v1)}
=============================================================================
