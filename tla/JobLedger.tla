------------------------------ MODULE JobLedger ------------------------------
(***************************************************************************)
(* What the ingestion job service promises a client that watches its jobs: *)
(* a job that was accepted is pending until it is settled once, for good;  *)
(* it is settled as succeeded only after its content was stored.           *)
(* Cancelling settles a job but does not keep its content from being       *)
(* stored later.                                                           *)
(***************************************************************************)
CONSTANT Job

VARIABLES ledger,  \* "none", "pending", "succeeded", "failed" or "cancelled"
          stored   \* jobs whose content an ingest has stored

vars == <<ledger, stored>>

Init == /\ ledger = [j \in Job |-> "none"]
        /\ stored = {}

Submit(j) == /\ ledger[j] = "none"
             /\ ledger' = [ledger EXCEPT ![j] = "pending"]
             /\ UNCHANGED stored

Store(j) == /\ ledger[j] # "none"
            /\ stored' = stored \cup {j}
            /\ UNCHANGED ledger

Settle(j, outcome) == /\ ledger[j] = "pending"
                      /\ outcome = "succeeded" => j \in stored
                      /\ ledger' = [ledger EXCEPT ![j] = outcome]
                      /\ UNCHANGED stored

Next == \E j \in Job :
            \/ Submit(j)
            \/ Store(j)
            \/ \E outcome \in {"succeeded", "failed", "cancelled"} : Settle(j, outcome)

Spec == Init /\ [][Next]_vars
=============================================================================
