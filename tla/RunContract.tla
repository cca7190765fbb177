----------------------------- MODULE RunContract -----------------------------
(***************************************************************************)
(* What a completion run promises its caller, whatever the shape of its    *)
(* tree: provider calls are capped; a run succeeds only when no call is    *)
(* open and no limit was ever hit, and a run that has succeeded stays so   *)
(* and makes no further call.  A run that failed may still have calls open *)
(* and even start some: the code does not cancel the other queries of a    *)
(* batch.  When a limit is hit and a worker dies before its step hears of  *)
(* it, the run is excused from all but the cap.                            *)
(***************************************************************************)
EXTENDS Integers

CONSTANTS Caller,   \* the tasks that can have a provider call open
          MaxCalls  \* the cap on provider calls

VARIABLES status,   \* "running", "ok" or "failed"
          calls,    \* provider calls started
          open,     \* the tasks whose call is open
          tripped,  \* a token, call or time limit was hit
          excused   \* the error of a limit was lost with a worker

vars == <<status, calls, open, tripped, excused>>

Init == /\ status = "running"
        /\ calls = 0
        /\ open = {}
        /\ tripped = FALSE
        /\ excused = FALSE

StartCall(c) == /\ status # "ok" \/ excused
                /\ c \notin open
                /\ calls < MaxCalls
                /\ calls' = calls + 1
                /\ open' = open \cup {c}
                /\ UNCHANGED <<status, tripped, excused>>

FinishCall(c) == /\ c \in open
                 /\ open' = open \ {c}
                 /\ tripped' \in {tripped, TRUE}
                 /\ UNCHANGED <<status, calls, excused>>

(* A call is refused, because the cap is met or the deadline has passed. *)
Trip == /\ status # "ok" \/ excused
        /\ tripped' = TRUE
        /\ UNCHANGED <<status, calls, open, excused>>

(* Only a limit that was hit can be lost, and not after a success. *)
Lose == /\ tripped
        /\ status # "ok" \/ excused
        /\ excused' = TRUE
        /\ UNCHANGED <<status, calls, open, tripped>>

Succeed == /\ status = "running"
           /\ (open = {} /\ ~tripped) \/ excused
           /\ status' = "ok"
           /\ UNCHANGED <<calls, open, tripped, excused>>

Fail == /\ status = "running"
        /\ status' = "failed"
        /\ UNCHANGED <<calls, open, tripped, excused>>

Next == \/ \E c \in Caller : StartCall(c) \/ FinishCall(c)
        \/ Trip \/ Lose \/ Succeed \/ Fail

Spec == Init /\ [][Next]_vars
=============================================================================
