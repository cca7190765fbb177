------------------------- MODULE MCConversationMemory -------------------------
(***************************************************************************)
(* Instances of ConversationMemory.                                        *)
(***************************************************************************)
EXTENDS ConversationMemory

(* A policy under which turns are compacted, one whose limit is shorter    *)
(* than the mark of truncation, and one that preserves more messages than  *)
(* it allows, which validate() refuses.                                    *)
MCPolicies == {[messages |-> 2, recent |-> 1, chars |-> 4],
               [messages |-> 2, recent |-> 1, chars |-> 1],
               [messages |-> 1, recent |-> 2, chars |-> 4]}
=============================================================================
