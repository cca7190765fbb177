--------------------------- MODULE CatalogRegister ---------------------------
(***************************************************************************)
(* What the catalog promises its clients: a versioned register.  Every     *)
(* request is answered as if it ran alone at one moment.  A request that   *)
(* names a version is applied to exactly that version or answered with a   *)
(* conflict, every mutation takes the next version, and every answer       *)
(* carries the catalog that its version names.                             *)
(***************************************************************************)
EXTENDS Integers

CONSTANTS Client,       \* who can have a request outstanding
          Request,      \* records with the fields kind and expected
          NoRequest,
          NoVersion,    \* the expected version of a request that names none
          Catalog       \* the catalogs there are

VARIABLES version, catalog,
          pending,      \* the request a client waits for, or NoRequest
          answer        \* the last answer of each client

vars == <<version, catalog, pending, answer>>

Init == /\ version = 0
        /\ catalog \in Catalog
        /\ pending = [c \in Client |-> NoRequest]
        /\ answer = [c \in Client |-> <<"none">>]

Ask(c) ==
    /\ pending[c] = NoRequest
    /\ \E r \in Request : pending' = [pending EXCEPT ![c] = r]
    /\ answer' = [answer EXCEPT ![c] = <<"none">>]
    /\ UNCHANGED <<version, catalog>>

Matches(c) == pending[c].expected \in {NoVersion, version}

Reply(c, a) == /\ pending' = [pending EXCEPT ![c] = NoRequest]
               /\ answer' = [answer EXCEPT ![c] = a]

Mutate(c) == /\ pending[c] # NoRequest
             /\ pending[c].kind # "snapshot"
             /\ Matches(c)
             /\ catalog' \in Catalog
             /\ version' = version + 1
             /\ Reply(c, <<"ok", version', catalog'>>)

Read(c) == /\ pending[c] # NoRequest
           /\ pending[c].kind = "snapshot"
           /\ Reply(c, <<"ok", version, catalog>>)
           /\ UNCHANGED <<version, catalog>>

Conflict(c) == /\ pending[c] # NoRequest
               /\ ~Matches(c)
               /\ Reply(c, <<"conflict">>)
               /\ UNCHANGED <<version, catalog>>

(* The workstream is unknown or the database failed: nothing is changed. *)
Refuse(c) == /\ pending[c] # NoRequest
             /\ \E a \in {"unknown", "error"} : Reply(c, <<a>>)
             /\ UNCHANGED <<version, catalog>>

(* The clients of a process that ends lose their requests and answers. *)
Lose(C) == /\ pending' = [c \in Client |-> IF c \in C THEN NoRequest ELSE pending[c]]
           /\ answer' = [c \in Client |-> IF c \in C THEN <<"none">> ELSE answer[c]]
           /\ UNCHANGED <<version, catalog>>

Next == \/ \E c \in Client : Ask(c) \/ Mutate(c) \/ Read(c) \/ Conflict(c) \/ Refuse(c)
        \/ \E C \in SUBSET Client : Lose(C)

Spec == Init /\ [][Next]_vars
=============================================================================
