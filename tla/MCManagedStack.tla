--------------------------- MODULE MCManagedStack ---------------------------
(***************************************************************************)
(* The control screen with one button that starts and two that stop, and   *)
(* rlm-cowork.                                                             *)
(***************************************************************************)
EXTENDS ManagedStack, TLC

CONSTANTS h1, h2, h3

Screen(starts) ==
    (h1 :> {starts}) @@ (h2 :> {"stop_stack"}) @@ (h3 :> {"stop_proxy"})
MCPrograms ==
    {Screen("start_stack"), Screen("start_proxy"),
     (h1 :> {"cowork"}) @@ (h2 :> {}) @@ (h3 :> {})}
=============================================================================
