----------------------------- MODULE MCChatProxy -----------------------------
(***************************************************************************)
(* Two requests, two slots of which one has a single workstream, and       *)
(* messages that are cut in every way natural_windows knows.               *)
(***************************************************************************)
EXTENDS ChatProxy, TLC

CONSTANTS r1, r2, work, home, s1, s2

(* Short; a long unit between short ones and paragraphs that overlap; too  *)
(* many windows.                                                           *)
MCText == {<<1>>, <<1, 7, 2, 3>>, <<3, 3, 3, 3, 3, 3>>}
MCCatalogSlots == {<<>>, (work :> {s1, s2}) @@ (home :> {s1})}
=============================================================================
