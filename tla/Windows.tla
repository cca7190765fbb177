------------------------------- MODULE Windows -------------------------------
(***************************************************************************)
(* natural_windows of src/rlm_proxy/ingestion.py: how an oversized message *)
(* is cut into the windows that are preprocessed one by one.               *)
(*                                                                         *)
(* A message is the sequence of the lengths of its natural units           *)
(* (paragraphs, or the sentences of long ones).  A window is its length in *)
(* characters and the set of pieces <<unit, from, to>> it contains; the    *)
(* characters repeated from the window before and the separators of two    *)
(* characters between units only count in the length.                      *)
(***************************************************************************)
EXTENDS Integers, SequencesExt, FiniteSetsExt

CONSTANTS
    WindowChars,   \* IngestionOptions.window_chars
    OverlapChars   \* IngestionOptions.overlap_chars

ASSUME WindowAssumption ==
    /\ WindowChars \in Nat \ {0}
    /\ OverlapChars \in Nat
    /\ OverlapChars < WindowChars

Separator == 2
TextLength(text) == FoldLeft(LAMBDA n, u : n + u, 0, text)
                    + Separator * (Len(text) - 1)

Whole(u) == <<u.at, 0, u.len>>
Window(acc) == [len |-> acc.len, pieces |-> acc.pieces]
Flushed(acc) == IF acc.len > 0 THEN Append(acc.windows, Window(acc)) ELSE acc.windows

(* A unit longer than a window is cut into windows of its own, each        *)
(* starting OverlapChars before the end of the one before.                 *)
Stride == WindowChars - OverlapChars
SliceCount(u) == 1 + (u.len - WindowChars + Stride - 1) \div Stride
Slice(u, k) ==
    LET from == (k - 1) * Stride
        to == Min({from + WindowChars, u.len})
    IN [len |-> to - from, pieces |-> {<<u.at, from, to>>}]
Slices(u) == [k \in 1..SliceCount(u) |-> Slice(u, k)]

(* What is repeated of a completed window, with its separator. *)
Tail2(acc) == IF OverlapChars = 0 THEN 0 ELSE Min({OverlapChars, acc.len}) + Separator

(* One round of the loop over the units. *)
AddUnit(acc, u) ==
    IF u.len > WindowChars
    THEN [windows |-> Flushed(acc) \o Slices(u), pieces |-> {}, len |-> 0]
    ELSE IF acc.len > 0 /\ acc.len + Separator + u.len > WindowChars
    THEN [windows |-> Flushed(acc), pieces |-> {Whole(u)}, len |-> Tail2(acc) + u.len]
    ELSE [acc EXCEPT !.pieces = @ \cup {Whole(u)},
                     !.len = @ + u.len + (IF @ > 0 THEN Separator ELSE 0)]

(* The windows after each unit of the message, and what is collected.      *)
NoWindow == [windows |-> <<>>, pieces |-> {}, len |-> 0]
Unit(text, i) == [at |-> i, len |-> text[i]]
Rounds(text) ==
    LET acc[i \in 0..Len(text)] ==
            IF i = 0 THEN NoWindow ELSE AddUnit(acc[i - 1], Unit(text, i))
    IN acc
NaturalWindows(text) == Flushed(Rounds(text)[Len(text)])

-----------------------------------------------------------------------------
(* What a list of windows is for.                                          *)

Covered(windows, text) ==
    \A u \in 1..Len(text) : \A c \in 0..(text[u] - 1) :
        \E k \in 1..Len(windows) : \E p \in windows[k].pieces :
            p[1] = u /\ p[2] <= c /\ c < p[3]

(* The bound that the code guarantees; WindowChars alone is none.          *)
WindowBound == WindowChars + OverlapChars + Separator
Windowed == [len : 1..WindowBound, pieces : SUBSET (Nat \X Nat \X Nat)]
Bounded(windows) == \A k \in 1..Len(windows) : windows[k].len \in 1..WindowBound
=============================================================================
