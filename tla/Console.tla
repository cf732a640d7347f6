------------------------------- MODULE Console -------------------------------
(***************************************************************************)
(* What callers of debug_printf rely on: every text they ask for appears   *)
(* on the serial line, whole, unchanged, and in the order of the calls.    *)
(***************************************************************************)
EXTENDS Naturals, Sequences

CONSTANT Texts       \* the texts callers ask for

VARIABLES
  asked,             \* everything asked for, one text after the other
  shown              \* what has left the serial port

vars == <<asked, shown>>

Init == asked = <<>> /\ shown = <<>>

Ask == /\ \E text \in Texts : asked' = asked \o text
       /\ UNCHANGED shown

(* The text leaves one character at a time, in the caller's time or later. *)
Show == /\ Len(shown) < Len(asked)
        /\ shown' = Append(shown, asked[Len(shown) + 1])
        /\ UNCHANGED asked

Next == Ask \/ Show

Spec == Init /\ [][Next]_vars /\ WF_vars(Show)

==============================================================================
