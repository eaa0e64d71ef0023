-------------------------------- MODULE Feed --------------------------------
(***************************************************************************)
(* What the chat panel promises about an agent's timeline, whatever pages, *)
(* retries and changes of the selected agent it takes: rows are only added *)
(* at the end, and what the panel shows is a stretch of them without a     *)
(* hole that only grows.                                                   *)
(***************************************************************************)
EXTENDS Integers

VARIABLES
  rows,    \* positions of the rows of the agent that is shown
  shown,   \* positions of the rows on the screen
  selection  \* how often another agent was selected

\* No row between two that are shown is missing.
Unbroken(s, r) == \A x, y \in s : \A z \in r : x <= z /\ z <= y => z \in s

Init == rows = {} /\ shown = {} /\ selection = 0

\* Rows are added behind all others.
Append ==
  /\ rows \subseteq rows' /\ \A new \in rows' \ rows : \A old \in rows : old < new
  /\ UNCHANGED <<shown, selection>>

\* More rows appear on the screen.
Show ==
  /\ shown \subseteq shown' /\ shown' \subseteq rows /\ Unbroken(shown', rows)
  /\ UNCHANGED <<rows, selection>>

\* Another agent is selected.
Select == selection' = selection + 1 /\ shown' = {} /\ rows' \subseteq Nat

Next == Append \/ Show \/ Select

Spec == Init /\ [][Next]_<<rows, shown, selection>>
=============================================================================
