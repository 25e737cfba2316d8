--------------------------- MODULE MCContextRepair ---------------------------
(* Small instances of ContextRepair for TLC.                               *)
EXTENDS ContextRepair, TLC

CONSTANTS p1, p2, o1, o2

\* Both requests select both spans.
BothSelectAll == [o \in Op |-> Span]

\* The second request selects the second span only.
SecondSelectsLess == [o \in Op |-> IF o = o2 THEN {2} ELSE Span]

\* Version 1 only moved text about; version 2 also rewrote what span 2 anchors.
SomeRelocated == [v \in 0..MaxSrc |-> IF v = 2 THEN Span \ {2} ELSE Span]

ProcSymmetry == Permutations(Proc)
=============================================================================
