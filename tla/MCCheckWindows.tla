--------------------------- MODULE MCCheckWindows ---------------------------
(* A day of four slots; zones east and west of UTC, and two west of it     *)
(* that change their clocks on the Sunday of the second week.              *)
EXTENDS CheckWindows

East == [before |-> 2, after |-> 2, at |-> 0]
FallBack == [before |-> -1, after |-> -2, at |-> 54]
SpringForward == [before |-> -2, after |-> -1, at |-> 54]

AllZones == {East, FallBack, SpringForward}
=============================================================================
