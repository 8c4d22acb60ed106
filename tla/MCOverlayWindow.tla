------------------------- MODULE MCOverlayWindow -------------------------
(***************************************************************************)
(* Two screens side by side at two physical pixels to a logical one, the   *)
(* second one lower than the window.  The sizes keep the order of those in *)
(* the default configuration; an approval's is a little lower.             *)
(***************************************************************************)
EXTENDS OverlayWindow

MCScreens == {[left |-> 0, right |-> 40, top |-> 0, bottom |-> 24],
              [left |-> 40, right |-> 80, top |-> 0, bottom |-> 10]}

\* Below, within and above what the panel may take.
MCHeights == {2, 5, 9}

\* Below, within and above what the box may be.
MCPassed == {2, 4, 7}

\* At each edge of either screen, and away from them.
MCSpots == {<<20, 1>>, <<4, 10>>, <<10, 21>>, <<56, 0>>, <<50, 5>>, <<60, 8>>}
=============================================================================
