-------------------------- MODULE MCCachedRenderer --------------------------
(* Small instances of CachedRenderer: two readings share a text, and one   *)
(* has a text that is wider than the dial's region.                        *)
EXTENDS CachedRenderer

CONSTANTS f1, f2, f3, f4

MCForces == {f1, f2, f3, f4}

MCMagnitude ==
  [f \in MCForces |->
     CASE f = f3 -> "high" [] f = f4 -> "extreme" [] OTHER -> "low"]

\* A track square of twelve columns and an arrow of three: at 3 and 8 the
\* arrow just fits, closer to the middle it is drawn by itself.
MCInnerXs == {3, 5, 6, 8}

\* With narrow padding the arrow reaches beyond the square.
MCEdgeXs == {5, 10}
=============================================================================
