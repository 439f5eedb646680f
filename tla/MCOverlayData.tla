--------------------------- MODULE MCOverlayData ---------------------------
(* A drive over the 180th meridian, on a grid of six places of which those *)
(* next to each other are plausible neighbours within a tick, those at its *)
(* ends within two.                                                        *)
EXTENDS OverlayData

MCTimes == 0 .. 4
MCPlaces == [longitude : {168, 180, -168}, latitude : {0, 12}]
MCRanges ==
  {WholeTrack, [start |-> 1, end |-> 3], [start |-> 3, end |-> 4]}
=============================================================================
