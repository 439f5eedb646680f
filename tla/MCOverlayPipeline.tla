------------------------- MODULE MCOverlayPipeline -------------------------
(***************************************************************************)
(* Small instances of OverlayPipeline.  The explored points 0, 0, 1, 3, 5  *)
(* and 8 make the second frame explore nothing, the third only the first   *)
(* point, which paints nothing, and the later ones two or three each, so   *)
(* that snapshots are both shared and renewed.                             *)
(***************************************************************************)
EXTENDS OverlayPipeline

MCExploredPoints == [f \in Frames |-> (f * f) \div 3]
=============================================================================
