------------------------------ MODULE MCInstall ------------------------------
(* An instance of Install: a gap after the MBR that is one sector too short *)
(* for the Stage 1.5 or just long enough, a file system that leaves room or *)
(* not, and a Stage 2 in one, two or too many pieces.                       *)
EXTENDS Install

MCLayouts == {<<1, 2, 3, 4>>, <<3, 4, 1, 2>>, <<1, 3, 4, 6>>, <<1, 3, 5, 7>>}
=============================================================================
