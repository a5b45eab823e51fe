--------------------------- MODULE MCOutputPlane ----------------------------
(* Instances of OutputPlane for TLC.                                       *)
EXTENDS OutputPlane

\* Viewers are interchangeable; used only where no liveness is checked.
Symmetry == Permutations(Viewers)
=============================================================================
