---------------------------- MODULE MCInputPlane ----------------------------
(* Instances of InputPlane for TLC.                                        *)
EXTENDS InputPlane, TLC

\* Clients are interchangeable; used only where no liveness is checked.
Symmetry == Permutations(Connections)
=============================================================================
