--------------------------- MODULE MCCellLifecycle ---------------------------
(* An instance of CellLifecycle for TLC.                                   *)
EXTENDS CellLifecycle
=============================================================================
