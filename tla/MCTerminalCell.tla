--------------------------- MODULE MCTerminalCell ---------------------------
(* Instances of TerminalCell for TLC.                                      *)
EXTENDS TerminalCell
=============================================================================
