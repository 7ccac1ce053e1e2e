--------------------------- MODULE MCSessionStart ---------------------------
(* Instances of SessionStart for TLC; all constants are numbers given in the .cfg files. *)
EXTENDS SessionStart
=============================================================================
