------------------------------ MODULE MCServer ------------------------------
(* A small instance of Server for TLC. *)
EXTENDS Server, TLC

CONSTANTS small, large      \* two pages, of 1 and 3 bytes

MCPages  == {small, large}
MCLength == small :> 1 @@ large :> 3
=============================================================================
