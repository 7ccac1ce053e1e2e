---------------------------- MODULE MCWebCreator ----------------------------
(***************************************************************************)
(* Instances of WebCreator for TLC: few pages with any random numbers;     *)
(* more sites than pages; enough pages for the pools to matter.            *)
(***************************************************************************)
EXTENDS WebCreator, TLC

MCArguments  == {<<2, 2>>, <<4, 2>>, <<2, 5>>}
MCRandomNums == <<2, 2>> :> 1 .. 4 @@ <<4, 2>> :> {1} @@ <<2, 5>> :> {1}
=============================================================================
