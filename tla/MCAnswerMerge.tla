--------------------------- MODULE MCAnswerMerge ---------------------------
(* An instance of AnswerMerge for TLC. *)
EXTENDS AnswerMerge

MCFiles == {1, 2, 3}
=============================================================================
