---------------------------- MODULE MCWordIndex ----------------------------
(* Instances of WordIndex for TLC. *)
EXTENDS WordIndex

Letters == {97, 98}
Plain   == UNION {[1 .. n -> Letters] : n \in 1 .. 2}
(* "<a", "b>" and "<a>" *)
Tags    == {<<60, 97>>, <<98, 62>>, <<60, 97, 62>>}

MCQueries == Plain \union {<<97, 97, 98>>, <<99>>}

File(d, i, p, ls) == [id |-> <<d, i>>, path |-> p, lines |-> ls]

(* one file: a line of up to three words, tags among them, and a line more *)
OneLine  == {<<File(0, 0, 1, <<ws, <<<<97, 98>>>>>>)>> : ws \in UNION {[1 .. n -> Plain \union Tags] : n \in 0 .. 3}}

(***************************************************************************)
(* Two files of up to two lines, in one directory or two, the first of     *)
(* which may come second in strcmp().                                      *)
(***************************************************************************)
Few      == {<<>>, <<<<97>>>>, <<<<98, 97>>, <<97>>>>, <<<<97>>, <<97>>>>, <<<<98>>, <<60, 97>>>>}
Contents == UNION {[1 .. n -> Few] : n \in 0 .. 2}
TwoFiles == {<<File(0, 0, p[1], c), File(i, 1 - i, p[2], d)>> :
               i \in {0, 1}, p \in {<<1, 2>>, <<2, 1>>}, c \in Contents, d \in Contents}

(* words glued to tags, as in "<p>ab" *)
GluedWords == {<<97>>, <<60, 98, 62, 97>>, <<60, 97>>, <<97, 62>>}
Glued      == {<<File(0, 0, 1, <<ws>>)>> : ws \in UNION {[1 .. n -> GluedWords] : n \in 1 .. 3}}

MCCorpora == OneLine \union TwoFiles \union Glued
=============================================================================
