--------------------------- MODULE MCHttpExchange ---------------------------
(* Streams, answers and files for TLC. *)
EXTENDS HttpExchange, SequencesExt

(* GET and the path, the Host line, the blank line *)
MCRequest    == <<"G", "x", "r", "n", "H", "r", "n", "r", "n">>
MCAnswerHead == <<"V", "s", "x", "r", "n", "L", "s", "#", "r", "n", "r", "n">>
MCTexts      == [missing |-> 3, denied |-> 4, request |-> 5]

MCFiles ==
  {[kind |-> "file", size |-> n, text |-> FALSE] : n \in 0 .. 4}
    \union {[kind |-> "file", size |-> 4, text |-> TRUE]}
    \union {[kind |-> k, size |-> 0, text |-> FALSE] : k \in {"missing", "denied", "directory", "other"}}

Lined(ls) == FlattenSeq([i \in DOMAIN ls |-> ls[i] \o <<"r", "n">>]) \o <<"r", "n">>
UpTo(n, S) == UNION {[1 .. k -> S] : k \in 0 .. n}
-----------------------------------------------------------------------------
(* every stream of up to two bytes, and of up to four without words *)
ShortStreams == UpTo(2, Bytes) \union UpTo(4, {"x", "r", "n"})

(* headers of up to three lines *)
RequestLines == {<<"G", "x">>, <<"H">>, <<"x">>, <<"H", "H">>}
Requests == {Lined(ls) : ls \in UpTo(3, RequestLines)}

(* a header with one byte too many, and one with a lone line feed *)
Broken == {Append(Lined(<<l>>), "x") : l \in RequestLines}
            \union {<<"G", "n", "H", "r", "n", "r", "n">>, <<"G", "r", "n", "n">>}

MCStreams == ShortStreams \union Requests \union Broken
-----------------------------------------------------------------------------
(* every head of up to three tokens, without its content *)
ShortAnswers ==
  {[head |-> h, claimed |-> 1, body |-> 0, open |-> FALSE] : h \in UpTo(3, Resp!Tokens)}

(* a status line and up to two more lines, with the field in any of them, split or doubled *)
FieldLines == {<<"L", "s", "#">>, <<"x">>, <<"x", "s", "#">>, <<"x", "s", "L", "s", "#">>,
               <<"L", "s", "s", "#">>, <<"L", "#">>, <<"L">>, <<"x", "r">>, <<"x", "n", "x">>}
Heads == {Lined(<<l>> \o ls) : l \in {<<"V", "s", "x">>, <<"V">>}, ls \in UpTo(2, FieldLines)}
           \union {Lined(<<l, <<"L", "s", "#">>>>) : l \in {<<"x", "s", "V">>, <<"L", "s", "#">>}}

(* and its answers: right, with bytes missing, with bytes too many; ended, and left open *)
MCAnswers ==
  ShortAnswers \union
  {[head |-> h, claimed |-> size[1], body |-> size[2], open |-> o] :
     h \in Heads, size \in {<<0, 0>>, <<0, 1>>, <<2, 1>>, <<2, 2>>, <<2, 3>>}, o \in BOOLEAN}
=============================================================================
