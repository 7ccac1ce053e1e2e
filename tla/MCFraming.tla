----------------------------- MODULE MCFraming -----------------------------
(* Instances of Framing for TLC. *)
EXTENDS Framing

ScriptsUpTo(len, size) == UNION {[1 .. n -> 0 .. size] : n \in 1 .. len}

(* strings of up to PIPE_BUF bytes, and shorter scripts with strings of one byte more *)
MCScripts == ScriptsUpTo(4, 3) \union ScriptsUpTo(3, 4)
=============================================================================
