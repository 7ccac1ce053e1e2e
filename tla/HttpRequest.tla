---------------------------- MODULE HttpRequest ----------------------------
(***************************************************************************)
(* How a consumer thread of the server takes a request from its socket:    *)
(* read_http_get_req() reads chunks, whose sizes TCP decides, and looks    *)
(* for the blank line among the last four bytes; valid_http_get() judges   *)
(* what was read.                                                          *)
(*                                                                         *)
(* A byte is "r" or "n" (CR and LF), "x" (any other), or stands for a word *)
(* the server looks for: "G" for "GET " and "H" for "Host: ".  Requests    *)
(* contain no NUL byte.                                                    *)
(***************************************************************************)
EXTENDS Integers, FiniteSets, Sequences

CONSTANTS Streams,     \* what clients send
          CHUNK,       \* chunk_size, 1024 in read_http_get_req
          HeapBytes    \* what may lie before a block of the heap

Bytes == {"G", "H", "x", "r", "n"}

ASSUME RequestAssumption ==
  /\ CHUNK \in Nat /\ CHUNK >= 4
  /\ Streams \subseteq Seq(Bytes)
  /\ HeapBytes \subseteq Bytes /\ HeapBytes # {}

VARIABLES stream,    \* what the client of this connection sends
          hangsup,   \* whether it then closes its end
          pos,       \* total_bytes: how much of it was read
          misled,    \* whether a CR or LF before a block was looked at
          verdict    \* "reading", then what became of the request

requestVars == <<stream, hangsup, pos, misled, verdict>>

(* One byte of the scan for \r\n\r\n; the state names the flag prev_... that is set. *)
Scanned(state, byte) ==
  CASE state = "rnr"  -> IF byte = "n" THEN "found" ELSE "nonvalid"
    [] state = "rn"   -> IF byte = "n" THEN "nonvalid" ELSE IF byte = "r" THEN "rnr" ELSE "none"
    [] state = "r"    -> IF byte = "n" THEN "rn" ELSE "nonvalid"
    [] state = "n"    -> IF byte \in {"r", "n"} THEN "nonvalid" ELSE "none"
    [] state = "none" -> IF byte \in {"r", "n"} THEN byte ELSE "none"
    [] OTHER          -> state

Scan(w) == Scanned(Scanned(Scanned(Scanned("none", w[1]), w[2]), w[3]), w[4])

(* which of the four bytes scanned when n more have come were never received *)
Before(n) == {k \in 1 .. 4 : pos + n - 4 + k < 1}

(* Mutant: a short chunk is scanned alone, without the end of the earlier ones. *)
WindowOfChunk(n, junk) ==
  [k \in 1 .. 4 |-> IF k <= 4 - n THEN "x" ELSE stream[pos + n - 4 + k]]

(***************************************************************************)
(* The four bytes scanned when n more have come: the last four of the      *)
(* chunk, or, of a later chunk shorter than that, the last of req before   *)
(* it.  A start_i_chunk or start_i_req below zero reaches before the       *)
(* block.                                                                  *)
(***************************************************************************)
Window(n, junk) ==
  [k \in 1 .. 4 |-> IF k \in Before(n) THEN junk[k] ELSE stream[pos + n - 4 + k]]

(* Mutant: a chunk that ends inside a line counts as the end of the request. *)
AfterScanEager(state) ==
  CASE state = "found" -> "request" [] state = "nonvalid" -> "null"
    [] state = "rn" -> "request"    [] OTHER -> "reading"

(* Mutant: a carriage return at the end of a chunk counts as a syntax error. *)
AfterScanStrict(state) ==
  CASE state = "found" -> "request" [] state \in {"nonvalid", "r"} -> "null" [] OTHER -> "reading"

AfterScan(state) ==
  CASE state = "found" -> "request" [] state = "nonvalid" -> "null" [] OTHER -> "reading"

ReadChunk ==
  /\ verdict = "reading"
  /\ \E n \in 1 .. CHUNK : \E junk \in [Before(n) -> HeapBytes] :
       /\ pos + n <= Len(stream)
       /\ verdict' = AfterScan(Scan(Window(n, junk)))
       /\ pos' = pos + n
       /\ misled' = (misled \/ (\E k \in Before(n) : junk[k] \in {"r", "n"}))
  /\ UNCHANGED <<stream, hangsup>>

(* read() returns 0: err = 1 *)
EndOfFile ==
  /\ verdict = "reading" /\ pos = Len(stream) /\ hangsup
  /\ verdict' = "gone"
  /\ UNCHANGED <<stream, hangsup, pos, misled>>

Received  == SubSeq(stream, 1, pos)
LineOf(i) == Cardinality({j \in 1 .. i : Received[j] = "n"})
HostLines == {LineOf(i) : i \in {j \in 1 .. pos : Received[j] = "H"}}

(* Mutant: fields are counted, not lines, and the request line is not excepted. *)
ValidAnyHost == pos > 1 /\ Received[1] = "G" /\ HostLines # {}

Valid == pos > 1 /\ Received[1] = "G" /\ Cardinality(HostLines) = 1 /\ 0 \notin HostLines

(* valid_http_get; a NULL from read_http_get_req is not valid *)
Judge ==
  /\ verdict \in {"request", "null"}
  /\ verdict' = IF verdict = "request" /\ Valid THEN "valid" ELSE "bad"
  /\ UNCHANGED <<stream, hangsup, pos, misled>>

Init ==
  /\ stream \in Streams /\ hangsup \in BOOLEAN
  /\ pos = 0 /\ misled = FALSE /\ verdict = "reading"

Next == ReadChunk \/ EndOfFile \/ Judge

Spec == Init /\ [][Next]_requestVars

-----------------------------------------------------------------------------
TypeOK ==
  /\ stream \in Streams /\ hangsup \in BOOLEAN /\ pos \in 0 .. Len(stream)
  /\ misled \in BOOLEAN
  /\ verdict \in {"reading", "request", "null", "gone", "valid", "bad"}

BlankLineAt(s, p) ==
  p >= 4 /\ s[p - 3] = "r" /\ s[p - 2] = "n" /\ s[p - 1] = "r" /\ s[p] = "n"

(* A header: CR and LF come in pairs, and the first blank line is its end. *)
WellFormed(s) ==
  /\ \A i \in 1 .. Len(s) : s[i] = "n" => i > 1 /\ s[i - 1] = "r"
  /\ \A i \in 1 .. Len(s) : s[i] = "r" => i < Len(s) /\ s[i + 1] = "n"
  /\ \A p \in 1 .. Len(s) : BlankLineAt(s, p) <=> p = Len(s)
  /\ BlankLineAt(s, Len(s))

(***************************************************************************)
(* read_http_get_req: however TCP cuts a stream into chunks, the reader    *)
(* stops at a blank line only, unless bytes before a block have misled it. *)
(***************************************************************************)
EndsAtBlankLine ==
  verdict \in {"request", "valid"} /\ ~misled => BlankLineAt(stream, pos)

(***************************************************************************)
(* No cut of a well-formed header into chunks makes its basic syntax check *)
(* fail, or the reader stop before the end of the header.                  *)
(***************************************************************************)
NotRefused ==
  WellFormed(stream) /\ ~misled =>
    /\ verdict # "null"
    /\ verdict \in {"request", "valid"} => pos = Len(stream)

SameLine(s, i, j) == \A k \in 1 .. Len(s) : s[k] = "n" => (k < i <=> k < j)

(* What the server asks of a request: GET first, and one line with a Host field, not the first. *)
Proper(s) ==
  /\ Len(s) > 1 /\ s[1] = "G"
  /\ \E i \in 1 .. Len(s) :
       /\ s[i] = "H" /\ ~SameLine(s, 1, i)
       /\ \A j \in 1 .. Len(s) : s[j] = "H" => SameLine(s, i, j)

(***************************************************************************)
(* valid_http_get: what is answered with a page is proper, however it came *)
(* and even if bytes before a block took part in finding its end.          *)
(***************************************************************************)
ValidIsProper == verdict = "valid" => Proper(Received)
=============================================================================
