---------------------------- MODULE HttpResponse ----------------------------
(***************************************************************************)
(* How a client thread of the crawler takes an answer from its socket:     *)
(* read_http_get_response() reads the header byte by byte and picks the    *)
(* number behind "Content-Length:" out of its words, then reads that many  *)
(* bytes of content in chunks, whose sizes TCP decides.                    *)
(*                                                                         *)
(* A token of a header is "r" or "n" (CR and LF), "s" (a space), "V" for   *)
(* HTTP/1.1, "L" for Content-Length:, "#" for a number, or "x" for any     *)
(* other run of bytes; of the content only the number of bytes matters.    *)
(***************************************************************************)
EXTENDS Integers, Sequences

CONSTANT READ_SIZE   \* read_size, 4048 in read_http_get_response

Tokens == {"V", "L", "#", "s", "x", "r", "n"}

(* claimed: the value of "#"; body: bytes behind the header; open: the server does not hang up *)
AnswerType == [head : Seq(Tokens), claimed : Nat, body : Nat, open : BOOLEAN]

BlankLineAt(s, p) ==
  p >= 4 /\ s[p - 3] = "r" /\ s[p - 2] = "n" /\ s[p - 1] = "r" /\ s[p] = "n"

(* head ends with the first blank line, and body is what lies behind it *)
AnswerOK(a) ==
  /\ a \in AnswerType
  /\ \A p \in 1 .. Len(a.head) : BlankLineAt(a.head, p) => p = Len(a.head)
  /\ a.body > 0 => BlankLineAt(a.head, Len(a.head))

VARIABLES answer,      \* what the server of this connection sends
          at,          \* tokens of the header that were read
          header,      \* the flags and the word of the header's loop
          counter,     \* content_counter
          overrun,     \* whether more than content_size + 1 bytes were put into content
          outcome      \* "header", "content", then what became of the answer

responseVars == <<answer, at, header, counter, overrun, outcome>>

NewHeader == [prev_blr |-> FALSE, prev_cr |-> FALSE, next_is_size |-> FALSE,
              word |-> <<>>, word_counter |-> 0, content_size |-> -1]

(* atoi: the leading digits of a word, 0 without any *)
Atoi(word) == IF word # <<>> /\ word[1] = "#" THEN answer.claimed ELSE 0

(* the basic syntax check: CR and LF come in pairs *)
Unpaired(h, b) == h.prev_blr # (b = "n")

(* the first word must be HTTP/1.1 *)
WrongStart(h) == ~h.next_is_size /\ h.word_counter = 0 /\ h.word # <<"V">>

(* Mutant: the flag stays set, and the last word of the header becomes the size. *)
EndOfWordSticky(h) ==
  [h EXCEPT !.word = <<>>, !.word_counter = @ + 1,
            !.next_is_size = @ \/ h.word = <<"L">>,
            !.content_size = IF h.next_is_size THEN Atoi(h.word) ELSE @]

(* a space or an LF ends a word *)
EndOfWord(h) ==
  [h EXCEPT !.word = <<>>, !.word_counter = @ + 1,
            !.next_is_size = ~@ /\ h.word = <<"L">>,
            !.content_size = IF h.next_is_size THEN Atoi(h.word) ELSE @]

(* Mutant: the flag of an LF outlives the bytes that follow it. *)
AfterTokenSticky(h, b) ==
  LET flags == [h EXCEPT !.prev_blr = FALSE, !.prev_cr = @ \/ (b = "n")]
  IN  CASE b = "r"        -> [h EXCEPT !.prev_blr = TRUE]
        [] b \in {"s", "n"} -> EndOfWord(flags)
        [] OTHER          -> [flags EXCEPT !.word = Append(@, b)]

(* CR leaves prev_cr alone, so that it tells whether the line it ends is blank *)
AfterToken(h, b) ==
  LET flags == [h EXCEPT !.prev_blr = FALSE, !.prev_cr = (b = "n")]
  IN  CASE b = "r"        -> [h EXCEPT !.prev_blr = TRUE]
        [] b \in {"s", "n"} -> EndOfWord(flags)
        [] OTHER          -> [flags EXCEPT !.word = Append(@, b)]

(* what one byte decides, with the checks in the order of the loop *)
AfterByte(h, b) ==
  IF Unpaired(h, b) THEN "ignored"
  ELSE IF b = "n" /\ h.prev_cr THEN IF h.content_size = -1 THEN "ignored" ELSE "content"
  ELSE IF b \in {"s", "n"} /\ WrongStart(h) THEN "ignored" ELSE "header"

ReadHeader ==
  /\ outcome = "header" /\ at < Len(answer.head)
  /\ at' = at + 1
  /\ outcome' = AfterByte(header, answer.head[at'])
  /\ header' = IF outcome' = "header" THEN AfterToken(header, answer.head[at']) ELSE header
  /\ UNCHANGED <<answer, counter, overrun>>

(* Mutant: the loop ends on a chunk that is not full. *)
ReadContentShort ==
  /\ outcome = "content"
  /\ \E n \in 1 .. READ_SIZE :
       /\ counter + n <= answer.body
       /\ counter' = counter + n
       /\ overrun' = (overrun \/ counter' > header.content_size)
       /\ outcome' = IF n < READ_SIZE THEN "page" ELSE "content"
  /\ UNCHANGED <<answer, at, header>>

(* A chunk is appended to content, whatever room is left, and only then counted. *)
ReadContent ==
  /\ outcome = "content"
  /\ \E n \in 1 .. READ_SIZE :
       /\ counter + n <= answer.body
       /\ counter' = counter + n
       /\ overrun' = (overrun \/ counter' > header.content_size)
       /\ outcome' = IF counter' = header.content_size THEN "page" ELSE "content"
  /\ UNCHANGED <<answer, at, header>>

(* read() returns 0: err = 1, and the client's exit(1) *)
EndOfFile ==
  /\ ~answer.open
  /\ \/ outcome = "header" /\ at = Len(answer.head)
     \/ outcome = "content" /\ counter = answer.body
  /\ outcome' = "lost"
  /\ UNCHANGED <<answer, at, header, counter, overrun>>

(* read() returns -1, which is err = 1 too: the end of the server is closed and the connection reset *)
Reset ==
  /\ ~answer.open /\ outcome \in {"header", "content"}
  /\ outcome' = "reset"
  /\ UNCHANGED <<answer, at, header, counter, overrun>>

(* the variables of read_http_get_response when it is called *)
Fresh ==
  at = 0 /\ header = NewHeader /\ counter = 0 /\ overrun = FALSE /\ outcome = "header"

Next == ReadHeader \/ ReadContent \/ EndOfFile
-----------------------------------------------------------------------------
TypeOK ==
  /\ answer \in AnswerType /\ at \in 0 .. Len(answer.head)
  /\ header.prev_blr \in BOOLEAN /\ header.prev_cr \in BOOLEAN /\ header.next_is_size \in BOOLEAN
  /\ header.word \in Seq(Tokens) /\ header.word_counter \in 0 .. at
  /\ header.content_size \in Nat \union {-1}
  /\ counter \in 0 .. answer.body /\ overrun \in BOOLEAN
  /\ outcome \in {"header", "content", "page", "ignored", "lost", "reset"}

Paired(s) ==
  /\ \A i \in 1 .. Len(s) : s[i] = "n" => i > 1 /\ s[i - 1] = "r"
  /\ \A i \in 1 .. Len(s) : s[i] = "r" => i < Len(s) /\ s[i + 1] = "n"

(* the field: the word Content-Length: with a number for its next word *)
SizeField(s, i) ==
  /\ i \in 2 .. Len(s) - 3
  /\ s[i - 1] \in {"s", "n"} /\ s[i] = "L" /\ s[i + 1] \in {"s"} /\ s[i + 2] = "#"
  /\ s[i + 3] \in {"s", "r"}

(* A header as RFC 2616 writes it: HTTP/1.1 first, one Content-Length, the blank line last. *)
WellFormed(s) ==
  /\ Paired(s) /\ BlankLineAt(s, Len(s))
  /\ s[1] = "V" /\ s[2] = "s"
  /\ \E i \in 1 .. Len(s) : SizeField(s, i) /\ \A j \in 1 .. Len(s) : s[j] = "L" => j = i

(***************************************************************************)
(* read_http_get_response: a well-formed header is not ignored, and the    *)
(* size its loop ends with is the number of the Content-Length field, no   *)
(* matter which words and lines surround the field.                        *)
(***************************************************************************)
SizeIsClaimed ==
  WellFormed(answer.head) =>
    /\ outcome # "ignored"
    /\ outcome \in {"content", "page"} => header.content_size = answer.claimed

(***************************************************************************)
(* What is returned as a page came under a header that starts with         *)
(* HTTP/1.1, whose CR and LF are paired, which names a Content-Length, and *)
(* it is as long as the number there, or as no number gives: never empty.  *)
(***************************************************************************)
PageIsProper ==
  outcome = "page" =>
    /\ Paired(answer.head) /\ answer.head[1] = "V"
    /\ \E i \in 1 .. Len(answer.head) : answer.head[i] = "L"
    /\ counter = answer.claimed /\ counter > 0

(***************************************************************************)
(* The block of content_size + 1 bytes is enough for every server that     *)
(* sends no more than it has announced.                                    *)
(***************************************************************************)
NoOverrun ==
  WellFormed(answer.head) /\ answer.body <= answer.claimed => ~overrun

(* What a server has sent when it has sent all, or will never send all. *)
Whole == WellFormed(answer.head) /\ answer.body = answer.claimed /\ answer.claimed > 0
Short == WellFormed(answer.head) /\ ~answer.open /\ (answer.claimed = 0 \/ answer.body < answer.claimed)
=============================================================================
