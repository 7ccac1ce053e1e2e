------------------------------ MODULE Framing ------------------------------
(***************************************************************************)
(* Numbers and strings in a FIFO: send_msg, read_msg, send_int_number and  *)
(* read_int_number of helping_funs.cpp, between the job executor and one   *)
(* worker, in one direction.  A string goes as its length and then its     *)
(* bytes, in two calls of write(); the reader takes each of the two with   *)
(* one read(), which never looks at how much it got.                       *)
(*                                                                         *)
(* The FIFO holds units: a number is one unit, a string one per byte.      *)
(***************************************************************************)
EXTENDS Integers, Sequences, SequencesExt

CONSTANTS Scripts,     \* what is sent: sequences of sizes; 0 for a number, n for strlen() + 1
          PIPE_BUF,    \* a write() of no more than this many units is atomic
          CAPACITY     \* units that fit in the FIFO

ASSUME FramingAssumption ==
  /\ PIPE_BUF \in Nat \ {0} /\ CAPACITY \in Nat /\ CAPACITY >= PIPE_BUF
  /\ Scripts \subseteq Seq(Nat)

VARIABLES script,     \* both sides follow it: the protocol says what comes next
          sending,    \* items whose number or length was written
          left,       \* bytes of the string that write() has yet to put into the FIFO
          fifo,       \* units <<item, k>>: k = 0 is the number or the length, k > 0 a byte
          reading,    \* "size" or "text"
          buf_size,   \* buf_size of read_msg
          received    \* what read_msg and read_int_number have returned

senderVars == <<script, sending, left>>
readerVars == <<reading, buf_size, received>>
framingVars == <<senderVars, fifo, readerVars>>

Room == CAPACITY - Len(fifo)

(* the bytes of an item from the k-th to the l-th *)
Units(i, k, l) == [j \in 1 .. l - k + 1 |-> <<i, k + j - 1>>]

Init ==
  /\ script \in Scripts
  /\ sending = 0 /\ left = 0 /\ fifo = <<>>
  /\ reading = "size" /\ buf_size = 0 /\ received = <<>>

(* send_int_number, and the first write() of send_msg *)
WriteNumber ==
  /\ left = 0 /\ sending < Len(script) /\ Room >= 1
  /\ sending' = sending + 1
  /\ left' = script[sending']
  /\ fifo' = Append(fifo, <<sending', 0>>)
  /\ UNCHANGED <<script, readerVars>>

(* Mutant: the terminating NUL is announced and not written. *)
WriteTextNoNul ==
  /\ left > 0
  /\ \E n \in 1 .. left :
       /\ n <= Room /\ (script[sending] <= PIPE_BUF => n = left)
       /\ fifo' = fifo \o Front(Units(sending, script[sending] - left + 1, script[sending] - left + n))
       /\ left' = left - n
  /\ UNCHANGED <<script, sending, readerVars>>

(* Mutant: the string is put into the FIFO whether there is room or not. *)
WriteTextAnyway ==
  /\ left > 0
  /\ fifo' = fifo \o Units(sending, script[sending] - left + 1, script[sending])
  /\ left' = 0
  /\ UNCHANGED <<script, sending, readerVars>>

(* the second write() of send_msg: at once, or, of a long string, in pieces as there is room *)
WriteText ==
  /\ left > 0
  /\ \E n \in 1 .. left :
       /\ n <= Room /\ (script[sending] <= PIPE_BUF => n = left)
       /\ fifo' = fifo \o Units(sending, script[sending] - left + 1, script[sending] - left + n)
       /\ left' = left - n
  /\ UNCHANGED <<script, sending, readerVars>>

Item == Len(received) + 1   \* the one that the reader is at

(* what came out is a number, and not bytes of a string that lie there *)
Aligned == fifo # <<>> /\ fifo[1][2] = 0

ReadInt ==
  /\ reading = "size" /\ Item <= Len(script) /\ script[Item] = 0 /\ Aligned
  /\ received' = Append(received, <<fifo[1]>>)
  /\ fifo' = Tail(fifo)
  /\ UNCHANGED <<senderVars, reading, buf_size>>

(* the first read() of read_msg: the length *)
ReadSize ==
  /\ reading = "size" /\ Item <= Len(script) /\ script[Item] > 0 /\ Aligned
  /\ buf_size' = script[fifo[1][1]]
  /\ reading' = "text" /\ fifo' = Tail(fifo)
  /\ UNCHANGED <<senderVars, received>>

(* Bytes taken for a number: the reader goes on with whatever they are. *)
ReadGarbage ==
  /\ reading = "size" /\ Item <= Len(script) /\ fifo # <<>> /\ ~Aligned
  /\ reading' = "garbage"
  /\ UNCHANGED <<senderVars, fifo, buf_size, received>>

(* Mutant: the reader asks for strlen() bytes, and leaves the NUL behind. *)
ReadTextNoNul ==
  /\ reading = "text" /\ fifo # <<>>
  /\ LET n == IF Len(fifo) < buf_size - 1 THEN Len(fifo) ELSE buf_size - 1 IN
       /\ received' = Append(received, SubSeq(fifo, 1, n))
       /\ fifo' = SubSeq(fifo, n + 1, Len(fifo))
  /\ reading' = "size"
  /\ UNCHANGED <<senderVars, buf_size>>

(* Mutant: everything that is there is taken, and what is beyond the string dropped. *)
ReadTextDrains ==
  /\ reading = "text" /\ fifo # <<>>
  /\ LET n == IF Len(fifo) < buf_size THEN Len(fifo) ELSE buf_size IN
       received' = Append(received, SubSeq(fifo, 1, n))
  /\ fifo' = <<>> /\ reading' = "size"
  /\ UNCHANGED <<senderVars, buf_size>>

(* the second read(): what is there, up to buf_size; the rest of the block stays as malloc() left it *)
ReadText ==
  /\ reading = "text" /\ fifo # <<>>
  /\ LET n == IF Len(fifo) < buf_size THEN Len(fifo) ELSE buf_size IN
       /\ received' = Append(received, SubSeq(fifo, 1, n))
       /\ fifo' = SubSeq(fifo, n + 1, Len(fifo))
  /\ reading' = "size"
  /\ UNCHANGED <<senderVars, buf_size>>

Write == WriteNumber \/ WriteText
Read  == ReadInt \/ ReadSize \/ ReadGarbage \/ ReadText

Next == Write \/ Read

Spec == Init /\ [][Next]_framingVars

(* Both processes are scheduled, and neither dies: the other then waits in the kernel. *)
FairSpec == Spec /\ WF_framingVars(Write) /\ WF_framingVars(Read)
-----------------------------------------------------------------------------
(* what an item is when nothing is missing: its number, or all bytes of its string *)
WholeOf(s, i) == IF s[i] = 0 THEN <<<<i, 0>>>> ELSE Units(i, 1, s[i])
Whole(i) == WholeOf(script, i)

TypeOK ==
  /\ script \in Scripts /\ sending \in 0 .. Len(script)
  /\ left \in 0 .. (IF sending = 0 THEN 0 ELSE script[sending])
  /\ Len(fifo) \in 0 .. CAPACITY
  /\ reading \in {"size", "text", "garbage"} /\ buf_size \in Nat
  /\ Len(received) <= sending

(* the bytes among units: the numbers and the lengths are left out *)
BytesOf(units) == FlattenSeq([n \in DOMAIN units |-> IF units[n][2] > 0 THEN <<units[n]>> ELSE <<>>])

(* what has been written of each item that is a string *)
Written == [i \in 1 .. sending |-> Units(i, 1, script[i] - IF i = sending THEN left ELSE 0)]

(***************************************************************************)
(* A string too long for one write() arrives in pieces, and read_msg may   *)
(* return the first of them; still no byte is lost, doubled or overtaken   *)
(* on the way: what was read and what is in the FIFO is what was written,  *)
(* and the FIFO never holds more than it can.                              *)
(***************************************************************************)
BytesInOrder ==
  /\ TypeOK
  /\ BytesOf(FlattenSeq(received) \o fifo) = FlattenSeq(Written)

(* what POSIX asks of the program: no write() of more than PIPE_BUF bytes *)
Fits == \A i \in 1 .. Len(script) : script[i] <= PIPE_BUF

(***************************************************************************)
(* read_msg goes astray only behind a string that is too long for one      *)
(* write(): every item up to the first of these comes out of the FIFO as   *)
(* it was sent, and the next one is read from where it starts.             *)
(***************************************************************************)
WholeMessages ==
  /\ \A i \in 1 .. Len(received) :
       (\A j \in 1 .. i : script[j] <= PIPE_BUF) => received[i] = Whole(i)
  /\ reading = "garbage" => \E j \in 1 .. Len(received) : script[j] > PIPE_BUF

(* Everything that fits arrives, also when the FIFO was full on the way. *)
AllArrive == Fits => <>(Len(received) = Len(script))

Channel == INSTANCE MessageChannel
             WITH InUse <- Fits,
                  Items <- UNION {{WholeOf(s, i) : i \in 1 .. Len(s)} : s \in Scripts},
                  sent  <- [i \in 1 .. sending |-> Whole(i)]

(***************************************************************************)
(* While all strings fit, the FIFO with its two-step messages is a channel *)
(* of whole messages, in order, and all that is to be sent arrives.        *)
(***************************************************************************)
ImplementsChannel == Channel!Spec /\ AllArrive
=============================================================================
