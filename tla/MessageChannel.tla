--------------------------- MODULE MessageChannel ---------------------------
(***************************************************************************)
(* What the job executor and a worker rely on between them: the numbers    *)
(* and strings sent into a FIFO come out of it whole, one by one and in    *)
(* their order, none lost and none twice.  It promises nothing to a pair   *)
(* that does not use it as it must be used.                                *)
(***************************************************************************)
EXTENDS Naturals, Sequences

CONSTANT Items

VARIABLES InUse,            \* whether the pair sends only what it may send
          sent, received

Init == sent = <<>> /\ received = <<>>

Send(m) == sent' = Append(sent, m) /\ UNCHANGED received

Receive ==
  /\ Len(received) < Len(sent)
  /\ received' = Append(received, sent[Len(received) + 1])
  /\ UNCHANGED sent

Next == (\E m \in Items : Send(m)) \/ Receive

Spec == Init /\ [][InUse => Next]_<<sent, received>>
=============================================================================
