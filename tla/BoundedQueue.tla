---------------------------- MODULE BoundedQueue ----------------------------
(***************************************************************************)
(* What place() and obtain() of myhttpd.cpp promise to the threads that    *)
(* use them: a first-in first-out queue of at most Capacity values.        *)
(***************************************************************************)
EXTENDS Naturals, Sequences

CONSTANTS Values, Capacity

VARIABLE queue

Init == queue = <<>>

Put(v) == Len(queue) < Capacity /\ queue' = Append(queue, v)

Take == queue # <<>> /\ queue' = Tail(queue)

Next == Take \/ \E v \in Values : Put(v)

Spec == Init /\ [][Next]_queue
=============================================================================
