--------------------------- MODULE ServerContract ---------------------------
(***************************************************************************)
(* What the web server promises to its clients, whatever its threads do.   *)
(* A connection is accepted only while the server runs, is answered at     *)
(* most once and only while it is accepted, and is closed in the end; a    *)
(* server that was told to stop stops once every accepted connection is    *)
(* closed. Death of the process is the one way out of these promises.      *)
(***************************************************************************)
CONSTANTS Clients, Answers, None

VARIABLES phase, conn, got

vars == <<phase, conn, got>>

Init ==
  /\ phase = "running"
  /\ conn = [k \in Clients |-> "away"]
  /\ got = [k \in Clients |-> None]

Up == phase \in {"running", "stopping"}

Connect(k) ==
  /\ Up /\ conn[k] = "away"
  /\ conn' = [conn EXCEPT ![k] = "backlog"]
  /\ UNCHANGED <<phase, got>>

Accept(k) ==
  /\ phase = "running" /\ conn[k] = "backlog"
  /\ conn' = [conn EXCEPT ![k] = "accepted"]
  /\ UNCHANGED <<phase, got>>

Answer(k) ==
  /\ Up /\ conn[k] = "accepted" /\ got[k] = None
  /\ \E a \in Answers : got' = [got EXCEPT ![k] = a]
  /\ UNCHANGED <<phase, conn>>

Close(k) ==
  /\ Up /\ conn[k] = "accepted"
  /\ conn' = [conn EXCEPT ![k] = "closed"]
  /\ UNCHANGED <<phase, got>>

Shutdown ==
  /\ phase = "running" /\ phase' = "stopping"
  /\ UNCHANGED <<conn, got>>

Stop ==
  /\ phase = "stopping" /\ \A k \in Clients : conn[k] # "accepted"
  /\ phase' = "stopped"
  /\ UNCHANGED <<conn, got>>

Die ==
  /\ Up /\ phase' = "dead"
  /\ UNCHANGED <<conn, got>>

Next ==
  \/ \E k \in Clients : Connect(k) \/ Accept(k) \/ Answer(k) \/ Close(k)
  \/ Shutdown \/ Stop \/ Die

Spec == Init /\ [][Next]_vars

FairSpec == Spec /\ WF_vars(Stop) /\ \A k \in Clients : WF_vars(Close(k))
=============================================================================
