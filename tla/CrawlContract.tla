--------------------------- MODULE CrawlContract ---------------------------
(***************************************************************************)
(* What the crawler promises, whatever its threads do: an exploration of   *)
(* the graph of links from the starting URL.  A URL is found because a     *)
(* saved page links to it, is fetched at most once, and is done when all   *)
(* its links have been found.  A search runs only when every URL found is  *)
(* done, and the exploration stands still while it runs.                   *)
(***************************************************************************)
CONSTANTS Urls, StartUrl, LinkedFrom(_), None

VARIABLES found, saved, done, phase

vars == <<found, saved, done, phase>>

Init ==
  /\ found = {StartUrl} /\ done = {} /\ saved = [u \in Urls |-> None]
  /\ phase = "crawling"

Active == phase \in {"crawling", "stopping"}

Fetch(u) ==
  /\ Active /\ u \in found \ done /\ saved[u] = None
  /\ \E a \in {"page", "error"} : saved' = [saved EXCEPT ![u] = a]
  /\ UNCHANGED <<found, done, phase>>

Find(v) ==
  /\ Active /\ v \notin found
  /\ \E u \in found \ done : saved[u] = "page" /\ v \in LinkedFrom(u)
  /\ found' = found \union {v}
  /\ UNCHANGED <<saved, done, phase>>

Finish(u) ==
  /\ Active /\ u \in found \ done
  /\ saved[u] = "page" => LinkedFrom(u) \subseteq found
  /\ done' = done \union {u}
  /\ UNCHANGED <<found, saved, phase>>

BeginSearch ==
  /\ phase = "crawling" /\ done = found
  /\ phase' = "search"
  /\ UNCHANGED <<found, saved, done>>

EndSearch ==
  /\ phase = "search" /\ phase' = "crawling"
  /\ UNCHANGED <<found, saved, done>>

Shutdown ==
  /\ phase = "crawling" /\ phase' = "stopping"
  /\ UNCHANGED <<found, saved, done>>

(* at the end no URL is in the hands of a thread: it is done or was never fetched *)
Stop ==
  /\ phase = "stopping" /\ \A u \in found \ done : saved[u] = None
  /\ phase' = "stopped"
  /\ UNCHANGED <<found, saved, done>>

Die ==
  /\ phase # "stopped" /\ phase' = "dead"
  /\ UNCHANGED <<found, saved, done>>

Next ==
  \/ \E u \in Urls : Fetch(u) \/ Find(u) \/ Finish(u)
  \/ BeginSearch \/ EndSearch \/ Shutdown \/ Stop \/ Die

Spec == Init /\ [][Next]_vars
=============================================================================
