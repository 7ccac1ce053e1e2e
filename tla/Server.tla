------------------------------- MODULE Server -------------------------------
(***************************************************************************)
(* The multithreaded web server: main() of server_main.cpp and the         *)
(* consumer threads of myhttpd.cpp, which share a bounded ring of client   *)
(* sockets (pool, mtx, cond_nonempty, cond_nonfull) and the statistics     *)
(* counters (pages_served, total_bytes_sent, mtx2).                        *)
(*                                                                         *)
(* A critical section of mtx is one step.  pthread_cond_signal is called   *)
(* after the unlock, so it is a step of its own.  A critical section of    *)
(* mtx2 is two steps, the first of which takes the lock.                   *)
(***************************************************************************)
EXTENDS Integers, FiniteSets

CONSTANTS Consumers,    \* the n_threads threads of the pool
          POOL_SIZE,    \* slots of the ring, 100 in myhttpd.h
          Clients,      \* connections made to the serving port
          Cmds,         \* connections made to the command port
          Pages,        \* files under root_dir that can be served
          Length,       \* Length[p]: bytes of the content of page p
          UINT_RANGE,   \* 2^32: the counters are unsigned ints
          Poison,       \* the -1 that tells a consumer to finish
          Main,         \* main's thread, as the owner of mtx2
          Error,        \* a 400, 403 or 404 answer
          None

ASSUME ServerAssumption ==
  /\ POOL_SIZE \in Nat \ {0}
  /\ UINT_RANGE \in Nat \ {0}
  /\ Length \in [Pages -> Nat \ {0}]
  /\ IsFiniteSet(Consumers) /\ Consumers # {} /\ Main \notin Consumers
  /\ Poison \notin Clients /\ None \notin Clients /\ Poison # None
  /\ None \notin Cmds /\ None \notin Consumers /\ Main # None
  /\ Error \notin Pages /\ None \notin Pages /\ Error # None

VARIABLES clients_socks, start, end, size,            \* pool_t pool
          mtx2, pages_served, total_bytes_sent,       \* the statistics
          mainpc, unborn, revents, client_sock, pills, cmd_sock, stats,
          pc, sock, answer,                           \* each consumer
          conn, got, cmd                              \* the peers

poolVars  == <<clients_socks, start, end, size>>
statVars  == <<mtx2, pages_served, total_bytes_sent>>
mainVars  == <<mainpc, unborn, revents, client_sock, pills, cmd_sock, stats>>
consVars  == <<pc, sock, answer>>
peerVars  == <<conn, got, cmd>>
vars == <<poolVars, statVars, mainVars, consVars, peerVars>>

Index  == 0 .. POOL_SIZE - 1
Items  == Clients \union {Poison}
Answers == Pages \union {Error}
NThreads == Cardinality(Consumers)
NoStats == [pages |-> 0, bytes |-> 0]

Alive == mainpc \notin {"stopped", "dead"}
Waiting == {c \in Consumers : pc[c] = "nonempty"}

(* the clients (answered with a page) whose answer a consumer has added to both counters *)
Delivered == {k \in Clients : got[k] \in Pages}
Uncounted == {sock[c] : c \in {x \in Consumers : pc[x] = "count"}}
Bytes(S)  == Cardinality(UNION {{k} \X (1 .. Length[got[k]]) : k \in S})
-----------------------------------------------------------------------------
Init ==
  /\ clients_socks = [i \in Index |-> None] /\ start = 0 /\ end = -1 /\ size = 0
  /\ mtx2 = None /\ pages_served = 0 /\ total_bytes_sent = 0
  /\ mainpc = "spawn" /\ unborn = Consumers /\ revents = FALSE
  /\ client_sock = None /\ pills = 0 /\ cmd_sock = None /\ stats = NoStats
  /\ pc = [c \in Consumers |-> "obtain"] /\ sock = [c \in Consumers |-> None]
  /\ answer = [c \in Consumers |-> None]
  /\ conn = [k \in Clients |-> "away"] /\ got = [k \in Clients |-> None]
  /\ cmd = [k \in Cmds |-> "away"]

(* Mutant: the signal is forgotten. *)
NoSignal == UNCHANGED pc

(* pthread_cond_signal(&cond_nonempty): one of the threads blocked on it, if any, is released *)
SignalWaiting ==
  IF Waiting = {} THEN UNCHANGED pc
  ELSE \E c \in Waiting : pc' = [pc EXCEPT ![c] = "obtain"]

(* The environment. *)
Connect(k) ==
  /\ Alive /\ conn[k] = "away"
  /\ conn' = [conn EXCEPT ![k] = "backlog"]
  /\ UNCHANGED <<poolVars, statVars, mainVars, consVars, got, cmd>>

ConnectCmd(k) ==
  /\ Alive /\ cmd[k] = "away"
  /\ cmd' = [cmd EXCEPT ![k] = "backlog"]
  /\ UNCHANGED <<poolVars, statVars, mainVars, consVars, conn, got>>
-----------------------------------------------------------------------------
(* The main thread: pthread_create for every consumer, then the poll loop. *)
Spawn ==
  /\ mainpc = "spawn"
  /\ \E c \in unborn : unborn' = unborn \ {c}
  /\ mainpc' = IF unborn' = {} THEN "poll" ELSE "spawn"
  /\ UNCHANGED <<poolVars, statVars, consVars, peerVars,
                 revents, client_sock, pills, cmd_sock, stats>>

(* The revents are a snapshot: the command port is looked at after the serving port. *)
Poll ==
  LET serving == \E k \in Clients : conn[k] = "backlog"
      command == \E k \in Cmds : cmd[k] = "backlog"
  IN  /\ mainpc = "poll"
      /\ serving \/ command
      /\ revents' = command
      /\ mainpc' = IF serving THEN "accept" ELSE "accept_cmd"
      /\ UNCHANGED <<poolVars, statVars, consVars, peerVars,
                     unborn, client_sock, pills, cmd_sock, stats>>

Accept ==
  /\ mainpc = "accept"
  /\ \E k \in Clients :
       /\ conn[k] = "backlog"
       /\ conn' = [conn EXCEPT ![k] = "accepted"]
       /\ client_sock' = k
  /\ mainpc' = "place"
  /\ UNCHANGED <<poolVars, statVars, consVars, got, cmd,
                 unborn, revents, pills, cmd_sock, stats>>

(* Mutant: the index of the last socket does not wrap. *)
PlaceNoWrap ==
  /\ mainpc = "place" /\ size < POOL_SIZE
  /\ end' = end + 1
  /\ clients_socks' = [clients_socks EXCEPT ![end'] = client_sock]
  /\ size' = size + 1
  /\ mainpc' = "signal"
  /\ UNCHANGED <<start, statVars, consVars, peerVars,
                 unborn, revents, client_sock, pills, cmd_sock, stats>>

(* Mutant: the test for a full ring is off by one. *)
PlaceWhenFull ==
  /\ mainpc = "place" /\ size <= POOL_SIZE
  /\ end' = (end + 1) % POOL_SIZE
  /\ clients_socks' = [clients_socks EXCEPT ![end'] = client_sock]
  /\ size' = size + 1
  /\ mainpc' = "signal"
  /\ UNCHANGED <<start, statVars, consVars, peerVars,
                 unborn, revents, client_sock, pills, cmd_sock, stats>>

(* place(&pool, client_sock), of a client's socket or of the -1 of a SHUTDOWN *)
Place ==
  /\ mainpc = "place" /\ size < POOL_SIZE
  /\ end' = (end + 1) % POOL_SIZE
  /\ clients_socks' = [clients_socks EXCEPT ![end'] = client_sock]
  /\ size' = size + 1
  /\ mainpc' = "signal"
  /\ UNCHANGED <<start, statVars, consVars, peerVars,
                 unborn, revents, client_sock, pills, cmd_sock, stats>>

WaitNonfull ==
  /\ mainpc = "place" /\ size >= POOL_SIZE
  /\ mainpc' = "nonfull"
  /\ UNCHANGED <<poolVars, statVars, consVars, peerVars,
                 unborn, revents, client_sock, pills, cmd_sock, stats>>

SignalClient ==
  /\ mainpc = "signal" /\ client_sock # Poison
  /\ SignalWaiting
  /\ client_sock' = None
  /\ mainpc' = IF revents THEN "accept_cmd" ELSE "poll"
  /\ UNCHANGED <<poolVars, statVars, sock, answer, peerVars,
                 unborn, revents, pills, cmd_sock, stats>>

(* Mutant: no break after the last -1, so the poll loop goes on. *)
SignalPillPolls ==
  /\ mainpc = "signal" /\ client_sock = Poison
  /\ SignalWaiting
  /\ pills' = pills - 1
  /\ IF pills > 1
     THEN mainpc' = "place" /\ UNCHANGED <<cmd, cmd_sock>>
     ELSE /\ mainpc' = "poll"
          /\ cmd' = [cmd EXCEPT ![cmd_sock] = "closed"]
          /\ cmd_sock' = None
  /\ UNCHANGED <<poolVars, statVars, sock, answer, conn, got,
                 unborn, revents, client_sock, stats>>

(* the loop of SHUTDOWN: after the last -1 the command socket is closed and the poll loop left *)
SignalPill ==
  /\ mainpc = "signal" /\ client_sock = Poison
  /\ SignalWaiting
  /\ pills' = pills - 1
  /\ IF pills > 1
     THEN mainpc' = "place" /\ UNCHANGED <<cmd, cmd_sock>>
     ELSE /\ mainpc' = "join"
          /\ cmd' = [cmd EXCEPT ![cmd_sock] = "closed"]
          /\ cmd_sock' = None
  /\ UNCHANGED <<poolVars, statVars, sock, answer, conn, got,
                 unborn, revents, client_sock, stats>>
-----------------------------------------------------------------------------
(* The command port. *)
AcceptCmd ==
  /\ mainpc = "accept_cmd"
  /\ \E k \in Cmds : 
       /\ cmd[k] = "backlog"
       /\ cmd' = [cmd EXCEPT ![k] = "open"]
       /\ cmd_sock' = k
  /\ mainpc' = "read_cmd"
  /\ UNCHANGED <<poolVars, statVars, consVars, conn, got,
                 unborn, revents, client_sock, pills, stats>>

ReadShutdown ==
  /\ mainpc = "read_cmd"
  /\ client_sock' = Poison
  /\ pills' = NThreads
  /\ mainpc' = "place"
  /\ UNCHANGED <<poolVars, statVars, consVars, peerVars,
                 unborn, revents, cmd_sock, stats>>

ReadStats ==
  /\ mainpc = "read_cmd"
  /\ mainpc' = "stats"
  /\ UNCHANGED <<poolVars, statVars, consVars, peerVars,
                 unborn, revents, client_sock, pills, cmd_sock, stats>>

(* A word that is no command is answered with an error. *)
ReadOther ==
  /\ mainpc = "read_cmd"
  /\ mainpc' = "reply"
  /\ UNCHANGED <<poolVars, statVars, consVars, peerVars,
                 unborn, revents, client_sock, pills, cmd_sock, stats>>

(* discon == 1: the branch that reports it does not close cmd_sock, which stays open for good *)
ReadDisconnect ==
  /\ mainpc = "read_cmd"
  /\ cmd' = [cmd EXCEPT ![cmd_sock] = "leaked"]
  /\ cmd_sock' = None
  /\ mainpc' = "poll"
  /\ UNCHANGED <<poolVars, statVars, consVars, conn, got,
                 unborn, revents, client_sock, pills, stats>>

(* Mutant: the statistics are read without the lock. *)
StatsPagesUnlocked ==
  /\ mainpc = "stats"
  /\ stats' = [stats EXCEPT !.pages = pages_served]
  /\ mainpc' = "stats_bytes"
  /\ UNCHANGED <<poolVars, statVars, consVars, peerVars,
                 unborn, revents, client_sock, pills, cmd_sock>>

(* get_stats_str under mtx2 *)
StatsPages ==
  /\ mainpc = "stats" /\ mtx2 = None
  /\ mtx2' = Main
  /\ stats' = [stats EXCEPT !.pages = pages_served]
  /\ mainpc' = "stats_bytes"
  /\ UNCHANGED <<poolVars, pages_served, total_bytes_sent, consVars, peerVars,
                 unborn, revents, client_sock, pills, cmd_sock>>

StatsBytes ==
  /\ mainpc = "stats_bytes"
  /\ mtx2' = None
  /\ stats' = [stats EXCEPT !.bytes = total_bytes_sent]
  /\ mainpc' = "reply"
  /\ UNCHANGED <<poolVars, pages_served, total_bytes_sent, consVars, peerVars,
                 unborn, revents, client_sock, pills, cmd_sock>>

ReplyCmd ==
  /\ mainpc = "reply"
  /\ cmd' = [cmd EXCEPT ![cmd_sock] = "closed"]
  /\ cmd_sock' = None
  /\ stats' = NoStats
  /\ mainpc' = "poll"
  /\ UNCHANGED <<poolVars, statVars, consVars, conn, got,
                 unborn, revents, client_sock, pills>>

(* exit(3) of read_cmd and send_message, or SIGPIPE, when the commander's connection breaks *)
MainDies ==
  /\ mainpc \in {"read_cmd", "reply"}
  /\ mainpc' = "dead"
  /\ UNCHANGED <<poolVars, statVars, consVars, peerVars,
                 unborn, revents, client_sock, pills, cmd_sock, stats>>

(* Mutant: main joins only one of the threads. *)
JoinOne ==
  /\ mainpc = "join"
  /\ \E c \in Consumers : pc[c] = "exited"
  /\ mainpc' = "stopped"
  /\ UNCHANGED <<poolVars, statVars, consVars, peerVars,
                 unborn, revents, client_sock, pills, cmd_sock, stats>>

Join ==
  /\ mainpc = "join"
  /\ \A c \in Consumers : pc[c] = "exited"
  /\ mainpc' = "stopped"
  /\ UNCHANGED <<poolVars, statVars, consVars, peerVars,
                 unborn, revents, client_sock, pills, cmd_sock, stats>>
-----------------------------------------------------------------------------
(* Mutant: the index of the first socket stays. *)
ObtainKeepsStart(c) ==
  /\ Alive /\ c \notin unborn /\ pc[c] = "obtain" /\ size > 0
  /\ sock' = [sock EXCEPT ![c] = clients_socks[start]]
  /\ size' = size - 1
  /\ pc' = [pc EXCEPT ![c] = "signal"]
  /\ UNCHANGED <<clients_socks, start, end, statVars, mainVars, answer, peerVars>>

(* A consumer thread. *)
Obtain(c) ==
  /\ Alive /\ c \notin unborn /\ pc[c] = "obtain" /\ size > 0
  /\ sock' = [sock EXCEPT ![c] = clients_socks[start]]
  /\ start' = (start + 1) % POOL_SIZE
  /\ size' = size - 1
  /\ pc' = [pc EXCEPT ![c] = "signal"]
  /\ UNCHANGED <<clients_socks, end, statVars, mainVars, answer, peerVars>>

WaitNonempty(c) ==
  /\ Alive /\ c \notin unborn /\ pc[c] = "obtain" /\ size <= 0
  /\ pc' = [pc EXCEPT ![c] = "nonempty"]
  /\ UNCHANGED <<poolVars, statVars, mainVars, sock, answer, peerVars>>

(* pthread_cond_signal(&cond_nonfull), on which only main ever waits *)
SignalNonfull(c) ==
  /\ Alive /\ pc[c] = "signal"
  /\ mainpc' = IF mainpc = "nonfull" THEN "place" ELSE mainpc
  /\ pc' = [pc EXCEPT ![c] = IF sock[c] = Poison THEN "exited" ELSE "read"]
  /\ UNCHANGED <<poolVars, statVars, sock, answer, peerVars,
                 unborn, revents, client_sock, pills, cmd_sock, stats>>

(* the request is read and the answer it deserves is built *)
ReadRequest(c) ==
  /\ Alive /\ pc[c] = "read"
  /\ \E a \in Answers : answer' = [answer EXCEPT ![c] = a]
  /\ pc' = [pc EXCEPT ![c] = "send"]
  /\ UNCHANGED <<poolVars, statVars, mainVars, sock, peerVars>>

(* end of file before the request is complete *)
ClientGone(c) ==
  /\ Alive /\ pc[c] = "read"
  /\ pc' = [pc EXCEPT ![c] = "close"]
  /\ UNCHANGED <<poolVars, statVars, mainVars, sock, answer, peerVars>>

Send(c) ==
  /\ Alive /\ pc[c] = "send"
  /\ got' = [got EXCEPT ![sock[c]] = answer[c]]
  /\ pc' = [pc EXCEPT ![c] = "count"]
  /\ UNCHANGED <<poolVars, statVars, mainVars, sock, answer, conn, cmd>>

(* write() took only a part of the answer: a warning, and no retry *)
SendShort(c) ==
  /\ Alive /\ pc[c] = "send"
  /\ pc' = [pc EXCEPT ![c] = "close"]
  /\ UNCHANGED <<poolVars, statVars, mainVars, sock, answer, peerVars>>

(* A connection reset while it is read or written, an errno other than     *)
(* ENOENT and EACCES (a NULL answer), an empty file and a directory end    *)
(* the process.                                                            *)
ConsumerDies(c) ==
  /\ Alive /\ pc[c] \in {"read", "send"}
  /\ mainpc' = "dead"
  /\ UNCHANGED <<poolVars, statVars, consVars, peerVars,
                 unborn, revents, client_sock, pills, cmd_sock, stats>>

(* Mutant: error answers are counted as pages. *)
CountAnyPage(c) ==
  /\ Alive /\ pc[c] = "count" /\ mtx2 = None
  /\ mtx2' = c
  /\ pages_served' = (pages_served + 1) % UINT_RANGE
  /\ pc' = [pc EXCEPT ![c] = "count_bytes"]
  /\ UNCHANGED <<poolVars, total_bytes_sent, mainVars, sock, answer, peerVars>>

CountPage(c) ==
  /\ Alive /\ pc[c] = "count" /\ mtx2 = None
  /\ mtx2' = c
  /\ pages_served' = (pages_served + IF answer[c] \in Pages THEN 1 ELSE 0) % UINT_RANGE
  /\ pc' = [pc EXCEPT ![c] = "count_bytes"]
  /\ UNCHANGED <<poolVars, total_bytes_sent, mainVars, sock, answer, peerVars>>

CountBytes(c) ==
  /\ Alive /\ pc[c] = "count_bytes"
  /\ mtx2' = None
  /\ total_bytes_sent' =
       (total_bytes_sent + IF answer[c] \in Pages THEN Length[answer[c]] ELSE 0) % UINT_RANGE
  /\ pc' = [pc EXCEPT ![c] = "close"]
  /\ UNCHANGED <<poolVars, pages_served, mainVars, sock, answer, peerVars>>

Close(c) ==
  /\ Alive /\ pc[c] = "close"
  /\ conn' = [conn EXCEPT ![sock[c]] = "closed"]
  /\ sock' = [sock EXCEPT ![c] = None]
  /\ answer' = [answer EXCEPT ![c] = None]
  /\ pc' = [pc EXCEPT ![c] = "obtain"]
  /\ UNCHANGED <<poolVars, statVars, mainVars, got, cmd>>

(* pthread_cond_wait may return without a signal *)
SpuriousWakeup ==
  /\ Alive
  /\ \/ /\ mainpc = "nonfull" /\ mainpc' = "place" /\ UNCHANGED pc
     \/ /\ \E c \in Waiting : pc' = [pc EXCEPT ![c] = "obtain"]
        /\ UNCHANGED mainpc
  /\ UNCHANGED <<poolVars, statVars, sock, answer, peerVars,
                 unborn, revents, client_sock, pills, cmd_sock, stats>>

(* The states the server may rest in for ever: ended, or polling with every peer gone. *)
Rest ==
  /\ \/ ~Alive
     \/ /\ mainpc = "poll" /\ \A c \in Consumers : pc[c] = "nonempty"
        /\ \A k \in Clients : conn[k] = "closed"
        /\ \A k \in Cmds : cmd[k] \in {"closed", "leaked"}
  /\ UNCHANGED vars
-----------------------------------------------------------------------------
MainStep ==
  \/ Spawn \/ Poll \/ Accept \/ Place \/ WaitNonfull \/ SignalClient \/ SignalPill
  \/ AcceptCmd \/ ReadShutdown \/ ReadStats \/ ReadOther \/ ReadDisconnect
  \/ StatsPages \/ StatsBytes \/ ReplyCmd \/ MainDies \/ Join

ConsumerStep(c) ==
  \/ Obtain(c) \/ WaitNonempty(c) \/ SignalNonfull(c) \/ ReadRequest(c) \/ ClientGone(c)
  \/ Send(c) \/ SendShort(c) \/ ConsumerDies(c) \/ CountPage(c) \/ CountBytes(c) \/ Close(c)

Environment ==
  \/ \E k \in Clients : Connect(k)
  \/ \E k \in Cmds : ConnectCmd(k)
  \/ SpuriousWakeup

Next == MainStep \/ (\E c \in Consumers : ConsumerStep(c)) \/ Environment \/ Rest

Spec == Init /\ [][Next]_vars

(* Every thread is scheduled, and a connected peer sends its request or its *)
(* command, or hangs up, in the end: no read() blocks for ever.             *)
FairSpec == Spec /\ WF_vars(MainStep) /\ \A c \in Consumers : WF_vars(ConsumerStep(c))
-----------------------------------------------------------------------------
PoolType ==
  /\ clients_socks \in [Index -> Items \union {None}]
  /\ start \in Index /\ end \in Index \union {-1} /\ size \in 0 .. POOL_SIZE

StatType ==
  /\ mtx2 \in Consumers \union {Main, None}
  /\ pages_served \in 0 .. UINT_RANGE - 1 /\ total_bytes_sent \in 0 .. UINT_RANGE - 1

MainType ==
  /\ mainpc \in {"spawn", "poll", "accept", "place", "nonfull", "signal", "accept_cmd",
                 "read_cmd", "stats", "stats_bytes", "reply", "join", "stopped", "dead"}
  /\ unborn \in SUBSET Consumers /\ revents \in BOOLEAN
  /\ client_sock \in Items \union {None} /\ pills \in 0 .. NThreads
  /\ cmd_sock \in Cmds \union {None}
  /\ stats \in [pages : 0 .. UINT_RANGE - 1, bytes : 0 .. UINT_RANGE - 1]

ConsType ==
  /\ pc \in [Consumers -> {"obtain", "nonempty", "signal", "read", "send", "count",
                           "count_bytes", "close", "exited"}]
  /\ sock \in [Consumers -> Items \union {None}]
  /\ answer \in [Consumers -> Answers \union {None}]

PeerType ==
  /\ conn \in [Clients -> {"away", "backlog", "accepted", "closed"}]
  /\ got \in [Clients -> Answers \union {None}]
  /\ cmd \in [Cmds -> {"away", "backlog", "open", "closed", "leaked"}]

TypeOK == PoolType /\ StatType /\ MainType /\ ConsType /\ PeerType

(* the k-th oldest socket in the ring, k = 0 for the one obtain() takes next *)
Slot(k) == clients_socks[(start + k) % POOL_SIZE]
Queued  == {Slot(k) : k \in 0 .. size - 1}

(* Where an accepted socket can be: in main's hands, in a slot, in a consumer's. *)
HeldByMain == IF mainpc \in {"place", "nonfull"} THEN {client_sock} \ {Poison} ELSE {}
Holds(c)   == {sock[c]} \ {Poison, None}

(* Every accepted, unclosed client socket is in exactly one place: with main *)
(* between accept() and place(), in one live slot of the ring, or with one   *)
(* consumer. So no connection is served twice, closed under a thread that    *)
(* uses it, lost, or overwritten when the ring wraps.                        *)
Ownership ==
  mainpc # "dead" =>
  /\ {k \in Clients : conn[k] = "accepted"}
       = HeldByMain \union (Queued \ {Poison}) \union UNION {Holds(c) : c \in Consumers}
  /\ \A j, k \in 0 .. size - 1 : j # k /\ Slot(j) = Slot(k) => Slot(j) = Poison
  /\ \A c, d \in Consumers : c # d => Holds(c) \intersect Holds(d) = {}
  /\ \A c \in Consumers : Holds(c) \intersect (Queued \union HeldByMain) = {}
  /\ HeldByMain \intersect Queued = {}

(* "all existing clients' requests will be served first": in the ring no     *)
(* client stands behind a -1, and once a thread has taken a -1 no client     *)
(* is left in it. So the process never ends with an accepted client unserved.*)
ShutdownDrains ==
  /\ \A j, k \in 0 .. size - 1 : j < k /\ Slot(j) = Poison => Slot(k) = Poison
  /\ (\E c \in Consumers : sock[c] = Poison) => Queued \subseteq {Poison}
  /\ mainpc = "stopped" => \A k \in Clients : conn[k] # "accepted"

(* When nobody is inside a critical section of mtx2 the counters are exactly *)
(* the number and the bytes of the pages delivered and counted, modulo 2^32: *)
(* no update of one thread is lost under another's, no error page counts.    *)
StatsExact ==
  (mtx2 = None) =>
     /\ pages_served = Cardinality(Delivered \ Uncounted) % UINT_RANGE
     /\ total_bytes_sent = Bytes(Delivered \ Uncounted) % UINT_RANGE

(* The two numbers of one STATS answer describe one and the same set of      *)
(* delivered pages: the reader never sees a page without its bytes.          *)
StatsSnapshot ==
  (mainpc = "reply" /\ stats # NoStats) =>
     \E S \in SUBSET Delivered : /\ stats.pages = Cardinality(S) % UINT_RANGE
                                 /\ stats.bytes = Bytes(S) % UINT_RANGE

(* The statistics, as they are kept and as they are told. *)
StatsRight == StatsExact /\ StatsSnapshot

(* The ring with its wrapping indices behaves as a first-in first-out queue. *)
Queue == INSTANCE BoundedQueue WITH Values <- Items, Capacity <- POOL_SIZE,
                                    queue <- [k \in 1 .. size |-> Slot(k - 1)]
QueueSpec == Queue!Spec

phase ==
  IF ~Alive THEN mainpc
  ELSE IF mainpc = "join" \/ client_sock = Poison THEN "stopping" ELSE "running"

(* The threads together keep the promises made to the clients: each accepted *)
(* connection is answered at most once and closed in the end, and after      *)
(* SHUTDOWN the server stops, unless the process dies.                       *)
Contract == INSTANCE ServerContract
ServerImplementsContract == Contract!Spec
AcceptedIsClosed == Contract!FairSpec
=============================================================================
