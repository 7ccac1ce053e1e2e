---------------------------- MODULE SessionStart ----------------------------
(***************************************************************************)
(* How a search session comes up and goes away: start_search() makes two   *)
(* named pipes for each worker and forks it, open_fifos() of the job       *)
(* executor and the two open()s of a worker meet in them, and a session    *)
(* that ends unlinks them.  The names outlive a process that dies on the   *)
(* way, and its workers may, too.                                          *)
(*                                                                         *)
(* A FIFO is a number given when it is made; a name leads to a FIFO or to  *)
(* none.  A worker is named by its session and its index.                  *)
(***************************************************************************)
EXTENDS Integers, FiniteSets

CONSTANTS N,              \* workers of a session
          MAX_SESSIONS,   \* bound on the sessions, of all processes together
          MAX_CRASHES,    \* bound on the ends of the crawler's process
          MAX_KILLS       \* bound on the workers killed from outside

Workers  == 1 .. N
Sessions == 1 .. MAX_SESSIONS
Names    == 1 .. 2 * N    \* in the order they are made: to and from worker 1, to and from worker 2 ...
None     == 0

To(i)   == 2 * i - 1
From(i) == 2 * i

ASSUME StartAssumption == N \in Nat \ {0} /\ {MAX_SESSIONS, MAX_CRASHES, MAX_KILLS} \subseteq Nat

VARIABLES names, made,              \* the FIFO of each name, the FIFOs ever made
          bpc, k, session,          \* the crawler's process
          handler, pending,         \* sigaction of SIGCHLD, a SIGCHLD not yet delivered
          alive_workers, zombies,
          wpc, at,                  \* each worker, and the FIFO it waits in
          crashed,                  \* a process died in a session and nobody has cleaned up
          crashes, kills

fileVars   == <<names, made>>
bossVars   == <<bpc, k, session>>
signalVars == <<handler, pending, alive_workers, zombies>>
workerVars == <<wpc, at>>
boundVars  == <<crashed, crashes, kills>>
vars == <<fileVars, bossVars, signalVars, workerVars, boundVars>>

Procs == Sessions \X Workers

Mine(i) == <<session, i>>

Init ==
  /\ names = [n \in Names |-> None] /\ made = 0
  /\ bpc = "idle" /\ k = 1 /\ session = 0
  /\ handler = FALSE /\ pending = FALSE /\ alive_workers = {} /\ zombies = {}
  /\ wpc = [p \in Procs |-> "none"] /\ at = [p \in Procs |-> None]
  /\ crashed = FALSE /\ crashes = 0 /\ kills = 0
-----------------------------------------------------------------------------
(* start_search *)
StartSearch ==
  /\ bpc = "idle" /\ session < MAX_SESSIONS
  /\ bpc' = "make" /\ k' = 1 /\ session' = session + 1
  /\ UNCHANGED <<fileVars, signalVars, workerVars, boundVars>>

(* Mutant: a FIFO that is there already is used. *)
MakeFifoAnyway ==
  /\ bpc = "make"
  /\ IF names[k] # None THEN UNCHANGED fileVars
     ELSE /\ names' = [names EXCEPT ![k] = made + 1]
          /\ made' = made + 1
  /\ IF \E i \in Workers : k = From(i) THEN bpc' = "fork" /\ UNCHANGED k
                                       ELSE k' = k + 1 /\ UNCHANGED bpc
  /\ UNCHANGED <<session, signalVars, workerVars, boundVars>>

(* mkfifo, which fails for a name that is there *)
MakeFifo ==
  /\ bpc = "make" /\ names[k] = None
  /\ names' = [names EXCEPT ![k] = made + 1] /\ made' = made + 1
  /\ IF \E i \in Workers : k = From(i) THEN bpc' = "fork" /\ UNCHANGED k
                                       ELSE k' = k + 1 /\ UNCHANGED bpc
  /\ UNCHANGED <<session, signalVars, workerVars, boundVars>>

(* what is left of a process that ends: handlers and marks go, its workers stay *)
ProcessGone(how) ==
  /\ bpc' = how /\ k' = 1
  /\ handler' = FALSE /\ pending' = FALSE /\ alive_workers' = {} /\ zombies' = {}

(* EEXIST: exit(2), with the workers forked so far left alone *)
Refuse ==
  /\ bpc = "make" /\ names[k] # None
  /\ ProcessGone("refused")
  /\ UNCHANGED <<fileVars, session, workerVars, boundVars>>

(* Mutant: the loop over the workers makes one turn too many. *)
ForkOneMore ==
  /\ bpc = "fork"
  /\ LET i == k \div 2 IN
       /\ wpc' = [wpc EXCEPT ![Mine(i)] = "start"]
       /\ IF i <= N THEN bpc' = "make" /\ k' = k + 1 ELSE bpc' = "handlers" /\ k' = 1
  /\ UNCHANGED <<fileVars, session, signalVars, at, boundVars>>

Fork ==
  /\ bpc = "fork"
  /\ LET i == k \div 2 IN
       /\ wpc' = [wpc EXCEPT ![Mine(i)] = "start"]
       /\ IF i < N THEN bpc' = "make" /\ k' = k + 1 ELSE bpc' = "handlers" /\ k' = 1
  /\ UNCHANGED <<fileVars, session, signalVars, at, boundVars>>

(* job_executor: sigaction; it stays for later sessions *)
SetHandler ==
  /\ bpc = "handlers"
  /\ handler' = TRUE /\ bpc' = "marks"
  /\ UNCHANGED <<fileVars, k, session, pending, alive_workers, zombies, workerVars, boundVars>>

(* set_alive_workers *)
SetAliveWorkers ==
  /\ bpc = "marks"
  /\ alive_workers' = Workers /\ bpc' = "test"
  /\ UNCHANGED <<fileVars, k, session, handler, pending, zombies, workerVars, boundVars>>

NextWorker == IF k < N THEN bpc' = "test" /\ k' = k + 1 ELSE bpc' = "on" /\ k' = 1

(* Mutant: the FIFO from a worker is opened first. *)
TestAliveSwapped ==
  /\ bpc = "test"
  /\ IF k \in alive_workers THEN bpc' = "open from" /\ UNCHANGED k ELSE NextWorker
  /\ UNCHANGED <<fileVars, session, signalVars, workerVars, boundVars>>

(* open_fifos: only for a worker with its mark set *)
TestAlive ==
  /\ bpc = "test"
  /\ IF k \in alive_workers THEN bpc' = "open to" /\ UNCHANGED k ELSE NextWorker
  /\ UNCHANGED <<fileVars, session, signalVars, workerVars, boundVars>>

(* each open() waits for the other side to open the same FIFO *)
MeetTo(p) ==
  /\ bpc = "open to" /\ wpc[p] = "open to" /\ at[p] = names[To(k)]
  /\ bpc' = "open from"
  /\ wpc' = [wpc EXCEPT ![p] = "between"]
  /\ UNCHANGED <<fileVars, k, session, signalVars, at, boundVars>>

MeetFrom(p) ==
  /\ bpc = "open from" /\ wpc[p] = "open from" /\ at[p] = names[From(k)]
  /\ NextWorker
  /\ wpc' = [wpc EXCEPT ![p] = "on"]
  /\ UNCHANGED <<fileVars, session, signalVars, at, boundVars>>

(* Mutant: the FIFOs of a worker that died are not unlinked. *)
UnlinkAlive ==
  /\ bpc = "unlink"
  /\ names' = IF (k + 1) \div 2 \in alive_workers THEN names ELSE [names EXCEPT ![k] = None]
  /\ IF k < 2 * N THEN k' = k + 1 /\ UNCHANGED bpc ELSE k' = 1 /\ bpc' = "idle"
  /\ UNCHANGED <<made, session, signalVars, workerVars, boundVars>>

(* the end of job_executor *)
Unlink ==
  /\ bpc = "unlink"
  /\ names' = [names EXCEPT ![k] = None]
  /\ IF k < 2 * N THEN k' = k + 1 /\ UNCHANGED bpc ELSE k' = 1 /\ bpc' = "idle"
  /\ UNCHANGED <<made, session, signalVars, workerVars, boundVars>>

(* /exit: the workers still marked are told, and wait() returns when all have ended *)
Exit ==
  /\ bpc = "on"
  /\ bpc' = "exit"
  /\ UNCHANGED <<fileVars, k, session, signalVars, workerVars, boundVars>>

Reaped ==
  /\ bpc = "exit" /\ \A i \in Workers : wpc[Mine(i)] = "gone"
  /\ zombies' = {} /\ bpc' = "unlink"
  /\ UNCHANGED <<fileVars, k, session, handler, pending, alive_workers, workerVars, boundVars>>

(* worker_died, in any state of the process *)
WorkerDied ==
  /\ pending /\ bpc \notin {"off", "refused"}
  /\ pending' = FALSE /\ zombies' = {}
  /\ alive_workers' = alive_workers \ {i \in Workers : Mine(i) \in zombies}
  /\ UNCHANGED <<fileVars, bossVars, handler, workerVars, boundVars>>

(* Between two calls of job_executor alive_workers points to memory that was freed, *)
(* or is NULL: the handler that writes there may end the process.                   *)
HandlerCrashes ==
  /\ pending /\ bpc \in {"make", "fork", "handlers", "marks"} /\ zombies # {}
  /\ ProcessGone("off")
  /\ crashed' = TRUE
  /\ UNCHANGED <<fileVars, session, workerVars, crashes, kills>>
-----------------------------------------------------------------------------
(* worker() *)
Gone(p) ==
  /\ wpc' = [wpc EXCEPT ![p] = "gone"]
  /\ IF bpc \notin {"off", "refused"} /\ p[1] = session
     THEN zombies' = zombies \union {p} /\ pending' = (pending \/ handler)
     ELSE UNCHANGED <<zombies, pending>>

(* the name is looked up when open() is called; without it the worker exits *)
Lookup(p, name, state) ==
  IF names[name] = None THEN Gone(p) /\ UNCHANGED at
  ELSE /\ wpc' = [wpc EXCEPT ![p] = state]
       /\ at' = [at EXCEPT ![p] = names[name]]
       /\ UNCHANGED <<pending, zombies>>

OpenTo(p) ==
  /\ wpc[p] = "start"
  /\ Lookup(p, To(p[2]), "open to")
  /\ UNCHANGED <<fileVars, bossVars, handler, alive_workers, boundVars>>

OpenFrom(p) ==
  /\ wpc[p] = "between"
  /\ Lookup(p, From(p[2]), "open from")
  /\ UNCHANGED <<fileVars, bossVars, handler, alive_workers, boundVars>>

(* a worker ends after /exit, and at the end of file when its process is gone *)
WorkerEnds(p) ==
  /\ wpc[p] = "on" /\ (p[1] # session \/ bpc \in {"exit", "off", "refused"})
  /\ Gone(p)
  /\ UNCHANGED <<fileVars, bossVars, handler, alive_workers, at, boundVars>>
-----------------------------------------------------------------------------
(* The world around the process. *)
Kill(p) ==
  /\ kills < MAX_KILLS /\ wpc[p] \notin {"none", "gone"}
  /\ kills' = kills + 1
  /\ Gone(p)
  /\ UNCHANGED <<fileVars, bossVars, handler, alive_workers, at, crashed, crashes>>

Crash ==
  /\ crashes < MAX_CRASHES /\ bpc \notin {"off", "refused"}
  /\ crashes' = crashes + 1
  /\ ProcessGone("off")
  /\ crashed' = (crashed \/ bpc # "idle")
  /\ UNCHANGED <<fileVars, session, workerVars, kills>>

Restart ==
  /\ bpc \in {"off", "refused"}
  /\ bpc' = "idle"
  /\ UNCHANGED <<fileVars, k, session, signalVars, workerVars, boundVars>>

(* make cleanfifos, by a user who waits until the workers of a dead process rest in open() *)
CleanFifos ==
  /\ bpc \in {"off", "refused"} /\ \A p \in Procs : wpc[p] \notin {"start", "between"}
  /\ names' = [n \in Names |-> None] /\ crashed' = FALSE
  /\ bpc' = "off"
  /\ UNCHANGED <<made, k, session, signalVars, workerVars, crashes, kills>>

BossStep ==
  \/ MakeFifo \/ Refuse \/ Fork \/ SetHandler \/ SetAliveWorkers \/ TestAlive
  \/ Reaped \/ Unlink \/ WorkerDied

Next ==
  \/ BossStep \/ StartSearch \/ Exit \/ HandlerCrashes \/ Crash \/ Restart \/ CleanFifos
  \/ \E p \in Procs : MeetTo(p) \/ MeetFrom(p) \/ OpenTo(p) \/ OpenFrom(p) \/ WorkerEnds(p) \/ Kill(p)

(* the process and its workers go on; commanders, crashes and kills are not forced *)
Fairness ==
  /\ WF_vars(BossStep)
  /\ \A p \in Procs : /\ WF_vars(MeetTo(p)) /\ WF_vars(MeetFrom(p))
                      /\ WF_vars(OpenTo(p)) /\ WF_vars(OpenFrom(p)) /\ WF_vars(WorkerEnds(p))

Spec     == Init /\ [][Next]_vars
FairSpec == Spec /\ Fairness
-----------------------------------------------------------------------------
TypeOK ==
  /\ made \in Nat /\ names \in [Names -> 0 .. made]
  /\ bpc \in {"idle", "make", "fork", "handlers", "marks", "test", "open to", "open from", "on",
              "exit", "unlink", "refused", "off"}
  /\ k \in Names /\ session \in 0 .. MAX_SESSIONS
  /\ handler \in BOOLEAN /\ pending \in BOOLEAN /\ crashed \in BOOLEAN
  /\ alive_workers \subseteq Workers /\ zombies \subseteq Procs
  /\ wpc \in [Procs -> {"none", "start", "open to", "between", "open from", "on", "gone"}]
  /\ at \in [Procs -> 0 .. made]
  /\ crashes \in 0 .. MAX_CRASHES /\ kills \in 0 .. MAX_KILLS

(***************************************************************************)
(* The job executor is joined to its own workers only: no FIFO it may open *)
(* is one in which a worker of an earlier process still waits, though the  *)
(* names are the same in every session and such workers wait for ever.     *)
(* That mkfifo refuses names that are there is what makes it so.           *)
(***************************************************************************)
OwnWorkers ==
  /\ TypeOK
  /\ bpc \in {"test", "open to", "open from"} =>
       \A i \in Workers, p \in Procs :
         wpc[p] \in {"open to", "open from"} /\ at[p] \in {names[To(i)], names[From(i)]} => p = Mine(i)

(***************************************************************************)
(* SEARCH is refused only when the process, or one before it, has died in  *)
(* a session: a session that ends with /exit leaves nothing in the way of  *)
(* the next, whichever of its workers were killed.                         *)
(***************************************************************************)
RefusedAfterCrash == bpc = "refused" => crashed

(***************************************************************************)
(* A session that starts comes up, is refused or ends with its process,    *)
(* unless a worker dies before the two have met: the two sides go through  *)
(* their open()s in the same order and never wait for each other in        *)
(* different FIFOs.  The job executor waits for a dead worker if it died   *)
(* before its mark was set (jobexec.cpp:542), or after the mark was tested *)
(* (jobexec.cpp:575).                                                      *)
(***************************************************************************)
SessionComesUp ==
  bpc = "make" ~> \/ bpc \in {"on", "refused", "off"}
                  \/ bpc \in {"open to", "open from"} /\ wpc[Mine(k)] = "gone"
=============================================================================
