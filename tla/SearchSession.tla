--------------------------- MODULE SearchSession ---------------------------
(***************************************************************************)
(* A SEARCH session of the crawler: start_search() forks N workers, each   *)
(* joined to the job executor (the boss) by two FIFOs; the boss hands them *)
(* the directories of the downloaded sites and serves the commander until  *)
(* /exit.  The process may run several sessions, one after the other.      *)
(*                                                                         *)
(* What one send_msg or send_int_number writes is one element of a FIFO.   *)
(* A read at end of file leaves its variable uninitialized: any value.     *)
(***************************************************************************)
EXTENDS Integers, FiniteSets, Sequences, SequencesExt

CONSTANTS N,              \* workers of a session, 5 in crawler_main.cpp
          Dirs,           \* get_dirs: the directories, a sequence without duplicates
          MayBeMissing,   \* those of them in which perhaps no page was ever saved
          Hits,           \* Hits[d][q]: the lines under directory d with the word q
          Requests,       \* the words commanders type after /search
          PIPE,           \* messages a FIFO holds
          MAX_SESSIONS,   \* bound on the sessions
          MAX_KILLS,      \* bound on the workers killed from outside
          GarbageCounts,  \* what an uninitialized int may hold
          Garbage,        \* what an uninitialized string may hold
          None

Workers == 1 .. N

Vocabulary == UNION {Range(words) : words \in Requests}

ASSUME SessionAssumption ==
  /\ N \in Nat \ {0} /\ PIPE \in Nat \ {0}
  /\ MAX_SESSIONS \in Nat /\ MAX_KILLS \in Nat
  /\ Dirs \in Seq(Range(Dirs)) /\ IsInjective(Dirs) /\ MayBeMissing \subseteq Range(Dirs)
  /\ \A words \in Requests : words \in Seq(Vocabulary) /\ words # <<>>
  /\ \A d \in Range(Dirs), q \in Vocabulary : IsFiniteSet(Hits[d][q]) /\ None \notin Hits[d][q]
  /\ GarbageCounts \subseteq Int

VARIABLES fifos,                                      \* workers whose FIFOs exist as files
          missing,                                    \* directories that do not exist
          bpc, task, outbox, expect, queries,         \* the boss
          printed, none_query_found,                  \* what the commander is sent
          alive_workers, some_worker_died, timeout,   \* set by signal handlers
          sigchld, zombies,                           \* a pending SIGCHLD, unreaped children
          wpc, wdirs, need, asked, reply,             \* each worker
          down, up,                                   \* FIFOs to and from each worker
          sessions, kills

envVars    == <<fifos, missing, sessions, kills>>
bossVars   == <<bpc, task, outbox, expect, queries>>
answerVars == <<printed, none_query_found>>
signalVars == <<alive_workers, some_worker_died, timeout, sigchld, zombies>>
workerVars == <<wpc, wdirs, need, asked, reply>>
vars == <<envVars, bossVars, answerVars, signalVars, workerVars, down, up>>

Msg(k, v) == [kind |-> k, val |-> v]
Gone(i)   == wpc[i] \in {"closed", "ended"}

(* A loop over the workers goes through what is left for each of them, worker by worker. *)
Done(box) == \A i \in Workers : box[i] = <<>>
Turn(box) == CHOOSE i \in Workers : box[i] # <<>> /\ \A j \in 1 .. i - 1 : box[j] = <<>>
Nothing   == [i \in Workers |-> <<>>]

(* Mutant: the extra directories of the earlier workers are forgotten. *)
FirstNoExtra(i) == (i - 1) * (Len(Dirs) \div N)

(* n_dirs / N directories for each worker, one more for each of the first n_dirs % N *)
Share(i) == Len(Dirs) \div N + IF i <= Len(Dirs) % N THEN 1 ELSE 0
First(i) == (i - 1) * (Len(Dirs) \div N)
            + IF i - 1 <= Len(Dirs) % N THEN i - 1 ELSE Len(Dirs) % N
DirsOf(i) == [k \in 1 .. Share(i) |-> Dirs[First(i) + k]]

(* get_unq_search_queries: each word once, in the order typed *)
Unique(words) ==
  LET unq[k \in 0 .. Len(words)] ==
        IF k = 0 THEN <<>>
        ELSE IF words[k] \in Range(unq[k - 1]) THEN unq[k - 1]
        ELSE Append(unq[k - 1], words[k])
  IN  unq[Len(words)]

(* the lines a worker that loaded the directories D finds for the words Q, each line once *)
Found(D, Q) == UNION {Hits[d][q] : d \in D, q \in Q}

DirLetter(i) == [k \in DOMAIN DirsOf(i) |-> Msg("dir", DirsOf(i)[k])] \o <<Msg("sent", None)>>
SearchLetter(qs) ==
  <<Msg("cmd", "/search"), Msg("count", Len(qs))>> \o [k \in DOMAIN qs |-> Msg("query", qs[k])]

(* Mutant: only two of the three numbers of /wc are read. *)
KindsShort(t) ==
  CASE t = "dirs"      -> <<"msg">>
    [] t = "/search"   -> <<"n">>
    [] t = "/wc"       -> <<"int", "int">>
    [] t = "/maxcount" -> <<"msg", "int">>
    [] t = "/exit"     -> <<"int">>
    [] t = "exit"      -> <<>>

(* the values the boss reads from each worker after the letter of a task; "n" is read_search_answers' *)
Kinds(t) ==
  CASE t = "dirs"      -> <<"msg">>
    [] t = "/search"   -> <<"n">>
    [] t = "/wc"       -> <<"int", "int", "int">>
    [] t = "/maxcount" -> <<"msg", "int">>
    [] t = "/exit"     -> <<"int">>
    [] t = "exit"      -> <<>>

(* each answer of a search is a path, an index and a line *)
Part(k)  == IF k % 3 = 1 THEN "path" ELSE IF k % 3 = 2 THEN "index" ELSE "line"
Parts(v) == [k \in 1 .. 3 * v |-> Part(k)]
LineAnswers(lines) ==
  [k \in 1 .. 3 * Len(lines) |-> Msg(Part(k), IF k % 3 = 0 THEN lines[k \div 3] ELSE None)]

(* the values a worker answers a command with; those of /search follow its queries *)
Replies(cmd) ==
  CASE cmd = "/search"   -> <<>>
    [] cmd = "/wc"       -> <<Msg("int", None), Msg("int", None), Msg("int", None)>>
    [] cmd = "/maxcount" -> <<Msg("msg", None), Msg("int", None)>>
    [] cmd = "/exit"     -> <<Msg("int", None)>>
-----------------------------------------------------------------------------
Init ==
  /\ fifos = {} /\ missing \in SUBSET MayBeMissing /\ sessions = 0 /\ kills = 0
  /\ bpc = "idle" /\ task = None /\ outbox = Nothing /\ expect = Nothing /\ queries = <<>>
  /\ printed = {} /\ none_query_found = TRUE
  /\ alive_workers = [i \in Workers |-> FALSE] /\ some_worker_died = FALSE
  /\ timeout = FALSE /\ sigchld = FALSE /\ zombies = {}
  /\ wpc = [i \in Workers |-> "none"] /\ wdirs = [i \in Workers |-> <<>>]
  /\ need = [i \in Workers |-> 0] /\ asked = [i \in Workers |-> {}]
  /\ reply = [i \in Workers |-> <<>>]
  /\ down = [i \in Workers |-> <<>>] /\ up = [i \in Workers |-> <<>>]

(* Mutant: the answers are read before the letters are written. *)
BeginReading(t, letters) == task' = t /\ outbox' = letters /\ expect' = Nothing /\ bpc' = "read"

(* The loops over the workers of a task: first all letters are written, then all values read. *)
Begin(t, letters) == task' = t /\ outbox' = letters /\ expect' = Nothing /\ bpc' = "send"

(* start_search: mkfifo and fork, worker by worker *)
StartSearch ==
  /\ bpc = "idle" /\ sessions < MAX_SESSIONS
  /\ sessions' = sessions + 1
  /\ bpc' = "fork"
  /\ UNCHANGED <<fifos, missing, kills, task, outbox, expect, queries, answerVars, signalVars,
                 workerVars, down, up>>

ForkWorker ==
  LET i == Cardinality(fifos) + 1
  IN  /\ bpc = "fork"
      /\ fifos' = fifos \union {i}
      /\ wpc' = [wpc EXCEPT ![i] = "open"]
      /\ IF i < N THEN UNCHANGED <<bpc, alive_workers>>
         ELSE bpc' = "open" /\ alive_workers' = [j \in Workers |-> TRUE]
  /\ UNCHANGED <<missing, sessions, kills, task, outbox, expect, queries, answerVars, some_worker_died,
                 timeout, sigchld, zombies, wdirs, need, asked, reply, down, up>>

(* open_fifos: each open() of a FIFO waits for the other side's, so the two *)
(* sides go through their two open()s together, worker by worker            *)
OpenFifos(i) ==
  /\ bpc = "open" /\ wpc[i] = "open" /\ \A j \in 1 .. i - 1 : wpc[j] # "open"
  /\ wpc' = [wpc EXCEPT ![i] = "load"]
  /\ IF i < N THEN UNCHANGED bossVars
     ELSE Begin("dirs", [j \in Workers |-> DirLetter(j)]) /\ UNCHANGED queries
  /\ UNCHANGED <<envVars, answerVars, signalVars, wdirs, need, asked, reply, down, up>>
-----------------------------------------------------------------------------
(* Each message is written, each value read, after a test of its worker's    *)
(* mark; a worker that ends behind the test is found out by write() or read().*)
TestAlive ==
  /\ \/ bpc = "send" /\ alive_workers[Turn(outbox)] /\ bpc' = "write"
     \/ bpc = "read" /\ alive_workers[Turn(expect)] /\ bpc' = "get"
  /\ UNCHANGED <<envVars, task, outbox, expect, queries, answerVars, signalVars,
                 workerVars, down, up>>

AfterWrite ==
  /\ outbox' = [outbox EXCEPT ![Turn(outbox)] = Tail(@)]
  /\ expect' = IF Done(outbox') THEN [i \in Workers |-> Kinds(task)] ELSE Nothing
  /\ bpc' = IF ~Done(outbox') THEN "send" ELSE IF ~Done(expect') THEN "read" ELSE "wait"
  /\ UNCHANGED <<task, queries>>

Write ==
  LET i == Turn(outbox)
  IN  /\ bpc = "write" /\ ~Gone(i) /\ Len(down[i]) < PIPE
      /\ down' = [down EXCEPT ![i] = Append(@, Head(outbox[i]))]
      /\ AfterWrite
      /\ UNCHANGED <<envVars, answerVars, signalVars, workerVars, up>>

WriteSkipped ==
  /\ bpc = "send" /\ ~alive_workers[Turn(outbox)]
  /\ AfterWrite
  /\ UNCHANGED <<envVars, answerVars, signalVars, workerVars, down, up>>

(* EPIPE: exit(4) *)
WriteFails ==
  /\ bpc = "write" /\ Gone(Turn(outbox))
  /\ bpc' = "dead"
  /\ UNCHANGED <<envVars, task, outbox, expect, queries, answerVars, signalVars,
                 workerVars, down, up>>

(* Mutant: the answers are not read to their end when the time is out. *)
AfterReadGivesUp(v) ==
  LET i    == Turn(expect)
      kind == Head(expect[i])
  IN  /\ none_query_found' = (none_query_found /\ ~(kind = "n" /\ v > 0))
      /\ printed' = printed \union
           IF kind = "line" /\ v # None /\ ~timeout /\ ~some_worker_died THEN {v} ELSE {}
      /\ expect' = [expect EXCEPT ![i] = (IF kind = "n" /\ ~timeout THEN Parts(v) ELSE <<>>) \o Tail(@)]
      /\ bpc' = IF ~Done(expect') THEN "read"
                ELSE CASE task = "/search" -> "verdict"
                       [] task = "/exit"   -> "bye"
                       [] OTHER            -> "prompt"
      /\ UNCHANGED <<task, outbox, queries>>

(* The boss reads the next value v. A positive number of answers is followed *)
(* by a path, an index and a line for each; the line goes to the commander   *)
(* unless the time is out or a worker is known to have died.                 *)
AfterRead(v) ==
  LET i    == Turn(expect)
      kind == Head(expect[i])
  IN  /\ none_query_found' = (none_query_found /\ ~(kind = "n" /\ v > 0))
      /\ printed' = printed \union
           IF kind = "line" /\ v # None /\ ~timeout /\ ~some_worker_died THEN {v} ELSE {}
      /\ expect' = [expect EXCEPT ![i] = (IF kind = "n" THEN Parts(v) ELSE <<>>) \o Tail(@)]
      /\ bpc' = IF ~Done(expect') THEN "read"
                ELSE CASE task = "/search" -> "verdict"
                       [] task = "/exit"   -> "bye"
                       [] OTHER            -> "prompt"
      /\ UNCHANGED <<task, outbox, queries>>

Read ==
  LET i == Turn(expect)
  IN  /\ bpc = "get" /\ up[i] # <<>>
      /\ up' = [up EXCEPT ![i] = Tail(@)]
      /\ AfterRead(Head(up[i]).val)
      /\ UNCHANGED <<envVars, signalVars, workerVars, down>>

(* the variables keep what they are initialized with: -1 answers, a NULL line *)
ReadSkipped ==
  /\ bpc = "read" /\ ~alive_workers[Turn(expect)]
  /\ AfterRead(IF Head(expect[Turn(expect)]) = "n" THEN -1 ELSE None)
  /\ UNCHANGED <<envVars, signalVars, workerVars, down, up>>

(* end of file: the worker is gone *)
AtEndOfFile == bpc = "get" /\ up[Turn(expect)] = <<>> /\ Gone(Turn(expect))

ReadGarbage ==
  /\ AtEndOfFile
  /\ \E v \in (IF Head(expect[Turn(expect)]) = "n" THEN GarbageCounts ELSE {Garbage, None}) : AfterRead(v)
  /\ UNCHANGED <<envVars, signalVars, workerVars, down, up>>

(* alarm(0): the end of read_search_answers *)
Verdict ==
  /\ bpc = "verdict"
  /\ timeout' = FALSE
  /\ bpc' = "prompt"
  /\ UNCHANGED <<envVars, task, outbox, expect, queries, answerVars, alive_workers,
                 some_worker_died, sigchld, zombies, workerVars, down, up>>
-----------------------------------------------------------------------------
(* The commander's commands. An unknown one, a /search without words and an  *)
(* end of file all lead back to the prompt and change nothing.               *)
ReadSearch ==
  /\ bpc = "prompt"
  /\ \E words \in Requests :
       /\ queries' = Unique(words)
       /\ Begin("/search", [i \in Workers |-> SearchLetter(queries')])
  /\ printed' = {} /\ none_query_found' = TRUE
  /\ UNCHANGED <<envVars, signalVars, workerVars, down, up>>

(* /mincount goes the way of /maxcount *)
ReadWord(t) ==
  /\ bpc = "prompt" /\ t \in {"/wc", "/maxcount", "/exit"}
  /\ Begin(t, [i \in Workers |-> <<Msg("cmd", t)>>])
  /\ UNCHANGED <<envVars, queries, answerVars, signalVars, workerVars, down, up>>

(* the second round of /exit *)
SayExit ==
  /\ bpc = "bye"
  /\ Begin("exit", [i \in Workers |-> <<Msg("cmd", "exit")>>])
  /\ UNCHANGED <<envVars, queries, answerVars, signalVars, workerVars, down, up>>

(* while (wait(NULL) > 0), then close and unlink *)
Reap ==
  /\ bpc = "wait"
  /\ \E i \in zombies : zombies' = zombies \ {i}
  /\ UNCHANGED <<envVars, bossVars, answerVars, alive_workers, some_worker_died, timeout,
                 sigchld, workerVars, down, up>>

EndSession ==
  /\ bpc = "wait" /\ zombies = {} /\ \A i \in Workers : wpc[i] = "ended"
  /\ bpc' = "idle" /\ task' = None
  /\ fifos' = {}
  /\ wpc' = [i \in Workers |-> "none"] /\ wdirs' = [i \in Workers |-> <<>>]
  /\ need' = [i \in Workers |-> 0] /\ asked' = [i \in Workers |-> {}]
  /\ reply' = [i \in Workers |-> <<>>]
  /\ down' = [i \in Workers |-> <<>>] /\ up' = [i \in Workers |-> <<>>]
  /\ UNCHANGED <<missing, sessions, kills, outbox, expect, queries, answerVars, signalVars>>

(* exit(3) of read_cmd or send_message, when the commander's connection    *)
(* breaks; a crash on an empty line or on a string that was never read       *)
BossDies ==
  /\ bpc = "prompt" \/ (task = "/search" /\ bpc \in {"read", "get", "verdict"}) \/ AtEndOfFile
  /\ bpc' = "dead"
  /\ UNCHANGED <<envVars, task, outbox, expect, queries, answerVars, signalVars,
                 workerVars, down, up>>
-----------------------------------------------------------------------------
(* The signal handlers: worker_died reaps every zombie; alarm_handler. *)
WorkerDied ==
  /\ bpc # "dead" /\ sigchld
  /\ sigchld' = FALSE /\ zombies' = {}
  /\ alive_workers' = [i \in Workers |-> alive_workers[i] /\ i \notin zombies]
  /\ some_worker_died' = TRUE
  /\ UNCHANGED <<envVars, bossVars, answerVars, timeout, workerVars, down, up>>

Alarm ==
  /\ bpc \in {"read", "get", "verdict"} /\ task = "/search" /\ ~timeout
  /\ timeout' = TRUE
  /\ UNCHANGED <<envVars, bossVars, answerVars, alive_workers, some_worker_died, sigchld,
                 zombies, workerVars, down, up>>
-----------------------------------------------------------------------------
(* A worker. *)
Receive(i, state) ==
  /\ bpc # "dead" /\ wpc[i] = state /\ down[i] # <<>>
  /\ down' = [down EXCEPT ![i] = Tail(@)]

(* opendir() of a directory that does not exist ends the worker *)
Load(i) ==
  LET m == Head(down[i])
  IN  /\ Receive(i, "load")
      /\ IF m.kind = "sent"
         THEN /\ wpc' = [wpc EXCEPT ![i] = "answer"]
              /\ reply' = [reply EXCEPT ![i] = <<Msg("msg", "finished_preprocessing")>>]
              /\ UNCHANGED wdirs
         ELSE /\ IF m.val \in missing
                 THEN wpc' = [wpc EXCEPT ![i] = "closed"] /\ UNCHANGED wdirs
                 ELSE wdirs' = [wdirs EXCEPT ![i] = Append(@, m.val)] /\ UNCHANGED wpc
              /\ UNCHANGED reply
      /\ UNCHANGED <<envVars, bossVars, answerVars, signalVars, need, asked, up>>

GetCommand(i) ==
  LET cmd == Head(down[i]).val
  IN  /\ Receive(i, "ready")
      /\ wpc' = [wpc EXCEPT ![i] = CASE cmd = "/search" -> "number"
                                     [] cmd = "/exit"   -> "last_answer"
                                     [] OTHER           -> "answer"]
      /\ reply' = [reply EXCEPT ![i] = Replies(cmd)]
      /\ UNCHANGED <<envVars, bossVars, answerVars, signalVars, wdirs, need, asked, up>>

(* Mutant: the words of the last search are kept. *)
GetNumberKeeps(i) ==
  /\ Receive(i, "number")
  /\ need' = [need EXCEPT ![i] = Head(down[i]).val]
  /\ wpc' = [wpc EXCEPT ![i] = "queries"]
  /\ UNCHANGED <<envVars, bossVars, answerVars, signalVars, wdirs, asked, reply, up>>

GetNumber(i) ==
  /\ Receive(i, "number")
  /\ need' = [need EXCEPT ![i] = Head(down[i]).val]
  /\ asked' = [asked EXCEPT ![i] = {}]
  /\ wpc' = [wpc EXCEPT ![i] = "queries"]
  /\ UNCHANGED <<envVars, bossVars, answerVars, signalVars, wdirs, reply, up>>

(* Mutant: one query too many is waited for. *)
GetQueryWaits(i) ==
  LET lines == SetToSeq(Found(Range(wdirs[i]), asked'[i]))
  IN  /\ Receive(i, "queries")
      /\ need' = [need EXCEPT ![i] = @ - 1]
      /\ asked' = [asked EXCEPT ![i] = @ \union {Head(down[i]).val}]
      /\ IF need[i] > 0 THEN UNCHANGED <<wpc, reply>>
         ELSE /\ wpc' = [wpc EXCEPT ![i] = "answer"]
              /\ reply' = [reply EXCEPT ![i] = <<Msg("n", Len(lines))>>]
      /\ UNCHANGED <<envVars, bossVars, answerVars, signalVars, wdirs, up>>

(* Mutant: only the last word is searched for. *)
GetQueryLast(i) ==
  LET lines == SetToSeq(Found(Range(wdirs[i]), asked'[i]))
  IN  /\ Receive(i, "queries")
      /\ need' = [need EXCEPT ![i] = @ - 1]
      /\ asked' = [asked EXCEPT ![i] = {Head(down[i]).val}]
      /\ IF need[i] > 1 THEN UNCHANGED <<wpc, reply>>
         ELSE /\ wpc' = [wpc EXCEPT ![i] = "answer"]
              /\ reply' = [reply EXCEPT ![i] = <<Msg("n", Len(lines))>> \o LineAnswers(lines)]
      /\ UNCHANGED <<envVars, bossVars, answerVars, signalVars, wdirs, up>>

(* the last query is followed by the search, whose answers are the lines found, each once *)
GetQuery(i) ==
  LET lines == SetToSeq(Found(Range(wdirs[i]), asked'[i]))
  IN  /\ Receive(i, "queries")
      /\ need' = [need EXCEPT ![i] = @ - 1]
      /\ asked' = [asked EXCEPT ![i] = @ \union {Head(down[i]).val}]
      /\ IF need[i] > 1 THEN UNCHANGED <<wpc, reply>>
         ELSE /\ wpc' = [wpc EXCEPT ![i] = "answer"]
              /\ reply' = [reply EXCEPT ![i] = <<Msg("n", Len(lines))>> \o LineAnswers(lines)]
      /\ UNCHANGED <<envVars, bossVars, answerVars, signalVars, wdirs, up>>

Answer(i) ==
  /\ bpc # "dead" /\ wpc[i] \in {"answer", "last_answer"} /\ Len(up[i]) < PIPE
  /\ up' = [up EXCEPT ![i] = Append(@, Head(reply[i]))]
  /\ reply' = [reply EXCEPT ![i] = Tail(@)]
  /\ wpc' = [wpc EXCEPT ![i] = IF Len(reply[i]) > 1 THEN @
                               ELSE IF @ = "answer" THEN "ready" ELSE "bye"]
  /\ UNCHANGED <<envVars, bossVars, answerVars, signalVars, wdirs, need, asked, down>>

GetExit(i) ==
  /\ Receive(i, "bye")
  /\ wpc' = [wpc EXCEPT ![i] = "closed"]
  /\ UNCHANGED <<envVars, bossVars, answerVars, signalVars, wdirs, need, asked, reply, up>>

(* the exit of a process: its files are closed first, then its parent gets a SIGCHLD *)
Notify(i) ==
  /\ bpc # "dead" /\ wpc[i] = "closed"
  /\ wpc' = [wpc EXCEPT ![i] = "ended"]
  /\ zombies' = zombies \union {i} /\ sigchld' = TRUE
  /\ UNCHANGED <<envVars, bossVars, answerVars, alive_workers, some_worker_died, timeout,
                 wdirs, need, asked, reply, down, up>>

(* A worker is killed once its FIFOs are open. *)
Kill(i) ==
  /\ bpc # "dead" /\ kills < MAX_KILLS
  /\ wpc[i] \notin {"none", "open", "closed", "ended"}
  /\ kills' = kills + 1
  /\ wpc' = [wpc EXCEPT ![i] = "closed"]
  /\ UNCHANGED <<fifos, missing, sessions, bossVars, answerVars, signalVars, wdirs, need, asked,
                 reply, down, up>>

Rest == (bpc = "dead" \/ (bpc = "idle" /\ sessions = MAX_SESSIONS)) /\ UNCHANGED vars
-----------------------------------------------------------------------------
BossStep ==
  \/ StartSearch \/ ForkWorker \/ TestAlive \/ Write \/ WriteSkipped \/ WriteFails
  \/ Read \/ ReadSkipped \/ ReadGarbage \/ Verdict
  \/ ReadSearch \/ (\E t \in {"/wc", "/maxcount", "/exit"} : ReadWord(t)) \/ SayExit
  \/ Reap \/ EndSession
  \/ \E i \in Workers : OpenFifos(i)

WorkerStep(i) ==
  \/ Load(i) \/ GetCommand(i) \/ GetNumber(i) \/ GetQuery(i) \/ Answer(i) \/ GetExit(i)
  \/ Notify(i)

Next ==
  \/ BossStep \/ BossDies
  \/ WorkerDied \/ Alarm
  \/ \E i \in Workers : WorkerStep(i) \/ Kill(i)
  \/ Rest

Spec == Init /\ [][Next]_vars

(* The boss and the workers are scheduled, and a signal is handled in the end. *)
FairSpec ==
  Spec /\ WF_vars(BossStep) /\ WF_vars(WorkerDied) /\ \A i \in Workers : WF_vars(WorkerStep(i))
-----------------------------------------------------------------------------
TypeOK ==
  /\ fifos \in SUBSET Workers /\ missing \in SUBSET MayBeMissing
  /\ bpc \in {"idle", "fork", "open", "send", "write", "read", "get", "verdict", "prompt", "bye", "wait", "dead"}
  /\ task \in {"dirs", "/search", "/wc", "/maxcount", "/exit", "exit", None}
  /\ alive_workers \in [Workers -> BOOLEAN] /\ zombies \in SUBSET Workers
  /\ some_worker_died \in BOOLEAN /\ timeout \in BOOLEAN /\ sigchld \in BOOLEAN
  /\ none_query_found \in BOOLEAN
  /\ wpc \in [Workers -> {"none", "open", "load", "ready", "number", "queries", "answer",
                          "last_answer", "bye", "closed", "ended"}]
  /\ \A i \in Workers : Len(down[i]) \in 0 .. PIPE /\ Len(up[i]) \in 0 .. PIPE
  /\ need \in [Workers -> Nat]
  /\ (bpc \in {"send", "write"} => ~Done(outbox)) /\ (bpc \in {"read", "get"} => ~Done(expect))

Inhabited == Range(Dirs) \ missing
Expected == Found(Inhabited, Range(queries))
AllUp    == \A i \in Workers : ~Gone(i)

(* The two sides of every FIFO agree on what comes next: a worker never      *)
(* takes a number for a command or a query for a number, the boss never the  *)
(* index of a line for the number of answers, whatever worker died before    *)
(* and whatever alarm went off.                                              *)
InSync ==
  /\ LET i == Turn(expect)
     IN  (bpc = "get" /\ up[i] # <<>>) => Head(up[i]).kind = Head(expect[i])
  /\ \A i \in Workers : down[i] # <<>> =>
        LET kind == Head(down[i]).kind
        IN  /\ wpc[i] = "load" => kind \in {"dir", "sent"}
            /\ wpc[i] \in {"ready", "bye"} => kind = "cmd"
            /\ wpc[i] = "number" => kind = "count"
            /\ wpc[i] = "queries" => kind = "query"

(* When the boss asks the commander for a command no message of an earlier   *)
(* one is left in the FIFOs of a live worker, and every live worker waits.   *)
NothingLeftOver ==
  bpc = "prompt" =>
     \A i \in Workers : ~Gone(i) => down[i] = <<>> /\ up[i] = <<>> /\ wpc[i] = "ready"

(* The directories are dealt out completely: when the workers are ready each *)
(* directory is loaded by exactly one of them, none by two, and no worker    *)
(* has two directories more than another.                                    *)
Distributed ==
  (bpc = "prompt" /\ AllUp) =>
     /\ \A d \in Range(Dirs) : \E i \in Workers : \E k \in DOMAIN wdirs[i] :
          /\ wdirs[i][k] = d
          /\ \A j \in Workers : \A m \in DOMAIN wdirs[j] : wdirs[j][m] = d => <<j, m>> = <<i, k>>
     /\ \A i, j \in Workers : Len(wdirs[i]) <= Len(wdirs[j]) + 1

(* A search that met no timeout, in a process no worker of which has ended   *)
(* yet, sends the commander exactly the lines that contain one of the words, *)
(* and says that no word was found exactly when there are none.              *)
AnswersExact ==
  (bpc = "verdict" /\ ~timeout /\ ~some_worker_died /\ AllUp) =>
     /\ printed = Expected
     /\ none_query_found = (Expected = {})

(* What a search sends is never left over from an earlier one: every line    *)
(* contains one of this search's words, or is no line at all (Garbage).      *)
NoStaleAnswer == bpc \in {"read", "get", "verdict"} => printed \subseteq Expected \union {Garbage}

(* Every round of letters and answers comes to its end: no write to a full   *)
(* FIFO and no read of an empty one blocks the boss for ever.                *)
TasksEnd == bpc = "send" ~> bpc \in {"prompt", "idle", "dead"}

(* README, SEARCH: "will return the same results". A later session of the    *)
(* same process, all of whose workers live, answers as the first one does.   *)
EverySessionAnswers ==
  (bpc = "verdict" /\ ~timeout /\ AllUp) => printed = Expected

(* "worker must not have died during transmission of the answer": no line is *)
(* sent on that its worker did not live to write.                            *)
OnlyWholeAnswers == Garbage \notin printed
=============================================================================
