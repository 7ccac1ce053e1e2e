---------------------------- MODULE AnswerMerge ----------------------------
(***************************************************************************)
(* How the job executor makes one answer to /wc, /maxcount and /mincount   *)
(* out of the answers of its workers: get_total_stats,                     *)
(* get_maxcount_txt_file_name and get_mincount_txt_file_name.  The loops   *)
(* read the workers in their order, while workers may end and SIGCHLD be   *)
(* delivered at any point.                                                 *)
(***************************************************************************)
EXTENDS Integers

CONSTANTS N,          \* workers
          Files,      \* paths, of which only the order of strcmp() counts
          INT_MAX     \* numeric_limits<int>::max(), which no count reaches

Workers  == 1 .. N
Commands == {"/wc", "/maxcount", "/mincount"}
Counts   == 0 .. INT_MAX - 1

NULL     == 0                \* no path

ASSUME MergeAssumption == N \in Nat /\ INT_MAX \in Nat \ {0} /\ Files \subseteq Nat \ {NULL}

VARIABLES cmd,
          answer,              \* what each worker finds: a count (0: not found) and its file
          pc, i,               \* the loop over the workers
          counter, file,       \* the best so far, or the total in counter
          named,               \* text_file_name
          sent, ended,         \* workers that have answered, that are gone
          alive_workers, some_worker_died,
          shown                \* whether the result is printed

loopVars == <<pc, i, counter, file, named>>
diedVars == <<alive_workers, some_worker_died>>
vars == <<cmd, answer, loopVars, sent, ended, diedVars, shown>>

(* the word is in no file of the worker, or it is and the file is the worker's best *)
Answer == [count : {0}, file : {NULL}] \union [count : Counts \ {0}, file : Files]

(* a file is in the directories of one worker *)
OneOwner(a) == \A v, w \in Workers : v # w /\ a[v].count > 0 => a[v].file # a[w].file

(* Mutant: the smallest count starts at -1, as for a count that is unsigned. *)
StartCountMinusOne == IF cmd = "/mincount" THEN -1 ELSE 0

(* maxcount = 0, mincount = the largest int *)
StartCount == IF cmd = "/mincount" THEN INT_MAX ELSE 0

Init ==
  /\ cmd \in Commands
  /\ answer \in [Workers -> Answer] /\ OneOwner(answer)
  /\ pc = "name" /\ i = 1 /\ named = NULL
  /\ counter = StartCount /\ file = NULL
  /\ sent = {} /\ ended = {}
  /\ alive_workers = Workers /\ some_worker_died = FALSE
  /\ shown = FALSE

(* a worker writes its answer; a worker that ends writes nothing any more *)
SendAnswer(w) ==
  /\ w \notin ended /\ w \notin sent
  /\ sent' = sent \union {w}
  /\ UNCHANGED <<cmd, answer, loopVars, ended, diedVars, shown>>

End(w) ==
  /\ w \notin ended
  /\ ended' = ended \union {w}
  /\ UNCHANGED <<cmd, answer, loopVars, sent, diedVars, shown>>

(* Mutant: the death of a worker is noted for the worker only. *)
WorkerDiedQuietly ==
  /\ ended \cap alive_workers # {}
  /\ alive_workers' = alive_workers \ ended
  /\ UNCHANGED <<cmd, answer, loopVars, sent, ended, some_worker_died, shown>>

(* the handler of SIGCHLD *)
WorkerDied ==
  /\ ended \cap alive_workers # {}
  /\ alive_workers' = alive_workers \ ended /\ some_worker_died' = TRUE
  /\ UNCHANGED <<cmd, answer, loopVars, sent, ended, shown>>

(* Mutant: the boss waits for the answer of a worker whether it lives or not. *)
ReadableSent(v, value, none, any) == i \in sent /\ v = value

(***************************************************************************)
(* A read under the test of alive_workers[i]: nothing of a worker known to *)
(* be dead, else what it sent, or whatever was there at the end of file;   *)
(* the mark may be set between the test and the read.                      *)
(***************************************************************************)
Readable(v, value, none, any) ==
  \/ i \notin alive_workers /\ v = none
  \/ i \in sent /\ v = value
  \/ i \in ended \ sent /\ v \in any

(* read_msg; /wc has no names *)
ReadName ==
  /\ pc = "name" /\ i <= N
  /\ pc' = "number"
  /\ \/ cmd = "/wc" /\ UNCHANGED named
     \/ cmd # "/wc" /\ \E f \in Files \union {NULL} :
                           Readable(f, answer[i].file, NULL, Files) /\ named' = f
  /\ UNCHANGED <<cmd, answer, i, counter, file, sent, ended, diedVars, shown>>

(* Mutant: of files with the same count the first one read is kept. *)
BetterFirst(n) ==
  CASE cmd = "/maxcount" -> n > counter
    [] cmd = "/mincount" -> n < counter

Better(n) ==
  \/ IF cmd = "/maxcount" THEN n > counter ELSE n < counter
  \/ n = counter /\ file > named

(* Mutant: a worker that does not know the word counts, too. *)
KeepZero(n) ==
  IF cmd = "/wc" THEN counter' = counter + n /\ UNCHANGED file
  ELSE IF ~some_worker_died /\ Better(n)
       THEN counter' = n /\ file' = named
       ELSE UNCHANGED <<counter, file>>

(* the rest of the body of the loops *)
Keep(n) ==
  IF cmd = "/wc" THEN counter' = counter + n /\ UNCHANGED file
  ELSE IF n > 0 /\ ~some_worker_died /\ Better(n)
       THEN counter' = n /\ file' = named
       ELSE UNCHANGED <<counter, file>>

(* read_int_number *)
ReadNumber ==
  /\ pc = "number"
  /\ \E n \in Counts : Readable(n, answer[i].count, 0, Counts) /\ Keep(n)
  /\ i' = i + 1 /\ pc' = "name" /\ named' = NULL
  /\ UNCHANGED <<cmd, answer, sent, ended, diedVars, shown>>

(* all workers have to answer *)
Show ==
  /\ pc = "name" /\ i > N
  /\ shown' = ~some_worker_died
  /\ pc' = "done"
  /\ UNCHANGED <<cmd, answer, i, counter, file, named, sent, ended, diedVars>>

Next ==
  \/ \E w \in Workers : SendAnswer(w) \/ End(w)
  \/ WorkerDied \/ ReadName \/ ReadNumber \/ Show

(* living workers answer, SIGCHLD is delivered, and the boss goes on *)
Fairness ==
  /\ \A w \in Workers : WF_vars(SendAnswer(w))
  /\ WF_vars(WorkerDied) /\ WF_vars(ReadName) /\ WF_vars(ReadNumber) /\ WF_vars(Show)

Spec     == Init /\ [][Next]_vars
FairSpec == Spec /\ Fairness
-----------------------------------------------------------------------------
TypeOK ==
  /\ cmd \in Commands /\ answer \in [Workers -> Answer]
  /\ pc \in {"name", "number", "done"} /\ i \in 1 .. N + 1
  /\ counter \in Nat /\ file \in Files \union {NULL} /\ named \in Files \union {NULL}
  /\ sent \subseteq Workers /\ ended \subseteq Workers /\ alive_workers \subseteq Workers
  /\ some_worker_died \in BOOLEAN /\ shown \in BOOLEAN

(* the workers up to n that know the word *)
Knowing(n) == {w \in 1 .. n : answer[w].count > 0}

(* c and f are the count and the file that come first among the first n workers' answers *)
FirstOf(n, c, f) ==
  \/ /\ Knowing(n) = {} /\ f = NULL
     /\ c = StartCount
  \/ /\ \E w \in Knowing(n) : answer[w].count = c /\ answer[w].file = f
     /\ \A w \in Knowing(n) :
          \/ IF cmd = "/maxcount" THEN answer[w].count < c ELSE answer[w].count > c
          \/ answer[w].count = c /\ f <= answer[w].file

(***************************************************************************)
(* /maxcount and /mincount: a result that is shown, and for which every    *)
(* worker has answered, is the best of all files of the site, of several   *)
(* the one whose path comes first, and "not found" only when no worker has *)
(* the word, though workers may have ended meanwhile at any point.         *)
(***************************************************************************)
BestShown == shown /\ cmd # "/wc" /\ sent = Workers => FirstOf(N, counter, file)

(* the sum over the first n workers *)
Total(a, n) ==
  LET total[k \in 0 .. N] == IF k = 0 THEN 0 ELSE total[k - 1] + a[k].count
  IN  total[n]

(***************************************************************************)
(* /wc: totals that are shown, and for which every worker has answered,    *)
(* are the sums over all workers.                                          *)
(***************************************************************************)
TotalShown ==
  shown /\ cmd = "/wc" /\ sent = Workers
    => counter = Total(answer, N)

(* A result that is shown, and that all workers had part in, is the right one. *)
ResultShown == BestShown /\ TotalShown

(***************************************************************************)
(* The loops never wait for a worker that is gone: the command ends,       *)
(* whoever dies before, between and after the two parts of an answer.      *)
(***************************************************************************)
CommandEnds == <>[](pc = "done")
=============================================================================
