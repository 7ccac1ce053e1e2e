# TLA+ verification of the web server and crawler

Two programs are built from this repository. `myhttpd` serves the pages under a
directory with a pool of threads. `mycrawler` fetches those pages with a pool of
threads of its own, and answers searches over what it has saved by forking worker
processes that talk to it through FIFOs. This directory holds TLA+ modules of the
concurrent parts, the configurations that model-check them with TLC, and proofs
that TLAPS checks.

## The system

| part | source | state | operations | talks to |
|---|---|---|---|---|
| server main | `server_main.cpp` | position in the poll loop, `client_sock`, `cmd_sock` | create threads, poll, accept, STATS, SHUTDOWN, join | consumers through the ring, commander through a socket |
| server pool | `myhttpd.cpp`, `myhttpd.h` | ring `pool`, `mtx`, `cond_nonempty`, `cond_nonfull` | `place`, `obtain` | main and consumers |
| consumers | `myhttpd.cpp` | socket and answer of each thread; `pages_served`, `total_bytes_sent`, `mtx2` | `consumer` | clients through sockets |
| crawler main | `crawler_main.cpp` | `cmd_sock`, the mutex it keeps in a search | accept, STATS, SEARCH, SHUTDOWN, join | client threads, search session |
| crawler pool | `mycrawler.cpp` | `used_urls`, `curr_urls`, `stalled_threads`, `mtx`, `cond_nonempty` | `place`, `obtain` | main and client threads |
| client threads | `mycrawler.cpp` | URL and remaining links of each; `pages_downloaded`, `total_bytes_received`, `mtx2`; files under `save_dir` | `client`, `search_for_links` | web server |
| job executor | `start_search.cpp`, `jobexec.cpp` | FIFOs, `alive_workers`, `some_worker_died`, `timeout` | fork, distribute, commands, end | workers through FIFOs, commander, signal handlers |
| workers | `worker.cpp` | directories, index | load, answer, exit | job executor |
| FIFO framing | `helping_funs.cpp` | bytes in a FIFO, the item each side is at | `send_msg`, `read_msg`, integers | job executor and worker |
| HTTP text | `myhttpd.cpp`, `mycrawler.cpp`, `helping_funs.cpp` | position and flags of a reader | reading until a blank line, judging, answering, saving | client and consumer threads |
| index | `trie`, `posting_list`, `search_answer` | trie, posting lists | insert, search, merge of answers | workers |
| files | `dir`, `text_file` | lines of the files | load, count | workers |
| `webcreator.sh` | | pools of indexes while a page is written | write random sites | run by hand beforehand |

What is hard: threads that share a ring (server) or a stack (crawler) through
condition variables signalled outside the mutex; the end of both programs, where
one "finish" token per thread travels through the same buffer as the work; the
crawler's test that the crawl is over; pairs of counters read by another thread; a
protocol of untagged values on two FIFOs per worker that must stay in step when a
worker dies, an alarm goes off or the commander leaves; signal handlers that run
between any two steps; named pipes that outlive the process that made them; readers
that see a message in chunks of any size, with writes that may take only a part. `PROJECT.json` lists these hazards line by line.

What makes each part correct:

* server: an accepted connection is served by one thread, answered at most once and
  closed; SHUTDOWN serves those accepted before it and then ends; counters are exact.
* crawler: each URL found is fetched once and none is forgotten; SEARCH starts only
  on a finished crawl; SHUTDOWN ends the process.
* search session: both sides of a FIFO agree on what comes next, every directory is
  loaded once, answers are exactly the matching lines, and every command ends. A
  session meets its own workers only, and a merged count is the best, or the sum, of all.
* HTTP: however a message is cut, a well-formed one is recognised at its end and no
  other; what is saved is what was served, and the two programs count the same pages.
* framing: whole messages arrive, in order, each once.
* index: a search finds exactly the lines with a word outside of tags.
* `webcreator.sh`: pages have different names (which is so up to ten per site) and the number of links they should.

## Modules

`Server` models both the main thread and the consumers. `Place` and `Obtain` are
critical sections of `mtx` and so one step each; the waits (`WaitNonfull`,
`WaitNonempty`) release the mutex and end a step. `pthread_cond_signal` follows the
unlock in the code and is a step of its own (`SignalClient`, `SignalPill`,
`SignalNonfull`), which is where lost wake-ups would come from; `SpuriousWakeup`
wakes a waiter for no reason. The updates of the two counters under `mtx2` are two
steps with the lock held, so that a reader without the lock would see them apart.
What a request deserves is a choice among the pages and an error; disconnections,
partial writes and the exits of the process are actions. `Bytes(S)`, the bytes of a set of
pages, is written as the size of a set of bytes, which proofs can reason about.

`BoundedQueue` and `ServerContract` are abstract. The first is a bounded FIFO queue,
which the ring implements under the mapping `queue[k] = Slot(k - 1)`. The second is what
clients may rely on, stated without threads.

`Crawler` has the same shape. The search for duplicates and the two appends of
`place` are one step; `obtain` is split where it waits, a thread that was woken
(`woken`) being still counted in `stalled_threads` until it leaves. Since main keeps
`mtx` for a whole search session, the mutex is a variable. Paths are records of a
directory and a page, and `MakeFilePath` takes the two forms of links that
`make_file_path` does. `CrawlContract` is the abstract exploration of the graph of links.

`SearchSession` has the job executor (`bpc` and the loops it has left to do,
`outbox` and `expect`), the workers (`wpc`), their FIFOs and the two signal handlers.
All commands have one form: write to each worker, then read from each worker. So a
task is, for each worker, a sequence of messages to write (`outbox`) and a sequence of kinds of
value to read (`expect`). The loops go through them worker by worker: `Turn` is the worker whose
turn it is, `Done` says that nothing is left. Every message and every value is preceded by its own
test of `alive_workers` (`TestAlive`), as in the code. A worker that ended after the test is met by
`WriteFails` (EPIPE, `exit(4)`) or `ReadGarbage`: the code takes a read of 0 bytes for
success, so its variable is whatever was in memory. The process exit of a worker
closes its files first and raises SIGCHLD later (`Notify`), which the handler turns
into `alive_workers` and `some_worker_died` later still (`WorkerDied`).

`SessionStart` is what comes before and after `SearchSession`: `mkfifo` and `fork` for
each worker, the handler of SIGCHLD and the marks, `open_fifos` against the two
`open()`s of each worker (`MeetTo`, `MeetFrom`: both block until the other side opens the
same FIFO), `unlink` at the end. A name leads to a FIFO or to none; names and workers
outlive a process that crashes (`Crash`, `HandlerCrashes`), is refused by `mkfifo`
(`Refuse`) and is started again (`Restart`), with or without `make cleanfifos`.

`AnswerMerge` is the three loops of the job executor that make one answer to `/wc`,
`/maxcount` or `/mincount` out of those of all workers, each read a step of its own
(`ReadName`, `ReadNumber`), while workers end and `worker_died` runs between any two.
`SearchSession` says which values a read may return; this module says what is made of them.

`Framing` is one direction of one pair of FIFOs. The length and the bytes of a string
are written by two calls and read by two others, none of which looks at the count
returned; a write of more than `PIPE_BUF` bytes goes in in pieces. `MessageChannel` is the
abstract channel of whole messages it implements while all strings fit.

`HttpRequest` is `read_http_get_req` and `valid_http_get`. A chunk of any size is a step
(`ReadChunk`); the scan of the last four bytes is `Scan` over `Window`, which also has
the case of the code that a short first chunk makes the scan start before the block. The bytes
there are any of `HeapBytes`, and `misled` records that one of them was a CR or LF.
`HttpResponse` is `read_http_get_response`: the flags and the word of the header's loop token
by token, then the content chunk by chunk behind a block whose size the header gave.
`HttpExchange` composes the two: the client thread and the consumer thread at the ends of
one connection, `send_message` with short writes (`Cut`), the answers for each kind of path (a file with or without lines,
nothing, a file without the right to read it, a directory, which `fopen` opens and `getline` cannot read, and what fails to
open otherwise), saving and counting. What passes over the connection may end a process in four ways, each an action: a write of the client
to a server that is gone (`ClientBreaks`), a read of the client after the server closed its end with bytes unread (`AnswerReset`), and a read or a write
of the consumer behind a client that hung up (`ReadBreaks`, `WriteBreaks`: `exit(2)`, `exit(3)` or SIGPIPE). `CrawlerEnds` and
`ServerEnds` are the ends that come from outside the connection, at any moment. Its initial states are three
situations: both ends ours; the server with any other client; the crawler with any other server.
`Server` and `Crawler` use the outcomes of these three modules: a page, an error, a lost
connection, an exit.

`WordIndex` is the worker's index. A node of the trie is named by the letters on the way to it;
`children` holds the sorted horizontal lists, `pl` the posting lists. `InsertLetter` is one turn of
the loop of `insert_word`. Searches, `/maxcount` and `/mincount` are operators on the two, each loop of the
code a recursive function whose k-th value is what the loop has after k turns. They are compared with what the text says:
`Occurrences` are the words outside of tags that the worker has come past, `PostingsExact` says when a posting list is about exactly
those of one word. `Outside` tells tags as the code does, from the first and the last letter of a word; `Visible` looks at every letter, as a
reader of the page would, and `TagsTold` says that the two agree on lines of words that are `Tidy`.

`WebCreator` is `webcreator.sh`: the loops over sites and pages (`site` and `page` are the script's `i` and `j`,
`phase` the loop it is in), the pools of indexes from which links are chosen by chance, and the verdict about incoming links.
The parameters `w`, `p`, `f` and `q` are capitals here. A name is the number its digits make; `Power10` shifts one number past another.

`WordIndex` and `WebCreator` give names of their own to their specifications (`IndexSpec`, `SitesSpec`), so that one module can
prove about them and `AnswerMerge`.

The `MC*` modules give the constants values; the mutated forms of definitions that
stand before their originals ("Mutant:") are plausible bugs, each of which breaks a
property; no specification uses them.

## Runs

| run | instance | what it shows |
|---|---|---|
| `server` | 2 consumers, ring of 2, 2 clients, 2 commanders, counters modulo 7, fair; 540 thousand states | `Ownership`, `ShutdownDrains`, `StatsRight`, the ring as a queue (`QueueSpec`), the contract with clients, `AcceptedIsClosed` |
| `crawler` | 2 threads, 3 pages on 2 sites, 2 commanders, counters modulo 5, fair; 189 thousand states | `UrlOwnership`, `SearchComplete`, `StatsRight`, the exploration of the graph, `EveryUrlHandled`, `ShutdownStops` |
| `crawler_shutdown` | the same with 1 commander | **violated**: threads still obtain URLs after SHUTDOWN |
| `search` | 2 workers, 3 directories (one may be missing), 2 sessions, 1 kill, FIFOs of 1 message, fair; 605 thousand states | `InSync`, `NothingLeftOver`, `Distributed`, `AnswersExact`, `NoStaleAnswer`, `TasksEnd` |
| `search_sessions` | 2 sessions, no kill | **violated**: the second session answers nothing |
| `search_killed` | 1 session, 1 kill | **violated**: a line nobody wrote is sent on |
| `start` | 2 workers, 3 sessions, 2 crashes, 1 kill, fair; 344 thousand states | `OwnWorkers`, `RefusedAfterCrash`, `SessionComesUp` |
| `merge` | 3 workers, counts below 3, 3 files, any deaths, fair; 1.7 million states | `ResultShown` (the best file, the totals, when every worker had part), `CommandEnds` |
| `framing` | scripts of up to 4 items, PIPE_BUF 3, FIFO of 4, fair; 11 thousand states | `BytesInOrder`, `WholeMessages`, `ImplementsChannel` (the channel of whole messages, and all of them arrive) |
| `http` | streams of up to 4 bytes and requests of up to 3 lines, answers of up to 3 lines, files of up to 4 bytes and a directory, chunks of 5 and 2, fair; 460 thousand states | the readers (`EndsAtBlankLine`, `TakenIsProper`, `HeaderIsJudged`), and the connection (`EndsAgree`, `ExitsKnown`, `ExchangeEnds`) |
| `index` | a line of up to 3 words with tags among them or glued to them, and 2 files of up to 2 lines; 98 thousand states | `IndexExact` (with the tags told letter by letter), `AnswersExact` |
| `sites` | 2 sites of 2 pages with any random numbers, 4 of 2, 2 of 5; 774 thousand states | `LinksOfPage`, `UniqueNames`, `Finishes` with the message about links |

Properties are conjunctions of named parts where several statements answer one question. The type invariants are
`TypeOK` in `server`, `crawler` and `search`, and parts of `BytesInOrder`, `OwnWorkers`, `IndexExact`, `LinksOfPage` and
`TakenIsProper` in the runs of those; that of `AnswerMerge` is proved only. All are proved.

Bounds, and why they are enough for the questions asked:

* Threads are interchangeable and interact in pairs; two show every race between
  consumers or client threads. The safety of more of them, and of larger rings and graphs, is
  proved.
* With two clients and two -1s a ring of two fills, wraps more than once and makes
  main wait.
* The pages have links back, forward and to themselves through another page, two of
  them to the same page, so duplicates are found by several threads.
* `UINT_RANGE` stands for 2^32 and is small so that the counters wrap.
* Three directories over two workers leave a remainder; one word occurs in two
  directories, one in none, one request repeats a word.
* `MAX_SESSIONS`, `MAX_CRASHES`, `MAX_KILLS` and `PIPE` bound the sessions, the ends of the process, the deaths from outside
  and the FIFOs. Real FIFOs hold more, and smaller ones block more often. Three sessions allow
  one that crashes, one that is refused and one after a cleaning.
* `GarbageCounts` stands for every int with its two cases: no answers and some.
  Names, lines and lengths are members of small sets.
* The scan looks at four bytes, so streams of four bytes have all of its states, and a chunk of
  five covers chunks shorter than, as long as and longer than the window; the proof covers every
  length. An answer's header matters by the word before a number and by the pairing of CR and LF;
  heads of three tokens, and of lines with one field wrong at a time, have each case alone and in
  pairs. Two bytes to a read make contents that end at, before and behind the end of a read.
* Three workers leave one that dies between two that live; two counts and three files
  have ties, and ties broken by the path.
* Words of two letters share nodes, are prefixes of each other and arrive in both orders.
* With four sites of two pages the three external links of a page empty a site; five pages leave a
  choice of three links out of four.

Deadlock is checked where a program never rests by itself (`server`, `crawler`, `search`): there
`Rest` is the self-loop of the states in which it may rest. The other runs are of one
connection, one command, one script, one file list, or of processes under a bound, and simply end.

Fairness: weak fairness of each thread or process (the kernel schedules them) and of
signal handlers. The steps of a thread include those in which its peer answers, so
this also says that a connected peer speaks or hangs up. The code does not enforce
that: a silent commander stops the server's acceptance of clients
(`server_main.cpp:219`), and liveness holds only without one. No fairness is assumed
of `Connect`, `SpuriousWakeup`, `Kill`, `Alarm`, `Crash` or a user's `Restart`, nor of a death: `BossDies` stands outside the fair
steps, since a fair choice of it would free a job executor blocked in a read, and where the main
threads and consumers may die another step of theirs is always enabled. Weak fairness is enough because a
waiter is woken by a particular signal and no step needs a choice made infinitely often. In `HttpExchange` it is the two
threads that are fair, in `Framing` the two sides, in `AnswerMerge` the boss, its handler and every
living worker, in `WebCreator` the script.

### What the violated properties say

* `StopsDownloading` (README, SHUTDOWN: "the crawler stops downloading webpages").
  `curr_urls` is used as a stack: a link placed after the NULLs lies above them and
  is fetched first. Shutdown still ends (`ShutdownStops`), after all that is found
  meanwhile.
* `EverySessionAnswers` (README, SEARCH: "will return the same results"). The workers'
  normal exit at `/exit` sets `some_worker_died`, which nothing resets, and
  `read_search_answers` prints nothing while it is set.
* `OnlyWholeAnswers` (comment in `read_search_answers`). End of file on the FIFO of a dead
  worker can be read before SIGCHLD is handled.

### Where the code is weaker than one might expect

These properties hold, and name exactly the cases in which more would not:

* `ExitsKnown`: one valid request ends the whole server when it names a directory, as `GET /` does, or an empty file (`getline`
  gets no line, and `parse_file` looks for the last byte of its NULL), or what cannot be opened for a reason other
  than ENOENT and EACCES.
* `ExitsKnown`: a client that hangs up while the server reads its request or writes its answer may end the whole server too
  (`exit(2)`, `exit(3)`, SIGPIPE). `mycrawler` hangs up so early only when its process is gone or `write` has taken
  a part of its request.
* `SavedAsServed` (of `EndsAgree`): the last byte of every file is cut by `parse_file`. It is a newline in pages
  made by `webcreator.sh`.
* `ExitsKnown`: an answer with an empty content, which a file of one byte has, ends the
  crawler, as a cut answer does.
* `WholeMessages`, `ImplementsChannel`: whole messages arrive only while every string fits in
  `PIPE_BUF` (`Fits`). A longer one may be read before all of it was written, and its rest is
  taken for the next length; no byte is lost even so (`BytesInOrder`).
* `SessionComesUp`: the boss waits for ever in `open()` for a worker that died before its mark was
  set (the handler and the marks come after the forks) or after the mark was tested.
* `IndexExact`: a word that starts with `<` opens a tag unless its last letter is `>`. So
  `<b>a` opens one that the rest of its line does not close, and those words are not indexed. What a reader sees is
  what is indexed only on tidy lines (`TagsTold`).
* `UniqueNames`: the digits of the random number, the site and the index are not separated. Two pages get one name only if
  their indexes have different numbers of digits, and from eleven pages on they may: page 0 of site 1 with the
  random number 11, and page 10 of it with the random number 1, are both `page1_1110.html`. The
  repository's README (line 44) calls the number unique for each website.
* `ResultShown`: it asks about results that all workers had part in. When a worker ends after the test of its mark and
  before its answer, the boss adds or compares a number that nobody wrote; unless the death is noted by the time of
  the test behind the loop, the result is shown (`jobexec.cpp:196`, `229`).
* `LinksOfPage`: with two pages per site every page links to itself.
* `misled`: a first chunk shorter than four bytes lets bytes before a block of the heap decide about a request.

## Proofs

`Server_proof` proves, for every number of consumers, clients, commanders and pages
and every size of the ring (`ServerAssumption`):

* `TypeCorrect`: `Spec => []TypeOK`;
* `OwnershipHolds`: `Spec => []Ownership`;
* `ShutdownDrainsHolds`: `Spec => []ShutdownDrains`;
* `RingIsQueue`: `Spec => QueueSpec`, the refinement of `BoundedQueue`;
* `ServerRefinesContract`: `Spec => ServerImplementsContract`;
* `StatsAreRight`: `Spec => []StatsRight`.

The properties are not inductive. `TypeOK` needs `TypeInv`, which adds that the two
indices stay `size` apart (`RingOK`), that live slots hold sockets or -1 (`SlotsOK`) and
what main and each consumer hold at each point (`MainOK`, `ConsOK`). `IInv` adds to it
`OwnInv`, which restates ownership per place so that a step moves one socket between
two places; `DrainInv`, that -1s stand behind every client and main places no
client after its first -1; and `JoinInv`, that a stopped server has only exited
threads. The arithmetic of the ring is in `ModWrap` (the remainder is one
conditional subtraction), `PlaceRing` and `ObtainRing` (what the two operations do to the
k-th oldest slot); the other lemmas treat one action each, and `QuietSteps` the
actions that move no socket.

The contract answers a client at most once and only before it is closed. What `IInv` lacks for that is
`GotInv`: a client that has its answer is closed, or held by a consumer past its send; since one consumer at most
holds a client (`OwnInv`), the one that is about to send has not sent (`SendsOnce`). Joined threads hold -1s only, so
`Join` finds nobody accepted. The fairness of the contract (`AcceptedIsClosed`) is model-checked.

The counters are right once no thread is between its two additions. In between, one page is counted and its bytes
are not: `Half` is that client, and `SumInv` says of each counter separately which delivered pages it sums. It rests on
`LockInv` (mtx2 is held exactly by a thread between its two additions, or by main between its two
readings, so `Half` has one element at most and what main reads belongs together) and on `AnsweredInv` (a thread counts the answer it
has sent). `TellInv` keeps what main has read true of some set of pages afterwards. The sums are modulo 2^32;
that adding modulo 2^32 at every step gives the sum modulo 2^32 is `Wrapping` in `Data_proof`.

`Crawler_proof` proves, for every number of threads and commanders and every graph of links
(`CrawlerAssumption`):

* `TypeCorrect`: `Spec => []TypeOK`;
* `OwnershipHolds`: `Spec => []UrlOwnership`;
* `SearchCompleteHolds`: `Spec => []SearchComplete`;
* `CrawlerRefinesContract`: `Spec => CrawlerImplementsContract`;
* `StatsAreRight`: `Spec => []StatsRight`, along the argument of the server's, with the pages saved for those sent.

`TypeInv` adds to `TypeOK` that `stalled_threads` is the number of threads inside `obtain()`
(`CountOK`: without it nothing bounds the counter), what a thread holds at each point
(`ThreadOK`), and when main has `mtx` (`MutexOK`). `OwnInv` is `UrlOwnership` said of one URL or one
thread at a time; only four actions move a URL, `StepOwnInv` treats the others at once.
`ExploreInv` follows a page: a URL with a saved answer is done or past the fetch
(`SavedOK`), the links still to be placed make up for those not found yet (`PageOK`), so a finished
page has all its links found (`DoneOK`). `SearchInv` keeps the condition `SEARCH` has
tested for as long as main has `mtx`; by `SearchTest` that condition (a counter and an empty stack)
means that all threads wait and all URLs found are done. The refinement maps `Used` to `found` and
the place of main to `phase`; a thread that works on a page is outside any search
(`WorkIsActive`), so its steps are allowed by the contract.

`SearchSession_proof` proves, for any number of workers, directories, queries, sessions and kills and FIFOs of any
capacity (`SessionAssumption`: `get_dirs` returns no directory twice, and a search has a word):

* `TypeCorrect`: `Spec => []TypeOK`;
* `Synchrony`: `Spec => []InSync`;
* `CleanPrompt`: `Spec => []NothingLeftOver`;
* `FreshAnswers`: `Spec => []NoStaleAnswer`;
* `Distribution`: `Spec => []Distributed`;
* `Exactness`: `Spec => []AnswersExact`.

None of these is inductive: each looks at one moment of a conversation, and what makes it true is all of what was
sent before. The values of the protocol carry no tags, so the invariant has to say of every value on its way what it
is. `IInv` does so with three sequences per worker. `Down(i)`, what is in its FIFO with what the boss has left to write, is
exactly the rest of the letter of this task that the state of the worker waits for (`Stages`). `Up(i)`, what is in the FIFO back with
what the worker has left to answer, is exactly what the boss expects of it, `Exp(i)`, once all of the letter was received, and
nothing before (`Talks`, by `FitsIn` and `Complete`). This is claimed of living workers. Of one that
ended it says less: what is left in its FIFO still has the right kinds, for as long as the boss may read it (`Heard`), that is
until its mark is taken back (`Marks`) and over the one read that follows a test of the mark. `Phase` says which loop of a
task the boss is in, `Opening` that nothing is written before both FIFOs of every worker are open. For the contents, `Loads` follows the
directories a worker has received, `NoneInvented` and `Honest` what the commander was sent, and `Exact` says that every line of a worker
that has searched is sent or still on its way, unless an alarm went off or somebody died.
`Distribution` rests on `ShareFacts`: the shares follow each other without a gap and end with the last directory, for every
number of directories and workers. That `get_unq_search_queries` keeps every word and no other is proved by induction.

`Framing_proof` proves, for any scripts, sizes of strings, `PIPE_BUF` and capacity of the FIFO (`FramingAssumption`: a FIFO holds
at least `PIPE_BUF` bytes):

* `ItemsComeWhole`: `Spec => []WholeMessages`;
* `BytesGoThrough`: `Spec => []BytesInOrder`;
* `ChannelOfMessages`: `Spec => Channel!Spec`, the steps of `MessageChannel`. The other half of
  `ImplementsChannel`, that all messages arrive, is liveness and model-checked.

The FIFO holds a contiguous piece of what the script says, ending with what was written last (`ChainInv`). A string that fits in
`PIPE_BUF` is in it whole or not at all (`WriterInv`), and so the first unit is what the reader waits for, unless the
item it read last was too long (`ReaderInv`, `Astray`): then it may be anywhere inside that string. `WholeInv` keeps
what was received before that. `BytesGoThrough` has no such exception; `BytesInv` says that the bytes read and those in the FIFO are
together the bytes written, in that order. It rests on lemmas about `FlattenSeq` over sequences longer by one and joined.

`HttpExchange_proof` proves of the reader of requests alone, for every stream, every size of a chunk from four on and every way of
cutting a stream (`RequestAssumption`):

* `EndsAtBlankLineHolds`: `Spec => []EndsAtBlankLine`;
* `NotRefusedHolds`: `Spec => []NotRefused`;

and of the whole exchange, also for every answer, file and end of a process (`ExchangeAssumption` and `AnswersAssumption`: the
crawler's own request and the server's own header are well-formed, the error texts are not empty, and the header of an answer
is what comes up to its first blank line):

* `StopsAtBlankLine`: `ExchangeSpec => []EndsAtBlankLine`;
* `TakenIsProperHolds`: `ExchangeSpec => []TakenIsProper`;
* `EndsAgreeHolds`: `ExchangeSpec => []EndsAgree`;
* `ExitsAreKnown`: `ExchangeSpec => []ExitsKnown`.

The scan is a small automaton over four bytes. `ScanFound` and `ScanNonvalid` say from which windows it
reaches "found" and "nonvalid"; `WindowBytes` that the bytes of a window, but for those before the block, are the last
four of what was read. A step is decided by its window alone: `FoundIsBlankLine` gives the first property,
`WellFormedIsValid`, that no window of a well-formed stream is nonvalid, the second. `ReadInv` adds that the verdicts of
`valid_http_get` are true ones (`JudgeInv`) and that bytes before the block do not stop the
reader inside a request that begins with a word (`NotFooled`).

`ExchangeInv` is `ReadInv /\ AnswerInv /\ ServerInv /\ ClientInv`. `AnswerInv` is about the loop over the header of an answer: `ScanInv` says
which tokens before the current one its flags stand for, and `FieldInv` where it is, in a well-formed header, before, in and behind the Content-Length
field, so that the size it gets is the size claimed; `ContentInv` says the same of the bytes that follow. `ServerInv` says that
what was sent is a part of the answer to the request that was read, and that exactly what was sent whole is counted; `ClientInv`
that what was saved is what was read. The two ends share nothing but the connection; `EndsAgree` follows because a page is taken by the crawler only
if all that the header claims has arrived. `ExitsAreKnown` needs `BreaksInv` besides, which keeps what was so when a process ended by this
connection: the server is not up when a write of the crawler has failed, and a crawler that is up hangs up early only
with a part of its request sent. That a reset meets only a server that left bytes of the request unread, which one with a valid
request has not (`ValidIsWhole`), leaves a misled server as the only other one that loses an answer it sent whole.

`Content_proof` is about what is in the pages, what is found in them and what is answered. For any numbers of sites and pages
and whatever `shuf` gives (`ArgumentsAssumption`: the script refuses less than two of either) it proves

* `LinksOfPageHolds`: `SitesSpec => []LinksOfPage`;
* `UniqueNamesHolds`: `SitesSpec => []UniqueNames`;
* `VerdictTrueHolds`: `SitesSpec => []VerdictTrue`, the message about incoming links that `Finishes` asks for at the end;
* `PickedSiteHasPage`: `SitesSpec => [](phase # "failed")`, that `shuf` is never asked for a number out of none.

`LinksOfPage` looks at a page that is about to be written; the pools make it true. `SitesInv` says that the indexes still in
`inter_links_indexes` differ, are not the page's own and are not linked (`InternalOK`), that a page linked outside is in
`external_links_taken`, and that every site still in `websites_indexes` has a page that is not (`ExternalOK`): the script takes a site out
with its last such page. `NamesOK` keeps of a name only that it ends with the site and the index. So it leaves the index as its remainder by the power of
ten that shifts past it (`LastDigits`), and two pages of a site whose indexes have the same number of digits, and hence the same power,
cannot have one name. `MarkInv`, for the message, says that what is marked as linked is what was written with the links of the page at hand.

For any files, words and tags in them (`IndexAssumption`: documents have ids and paths of their own, and words a letter) it proves

* `IndexInvHolds`: `IndexSpec => []IndexInv`;
* `IndexExactHolds`: `IndexSpec => []IndexExact`;
* `AnswersExactHolds`: `IndexSpec => []AnswersExact`.

`IndexExact` asks about the words of `Queries` between two words; `IndexInv` holds at every letter and of every node. `Trie` says that the way to a node
consists of nodes, that every list of letters is strictly sorted, and that it has exactly the letters of the nodes below; so the place where
`insert_word` stops (`Stop`) tells whether a letter is there, and an insertion keeps the order. `Built` says that each posting
list is exact for the letters that lead to it, with respect to `Passed`, the words outside of tags come past so far; a word that is only the beginning
of another has an empty list. `Position` ties `open_a_tag` to the line: it is set if and only if a tag was opened and not closed before the word
(`InTag`), and `TidyWord` and `TidyLine` tie that to what a reader sees; `InWord` that all letters up to the current one have their nodes; `Counted` is about `n_words`. That an exact list stays exact when its
file has one more occurrence, on the same line or on a later one, or when a later file has its first, are lemmas of their own. The answers follow from
`IndexInv` without another invariant: each loop that makes them is shown, by induction over its turns, to have told exactly the lines of the nodes it has been at,
each once, or to keep the node that no earlier one beats.

For any number of workers, any counts, files and deaths (`MergeAssumption`) it proves

* `TypeOKHolds`: `Spec => []TypeOK` of `AnswerMerge`;
* `ResultShownHolds`: `Spec => []ResultShown`.

`ResultShown` looks at the end of the loop only. `IInv` says at every turn that `counter` and `file` are the first of
the answers read so far, if all of those workers have answered and no death is noted (`Best`), and for `/wc` that `counter` is their sum (`SoFar`).
A worker that was read without having
answered has ended and never answers (`Settled`), so answers that come late cannot disturb that; `Noted` ties
the marks to the workers that are gone, `Place` bounds the loop, and `NameFits` ties the name read in the first half of a turn
to the number read in the second. `FirstOfKnown` and `FirstOfUnknown` say what one more answer does to the first of them.

`SessionStart_proof` proves, for any number of workers, sessions, crashes and kills (`StartAssumption`):

* `IInvHolds`: `Spec => []IInv`, type correctness included;
* `OwnWorkersHolds`: `Spec => []OwnWorkers`;
* `RefusedAfterCrashHolds`: `Spec => []RefusedAfterCrash`.

`OwnWorkers` looks at the moments in which FIFOs are opened; what makes it true happened sessions before. `OldBlocked` says that while a
worker left behind may still open a name, or waits in a FIFO that has one, the first name is there and no session is past
its first `mkfifo`, which therefore fails (`MakeFifo` and `Refuse` exclude each other). It rests on `MadeSoFar`, which names are there
in each phase, on `Fifos` (one FIFO, one name), and on `Own`, that a session's workers wait in their own FIFOs and
are gone before anything is unlinked. `NothingLeft` is the other half: without a crash no name is left. `UpInv`, `QuietInv` and
`GoneInv` treat alike the steps that make or unlink nothing.

`Data_proof` has what these proofs need of numbers and sequences: induction over the natural numbers and least elements, stated of
a set of numbers instead of a predicate and proved from the well-foundedness of `<`; definitions by recursion; quotient and
remainder; sums modulo a number; and what is left of a sequence behind its first elements.

Only model-checked:

* all liveness: `AcceptedIsClosed`, `EveryUrlHandled`, `ShutdownStops`, `TasksEnd`, `SessionComesUp`, `CommandEnds`,
  `ExchangeEnds`, `HeaderIsJudged`, the arrival in `ImplementsChannel`, and that webcreator.sh ends (`Finishes`).
  Liveness under fairness, and ENABLED, are out of the prover's reach.

Every invariant of a passing run is stated by a theorem, and so is every action property and every safety half of a refinement.

The induction theorems of the library take an operator as a parameter, which no installed prover can instantiate; where a proof
goes by induction (`Wrapping`, the distinct words of a request, flattened sequences, the loops of `WordIndex`) it uses the form in `Data_proof`:
`Induction`, about a set of numbers, and the lemma `Recursion`, that a function which a loop defines exists and takes its steps.

## Not modelled

* The command line: `get_parameter`, `is_IP`, `is_unsigned_int_number` validate strings once, before
  anything is shared.
* The text of STATS (`ms_to_time`, `get_stats_str`): pure arithmetic on one moment's values. Its boundary cases
  are from ten hours on, when `strcat` appends to a block that was never written; hundredths below ten, which
  lose their leading zero; and counters from 2^31 on, which `%d` prints as negative.
* Failure to create a thread (`pthread_create` returns a positive number, `err < 0` never sees it), a socket or a process;
  exhausted memory or descriptors, and so the descriptor of a lost commander that is not closed (`server_main.cpp:220`),
  which the models keep in a state of its own, `leaked`.
* A commander who stays silent, or hangs up inside a search session (`jobexec.cpp:117` then loops over the end of file),
  other than as a step that changes nothing; an empty line in a session, which ends the process (`BossDies`).
* `respawn_workers`, which nothing calls; log files, printing, destructors, and the counts of bytes and lines that
  `text_file` keeps.
* Build rules and sample data, but for `make cleanfifos`.

## What would come next

1. A composition of `WordIndex` with `SearchSession`: the lines that a word is in, which the session takes as given, are those
   `AnswersExactHolds` is about.
2. The bytes and lines that `text_file` counts, of which `/wc` adds up.
