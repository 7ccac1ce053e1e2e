------------------------------ MODULE Crawler ------------------------------
(***************************************************************************)
(* The web crawler: main() of crawler_main.cpp and the client threads of   *)
(* mycrawler.cpp.  The threads share the list of every URL ever found      *)
(* (used_urls), the stack of the URLs still to be fetched (curr_urls), the *)
(* number of threads inside obtain() (stalled_threads), all under mtx, and *)
(* the counters of STATS, under mtx2.                                      *)
(*                                                                         *)
(* place() and obtain() are one step each between two waits; main keeps    *)
(* mtx for a whole SEARCH session, so mtx is a variable.  Signals follow   *)
(* the unlock and are steps of their own.                                  *)
(***************************************************************************)
EXTENDS Integers, FiniteSets, Sequences, SequencesExt

CONSTANTS Threads,      \* the n_threads client threads
          Urls,         \* paths: [dir |-> site, page |-> [site |-> , id |-> ]]
          StartUrl,     \* the path of the starting URL
          Links,        \* Links[u]: the hrefs of page u, in its order
          Length,       \* Length[u]: bytes of the content of page u
          Cmds,         \* connections made to the command port
          UINT_RANGE,   \* 2^32: the counters are unsigned ints
          NULL,         \* the URL that tells a thread to finish
          Main,         \* main's thread, as the owner of a mutex
          None

(* make_file_path: "../site1/page1_7.html" names its directory, the internal *)
(* "page1_7.html" is in the directory of the site its own name starts with.  *)
MakeFilePath(link) ==
  IF link.up THEN [dir |-> link.dir, page |-> link.page]
             ELSE [dir |-> link.page.site, page |-> link.page]

Hrefs == UNION {Range(Links[u]) : u \in Urls}
LinkedFrom(u) == {MakeFilePath(Links[u][i]) : i \in DOMAIN Links[u]}

ASSUME CrawlerAssumption ==
  /\ IsFiniteSet(Threads) /\ Threads # {}
  /\ StartUrl \in Urls
  /\ \A u \in Urls : Links[u] \in Seq(Hrefs) /\ LinkedFrom(u) \subseteq Urls
  /\ Length \in [Urls -> Nat \ {0}]
  /\ UINT_RANGE \in Nat \ {0}
  /\ NULL \notin Urls /\ None \notin Urls /\ NULL # None
  /\ Main \notin Threads /\ None \notin Threads /\ Main # None /\ None \notin Cmds
  /\ None \notin {"page", "error"}

VARIABLES used_urls, curr_urls, stalled_threads, mtx,       \* pool_t pool
          mtx2, pages_downloaded, total_bytes_received,     \* the statistics
          mainpc, unborn, pills, cmd_sock, stats, cmd,      \* main, its peers
          pc, url, rest,                                    \* each client thread
          saved, done                                       \* save_dir, finished URLs

poolVars == <<used_urls, curr_urls, stalled_threads, mtx>>
statVars == <<mtx2, pages_downloaded, total_bytes_received>>
mainVars == <<mainpc, unborn, pills, cmd_sock, stats, cmd>>
thrVars  == <<pc, url, rest>>
diskVars == <<saved, done>>
vars == <<poolVars, statVars, mainVars, thrVars, diskVars>>

NThreads == Cardinality(Threads)
Used  == Range(used_urls)
Alive == mainpc \notin {"stopped", "dead"}
Stalled == {t \in Threads : pc[t] \in {"waiting", "woken"}}
NoStats == [pages |-> 0, bytes |-> 0]
Downloaded == {u \in Urls : saved[u] = "page"}
Uncounted  == {url[t] : t \in {x \in Threads : pc[x] = "count"}}
Bytes(S)   == Cardinality(UNION {{u} \X (1 .. Length[u]) : u \in S})
-----------------------------------------------------------------------------
Init ==
  /\ used_urls = <<StartUrl>> /\ curr_urls = <<StartUrl>>
  /\ stalled_threads = 0 /\ mtx = None
  /\ mtx2 = None /\ pages_downloaded = 0 /\ total_bytes_received = 0
  /\ mainpc = "spawn" /\ unborn = Threads /\ pills = 0 /\ cmd_sock = None
  /\ stats = NoStats /\ cmd = [k \in Cmds |-> "away"]
  /\ pc = [t \in Threads |-> "obtain"] /\ url = [t \in Threads |-> None]
  /\ rest = [t \in Threads |-> <<>>]
  /\ saved = [u \in Urls |-> None] /\ done = {}

(* Mutant: the signal is forgotten. *)
NoSignal(waking) == pc' = waking

(* pthread_cond_signal(&cond_nonempty) *)
SignalWaiting(waking) ==
  LET waiting == {t \in Threads : waking[t] = "waiting"}
  IN  IF waiting = {} THEN pc' = waking
      ELSE \E t \in waiting : pc' = [waking EXCEPT ![t] = "woken"]

ConnectCmd(k) ==
  /\ Alive /\ cmd[k] = "away"
  /\ cmd' = [cmd EXCEPT ![k] = "backlog"]
  /\ UNCHANGED <<poolVars, statVars, mainpc, unborn, pills, cmd_sock, stats, thrVars, diskVars>>
-----------------------------------------------------------------------------
(* main() *)
Spawn ==
  /\ mainpc = "spawn"
  /\ \E t \in unborn : unborn' = unborn \ {t}
  /\ mainpc' = IF unborn' = {} THEN "accept" ELSE "spawn"
  /\ UNCHANGED <<poolVars, statVars, pills, cmd_sock, stats, cmd, thrVars, diskVars>>

AcceptCmd ==
  /\ mainpc = "accept"
  /\ \E k \in Cmds :
       /\ cmd[k] = "backlog"
       /\ cmd' = [cmd EXCEPT ![k] = "open"]
       /\ cmd_sock' = k
  /\ mainpc' = "read_cmd"
  /\ UNCHANGED <<poolVars, statVars, unborn, pills, stats, thrVars, diskVars>>

(* read_cmd: STATS, SEARCH, an unknown word (answered with an error) *)
ReadWord ==
  /\ mainpc = "read_cmd"
  /\ mainpc' \in {"stats", "search_lock", "reply"}
  /\ UNCHANGED <<poolVars, statVars, unborn, pills, cmd_sock, stats, cmd, thrVars, diskVars>>

ReadShutdown ==
  /\ mainpc = "read_cmd"
  /\ pills' = NThreads
  /\ mainpc' = "place"
  /\ UNCHANGED <<poolVars, statVars, unborn, cmd_sock, stats, cmd, thrVars, diskVars>>

(* err == 1: the socket is never closed *)
ReadDisconnect ==
  /\ mainpc = "read_cmd"
  /\ cmd' = [cmd EXCEPT ![cmd_sock] = "leaked"]
  /\ cmd_sock' = None
  /\ mainpc' = "accept"
  /\ UNCHANGED <<poolVars, statVars, unborn, pills, stats, thrVars, diskVars>>

(* place(&pool, NULL): on top of the stack, whatever is below it *)
PlacePill ==
  /\ mainpc = "place" /\ mtx = None
  /\ curr_urls' = Append(curr_urls, NULL)
  /\ mainpc' = "signal"
  /\ UNCHANGED <<used_urls, stalled_threads, mtx, statVars, unborn, pills, cmd_sock, stats,
                 cmd, thrVars, diskVars>>

SignalPill ==
  /\ mainpc = "signal"
  /\ SignalWaiting(pc)
  /\ pills' = pills - 1
  /\ IF pills > 1
     THEN mainpc' = "place" /\ UNCHANGED <<cmd, cmd_sock>>
     ELSE /\ mainpc' = "join"
          /\ cmd' = [cmd EXCEPT ![cmd_sock] = "closed"]
          /\ cmd_sock' = None
  /\ UNCHANGED <<poolVars, statVars, unborn, stats, url, rest, diskVars>>

(* Mutant: the statistics are read without the lock. *)
StatsPagesUnlocked ==
  /\ mainpc = "stats"
  /\ stats' = [stats EXCEPT !.pages = pages_downloaded]
  /\ mainpc' = "stats_bytes"
  /\ UNCHANGED <<poolVars, statVars, unborn, pills, cmd_sock, cmd, thrVars, diskVars>>

StatsPages ==
  /\ mainpc = "stats" /\ mtx2 = None
  /\ mtx2' = Main
  /\ stats' = [stats EXCEPT !.pages = pages_downloaded]
  /\ mainpc' = "stats_bytes"
  /\ UNCHANGED <<poolVars, pages_downloaded, total_bytes_received, unborn, pills, cmd_sock,
                 cmd, thrVars, diskVars>>

StatsBytes ==
  /\ mainpc = "stats_bytes"
  /\ mtx2' = None
  /\ stats' = [stats EXCEPT !.bytes = total_bytes_received]
  /\ mainpc' = "reply"
  /\ UNCHANGED <<poolVars, pages_downloaded, total_bytes_received, unborn, pills, cmd_sock,
                 cmd, thrVars, diskVars>>

(* Mutant: an empty stack is taken for the end of the crawl. *)
SearchWhenEmpty ==
  /\ mainpc = "search_lock" /\ mtx = None
  /\ mtx' = Main
  /\ mainpc' = IF curr_urls = <<>> THEN "search" ELSE "refuse"
  /\ UNCHANGED <<used_urls, curr_urls, stalled_threads, statVars, unborn, pills, cmd_sock,
                 stats, cmd, thrVars, diskVars>>

(* SEARCH: mtx is taken, then the crawl has ended or the client is told to come back *)
SearchStart ==
  /\ mainpc = "search_lock" /\ mtx = None
  /\ mtx' = Main
  /\ mainpc' = IF stalled_threads = NThreads /\ curr_urls = <<>> THEN "search" ELSE "refuse"
  /\ UNCHANGED <<used_urls, curr_urls, stalled_threads, statVars, unborn, pills, cmd_sock,
                 stats, cmd, thrVars, diskVars>>

(* the end of start_search(), or the refusal sent, and the unlock *)
SearchEnd ==
  /\ mainpc \in {"search", "refuse"}
  /\ mtx' = None
  /\ mainpc' = "reply"
  /\ UNCHANGED <<used_urls, curr_urls, stalled_threads, statVars, unborn, pills, cmd_sock,
                 stats, cmd, thrVars, diskVars>>

ReplyCmd ==
  /\ mainpc = "reply"
  /\ cmd' = [cmd EXCEPT ![cmd_sock] = "closed"]
  /\ cmd_sock' = None /\ stats' = NoStats
  /\ mainpc' = "accept"
  /\ UNCHANGED <<poolVars, statVars, unborn, pills, thrVars, diskVars>>

(* exit(3) of read_cmd and send_message, and the exits of a search session *)
MainDies ==
  /\ mainpc \in {"read_cmd", "search", "refuse", "reply"}
  /\ mainpc' = "dead"
  /\ UNCHANGED <<poolVars, statVars, unborn, pills, cmd_sock, stats, cmd, thrVars, diskVars>>

Join ==
  /\ mainpc = "join"
  /\ \A t \in Threads : pc[t] = "exited"
  /\ mainpc' = "stopped"
  /\ UNCHANGED <<poolVars, statVars, unborn, pills, cmd_sock, stats, cmd, thrVars, diskVars>>
-----------------------------------------------------------------------------
(* A client thread.  A thread new to obtain() is "obtain", one blocked in    *)
(* pthread_cond_wait "waiting", one released from it and due to test the     *)
(* stack again "woken"; stalled_threads counts the last two.                 *)
Take(t) ==
  /\ Alive /\ t \notin unborn /\ pc[t] \in {"obtain", "woken"}
  /\ mtx = None /\ curr_urls # <<>>
  /\ stalled_threads' = stalled_threads - IF pc[t] = "woken" THEN 1 ELSE 0
  /\ curr_urls' = Front(curr_urls)
  /\ url' = [url EXCEPT ![t] = Last(curr_urls)]
  /\ pc' = [pc EXCEPT ![t] = IF Last(curr_urls) = NULL THEN "exited" ELSE "fetch"]
  /\ UNCHANGED <<used_urls, mtx, statVars, mainVars, rest, diskVars>>

(* Mutant: a thread is counted again each time it wakes up. *)
StallAgain(t) ==
  /\ Alive /\ t \notin unborn /\ pc[t] \in {"obtain", "woken"}
  /\ mtx = None /\ curr_urls = <<>>
  /\ stalled_threads' = stalled_threads + 1
  /\ pc' = [pc EXCEPT ![t] = "waiting"]
  /\ UNCHANGED <<used_urls, curr_urls, mtx, statVars, mainVars, url, rest, diskVars>>

Stall(t) ==
  /\ Alive /\ t \notin unborn /\ pc[t] \in {"obtain", "woken"}
  /\ mtx = None /\ curr_urls = <<>>
  /\ stalled_threads' = stalled_threads + IF pc[t] = "obtain" THEN 1 ELSE 0
  /\ pc' = [pc EXCEPT ![t] = "waiting"]
  /\ UNCHANGED <<used_urls, curr_urls, mtx, statVars, mainVars, url, rest, diskVars>>

(* a page arrives and is written under save_dir *)
FetchPage(t) ==
  /\ Alive /\ pc[t] = "fetch"
  /\ saved' = [saved EXCEPT ![url[t]] = "page"]
  /\ pc' = [pc EXCEPT ![t] = "count"]
  /\ UNCHANGED <<poolVars, statVars, mainVars, url, rest, done>>

(* Mutant: an error answer is counted as a page. *)
FetchErrorCounted(t) ==
  /\ Alive /\ pc[t] = "fetch"
  /\ saved' = [saved EXCEPT ![url[t]] = "error"]
  /\ pc' = [pc EXCEPT ![t] = "count"]
  /\ UNCHANGED <<poolVars, statVars, mainVars, url, rest, done>>

(* so is the text of a 400, 403 or 404 answer, which is neither counted nor followed *)
FetchError(t) ==
  /\ Alive /\ pc[t] = "fetch"
  /\ saved' = [saved EXCEPT ![url[t]] = "error"]
  /\ pc' = [pc EXCEPT ![t] = "links"]
  /\ UNCHANGED <<poolVars, statVars, mainVars, url, rest, done>>

(* a request written in part or a response without a valid header: the URL is not tried again *)
FetchDropped(t) ==
  /\ Alive /\ pc[t] = "fetch"
  /\ pc' = [pc EXCEPT ![t] = "links"]
  /\ UNCHANGED <<poolVars, statVars, mainVars, url, rest, diskVars>>

(* exit(1): no connection to the server, or lost before the whole response *)
FetchFails(t) ==
  /\ Alive /\ pc[t] = "fetch"
  /\ mainpc' = "dead"
  /\ UNCHANGED <<poolVars, statVars, unborn, pills, cmd_sock, stats, cmd, thrVars, diskVars>>

CountPage(t) ==
  /\ Alive /\ pc[t] = "count" /\ mtx2 = None
  /\ mtx2' = t
  /\ pages_downloaded' = (pages_downloaded + 1) % UINT_RANGE
  /\ pc' = [pc EXCEPT ![t] = "count_bytes"]
  /\ UNCHANGED <<poolVars, total_bytes_received, mainVars, url, rest, diskVars>>

(* Mutant: the search for links starts behind the first one. *)
CountBytesSkipsLink(t) ==
  /\ Alive /\ pc[t] = "count_bytes"
  /\ mtx2' = None
  /\ total_bytes_received' = (total_bytes_received + Length[url[t]]) % UINT_RANGE
  /\ rest' = [rest EXCEPT ![t] = Tail(Links[url[t]])]
  /\ pc' = [pc EXCEPT ![t] = "links"]
  /\ UNCHANGED <<poolVars, pages_downloaded, mainVars, url, diskVars>>

CountBytes(t) ==
  /\ Alive /\ pc[t] = "count_bytes"
  /\ mtx2' = None
  /\ total_bytes_received' = (total_bytes_received + Length[url[t]]) % UINT_RANGE
  /\ rest' = [rest EXCEPT ![t] = Links[url[t]]]
  /\ pc' = [pc EXCEPT ![t] = "links"]
  /\ UNCHANGED <<poolVars, pages_downloaded, mainVars, url, diskVars>>

(* Mutant: only the URLs still in the stack count as found. *)
PlaceLinkAgain(t) ==
  LET path == MakeFilePath(Head(rest[t]))
  IN  /\ Alive /\ pc[t] = "links" /\ rest[t] # <<>> /\ mtx = None
      /\ path \notin Range(curr_urls)
      /\ used_urls' = Append(used_urls, path)
      /\ curr_urls' = Append(curr_urls, path)
      /\ rest' = [rest EXCEPT ![t] = Tail(@)]
      /\ pc' = [pc EXCEPT ![t] = "signal"]
      /\ UNCHANGED <<stalled_threads, mtx, statVars, mainVars, url, diskVars>>

(* Mutant: a new URL is recorded as found and not pushed. *)
PlaceLinkNoPush(t) ==
  LET path == MakeFilePath(Head(rest[t]))
  IN  /\ Alive /\ pc[t] = "links" /\ rest[t] # <<>> /\ mtx = None
      /\ path \notin Used
      /\ used_urls' = Append(used_urls, path)
      /\ rest' = [rest EXCEPT ![t] = Tail(@)]
      /\ pc' = [pc EXCEPT ![t] = "signal"]
      /\ UNCHANGED <<curr_urls, stalled_threads, mtx, statVars, mainVars, url, diskVars>>

(* search_for_links: the next link of the page, placed unless it was found before *)
PlaceLink(t) ==
  LET path == MakeFilePath(Head(rest[t]))
  IN  /\ Alive /\ pc[t] = "links" /\ rest[t] # <<>> /\ mtx = None
      /\ path \notin Used
      /\ used_urls' = Append(used_urls, path)
      /\ curr_urls' = Append(curr_urls, path)
      /\ rest' = [rest EXCEPT ![t] = Tail(@)]
      /\ pc' = [pc EXCEPT ![t] = "signal"]
      /\ UNCHANGED <<stalled_threads, mtx, statVars, mainVars, url, diskVars>>

SkipDuplicate(t) ==
  /\ Alive /\ pc[t] = "links" /\ rest[t] # <<>> /\ mtx = None
  /\ MakeFilePath(Head(rest[t])) \in Used
  /\ rest' = [rest EXCEPT ![t] = Tail(@)]
  /\ UNCHANGED <<poolVars, statVars, mainVars, pc, url, diskVars>>

SignalPlaced(t) ==
  /\ Alive /\ pc[t] = "signal"
  /\ SignalWaiting([pc EXCEPT ![t] = "links"])
  /\ UNCHANGED <<poolVars, statVars, mainVars, url, rest, diskVars>>

Finish(t) ==
  /\ Alive /\ pc[t] = "links" /\ rest[t] = <<>>
  /\ done' = done \union {url[t]}
  /\ url' = [url EXCEPT ![t] = None]
  /\ pc' = [pc EXCEPT ![t] = "obtain"]
  /\ UNCHANGED <<poolVars, statVars, mainVars, rest, saved>>

(* pthread_cond_wait may return without a signal *)
SpuriousWakeup ==
  /\ Alive
  /\ \E t \in Threads : pc[t] = "waiting" /\ pc' = [pc EXCEPT ![t] = "woken"]
  /\ UNCHANGED <<poolVars, statVars, mainVars, url, rest, diskVars>>

(* ended, or idle with the crawl complete and no commander left *)
Rest ==
  /\ \/ ~Alive
     \/ /\ mainpc = "accept" /\ \A k \in Cmds : cmd[k] \in {"closed", "leaked"}
        /\ curr_urls = <<>> /\ \A t \in Threads : pc[t] = "waiting"
  /\ UNCHANGED vars
-----------------------------------------------------------------------------
MainStep ==
  \/ Spawn \/ AcceptCmd \/ ReadWord \/ ReadShutdown \/ ReadDisconnect \/ PlacePill \/ SignalPill
  \/ StatsPages \/ StatsBytes \/ SearchStart \/ SearchEnd \/ ReplyCmd \/ MainDies \/ Join

ThreadStep(t) ==
  \/ Take(t) \/ Stall(t) \/ FetchPage(t) \/ FetchError(t) \/ FetchDropped(t) \/ FetchFails(t)
  \/ CountPage(t) \/ CountBytes(t) \/ PlaceLink(t) \/ SkipDuplicate(t) \/ SignalPlaced(t)
  \/ Finish(t)

Next ==
  \/ MainStep
  \/ \E t \in Threads : ThreadStep(t)
  \/ \E k \in Cmds : ConnectCmd(k)
  \/ SpuriousWakeup
  \/ Rest

Spec == Init /\ [][Next]_vars

(* Every thread is scheduled; the server answers or hangs up, and so does a *)
(* commander, who also ends the search session it has opened.               *)
FairSpec == Spec /\ WF_vars(MainStep) /\ \A t \in Threads : WF_vars(ThreadStep(t))
-----------------------------------------------------------------------------
TypeOK ==
  /\ used_urls \in Seq(Urls) /\ curr_urls \in Seq(Urls \union {NULL})
  /\ stalled_threads \in 0 .. NThreads
  /\ mtx \in {Main, None} /\ mtx2 \in Threads \union {Main, None}
  /\ pages_downloaded \in 0 .. UINT_RANGE - 1
  /\ total_bytes_received \in 0 .. UINT_RANGE - 1
  /\ mainpc \in {"spawn", "accept", "read_cmd", "place", "signal", "stats", "stats_bytes",
                 "search_lock", "search", "refuse", "reply", "join", "stopped", "dead"}
  /\ unborn \in SUBSET Threads /\ pills \in 0 .. NThreads
  /\ cmd_sock \in Cmds \union {None}
  /\ stats \in [pages : 0 .. UINT_RANGE - 1, bytes : 0 .. UINT_RANGE - 1]
  /\ cmd \in [Cmds -> {"away", "backlog", "open", "closed", "leaked"}]
  /\ pc \in [Threads -> {"obtain", "waiting", "woken", "fetch", "count", "count_bytes",
                         "links", "signal", "exited"}]
  /\ url \in [Threads -> Urls \union {NULL, None}]
  /\ rest \in [Threads -> Seq(Hrefs)]
  /\ saved \in [Urls -> {"page", "error", None}]
  /\ done \in SUBSET Urls

Pending == Range(curr_urls) \ {NULL}
Holds(t) == {url[t]} \ {NULL, None}

(* Every URL ever found is in exactly one place: once in the stack, with one *)
(* thread, or finished; and it was found once. So no page is fetched twice   *)
(* (write_page_in_file appends: a second fetch would double the saved file)  *)
(* and no URL is forgotten, however the threads interleave.                  *)
UrlOwnership ==
  /\ \A i, j \in DOMAIN used_urls : used_urls[i] = used_urls[j] => i = j
  /\ Used = Pending \union done \union UNION {Holds(t) : t \in Threads}
  /\ \A i, j \in DOMAIN curr_urls : i # j /\ curr_urls[i] = curr_urls[j] => curr_urls[i] = NULL
  /\ \A t, v \in Threads : t # v => Holds(t) \intersect Holds(v) = {}
  /\ \A t \in Threads : Holds(t) \intersect (Pending \union done) = {}
  /\ Pending \intersect done = {}

(* The test of SEARCH, stalled_threads == n_threads with an empty stack, is  *)
(* sound: for the whole session no thread works on a page, every URL found   *)
(* is finished, and every link of every page saved has been found.           *)
SearchComplete ==
  mainpc = "search" =>
     /\ Stalled = Threads
     /\ Used = done
     /\ \A u \in done : saved[u] = "page" => LinkedFrom(u) \subseteq done

(* When nobody is inside a critical section of mtx2 the counters are exactly *)
(* the number and the bytes of the pages saved and counted, modulo 2^32.     *)
StatsExact ==
  mtx2 = None =>
     /\ pages_downloaded = Cardinality(Downloaded \ Uncounted) % UINT_RANGE
     /\ total_bytes_received = Bytes(Downloaded \ Uncounted) % UINT_RANGE

(* The two numbers of one STATS answer describe one set of saved pages.      *)
StatsSnapshot ==
  (mainpc = "reply" /\ stats # NoStats) =>
     \E S \in SUBSET Downloaded : /\ stats.pages = Cardinality(S) % UINT_RANGE
                                  /\ stats.bytes = Bytes(S) % UINT_RANGE

(* The statistics, as they are kept and as they are told. *)
StatsRight == StatsExact /\ StatsSnapshot

ShuttingDown == mainpc \in {"place", "signal", "join", "stopped"}

phase ==
  CASE mainpc \in {"stopped", "dead", "search"} -> mainpc
    [] mainpc \in {"place", "signal", "join"} -> "stopping"
    [] OTHER -> "crawling"

(* The threads together explore the graph of links: a URL is found only as a *)
(* link of a saved page, finished once all its links are found, and a search *)
(* runs only over a complete exploration, which it does not change.          *)
Contract == INSTANCE CrawlContract WITH found <- Used
CrawlerImplementsContract == Contract!Spec

(* No wake-up is lost: every URL found is finished in the end, unless the    *)
(* crawler is told to stop or dies.                                          *)
EveryUrlHandled ==
  \A u \in Urls : u \in Used ~> (u \in done \/ ShuttingDown \/ ~Alive)

(* SHUTDOWN ends the process: every thread meets a NULL and main joins it.   *)
ShutdownStops == ShuttingDown ~> ~Alive

(* README, SHUTDOWN: "the crawler stops downloading webpages". Once every    *)
(* NULL is in the stack no thread obtains another URL. The stack hands out   *)
(* the links pushed after the NULLs first, so the code does not do this.     *)
StopsDownloading ==
  [][mainpc = "join" => \A t \in Threads : url'[t] # url[t] => url'[t] \notin Urls]_vars
=============================================================================
