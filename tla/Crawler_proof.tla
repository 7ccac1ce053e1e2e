--------------------------- MODULE Crawler_proof ---------------------------
(***************************************************************************)
(* Proofs about Crawler, for any number of threads and commanders and any  *)
(* graph of links.                                                         *)
(***************************************************************************)
EXTENDS Crawler, Data_proof, SequenceTheorems

(* Every link of a page names a path. *)
LEMMA HrefPath == \A h \in Hrefs : MakeFilePath(h) \in Urls
<1> SUFFICES ASSUME NEW h \in Hrefs PROVE MakeFilePath(h) \in Urls
  OBVIOUS
<1>1. PICK u \in Urls : h \in Range(Links[u])
  BY DEF Hrefs
<1>2. PICK i \in DOMAIN Links[u] : h = Links[u][i]
  BY <1>1 DEF Range
<1>3. MakeFilePath(h) \in LinkedFrom(u)
  BY <1>2 DEF LinkedFrom
<1> QED BY <1>3, CrawlerAssumption

LEMMA ModBound == \A a \in Int, m \in Nat \ {0} : a % m \in 0 .. m - 1
OBVIOUS

(* The operations of place() and obtain() on the stack. *)
LEMMA PushProperties ==
  ASSUME NEW S, NEW s \in Seq(S), NEW x \in S
  PROVE  /\ Append(s, x) \in Seq(S)
         /\ DOMAIN Append(s, x) = 1 .. Len(s) + 1 /\ DOMAIN s = 1 .. Len(s) /\ Len(s) \in Nat
         /\ \A i \in 1 .. Len(s) : Append(s, x)[i] = s[i]
         /\ Append(s, x)[Len(s) + 1] = x
BY AppendProperties, LenProperties

LEMMA PopProperties ==
  ASSUME NEW S, NEW s \in Seq(S), s # <<>>
  PROVE  /\ Front(s) \in Seq(S) /\ Last(s) \in S
         /\ DOMAIN s = 1 .. Len(s) /\ Len(s) \in Nat \ {0}
         /\ DOMAIN Front(s) = 1 .. Len(s) - 1
         /\ \A i \in 1 .. Len(s) - 1 : Front(s)[i] = s[i]
         /\ Last(s) = s[Len(s)]
<1>1. Len(s) \in Nat \ {0} /\ DOMAIN s = 1 .. Len(s)
  BY EmptySeq, LenProperties
<1>2. Last(s) = s[Len(s)] /\ Last(s) \in S
  BY <1>1, ElementOfSeq DEF Last
<1>3. /\ SubSeq(s, 1, Len(s) - 1) \in Seq(S)
      /\ Len(SubSeq(s, 1, Len(s) - 1)) = Len(s) - 1
      /\ \A i \in 1 .. Len(s) - 1 : SubSeq(s, 1, Len(s) - 1)[i] = s[i]
  BY <1>1
<1>4. DOMAIN Front(s) = 1 .. Len(s) - 1
  BY <1>3, LenProperties DEF Front
<1> QED BY <1>1, <1>2, <1>3, <1>4 DEF Front
-----------------------------------------------------------------------------
(* stalled_threads counts the threads that wait in obtain(). *)
CountOK == stalled_threads = Cardinality(Stalled)

PillsOK == mainpc \in {"place", "signal"} => pills > 0

(* What a thread has in its hands, by where it is. *)
ThreadOK ==
  \A t \in Threads :
    /\ pc[t] \in {"obtain", "waiting", "woken"} => url[t] = None
    /\ pc[t] \in {"fetch", "count", "count_bytes", "links", "signal"} => url[t] \in Urls
    /\ pc[t] = "exited" => url[t] = NULL
    /\ pc[t] \notin {"links", "signal"} => rest[t] = <<>>

(* main has mtx for the length of a search or of its refusal. *)
MutexOK == mainpc # "dead" => (mtx = Main <=> mainpc \in {"search", "refuse"})

TypeInv == TypeOK /\ CountOK /\ PillsOK /\ ThreadOK /\ MutexOK

LEMMA NThreadsPositive == NThreads \in Nat /\ NThreads > 0
BY CrawlerAssumption, FS_CardinalityType, FS_EmptySet DEF NThreads

LEMMA NoStatsType == NoStats \in [pages : 0 .. UINT_RANGE - 1, bytes : 0 .. UINT_RANGE - 1]
<1>1. 0 \in 0 .. UINT_RANGE - 1
  BY CrawlerAssumption
<1> QED BY <1>1 DEF NoStats

(* How the number of waiting threads changes when one thread moves. *)
LEMMA OneMore ==
  ASSUME NEW A, NEW B, A \subseteq Threads, B \subseteq Threads, NEW t \in B, t \notin A,
         B = A \union {t}
  PROVE  Cardinality(B) = Cardinality(A) + 1 /\ Cardinality(B) \in 0 .. NThreads
<1>1. /\ IsFiniteSet(A) /\ Cardinality(A) \in Nat
      /\ IsFiniteSet(B) /\ Cardinality(B) \in Nat /\ Cardinality(B) <= Cardinality(Threads)
  BY CrawlerAssumption, FS_Subset, FS_CardinalityType
<1>2. Cardinality(B) = Cardinality(A) + 1
  BY <1>1, FS_AddElement
<1> QED BY <1>1, <1>2, NThreadsPositive DEF NThreads

LEMMA OneLess ==
  ASSUME NEW A, NEW B, A \subseteq Threads, B \subseteq Threads, NEW t \in A, B = A \ {t}
  PROVE  Cardinality(B) = Cardinality(A) - 1 /\ Cardinality(B) \in 0 .. NThreads
<1>1. /\ IsFiniteSet(A) /\ Cardinality(A) \in Nat
      /\ IsFiniteSet(B) /\ Cardinality(B) \in Nat /\ Cardinality(B) <= Cardinality(Threads)
  BY CrawlerAssumption, FS_Subset, FS_CardinalityType
<1>2. Cardinality(B) = Cardinality(A) - 1
  BY <1>1, FS_RemoveElement
<1> QED BY <1>1, <1>2, NThreadsPositive DEF NThreads

LEMMA InitTypeInv == Init => TypeInv
<1> SUFFICES ASSUME Init PROVE TypeInv
  OBVIOUS
<1> USE CrawlerAssumption, NThreadsPositive
<1>1. Stalled = {} /\ CountOK
  <2>1. Stalled = {}
    BY DEF Init, Stalled
  <2> QED BY <2>1, FS_EmptySet DEF Init, CountOK
<1>2. 0 \in 0 .. UINT_RANGE - 1 /\ 0 \in 0 .. NThreads
  OBVIOUS
<1>3. <<StartUrl>> \in Seq(Urls) /\ <<StartUrl>> \in Seq(Urls \union {NULL}) /\ <<>> \in Seq(Hrefs)
  OBVIOUS
<1>4. TypeOK
  BY <1>2, <1>3, NoStatsType DEF Init, TypeOK
<1>5. PillsOK /\ ThreadOK /\ MutexOK
  BY DEF Init, PillsOK, ThreadOK, MutexOK
<1> QED BY <1>1, <1>4, <1>5 DEF TypeInv

(* A thread that moves among the places outside obtain(), or inside it, leaves the count alone. *)
LEMMA CountKept ==
  ASSUME CountOK, UNCHANGED stalled_threads, Stalled' = Stalled
  PROVE  CountOK'
BY DEF CountOK

(* pthread_cond_signal moves one waiting thread and no other; waking is pc or all but one of it. *)
LEMMA SignalMoves ==
  ASSUME NEW waking \in [Threads -> {"obtain", "waiting", "woken", "fetch", "count", "count_bytes",
                                     "links", "signal", "exited"}],
         SignalWaiting(waking)
  PROVE  /\ pc' \in [Threads -> {"obtain", "waiting", "woken", "fetch", "count", "count_bytes",
                                 "links", "signal", "exited"}]
         /\ \A t \in Threads : pc'[t] = waking[t] \/ (waking[t] = "waiting" /\ pc'[t] = "woken")
<1> DEFINE waiting == {t \in Threads : waking[t] = "waiting"}
<1>1. CASE pc' = waking
  BY <1>1
<1>2. ASSUME NEW t \in waiting, pc' = [waking EXCEPT ![t] = "woken"]
      PROVE  /\ pc' \in [Threads -> {"obtain", "waiting", "woken", "fetch", "count", "count_bytes",
                                     "links", "signal", "exited"}]
             /\ \A v \in Threads : pc'[v] = waking[v] \/ (waking[v] = "waiting" /\ pc'[v] = "woken")
  BY <1>2
<1> QED BY <1>1, <1>2 DEF SignalWaiting

(* Steps of main that leave the threads where they are. *)
LEMMA MainTypeInv ==
  ASSUME TypeInv,
         \/ Spawn \/ AcceptCmd \/ ReadWord \/ ReadShutdown \/ ReadDisconnect \/ PlacePill \/ StatsPages
         \/ StatsBytes \/ SearchStart \/ SearchEnd \/ ReplyCmd \/ MainDies \/ Join
  PROVE  TypeInv'
<1> USE CrawlerAssumption
<1> USE DEF TypeInv, TypeOK, CountOK, PillsOK, ThreadOK, MutexOK, Stalled
<1>1. CASE Spawn
  BY <1>1 DEF Spawn, poolVars, statVars, thrVars, diskVars
<1>2. CASE AcceptCmd
  BY <1>2 DEF AcceptCmd, poolVars, statVars, thrVars, diskVars
<1>3. CASE ReadWord
  BY <1>3 DEF ReadWord, poolVars, statVars, thrVars, diskVars
<1>4. CASE ReadShutdown
  BY <1>4, NThreadsPositive DEF ReadShutdown, poolVars, statVars, thrVars, diskVars
<1>5. CASE ReadDisconnect
  BY <1>5 DEF ReadDisconnect, poolVars, statVars, thrVars, diskVars
<1>6. CASE PlacePill
  BY <1>6, PushProperties DEF PlacePill, poolVars, statVars, thrVars, diskVars
<1>7. CASE StatsPages
  BY <1>7 DEF StatsPages, poolVars, statVars, thrVars, diskVars
<1>8. CASE StatsBytes
  BY <1>8 DEF StatsBytes, poolVars, statVars, thrVars, diskVars
<1>9. CASE SearchStart
  BY <1>9 DEF SearchStart, poolVars, statVars, thrVars, diskVars
<1>10. CASE SearchEnd
  BY <1>10 DEF SearchEnd, poolVars, statVars, thrVars, diskVars
<1>11. CASE ReplyCmd
  BY <1>11, NoStatsType DEF ReplyCmd, poolVars, statVars, thrVars, diskVars
<1>12. CASE MainDies
  BY <1>12 DEF MainDies, poolVars, statVars, thrVars, diskVars
<1>13. CASE Join
  BY <1>13 DEF Join, poolVars, statVars, thrVars, diskVars
<1> QED BY <1>1, <1>2, <1>3, <1>4, <1>5, <1>6, <1>7, <1>8, <1>9, <1>10, <1>11, <1>12, <1>13

(* A signal leaves what the threads hold and how many of them wait. *)
LEMMA SignalKeeps ==
  ASSUME TypeInv, NEW waking, SignalWaiting(waking), UNCHANGED <<stalled_threads, url, rest>>,
         \/ waking = pc
         \/ \E t \in Threads : pc[t] = "signal" /\ waking = [pc EXCEPT ![t] = "links"]
  PROVE  /\ pc' \in [Threads -> {"obtain", "waiting", "woken", "fetch", "count", "count_bytes",
                                 "links", "signal", "exited"}]
         /\ CountOK' /\ ThreadOK'
<1> USE DEF TypeInv, TypeOK
<1>1. waking \in [Threads -> {"obtain", "waiting", "woken", "fetch", "count", "count_bytes",
                              "links", "signal", "exited"}]
  OBVIOUS
<1>2. \A t \in Threads : waking[t] = pc[t] \/ (pc[t] = "signal" /\ waking[t] = "links")
  OBVIOUS
<1>3. /\ pc' \in [Threads -> {"obtain", "waiting", "woken", "fetch", "count", "count_bytes",
                              "links", "signal", "exited"}]
      /\ \A t \in Threads : pc'[t] = waking[t] \/ (waking[t] = "waiting" /\ pc'[t] = "woken")
  BY <1>1, SignalMoves
<1>4. Stalled' = Stalled
  BY <1>2, <1>3 DEF Stalled
<1>5. ThreadOK'
  BY <1>2, <1>3 DEF ThreadOK
<1> QED BY <1>3, <1>4, <1>5, CountKept

LEMMA SignalTypeInv ==
  ASSUME TypeInv, SignalPill \/ \E t \in Threads : SignalPlaced(t)
  PROVE  TypeInv'
<1> USE DEF TypeInv, TypeOK
<1>1. CASE SignalPill
  <2>1. /\ pc' \in [Threads -> {"obtain", "waiting", "woken", "fetch", "count", "count_bytes",
                                "links", "signal", "exited"}]
        /\ CountOK' /\ ThreadOK'
    BY <1>1, SignalKeeps DEF SignalPill, poolVars
  <2>2. pills > 0 /\ pills' = pills - 1 /\ pills' \in 0 .. NThreads
    BY <1>1, NThreadsPositive DEF SignalPill, PillsOK
  <2>3. (mainpc' = "place" /\ pills' > 0) \/ mainpc' = "join"
    BY <1>1, <2>2 DEF SignalPill
  <2>4. PillsOK' /\ MutexOK'
    BY <1>1, <2>3 DEF SignalPill, PillsOK, MutexOK, poolVars
  <2>5. cmd_sock' \in Cmds \union {None} /\ cmd' \in [Cmds -> {"away", "backlog", "open", "closed", "leaked"}]
    BY <1>1 DEF SignalPill
  <2> QED BY <1>1, <2>1, <2>2, <2>3, <2>4, <2>5 DEF SignalPill, poolVars, statVars, diskVars
<1>2. ASSUME NEW t \in Threads, SignalPlaced(t) PROVE TypeInv'
  <2>1. /\ pc' \in [Threads -> {"obtain", "waiting", "woken", "fetch", "count", "count_bytes",
                                "links", "signal", "exited"}]
        /\ CountOK' /\ ThreadOK'
    BY <1>2, SignalKeeps DEF SignalPlaced, poolVars
  <2> QED BY <1>2, <2>1 DEF SignalPlaced, PillsOK, MutexOK, poolVars, statVars, mainVars, diskVars
<1> QED BY <1>1, <1>2

LEMMA ObtainTypeInv ==
  ASSUME TypeInv, NEW t \in Threads, Take(t) \/ Stall(t)
  PROVE  TypeInv'
<1> USE CrawlerAssumption DEF TypeInv, TypeOK
<1>1. CASE Take(t)
  <2>1. Front(curr_urls) \in Seq(Urls \union {NULL}) /\ Last(curr_urls) \in Urls \union {NULL}
    BY <1>1, PopProperties DEF Take
  <2>2. CountOK' /\ stalled_threads' \in 0 .. NThreads
    <3>1. Stalled \subseteq Threads /\ Stalled' \subseteq Threads /\ Stalled' = Stalled \ {t}
      BY <1>1 DEF Take, Stalled
    <3>2. CASE pc[t] = "woken"
      <4>1. t \in Stalled /\ stalled_threads' = stalled_threads - 1
        BY <1>1, <3>2 DEF Take, Stalled
      <4>2. /\ Cardinality(Stalled') = Cardinality(Stalled) - 1
            /\ Cardinality(Stalled') \in 0 .. NThreads
        BY <3>1, <4>1, OneLess
      <4> QED BY <4>1, <4>2 DEF CountOK
    <3>3. CASE pc[t] = "obtain"
      <4>1. Stalled' = Stalled /\ stalled_threads' = stalled_threads
        BY <1>1, <3>3, <3>1 DEF Take, Stalled
      <4> QED BY <4>1 DEF CountOK
    <3> QED BY <1>1, <3>2, <3>3 DEF Take
  <2>3. ThreadOK'
    BY <1>1, <2>1 DEF Take, ThreadOK
  <2> QED BY <1>1, <2>1, <2>2, <2>3 DEF Take, PillsOK, MutexOK, statVars, mainVars, diskVars
<1>2. CASE Stall(t)
  <2>2. CountOK' /\ stalled_threads' \in 0 .. NThreads
    <3>1. Stalled \subseteq Threads /\ Stalled' \subseteq Threads /\ Stalled' = Stalled \union {t}
      BY <1>2 DEF Stall, Stalled
    <3>2. CASE pc[t] = "obtain"
      <4>1. t \notin Stalled /\ stalled_threads' = stalled_threads + 1
        BY <1>2, <3>2 DEF Stall, Stalled
      <4>2. /\ Cardinality(Stalled') = Cardinality(Stalled) + 1
            /\ Cardinality(Stalled') \in 0 .. NThreads
        BY <3>1, <4>1, OneMore
      <4> QED BY <4>1, <4>2 DEF CountOK
    <3>3. CASE pc[t] = "woken"
      <4>1. Stalled' = Stalled /\ stalled_threads' = stalled_threads
        BY <1>2, <3>3, <3>1 DEF Stall, Stalled
      <4> QED BY <4>1 DEF CountOK
    <3> QED BY <1>2, <3>2, <3>3 DEF Stall
  <2>3. ThreadOK'
    BY <1>2 DEF Stall, ThreadOK
  <2> QED BY <1>2, <2>2, <2>3 DEF Stall, PillsOK, MutexOK, statVars, mainVars, diskVars
<1> QED BY <1>1, <1>2

(* The steps of a thread between obtain() and the end of its page, and those of its peers. *)
LEMMA PageTypeInv ==
  ASSUME TypeInv, NEW t \in Threads,
         \/ FetchPage(t) \/ FetchError(t) \/ FetchDropped(t) \/ FetchFails(t) \/ CountPage(t)
         \/ CountBytes(t) \/ SkipDuplicate(t) \/ Finish(t)
  PROVE  TypeInv'
<1> USE CrawlerAssumption DEF TypeInv, TypeOK, CountOK, PillsOK, ThreadOK, MutexOK
<1>1. CASE FetchPage(t)
  <2>1. Stalled' = Stalled
    BY <1>1 DEF FetchPage, Stalled
  <2> QED BY <1>1, <2>1 DEF FetchPage, poolVars, statVars, mainVars
<1>2. CASE FetchError(t)
  <2>1. Stalled' = Stalled
    BY <1>2 DEF FetchError, Stalled
  <2> QED BY <1>2, <2>1 DEF FetchError, poolVars, statVars, mainVars
<1>3. CASE FetchDropped(t)
  <2>1. Stalled' = Stalled
    BY <1>3 DEF FetchDropped, Stalled
  <2> QED BY <1>3, <2>1 DEF FetchDropped, poolVars, statVars, mainVars, diskVars
<1>4. CASE FetchFails(t)
  <2>1. Stalled' = Stalled
    BY <1>4 DEF FetchFails, thrVars, Stalled
  <2> QED BY <1>4, <2>1 DEF FetchFails, poolVars, statVars, thrVars, diskVars
<1>5. CASE CountPage(t)
  <2>1. Stalled' = Stalled
    BY <1>5 DEF CountPage, Stalled
  <2>2. pages_downloaded' \in 0 .. UINT_RANGE - 1
    <3>1. pages_downloaded + 1 \in Int
      OBVIOUS
    <3> QED BY <1>5, <3>1, ModBound DEF CountPage
  <2> QED BY <1>5, <2>1, <2>2 DEF CountPage, poolVars, mainVars, diskVars
<1>6. CASE CountBytes(t)
  <2>1. Stalled' = Stalled
    BY <1>6 DEF CountBytes, Stalled
  <2>2. url[t] \in Urls
    BY <1>6 DEF CountBytes
  <2>3. Links[url[t]] \in Seq(Hrefs) /\ total_bytes_received + Length[url[t]] \in Int
    BY <2>2
  <2>4. total_bytes_received' \in 0 .. UINT_RANGE - 1
    BY <1>6, <2>3, ModBound DEF CountBytes
  <2> QED BY <1>6, <2>1, <2>2, <2>3, <2>4 DEF CountBytes, poolVars, mainVars, diskVars
<1>7. CASE SkipDuplicate(t)
  <2>1. Stalled' = Stalled
    BY <1>7 DEF SkipDuplicate, Stalled
  <2>2. Tail(rest[t]) \in Seq(Hrefs)
    BY <1>7, HeadTailProperties DEF SkipDuplicate
  <2> QED BY <1>7, <2>1, <2>2 DEF SkipDuplicate, poolVars, statVars, mainVars, diskVars
<1>8. CASE Finish(t)
  <2>1. Stalled' = Stalled
    BY <1>8 DEF Finish, Stalled
  <2> QED BY <1>8, <2>1 DEF Finish, poolVars, statVars, mainVars
<1> QED BY <1>1, <1>2, <1>3, <1>4, <1>5, <1>6, <1>7, <1>8

LEMMA PlaceTypeInv ==
  ASSUME TypeInv, NEW t \in Threads, PlaceLink(t)
  PROVE  TypeInv'
<1> USE CrawlerAssumption DEF TypeInv, TypeOK
<1> DEFINE path == MakeFilePath(Head(rest[t]))
<1>1. Head(rest[t]) \in Hrefs /\ Tail(rest[t]) \in Seq(Hrefs)
  BY HeadTailProperties DEF PlaceLink
<1>2. path \in Urls
  BY <1>1, HrefPath
<1>3. used_urls' \in Seq(Urls) /\ curr_urls' \in Seq(Urls \union {NULL})
  <2> HIDE DEF path
  <2>1. used_urls' = Append(used_urls, path) /\ curr_urls' = Append(curr_urls, path)
    BY DEF PlaceLink, path
  <2> QED BY <1>2, <2>1, PushProperties
<1>4. Stalled' = Stalled
  BY DEF PlaceLink, Stalled
<1>5. CountOK' /\ ThreadOK'
  BY <1>4, CountKept DEF PlaceLink, ThreadOK
<1> QED BY <1>1, <1>3, <1>5 DEF PlaceLink, PillsOK, MutexOK, statVars, mainVars, diskVars

LEMMA PeerTypeInv ==
  ASSUME TypeInv, (\E k \in Cmds : ConnectCmd(k)) \/ SpuriousWakeup \/ UNCHANGED vars
  PROVE  TypeInv'
<1> USE DEF TypeInv, TypeOK, CountOK, PillsOK, ThreadOK, MutexOK
<1>1. CASE \E k \in Cmds : ConnectCmd(k)
  BY <1>1 DEF ConnectCmd, poolVars, statVars, thrVars, diskVars, Stalled
<1>2. CASE SpuriousWakeup
  <2>1. Stalled' = Stalled
    BY <1>2 DEF SpuriousWakeup, Stalled
  <2> QED BY <1>2, <2>1 DEF SpuriousWakeup, poolVars, statVars, mainVars, diskVars
<1>3. CASE UNCHANGED vars
  BY <1>3 DEF vars, poolVars, statVars, mainVars, thrVars, diskVars, Stalled
<1> QED BY <1>1, <1>2, <1>3

LEMMA StepTypeInv == TypeInv /\ [Next]_vars => TypeInv'
BY MainTypeInv, SignalTypeInv, ObtainTypeInv, PageTypeInv, PlaceTypeInv, PeerTypeInv
   DEF Next, MainStep, ThreadStep, Rest

LEMMA AlwaysTypeInv == Spec => []TypeInv
BY InitTypeInv, StepTypeInv, PTL DEF Spec

(* Every variable of the crawler keeps its type: stalled_threads, which the  *)
(* code raises and lowers around pthread_cond_wait, stays within the number  *)
(* of threads because it is exactly the number of threads waiting.           *)
THEOREM TypeCorrect == Spec => []TypeOK
<1>1. TypeInv => TypeOK
  BY DEF TypeInv
<1> QED BY <1>1, AlwaysTypeInv, PTL
-----------------------------------------------------------------------------
(* No URL is twice in a sequence; the NULLs of a shutdown may be. *)
Once(s) == \A i, j \in DOMAIN s : s[i] = s[j] /\ s[i] # NULL => i = j

LEMMA PushOnce ==
  ASSUME NEW S, NEW s \in Seq(S), NEW x \in S, Once(s), x = NULL \/ x \notin Range(s)
  PROVE  Once(Append(s, x))
<1>1. /\ DOMAIN Append(s, x) = 1 .. Len(s) + 1 /\ DOMAIN s = 1 .. Len(s) /\ Len(s) \in Nat
      /\ \A i \in 1 .. Len(s) : Append(s, x)[i] = s[i]
      /\ Append(s, x)[Len(s) + 1] = x
  BY PushProperties
<1>2. \A i \in 1 .. Len(s) : x = NULL \/ s[i] # x
  BY <1>1 DEF Range
<1> QED BY <1>1, <1>2 DEF Once

LEMMA PushRange ==
  ASSUME NEW S, NEW s \in Seq(S), NEW x \in S
  PROVE  Range(Append(s, x)) = Range(s) \union {x}
<1>1. /\ DOMAIN Append(s, x) = 1 .. Len(s) + 1 /\ DOMAIN s = 1 .. Len(s) /\ Len(s) \in Nat
      /\ \A i \in 1 .. Len(s) : Append(s, x)[i] = s[i]
      /\ Append(s, x)[Len(s) + 1] = x
  BY PushProperties
<1>2. 1 .. Len(s) + 1 = (1 .. Len(s)) \union {Len(s) + 1}
  BY <1>1
<1> QED BY <1>1, <1>2, ZenonT(30) DEF Range

LEMMA PopOnce ==
  ASSUME NEW S, NEW s \in Seq(S), s # <<>>, Once(s)
  PROVE  Once(Front(s)) /\ (Last(s) = NULL \/ Last(s) \notin Range(Front(s)))
<1>1. /\ DOMAIN s = 1 .. Len(s) /\ Len(s) \in Nat \ {0} /\ DOMAIN Front(s) = 1 .. Len(s) - 1
      /\ \A i \in 1 .. Len(s) - 1 : Front(s)[i] = s[i]
      /\ Last(s) = s[Len(s)]
  BY PopProperties
<1>2. Once(Front(s))
  BY <1>1 DEF Once
<1>3. ASSUME NEW i \in 1 .. Len(s) - 1, Front(s)[i] = Last(s) PROVE Last(s) = NULL
  BY <1>1, <1>3 DEF Once
<1> QED BY <1>1, <1>2, <1>3 DEF Range

LEMMA PopRange ==
  ASSUME NEW S, NEW s \in Seq(S), s # <<>>
  PROVE  Range(s) = Range(Front(s)) \union {Last(s)}
<1>1. /\ DOMAIN s = 1 .. Len(s) /\ Len(s) \in Nat \ {0} /\ DOMAIN Front(s) = 1 .. Len(s) - 1
      /\ \A i \in 1 .. Len(s) - 1 : Front(s)[i] = s[i]
      /\ Last(s) = s[Len(s)]
  BY PopProperties
<1>2. 1 .. Len(s) = (1 .. Len(s) - 1) \union {Len(s)}
  BY <1>1
<1> QED BY <1>1, <1>2, Zenon DEF Range

(* UrlOwnership, said of one URL or one thread at a time. *)
InHands(u) == \E t \in Threads : url[t] = u

OneOwner ==
  /\ \A t \in Threads : url[t] \in Urls => url[t] \notin Range(curr_urls) /\ url[t] \notin done
  /\ \A t, v \in Threads : t # v /\ url[t] \in Urls => url[t] # url[v]
  /\ \A u \in done : u \notin Range(curr_urls)

AnOwner == \A u \in Urls : u \in Used <=> u \in Range(curr_urls) \/ u \in done \/ InHands(u)

OwnInv == Once(used_urls) /\ Once(curr_urls) /\ OneOwner /\ AnOwner

LEMMA InitOwnInv == Init => OwnInv
<1> SUFFICES ASSUME Init PROVE OwnInv
  OBVIOUS
<1> USE CrawlerAssumption DEF Init
<1>1. Range(<<StartUrl>>) = {StartUrl} /\ Once(<<StartUrl>>)
  BY DEF Range, Once
<1> QED BY <1>1 DEF OwnInv, OneOwner, AnOwner, InHands, Used

LEMMA QuietOwnInv ==
  ASSUME OwnInv, UNCHANGED <<used_urls, curr_urls, url, done>>
  PROVE  OwnInv'
BY DEF OwnInv, OneOwner, AnOwner, InHands, Used, Once, Range

LEMMA TakeOwnInv ==
  ASSUME TypeInv, OwnInv, NEW t \in Threads, Take(t)
  PROVE  OwnInv'
<1> DEFINE u == Last(curr_urls)
<1>1. /\ curr_urls \in Seq(Urls \union {NULL}) /\ curr_urls # <<>> /\ curr_urls' = Front(curr_urls)
      /\ url \in [Threads -> Urls \union {NULL, None}] /\ url' = [url EXCEPT ![t] = u]
      /\ used_urls' = used_urls /\ done' = done /\ done \subseteq Urls
  BY DEF Take, TypeInv, TypeOK, diskVars
<1>2. url[t] = None
  BY DEF Take, TypeInv, ThreadOK
<1>3. u \in Urls \union {NULL} /\ Once(Front(curr_urls)) /\ (u = NULL \/ u \notin Range(Front(curr_urls)))
  BY <1>1, PopProperties, PopOnce DEF OwnInv
<1>4. Range(curr_urls) = Range(curr_urls') \union {u}
  BY <1>1, PopRange
<1>5. Once(used_urls') /\ Once(curr_urls')
  BY <1>1, <1>3 DEF OwnInv, Once
<1> HIDE DEF u
<1>6. \A v \in Threads : url'[v] = IF v = t THEN u ELSE url[v]
  BY <1>1
<1>7. OneOwner'
  BY <1>1, <1>3, <1>4, <1>6, CrawlerAssumption DEF OwnInv, OneOwner
<1>8. AnOwner'
  <2>1. \A x \in Urls : InHands(x)' <=> InHands(x) \/ x = u
    BY <1>2, <1>6, CrawlerAssumption DEF InHands
  <2>2. Used' = Used
    BY <1>1 DEF Used
  <2> QED BY <1>1, <1>4, <2>1, <2>2 DEF OwnInv, AnOwner
<1> QED BY <1>5, <1>7, <1>8 DEF OwnInv

LEMMA PlaceOwnInv ==
  ASSUME TypeInv, OwnInv, NEW t \in Threads, PlaceLink(t)
  PROVE  OwnInv'
<1> DEFINE u == MakeFilePath(Head(rest[t]))
<1>1. /\ curr_urls \in Seq(Urls \union {NULL}) /\ curr_urls' = Append(curr_urls, u)
      /\ used_urls \in Seq(Urls) /\ used_urls' = Append(used_urls, u)
      /\ url' = url /\ done' = done /\ done \subseteq Urls /\ u \notin Used
  BY DEF PlaceLink, TypeInv, TypeOK, diskVars
<1>2. u \in Urls
  BY HeadTailProperties, HrefPath DEF PlaceLink, TypeInv, TypeOK
<1> HIDE DEF u
<1>3. u \notin Range(curr_urls) /\ u \notin done /\ \A v \in Threads : url[v] # u
  BY <1>1, <1>2 DEF OwnInv, AnOwner, InHands
<1>4. Once(used_urls') /\ Once(curr_urls')
  BY <1>1, <1>2, <1>3, PushOnce DEF OwnInv, Used
<1>5. Range(curr_urls') = Range(curr_urls) \union {u} /\ Used' = Used \union {u}
  BY <1>1, <1>2, PushRange DEF Used
<1>6. OneOwner'
  BY <1>1, <1>3, <1>5 DEF OwnInv, OneOwner
<1>7. AnOwner'
  BY <1>1, <1>5 DEF OwnInv, AnOwner, InHands
<1> QED BY <1>4, <1>6, <1>7 DEF OwnInv

LEMMA PillOwnInv ==
  ASSUME TypeInv, OwnInv, PlacePill
  PROVE  OwnInv'
<1>1. /\ curr_urls \in Seq(Urls \union {NULL}) /\ curr_urls' = Append(curr_urls, NULL)
      /\ used_urls' = used_urls /\ url' = url /\ done' = done /\ done \subseteq Urls
  BY DEF PlacePill, TypeInv, TypeOK, thrVars, diskVars
<1>2. Once(used_urls') /\ Once(curr_urls')
  BY <1>1, PushOnce DEF OwnInv
<1>3. Range(curr_urls') = Range(curr_urls) \union {NULL} /\ Used' = Used
  BY <1>1, PushRange DEF Used
<1> QED BY <1>1, <1>2, <1>3, CrawlerAssumption DEF OwnInv, OneOwner, AnOwner, InHands

LEMMA FinishOwnInv ==
  ASSUME TypeInv, OwnInv, NEW t \in Threads, Finish(t)
  PROVE  OwnInv'
<1>1. /\ curr_urls' = curr_urls /\ used_urls' = used_urls
      /\ url \in [Threads -> Urls \union {NULL, None}] /\ url' = [url EXCEPT ![t] = None]
      /\ done' = done \union {url[t]} /\ url[t] \in Urls
  BY DEF Finish, TypeInv, TypeOK, ThreadOK, poolVars
<1>2. \A v \in Threads : url'[v] = IF v = t THEN None ELSE url[v]
  BY <1>1
<1>3. Once(used_urls') /\ Once(curr_urls') /\ Used' = Used /\ Range(curr_urls') = Range(curr_urls)
  BY <1>1 DEF OwnInv, Once, Used
<1>4. OneOwner'
  BY <1>1, <1>2, <1>3, CrawlerAssumption DEF OwnInv, OneOwner
<1>5. AnOwner'
  <2>1. \A x \in Urls : InHands(x) <=> InHands(x)' \/ x = url[t]
    BY <1>2, CrawlerAssumption DEF InHands
  <2> QED BY <1>1, <1>3, <2>1 DEF OwnInv, AnOwner
<1> QED BY <1>3, <1>4, <1>5 DEF OwnInv

(* Every other step leaves the URLs where they are. *)
LEMMA StepOwnInv ==
  ASSUME TypeInv, OwnInv, [Next]_vars
  PROVE  OwnInv'
<1>1. \/ UNCHANGED <<used_urls, curr_urls, url, done>>
      \/ PlacePill \/ \E t \in Threads : Take(t) \/ PlaceLink(t) \/ Finish(t)
  BY DEF Next, MainStep, ThreadStep, Rest, vars, poolVars, thrVars, diskVars, Spawn, AcceptCmd,
     ReadWord, ReadShutdown, ReadDisconnect, SignalPill, StatsPages, StatsBytes, SearchStart,
     SearchEnd, ReplyCmd, MainDies, Join, Stall, FetchPage, FetchError, FetchDropped, FetchFails,
     CountPage, CountBytes, SkipDuplicate, SignalPlaced, ConnectCmd, SpuriousWakeup
<1> QED BY <1>1, QuietOwnInv, PillOwnInv, TakeOwnInv, PlaceOwnInv, FinishOwnInv

LEMMA OwnershipHere == TypeInv /\ OwnInv => UrlOwnership
<1> SUFFICES ASSUME TypeInv, OwnInv PROVE UrlOwnership
  OBVIOUS
<1> USE CrawlerAssumption
<1>1. \A i, j \in DOMAIN used_urls : used_urls[i] = used_urls[j] => i = j
  <2>1. \A i \in DOMAIN used_urls : used_urls[i] # NULL
    BY LenProperties, ElementOfSeq DEF TypeInv, TypeOK
  <2> QED BY <2>1 DEF OwnInv, Once
<1>2. \A i, j \in DOMAIN curr_urls : i # j /\ curr_urls[i] = curr_urls[j] => curr_urls[i] = NULL
  BY DEF OwnInv, Once
<1>3. Used \subseteq Urls /\ Pending \subseteq Urls /\ done \subseteq Urls
  <2>1. \A i \in DOMAIN used_urls : used_urls[i] \in Urls
    BY LenProperties, ElementOfSeq DEF TypeInv, TypeOK
  <2>2. \A i \in DOMAIN curr_urls : curr_urls[i] \in Urls \union {NULL}
    BY LenProperties, ElementOfSeq DEF TypeInv, TypeOK
  <2> QED BY <2>1, <2>2 DEF Used, Pending, Range, TypeInv, TypeOK
<1>4. \A t \in Threads : Holds(t) \subseteq Urls
  BY DEF Holds, TypeInv, TypeOK
<1>5. Used = Pending \union done \union UNION {Holds(t) : t \in Threads}
  <2>1. \A u \in Urls : u \in UNION {Holds(t) : t \in Threads} <=> InHands(u)
    BY DEF Holds, InHands
  <2>2. \A u \in Urls : u \in Pending <=> u \in Range(curr_urls)
    BY DEF Pending
  <2>3. UNION {Holds(t) : t \in Threads} \subseteq Urls
    BY <1>4
  <2> QED BY <1>3, <2>1, <2>2, <2>3 DEF OwnInv, AnOwner
<1>6. \A t, v \in Threads : t # v => Holds(t) \intersect Holds(v) = {}
  BY DEF OwnInv, OneOwner, Holds, TypeInv, TypeOK
<1>7. \A t \in Threads : Holds(t) \intersect (Pending \union done) = {}
  BY DEF OwnInv, OneOwner, Holds, Pending, TypeInv, TypeOK
<1>8. Pending \intersect done = {}
  BY DEF OwnInv, OneOwner, Pending
<1> QED BY <1>1, <1>2, <1>5, <1>6, <1>7, <1>8 DEF UrlOwnership

(* Every URL found is in the stack, with one thread or finished, never in two *)
(* of these places and never twice in one: place() looks a link up in         *)
(* used_urls and records it there under the same lock, and obtain() takes a   *)
(* URL off the stack under it. So no page is fetched twice and none is lost.  *)
THEOREM OwnershipHolds == Spec => []UrlOwnership
<1>1. TypeInv /\ OwnInv /\ [Next]_vars => OwnInv'
  BY StepOwnInv
<1> QED BY <1>1, AlwaysTypeInv, InitOwnInv, OwnershipHere, PTL DEF Spec
-----------------------------------------------------------------------------
(* The paths that a list of hrefs names. *)
Paths(s) == {MakeFilePath(h) : h \in Range(s)}

LEMMA TailPaths ==
  ASSUME NEW s \in Seq(Hrefs), s # <<>>
  PROVE  Paths(s) = Paths(Tail(s)) \union {MakeFilePath(Head(s))}
<1>1. /\ DOMAIN s = 1 .. Len(s) /\ Len(s) \in Nat \ {0}
      /\ DOMAIN Tail(s) = 1 .. Len(s) - 1 /\ Head(s) = s[1]
      /\ \A i \in 1 .. Len(s) - 1 : Tail(s)[i] = s[i + 1]
  BY HeadTailProperties, LenProperties, EmptySeq
<1>2. ASSUME NEW i \in DOMAIN s PROVE s[i] = Head(s) \/ s[i] \in Range(Tail(s))
  <2>1. i = 1 \/ (i - 1 \in 1 .. Len(s) - 1 /\ s[i] = Tail(s)[i - 1])
    BY <1>1
  <2> QED BY <1>1, <2>1 DEF Range
<1>3. ASSUME NEW i \in DOMAIN Tail(s) PROVE Tail(s)[i] \in Range(s)
  <2>1. i + 1 \in DOMAIN s /\ Tail(s)[i] = s[i + 1]
    BY <1>1
  <2> QED BY <2>1 DEF Range
<1>4. Head(s) \in Range(s)
  BY <1>1 DEF Range
<1>5. Range(s) = Range(Tail(s)) \union {Head(s)}
  BY <1>2, <1>3, <1>4 DEF Range
<1> QED BY <1>5 DEF Paths

LEMMA EmptyPaths == Paths(<<>>) = {}
BY DEF Paths, Range

LEMMA PagePaths == \A u \in Urls : Paths(Links[u]) = LinkedFrom(u)
BY DEF Paths, LinkedFrom, Range

(* How far a thread has come with the page of its URL. *)
PageOK(t) ==
  /\ pc[t] \in {"count", "count_bytes"} => saved[url[t]] = "page"
  /\ rest[t] # <<>> => saved[url[t]] = "page" /\ Paths(rest[t]) \subseteq LinkedFrom(url[t])
  /\ pc[t] \in {"links", "signal"} /\ saved[url[t]] = "page" =>
        LinkedFrom(url[t]) \subseteq Used \union Paths(rest[t])

(* A URL that was fetched is finished, or with a thread that is past the fetch. *)
SavedOK ==
  \A u \in Urls : saved[u] # None => u \in done \/ \E t \in Threads : url[t] = u /\ pc[t] # "fetch"

DoneOK == \A u \in done : saved[u] = "page" => LinkedFrom(u) \subseteq Used

ExploreInv == (\A t \in Threads : PageOK(t)) /\ SavedOK /\ DoneOK

LEMMA InitExploreInv == Init => ExploreInv
BY CrawlerAssumption DEF Init, ExploreInv, PageOK, SavedOK, DoneOK

(* Steps of main, and those of a thread on its way through obtain() or after its signal. *)
LEMMA QuietExploreInv ==
  ASSUME ExploreInv, UNCHANGED <<used_urls, url, rest, saved, done>>,
         \A t \in Threads : \/ pc'[t] = pc[t]
                            \/ pc[t] \in {"obtain", "waiting", "woken"} /\ pc'[t] \in {"waiting", "woken"}
                            \/ pc[t] = "signal" /\ pc'[t] = "links"
  PROVE  ExploreInv'
<1>1. Used' = Used
  BY DEF Used
<1>2. \A t \in Threads : PageOK(t)'
  BY <1>1 DEF ExploreInv, PageOK
<1>3. SavedOK' /\ DoneOK'
  BY <1>1 DEF ExploreInv, SavedOK, DoneOK
<1> QED BY <1>2, <1>3 DEF ExploreInv

LEMMA QuietSteps ==
  ASSUME TypeInv,
         \/ MainStep \/ SpuriousWakeup \/ (\E k \in Cmds : ConnectCmd(k)) \/ UNCHANGED vars
         \/ \E t \in Threads : Stall(t) \/ FetchFails(t) \/ SignalPlaced(t)
  PROVE  /\ UNCHANGED <<used_urls, url, rest, saved, done>>
         /\ \A t \in Threads : \/ pc'[t] = pc[t]
                               \/ pc[t] \in {"obtain", "waiting", "woken"} /\ pc'[t] \in {"waiting", "woken"}
                               \/ pc[t] = "signal" /\ pc'[t] = "links"
<1> USE DEF TypeInv, TypeOK
<1>1. CASE SignalPill
  <2>1. \A t \in Threads : pc'[t] = pc[t] \/ (pc[t] = "waiting" /\ pc'[t] = "woken")
    BY <1>1, SignalMoves DEF SignalPill
  <2> QED BY <1>1, <2>1 DEF SignalPill, poolVars, diskVars
<1>2. ASSUME NEW t \in Threads, SignalPlaced(t)
      PROVE  /\ UNCHANGED <<used_urls, url, rest, saved, done>>
             /\ \A v \in Threads : \/ pc'[v] = pc[v]
                                   \/ pc[v] = "waiting" /\ pc'[v] = "woken"
                                   \/ pc[v] = "signal" /\ pc'[v] = "links"
  <2> DEFINE waking == [pc EXCEPT ![t] = "links"]
  <2>1. \A v \in Threads : pc'[v] = waking[v] \/ (waking[v] = "waiting" /\ pc'[v] = "woken")
    BY <1>2, SignalMoves DEF SignalPlaced
  <2>2. \A v \in Threads : waking[v] = pc[v] \/ (pc[v] = "signal" /\ waking[v] = "links")
    BY <1>2 DEF SignalPlaced
  <2> HIDE DEF waking
  <2> QED BY <1>2, <2>1, <2>2 DEF SignalPlaced, poolVars, diskVars
<1>3. CASE (\E t \in Threads : Stall(t) \/ FetchFails(t)) \/ SpuriousWakeup
  BY <1>3 DEF Stall, FetchFails, SpuriousWakeup, poolVars, thrVars, diskVars
<1>4. CASE (MainStep /\ ~SignalPill) \/ (\E k \in Cmds : ConnectCmd(k)) \/ UNCHANGED vars
  BY <1>4 DEF MainStep, vars, poolVars, thrVars, diskVars, Spawn, AcceptCmd, ReadWord, ReadShutdown,
     ReadDisconnect, PlacePill, StatsPages, StatsBytes, SearchStart, SearchEnd, ReplyCmd, MainDies,
     Join, ConnectCmd
<1> QED BY <1>1, <1>2, <1>3, <1>4

LEMMA TakeExploreInv ==
  ASSUME TypeInv, ExploreInv, NEW t \in Threads, Take(t)
  PROVE  ExploreInv'
<1>1. /\ UNCHANGED <<used_urls, rest, saved, done>> /\ url[t] = None /\ rest[t] = <<>>
      /\ pc'[t] \in {"fetch", "exited"}
      /\ \A v \in Threads : v # t => url'[v] = url[v] /\ pc'[v] = pc[v]
  BY DEF Take, TypeInv, TypeOK, ThreadOK, diskVars
<1>2. Used' = Used
  BY <1>1 DEF Used
<1>3. PageOK(t)'
  BY <1>1 DEF PageOK
<1>4. ASSUME NEW v \in Threads, v # t PROVE PageOK(v)'
  BY <1>1, <1>2, <1>4 DEF ExploreInv, PageOK
<1>5. SavedOK' /\ DoneOK'
  BY <1>1, <1>2, CrawlerAssumption DEF ExploreInv, SavedOK, DoneOK
<1> QED BY <1>3, <1>4, <1>5 DEF ExploreInv

(* What the threads have, apart from the one that steps. *)
LEMMA OthersHold ==
  ASSUME TypeInv, OwnInv, NEW t \in Threads, url[t] \in Urls, NEW v \in Threads, v # t
  PROVE  url[v] # url[t]
BY DEF OwnInv, OneOwner

LEMMA FetchExploreInv ==
  ASSUME TypeInv, OwnInv, ExploreInv, NEW t \in Threads,
         FetchPage(t) \/ FetchError(t) \/ FetchDropped(t)
  PROVE  ExploreInv'
<1>1. /\ UNCHANGED <<used_urls, url, rest, done>> /\ url[t] \in Urls /\ rest[t] = <<>> /\ pc[t] = "fetch"
      /\ pc'[t] \in {"count", "links"} /\ \A v \in Threads : v # t => pc'[v] = pc[v]
      /\ \A u \in Urls : u # url[t] => saved'[u] = saved[u]
      /\ url[t] \notin done
      /\ done \subseteq Urls
  BY DEF FetchPage, FetchError, FetchDropped, TypeInv, TypeOK, ThreadOK, OwnInv, OneOwner, poolVars, diskVars
<1>2. Used' = Used
  BY <1>1 DEF Used
<1>3. saved[url[t]] = None
  BY <1>1, OthersHold DEF ExploreInv, SavedOK
<1>4. PageOK(t)'
  <2>1. pc'[t] = "count" => saved'[url[t]] = "page"
    BY <1>1 DEF FetchPage, FetchError, FetchDropped, TypeInv, TypeOK
  <2>2. pc'[t] = "links" => saved'[url[t]] # "page"
    BY <1>1, <1>3, CrawlerAssumption DEF FetchPage, FetchError, FetchDropped, TypeInv, TypeOK, diskVars
  <2> QED BY <1>1, <2>1, <2>2 DEF PageOK
<1>5. ASSUME NEW v \in Threads, v # t PROVE PageOK(v)'
  <2>1. url[v] \in Urls => saved'[url[v]] = saved[url[v]]
    BY <1>1, <1>5, OthersHold
  <2>2. pc[v] \in {"count", "count_bytes", "links", "signal"} => url[v] \in Urls
    BY DEF TypeInv, ThreadOK
  <2>3. rest[v] # <<>> => pc[v] \in {"links", "signal"}
    BY DEF TypeInv, ThreadOK
  <2> QED BY <1>1, <1>2, <1>5, <2>1, <2>2, <2>3 DEF ExploreInv, PageOK
<1>6. SavedOK'
  <2>1. ASSUME NEW u \in Urls, saved'[u] # None
        PROVE  u \in done \/ \E v \in Threads : url[v] = u /\ pc'[v] # "fetch"
    <3>1. CASE u = url[t]
      BY <1>1, <3>1
    <3>2. CASE u # url[t]
      BY <1>1, <2>1, <3>2 DEF ExploreInv, SavedOK
    <3> QED BY <3>1, <3>2
  <2> QED BY <1>1, <2>1 DEF SavedOK
<1>7. DoneOK'
  BY <1>1, <1>2 DEF ExploreInv, DoneOK
<1> QED BY <1>4, <1>5, <1>6, <1>7 DEF ExploreInv

LEMMA CountExploreInv ==
  ASSUME TypeInv, ExploreInv, NEW t \in Threads, CountPage(t) \/ CountBytes(t)
  PROVE  ExploreInv'
<1>1. /\ UNCHANGED <<used_urls, url, saved, done>> /\ url[t] \in Urls
      /\ pc[t] \in {"count", "count_bytes"} /\ pc'[t] \in {"count_bytes", "links"}
      /\ \A v \in Threads : v # t => pc'[v] = pc[v] /\ rest'[v] = rest[v]
  BY DEF CountPage, CountBytes, TypeInv, TypeOK, ThreadOK, poolVars, diskVars
<1>2. Used' = Used
  BY <1>1 DEF Used
<1>3. saved[url[t]] = "page"
  BY <1>1 DEF ExploreInv, PageOK
<1>4. PageOK(t)'
  <2>1. CASE CountPage(t)
    BY <1>1, <1>3, <2>1 DEF CountPage, PageOK, TypeInv, TypeOK, ThreadOK
  <2>2. CASE CountBytes(t)
    <3>1. rest'[t] = Links[url[t]] /\ pc'[t] = "links"
      BY <2>2 DEF CountBytes, TypeInv, TypeOK
    <3> QED BY <1>1, <1>3, <3>1, PagePaths DEF PageOK
  <2> QED BY <2>1, <2>2
<1>5. ASSUME NEW v \in Threads, v # t PROVE PageOK(v)'
  BY <1>1, <1>2, <1>5 DEF ExploreInv, PageOK
<1>6. SavedOK' /\ DoneOK'
  BY <1>1, <1>2 DEF ExploreInv, SavedOK, DoneOK
<1> QED BY <1>4, <1>5, <1>6 DEF ExploreInv

LEMMA LinkExploreInv ==
  ASSUME TypeInv, ExploreInv, NEW t \in Threads, PlaceLink(t) \/ SkipDuplicate(t)
  PROVE  ExploreInv'
<1> DEFINE path == MakeFilePath(Head(rest[t]))
<1>1. /\ UNCHANGED <<url, saved, done>> /\ rest[t] # <<>> /\ rest[t] \in Seq(Hrefs)
      /\ rest'[t] = Tail(rest[t]) /\ pc[t] = "links" /\ pc'[t] \in {"links", "signal"}
      /\ \A v \in Threads : v # t => pc'[v] = pc[v] /\ rest'[v] = rest[v]
  BY DEF PlaceLink, SkipDuplicate, TypeInv, TypeOK, diskVars
<1>2. Used \subseteq Used' /\ path \in Used'
  <2>1. CASE SkipDuplicate(t)
    BY <2>1 DEF SkipDuplicate, Used, poolVars
  <2>2. CASE PlaceLink(t)
    <3>1. path \in Urls /\ used_urls \in Seq(Urls) /\ used_urls' = Append(used_urls, path)
      BY <1>1, <2>2, HeadTailProperties, HrefPath DEF PlaceLink, TypeInv, TypeOK
    <3> HIDE DEF path
    <3> QED BY <3>1, PushRange DEF Used
  <2> QED BY <2>1, <2>2
<1>3. Paths(rest[t]) = Paths(rest'[t]) \union {path}
  BY <1>1, TailPaths
<1> HIDE DEF path
<1>4. PageOK(t)'
  BY <1>1, <1>2, <1>3 DEF ExploreInv, PageOK
<1>5. ASSUME NEW v \in Threads, v # t PROVE PageOK(v)'
  BY <1>1, <1>2, <1>5 DEF ExploreInv, PageOK
<1>6. SavedOK' /\ DoneOK'
  BY <1>1, <1>2 DEF ExploreInv, SavedOK, DoneOK
<1> QED BY <1>4, <1>5, <1>6 DEF ExploreInv

LEMMA FinishExploreInv ==
  ASSUME TypeInv, ExploreInv, NEW t \in Threads, Finish(t)
  PROVE  ExploreInv' /\ (saved[url[t]] = "page" => LinkedFrom(url[t]) \subseteq Used)
<1>1. /\ UNCHANGED <<used_urls, rest, saved>> /\ done' = done \union {url[t]}
      /\ rest[t] = <<>> /\ pc[t] = "links" /\ pc'[t] = "obtain"
      /\ \A v \in Threads : v # t => url'[v] = url[v] /\ pc'[v] = pc[v]
  BY DEF Finish, TypeInv, TypeOK, poolVars
<1>2. Used' = Used
  BY <1>1 DEF Used
<1>3. saved[url[t]] = "page" => LinkedFrom(url[t]) \subseteq Used
  BY <1>1, EmptyPaths DEF ExploreInv, PageOK
<1>4. PageOK(t)'
  BY <1>1 DEF PageOK
<1>5. ASSUME NEW v \in Threads, v # t PROVE PageOK(v)'
  BY <1>1, <1>2, <1>5 DEF ExploreInv, PageOK
<1>6. SavedOK'
  BY <1>1 DEF ExploreInv, SavedOK
<1>7. DoneOK'
  BY <1>1, <1>2, <1>3 DEF ExploreInv, DoneOK
<1> QED BY <1>3, <1>4, <1>5, <1>6, <1>7 DEF ExploreInv

LEMMA StepExploreInv ==
  ASSUME TypeInv, OwnInv, ExploreInv, [Next]_vars
  PROVE  ExploreInv'
BY QuietSteps, QuietExploreInv, TakeExploreInv, FetchExploreInv, CountExploreInv, LinkExploreInv,
   FinishExploreInv DEF Next, ThreadStep, Rest

(* For the whole of a search main has mtx, so no thread leaves obtain(). *)
SearchInv == mainpc = "search" => stalled_threads = NThreads /\ curr_urls = <<>>

LEMMA StepSearchInv ==
  ASSUME TypeInv, SearchInv, [Next]_vars
  PROVE  SearchInv'
<1>1. mainpc = "search" => mtx # None
  BY CrawlerAssumption DEF TypeInv, MutexOK
<1>2. CASE MainStep
  BY <1>2 DEF SearchInv, MainStep, Spawn, AcceptCmd, ReadWord, ReadShutdown, ReadDisconnect, PlacePill,
     SignalPill, StatsPages, StatsBytes, SearchStart, SearchEnd, ReplyCmd, MainDies, Join, poolVars
<1>3. ASSUME NEW t \in Threads, ThreadStep(t) PROVE SearchInv'
  BY <1>1, <1>3 DEF SearchInv, ThreadStep, Take, Stall, FetchPage, FetchError, FetchDropped, FetchFails,
     CountPage, CountBytes, PlaceLink, SkipDuplicate, SignalPlaced, Finish, poolVars, mainVars
<1>4. CASE (\E k \in Cmds : ConnectCmd(k)) \/ SpuriousWakeup \/ UNCHANGED vars
  BY <1>4 DEF SearchInv, ConnectCmd, SpuriousWakeup, vars, poolVars, mainVars
<1> QED BY <1>2, <1>3, <1>4 DEF Next, Rest

(* The two conditions SEARCH tests, and what they say of threads and URLs. *)
LEMMA SearchTest ==
  ASSUME TypeInv, OwnInv, stalled_threads = NThreads, curr_urls = <<>>
  PROVE  Stalled = Threads /\ Used = done
<1>1. Stalled = Threads
  <2>1. Stalled \subseteq Threads /\ Cardinality(Stalled) = Cardinality(Threads)
    BY DEF Stalled, TypeInv, CountOK, NThreads
  <2> QED BY <2>1, FS_Subset, CrawlerAssumption
<1>2. \A t \in Threads : url[t] = None
  BY <1>1 DEF Stalled, TypeInv, ThreadOK
<1>3. Used \subseteq Urls /\ done \subseteq Urls
  BY LenProperties, ElementOfSeq DEF Used, Range, TypeInv, TypeOK
<1>4. Range(curr_urls) = {}
  BY DEF Range
<1>5. Used = done
  BY <1>2, <1>3, <1>4, CrawlerAssumption DEF OwnInv, AnOwner, InHands
<1> QED BY <1>1, <1>5

LEMMA SearchHere == TypeInv /\ OwnInv /\ ExploreInv /\ SearchInv => SearchComplete
BY SearchTest DEF SearchInv, SearchComplete, ExploreInv, DoneOK

LEMMA AlwaysSearchInv == Spec => [](TypeInv /\ OwnInv /\ ExploreInv /\ SearchInv)
<1>1. Init => SearchInv
  BY DEF Init, SearchInv
<1>2. TypeInv /\ OwnInv /\ ExploreInv /\ SearchInv /\ [Next]_vars => (OwnInv /\ ExploreInv /\ SearchInv)'
  BY StepOwnInv, StepExploreInv, StepSearchInv
<1> QED BY <1>1, <1>2, AlwaysTypeInv, InitOwnInv, InitExploreInv, PTL DEF Spec

(* SEARCH tests stalled_threads == n_threads and an empty stack. Then every   *)
(* thread waits in obtain(), every URL found is finished and every link of a  *)
(* saved page has been found; mtx keeps it so for the whole session.          *)
THEOREM SearchCompleteHolds == Spec => []SearchComplete
BY AlwaysSearchInv, SearchHere, PTL
-----------------------------------------------------------------------------
(* Steps of the crawler as steps of the exploration it promises. *)
AllInv == TypeInv /\ OwnInv /\ ExploreInv /\ SearchInv

(* A thread with a page in its hands runs outside any search. *)
LEMMA WorkIsActive ==
  ASSUME AllInv, NEW t \in Threads, Alive, url[t] \in Urls
  PROVE  /\ Contract!Active
         /\ url[t] \in Used \ done
<1>1. mainpc # "search"
  <2> SUFFICES ASSUME mainpc = "search" PROVE FALSE
    OBVIOUS
  <2>1. Stalled = Threads
    BY SearchHere DEF AllInv, SearchComplete
  <2>2. url[t] = None
    BY <2>1 DEF Stalled, AllInv, TypeInv, ThreadOK
  <2> QED BY <2>2, CrawlerAssumption
<1>2. url[t] \in Used \ done
  BY DEF AllInv, OwnInv, OneOwner, AnOwner, InHands
<1>3. phase \in {"crawling", "stopping"}
  BY <1>1 DEF Alive, phase
<1> QED BY <1>2, <1>3 DEF Contract!Active

LEMMA FetchIsFetch ==
  ASSUME AllInv, NEW t \in Threads, FetchPage(t) \/ FetchError(t)
  PROVE  Contract!Fetch(url[t])
<1>1. /\ UNCHANGED <<used_urls, done, mainpc>> /\ pc[t] = "fetch" /\ Alive /\ url[t] \in Urls
      /\ \E a \in {"page", "error"} : saved' = [saved EXCEPT ![url[t]] = a]
  BY DEF FetchPage, FetchError, AllInv, TypeInv, ThreadOK, poolVars, mainVars
<1>2. Contract!Active /\ url[t] \in Used \ done
  BY <1>1, WorkIsActive
<1>3. saved[url[t]] = None
  BY <1>1, <1>2, OthersHold DEF AllInv, ExploreInv, SavedOK
<1> QED BY <1>1, <1>2, <1>3 DEF Contract!Fetch, Used, phase

LEMMA PlaceIsFind ==
  ASSUME AllInv, NEW t \in Threads, PlaceLink(t)
  PROVE  \E v \in Urls : Contract!Find(v)
<1> DEFINE path == MakeFilePath(Head(rest[t]))
<1>1. /\ UNCHANGED <<saved, done, mainpc>> /\ pc[t] = "links" /\ Alive /\ url[t] \in Urls
      /\ rest[t] # <<>> /\ rest[t] \in Seq(Hrefs) /\ path \notin Used
      /\ used_urls \in Seq(Urls) /\ used_urls' = Append(used_urls, path)
  BY DEF PlaceLink, AllInv, TypeInv, TypeOK, ThreadOK, diskVars, mainVars
<1>2. Contract!Active /\ url[t] \in Used \ done
  BY <1>1, WorkIsActive
<1>3. path \in Urls
  BY <1>1, HeadTailProperties, HrefPath
<1>4. saved[url[t]] = "page" /\ path \in LinkedFrom(url[t])
  BY <1>1, TailPaths DEF AllInv, ExploreInv, PageOK
<1> HIDE DEF path
<1>5. Used' = Used \union {path}
  BY <1>1, <1>3, PushRange DEF Used
<1>6. phase' = phase
  BY <1>1 DEF phase
<1> QED BY <1>1, <1>2, <1>3, <1>4, <1>5, <1>6 DEF Contract!Find

LEMMA FinishIsFinish ==
  ASSUME AllInv, NEW t \in Threads, Finish(t)
  PROVE  Contract!Finish(url[t])
<1>1. /\ UNCHANGED <<used_urls, saved, mainpc>> /\ Alive /\ url[t] \in Urls
      /\ done' = done \union {url[t]}
  BY DEF Finish, AllInv, TypeInv, ThreadOK, poolVars, mainVars
<1>2. Contract!Active /\ url[t] \in Used \ done
  BY <1>1, WorkIsActive
<1>3. saved[url[t]] = "page" => LinkedFrom(url[t]) \subseteq Used
  BY FinishExploreInv DEF AllInv
<1> QED BY <1>1, <1>2, <1>3 DEF Contract!Finish, Used, phase

(* No URL is in a thread's hands once every thread has its NULL. *)
LEMMA JoinIsStop ==
  ASSUME AllInv, Join
  PROVE  Contract!Stop
<1>1. /\ UNCHANGED <<used_urls, saved, done>> /\ mainpc = "join" /\ mainpc' = "stopped"
      /\ \A t \in Threads : url[t] = NULL
  BY DEF Join, AllInv, TypeInv, ThreadOK, poolVars, diskVars
<1>2. ASSUME NEW u \in Used \ done PROVE saved[u] = None
  <2>1. u \in Urls
    BY LenProperties, ElementOfSeq DEF Used, Range, AllInv, TypeInv, TypeOK
  <2> QED BY <1>1, <2>1, CrawlerAssumption DEF AllInv, ExploreInv, SavedOK
<1>3. phase = "stopping" /\ phase' = "stopped"
  BY <1>1 DEF phase
<1> QED BY <1>1, <1>2, <1>3 DEF Contract!Stop, Used

LEMMA MainRefines ==
  ASSUME AllInv, MainStep
  PROVE  [Contract!Next]_(Contract!vars)
<1>1. CASE Join
  BY <1>1, JoinIsStop DEF Contract!Next
<1>2. CASE ReadShutdown
  BY <1>2 DEF ReadShutdown, Contract!Next, Contract!Shutdown, phase, Used, poolVars, diskVars
<1>3. CASE MainDies
  BY <1>3 DEF MainDies, Contract!Next, Contract!Die, phase, Used, poolVars, diskVars
<1>4. CASE SearchStart
  <2>1. /\ UNCHANGED <<used_urls, saved, done>> /\ mainpc = "search_lock"
        /\ mainpc' \in {"search", "refuse"}
    BY <1>4 DEF SearchStart, diskVars
  <2>2. mainpc' = "search" => Used = done
    BY <1>4, SearchTest DEF SearchStart, AllInv
  <2> QED BY <2>1, <2>2 DEF Contract!Next, Contract!BeginSearch, Contract!vars, phase, Used
<1>5. CASE SearchEnd
  BY <1>5 DEF SearchEnd, Contract!Next, Contract!EndSearch, Contract!vars, phase, Used, diskVars
<1>6. CASE \/ Spawn \/ AcceptCmd \/ ReadWord \/ ReadDisconnect \/ PlacePill \/ SignalPill
           \/ StatsPages \/ StatsBytes \/ ReplyCmd
  <2>1. UNCHANGED <<used_urls, saved, done>> /\ phase' = phase
    BY <1>6 DEF Spawn, AcceptCmd, ReadWord, ReadDisconnect, PlacePill, SignalPill, StatsPages,
       StatsBytes, ReplyCmd, poolVars, diskVars, phase
  <2> QED BY <2>1 DEF Contract!vars, Used
<1> QED BY <1>1, <1>2, <1>3, <1>4, <1>5, <1>6 DEF MainStep

LEMMA ThreadRefines ==
  ASSUME AllInv, NEW t \in Threads, ThreadStep(t)
  PROVE  [Contract!Next]_(Contract!vars)
<1>1. CASE FetchPage(t) \/ FetchError(t)
  <2>1. url[t] \in Urls
    BY <1>1 DEF FetchPage, FetchError, AllInv, TypeInv, ThreadOK
  <2> QED BY <1>1, <2>1, FetchIsFetch DEF Contract!Next
<1>2. CASE PlaceLink(t)
  BY <1>2, PlaceIsFind DEF Contract!Next
<1>3. CASE Finish(t)
  <2>1. url[t] \in Urls
    BY <1>3 DEF Finish, AllInv, TypeInv, ThreadOK
  <2> QED BY <1>3, <2>1, FinishIsFinish DEF Contract!Next
<1>4. CASE FetchFails(t)
  BY <1>4 DEF FetchFails, Contract!Next, Contract!Die, phase, Alive, Used, poolVars, diskVars
<1>5. CASE \/ Take(t) \/ Stall(t) \/ FetchDropped(t) \/ CountPage(t) \/ CountBytes(t)
           \/ SkipDuplicate(t) \/ SignalPlaced(t)
  <2>1. UNCHANGED <<used_urls, saved, done, mainpc>>
    BY <1>5 DEF Take, Stall, FetchDropped, CountPage, CountBytes, SkipDuplicate, SignalPlaced,
       poolVars, diskVars, mainVars
  <2> QED BY <2>1 DEF Contract!vars, Used, phase
<1> QED BY <1>1, <1>2, <1>3, <1>4, <1>5 DEF ThreadStep

LEMMA StepRefines ==
  ASSUME AllInv, [Next]_vars
  PROVE  [Contract!Next]_(Contract!vars)
<1>1. CASE (\E k \in Cmds : ConnectCmd(k)) \/ SpuriousWakeup \/ UNCHANGED vars
  <2>1. UNCHANGED <<used_urls, saved, done, mainpc>>
    BY <1>1 DEF ConnectCmd, SpuriousWakeup, vars, poolVars, diskVars, mainVars
  <2> QED BY <2>1 DEF Contract!vars, Used, phase
<1> QED BY <1>1, MainRefines, ThreadRefines DEF Next, Rest

(* The threads and main together carry out the exploration of CrawlContract: *)
(* a URL is found as a link of a saved page, fetched at most once, finished  *)
(* once its links are found, and a search meets a complete exploration.      *)
THEOREM CrawlerRefinesContract == Spec => CrawlerImplementsContract
<1>1. Init => Contract!Init
  <2>1. Range(<<StartUrl>>) = {StartUrl}
    BY DEF Range
  <2> QED BY <2>1 DEF Init, Contract!Init, Used, phase
<1>2. AllInv /\ [Next]_vars => [Contract!Next]_(Contract!vars)
  BY StepRefines
<1>3. Spec => []AllInv
  BY AlwaysSearchInv DEF AllInv
<1> QED BY <1>1, <1>2, <1>3, PTL DEF Spec, CrawlerImplementsContract, Contract!Spec
-----------------------------------------------------------------------------
(***************************************************************************)
(* The counters of the statistics.                                         *)
(***************************************************************************)
(* URLs whose page a thread has counted, and whose bytes it has not *)
Half == {url[t] : t \in {x \in Threads : pc[x] = "count_bytes"}}

(* mtx2 is held by the thread between its two additions, or by main between its two readings *)
LockInv ==
  /\ \A t \in Threads : pc[t] = "count_bytes" <=> mtx2 = t
  /\ mainpc = "stats_bytes" => mtx2 = Main /\ stats.pages = pages_downloaded

(* each counter, also while a thread is between the two of them *)
SumInv ==
  /\ IsFiniteSet(Downloaded)
  /\ pages_downloaded = Cardinality(Downloaded \ Uncounted) % UINT_RANGE
  /\ total_bytes_received = Bytes(Downloaded \ (Uncounted \union Half)) % UINT_RANGE

(* stats tells of one set of saved pages, except while main reads it *)
Tells(S) == stats.pages = Cardinality(S) % UINT_RANGE /\ stats.bytes = Bytes(S) % UINT_RANGE
TellInv  == mainpc \notin {"stats_bytes", "dead"} => \E S \in SUBSET Downloaded : Tells(S)

StatsInv == LockInv /\ SumInv /\ TellInv
CountInv == AllInv /\ StatsInv

LEMMA BytesOfOneMore ==
  ASSUME SumInv, NEW S, S \subseteq Downloaded, NEW u \in Urls, u \notin S
  PROVE  Bytes(S) \in Nat /\ Length[u] \in Nat /\ Bytes(S \union {u}) = Bytes(S) + Length[u]
<1>1. IsFiniteSet(S)
  BY FS_Subset DEF SumInv
<1>2. \A x \in S \union {u} : Length[x] \in Nat
  BY CrawlerAssumption DEF Downloaded
<1>3. \A T : Bytes(T) = Cardinality(Copies(T, Length))
  BY DEF Bytes, Copies
<1>4. Cardinality(Copies(S, Length)) \in Nat
      /\ Cardinality(Copies(S \union {u}, Length)) = Cardinality(Copies(S, Length)) + Length[u]
  BY <1>1, <1>2, CopiesOfOneMore
<1> QED BY <1>2, <1>3, <1>4

(* A counter that wraps holds the remainder of what it has counted. *)
LEMMA CounterAdds ==
  ASSUME NEW n \in Nat, NEW m \in Nat
  PROVE  ((n % UINT_RANGE) + m) % UINT_RANGE = (n + m) % UINT_RANGE
<1>1. UINT_RANGE \in Nat /\ UINT_RANGE > 0
  BY CrawlerAssumption
<1> QED BY <1>1, Wrapping, Zenon

LEMMA InitStatsInv == Init => StatsInv
<1> SUFFICES ASSUME Init PROVE StatsInv
  OBVIOUS
<1> USE CrawlerAssumption
<1>1. Downloaded = {}
  BY DEF Init, Downloaded
<1>2. Bytes({}) = 0 /\ Cardinality({}) = 0
  BY FS_EmptySet DEF Bytes
<1>3. 0 % UINT_RANGE = 0
  OBVIOUS
<1>4. SumInv
  <2>1. pages_downloaded = 0 /\ total_bytes_received = 0
    BY DEF Init
  <2>2. Downloaded \ Uncounted = {} /\ Downloaded \ (Uncounted \union Half) = {}
    BY <1>1
  <2> QED BY <1>1, <1>2, <1>3, <2>1, <2>2, FS_EmptySet DEF SumInv
<1>5. TellInv
  <2>1. Tells({})
    BY <1>2, <1>3 DEF Init, NoStats, Tells
  <2> QED BY <2>1 DEF TellInv
<1>6. LockInv
  BY DEF Init, LockInv
<1> QED BY <1>4, <1>5, <1>6 DEF StatsInv

(* what a thread that counts knows *)
LEMMA Counting ==
  ASSUME AllInv, NEW t \in Threads, pc[t] \in {"count", "count_bytes"}
  PROVE  /\ url[t] \in Downloaded
         /\ \A v \in Threads : url[v] = url[t] => v = t
<1>1. url[t] \in Urls
  BY DEF AllInv, TypeInv, ThreadOK
<1>2. saved[url[t]] = "page"
  BY DEF AllInv, ExploreInv, PageOK
<1> QED BY <1>1, <1>2 DEF Downloaded, AllInv, OwnInv, OneOwner

LEMMA NobodyHalf == ASSUME StatsInv, mtx2 \notin Threads PROVE Half = {}
BY DEF StatsInv, LockInv, Half

(* A step that saves and counts nothing. *)
Idle ==
  /\ Downloaded' = Downloaded /\ UNCHANGED <<statVars, stats>>
  /\ \A t \in Threads :
       pc[t] \in {"count", "count_bytes"} \/ pc'[t] \in {"count", "count_bytes"} =>
         pc'[t] = pc[t] /\ url'[t] = url[t]
  /\ mainpc' = "dead" \/ mainpc' = mainpc \/ {mainpc, mainpc'} \intersect {"stats_bytes", "dead"} = {}

LEMMA IdleKeeps == ASSUME StatsInv, Idle PROVE StatsInv'
<1>1. Uncounted' = Uncounted /\ Half' = Half
  <2>1. {x \in Threads : pc'[x] = "count"} = {x \in Threads : pc[x] = "count"}
    BY DEF Idle
  <2>2. {x \in Threads : pc'[x] = "count_bytes"} = {x \in Threads : pc[x] = "count_bytes"}
    BY DEF Idle
  <2> QED BY <2>1, <2>2 DEF Idle, Uncounted, Half
<1>2. SumInv'
  BY <1>1 DEF Idle, statVars, StatsInv, SumInv, Bytes
<1>3. LockInv'
  BY DEF Idle, statVars, StatsInv, LockInv
<1>4. TellInv'
  BY DEF Idle, StatsInv, TellInv, Tells, Bytes
<1> QED BY <1>2, <1>3, <1>4 DEF StatsInv

LEMMA FetchStats == ASSUME CountInv, NEW t \in Threads, FetchPage(t) PROVE StatsInv'
<1> DEFINE u == url[t]
<1>1. /\ u \in Urls /\ pc[t] = "fetch" /\ pc' = [pc EXCEPT ![t] = "count"]
      /\ saved' = [saved EXCEPT ![u] = "page"]
      /\ UNCHANGED <<url, mainpc, stats, mtx2, pages_downloaded, total_bytes_received>>
  BY DEF FetchPage, statVars, mainVars, CountInv, AllInv, TypeInv, ThreadOK
<1>2. u \notin Downloaded /\ Downloaded' = Downloaded \union {u}
  <2>1. saved[u] = None
    BY <1>1, OthersHold DEF CountInv, AllInv, OwnInv, OneOwner, ExploreInv, SavedOK
  <2>2. saved \in [Urls -> {"page", "error", None}] /\ None # "page"
    BY CrawlerAssumption DEF CountInv, AllInv, TypeInv, TypeOK
  <2> QED BY <1>1, <2>1, <2>2 DEF Downloaded
<1>3. Uncounted' = Uncounted \union {u} /\ Half' = Half
  <2>1. /\ {x \in Threads : pc'[x] = "count"} = {x \in Threads : pc[x] = "count"} \union {t}
        /\ {x \in Threads : pc'[x] = "count_bytes"} = {x \in Threads : pc[x] = "count_bytes"}
    BY <1>1 DEF CountInv, AllInv, TypeInv, TypeOK
  <2> QED BY <1>1, <2>1 DEF Uncounted, Half
<1>4. SumInv'
  <2>1. /\ Downloaded' \ Uncounted' = Downloaded \ Uncounted
        /\ Downloaded' \ (Uncounted' \union Half') = Downloaded \ (Uncounted \union Half)
    BY <1>2, <1>3
  <2>2. IsFiniteSet(Downloaded')
    BY <1>2, FS_AddElement DEF CountInv, StatsInv, SumInv
  <2> QED BY <1>1, <2>1, <2>2 DEF CountInv, StatsInv, SumInv, Bytes
<1>5. LockInv'
  BY <1>1 DEF CountInv, AllInv, TypeInv, TypeOK, StatsInv, LockInv
<1>6. TellInv'
  BY <1>1, <1>2 DEF CountInv, StatsInv, TellInv, Tells, Bytes
<1> QED BY <1>4, <1>5, <1>6 DEF StatsInv

LEMMA CountPageStats == ASSUME CountInv, NEW t \in Threads, CountPage(t) PROVE StatsInv'
<1> DEFINE u == url[t]
           old == Downloaded \ Uncounted
           new == Downloaded \ (Uncounted \ {u})
<1> USE CrawlerAssumption
<1>1. /\ pc[t] = "count" /\ pc' = [pc EXCEPT ![t] = "count_bytes"]
      /\ mtx2 = None /\ mtx2' = t /\ pages_downloaded' = (pages_downloaded + 1) % UINT_RANGE
      /\ UNCHANGED <<url, saved, mainpc, stats, total_bytes_received>>
  BY DEF CountPage, mainVars, diskVars
<1>2. u \in Downloaded /\ \A v \in Threads : url[v] = u => v = t
  BY <1>1, Counting DEF CountInv
<1>3. Downloaded' = Downloaded
  BY <1>1 DEF Downloaded
<1>4. Half = {} /\ Half' = {u} /\ Uncounted' = Uncounted \ {u} /\ u \in Uncounted
  <2>1. Half = {} /\ {x \in Threads : pc[x] = "count_bytes"} = {}
    BY <1>1, NobodyHalf DEF CountInv, StatsInv, LockInv
  <2>2. {x \in Threads : pc'[x] = "count"} = {x \in Threads : pc[x] = "count"} \ {t}
    BY <1>1 DEF CountInv, AllInv, TypeInv, TypeOK
  <2>3. {x \in Threads : pc'[x] = "count_bytes"} = {t}
    BY <1>1, <2>1 DEF CountInv, AllInv, TypeInv, TypeOK
  <2> QED BY <1>1, <1>2, <2>1, <2>2, <2>3 DEF Uncounted, Half
<1>5. SumInv'
  <2>1. /\ IsFiniteSet(Downloaded) /\ IsFiniteSet(old)
        /\ pages_downloaded = Cardinality(old) % UINT_RANGE
        /\ total_bytes_received = Bytes(old) % UINT_RANGE
    BY <1>4, FS_Difference DEF CountInv, StatsInv, SumInv
  <2>2. new = old \union {u} /\ u \notin old
    BY <1>2, <1>4
  <2>3. pages_downloaded' = Cardinality(new) % UINT_RANGE
    <3> DEFINE n == Cardinality(old)
    <3> HIDE DEF old, new, u
    <3>1. n \in Nat /\ Cardinality(new) = n + 1
      BY <2>1, <2>2, FS_AddElement, FS_CardinalityType
    <3>2. pages_downloaded' = ((n % UINT_RANGE) + 1) % UINT_RANGE
      BY <1>1, <2>1
    <3> HIDE DEF n
    <3>3. ((n % UINT_RANGE) + 1) % UINT_RANGE = (n + 1) % UINT_RANGE
      BY <3>1, CounterAdds
    <3> QED BY <3>1, <3>2, <3>3
  <2>4. Downloaded' \ Uncounted' = new /\ Downloaded' \ (Uncounted' \union Half') = old
    BY <1>3, <1>4
  <2> HIDE DEF old, new
  <2> QED BY <1>1, <1>3, <2>1, <2>3, <2>4 DEF SumInv, Bytes
<1>6. LockInv'
  BY <1>1 DEF CountInv, AllInv, TypeInv, TypeOK, StatsInv, LockInv
<1>7. TellInv'
  BY <1>1, <1>3 DEF CountInv, StatsInv, TellInv, Tells, Bytes
<1> QED BY <1>5, <1>6, <1>7 DEF StatsInv

LEMMA CountBytesStats == ASSUME CountInv, NEW t \in Threads, CountBytes(t) PROVE StatsInv'
<1> DEFINE u == url[t]
           more == Length[u]
           new == Downloaded \ Uncounted
           old == new \ {u}
<1> USE CrawlerAssumption
<1>1. /\ pc[t] = "count_bytes" /\ pc' = [pc EXCEPT ![t] = "links"]
      /\ mtx2' = None /\ total_bytes_received' = (total_bytes_received + more) % UINT_RANGE
      /\ UNCHANGED <<url, saved, mainpc, stats, pages_downloaded>>
  BY DEF CountBytes, mainVars, diskVars
<1>2. u \in Downloaded /\ u \in Urls /\ \A v \in Threads : url[v] = u => v = t
  BY <1>1, Counting DEF CountInv, Downloaded
<1>3. Downloaded' = Downloaded
  BY <1>1 DEF Downloaded
<1>4. mtx2 = t /\ \A x \in Threads : pc[x] = "count_bytes" <=> x = t
  BY <1>1 DEF CountInv, StatsInv, LockInv
<1>5. Half = {u} /\ Half' = {} /\ Uncounted' = Uncounted /\ u \notin Uncounted
  <2>1. {x \in Threads : pc'[x] = "count"} = {x \in Threads : pc[x] = "count"}
    BY <1>1 DEF CountInv, AllInv, TypeInv, TypeOK
  <2>2. {x \in Threads : pc[x] = "count_bytes"} = {t} /\ {x \in Threads : pc'[x] = "count_bytes"} = {}
    BY <1>1, <1>4, SMTT(30) DEF CountInv, AllInv, TypeInv, TypeOK
  <2> QED BY <1>1, <1>2, <2>1, <2>2 DEF Uncounted, Half
<1>6. SumInv'
  <2>1. /\ IsFiniteSet(Downloaded) /\ pages_downloaded = Cardinality(new) % UINT_RANGE
        /\ total_bytes_received = Bytes(old) % UINT_RANGE
    <3>1. Downloaded \ (Uncounted \union Half) = old
      BY <1>5
    <3> QED BY <3>1 DEF CountInv, StatsInv, SumInv
  <2>2. new = old \union {u} /\ u \notin old /\ old \subseteq Downloaded
    BY <1>2, <1>5
  <2>3. total_bytes_received' = Bytes(new) % UINT_RANGE
    <3> DEFINE n == Bytes(old)
    <3> HIDE DEF old, new, u
    <3>1. n \in Nat /\ more \in Nat /\ Bytes(new) = n + more
      BY <1>2, <2>2, BytesOfOneMore DEF CountInv, StatsInv
    <3>2. total_bytes_received' = ((n % UINT_RANGE) + more) % UINT_RANGE
      BY <1>1, <2>1
    <3> HIDE DEF n, more
    <3>3. ((n % UINT_RANGE) + more) % UINT_RANGE = (n + more) % UINT_RANGE
      BY <3>1, CounterAdds
    <3> QED BY <3>1, <3>2, <3>3
  <2>4. Downloaded' \ Uncounted' = new /\ Downloaded' \ (Uncounted' \union Half') = new
    BY <1>3, <1>5
  <2> HIDE DEF old, new
  <2> QED BY <1>1, <1>3, <2>1, <2>3, <2>4 DEF SumInv, Bytes
<1>7. LockInv'
  BY <1>1, <1>4 DEF CountInv, AllInv, TypeInv, TypeOK, StatsInv, LockInv
<1>8. TellInv'
  BY <1>1, <1>3 DEF CountInv, StatsInv, TellInv, Tells, Bytes
<1> QED BY <1>6, <1>7, <1>8 DEF StatsInv

LEMMA ReadingStats ==
  ASSUME CountInv, StatsPages \/ StatsBytes \/ ReplyCmd
  PROVE  StatsInv'
<1> USE CrawlerAssumption
<1>1. /\ UNCHANGED <<pc, pages_downloaded, total_bytes_received>>
      /\ Downloaded' = Downloaded /\ Uncounted' = Uncounted /\ Half' = Half
  BY DEF StatsPages, StatsBytes, ReplyCmd, statVars, thrVars, diskVars,
         Downloaded, Uncounted, Half
<1>2. SumInv'
  BY <1>1 DEF CountInv, StatsInv, SumInv, Bytes
<1>3. stats \in [pages : 0 .. UINT_RANGE - 1, bytes : 0 .. UINT_RANGE - 1]
  BY DEF CountInv, AllInv, TypeInv, TypeOK
<1>4. CASE StatsPages
  <2>1. /\ mtx2 = None /\ mtx2' = Main /\ mainpc' = "stats_bytes"
        /\ stats' = [stats EXCEPT !.pages = pages_downloaded]
    BY <1>4 DEF StatsPages
  <2>2. stats'.pages = pages_downloaded
    BY <2>1, <1>3
  <2>3. LockInv'
    BY <1>1, <2>1, <2>2 DEF CountInv, StatsInv, LockInv
  <2>4. TellInv'
    BY <2>1 DEF TellInv
  <2> QED BY <1>2, <2>3, <2>4 DEF StatsInv
<1>5. CASE StatsBytes
  <2>1. /\ mainpc = "stats_bytes" /\ mtx2' = None /\ mainpc' = "reply"
        /\ stats' = [stats EXCEPT !.bytes = total_bytes_received]
    BY <1>5 DEF StatsBytes
  <2>2. mtx2 = Main /\ stats.pages = pages_downloaded
    BY <2>1 DEF CountInv, StatsInv, LockInv
  <2>3. stats'.pages = pages_downloaded /\ stats'.bytes = total_bytes_received
    BY <2>1, <2>2, <1>3
  <2>4. LockInv'
    BY <1>1, <2>1, <2>2 DEF CountInv, StatsInv, LockInv
  <2>5. PICK S : S = Downloaded \ Uncounted
    OBVIOUS
  <2>6. Half = {}
    BY <2>2, NobodyHalf DEF CountInv
  <2>7. pages_downloaded = Cardinality(S) % UINT_RANGE /\ total_bytes_received = Bytes(S) % UINT_RANGE
    <3>1. Downloaded \ (Uncounted \union Half) = S
      BY <2>5, <2>6
    <3> QED BY <2>5, <3>1 DEF CountInv, StatsInv, SumInv
  <2>8. Tells(S)' /\ S \in SUBSET Downloaded'
    BY <1>1, <2>3, <2>5, <2>7 DEF Tells, Bytes
  <2>9. TellInv'
    BY <2>8 DEF TellInv
  <2> QED BY <1>2, <2>4, <2>9 DEF StatsInv
<1>6. CASE ReplyCmd
  <2>1. mainpc = "reply" /\ mainpc' = "accept" /\ mtx2' = mtx2 /\ stats' = NoStats
    BY <1>6 DEF ReplyCmd, statVars
  <2>2. LockInv'
    BY <1>1, <2>1 DEF CountInv, StatsInv, LockInv
  <2>3. Tells({})'
    <3>1. Bytes({})' = 0 /\ Cardinality({}) = 0
      BY FS_EmptySet DEF Bytes
    <3>2. 0 % UINT_RANGE = 0
      OBVIOUS
    <3> QED BY <2>1, <3>1, <3>2 DEF Tells, NoStats
  <2>4. TellInv'
    BY <2>3 DEF TellInv
  <2> QED BY <1>2, <2>2, <2>4 DEF StatsInv
<1> QED BY <1>4, <1>5, <1>6

LEMMA IdleSteps ==
  ASSUME CountInv, Next, ~Rest, ~StatsPages, ~StatsBytes, ~ReplyCmd,
         \A t \in Threads : ~FetchPage(t) /\ ~CountPage(t) /\ ~CountBytes(t)
  PROVE  Idle
<1>0. /\ pc \in [Threads -> {"obtain", "waiting", "woken", "fetch", "count", "count_bytes",
                             "links", "signal", "exited"}]
      /\ url \in [Threads -> Urls \union {NULL, None}]
      /\ saved \in [Urls -> {"page", "error", None}]
  BY DEF CountInv, AllInv, TypeInv, TypeOK
<1>1. CASE MainStep \/ SpuriousWakeup \/ \E k \in Cmds : ConnectCmd(k)
  <2>1. UNCHANGED <<saved, url, statVars, stats>>
    BY <1>1 DEF MainStep, SpuriousWakeup, ConnectCmd, mainVars, thrVars, diskVars,
       Spawn, AcceptCmd, ReadWord, ReadShutdown, ReadDisconnect, PlacePill, SignalPill,
       SearchStart, SearchEnd, MainDies, Join
  <2>2. UNCHANGED pc \/ \E t \in Threads : pc[t] = "waiting" /\ pc' = [pc EXCEPT ![t] = "woken"]
    BY <1>1 DEF MainStep, SpuriousWakeup, ConnectCmd, SignalWaiting, thrVars,
       Spawn, AcceptCmd, ReadWord, ReadShutdown, ReadDisconnect, PlacePill, SignalPill,
       SearchStart, SearchEnd, MainDies, Join
  <2>3. \A t \in Threads :
          pc[t] \in {"count", "count_bytes"} \/ pc'[t] \in {"count", "count_bytes"} => pc'[t] = pc[t]
    BY <2>2, <1>0
  <2>4. mainpc' = "dead" \/ mainpc' = mainpc \/ {mainpc, mainpc'} \intersect {"stats_bytes", "dead"} = {}
    BY <1>1 DEF MainStep, SpuriousWakeup, ConnectCmd, mainVars,
       Spawn, AcceptCmd, ReadWord, ReadShutdown, ReadDisconnect, PlacePill, SignalPill,
       SearchStart, SearchEnd, MainDies, Join
  <2>5. Downloaded' = Downloaded
    BY <2>1 DEF Downloaded
  <2> QED BY <2>1, <2>3, <2>4, <2>5 DEF Idle
<1>2. ASSUME NEW t \in Threads, ThreadStep(t) PROVE Idle
  <2>1. UNCHANGED <<statVars, stats>> /\ mainpc' \in {"dead", mainpc}
    BY <1>2 DEF ThreadStep, Take, Stall, FetchError, FetchDropped, FetchFails, PlaceLink,
       SkipDuplicate, SignalPlaced, Finish, mainVars
  <2>2. \A v \in Threads :
          pc[v] \in {"count", "count_bytes"} \/ pc'[v] \in {"count", "count_bytes"} =>
            pc'[v] = pc[v] /\ url'[v] = url[v]
    <3>1. CASE SignalPlaced(t)
      <4> DEFINE waking == [pc EXCEPT ![t] = "links"]
      <4>1. /\ UNCHANGED url /\ pc[t] = "signal"
            /\ pc' = waking \/ \E v \in Threads : waking[v] = "waiting" /\ pc' = [waking EXCEPT ![v] = "woken"]
        BY <3>1 DEF SignalPlaced, SignalWaiting
      <4> QED BY <4>1, <1>0
    <3>2. CASE ~SignalPlaced(t)
      <4>1. \/ UNCHANGED <<pc, url>>
            \/ /\ pc[t] \notin {"count", "count_bytes"} /\ pc'[t] \notin {"count", "count_bytes"}
               /\ \A v \in Threads \ {t} : pc'[v] = pc[v] /\ url'[v] = url[v]
        BY <1>0, <1>2, <3>2 DEF ThreadStep, Take, Stall, FetchError, FetchDropped, FetchFails, PlaceLink,
           SkipDuplicate, Finish, thrVars
      <4> QED BY <4>1
    <3> QED BY <3>1, <3>2
  <2>3. Downloaded' = Downloaded
    <3>1. CASE FetchError(t)
      <4>1. url[t] \in Urls /\ saved[url[t]] = None
        BY <3>1, OthersHold
           DEF FetchError, CountInv, AllInv, TypeInv, ThreadOK, OwnInv, OneOwner, ExploreInv, SavedOK
      <4> QED BY <1>0, <3>1, <4>1, CrawlerAssumption DEF FetchError, Downloaded
    <3>2. CASE ~FetchError(t)
      <4>1. UNCHANGED saved
        BY <1>2, <3>2 DEF ThreadStep, Take, Stall, FetchDropped, FetchFails, PlaceLink,
           SkipDuplicate, SignalPlaced, Finish, diskVars
      <4> QED BY <4>1 DEF Downloaded
    <3> QED BY <3>1, <3>2
  <2> QED BY <2>1, <2>2, <2>3 DEF Idle
<1> QED BY <1>1, <1>2 DEF Next

LEMMA StepStatsInv == CountInv /\ [Next]_vars => StatsInv'
<1> SUFFICES ASSUME CountInv, [Next]_vars PROVE StatsInv'
  OBVIOUS
<1>1. CASE UNCHANGED vars \/ Rest
  <2>1. Idle
    BY <1>1 DEF Rest, vars, statVars, mainVars, thrVars, diskVars, Idle, Downloaded
  <2> QED BY <2>1, IdleKeeps DEF CountInv
<1>2. CASE \E t \in Threads : FetchPage(t) \/ CountPage(t) \/ CountBytes(t)
  BY <1>2, FetchStats, CountPageStats, CountBytesStats
<1>3. CASE StatsPages \/ StatsBytes \/ ReplyCmd
  BY <1>3, ReadingStats
<1> QED BY <1>1, <1>2, <1>3, IdleSteps, IdleKeeps DEF CountInv

(* The counters of STATS agree with the pages saved: between two critical    *)
(* sections of mtx2 they are the number and the bytes of the pages counted,  *)
(* modulo 2^32, and an answer to STATS tells both of one set of pages.       *)
THEOREM StatsAreRight == Spec => []StatsRight
<1>1. CountInv => StatsRight
  <2> SUFFICES ASSUME CountInv PROVE StatsExact /\ StatsSnapshot
    BY DEF StatsRight
  <2>1. StatsExact
    <3> SUFFICES ASSUME mtx2 = None
                 PROVE  /\ pages_downloaded = Cardinality(Downloaded \ Uncounted) % UINT_RANGE
                        /\ total_bytes_received = Bytes(Downloaded \ Uncounted) % UINT_RANGE
      BY DEF StatsExact
    <3>1. Half = {}
      BY CrawlerAssumption, NobodyHalf DEF CountInv
    <3>2. Downloaded \ (Uncounted \union Half) = Downloaded \ Uncounted
      BY <3>1
    <3> QED BY <3>2 DEF CountInv, StatsInv, SumInv
  <2>2. StatsSnapshot
    BY DEF CountInv, StatsInv, TellInv, Tells, StatsSnapshot
  <2> QED BY <2>1, <2>2
<1>2. Spec => []AllInv
  BY AlwaysSearchInv DEF AllInv
<1>3. AllInv /\ StatsInv /\ [Next]_vars => StatsInv'
  BY StepStatsInv DEF CountInv
<1>4. Spec => []StatsInv
  BY InitStatsInv, <1>2, <1>3, PTL DEF Spec
<1> QED BY <1>1, <1>2, <1>4, PTL DEF CountInv
=============================================================================
