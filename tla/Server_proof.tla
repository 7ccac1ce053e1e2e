---------------------------- MODULE Server_proof ----------------------------
(***************************************************************************)
(* Proofs about Server, for any number of consumers, clients, commanders,  *)
(* pages and slots of the ring.                                            *)
(***************************************************************************)
EXTENDS Server, Data_proof, SequenceTheorems

(* Indices of the ring: % POOL_SIZE is one conditional subtraction. *)
LEMMA ModBound == \A a \in Int, m \in Nat \ {0} : a % m \in 0 .. m - 1
OBVIOUS

Wrap(i) == IF i < POOL_SIZE THEN i ELSE i - POOL_SIZE

LEMMA ModWrap ==
  ASSUME NEW i \in Int, 0 <= i, i < 2 * POOL_SIZE
  PROVE  i % POOL_SIZE = Wrap(i)
BY ServerAssumption DEF Wrap

(* The last index written and the oldest one stay size apart. *)
RingOK == (end + 1) % POOL_SIZE = (start + size) % POOL_SIZE

(* Every live slot holds a socket or a -1, never the leftover of an empty slot. *)
SlotsOK == \A k \in 0 .. size - 1 : Slot(k) \in Items

(* What main is about to place, by where main is. *)
MainOK ==
  /\ mainpc \in {"place", "nonfull", "signal"} => client_sock \in Items
  /\ (mainpc \in {"place", "nonfull", "signal"} /\ client_sock = Poison) => pills > 0
  /\ mainpc \in {"join", "stopped"} => client_sock = Poison
  /\ mainpc \in {"spawn", "poll", "accept", "accept_cmd", "read_cmd", "stats", "stats_bytes",
                 "reply"} => client_sock = None

(* What a consumer holds, by where it is. *)
ConsOK ==
  \A c \in Consumers :
    /\ pc[c] \in {"obtain", "nonempty"} => sock[c] = None
    /\ pc[c] = "signal" => sock[c] \in Items
    /\ pc[c] = "exited" => sock[c] = Poison
    /\ pc[c] \in {"read", "send", "count", "count_bytes", "close"} => sock[c] \in Clients
    /\ pc[c] \in {"count", "count_bytes"} => answer[c] \in Answers
    /\ pc[c] = "send" => answer[c] \in Answers

TypeInv == TypeOK /\ RingOK /\ SlotsOK /\ MainOK /\ ConsOK

LEMMA InitTypeInv == Init => TypeInv
<1> SUFFICES ASSUME Init PROVE TypeInv
  OBVIOUS
<1> USE ServerAssumption
<1>1. NThreads \in Nat /\ 0 % POOL_SIZE = 0
  BY FS_CardinalityType, ModWrap DEF NThreads, Wrap
<1>2. TypeOK
  <2>1. PoolType
    BY DEF Init, PoolType, Index, Items
  <2>2. StatType
    BY DEF Init, StatType
  <2>3. MainType
    <3>1. 0 \in 0 .. UINT_RANGE - 1 /\ 0 \in 0 .. NThreads
      BY <1>1
    <3>2. NoStats \in [pages : 0 .. UINT_RANGE - 1, bytes : 0 .. UINT_RANGE - 1]
      BY <3>1 DEF NoStats
    <3> QED BY <3>1, <3>2 DEF Init, MainType
  <2>4. ConsType
    BY DEF Init, ConsType
  <2>5. PeerType
    BY DEF Init, PeerType
  <2> QED BY <2>1, <2>2, <2>3, <2>4, <2>5 DEF TypeOK
<1>3. RingOK /\ SlotsOK /\ MainOK /\ ConsOK
  BY <1>1 DEF Init, RingOK, SlotsOK, MainOK, ConsOK
<1> QED BY <1>2, <1>3 DEF TypeInv

LEMMA NThreadsPositive == NThreads \in Nat /\ NThreads > 0
BY ServerAssumption, FS_CardinalityType, FS_EmptySet DEF NThreads

LEMMA NoStatsType == NoStats \in [pages : 0 .. UINT_RANGE - 1, bytes : 0 .. UINT_RANGE - 1]
<1>1. 0 \in 0 .. UINT_RANGE - 1
  BY ServerAssumption
<1> QED BY <1>1 DEF NoStats

(* place() appends at the young end and leaves every older slot alone. *)
LEMMA PlaceRing ==
  ASSUME PoolType, RingOK, Place, client_sock \in Items
  PROVE  /\ PoolType' /\ RingOK'
         /\ \A k \in 0 .. size : Slot(k)' = IF k = size THEN client_sock ELSE Slot(k)
<1> USE ServerAssumption DEF PoolType, Index
<1>1. /\ start \in 0 .. POOL_SIZE - 1 /\ start' = start
      /\ size \in 0 .. POOL_SIZE - 1 /\ size' = size + 1
      /\ POOL_SIZE \in Nat \ {0}
  BY DEF Place
<1>2. (start + size) % POOL_SIZE = Wrap(start + size)
  BY <1>1, ModWrap
<1>3. end' = Wrap(start + size) /\ end' \in Index
  BY <1>1, <1>2 DEF Place, RingOK, Wrap
<1>4. clients_socks' = [clients_socks EXCEPT ![Wrap(start + size)] = client_sock]
  BY <1>3 DEF Place
<1>5. RingOK'
  <2>1. (start' + size') % POOL_SIZE = Wrap(start + size + 1)
    BY <1>1, ModWrap
  <2>2. (end' + 1) % POOL_SIZE = Wrap(Wrap(start + size) + 1)
    BY <1>1, <1>3, ModWrap
  <2> QED BY <1>1, <2>1, <2>2 DEF RingOK, Wrap
<1>6. ASSUME NEW k \in 0 .. size PROVE Slot(k)' = IF k = size THEN client_sock ELSE Slot(k)
  <2>1. (start + k) % POOL_SIZE = Wrap(start + k)
    BY <1>1, ModWrap
  <2>2. Wrap(start + k) \in Index /\ (k # size => Wrap(start + k) # Wrap(start + size))
    BY <1>1 DEF Wrap
  <2> QED BY <1>1, <1>4, <2>1, <2>2 DEF Slot
<1> QED BY <1>1, <1>3, <1>4, <1>5, <1>6

(* obtain() takes the oldest slot and shifts the numbers of the others by one. *)
LEMMA ObtainRing ==
  ASSUME PoolType, RingOK, NEW c \in Consumers, Obtain(c)
  PROVE  /\ PoolType' /\ RingOK'
         /\ clients_socks[start] = Slot(0)
         /\ \A k \in 0 .. size' - 1 : Slot(k)' = Slot(k + 1)
<1> USE ServerAssumption DEF PoolType, Index
<1>1. /\ start \in 0 .. POOL_SIZE - 1 /\ size \in 1 .. POOL_SIZE /\ size' = size - 1
      /\ POOL_SIZE \in Nat \ {0} /\ clients_socks' = clients_socks /\ end' = end
  BY DEF Obtain
<1>2. start' = Wrap(start + 1)
  BY <1>1, ModWrap DEF Obtain
<1>3. start' \in Index
  BY <1>1, <1>2 DEF Wrap
<1>4. clients_socks[start] = Slot(0)
  <2>1. (start + 0) % POOL_SIZE = Wrap(start + 0)
    BY <1>1, ModWrap
  <2> QED BY <1>1, <2>1 DEF Slot, Wrap
<1>5. ASSUME NEW k \in 0 .. size' PROVE (start' + k) % POOL_SIZE = (start + (k + 1)) % POOL_SIZE
  <2>1. (start' + k) % POOL_SIZE = Wrap(Wrap(start + 1) + k)
    BY <1>1, <1>2, <1>3, ModWrap
  <2>2. CASE start + (k + 1) < 2 * POOL_SIZE
    <3>1. (start + (k + 1)) % POOL_SIZE = Wrap(start + (k + 1))
      BY <1>1, <2>2, ModWrap
    <3> QED BY <1>1, <2>1, <3>1 DEF Wrap
  <2> QED BY <1>1, <2>2
<1>6. RingOK'
  <2>1. (start' + size') % POOL_SIZE = (start + size) % POOL_SIZE
    BY <1>1, <1>5
  <2> QED BY <1>1, <2>1 DEF RingOK
<1>7. ASSUME NEW k \in 0 .. size' - 1 PROVE Slot(k)' = Slot(k + 1)
  BY <1>1, <1>5 DEF Slot
<1> QED BY <1>1, <1>3, <1>4, <1>6, <1>7

LEMMA PlaceSlots ==
  ASSUME PoolType, RingOK, SlotsOK, Place, client_sock \in Items
  PROVE  PoolType' /\ RingOK' /\ SlotsOK'
<1>1. size \in Nat /\ size' = size + 1
  BY ServerAssumption DEF Place, PoolType
<1>2. PoolType' /\ RingOK' /\ \A k \in 0 .. size : Slot(k)' = IF k = size THEN client_sock ELSE Slot(k)
  BY PlaceRing
<1>3. ASSUME NEW k \in 0 .. size' - 1 PROVE Slot(k)' \in Items
  <2>1. k \in 0 .. size /\ (k # size => k \in 0 .. size - 1)
    BY <1>1
  <2> QED BY <1>2, <2>1 DEF SlotsOK
<1>4. SlotsOK'
  BY <1>3 DEF SlotsOK, Items
<1> QED BY <1>2, <1>4

LEMMA SignalFrame ==
  ASSUME ConsType, ConsOK, SignalWaiting, UNCHANGED <<sock, answer>>
  PROVE  ConsType' /\ ConsOK'
<1>1. CASE UNCHANGED pc
  BY <1>1 DEF ConsType, ConsOK
<1>2. ASSUME NEW c \in Waiting, pc' = [pc EXCEPT ![c] = "obtain"] PROVE ConsType' /\ ConsOK'
  BY <1>2 DEF ConsType, ConsOK, Waiting
<1> QED BY <1>1, <1>2 DEF SignalWaiting

LEMMA StepTypeInv == TypeInv /\ [Next]_vars => TypeInv'
<1> SUFFICES ASSUME TypeInv, [Next]_vars PROVE TypeInv'
  OBVIOUS
<1> USE ServerAssumption
<1> USE DEF TypeInv, TypeOK, PoolType, StatType, MainType, ConsType, PeerType, RingOK, MainOK, ConsOK, Index
<1>0. UNCHANGED poolVars => SlotsOK'
  BY DEF SlotsOK, Slot, poolVars
<1> USE <1>0
<1>1. CASE Spawn
  BY <1>1 DEF Spawn, poolVars, statVars, consVars, peerVars, SignalWaiting
<1>2. CASE Poll
  BY <1>2 DEF Poll, poolVars, statVars, consVars, peerVars, SignalWaiting
<1>3. CASE Accept
  BY <1>3 DEF Accept, Items, poolVars, statVars, mainVars, consVars, peerVars
<1>4. CASE Place
  <2>1. client_sock \in Items
    BY <1>4 DEF Place
  <2>2. PoolType' /\ RingOK' /\ SlotsOK'
    BY <1>4, <2>1, PlaceSlots
  <2> QED BY <2>2, <1>4 DEF Place, poolVars, statVars, mainVars, consVars, peerVars
<1>5. CASE WaitNonfull
  BY <1>5 DEF WaitNonfull, poolVars, statVars, consVars, peerVars, SignalWaiting
<1>6. CASE SignalClient
  BY <1>6 DEF SignalClient, SignalWaiting, Waiting, poolVars, statVars, mainVars, consVars, peerVars
<1>7. CASE SignalPill
  <2>1. pills > 0 /\ pills' = pills - 1 /\ pills' \in 0 .. NThreads /\ client_sock' = client_sock
    BY <1>7, NThreadsPositive DEF SignalPill
  <2>2. (mainpc' = "place" /\ pills' > 0) \/ mainpc' = "join"
    BY <1>7, <2>1 DEF SignalPill
  <2>3. MainType' /\ MainOK'
    BY <1>7, <2>1, <2>2 DEF SignalPill
  <2>4. ConsType' /\ ConsOK'
    BY <1>7, SignalFrame DEF SignalPill
  <2>5. PoolType' /\ RingOK' /\ StatType' /\ PeerType'
    BY <1>7 DEF SignalPill, poolVars, statVars
  <2> QED BY <1>7, <2>3, <2>4, <2>5 DEF SignalPill
<1>8. CASE AcceptCmd
  BY <1>8 DEF AcceptCmd, poolVars, statVars, consVars, peerVars, SignalWaiting
<1>9. CASE ReadShutdown
  <2>1. NThreads \in Nat /\ NThreads > 0
    BY NThreadsPositive
  <2> QED BY <2>1, <1>9 DEF ReadShutdown, Items, poolVars, statVars, mainVars, consVars, peerVars
<1>10. CASE ReadStats
  BY <1>10 DEF ReadStats, poolVars, statVars, consVars, peerVars, SignalWaiting
<1>11. CASE ReadOther
  BY <1>11 DEF ReadOther, poolVars, statVars, consVars, peerVars, SignalWaiting
<1>12. CASE ReadDisconnect
  BY <1>12 DEF ReadDisconnect, poolVars, statVars, consVars, peerVars, SignalWaiting
<1>13. CASE StatsPages
  BY <1>13 DEF StatsPages, poolVars, statVars, consVars, peerVars, SignalWaiting
<1>14. CASE StatsBytes
  BY <1>14 DEF StatsBytes, poolVars, statVars, consVars, peerVars, SignalWaiting
<1>15. CASE ReplyCmd
  <2>1. NoStats \in [pages : 0 .. UINT_RANGE - 1, bytes : 0 .. UINT_RANGE - 1]
    BY NoStatsType
  <2> QED BY <2>1, <1>15 DEF ReplyCmd, poolVars, statVars, mainVars, consVars, peerVars
<1>16. CASE MainDies
  BY <1>16 DEF MainDies, poolVars, statVars, consVars, peerVars, SignalWaiting
<1>17. CASE Join
  BY <1>17 DEF Join, poolVars, statVars, consVars, peerVars, SignalWaiting
<1>18. ASSUME NEW c \in Consumers, Obtain(c) PROVE TypeInv'
  <2>1. PoolType' /\ RingOK' /\ clients_socks[start] = Slot(0)
    BY <1>18, ObtainRing
  <2>2. SlotsOK'
    <3>1. size' = size - 1
      BY <1>18 DEF Obtain
    <3> QED BY <1>18, <3>1, ObtainRing DEF SlotsOK
  <2>3. clients_socks[start] \in Items
    BY <1>18, <2>1 DEF Obtain, SlotsOK
  <2> QED BY <2>1, <2>2, <2>3, <1>18, SMTT(30) DEF Obtain, poolVars, statVars, mainVars, consVars, peerVars
<1>19. ASSUME NEW c \in Consumers, WaitNonempty(c) PROVE TypeInv'
  BY <1>19 DEF WaitNonempty, poolVars, statVars, mainVars, peerVars
<1>20. ASSUME NEW c \in Consumers, SignalNonfull(c) PROVE TypeInv'
  BY <1>20 DEF SignalNonfull, Items, poolVars, statVars, mainVars, consVars, peerVars
<1>21. ASSUME NEW c \in Consumers, ReadRequest(c) PROVE TypeInv'
  BY <1>21 DEF ReadRequest, poolVars, statVars, mainVars, peerVars
<1>22. ASSUME NEW c \in Consumers, ClientGone(c) PROVE TypeInv'
  BY <1>22 DEF ClientGone, poolVars, statVars, mainVars, peerVars
<1>23. ASSUME NEW c \in Consumers, Send(c) PROVE TypeInv'
  BY <1>23 DEF Send, poolVars, statVars, mainVars, peerVars
<1>24. ASSUME NEW c \in Consumers, SendShort(c) PROVE TypeInv'
  BY <1>24 DEF SendShort, poolVars, statVars, mainVars, peerVars
<1>25. ASSUME NEW c \in Consumers, ConsumerDies(c) PROVE TypeInv'
  BY <1>25 DEF ConsumerDies, poolVars, statVars, mainVars, consVars, peerVars
<1>26. ASSUME NEW c \in Consumers, CountPage(c) PROVE TypeInv'
  BY <1>26 DEF CountPage, poolVars, statVars, mainVars, peerVars
<1>27. ASSUME NEW c \in Consumers, CountBytes(c) PROVE TypeInv'
  <2>1. total_bytes_sent' \in 0 .. UINT_RANGE - 1
    <3>1. (IF answer[c] \in Pages THEN Length[answer[c]] ELSE 0) \in Nat
      OBVIOUS
    <3>2. total_bytes_sent + (IF answer[c] \in Pages THEN Length[answer[c]] ELSE 0) \in Int
      BY <3>1
    <3> QED BY <1>27, <3>2, ModBound DEF CountBytes
  <2> QED BY <2>1, <1>27, SMTT(30) DEF CountBytes, poolVars, statVars, mainVars, consVars, peerVars
<1>28. ASSUME NEW c \in Consumers, Close(c) PROVE TypeInv'
  BY <1>28 DEF Close, poolVars, statVars, mainVars, peerVars
<1>29. CASE Environment
  <2>1. ASSUME NEW k \in Clients, Connect(k) PROVE TypeInv'
    BY <2>1 DEF Connect, poolVars, statVars, mainVars, consVars, peerVars
  <2>2. ASSUME NEW k \in Cmds, ConnectCmd(k) PROVE TypeInv'
    BY <2>2 DEF ConnectCmd, poolVars, statVars, mainVars, consVars, peerVars
  <2>3. CASE SpuriousWakeup
    <3>1. CASE mainpc = "nonfull" /\ mainpc' = "place" /\ UNCHANGED pc
      BY <2>3, <3>1 DEF SpuriousWakeup, poolVars, statVars, peerVars
    <3>2. ASSUME NEW c \in Waiting, pc' = [pc EXCEPT ![c] = "obtain"], UNCHANGED mainpc
          PROVE  TypeInv'
      BY <2>3, <3>2 DEF SpuriousWakeup, Waiting, poolVars, statVars, peerVars
    <3> QED BY <2>3, <3>1, <3>2 DEF SpuriousWakeup
  <2> QED BY <1>29, <2>1, <2>2, <2>3 DEF Environment
<1>30. CASE UNCHANGED vars
  BY <1>30 DEF vars, poolVars, statVars, mainVars, consVars, peerVars
<1> QED
  BY <1>1, <1>2, <1>3, <1>4, <1>5, <1>6, <1>7, <1>8, <1>9, <1>10, <1>11, <1>12, <1>13, <1>14, <1>15, <1>16, <1>17, <1>18, <1>19, <1>20, <1>21, <1>22, <1>23, <1>24, <1>25, <1>26, <1>27, <1>28, <1>29, <1>30 DEF Next, MainStep, ConsumerStep, Rest
(* The specification keeps its types: no index leaves the ring, no counter   *)
(* its width, and a thread never handles a socket it was not given.          *)
THEOREM TypeCorrect == Spec => []TypeOK
<1>1. Spec => []TypeInv
  BY InitTypeInv, StepTypeInv, PTL DEF Spec
<1>2. TypeInv => TypeOK
  BY DEF TypeInv
<1> QED BY <1>1, <1>2, PTL
-----------------------------------------------------------------------------
(* Ownership, one client at a time. *)
InMain(k) == mainpc \in {"place", "nonfull"} /\ client_sock = k
InRing(k) == \E i \in 0 .. size - 1 : Slot(i) = k
InCons(k) == \E c \in Consumers : sock[c] = k

OwnInv ==
  mainpc # "dead" =>
    \A k \in Clients :
      /\ conn[k] = "accepted" <=> InMain(k) \/ InRing(k) \/ InCons(k)
      /\ ~(InMain(k) /\ InRing(k)) /\ ~(InMain(k) /\ InCons(k)) /\ ~(InRing(k) /\ InCons(k))
      /\ \A i, j \in 0 .. size - 1 : Slot(i) = k /\ Slot(j) = k => i = j
      /\ \A c, d \in Consumers : sock[c] = k /\ sock[d] = k => c = d

(* Nothing but -1 is behind a -1, or in the ring once a thread has taken one; *)
(* and main places no client once the first -1 is there.                      *)
DrainInv ==
  /\ \A j, k \in 0 .. size - 1 : j < k /\ Slot(j) = Poison => Slot(k) = Poison
  /\ \A c \in Consumers : sock[c] = Poison =>
        client_sock = Poison /\ \A k \in 0 .. size - 1 : Slot(k) = Poison
  /\ \A k \in 0 .. size - 1 : Slot(k) = Poison => client_sock = Poison

JoinInv == mainpc = "stopped" => \A c \in Consumers : pc[c] = "exited"

IInv == TypeInv /\ OwnInv /\ DrainInv /\ JoinInv

(* A step that moves no client socket. *)
Quiet ==
  /\ UNCHANGED <<poolVars, sock, conn>>
  /\ client_sock = Poison => client_sock' = Poison
  /\ mainpc' = "dead" \/ (mainpc # "dead" /\ \A k \in Clients : InMain(k)' <=> InMain(k))

LEMMA InitIInv == Init => IInv
<1> SUFFICES ASSUME Init PROVE IInv
  OBVIOUS
<1>1. TypeInv
  BY InitTypeInv
<1>2. OwnInv
  BY ServerAssumption DEF Init, OwnInv, InMain, InRing, InCons
<1>3. DrainInv /\ JoinInv
  BY ServerAssumption DEF Init, DrainInv, JoinInv
<1> QED BY <1>1, <1>2, <1>3 DEF IInv

LEMMA QuietKeeps ==
  ASSUME OwnInv, DrainInv, Quiet
  PROVE  OwnInv' /\ DrainInv'
<1>1. size' = size /\ sock' = sock /\ conn' = conn /\ \A i \in 0 .. size - 1 : Slot(i)' = Slot(i)
  BY DEF Quiet, poolVars, Slot
<1>2. \A k \in Clients : (InRing(k)' <=> InRing(k)) /\ (InCons(k)' <=> InCons(k))
  BY <1>1 DEF InRing, InCons
<1>3. OwnInv'
  BY <1>1, <1>2 DEF OwnInv, Quiet
<1>4. DrainInv'
  BY <1>1 DEF DrainInv, Quiet
<1> QED BY <1>3, <1>4

LEMMA QuietSteps ==
  ASSUME TypeInv, Alive,
         \/ Spawn \/ Poll \/ WaitNonfull \/ SignalClient \/ SignalPill \/ AcceptCmd \/ ReadShutdown \/ ReadStats
         \/ ReadOther \/ ReadDisconnect \/ StatsPages \/ StatsBytes \/ ReplyCmd \/ MainDies \/ Join
         \/ SpuriousWakeup \/ \E k \in Cmds : ConnectCmd(k)
         \/ \E c \in Consumers : WaitNonempty(c) \/ SignalNonfull(c) \/ ReadRequest(c) \/ ClientGone(c) \/ Send(c)
         \/ \E c \in Consumers : SendShort(c) \/ ConsumerDies(c) \/ CountPage(c) \/ CountBytes(c)
  PROVE  Quiet
<1> USE ServerAssumption DEF TypeInv, MainOK, Alive, Quiet, InMain, Items
<1>1. CASE Spawn
  BY <1>1 DEF Spawn, poolVars, statVars, consVars, peerVars
<1>2. CASE Poll
  BY <1>2 DEF Poll, poolVars, statVars, consVars, peerVars
<1>3. CASE WaitNonfull
  BY <1>3 DEF WaitNonfull, poolVars, statVars, consVars, peerVars
<1>4. CASE SignalClient
  BY <1>4 DEF SignalClient, poolVars, statVars, consVars, peerVars
<1>5. CASE SignalPill
  BY <1>5 DEF SignalPill, poolVars, statVars, consVars, peerVars
<1>6. CASE AcceptCmd
  BY <1>6 DEF AcceptCmd, poolVars, statVars, consVars, peerVars
<1>7. CASE ReadShutdown
  BY <1>7 DEF ReadShutdown, poolVars, statVars, consVars, peerVars
<1>8. CASE ReadStats
  BY <1>8 DEF ReadStats, poolVars, statVars, consVars, peerVars
<1>9. CASE ReadOther
  BY <1>9 DEF ReadOther, poolVars, statVars, consVars, peerVars
<1>10. CASE ReadDisconnect
  BY <1>10 DEF ReadDisconnect, poolVars, statVars, consVars, peerVars
<1>11. CASE StatsPages
  BY <1>11 DEF StatsPages, poolVars, statVars, consVars, peerVars
<1>12. CASE StatsBytes
  BY <1>12 DEF StatsBytes, poolVars, statVars, consVars, peerVars
<1>13. CASE ReplyCmd
  BY <1>13 DEF ReplyCmd, poolVars, statVars, consVars, peerVars
<1>14. CASE MainDies
  BY <1>14 DEF MainDies, poolVars, statVars, consVars, peerVars
<1>15. CASE Join
  BY <1>15 DEF Join, poolVars, statVars, consVars, peerVars
<1>16. CASE SpuriousWakeup
  BY <1>16 DEF SpuriousWakeup, poolVars, statVars, peerVars
<1>17. ASSUME NEW k \in Cmds, ConnectCmd(k) PROVE Quiet
  BY <1>17 DEF ConnectCmd, mainVars, poolVars, statVars, consVars
<1>18. ASSUME NEW c \in Consumers, WaitNonempty(c) PROVE Quiet
  BY <1>18 DEF WaitNonempty, poolVars, statVars, mainVars, consVars, peerVars
<1>19. ASSUME NEW c \in Consumers, SignalNonfull(c) PROVE Quiet
  BY <1>19 DEF SignalNonfull, poolVars, statVars, mainVars, consVars, peerVars
<1>20. ASSUME NEW c \in Consumers, ReadRequest(c) PROVE Quiet
  BY <1>20 DEF ReadRequest, poolVars, statVars, mainVars, consVars, peerVars
<1>21. ASSUME NEW c \in Consumers, ClientGone(c) PROVE Quiet
  BY <1>21 DEF ClientGone, poolVars, statVars, mainVars, consVars, peerVars
<1>22. ASSUME NEW c \in Consumers, Send(c) PROVE Quiet
  BY <1>22 DEF Send, poolVars, statVars, mainVars, consVars, peerVars
<1>23. ASSUME NEW c \in Consumers, SendShort(c) PROVE Quiet
  BY <1>23 DEF SendShort, poolVars, statVars, mainVars, consVars, peerVars
<1>24. ASSUME NEW c \in Consumers, ConsumerDies(c) PROVE Quiet
  BY <1>24 DEF ConsumerDies, poolVars, statVars, mainVars, consVars, peerVars
<1>25. ASSUME NEW c \in Consumers, CountPage(c) PROVE Quiet
  BY <1>25 DEF CountPage, poolVars, statVars, mainVars, consVars, peerVars
<1>26. ASSUME NEW c \in Consumers, CountBytes(c) PROVE Quiet
  BY <1>26 DEF CountBytes, poolVars, statVars, mainVars, consVars, peerVars
<1> QED BY <1>1, <1>2, <1>3, <1>4, <1>5, <1>6, <1>7, <1>8, <1>9, <1>10, <1>11, <1>12, <1>13, <1>14, <1>15, <1>16, <1>17, <1>18, <1>19, <1>20, <1>21, <1>22, <1>23, <1>24, <1>25, <1>26

LEMMA ConnectOwns ==
  ASSUME TypeInv, OwnInv, DrainInv, NEW k \in Clients, Connect(k)
  PROVE  OwnInv' /\ DrainInv'
<1>1. /\ size' = size /\ sock' = sock /\ \A i \in 0 .. size - 1 : Slot(i)' = Slot(i)
      /\ client_sock' = client_sock /\ mainpc' = mainpc
  BY DEF Connect, poolVars, consVars, mainVars, Slot
<1>2. \A j \in Clients : conn'[j] = "accepted" <=> conn[j] = "accepted"
  BY DEF Connect, TypeInv, TypeOK, PeerType
<1>3. \A j \in Clients : /\ InRing(j)' <=> InRing(j)
                         /\ InCons(j)' <=> InCons(j)
                         /\ InMain(j)' <=> InMain(j)
  BY <1>1 DEF InRing, InCons, InMain
<1>4. OwnInv'
  BY <1>1, <1>2, <1>3 DEF OwnInv
<1>5. DrainInv'
  BY <1>1 DEF DrainInv
<1> QED BY <1>4, <1>5

LEMMA AcceptOwns ==
  ASSUME TypeInv, OwnInv, DrainInv, Accept
  PROVE  OwnInv' /\ DrainInv'
<1>1. /\ size' = size /\ sock' = sock /\ \A i \in 0 .. size - 1 : Slot(i)' = Slot(i)
      /\ mainpc = "accept" /\ mainpc' = "place" /\ client_sock = None
  BY DEF Accept, poolVars, consVars, Slot, TypeInv, MainOK
<1>2. PICK k \in Clients : /\ conn[k] = "backlog" /\ client_sock' = k
                           /\ conn' = [conn EXCEPT ![k] = "accepted"]
  BY DEF Accept
<1>3. \A j \in Clients : /\ InRing(j)' <=> InRing(j)
                         /\ InCons(j)' <=> InCons(j)
                         /\ ~InMain(j) /\ (InMain(j)' <=> j = k)
                         /\ conn'[j] = "accepted" <=> conn[j] = "accepted" \/ j = k
  BY <1>1, <1>2 DEF InRing, InCons, InMain, TypeInv, TypeOK, PeerType
<1>4. ~InRing(k) /\ ~InCons(k)
  BY <1>1, <1>2 DEF OwnInv
<1>5. OwnInv'
  BY <1>1, <1>3, <1>4 DEF OwnInv
<1>6. DrainInv'
  BY <1>1, ServerAssumption DEF DrainInv
<1> QED BY <1>5, <1>6

LEMMA PlaceOwns ==
  ASSUME TypeInv, OwnInv, DrainInv, Place
  PROVE  OwnInv' /\ DrainInv'
<1>1. /\ client_sock \in Items /\ client_sock' = client_sock /\ sock' = sock /\ conn' = conn
      /\ mainpc = "place" /\ mainpc' = "signal" /\ size \in Nat /\ size' = size + 1
  BY ServerAssumption DEF Place, consVars, peerVars, TypeInv, TypeOK, PoolType, MainOK
<1>2. \A i \in 0 .. size : Slot(i)' = IF i = size THEN client_sock ELSE Slot(i)
  BY <1>1, PlaceRing DEF TypeInv, TypeOK
<1>3. 0 .. size' - 1 = 0 .. size /\ 0 .. size = (0 .. size - 1) \union {size}
  BY <1>1
<1>4. \A k \in Clients : /\ InRing(k)' <=> InRing(k) \/ k = client_sock
                         /\ InCons(k)' <=> InCons(k)
                         /\ InMain(k) <=> k = client_sock
                         /\ ~InMain(k)'
  <2>1. ASSUME NEW k \in Clients PROVE InRing(k)' <=> InRing(k) \/ k = client_sock
    <3>1. InRing(k)' <=> \E i \in 0 .. size' - 1 : Slot(i)' = k
      BY DEF InRing
    <3> QED BY <1>1, <1>2, <1>3, <3>1 DEF InRing
  <2> QED BY <1>1, <2>1 DEF InCons, InMain
<1>5. OwnInv'
  <2>1. ASSUME NEW k \in Clients, NEW i \in 0 .. size' - 1, NEW j \in 0 .. size' - 1,
               Slot(i)' = k, Slot(j)' = k
        PROVE  i = j
    <3>1. i \in 0 .. size /\ j \in 0 .. size
      BY <1>3
    <3>2. CASE k = client_sock
      <4>1. ~InRing(k)
        BY <1>1, <1>4, <3>2 DEF OwnInv
      <4> QED BY <1>1, <1>2, <1>3, <2>1, <3>1, <4>1 DEF InRing
    <3>3. CASE k # client_sock
      BY <1>1, <1>2, <1>3, <2>1, <3>1, <3>3 DEF OwnInv
    <3> QED BY <3>2, <3>3
  <2>2. \A k \in Clients : /\ conn'[k] = "accepted" <=> InMain(k)' \/ InRing(k)' \/ InCons(k)'
                           /\ ~(InRing(k)' /\ InCons(k)')
                           /\ \A c, d \in Consumers : sock'[c] = k /\ sock'[d] = k => c = d
    BY <1>1, <1>4 DEF OwnInv
  <2> QED BY <1>4, <2>1, <2>2 DEF OwnInv
<1>6. DrainInv'
  <2>1. ASSUME NEW j \in 0 .. size' - 1, NEW k \in 0 .. size' - 1, j < k, Slot(j)' = Poison
        PROVE  Slot(k)' = Poison
    <3>1. j \in 0 .. size - 1 /\ k \in 0 .. size /\ Slot(j) = Poison
      BY <1>1, <1>2, <2>1
    <3>2. client_sock = Poison
      BY <3>1 DEF DrainInv
    <3> QED BY <1>1, <1>2, <2>1, <3>1, <3>2 DEF DrainInv
  <2>2. ASSUME NEW c \in Consumers, sock'[c] = Poison, NEW k \in 0 .. size' - 1
        PROVE  Slot(k)' = Poison
    BY <1>1, <1>2, <1>3, <2>2 DEF DrainInv
  <2>3. ASSUME NEW k \in 0 .. size' - 1, Slot(k)' = Poison PROVE client_sock' = Poison
    BY <1>1, <1>2, <1>3, <2>3 DEF DrainInv
  <2>4. \A c \in Consumers : sock'[c] = Poison => client_sock' = Poison
    BY <1>1 DEF DrainInv
  <2> QED BY <2>1, <2>2, <2>3, <2>4 DEF DrainInv
<1> QED BY <1>5, <1>6

LEMMA ObtainOwns ==
  ASSUME TypeInv, OwnInv, DrainInv, NEW c \in Consumers, Obtain(c)
  PROVE  OwnInv' /\ DrainInv'
<1>1. /\ client_sock' = client_sock /\ conn' = conn /\ mainpc' = mainpc /\ mainpc # "dead"
      /\ size \in Nat \ {0} /\ size' = size - 1 /\ sock[c] = None
      /\ sock' = [sock EXCEPT ![c] = Slot(0)]
  <2>1. clients_socks[start] = Slot(0)
    BY ObtainRing DEF TypeInv, TypeOK
  <2>2. size \in Nat \ {0}
    BY ServerAssumption DEF Obtain, TypeInv, TypeOK, PoolType
  <2>3. sock[c] = None
    BY DEF Obtain, TypeInv, ConsOK
  <2> QED BY <2>1, <2>2, <2>3 DEF Obtain, Alive, mainVars, peerVars
<1>2. \A i \in 0 .. size' - 1 : Slot(i)' = Slot(i + 1) /\ i + 1 \in 0 .. size - 1 /\ i + 1 # 0
  BY <1>1, ObtainRing DEF TypeInv, TypeOK
<1>3. \A i \in 0 .. size - 1 : i # 0 => i - 1 \in 0 .. size' - 1 /\ Slot(i - 1)' = Slot(i)
  <2>1. ASSUME NEW i \in 0 .. size - 1, i # 0 PROVE i - 1 \in 0 .. size' - 1 /\ (i - 1) + 1 = i
    BY <1>1, <2>1
  <2> QED BY <1>2, <2>1
<1>4. 0 \in 0 .. size - 1 /\ Slot(0) \in Items
  BY <1>1 DEF TypeInv, SlotsOK
<1>5. \A d \in Consumers : sock'[d] = IF d = c THEN Slot(0) ELSE sock[d]
  BY <1>1 DEF TypeInv, TypeOK, ConsType
<1>6. \A k \in Clients : /\ InRing(k)' <=> InRing(k) /\ k # Slot(0)
                         /\ InCons(k)' <=> InCons(k) \/ k = Slot(0)
                         /\ InMain(k)' <=> InMain(k)
  <2>1. ASSUME NEW k \in Clients, InRing(k)' PROVE InRing(k) /\ k # Slot(0)
    <3>1. PICK i \in 0 .. size' - 1 : Slot(i)' = k
      BY <2>1 DEF InRing
    <3> QED BY <1>1, <1>2, <1>4, <3>1 DEF InRing, OwnInv
  <2>2. ASSUME NEW k \in Clients, InRing(k), k # Slot(0) PROVE InRing(k)'
    <3>1. PICK i \in 0 .. size - 1 : Slot(i) = k /\ i # 0
      BY <2>2 DEF InRing
    <3>2. i - 1 \in 0 .. size' - 1 /\ Slot(i - 1)' = k
      BY <1>3, <3>1
    <3>3. \E j \in 0 .. size' - 1 : Slot(j)' = k
      <4>1. \A j : j = i - 1 => j \in 0 .. size' - 1 /\ Slot(j)' = k
        BY <3>2
      <4> QED BY <4>1
    <3> QED BY <3>3 DEF InRing
  <2>3. ASSUME NEW k \in Clients PROVE InCons(k)' <=> InCons(k) \/ k = Slot(0)
    BY <1>1, <1>5, ServerAssumption DEF InCons
  <2> QED BY <1>1, <2>1, <2>2, <2>3 DEF InMain
<1>7. OwnInv'
  <2>1. ASSUME NEW k \in Clients, NEW i \in 0 .. size' - 1, NEW j \in 0 .. size' - 1,
               Slot(i)' = k, Slot(j)' = k
        PROVE  i = j
    <3>1. Slot(i + 1) = k /\ Slot(j + 1) = k /\ i + 1 = j + 1
      BY <1>1, <1>2, <2>1 DEF OwnInv
    <3> QED BY <1>1, <3>1
  <2>2. ASSUME NEW k \in Clients, NEW d \in Consumers, NEW e \in Consumers, sock'[d] = k, sock'[e] = k
        PROVE  d = e
    <3>1. CASE k = Slot(0)
      <4>1. ~InCons(k)
        BY <1>1, <1>4, <3>1 DEF OwnInv, InRing
      <4> QED BY <1>5, <2>2, <3>1, <4>1 DEF InCons
    <3>2. CASE k # Slot(0)
      BY <1>1, <1>5, <2>2, <3>2 DEF OwnInv
    <3> QED BY <3>1, <3>2
  <2>3. \A k \in Clients : k = Slot(0) => InRing(k)
    BY <1>4 DEF InRing
  <2>4. \A k \in Clients : /\ conn'[k] = "accepted" <=> InMain(k)' \/ InRing(k)' \/ InCons(k)'
                           /\ ~(InMain(k)' /\ InRing(k)') /\ ~(InMain(k)' /\ InCons(k)')
                           /\ ~(InRing(k)' /\ InCons(k)')
    BY <1>1, <1>6, <2>3 DEF OwnInv
  <2> QED BY <2>1, <2>2, <2>4 DEF OwnInv
<1>8. DrainInv'
  <2>1. ASSUME NEW j \in 0 .. size' - 1, NEW k \in 0 .. size' - 1, j < k, Slot(j)' = Poison
        PROVE  Slot(k)' = Poison
    <3>1. Slot(j + 1) = Poison /\ j + 1 < k + 1 /\ Slot(k)' = Slot(k + 1)
      BY <1>1, <1>2, <2>1
    <3> QED BY <1>2, <3>1 DEF DrainInv
  <2>2. ASSUME NEW d \in Consumers, sock'[d] = Poison
        PROVE  client_sock' = Poison /\ \A k \in 0 .. size' - 1 : Slot(k)' = Poison
    <3>1. CASE d = c
      <4>1. Slot(0) = Poison
        BY <1>5, <2>2, <3>1
      <4>2. ASSUME NEW k \in 0 .. size' - 1 PROVE Slot(k + 1) = Poison
        <5>1. 0 < k + 1 /\ k + 1 \in 0 .. size - 1
          BY <1>1, <1>2
        <5> QED BY <1>4, <4>1, <5>1 DEF DrainInv
      <4> QED BY <1>1, <1>2, <1>4, <4>1, <4>2 DEF DrainInv
    <3>2. CASE d # c
      BY <1>1, <1>2, <1>5, <2>2, <3>2 DEF DrainInv
    <3> QED BY <3>1, <3>2
  <2>3. ASSUME NEW k \in 0 .. size' - 1, Slot(k)' = Poison PROVE client_sock' = Poison
    BY <1>1, <1>2, <2>3 DEF DrainInv
  <2> QED BY <2>1, <2>2, <2>3 DEF DrainInv
<1> QED BY <1>7, <1>8

LEMMA CloseOwns ==
  ASSUME TypeInv, OwnInv, DrainInv, NEW c \in Consumers, Close(c)
  PROVE  OwnInv' /\ DrainInv'
<1>1. /\ size' = size /\ \A i \in 0 .. size - 1 : Slot(i)' = Slot(i)
      /\ client_sock' = client_sock /\ mainpc' = mainpc /\ mainpc # "dead"
      /\ sock[c] \in Clients
  BY DEF Close, poolVars, mainVars, Slot, Alive, TypeInv, ConsOK
<1>2. /\ \A d \in Consumers : sock'[d] = IF d = c THEN None ELSE sock[d]
      /\ \A k \in Clients : conn'[k] = IF k = sock[c] THEN "closed" ELSE conn[k]
  BY DEF Close, TypeInv, TypeOK, ConsType, PeerType
<1>3. \A k \in Clients : /\ InRing(k)' <=> InRing(k)
                         /\ InCons(k)' <=> InCons(k) /\ k # sock[c]
                         /\ InMain(k)' <=> InMain(k)
  <2>1. ASSUME NEW k \in Clients PROVE InCons(k)' <=> InCons(k) /\ k # sock[c]
    BY <1>1, <1>2, ServerAssumption DEF InCons, OwnInv
  <2> QED BY <1>1, <2>1 DEF InRing, InMain
<1>4. InCons(sock[c])
  BY DEF InCons
<1>5. OwnInv'
  <2>1. \A k \in Clients : /\ conn'[k] = "accepted" <=> InMain(k)' \/ InRing(k)' \/ InCons(k)'
                           /\ ~(InMain(k)' /\ InRing(k)') /\ ~(InMain(k)' /\ InCons(k)')
                           /\ ~(InRing(k)' /\ InCons(k)')
    BY <1>1, <1>2, <1>3, <1>4 DEF OwnInv
  <2>2. \A k \in Clients : /\ \A i, j \in 0 .. size' - 1 : Slot(i)' = k /\ Slot(j)' = k => i = j
                           /\ \A d, e \in Consumers : sock'[d] = k /\ sock'[e] = k => d = e
    BY <1>1, <1>2, ServerAssumption DEF OwnInv
  <2> QED BY <2>1, <2>2 DEF OwnInv
<1>6. DrainInv'
  BY <1>1, <1>2, ServerAssumption DEF DrainInv
<1> QED BY <1>5, <1>6

LEMMA StepJoinInv == TypeInv /\ JoinInv /\ [Next]_vars => JoinInv'
<1> SUFFICES ASSUME TypeInv, JoinInv, [Next]_vars PROVE JoinInv'
  OBVIOUS
<1>1. CASE mainpc = "stopped"
  <2>1. UNCHANGED vars
    BY <1>1 DEF Next, MainStep, ConsumerStep, Environment, Rest, Alive,
       Spawn, Poll, Accept, Place, WaitNonfull, SignalClient, SignalPill, AcceptCmd, ReadShutdown,
       ReadStats, ReadOther, ReadDisconnect, StatsPages, StatsBytes, ReplyCmd, MainDies, Join,
       Obtain, WaitNonempty, SignalNonfull, ReadRequest, ClientGone, Send, SendShort,
       ConsumerDies, CountPage, CountBytes, Close, Connect, ConnectCmd, SpuriousWakeup
  <2> QED BY <2>1 DEF JoinInv, vars, mainVars, consVars
<1>2. CASE mainpc # "stopped" /\ mainpc' = "stopped"
  <2>1. Join
    BY <1>2 DEF Next, MainStep, ConsumerStep, Environment, Rest, vars, mainVars,
       Spawn, Poll, Accept, Place, WaitNonfull, SignalClient, SignalPill, AcceptCmd, ReadShutdown,
       ReadStats, ReadOther, ReadDisconnect, StatsPages, StatsBytes, ReplyCmd, MainDies,
       Obtain, WaitNonempty, SignalNonfull, ReadRequest, ClientGone, Send, SendShort,
       ConsumerDies, CountPage, CountBytes, Close, Connect, ConnectCmd, SpuriousWakeup
  <2> QED BY <2>1 DEF Join, JoinInv, consVars
<1>3. CASE mainpc' # "stopped"
  BY <1>3 DEF JoinInv
<1> QED BY <1>1, <1>2, <1>3

LEMMA StepIInv == IInv /\ [Next]_vars => IInv'
<1> SUFFICES ASSUME IInv, [Next]_vars PROVE IInv'
  OBVIOUS
<1>1. TypeInv' /\ JoinInv'
  BY StepTypeInv, StepJoinInv DEF IInv
<1>2. OwnInv' /\ DrainInv'
  <2> USE DEF IInv
  <2>1. ASSUME NEW k \in Clients, Connect(k) PROVE OwnInv' /\ DrainInv'
    BY <2>1, ConnectOwns
  <2>2. CASE Accept
    BY <2>2, AcceptOwns
  <2>3. CASE Place
    BY <2>3, PlaceOwns
  <2>4. ASSUME NEW c \in Consumers, Obtain(c) PROVE OwnInv' /\ DrainInv'
    BY <2>4, ObtainOwns
  <2>5. ASSUME NEW c \in Consumers, Close(c) PROVE OwnInv' /\ DrainInv'
    BY <2>5, CloseOwns
  <2>6. CASE UNCHANGED vars
    BY <2>6 DEF vars, poolVars, mainVars, consVars, peerVars, OwnInv, DrainInv, Slot, InMain, InRing, InCons
  <2>7. CASE Rest
    BY <2>6, <2>7 DEF Rest
  <2>8. CASE ~Alive
    BY <2>6, <2>8 DEF Next, MainStep, ConsumerStep, Environment, Rest, Alive,
       Spawn, Poll, Accept, Place, WaitNonfull, SignalClient, SignalPill, AcceptCmd, ReadShutdown,
       ReadStats, ReadOther, ReadDisconnect, StatsPages, StatsBytes, ReplyCmd, MainDies, Join,
       Obtain, WaitNonempty, SignalNonfull, ReadRequest, ClientGone, Send, SendShort,
       ConsumerDies, CountPage, CountBytes, Close, Connect, ConnectCmd, SpuriousWakeup
  <2> QED BY <2>1, <2>2, <2>3, <2>4, <2>5, <2>6, <2>7, <2>8, QuietSteps, QuietKeeps
          DEF Next, MainStep, ConsumerStep, Environment
<1> QED BY <1>1, <1>2 DEF IInv

LEMMA Invariance == Spec => []IInv
BY InitIInv, StepIInv, PTL DEF Spec

LEMMA OwnInvOwnership == TypeInv /\ OwnInv => Ownership
<1> SUFFICES ASSUME TypeInv, OwnInv, mainpc # "dead" PROVE Ownership
  BY DEF Ownership
<1> USE ServerAssumption
<1>1. /\ HeldByMain = {k \in Clients : InMain(k)}
      /\ Queued \ {Poison} = {k \in Clients : InRing(k)}
  BY DEF HeldByMain, Queued, InMain, InRing, TypeInv, SlotsOK, MainOK, Items
<1>2. \A c \in Consumers : Holds(c) = {k \in Clients : sock[c] = k}
  BY DEF Holds, TypeInv, TypeOK, ConsType, Items
<1>8. UNION {Holds(c) : c \in Consumers} = {k \in Clients : InCons(k)}
  BY <1>2 DEF InCons
<1>3. {k \in Clients : conn[k] = "accepted"}
         = HeldByMain \union (Queued \ {Poison}) \union UNION {Holds(c) : c \in Consumers}
  BY <1>1, <1>8 DEF OwnInv
<1>4. \A j, k \in 0 .. size - 1 : j # k /\ Slot(j) = Slot(k) => Slot(j) = Poison
  BY DEF OwnInv, TypeInv, SlotsOK, Items
<1>5. \A c, d \in Consumers : c # d => Holds(c) \intersect Holds(d) = {}
  BY <1>2 DEF OwnInv
<1>6. \A c \in Consumers : Holds(c) \intersect (Queued \union HeldByMain) = {}
  <2>1. ASSUME NEW c \in Consumers, NEW k \in Holds(c) PROVE k \notin Queued /\ k \notin HeldByMain
    <3>1. k \in Clients /\ InCons(k) /\ ~InRing(k) /\ ~InMain(k)
      BY <1>2, <2>1 DEF InCons, OwnInv
    <3> QED BY <1>1, <3>1
  <2> QED BY <2>1
<1>7. HeldByMain \intersect Queued = {}
  <2>1. \A k \in HeldByMain : k # Poison /\ ~InRing(k)
    BY <1>1 DEF OwnInv
  <2> QED BY <1>1, <2>1
<1> QED BY <1>3, <1>4, <1>5, <1>6, <1>7 DEF Ownership

(* No accepted connection is lost, shared by two threads or served twice. *)
THEOREM OwnershipHolds == Spec => []Ownership
<1>1. IInv => Ownership
  BY OwnInvOwnership DEF IInv
<1> QED BY <1>1, Invariance, PTL

(* SHUTDOWN serves every accepted client before the process ends. *)
THEOREM ShutdownDrainsHolds == Spec => []ShutdownDrains
<1>1. IInv => ShutdownDrains
  <2> SUFFICES ASSUME IInv PROVE ShutdownDrains
    OBVIOUS
  <2>1. \A j, k \in 0 .. size - 1 : j < k /\ Slot(j) = Poison => Slot(k) = Poison
    BY DEF IInv, DrainInv
  <2>2. (\E c \in Consumers : sock[c] = Poison) => Queued \subseteq {Poison}
    BY DEF IInv, DrainInv, Queued
  <2>3. ASSUME mainpc = "stopped", NEW k \in Clients PROVE conn[k] # "accepted"
    <3>1. \A c \in Consumers : sock[c] = Poison
      BY <2>3 DEF IInv, JoinInv, TypeInv, ConsOK
    <3>2. ~InMain(k) /\ ~InCons(k)
      BY <2>3, <3>1, ServerAssumption DEF InMain, InCons
    <3>3. ~InRing(k)
      BY <3>1, ServerAssumption DEF IInv, DrainInv, InRing
    <3> QED BY <2>3, <3>2, <3>3 DEF IInv, OwnInv
  <2> QED BY <2>1, <2>2, <2>3 DEF ShutdownDrains
<1> QED BY <1>1, Invariance, PTL

-----------------------------------------------------------------------------
(* The sequence of the live slots, oldest first. *)
Contents == [k \in 1 .. size |-> Slot(k - 1)]

LEMMA ContentsSeq == TypeInv => Contents \in Seq(Items) /\ Len(Contents) = size
<1> SUFFICES ASSUME TypeInv PROVE Contents \in Seq(Items) /\ Len(Contents) = size
  OBVIOUS
<1>1. size \in Nat
  BY ServerAssumption DEF TypeInv, TypeOK, PoolType
<1>2. \A k \in 1 .. size : Contents[k] \in Items
  BY <1>1 DEF TypeInv, SlotsOK, Contents
<1>3. DOMAIN Contents = 1 .. size
  BY DEF Contents
<1>4. Contents \in [1 .. size -> Items]
  BY <1>2, <1>3 DEF Contents
<1> QED BY <1>1, <1>4

LEMMA PlacePuts ==
  ASSUME TypeInv, Place
  PROVE  client_sock \in Items /\ Len(Contents) < POOL_SIZE /\ Contents' = Append(Contents, client_sock)
<1>1. /\ client_sock \in Items /\ size \in Nat /\ size < POOL_SIZE /\ size' = size + 1
  BY ServerAssumption DEF Place, TypeInv, TypeOK, PoolType, MainOK
<1>2. \A k \in 0 .. size : Slot(k)' = IF k = size THEN client_sock ELSE Slot(k)
  BY <1>1, PlaceRing DEF TypeInv, TypeOK
<1>3. Contents \in Seq(Items) /\ Len(Contents) = size
  BY ContentsSeq
<1>4. Contents' = [k \in 1 .. size + 1 |-> Slot(k - 1)']
  BY <1>1 DEF Contents
<1>5. \A k \in 1 .. size + 1 : Slot(k - 1)' = IF k = size + 1 THEN client_sock ELSE Contents[k]
  <2>1. ASSUME NEW k \in 1 .. size + 1
        PROVE  Slot(k - 1)' = IF k = size + 1 THEN client_sock ELSE Contents[k]
    <3>1. k - 1 \in 0 .. size /\ (k # size + 1 => k \in 1 .. size)
      BY <1>1
    <3> QED BY <1>1, <1>2, <3>1 DEF Contents
  <2> QED BY <2>1
<1>6. Contents' \in Seq(Items) /\ Len(Contents') = size + 1
  <2>1. Contents' \in [1 .. size + 1 -> Items]
    BY <1>1, <1>3, <1>4, <1>5
  <2> QED BY <1>1, <2>1
<1>7. Contents' = Append(Contents, client_sock)
  <2> DEFINE t == Append(Contents, client_sock)
  <2>1. t \in Seq(Items) /\ Len(t) = size + 1
    BY <1>1, <1>3, AppendProperties
  <2>2. ASSUME NEW i \in 1 .. size + 1 PROVE Contents'[i] = t[i]
    <3>1. t[i] = IF i = size + 1 THEN client_sock ELSE Contents[i]
      BY <1>1, <1>3, AppendProperties
    <3> QED BY <1>4, <1>5, <3>1
  <2> HIDE DEF t
  <2>3. Contents' = t
    BY <1>6, <2>1, <2>2, SeqEqual
  <2> QED BY <2>3 DEF t
<1> QED BY <1>1, <1>3, <1>7

LEMMA ObtainTakes ==
  ASSUME TypeInv, NEW c \in Consumers, Obtain(c)
  PROVE  Contents # <<>> /\ Contents' = Tail(Contents)
<1>1. size \in Nat \ {0} /\ size' = size - 1
  BY ServerAssumption DEF Obtain, TypeInv, TypeOK, PoolType
<1>2. \A k \in 0 .. size' - 1 : Slot(k)' = Slot(k + 1)
  BY ObtainRing DEF TypeInv, TypeOK
<1>3. Contents \in Seq(Items) /\ Len(Contents) = size
  BY ContentsSeq
<1>4. Contents' = [k \in 1 .. size - 1 |-> Slot(k - 1)']
  BY <1>1 DEF Contents
<1>5. \A k \in 1 .. size - 1 : Slot(k - 1)' = Contents[k + 1]
  <2>1. ASSUME NEW k \in 1 .. size - 1 PROVE Slot(k - 1)' = Contents[k + 1]
    <3>1. k - 1 \in 0 .. size' - 1 /\ (k - 1) + 1 = k /\ k + 1 \in 1 .. size /\ (k + 1) - 1 = k
      BY <1>1
    <3>2. Slot(k - 1)' = Slot(k)
      BY <1>2, <3>1
    <3> QED BY <3>1, <3>2 DEF Contents
  <2> QED BY <2>1
<1>6. Contents # <<>>
  BY <1>1, <1>3
<1>7. Contents' \in Seq(Items) /\ Len(Contents') = size - 1
  <2>1. Contents' \in [1 .. size - 1 -> Items]
    BY <1>1, <1>3, <1>4, <1>5
  <2> QED BY <1>1, <2>1
<1>8. Contents' = Tail(Contents)
  <2> DEFINE t == Tail(Contents)
  <2>1. t \in Seq(Items) /\ Len(t) = size - 1 /\ \A i \in 1 .. size - 1 : t[i] = Contents[i + 1]
    BY <1>1, <1>3, <1>6, HeadTailProperties
  <2>2. \A i \in 1 .. size - 1 : Contents'[i] = t[i]
    BY <1>4, <1>5, <2>1
  <2> HIDE DEF t
  <2>3. Contents' = t
    BY <1>7, <2>1, <2>2, SeqEqual
  <2> QED BY <2>3 DEF t
<1> QED BY <1>6, <1>8

(* The ring with its wrapping indices is a bounded first-in first-out queue. *)
THEOREM RingIsQueue == Spec => QueueSpec
<1>1. Init => Queue!Init
  BY DEF Init, Queue!Init
<1>2. TypeInv /\ [Next]_vars => [Queue!Next]_Contents
  <2> SUFFICES ASSUME TypeInv, [Next]_vars PROVE [Queue!Next]_Contents
    OBVIOUS
  <2>1. CASE Place
    BY <2>1, PlacePuts DEF Queue!Next, Queue!Put, Contents
  <2>2. ASSUME NEW c \in Consumers, Obtain(c) PROVE Queue!Next
    BY <2>2, ObtainTakes DEF Queue!Next, Queue!Take, Contents
  <2>3. CASE UNCHANGED poolVars
    BY <2>3 DEF poolVars, Contents, Slot
  <2>4. UNCHANGED poolVars \/ Place \/ \E c \in Consumers : Obtain(c)
    BY DEF Next, MainStep, ConsumerStep, Environment, Rest, vars,
       Spawn, Poll, Accept, WaitNonfull, SignalClient, SignalPill, AcceptCmd, ReadShutdown,
       ReadStats, ReadOther, ReadDisconnect, StatsPages, StatsBytes, ReplyCmd, MainDies, Join,
       WaitNonempty, SignalNonfull, ReadRequest, ClientGone, Send, SendShort,
       ConsumerDies, CountPage, CountBytes, Close, Connect, ConnectCmd, SpuriousWakeup
  <2> QED BY <2>1, <2>2, <2>3, <2>4
<1>3. Spec => []TypeInv
  BY InitTypeInv, StepTypeInv, PTL DEF Spec
<1> QED BY <1>1, <1>2, <1>3, PTL DEF Spec, QueueSpec, Queue!Spec, Contents
-----------------------------------------------------------------------------
(***************************************************************************)
(* The server's threads implement ServerContract, and the statistics tell  *)
(* what the clients were given.                                            *)
(***************************************************************************)

(* A client that has its answer is closed, or held by a consumer that is past the send. *)
Sent(k) == \E c \in Consumers : sock[c] = k /\ pc[c] \in {"count", "count_bytes", "close"}
GotInv  == \A k \in Clients : got[k] # None => conn[k] = "closed" \/ Sent(k)

SendInv == IInv /\ GotInv

LEMMA InitSendInv == Init => SendInv
<1> SUFFICES ASSUME Init PROVE SendInv  OBVIOUS
<1>1. GotInv  BY DEF Init, GotInv
<1> QED  BY <1>1, InitIInv DEF SendInv

(* a consumer that sends serves an accepted client that has no answer yet *)
LEMMA SendsOnce ==
  ASSUME SendInv, NEW c \in Consumers, Alive, pc[c] \in {"send", "close"}
  PROVE  /\ sock[c] \in Clients /\ conn[sock[c]] = "accepted"
         /\ pc[c] = "send" => got[sock[c]] = None /\ answer[c] \in Answers
<1> DEFINE k == sock[c]
<1>1. k \in Clients /\ mainpc # "dead" /\ (pc[c] = "send" => answer[c] \in Answers)
  BY DEF SendInv, IInv, TypeInv, ConsOK, Alive
<1>2. InCons(k)  BY DEF InCons
<1>3. conn[k] = "accepted"  BY <1>1, <1>2 DEF SendInv, IInv, OwnInv
<1>4. pc[c] = "send" => ~Sent(k)  BY <1>1 DEF Sent, SendInv, IInv, OwnInv
<1> QED  BY <1>1, <1>3, <1>4 DEF SendInv, GotInv

(* Steps that neither answer nor close, and leave a consumer past the send where it is. *)
LEMMA GotKept ==
  ASSUME GotInv, UNCHANGED got,
         \A k \in Clients : conn[k] = "closed" => conn'[k] = "closed",
         \A c \in Consumers : pc[c] \in {"count", "count_bytes", "close"} =>
              sock'[c] = sock[c] /\ pc'[c] \in {"count", "count_bytes", "close"}
  PROVE  GotInv'
<1>1. \A k \in Clients : Sent(k) => Sent(k)'  BY DEF Sent
<1> QED  BY <1>1 DEF GotInv

LEMMA StepGotInv == SendInv /\ [Next]_vars => GotInv'
<1> SUFFICES ASSUME SendInv, [Next]_vars PROVE GotInv'  OBVIOUS
<1>0. GotInv /\ TypeInv  BY DEF SendInv, IInv
<1>1. CASE UNCHANGED vars \/ Rest
  <2>1. UNCHANGED <<got, conn, sock, pc>>  BY <1>1 DEF Rest, vars, consVars, peerVars
  <2> QED  BY <2>1, <1>0, GotKept
<1>2. CASE MainStep \/ SpuriousWakeup
  <2>1. UNCHANGED <<got, sock>>
    BY <1>2 DEF MainStep, SpuriousWakeup, consVars, peerVars,
       Spawn, Poll, Accept, Place, WaitNonfull, SignalClient, SignalPill, AcceptCmd, ReadShutdown,
       ReadStats, ReadOther, ReadDisconnect, StatsPages, StatsBytes, ReplyCmd, MainDies, Join
  <2>2. \A k \in Clients : conn[k] = "closed" => conn'[k] = "closed"
    <3>1. CASE Accept  BY <3>1, <1>0 DEF Accept, TypeInv, TypeOK, PeerType
    <3>2. CASE ~Accept
      BY <3>2, <1>2 DEF MainStep, SpuriousWakeup, consVars, peerVars,
         Spawn, Poll, Place, WaitNonfull, SignalClient, SignalPill, AcceptCmd, ReadShutdown,
         ReadStats, ReadOther, ReadDisconnect, StatsPages, StatsBytes, ReplyCmd, MainDies, Join
    <3> QED  BY <3>1, <3>2
  <2>3. UNCHANGED pc \/ \E c \in Waiting : pc' = [pc EXCEPT ![c] = "obtain"]
    BY <1>2 DEF MainStep, SpuriousWakeup, consVars, peerVars, SignalWaiting,
       Spawn, Poll, Accept, Place, WaitNonfull, SignalClient, SignalPill, AcceptCmd, ReadShutdown,
       ReadStats, ReadOther, ReadDisconnect, StatsPages, StatsBytes, ReplyCmd, MainDies, Join
  <2>4. \A c \in Consumers : pc[c] \in {"count", "count_bytes", "close"} => pc'[c] = pc[c]
    BY <2>3, <1>0 DEF Waiting, TypeInv, TypeOK, ConsType
  <2> QED  BY <2>1, <2>2, <2>4, <1>0, GotKept
<1>3. CASE (\E k \in Clients : Connect(k)) \/ \E k \in Cmds : ConnectCmd(k)
  <2>1. UNCHANGED <<got, sock, pc>>  BY <1>3 DEF Connect, ConnectCmd, consVars
  <2>2. \A k \in Clients : conn[k] = "closed" => conn'[k] = "closed"
    BY <1>3, <1>0 DEF Connect, ConnectCmd, TypeInv, TypeOK, PeerType
  <2> QED  BY <2>1, <2>2, <1>0, GotKept
<1>4. ASSUME NEW c \in Consumers, ConsumerStep(c) PROVE GotInv'
  <2>0. /\ pc \in [Consumers -> {"obtain", "nonempty", "signal", "read", "send", "count",
                                 "count_bytes", "close", "exited"}]
        /\ sock \in [Consumers -> Items \union {None}]
        /\ conn \in [Clients -> {"away", "backlog", "accepted", "closed"}]
        /\ got \in [Clients -> Answers \union {None}]
    BY <1>0 DEF TypeInv, TypeOK, ConsType, PeerType
  <2>1. CASE Send(c)
    <3>1. sock[c] \in Clients  BY <2>1, SendsOnce DEF Send
    <3>2. UNCHANGED <<sock, conn>> /\ pc' = [pc EXCEPT ![c] = "count"]
          /\ got' = [got EXCEPT ![sock[c]] = answer[c]]
      BY <2>1 DEF Send
    <3>3. \A k \in Clients : Sent(k) => Sent(k)'  BY <3>2, <2>0 DEF Sent
    <3>4. Sent(sock[c])'  BY <3>2, <2>0 DEF Sent
    <3> QED  BY <3>1, <3>2, <3>3, <3>4, <2>0, <1>0 DEF GotInv
  <2>2. CASE Close(c)
    <3>1. sock[c] \in Clients  BY <2>2, SendsOnce DEF Close
    <3>2. UNCHANGED got /\ sock' = [sock EXCEPT ![c] = None] /\ pc' = [pc EXCEPT ![c] = "obtain"]
          /\ conn' = [conn EXCEPT ![sock[c]] = "closed"]
      BY <2>2 DEF Close
    <3>3. \A k \in Clients : Sent(k) => k = sock[c] \/ Sent(k)'  BY <3>2, <2>0 DEF Sent
    <3> QED  BY <3>1, <3>2, <3>3, <2>0, <1>0 DEF GotInv
  <2>3. CASE CountPage(c) \/ CountBytes(c)
    <3>1. UNCHANGED <<got, sock, conn>> /\ \E s \in {"count_bytes", "close"} : pc' = [pc EXCEPT ![c] = s]
      BY <2>3 DEF CountPage, CountBytes, peerVars
    <3> QED  BY <3>1, <2>0, <1>0, GotKept
  <2>4. CASE \/ Obtain(c) \/ WaitNonempty(c) \/ SignalNonfull(c) \/ ReadRequest(c) \/ ClientGone(c)
             \/ SendShort(c)
    <3>1. UNCHANGED <<got, conn>> /\ pc[c] \in {"obtain", "signal", "read", "send"}
      BY <2>4 DEF Obtain, WaitNonempty, SignalNonfull, ReadRequest, ClientGone, SendShort, peerVars
    <3>2. \A d \in Consumers \ {c} : pc'[d] = pc[d] /\ sock'[d] = sock[d]
      BY <2>4, <2>0 DEF Obtain, WaitNonempty, SignalNonfull, ReadRequest, ClientGone, SendShort
    <3>3. \A d \in Consumers : pc[d] \in {"count", "count_bytes", "close"} => d # c  BY <3>1
    <3> QED  BY <3>1, <3>2, <3>3, <1>0, GotKept
  <2>5. CASE ConsumerDies(c)
    <3>1. UNCHANGED <<got, conn, sock, pc>>  BY <2>5 DEF ConsumerDies, consVars, peerVars
    <3> QED  BY <3>1, <1>0, GotKept
  <2> QED  BY <1>4, <2>1, <2>2, <2>3, <2>4, <2>5 DEF ConsumerStep
<1> QED  BY <1>1, <1>2, <1>3, <1>4 DEF Next, Environment

LEMMA StepSendInv == SendInv /\ [Next]_vars => SendInv'
BY StepGotInv, StepIInv DEF SendInv
-----------------------------------------------------------------------------
(* Where main is decides the phase of the contract. *)
LEMMA PhaseUp == /\ Alive => phase \in {"running", "stopping"}
                 /\ mainpc' = "dead" => phase' = "dead"
BY DEF phase, Alive

(* Steps of main that no client sees. *)
LEMMA SamePhase ==
  ASSUME SendInv, UNCHANGED <<conn, got>>,
         mainpc \notin {"stopped", "dead"}, mainpc' \notin {"stopped", "dead"},
         mainpc = "join" \/ client_sock = Poison <=> mainpc' = "join" \/ client_sock' = Poison
  PROVE  UNCHANGED Contract!vars
<1>1. phase' = phase  BY DEF phase, Alive
<1> QED  BY <1>1 DEF Contract!vars

LEMMA MainRefines == SendInv /\ MainStep => [Contract!Next]_(Contract!vars)
<1> SUFFICES ASSUME SendInv, MainStep PROVE [Contract!Next]_(Contract!vars)  OBVIOUS
<1>0. MainOK /\ TypeOK /\ None # Poison /\ Poison \notin Clients
  BY ServerAssumption DEF SendInv, IInv, TypeInv
<1>1. CASE Accept
  <2>1. client_sock # Poison /\ mainpc = "accept"  BY <1>0, <1>1 DEF MainOK, Accept
  <2>2. client_sock' # Poison /\ mainpc' = "place"  BY <1>0, <1>1 DEF Accept
  <2>3. phase = "running" /\ phase' = "running"  BY <2>1, <2>2 DEF phase, Alive
  <2> QED  BY <1>1, <2>3 DEF Accept, Contract!Next, Contract!Accept
<1>2. CASE ReadShutdown
  <2>1. client_sock # Poison /\ mainpc = "read_cmd"  BY <1>0, <1>2 DEF MainOK, ReadShutdown
  <2>2. client_sock' = Poison /\ mainpc' = "place"  BY <1>2 DEF ReadShutdown
  <2>3. phase = "running" /\ phase' = "stopping"  BY <2>1, <2>2 DEF phase, Alive
  <2> QED  BY <1>2, <2>3 DEF ReadShutdown, peerVars, Contract!Next, Contract!Shutdown
<1>3. CASE MainDies
  <2>1. phase \in {"running", "stopping"} /\ phase' = "dead"
    BY <1>3, PhaseUp DEF MainDies, Alive
  <2> QED  BY <1>3, <2>1 DEF MainDies, peerVars, Contract!Next, Contract!Die, Contract!Up
<1>4. CASE Join
  <2>1. phase = "stopping" /\ phase' = "stopped"  BY <1>4 DEF Join, phase, Alive
  <2>2. \A k \in Clients : conn[k] # "accepted"
    <3> SUFFICES ASSUME NEW k \in Clients, conn[k] = "accepted" PROVE FALSE  OBVIOUS
    <3>1. mainpc = "join" /\ \A c \in Consumers : sock[c] = Poison
      BY <1>4 DEF Join, SendInv, IInv, TypeInv, ConsOK
    <3>2. InRing(k)  BY <3>1, <1>0 DEF SendInv, IInv, OwnInv, InMain, InCons
    <3> QED  BY <3>1, <3>2, <1>0, ServerAssumption DEF InRing, SendInv, IInv, DrainInv
  <2> QED  BY <1>4, <2>1, <2>2 DEF Join, peerVars, Contract!Next, Contract!Stop
<1>5. CASE SignalClient \/ SignalPill
  BY <1>0, <1>5, SamePhase DEF SignalClient, SignalPill, MainOK, peerVars
<1>6. CASE Spawn \/ Poll \/ Place \/ WaitNonfull \/ AcceptCmd \/ ReadStats \/ ReadOther
           \/ ReadDisconnect \/ StatsPages \/ StatsBytes \/ ReplyCmd
  <2>1. /\ UNCHANGED <<conn, got, client_sock>>
        /\ mainpc \notin {"join", "stopped", "dead"} /\ mainpc' \notin {"join", "stopped", "dead"}
    BY <1>6 DEF Spawn, Poll, Place, WaitNonfull, AcceptCmd, ReadStats, ReadOther,
       ReadDisconnect, StatsPages, StatsBytes, ReplyCmd, peerVars
  <2> QED  BY <2>1, SamePhase
<1> QED  BY <1>1, <1>2, <1>3, <1>4, <1>5, <1>6 DEF MainStep

LEMMA ConsumerRefines ==
  ASSUME SendInv, NEW c \in Consumers, ConsumerStep(c)
  PROVE  [Contract!Next]_(Contract!vars)
<1>0. Alive  BY DEF ConsumerStep, Obtain, WaitNonempty, SignalNonfull, ReadRequest, ClientGone,
                    Send, SendShort, ConsumerDies, CountPage, CountBytes, Close
<1>1. CASE Send(c)
  <2>1. phase' = phase  BY <1>1 DEF Send, mainVars, phase, Alive
  <2>2. sock[c] \in Clients /\ conn[sock[c]] = "accepted" /\ got[sock[c]] = None /\ answer[c] \in Answers
    BY <1>0, <1>1, SendsOnce DEF Send
  <2>3. Contract!Answer(sock[c])
    BY <1>0, <1>1, <2>1, <2>2, PhaseUp DEF Send, Contract!Answer, Contract!Up
  <2> QED  BY <2>2, <2>3 DEF Contract!Next
<1>2. CASE Close(c)
  <2>1. phase' = phase  BY <1>2 DEF Close, mainVars, phase, Alive
  <2>2. sock[c] \in Clients /\ conn[sock[c]] = "accepted"
    BY <1>0, <1>2, SendsOnce DEF Close
  <2>3. Contract!Close(sock[c])
    BY <1>0, <1>2, <2>1, <2>2, PhaseUp DEF Close, Contract!Close, Contract!Up
  <2> QED  BY <2>2, <2>3 DEF Contract!Next
<1>3. CASE ConsumerDies(c)
  <2>1. phase' = "dead"  BY <1>3, PhaseUp DEF ConsumerDies
  <2> QED  BY <1>0, <1>3, <2>1, PhaseUp
           DEF ConsumerDies, peerVars, Contract!Next, Contract!Die, Contract!Up
<1>4. CASE \/ Obtain(c) \/ WaitNonempty(c) \/ SignalNonfull(c) \/ ReadRequest(c) \/ ClientGone(c)
           \/ SendShort(c) \/ CountPage(c) \/ CountBytes(c)
  <2>1. UNCHANGED <<conn, got, client_sock>>
        /\ (mainpc' = mainpc \/ (mainpc = "nonfull" /\ mainpc' = "place"))
    BY <1>4 DEF Obtain, WaitNonempty, SignalNonfull, ReadRequest, ClientGone, SendShort,
       CountPage, CountBytes, peerVars, mainVars
  <2> QED  BY <1>0, <2>1, SamePhase DEF Alive
<1> QED  BY <1>1, <1>2, <1>3, <1>4 DEF ConsumerStep

LEMMA StepRefines == SendInv /\ [Next]_vars => [Contract!Next]_(Contract!vars)
<1> SUFFICES ASSUME SendInv, [Next]_vars PROVE [Contract!Next]_(Contract!vars)  OBVIOUS
<1>1. CASE MainStep  BY <1>1, MainRefines
<1>2. ASSUME NEW c \in Consumers, ConsumerStep(c) PROVE [Contract!Next]_(Contract!vars)
  BY <1>2, ConsumerRefines
<1>3. ASSUME NEW k \in Clients, Connect(k) PROVE [Contract!Next]_(Contract!vars)
  <2>1. phase' = phase  BY <1>3 DEF Connect, mainVars, phase, Alive
  <2> QED  BY <1>3, <2>1, PhaseUp DEF Connect, Contract!Next, Contract!Connect, Contract!Up
<1>4. CASE (\E k \in Cmds : ConnectCmd(k)) \/ SpuriousWakeup
  <2>1. /\ UNCHANGED <<conn, got, client_sock>> /\ Alive
        /\ (mainpc' = mainpc \/ (mainpc = "nonfull" /\ mainpc' = "place"))
    BY <1>4 DEF ConnectCmd, SpuriousWakeup, mainVars, peerVars
  <2> QED  BY <2>1, SamePhase DEF Alive
<1>5. CASE UNCHANGED vars \/ Rest
  <2>1. UNCHANGED <<conn, got, client_sock, mainpc>>  BY <1>5 DEF Rest, vars, mainVars, peerVars
  <2>2. phase' = phase  BY <2>1 DEF phase, Alive
  <2> QED  BY <2>1, <2>2 DEF Contract!vars
<1> QED  BY <1>1, <1>2, <1>3, <1>4, <1>5 DEF Next, Environment

(***************************************************************************)
(* The threads of the server keep the promises of ServerContract: each     *)
(* connection is answered at most once, by the thread that obtained it and *)
(* before it is closed, and main joins the pool only when nobody accepted  *)
(* is left open.                                                           *)
(***************************************************************************)
THEOREM ServerRefinesContract == Spec => ServerImplementsContract
<1>1. Init => Contract!Init
  BY ServerAssumption DEF Init, Contract!Init, phase, Alive
<1>2. Spec => []SendInv
  BY InitSendInv, StepSendInv, PTL DEF Spec
<1> QED  BY <1>1, <1>2, StepRefines, PTL DEF Spec, ServerImplementsContract, Contract!Spec
-----------------------------------------------------------------------------
(***************************************************************************)
(* The counters of the statistics.                                         *)
(***************************************************************************)
(* clients whose page a thread has counted, and whose bytes it has not *)
Half == {sock[c] : c \in {x \in Consumers : pc[x] = "count_bytes"}}

(* mtx2 is held by the thread between its two additions, or by main between its two readings *)
LockInv ==
  /\ \A c \in Consumers : pc[c] = "count_bytes" <=> mtx2 = c
  /\ mainpc = "stats_bytes" => mtx2 = Main /\ stats.pages = pages_served

(* a thread counts the answer it has sent *)
AnsweredInv == \A c \in Consumers : pc[c] \in {"count", "count_bytes"} => got[sock[c]] = answer[c]

(* each counter, also while a thread is between the two of them *)
SumInv ==
  /\ IsFiniteSet(Delivered)
  /\ pages_served = Cardinality(Delivered \ Uncounted) % UINT_RANGE
  /\ total_bytes_sent = Bytes(Delivered \ (Uncounted \union Half)) % UINT_RANGE

(* stats tells of one set of delivered pages, except while main reads it *)
Tells(S) == stats.pages = Cardinality(S) % UINT_RANGE /\ stats.bytes = Bytes(S) % UINT_RANGE
TellInv  == mainpc \notin {"stats_bytes", "dead"} => \E S \in SUBSET Delivered : Tells(S)

StatsInv == LockInv /\ AnsweredInv /\ SumInv /\ TellInv
CountInv == SendInv /\ StatsInv

ClientLength == [k \in Clients |-> Length[got[k]]]

LEMMA BytesAreCopies ==
  ASSUME NEW S, S \subseteq Clients
  PROVE  Bytes(S) = Cardinality(Copies(S, ClientLength))
<1>1. \A k \in S : ClientLength[k] = Length[got[k]]
  BY DEF ClientLength
<1> QED BY <1>1 DEF Bytes, Copies

(* One more page delivered adds its length. *)
LEMMA BytesOfOneMore ==
  ASSUME SumInv, NEW S, S \subseteq Delivered, NEW k \in Delivered, k \notin S
  PROVE  Bytes(S) \in Nat /\ Length[got[k]] \in Nat /\ Bytes(S \union {k}) = Bytes(S) + Length[got[k]]
<1>1. IsFiniteSet(S) /\ S \subseteq Clients /\ S \union {k} \subseteq Clients
  BY FS_Subset DEF SumInv, Delivered
<1>2. \A x \in S \union {k} : ClientLength[x] \in Nat
  BY ServerAssumption DEF ClientLength, Delivered
<1>3. ClientLength[k] = Length[got[k]] /\ Length[got[k]] \in Nat
  BY ServerAssumption DEF ClientLength, Delivered
<1>4. /\ Cardinality(Copies(S, ClientLength)) \in Nat
      /\ Cardinality(Copies(S \union {k}, ClientLength)) = Cardinality(Copies(S, ClientLength)) + ClientLength[k]
  <2> DEFINE f == ClientLength
  <2>1. \A x \in S \union {k} : f[x] \in Nat  BY <1>2
  <2> HIDE DEF f
  <2>2. Cardinality(Copies(S, f)) \in Nat /\ Cardinality(Copies(S \union {k}, f)) = Cardinality(Copies(S, f)) + f[k]
    BY <1>1, <2>1, CopiesOfOneMore
  <2> QED BY <2>2 DEF f
<1> QED BY <1>1, <1>3, <1>4, BytesAreCopies

LEMMA BytesKept ==
  ASSUME NEW S, \A k \in S : got'[k] = got[k]
  PROVE  Bytes(S)' = Bytes(S)
BY DEF Bytes

(* A counter that wraps holds the remainder of what it has counted. *)
LEMMA CounterAdds ==
  ASSUME NEW n \in Nat, NEW m \in Nat
  PROVE  ((n % UINT_RANGE) + m) % UINT_RANGE = (n + m) % UINT_RANGE
<1>1. UINT_RANGE \in Nat /\ UINT_RANGE > 0  BY ServerAssumption
<1> QED BY <1>1, Wrapping, Zenon

LEMMA InitCountInv == Init => CountInv
<1> SUFFICES ASSUME Init PROVE CountInv  OBVIOUS
<1> USE ServerAssumption
<1>1. Delivered = {}  BY DEF Init, Delivered
<1>2. Bytes({}) = 0 /\ Cardinality({}) = 0  BY FS_EmptySet DEF Bytes
<1>3. 0 % UINT_RANGE = 0  OBVIOUS
<1>4. SumInv
  <2>1. pages_served = 0 /\ total_bytes_sent = 0  BY DEF Init
  <2>2. Delivered \ Uncounted = {} /\ Delivered \ (Uncounted \union Half) = {}  BY <1>1
  <2> QED BY <1>1, <1>2, <1>3, <2>1, <2>2, FS_EmptySet DEF SumInv
<1>5. TellInv
  <2>1. Tells({})  BY <1>2, <1>3 DEF Init, NoStats, Tells
  <2> QED BY <2>1 DEF TellInv
<1>6. LockInv /\ AnsweredInv  BY DEF Init, LockInv, AnsweredInv
<1> QED BY <1>4, <1>5, <1>6, InitSendInv DEF CountInv, StatsInv

(* what a thread that counts knows *)
LEMMA Counting ==
  ASSUME CountInv, Alive, NEW c \in Consumers, pc[c] \in {"count", "count_bytes"}
  PROVE  /\ sock[c] \in Clients /\ got[sock[c]] = answer[c] /\ answer[c] \in Answers
         /\ sock[c] \in Delivered <=> answer[c] \in Pages
         /\ \A d \in Consumers : sock[d] = sock[c] => d = c
<1>1. sock[c] \in Clients /\ got[sock[c]] = answer[c] /\ answer[c] \in Answers
  BY DEF CountInv, StatsInv, AnsweredInv, SendInv, IInv, TypeInv, ConsOK
<1>2. mainpc # "dead"  BY DEF Alive
<1> QED BY <1>1, <1>2 DEF Delivered, CountInv, SendInv, IInv, OwnInv

(* A step that answers and counts nothing. *)
Idle ==
  /\ UNCHANGED <<got, statVars, stats>>
  /\ \A c \in Consumers :
       pc[c] \in {"count", "count_bytes"} \/ pc'[c] \in {"count", "count_bytes"} =>
         pc'[c] = pc[c] /\ sock'[c] = sock[c] /\ answer'[c] = answer[c]
  /\ mainpc' = "dead" \/ mainpc' = mainpc \/ {mainpc, mainpc'} \intersect {"stats_bytes", "dead"} = {}

LEMMA SetsKept ==
  ASSUME \A c \in Consumers :
           pc[c] \in {"count", "count_bytes"} \/ pc'[c] \in {"count", "count_bytes"} =>
             pc'[c] = pc[c] /\ sock'[c] = sock[c]
  PROVE  Uncounted' = Uncounted /\ Half' = Half
<1>1. {x \in Consumers : pc'[x] = "count"} = {x \in Consumers : pc[x] = "count"}  OBVIOUS
<1>2. {x \in Consumers : pc'[x] = "count_bytes"} = {x \in Consumers : pc[x] = "count_bytes"}  OBVIOUS
<1> QED BY <1>1, <1>2 DEF Uncounted, Half

LEMMA IdleKeeps == ASSUME StatsInv, Idle PROVE StatsInv'
<1>1. Uncounted' = Uncounted /\ Half' = Half  BY SetsKept DEF Idle
<1>2. Delivered' = Delivered /\ \A S : Bytes(S)' = Bytes(S)  BY DEF Idle, Delivered, Bytes
<1>3. SumInv'  BY <1>1, <1>2 DEF Idle, statVars, StatsInv, SumInv
<1>4. LockInv' /\ AnsweredInv'  BY DEF Idle, statVars, StatsInv, LockInv, AnsweredInv
<1>5. TellInv'
  <2> SUFFICES ASSUME mainpc' \notin {"stats_bytes", "dead"} PROVE \E S \in SUBSET Delivered' : Tells(S)'
    BY DEF TellInv
  <2>1. PICK S \in SUBSET Delivered : Tells(S)  BY DEF Idle, StatsInv, TellInv
  <2>2. Tells(S)'  BY <1>2, <2>1 DEF Idle, Tells
  <2> QED BY <1>2, <2>1, <2>2
<1> QED BY <1>3, <1>4, <1>5 DEF StatsInv

LEMMA ConsTypes ==
  CountInv => /\ pc \in [Consumers -> {"obtain", "nonempty", "signal", "read", "send", "count",
                                       "count_bytes", "close", "exited"}]
              /\ sock \in [Consumers -> Items \union {None}]
              /\ answer \in [Consumers -> Answers \union {None}]
              /\ got \in [Clients -> Answers \union {None}]
              /\ mtx2 \in Consumers \union {Main, None}
BY DEF CountInv, SendInv, IInv, TypeInv, TypeOK, ConsType, PeerType, StatType

LEMMA NobodyHalf == ASSUME CountInv, mtx2 \notin Consumers PROVE Half = {}
BY DEF CountInv, StatsInv, LockInv, Half

LEMMA SendStats == ASSUME CountInv, NEW c \in Consumers, Send(c) PROVE StatsInv'
<1> DEFINE k == sock[c]
<1> USE ServerAssumption
<1>1. /\ k \in Clients /\ got[k] = None /\ answer[c] \in Answers
      /\ pc[c] = "send" /\ pc' = [pc EXCEPT ![c] = "count"]
      /\ got' = [got EXCEPT ![k] = answer[c]]
      /\ UNCHANGED <<sock, answer, mainpc, stats, mtx2, pages_served, total_bytes_sent>>
  BY SendsOnce DEF Send, CountInv, statVars, mainVars
<1>2. k \notin Delivered /\ Delivered' = Delivered \union {x \in {k} : answer[c] \in Pages}
  BY <1>1, ConsTypes DEF Delivered
<1>3. \A S \in SUBSET Delivered : Bytes(S)' = Bytes(S)
  BY <1>1, <1>2, ConsTypes, BytesKept DEF Delivered
<1>4. Uncounted' = Uncounted \union {k} /\ Half' = Half
  <2>1. {x \in Consumers : pc'[x] = "count"} = {x \in Consumers : pc[x] = "count"} \union {c}
    BY <1>1, ConsTypes
  <2>2. {x \in Consumers : pc'[x] = "count_bytes"} = {x \in Consumers : pc[x] = "count_bytes"}
    BY <1>1, ConsTypes
  <2> QED BY <1>1, <2>1, <2>2 DEF Uncounted, Half
<1>5. SumInv'
  <2> DEFINE counted == Delivered \ Uncounted
             full == Delivered \ (Uncounted \union Half)
  <2>1. Delivered' \ Uncounted' = counted /\ Delivered' \ (Uncounted' \union Half') = full
    BY <1>2, <1>4
  <2>2. IsFiniteSet(Delivered')
    <3>1. IsFiniteSet(Delivered) /\ IsFiniteSet(Delivered \union {k})
      BY FS_AddElement DEF CountInv, StatsInv, SumInv
    <3> QED BY <1>2, <3>1, FS_Subset
  <2>3. pages_served = Cardinality(counted) % UINT_RANGE /\ total_bytes_sent = Bytes(full) % UINT_RANGE
    BY DEF CountInv, StatsInv, SumInv
  <2>4. PICK S : S = full
    OBVIOUS
  <2>5. Bytes(S)' = Bytes(S)
    BY <1>3, <2>4
  <2>6. total_bytes_sent' = Bytes(Delivered \ (Uncounted \union Half))' % UINT_RANGE
    <3>1. total_bytes_sent' = Bytes(S)' % UINT_RANGE
      BY <1>1, <2>3, <2>4, <2>5
    <3>2. Delivered' \ (Uncounted' \union Half') = S
      BY <2>1, <2>4
    <3> QED BY <3>1, <3>2 DEF Bytes
  <2>7. pages_served' = Cardinality(Delivered' \ Uncounted') % UINT_RANGE
    BY <1>1, <2>1, <2>3
  <2> QED BY <2>2, <2>6, <2>7 DEF SumInv
<1>6. LockInv'
  BY <1>1, ConsTypes DEF CountInv, StatsInv, LockInv
<1>7. AnsweredInv'
  <2>1. ASSUME NEW d \in Consumers, d # c, pc'[d] \in {"count", "count_bytes"} PROVE got'[sock'[d]] = answer'[d]
    <3>1. pc[d] \in {"count", "count_bytes"} /\ got[sock[d]] = answer[d] /\ answer[d] \in Answers
      BY <1>1, <2>1, ConsTypes DEF CountInv, StatsInv, AnsweredInv, SendInv, IInv, TypeInv, ConsOK
    <3>2. sock[d] # k  BY <1>1, <3>1 DEF Answers
    <3> QED BY <1>1, <3>1, <3>2, ConsTypes
  <2>2. got'[sock'[c]] = answer'[c]  BY <1>1, ConsTypes
  <2> QED BY <2>1, <2>2 DEF AnsweredInv
<1>8. TellInv'
  <2> SUFFICES ASSUME mainpc' \notin {"stats_bytes", "dead"} PROVE \E S \in SUBSET Delivered' : Tells(S)'
    BY DEF TellInv
  <2>1. PICK S \in SUBSET Delivered : Tells(S)  BY <1>1 DEF CountInv, StatsInv, TellInv
  <2>2. Tells(S)'  BY <1>1, <1>3, <2>1 DEF Tells
  <2> QED BY <1>2, <2>2
<1> QED BY <1>5, <1>6, <1>7, <1>8 DEF StatsInv

LEMMA CountPageStats == ASSUME CountInv, NEW c \in Consumers, CountPage(c) PROVE StatsInv'
<1> DEFINE k == sock[c]
           one == IF answer[c] \in Pages THEN 1 ELSE 0
           old == Delivered \ Uncounted
           new == Delivered \ (Uncounted \ {k})
<1> USE ServerAssumption
<1>1. /\ Alive /\ pc[c] = "count" /\ pc' = [pc EXCEPT ![c] = "count_bytes"]
      /\ mtx2 = None /\ mtx2' = c /\ pages_served' = (pages_served + one) % UINT_RANGE
      /\ UNCHANGED <<sock, answer, got, mainpc, stats, total_bytes_sent>>
  BY DEF CountPage, mainVars, peerVars
<1>2. /\ k \in Clients /\ got[k] = answer[c] /\ (k \in Delivered <=> answer[c] \in Pages)
      /\ \A d \in Consumers : sock[d] = k => d = c
  BY <1>1, Counting
<1>3. Delivered' = Delivered /\ \A S : Bytes(S)' = Bytes(S)
  BY <1>1 DEF Delivered, Bytes
<1>4. Half = {} /\ Half' = {k} /\ Uncounted' = Uncounted \ {k} /\ k \in Uncounted
  <2>1. Half = {}  BY <1>1, NobodyHalf
  <2>2. {x \in Consumers : pc'[x] = "count"} = {x \in Consumers : pc[x] = "count"} \ {c}
    BY <1>1, ConsTypes
  <2>3. {x \in Consumers : pc[x] = "count_bytes"} = {}
    BY <1>1 DEF CountInv, StatsInv, LockInv
  <2>4. {x \in Consumers : pc'[x] = "count_bytes"} = {c}
    BY <1>1, <2>3, ConsTypes
  <2> QED BY <1>1, <1>2, <2>1, <2>2, <2>4 DEF Uncounted, Half
<1>5. SumInv'
  <2>1. IsFiniteSet(Delivered) /\ IsFiniteSet(old) /\ pages_served = Cardinality(old) % UINT_RANGE
        /\ total_bytes_sent = Bytes(old) % UINT_RANGE
    BY <1>4, FS_Difference DEF CountInv, StatsInv, SumInv
  <2>2. Cardinality(new) = Cardinality(old) + one /\ Cardinality(old) \in Nat /\ one \in Nat
    <3>1. CASE answer[c] \in Pages
      <4>1. new = old \union {k} /\ k \notin old /\ one = 1  BY <1>2, <1>4, <3>1
      <4> HIDE DEF old, new, one, k
      <4> QED BY <4>1, <2>1, FS_AddElement, FS_CardinalityType
    <3>2. CASE answer[c] \notin Pages
      <4>1. new = old /\ one = 0  BY <1>2, <1>4, <3>2
      <4> HIDE DEF old, new, one, k
      <4> QED BY <4>1, <2>1, FS_CardinalityType
    <3> QED BY <3>1, <3>2
  <2>3. pages_served' = Cardinality(new) % UINT_RANGE
    <3> DEFINE n == Cardinality(old)
    <3>1. n \in Nat /\ one \in Nat /\ Cardinality(new) = n + one  BY <2>2
    <3>2. pages_served' = ((n % UINT_RANGE) + one) % UINT_RANGE  BY <1>1, <2>1
    <3> HIDE DEF old, new, one, n
    <3>3. ((n % UINT_RANGE) + one) % UINT_RANGE = (n + one) % UINT_RANGE  BY <3>1, CounterAdds
    <3> QED BY <3>1, <3>2, <3>3
  <2>4. Delivered' \ Uncounted' = new /\ Delivered' \ (Uncounted' \union Half') = old
    BY <1>3, <1>4
  <2> HIDE DEF old, new
  <2> QED BY <1>1, <1>3, <2>1, <2>3, <2>4 DEF SumInv
<1>6. LockInv'
  BY <1>1, ConsTypes DEF CountInv, StatsInv, LockInv
<1>7. AnsweredInv'
  BY <1>1, ConsTypes DEF CountInv, StatsInv, AnsweredInv
<1>8. TellInv'
  BY <1>1, <1>3 DEF CountInv, StatsInv, TellInv, Tells
<1> QED BY <1>5, <1>6, <1>7, <1>8 DEF StatsInv

LEMMA CountBytesStats == ASSUME CountInv, NEW c \in Consumers, CountBytes(c) PROVE StatsInv'
<1> DEFINE k == sock[c]
           more == IF answer[c] \in Pages THEN Length[answer[c]] ELSE 0
           new == Delivered \ Uncounted
           old == new \ {k}
<1> USE ServerAssumption
<1>1. /\ Alive /\ pc[c] = "count_bytes" /\ pc' = [pc EXCEPT ![c] = "close"]
      /\ mtx2' = None /\ total_bytes_sent' = (total_bytes_sent + more) % UINT_RANGE
      /\ UNCHANGED <<sock, answer, got, mainpc, stats, pages_served>>
  BY DEF CountBytes, mainVars, peerVars
<1>2. /\ k \in Clients /\ got[k] = answer[c] /\ (k \in Delivered <=> answer[c] \in Pages)
      /\ \A d \in Consumers : sock[d] = k => d = c
  BY <1>1, Counting
<1>3. Delivered' = Delivered /\ \A S : Bytes(S)' = Bytes(S)
  BY <1>1 DEF Delivered, Bytes
<1>4. mtx2 = c /\ \A x \in Consumers : pc[x] = "count_bytes" <=> x = c
  BY <1>1 DEF CountInv, StatsInv, LockInv
<1>5. Half = {k} /\ Half' = {} /\ Uncounted' = Uncounted /\ k \notin Uncounted
  <2>1. {x \in Consumers : pc'[x] = "count"} = {x \in Consumers : pc[x] = "count"}
    BY <1>1, ConsTypes
  <2>2. {x \in Consumers : pc[x] = "count_bytes"} = {c} /\ {x \in Consumers : pc'[x] = "count_bytes"} = {}
    BY <1>1, <1>4, ConsTypes
  <2> QED BY <1>1, <1>2, <2>1, <2>2 DEF Uncounted, Half
<1>6. SumInv'
  <2>1. /\ IsFiniteSet(Delivered) /\ pages_served = Cardinality(new) % UINT_RANGE
        /\ total_bytes_sent = Bytes(old) % UINT_RANGE
    <3>1. Delivered \ (Uncounted \union Half) = old  BY <1>5
    <3> QED BY <3>1 DEF CountInv, StatsInv, SumInv
  <2>2. total_bytes_sent' = Bytes(new) % UINT_RANGE
    <3>1. CASE answer[c] \in Pages
      <4>1. new = old \union {k} /\ k \notin old /\ k \in Delivered /\ old \subseteq Delivered
        BY <1>2, <1>5, <3>1
      <4>2. more = Length[got[k]]  BY <1>2, <3>1
      <4> HIDE DEF old, new, more, k
      <4>3. Bytes(old) \in Nat /\ Length[got[k]] \in Nat /\ Bytes(new) = Bytes(old) + Length[got[k]]
        BY <4>1, BytesOfOneMore DEF CountInv, StatsInv
      <4> DEFINE b == Bytes(old)
      <4>4. b \in Nat /\ more \in Nat /\ Bytes(new) = b + more  BY <4>2, <4>3
      <4>5. total_bytes_sent' = ((b % UINT_RANGE) + more) % UINT_RANGE  BY <1>1, <2>1
      <4> HIDE DEF b
      <4>6. ((b % UINT_RANGE) + more) % UINT_RANGE = (b + more) % UINT_RANGE  BY <4>4, CounterAdds
      <4> QED BY <4>4, <4>5, <4>6
    <3>2. CASE answer[c] \notin Pages
      <4>1. new = old /\ more = 0  BY <1>2, <3>2
      <4>2. total_bytes_sent \in 0 .. UINT_RANGE - 1
        BY DEF CountInv, SendInv, IInv, TypeInv, TypeOK, StatType
      <4>3. total_bytes_sent' = total_bytes_sent  BY <1>1, <4>1, <4>2
      <4> QED BY <2>1, <4>1, <4>3
    <3> QED BY <3>1, <3>2
  <2>3. Delivered' \ Uncounted' = new /\ Delivered' \ (Uncounted' \union Half') = new
    BY <1>3, <1>5
  <2> HIDE DEF old, new
  <2> QED BY <1>1, <1>3, <2>1, <2>2, <2>3 DEF SumInv
<1>7. LockInv'
  BY <1>1, <1>4, ConsTypes DEF CountInv, StatsInv, LockInv
<1>8. AnsweredInv'
  BY <1>1, ConsTypes DEF CountInv, StatsInv, AnsweredInv
<1>9. TellInv'
  BY <1>1, <1>3 DEF CountInv, StatsInv, TellInv, Tells
<1> QED BY <1>6, <1>7, <1>8, <1>9 DEF StatsInv

LEMMA ReadingStats ==
  ASSUME CountInv, StatsPages \/ StatsBytes \/ ReplyCmd
  PROVE  StatsInv'
<1> USE ServerAssumption
<1>1. /\ UNCHANGED <<got, pc, sock, answer, pages_served, total_bytes_sent>>
      /\ Delivered' = Delivered /\ \A S : Bytes(S)' = Bytes(S)
      /\ Uncounted' = Uncounted /\ Half' = Half
  BY DEF StatsPages, StatsBytes, ReplyCmd, statVars, consVars, peerVars,
         Delivered, Bytes, Uncounted, Half
<1>2. SumInv'  BY <1>1 DEF CountInv, StatsInv, SumInv
<1>3. AnsweredInv'  BY <1>1 DEF CountInv, StatsInv, AnsweredInv
<1>4. CASE StatsPages
  <2>1. /\ mtx2 = None /\ mtx2' = Main /\ mainpc' = "stats_bytes"
        /\ stats' = [stats EXCEPT !.pages = pages_served]
    BY <1>4 DEF StatsPages
  <2>2. stats'.pages = pages_served
    BY <2>1 DEF CountInv, SendInv, IInv, TypeInv, TypeOK, MainType
  <2>3. LockInv'  BY <1>1, <2>1, <2>2 DEF CountInv, StatsInv, LockInv
  <2>4. TellInv'  BY <2>1 DEF TellInv
  <2> QED BY <1>2, <1>3, <2>3, <2>4 DEF StatsInv
<1>5. CASE StatsBytes
  <2>1. /\ mainpc = "stats_bytes" /\ mtx2' = None /\ mainpc' = "reply"
        /\ stats' = [stats EXCEPT !.bytes = total_bytes_sent]
    BY <1>5 DEF StatsBytes
  <2>2. mtx2 = Main /\ stats.pages = pages_served
    BY <2>1 DEF CountInv, StatsInv, LockInv
  <2>3. stats'.pages = pages_served /\ stats'.bytes = total_bytes_sent
    BY <2>1, <2>2 DEF CountInv, SendInv, IInv, TypeInv, TypeOK, MainType
  <2>4. LockInv'  BY <1>1, <2>1, <2>2 DEF CountInv, StatsInv, LockInv
  <2>5. PICK S : S = Delivered \ Uncounted  OBVIOUS
  <2>6. Half = {}  BY <2>2, NobodyHalf
  <2>7. pages_served = Cardinality(S) % UINT_RANGE /\ total_bytes_sent = Bytes(S) % UINT_RANGE
    <3>1. Delivered \ (Uncounted \union Half) = S  BY <2>5, <2>6
    <3> QED BY <2>5, <3>1 DEF CountInv, StatsInv, SumInv
  <2>8. Tells(S)' /\ S \in SUBSET Delivered'  BY <1>1, <2>3, <2>5, <2>7 DEF Tells
  <2>9. TellInv'  BY <2>8 DEF TellInv
  <2> QED BY <1>2, <1>3, <2>4, <2>9 DEF StatsInv
<1>6. CASE ReplyCmd
  <2>1. mainpc = "reply" /\ mainpc' = "poll" /\ mtx2' = mtx2 /\ stats' = NoStats
    BY <1>6 DEF ReplyCmd, statVars
  <2>2. LockInv'  BY <1>1, <2>1 DEF CountInv, StatsInv, LockInv
  <2>3. Tells({})'
    <3>1. Bytes({})' = 0 /\ Cardinality({}) = 0  BY FS_EmptySet DEF Bytes
    <3>2. 0 % UINT_RANGE = 0  OBVIOUS
    <3> QED BY <2>1, <3>1, <3>2 DEF Tells, NoStats
  <2>4. TellInv'  BY <2>3 DEF TellInv
  <2> QED BY <1>2, <1>3, <2>2, <2>4 DEF StatsInv
<1> QED BY <1>4, <1>5, <1>6

LEMMA IdleSteps ==
  ASSUME CountInv, Next, ~Rest, ~StatsPages, ~StatsBytes, ~ReplyCmd,
         \A c \in Consumers : ~Send(c) /\ ~CountPage(c) /\ ~CountBytes(c)
  PROVE  Idle
<1>1. CASE MainStep \/ Environment
  <2>1. UNCHANGED <<got, statVars, stats, sock, answer>>
    BY <1>1 DEF MainStep, Environment, SpuriousWakeup, Connect, ConnectCmd, mainVars, consVars, peerVars,
       Spawn, Poll, Accept, Place, WaitNonfull, SignalClient, SignalPill, AcceptCmd, ReadShutdown,
       ReadStats, ReadOther, ReadDisconnect, MainDies, Join
  <2>2. UNCHANGED pc \/ \E c \in Waiting : pc' = [pc EXCEPT ![c] = "obtain"]
    BY <1>1 DEF MainStep, Environment, SpuriousWakeup, Connect, ConnectCmd, SignalWaiting, consVars,
       Spawn, Poll, Accept, Place, WaitNonfull, SignalClient, SignalPill, AcceptCmd, ReadShutdown,
       ReadStats, ReadOther, ReadDisconnect, MainDies, Join
  <2>3. \A c \in Consumers :
          pc[c] \in {"count", "count_bytes"} \/ pc'[c] \in {"count", "count_bytes"} => pc'[c] = pc[c]
    BY <2>2, ConsTypes DEF Waiting
  <2>4. mainpc' = "dead" \/ mainpc' = mainpc \/ {mainpc, mainpc'} \intersect {"stats_bytes", "dead"} = {}
    BY <1>1 DEF MainStep, Environment, SpuriousWakeup, Connect, ConnectCmd, mainVars,
       Spawn, Poll, Accept, Place, WaitNonfull, SignalClient, SignalPill, AcceptCmd, ReadShutdown,
       ReadStats, ReadOther, ReadDisconnect, MainDies, Join
  <2> QED BY <2>1, <2>3, <2>4 DEF Idle
<1>2. ASSUME NEW c \in Consumers, ConsumerStep(c) PROVE Idle
  <2>1. /\ UNCHANGED <<got, statVars, stats>>
        /\ mainpc' = "dead" \/ mainpc' = mainpc \/ {mainpc, mainpc'} \intersect {"stats_bytes", "dead"} = {}
    BY <1>2 DEF ConsumerStep, Obtain, WaitNonempty, SignalNonfull, ReadRequest, ClientGone,
       SendShort, ConsumerDies, Close, mainVars, consVars, peerVars
  <2>2. \/ UNCHANGED <<pc, sock, answer>>
        \/ /\ pc[c] \notin {"count", "count_bytes"} /\ pc'[c] \notin {"count", "count_bytes"}
           /\ \A d \in Consumers \ {c} : pc'[d] = pc[d] /\ sock'[d] = sock[d] /\ answer'[d] = answer[d]
    BY <1>2, ConsTypes DEF ConsumerStep, Obtain, WaitNonempty, SignalNonfull, ReadRequest, ClientGone,
       SendShort, ConsumerDies, Close, consVars
  <2> QED BY <2>1, <2>2 DEF Idle
<1> QED BY <1>1, <1>2 DEF Next

LEMMA StepCountInv == CountInv /\ [Next]_vars => CountInv'
<1> SUFFICES ASSUME CountInv, [Next]_vars PROVE StatsInv'
  BY StepSendInv DEF CountInv
<1>1. CASE UNCHANGED vars \/ Rest
  <2>1. Idle  BY <1>1 DEF Rest, vars, statVars, mainVars, consVars, peerVars, Idle
  <2> QED BY <2>1, IdleKeeps DEF CountInv
<1>2. CASE \E c \in Consumers : Send(c) \/ CountPage(c) \/ CountBytes(c)
  BY <1>2, SendStats, CountPageStats, CountBytesStats
<1>3. CASE StatsPages \/ StatsBytes \/ ReplyCmd
  BY <1>3, ReadingStats
<1> QED BY <1>1, <1>2, <1>3, IdleSteps, IdleKeeps DEF CountInv

(* The counters of STATS agree with the pages delivered: between two         *)
(* critical sections of mtx2 they are the number and the bytes of the pages  *)
(* counted, modulo 2^32, and an answer to STATS tells both of one set.       *)
THEOREM StatsAreRight == Spec => []StatsRight
<1>1. CountInv => StatsRight
  <2> SUFFICES ASSUME CountInv PROVE StatsExact /\ StatsSnapshot
    BY DEF StatsRight
  <2>1. StatsExact
    <3> SUFFICES ASSUME mtx2 = None
                 PROVE  /\ pages_served = Cardinality(Delivered \ Uncounted) % UINT_RANGE
                        /\ total_bytes_sent = Bytes(Delivered \ Uncounted) % UINT_RANGE
      BY DEF StatsExact
    <3>1. Half = {}  BY ServerAssumption, NobodyHalf
    <3>2. Delivered \ (Uncounted \union Half) = Delivered \ Uncounted  BY <3>1
    <3> QED BY <3>2 DEF CountInv, StatsInv, SumInv
  <2>2. StatsSnapshot  BY DEF CountInv, StatsInv, TellInv, Tells, StatsSnapshot
  <2> QED BY <2>1, <2>2
<1>2. Spec => []CountInv
  BY InitCountInv, StepCountInv, PTL DEF Spec
<1> QED BY <1>1, <1>2, PTL
=============================================================================
