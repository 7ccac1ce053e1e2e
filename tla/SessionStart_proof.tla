------------------------- MODULE SessionStart_proof -------------------------
(***************************************************************************)
(* For any number of workers, sessions, crashes and kills, a job executor  *)
(* meets its own workers only, and SEARCH is refused only after a process  *)
(* has died in a session.                                                  *)
(*                                                                         *)
(* The argument is about the workers that a dead process has left behind:  *)
(* as long as one of them may still open a name, or waits in a FIFO that   *)
(* has a name, the first name is there, and mkfifo of the next session     *)
(* fails on it before anything else is made (OldBlocked).                  *)
(***************************************************************************)
EXTENDS SessionStart, TLAPS

(* no session is under way *)
Down  == bpc \in {"idle", "off", "refused"}
Early == Down \/ (bpc = "make" /\ k = 1)

Waits(p) == wpc[p] \in {"open to", "open from"}
Named(p) == Waits(p) /\ \E n \in Names : at[p] = names[n]
Old(p)   == p[1] # session \/ Down

(* where the loops of the job executor are *)
Loops ==
  /\ ~Down => session \in Sessions
  /\ bpc = "fork" => \E i \in Workers : k = From(i)
  /\ bpc \in {"test", "open to", "open from"} => k \in Workers
  /\ bpc \in {"handlers", "marks", "on", "exit"} => k = 1

(* one FIFO has one name, and a worker waits in one that was made *)
Fifos ==
  /\ \A m, n \in Names : m # n /\ names[m] = names[n] => names[m] = None
  /\ \A p \in Procs : Waits(p) => at[p] # None

(* names that are there, or not yet there, in each phase of a session *)
MadeSoFar ==
  /\ bpc = "make" => \A n \in Names : n < k => names[n] # None
  /\ bpc = "fork" => \A n \in Names : n <= k => names[n] # None
  /\ bpc \in {"handlers", "marks", "test", "open to", "open from", "on", "exit"} =>
       \A n \in Names : names[n] # None
  /\ bpc = "unlink" => \A n \in Names : n < k => names[n] = None

(* workers that were forked, and wait only in FIFOs of their own, and are gone in the end *)
Own ==
  /\ \A p \in Procs : p[1] > session => wpc[p] = "none"
  /\ bpc \in {"make", "fork"} => \A i \in Workers : From(i) >= k => wpc[Mine(i)] = "none"
  /\ ~Down => \A i \in Workers : Waits(Mine(i)) => at[Mine(i)] \in {names[To(i)], names[From(i)]}
  /\ bpc = "unlink" => \A i \in Workers : wpc[Mine(i)] = "gone"

OldBlocked ==
  \A p \in Procs : Old(p) /\ (wpc[p] \in {"start", "between"} \/ Named(p)) => names[1] # None /\ Early

(* without a crash there is no name left from before *)
NothingLeft ==
  ~crashed => /\ bpc \in {"idle", "off"} => \A n \in Names : names[n] = None
              /\ bpc = "make" => \A n \in Names : n >= k => names[n] = None
              /\ bpc = "fork" => \A n \in Names : n > k => names[n] = None
              /\ bpc # "refused"

IInv == TypeOK /\ Loops /\ Fifos /\ MadeSoFar /\ Own /\ OldBlocked /\ NothingLeft
-----------------------------------------------------------------------------
LEMMA Places == /\ 1 \in Names /\ 2 * N \in Names
                /\ \A i \in Workers : To(i) \in Names /\ From(i) \in Names /\ From(i) \div 2 = i
                /\ Workers \subseteq Names
BY StartAssumption DEF Names, Workers, To, From

LEMMA Bounds == MAX_SESSIONS \in Nat /\ MAX_CRASHES \in Nat /\ MAX_KILLS \in Nat
BY StartAssumption

LEMMA Apart == \A i, j \in Workers : {To(i), From(i)} \cap {To(j), From(j)} # {} => i = j
BY StartAssumption DEF To, From, Workers

LEMMA Pairs == \A p \in Procs : p[2] \in Workers /\ p[1] \in Sessions /\ p = <<p[1], p[2]>>
BY DEF Procs

(* The invariant is strong enough. *)
LEMMA InvOwnWorkers == IInv => OwnWorkers
<1> SUFFICES ASSUME IInv, bpc \in {"test", "open to", "open from"},
                    NEW i \in Workers, NEW p \in Procs, Waits(p), at[p] \in {names[To(i)], names[From(i)]}
             PROVE  p = Mine(i)
  BY DEF IInv, OwnWorkers, Waits
<1>1. p[1] = session
  BY Places DEF IInv, OldBlocked, Old, Named, Early, Down
<1> DEFINE j == p[2]
<1>2. j \in Workers /\ p = Mine(j)
  BY <1>1, Pairs DEF Mine
<1>3. at[p] \in {names[To(j)], names[From(j)]}
  BY <1>2 DEF IInv, Own, Down
<1>4. at[p] # None
  BY DEF IInv, Fifos
<1>5. {To(i), From(i)} \cap {To(j), From(j)} # {}
  BY <1>2, <1>3, <1>4, Places DEF IInv, Fifos
<1> HIDE DEF j
<1>6. i = j
  BY <1>2, <1>5, Apart
<1> QED  BY <1>2, <1>6

LEMMA InvRefused == IInv => RefusedAfterCrash
BY DEF IInv, NothingLeft, RefusedAfterCrash

LEMMA InitIInv == Init => IInv
<1> SUFFICES ASSUME Init PROVE IInv  OBVIOUS
<1>1. TypeOK
  <2>1. made \in Nat /\ names \in [Names -> 0 .. made] /\ at \in [Procs -> 0 .. made]
    BY DEF Init, None
  <2>2. wpc \in [Procs -> {"none", "start", "open to", "between", "open from", "on", "gone"}]
    BY DEF Init
  <2>3. crashes \in 0 .. MAX_CRASHES /\ kills \in 0 .. MAX_KILLS /\ session \in 0 .. MAX_SESSIONS
    BY Bounds DEF Init
  <2> QED  BY <2>1, <2>2, <2>3, Places DEF Init, TypeOK
<1>2. Fifos /\ Own  BY DEF Init, Fifos, Own, Waits, Down, None, Procs, Sessions
<1>3. OldBlocked  BY DEF Init, OldBlocked, Waits, Named
<1> QED
  BY <1>1, <1>2, <1>3 DEF Init, IInv, Loops, MadeSoFar, NothingLeft, Down, None
-----------------------------------------------------------------------------
(* Each step of the job executor preserves it. *)
LEMMA StartSearchInv == IInv /\ StartSearch => IInv'
<1> SUFFICES ASSUME IInv, StartSearch PROVE IInv'  OBVIOUS
<1> USE DEF StartSearch, fileVars, signalVars, workerVars, boundVars
<1>0. session \in 0 .. MAX_SESSIONS /\ session' \in Sessions /\ session' = session + 1
  <2>1. session \in 0 .. MAX_SESSIONS  BY DEF IInv, TypeOK
  <2>2. session < MAX_SESSIONS /\ session' = session + 1  OBVIOUS
  <2> QED  BY <2>1, <2>2, Bounds DEF Sessions
<1>1. TypeOK'
  <2>1. session' \in 0 .. MAX_SESSIONS  BY <1>0, Bounds DEF Sessions
  <2> QED  BY <2>1, Places DEF IInv, TypeOK
<1>2. Loops'   BY <1>0 DEF Loops, Down
<1>3. Fifos'   BY DEF IInv, Fifos, Waits
<1>4. MadeSoFar'  BY DEF MadeSoFar, Names
<1>5. Own'
  <2>1. \A p \in Procs : p[1] >= session' => wpc'[p] = "none"
    <3> SUFFICES ASSUME NEW p \in Procs, p[1] >= session' PROVE wpc[p] = "none"  OBVIOUS
    <3>1. p[1] > session  BY <1>0, Pairs DEF Sessions
    <3> QED  BY <3>1 DEF IInv, Own
  <2>2. \A i \in Workers : Mine(i)' \in Procs /\ Mine(i)'[1] = session'
    BY <1>0 DEF Mine, Procs
  <2>3. \A i \in Workers : wpc'[Mine(i)'] = "none"  BY <2>1, <2>2, <1>0 DEF Sessions
  <2>4. \A p \in Procs : p[1] > session' => wpc'[p] = "none"  BY <2>1, <1>0, Pairs DEF Sessions
  <2> QED  BY <2>3, <2>4 DEF Own, Waits
<1>6. OldBlocked'  BY DEF IInv, OldBlocked, Old, Early, Named, Waits, Down
<1>7. NothingLeft'  BY DEF IInv, NothingLeft
<1> QED  BY <1>1, <1>2, <1>3, <1>4, <1>5, <1>6, <1>7 DEF IInv

LEMMA MakeFifoInv == IInv /\ MakeFifo => IInv'
<1> SUFFICES ASSUME IInv, MakeFifo PROVE IInv'  OBVIOUS
<1> USE DEF MakeFifo, signalVars, workerVars, boundVars
<1>0. /\ k \in Names /\ names \in [Names -> 0 .. made] /\ made \in Nat /\ at \in [Procs -> 0 .. made]
      /\ session \in Sessions /\ names' \in [Names -> 0 .. made'] /\ names'[k] = made + 1
      /\ \A n \in Names \ {k} : names'[n] = names[n]
  <2>1. /\ k \in Names /\ names \in [Names -> 0 .. made] /\ made \in Nat /\ at \in [Procs -> 0 .. made]
        /\ session \in Sessions
    BY DEF IInv, TypeOK, Loops, Down
  <2>2. 0 .. made \subseteq 0 .. made + 1 /\ made + 1 \in 0 .. made + 1  BY <2>1
  <2>3. names' \in [Names -> 0 .. made + 1]  BY <2>1, <2>2
  <2> QED  BY <2>1, <2>3
<1>1. TypeOK'
  <2>1. k' \in Names
    <3>1. CASE \E i \in Workers : k = From(i)  BY <3>1, <1>0
    <3>2. CASE ~ \E i \in Workers : k = From(i)
      <4>1. k # 2 * N  BY <3>2, StartAssumption DEF Workers, From
      <4> QED  BY <3>2, <4>1, <1>0, StartAssumption DEF Names
    <3> QED  BY <3>1, <3>2
  <2>2. at' \in [Procs -> 0 .. made'] /\ made' \in Nat  BY <1>0
  <2>3. bpc' \in {"make", "fork"}  OBVIOUS
  <2> HIDE DEF MakeFifo
  <2>4. UNCHANGED <<session, handler, pending, alive_workers, zombies, wpc, crashed, crashes, kills>>
    BY DEF MakeFifo
  <2> QED  BY <2>1, <2>2, <2>3, <2>4, <1>0 DEF IInv, TypeOK
<1>2. Loops'   BY DEF IInv, Loops, Down
<1>3. Fifos'
  <2>1. \A m, n \in Names : m # n /\ names'[m] = names'[n] => names'[m] = None
    BY <1>0 DEF IInv, Fifos
  <2> QED  BY <2>1 DEF IInv, Fifos, Waits
<1>4. MadeSoFar'
  <2>1. \A n \in Names : n <= k => names'[n] # None
    <3>1. \A n \in Names : n < k => names[n] # None  BY DEF IInv, MadeSoFar
    <3> QED  BY <3>1, <1>0 DEF None, Names
  <2>2. \/ bpc' = "fork" /\ k' = k
        \/ bpc' = "make" /\ k' = k + 1
    <3>1. CASE \E i \in Workers : k = From(i)  BY <3>1
    <3>2. CASE ~ \E i \in Workers : k = From(i)  BY <3>2
    <3> QED  BY <3>1, <3>2
  <2>3. CASE bpc' = "fork" /\ k' = k  BY <2>1, <2>3 DEF MadeSoFar
  <2>4. CASE bpc' = "make" /\ k' = k + 1
    <3>1. \A n \in Names : n < k + 1 => n <= k  BY <1>0 DEF Names
    <3> QED  BY <2>1, <2>4, <3>1 DEF MadeSoFar
  <2> QED  BY <2>2, <2>3, <2>4
<1>5. Own'
  <2>1. bpc' \in {"make", "fork"} => \A i \in Workers : From(i) >= k' => wpc'[Mine(i)'] = "none"
    <3> SUFFICES ASSUME NEW i \in Workers, From(i) >= k' PROVE wpc[Mine(i)] = "none"
      BY DEF Mine
    <3>1. k' \in {k, k + 1}  OBVIOUS
    <3>2. From(i) >= k  BY <1>0, <3>1, Places DEF Names
    <3> QED  BY <3>2 DEF IInv, Own
  <2>2. \A i \in Workers : Waits(Mine(i))' => at'[Mine(i)'] \in {names'[To(i)], names'[From(i)]}
    <3> SUFFICES ASSUME NEW i \in Workers, Waits(Mine(i))
                 PROVE  at[Mine(i)] \in {names'[To(i)], names'[From(i)]}
      BY DEF Waits, Mine
    <3>1. at[Mine(i)] \in {names[To(i)], names[From(i)]}  BY DEF IInv, Own, Down
    <3>2. Mine(i) \in Procs  BY <1>0 DEF Mine, Procs
    <3>3. at[Mine(i)] # None  BY <3>2 DEF IInv, Fifos
    <3> QED  BY <3>1, <3>3, <1>0, Places
  <2>3. \A p \in Procs : p[1] > session' => wpc'[p] = "none"  BY DEF IInv, Own
  <2> QED  BY <2>1, <2>2, <2>3 DEF Own
<1>6. OldBlocked'
  <2> SUFFICES ASSUME NEW p \in Procs, Old(p), wpc[p] \in {"start", "between"} \/ Named(p)'
               PROVE  names'[1] # None /\ Early'
    BY DEF OldBlocked, Old, Down
  <2>0. at[p] \in 0 .. made /\ made + 1 \notin 0 .. made  BY <1>0
  <2>1. wpc[p] \in {"start", "between"} \/ Named(p)
    <3> SUFFICES ASSUME Named(p)' PROVE Named(p)  OBVIOUS
    <3>1. Waits(p)  BY DEF Named, Waits
    <3>2. PICK n \in Names : at[p] = names'[n]  BY DEF Named
    <3>3. at[p] = names[n]  BY <3>2, <2>0, <1>0
    <3> QED  BY <3>1, <3>3 DEF Named
  <2>2. names[1] # None /\ Early  BY <2>1 DEF IInv, OldBlocked
  <2> QED  BY <2>2 DEF Early, Down
<1>7. NothingLeft'
  BY <1>0 DEF IInv, NothingLeft, Names
<1> QED  BY <1>1, <1>2, <1>3, <1>4, <1>5, <1>6, <1>7 DEF IInv

LEMMA RefuseInv == IInv /\ Refuse => IInv'
<1> SUFFICES ASSUME IInv, Refuse PROVE IInv'  OBVIOUS
<1> USE DEF Refuse, ProcessGone, fileVars, workerVars, boundVars
<1>1. TypeOK'  BY Places DEF IInv, TypeOK
<1>2. Loops' /\ MadeSoFar'  BY DEF Loops, MadeSoFar, Down
<1>3. Fifos' /\ Own'  BY DEF IInv, Fifos, Own, Waits, Down
<1>4. OldBlocked'
  <2> SUFFICES ASSUME NEW p \in Procs, wpc[p] \in {"start", "between"} \/ Named(p)
               PROVE  names[1] # None
    BY DEF OldBlocked, Early, Down, Named, Waits
  <2>1. CASE k = 1  BY <2>1
  <2>2. CASE k # 1
    <3>1. k \in Names /\ 1 \in Names  BY Places DEF IInv, TypeOK
    <3>2. 1 < k  BY <2>2, <3>1 DEF Names
    <3> QED  BY <3>1, <3>2 DEF IInv, MadeSoFar
  <2> QED  BY <2>1, <2>2
<1>5. NothingLeft'
  <2>1. k \in Names  BY DEF IInv, TypeOK
  <2>2. crashed
    BY <2>1 DEF IInv, NothingLeft, Names
  <2> QED  BY <2>2 DEF NothingLeft
<1> QED  BY <1>1, <1>2, <1>3, <1>4, <1>5 DEF IInv

LEMMA ForkInv == IInv /\ Fork => IInv'
<1> SUFFICES ASSUME IInv, Fork PROVE IInv'  OBVIOUS
<1> USE DEF fileVars, signalVars, boundVars
<1>0. PICK i \in Workers : k = From(i) /\ k \div 2 = i
  BY Places DEF IInv, Loops, Fork
<1>1. /\ bpc = "fork"
      /\ wpc' = [wpc EXCEPT ![Mine(i)] = "start"]
      /\ \/ i < N /\ bpc' = "make" /\ k' = k + 1
         \/ i = N /\ bpc' = "handlers" /\ k' = 1
      /\ UNCHANGED <<fileVars, session, signalVars, at, boundVars>>
  <2>1. i < N \/ i = N  BY StartAssumption DEF Workers
  <2>2. ~(i < N /\ i = N)  BY StartAssumption
  <2> QED  BY <1>0, <2>1, <2>2 DEF Fork
<1>2. session \in Sessions /\ Mine(i) \in Procs /\ k \in Names
  <2>1. session \in Sessions  BY <1>1 DEF IInv, Loops, Down
  <2> QED  BY <2>1 DEF Mine, Procs, IInv, TypeOK
<1>3. k' \in Names
  BY <1>0, <1>1, Places, StartAssumption DEF Names, Workers, From
<1>4. \A p \in Procs : p # Mine(i) => wpc'[p] = wpc[p]
  BY <1>1 DEF IInv, TypeOK
<1>5. wpc'[Mine(i)] = "start"
  BY <1>1, <1>2 DEF IInv, TypeOK
<1>6. TypeOK'
  BY <1>1, <1>2, <1>3 DEF IInv, TypeOK
<1>7. Loops'  BY <1>1, <1>2 DEF Loops, Down
<1>8. Fifos'  BY <1>1, <1>4, <1>5 DEF IInv, Fifos, Waits
<1>9. MadeSoFar'
  <2>1. \A n \in Names : n <= k => names[n] # None  BY <1>1 DEF IInv, MadeSoFar
  <2>2. CASE bpc' = "make" /\ k' = k + 1
    <3>1. \A n \in Names : n < k + 1 => n <= k  BY <1>2 DEF Names
    <3> QED  BY <2>1, <2>2, <3>1, <1>1 DEF MadeSoFar
  <2>3. CASE i = N /\ bpc' = "handlers"
    <3>1. \A n \in Names : n <= k  BY <1>0, <2>3, StartAssumption DEF Names, From
    <3> QED  BY <2>1, <2>3, <3>1, <1>1 DEF MadeSoFar
  <2> QED  BY <1>1, <2>2, <2>3
<1>10. Own'
  <2>1. \A j \in Workers : Mine(j) \in Procs /\ Mine(j)' = Mine(j)
    BY <1>1, <1>2 DEF Mine, Procs
  <2>2. \A p \in Procs : p[1] > session' => wpc'[p] = "none"
    <3> SUFFICES ASSUME NEW p \in Procs, p[1] > session PROVE wpc'[p] = "none"  BY <1>1
    <3>1. p # Mine(i)  BY <1>2 DEF Mine, Sessions
    <3> QED  BY <3>1, <1>4 DEF IInv, Own
  <2>3. bpc' \in {"make", "fork"} => \A j \in Workers : From(j) >= k' => wpc'[Mine(j)'] = "none"
    <3> SUFFICES ASSUME k' = k + 1, NEW j \in Workers, From(j) >= k + 1 PROVE wpc'[Mine(j)] = "none"
      BY <1>1, <2>1
    <3>1. From(j) >= k /\ j # i  BY <1>0, <1>2 DEF Names, From, Workers
    <3>2. Mine(j) # Mine(i)  BY <3>1 DEF Mine
    <3>3. wpc[Mine(j)] = "none"  BY <3>1, <1>1 DEF IInv, Own
    <3> QED  BY <3>2, <3>3, <2>1, <1>4
  <2>4. \A j \in Workers : Waits(Mine(j))' => at'[Mine(j)'] \in {names'[To(j)], names'[From(j)]}
    <3> SUFFICES ASSUME NEW j \in Workers, wpc'[Mine(j)] \in {"open to", "open from"}
                 PROVE  at[Mine(j)] \in {names[To(j)], names[From(j)]}
      BY <2>1, <1>1 DEF Waits
    <3>1. Waits(Mine(j))  BY <2>1, <1>4, <1>5 DEF Waits
    <3> QED  BY <3>1, <1>1 DEF IInv, Own, Down
  <2> QED  BY <2>2, <2>3, <2>4, <1>1 DEF Own
<1>11. OldBlocked'
  <2> SUFFICES ASSUME NEW p \in Procs, p[1] # session, wpc'[p] \in {"start", "between"} \/ Named(p)'
               PROVE  FALSE
    BY <1>1 DEF OldBlocked, Old, Down
  <2>1. p # Mine(i)  BY DEF Mine
  <2>2. wpc[p] \in {"start", "between"} \/ Named(p)  BY <2>1, <1>1, <1>4 DEF Named, Waits
  <2> QED  BY <2>2, <1>1 DEF IInv, OldBlocked, Old, Early, Down
<1>12. NothingLeft'
  <2>1. \A n \in Names : n >= k + 1 => n > k  BY <1>2 DEF Names
  <2> QED  BY <1>1, <2>1 DEF IInv, NothingLeft
<1> QED  BY <1>6, <1>7, <1>8, <1>9, <1>10, <1>11, <1>12 DEF IInv

(* A step of a session whose FIFOs are all there, in which workers of the session may meet it. *)
Up == {"handlers", "marks", "test", "open to", "open from", "on", "exit"}

LEMMA UpInv ==
  ASSUME IInv, bpc \in Up, bpc' \in Up, UNCHANGED <<names, session, crashed, at>>, TypeOK', Loops',
         \A p \in Procs : \/ wpc'[p] = wpc[p]
                          \/ p[1] = session /\ wpc[p] # "none" /\ wpc'[p] \notin {"open to", "open from"}
  PROVE  IInv'
<1>1. bpc \notin {"idle", "off", "refused", "make", "fork", "unlink"}
      /\ bpc' \notin {"idle", "off", "refused", "make", "fork", "unlink"}
  BY DEF Up
<1>2. \A p \in Procs : Waits(p)' => Waits(p)  BY DEF Waits
<1>3. session \in Sessions /\ \A i \in Workers : Mine(i) \in Procs /\ Mine(i)' = Mine(i)
  BY <1>1 DEF IInv, Loops, Down, Mine, Procs
<1>4. Fifos'  BY <1>2 DEF IInv, Fifos
<1>5. MadeSoFar'  BY <1>1 DEF IInv, MadeSoFar, Up
<1>6. Own'
  <2>1. \A p \in Procs : p[1] > session' => wpc'[p] = "none"  BY <1>3 DEF IInv, Own, Sessions
  <2>2. \A i \in Workers : Waits(Mine(i))' => at'[Mine(i)'] \in {names'[To(i)], names'[From(i)]}
    <3> SUFFICES ASSUME NEW i \in Workers, wpc'[Mine(i)] \in {"open to", "open from"}
                 PROVE  at[Mine(i)] \in {names[To(i)], names[From(i)]}
      BY <1>3 DEF Waits
    <3>1. Waits(Mine(i))  BY <1>3 DEF Waits
    <3> QED  BY <3>1, <1>1 DEF IInv, Own, Down
  <2> QED  BY <2>1, <2>2, <1>1 DEF Own
<1>7. OldBlocked'
  <2> SUFFICES ASSUME NEW p \in Procs, p[1] # session, wpc'[p] \in {"start", "between"} \/ Named(p)'
               PROVE  FALSE
    BY <1>1 DEF OldBlocked, Old, Down
  <2>1. wpc[p] \in {"start", "between"} \/ Named(p)  BY DEF Named, Waits
  <2> QED  BY <2>1, <1>1 DEF IInv, OldBlocked, Old, Early, Down
<1>8. NothingLeft'  BY <1>1 DEF NothingLeft
<1> QED  BY <1>4, <1>5, <1>6, <1>7, <1>8 DEF IInv

LEMMA SetHandlerInv == IInv /\ SetHandler => IInv'
<1> SUFFICES ASSUME IInv, SetHandler PROVE IInv'  OBVIOUS
<1> USE DEF SetHandler, fileVars, workerVars, boundVars
<1>1. TypeOK'  BY DEF IInv, TypeOK
<1>2. Loops'  BY DEF IInv, Loops, Down
<1> QED  BY <1>1, <1>2, UpInv DEF Up

LEMMA SetAliveWorkersInv == IInv /\ SetAliveWorkers => IInv'
<1> SUFFICES ASSUME IInv, SetAliveWorkers PROVE IInv'  OBVIOUS
<1> USE DEF SetAliveWorkers, fileVars, workerVars, boundVars
<1>1. TypeOK'  BY DEF IInv, TypeOK
<1>2. Loops'
  <2>1. k = 1 /\ 1 \in Workers  BY StartAssumption DEF IInv, Loops, Workers
  <2> QED  BY <2>1 DEF IInv, Loops, Down
<1> QED  BY <1>1, <1>2, UpInv DEF Up

LEMMA NextWorkerLoops ==
  ASSUME k \in Workers, NextWorker
  PROVE  /\ bpc' \in {"test", "on"} /\ k' \in Workers
         /\ bpc' = "on" => k' = 1
<1>1. CASE k < N  BY <1>1, StartAssumption DEF NextWorker, Workers
<1>2. CASE ~(k < N)  BY <1>2, StartAssumption DEF NextWorker, Workers
<1> QED  BY <1>1, <1>2

LEMMA TestAliveInv == IInv /\ TestAlive => IInv'
<1> SUFFICES ASSUME IInv, TestAlive PROVE IInv'  OBVIOUS
<1>1. /\ bpc = "test" /\ k \in Workers
      /\ UNCHANGED <<fileVars, session, signalVars, workerVars, boundVars>>
      /\ (bpc' = "open to" /\ UNCHANGED k) \/ NextWorker
  BY DEF IInv, Loops, TestAlive
<1>2. /\ bpc' \in {"open to", "test", "on"} /\ k' \in Workers
      /\ bpc' = "on" => k' = 1
  BY <1>1, NextWorkerLoops
<1>3. TypeOK'
  BY <1>1, <1>2, Places DEF IInv, TypeOK, fileVars, signalVars, workerVars, boundVars
<1>4. Loops'  BY <1>1, <1>2 DEF IInv, Loops, Down
<1> QED  BY <1>1, <1>2, <1>3, <1>4, UpInv DEF Up, fileVars, workerVars, boundVars

LEMMA MeetToInv == ASSUME NEW p \in Procs PROVE IInv /\ MeetTo(p) => IInv'
<1> SUFFICES ASSUME IInv, MeetTo(p) PROVE IInv'  OBVIOUS
<1> USE DEF MeetTo, fileVars, signalVars, boundVars
<1>1. p[1] = session
  <2>1. k \in Workers  BY DEF IInv, Loops
  <2>2. p = Mine(k)  BY <2>1, InvOwnWorkers DEF OwnWorkers
  <2> QED  BY <2>2 DEF Mine
<1>2. TypeOK'  BY DEF IInv, TypeOK
<1>3. Loops'  BY DEF IInv, Loops, Down
<1>4. \A q \in Procs : wpc'[q] = wpc[q] \/ (q = p /\ wpc'[q] = "between")
  BY DEF IInv, TypeOK
<1> QED  BY <1>1, <1>2, <1>3, <1>4, UpInv DEF Up

LEMMA MeetFromInv == ASSUME NEW p \in Procs PROVE IInv /\ MeetFrom(p) => IInv'
<1> SUFFICES ASSUME IInv, MeetFrom(p) PROVE IInv'  OBVIOUS
<1> USE DEF MeetFrom, fileVars, signalVars, boundVars
<1>0. k \in Workers  BY DEF IInv, Loops
<1>1. p[1] = session
  <2>1. p = Mine(k)  BY <1>0, InvOwnWorkers DEF OwnWorkers
  <2> QED  BY <2>1 DEF Mine
<1>2. /\ bpc' \in {"test", "on"} /\ k' \in Workers
      /\ bpc' = "on" => k' = 1
  BY <1>0, NextWorkerLoops
<1>3. TypeOK'  BY <1>2, Places DEF IInv, TypeOK
<1>4. Loops'  BY <1>2 DEF IInv, Loops, Down
<1>5. \A q \in Procs : wpc'[q] = wpc[q] \/ (q = p /\ wpc'[q] = "on")
  BY DEF IInv, TypeOK
<1> QED  BY <1>1, <1>2, <1>3, <1>4, <1>5, UpInv DEF Up

LEMMA ExitInv == IInv /\ Exit => IInv'
<1> SUFFICES ASSUME IInv, Exit PROVE IInv'  OBVIOUS
<1> USE DEF Exit, fileVars, signalVars, workerVars, boundVars
<1>1. TypeOK'  BY DEF IInv, TypeOK
<1>2. Loops'  BY DEF IInv, Loops, Down
<1> QED  BY <1>1, <1>2, UpInv DEF Up

LEMMA ReapedInv == IInv /\ Reaped => IInv'
<1> SUFFICES ASSUME IInv, Reaped PROVE IInv'  OBVIOUS
<1> USE DEF Reaped, fileVars, workerVars, boundVars
<1>0. session \in Sessions /\ k = 1  BY DEF IInv, Loops, Down
<1>1. TypeOK'  BY DEF IInv, TypeOK
<1>2. Loops' /\ MadeSoFar'  BY <1>0 DEF Loops, MadeSoFar, Down, Names
<1>3. Fifos'  BY DEF IInv, Fifos, Waits
<1>4. Own'  BY DEF IInv, Own, Waits, Mine
<1>5. OldBlocked'  BY DEF IInv, OldBlocked, Old, Named, Waits, Early, Down
<1>6. NothingLeft'  BY DEF NothingLeft
<1> QED  BY <1>1, <1>2, <1>3, <1>4, <1>5, <1>6 DEF IInv

LEMMA UnlinkInv == IInv /\ Unlink => IInv'
<1> SUFFICES ASSUME IInv, Unlink PROVE IInv'  OBVIOUS
<1> USE DEF signalVars, workerVars, boundVars
<1>0. /\ bpc = "unlink" /\ k \in Names /\ session \in Sessions
      /\ names' = [names EXCEPT ![k] = None]
      /\ \/ k < 2 * N /\ k' = k + 1 /\ bpc' = "unlink"
         \/ k = 2 * N /\ k' = 1 /\ bpc' = "idle"
      /\ UNCHANGED <<made, session, signalVars, workerVars, boundVars>>
  <2>1. k \in Names  BY DEF IInv, TypeOK
  <2>2. k < 2 * N \/ (k = 2 * N /\ ~(k < 2 * N))  BY <2>1, StartAssumption DEF Names
  <2>3. bpc = "unlink" /\ session \in Sessions  BY DEF Unlink, IInv, Loops, Down
  <2>4. CASE k < 2 * N  BY <2>1, <2>3, <2>4 DEF Unlink
  <2>5. CASE k = 2 * N /\ ~(k < 2 * N)  BY <2>1, <2>3, <2>5 DEF Unlink
  <2> QED  BY <2>2, <2>4, <2>5
<1>1. names \in [Names -> 0 .. made] /\ names' \in [Names -> 0 .. made]
  <2>1. names \in [Names -> 0 .. made] /\ made \in Nat  BY DEF IInv, TypeOK
  <2>2. None \in 0 .. made  BY <2>1 DEF None
  <2> QED  BY <1>0, <2>1, <2>2
<1>2. k' \in Names  BY <1>0, Places, StartAssumption DEF Names
<1>3. names'[k] = None /\ \A n \in Names \ {k} : names'[n] = names[n]  BY <1>0, <1>1
<1>4. \A n \in Names : n <= k => names'[n] = None
  <2>1. \A n \in Names : n < k => names[n] = None  BY <1>0 DEF IInv, MadeSoFar
  <2> QED  BY <2>1, <1>0, <1>3 DEF Names
<1>5. TypeOK'  BY <1>0, <1>1, <1>2 DEF IInv, TypeOK
<1>6. Loops'  BY <1>0 DEF Loops, Down
<1>7. Fifos'
  <2>1. \A m, n \in Names : m # n /\ names'[m] = names'[n] => names'[m] = None
    BY <1>3 DEF IInv, Fifos
  <2> QED  BY <2>1, <1>0 DEF IInv, Fifos, Waits
<1>8. MadeSoFar'
  <2> SUFFICES ASSUME k' = k + 1 PROVE \A n \in Names : n < k + 1 => names'[n] = None
    BY <1>0 DEF MadeSoFar
  <2> QED  BY <1>0, <1>4 DEF Names
<1>9. \A p \in Procs : p[1] = session => wpc[p] = "gone"
  <2> SUFFICES ASSUME NEW p \in Procs, p[1] = session PROVE wpc[p] = "gone"  OBVIOUS
  <2>1. p = Mine(p[2]) /\ p[2] \in Workers  BY Pairs DEF Mine
  <2> QED  BY <2>1, <1>0 DEF IInv, Own
<1>10. Own'
  <2>1. \A i \in Workers : Mine(i) \in Procs /\ Mine(i)' = Mine(i) /\ Mine(i)[1] = session
    BY <1>0 DEF Mine, Procs
  <2>2. \A i \in Workers : wpc'[Mine(i)'] = "gone"  BY <1>0, <1>9, <2>1
  <2>3. \A p \in Procs : p[1] > session' => wpc'[p] = "none"  BY <1>0 DEF IInv, Own
  <2> QED  BY <2>2, <2>3, <1>0 DEF Own, Waits
<1>11. OldBlocked'
  <2> SUFFICES ASSUME NEW p \in Procs, wpc[p] \in {"start", "between"} \/ Named(p)'  PROVE FALSE
    BY <1>0 DEF OldBlocked
  <2>1. wpc[p] \in {"start", "between"} \/ Named(p)
    <3> SUFFICES ASSUME Named(p)' PROVE Named(p)  OBVIOUS
    <3>1. Waits(p)  BY <1>0 DEF Named, Waits
    <3>2. PICK n \in Names : at[p] = names'[n]  BY <1>0 DEF Named
    <3>3. n # k  BY <3>1, <3>2, <1>3 DEF IInv, Fifos
    <3> QED  BY <3>1, <3>2, <3>3, <1>3 DEF Named
  <2>2. p[1] # session  BY <2>1, <1>9 DEF Named, Waits
  <2> QED  BY <2>1, <2>2, <1>0 DEF IInv, OldBlocked, Old, Early, Down
<1>12. NothingLeft'
  <2> SUFFICES ASSUME bpc' = "idle" PROVE \A n \in Names : names'[n] = None
    BY <1>0 DEF NothingLeft
  <2>1. \A n \in Names : n <= k  BY <1>0, StartAssumption DEF Names
  <2> QED  BY <2>1, <1>4
<1> QED  BY <1>5, <1>6, <1>7, <1>8, <1>10, <1>11, <1>12 DEF IInv
-----------------------------------------------------------------------------
(* The process ends: what its workers wait for, or may still open, has the first name. *)
LEMMA ActiveHasName ==
  ASSUME IInv, NEW p \in Procs, wpc[p] \in {"start", "between"} \/ Named(p)
  PROVE  names[1] # None
<1>0. k \in Names /\ 1 \in Names /\ session \in 0 .. MAX_SESSIONS
  BY Places DEF IInv, TypeOK
<1>1. CASE Old(p)  BY <1>1 DEF IInv, OldBlocked
<1>2. CASE ~Old(p)
  <2>1. p = Mine(p[2]) /\ p[2] \in Workers /\ ~Down  BY <1>2, Pairs DEF Old, Mine
  <2>2. CASE bpc \in Up  BY <2>2, <1>0 DEF IInv, MadeSoFar, Up
  <2>3. CASE bpc = "unlink"  BY <2>1, <2>3 DEF IInv, Own, Named, Waits
  <2>4. CASE bpc = "fork"  BY <2>4, <1>0 DEF IInv, MadeSoFar, Names
  <2>5. CASE bpc = "make"
    <3>1. k # 1
      <4> SUFFICES ASSUME k = 1 PROVE FALSE  OBVIOUS
      <4>1. From(p[2]) >= k  BY <2>1, Places DEF Names
      <4> QED  BY <4>1, <2>1, <2>5 DEF IInv, Own, Named, Waits
    <3>2. 1 < k  BY <3>1, <1>0 DEF Names
    <3> QED  BY <3>2, <2>5, <1>0 DEF IInv, MadeSoFar
  <2> QED  BY <2>1, <2>2, <2>3, <2>4, <2>5 DEF Up, Down, IInv, TypeOK
<1> QED  BY <1>1, <1>2

LEMMA GoneInv ==
  ASSUME IInv, ProcessGone("off"), UNCHANGED <<fileVars, session, workerVars>>,
         crashes' \in 0 .. MAX_CRASHES, kills' \in 0 .. MAX_KILLS,
         crashed' \in BOOLEAN, ~crashed' => ~crashed /\ bpc = "idle"
  PROVE  IInv'
<1> USE DEF ProcessGone, fileVars, workerVars
<1>1. TypeOK'  BY Places DEF IInv, TypeOK
<1>2. Loops' /\ MadeSoFar'  BY DEF Loops, MadeSoFar, Down
<1>3. Fifos' /\ Own'  BY DEF IInv, Fifos, Own, Waits, Down
<1>4. OldBlocked'  BY ActiveHasName DEF OldBlocked, Early, Down, Named, Waits
<1>5. NothingLeft'  BY DEF IInv, NothingLeft
<1> QED  BY <1>1, <1>2, <1>3, <1>4, <1>5 DEF IInv

LEMMA HandlerCrashesInv == IInv /\ HandlerCrashes => IInv'
<1> SUFFICES ASSUME IInv, HandlerCrashes PROVE IInv'  OBVIOUS
<1>1. crashes \in 0 .. MAX_CRASHES /\ kills \in 0 .. MAX_KILLS  BY DEF IInv, TypeOK
<1> QED  BY <1>1, GoneInv DEF HandlerCrashes

LEMMA CrashInv == IInv /\ Crash => IInv'
<1> SUFFICES ASSUME IInv, Crash PROVE IInv'  OBVIOUS
<1>1. crashes \in 0 .. MAX_CRASHES /\ kills \in 0 .. MAX_KILLS /\ crashed \in BOOLEAN
  BY DEF IInv, TypeOK
<1>2. crashes' \in 0 .. MAX_CRASHES  BY <1>1, Bounds DEF Crash
<1>3. crashed' \in BOOLEAN /\ (~crashed' => ~crashed /\ bpc = "idle")  BY <1>1 DEF Crash
<1> QED  BY <1>1, <1>2, <1>3, GoneInv DEF Crash

LEMMA RestartInv == IInv /\ Restart => IInv'
<1> SUFFICES ASSUME IInv, Restart PROVE IInv'  OBVIOUS
<1> USE DEF Restart, fileVars, signalVars, workerVars, boundVars
<1>1. TypeOK'  BY DEF IInv, TypeOK
<1>2. Loops' /\ MadeSoFar'  BY DEF Loops, MadeSoFar, Down
<1>3. Fifos' /\ Own'  BY DEF IInv, Fifos, Own, Waits, Down
<1>4. OldBlocked'  BY DEF IInv, OldBlocked, Old, Early, Down, Named, Waits
<1>5. NothingLeft'  BY DEF IInv, NothingLeft
<1> QED  BY <1>1, <1>2, <1>3, <1>4, <1>5 DEF IInv

LEMMA CleanFifosInv == IInv /\ CleanFifos => IInv'
<1> SUFFICES ASSUME IInv, CleanFifos PROVE IInv'  OBVIOUS
<1> USE DEF CleanFifos, signalVars, workerVars
<1>1. TypeOK'
  <2>1. made \in Nat  BY DEF IInv, TypeOK
  <2>2. names' \in [Names -> 0 .. made]  BY <2>1 DEF None
  <2> QED  BY <2>2 DEF IInv, TypeOK
<1>2. Loops' /\ MadeSoFar'  BY DEF Loops, MadeSoFar, Down
<1>3. Fifos' /\ Own'  BY DEF IInv, Fifos, Own, Waits, Down
<1>4. OldBlocked'
  <2> SUFFICES ASSUME NEW p \in Procs, Named(p)' PROVE FALSE  BY DEF OldBlocked
  <2> QED  BY DEF Named, Waits, IInv, Fifos
<1>5. NothingLeft'  BY DEF NothingLeft
<1> QED  BY <1>1, <1>2, <1>3, <1>4, <1>5 DEF IInv
-----------------------------------------------------------------------------
(* Each step of a worker preserves it. *)
LEMMA QuietInv ==
  ASSUME IInv, UNCHANGED <<fileVars, bossVars, at, crashed>>, TypeOK',
         \A p \in Procs : \/ wpc'[p] = wpc[p]
                          \/ wpc[p] # "none" /\ wpc'[p] = "gone"
  PROVE  IInv'
<1> USE DEF fileVars, bossVars
<1>1. Loops' /\ MadeSoFar' /\ NothingLeft'
  BY DEF IInv, Loops, MadeSoFar, NothingLeft, Down
<1>2. \A p \in Procs : Waits(p)' => Waits(p)  BY DEF Waits
<1>3. Fifos'  BY <1>2 DEF IInv, Fifos
<1>4. Own'
  <2>1. \A i \in Workers : Mine(i)' = Mine(i)  BY DEF Mine
  <2>2. ~Down => \A i \in Workers : Mine(i) \in Procs  BY DEF IInv, Loops, Mine, Procs
  <2>3. \A p \in Procs : p[1] > session' => wpc'[p] = "none"  BY DEF IInv, Own
  <2>4. bpc \in {"make", "fork"} => \A i \in Workers : From(i) >= k => wpc'[Mine(i)] = "none"
    BY <2>2 DEF IInv, Own, Down
  <2>5. ~Down => \A i \in Workers : wpc'[Mine(i)] \in {"open to", "open from"} =>
                                      at[Mine(i)] \in {names[To(i)], names[From(i)]}
    <3> SUFFICES ASSUME ~Down, NEW i \in Workers, wpc'[Mine(i)] \in {"open to", "open from"}
                 PROVE  at[Mine(i)] \in {names[To(i)], names[From(i)]}
      OBVIOUS
    <3>1. Waits(Mine(i))  BY <2>2 DEF Waits
    <3> QED  BY <3>1 DEF IInv, Own
  <2>6. bpc = "unlink" => \A i \in Workers : wpc'[Mine(i)] = "gone"
    BY <2>2 DEF IInv, Own, Down
  <2> QED  BY <2>1, <2>3, <2>4, <2>5, <2>6 DEF Own, Waits, Down
<1>5. OldBlocked'
  BY <1>2 DEF IInv, OldBlocked, Old, Early, Down, Named
<1> QED  BY <1>1, <1>3, <1>4, <1>5 DEF IInv

LEMMA WorkerDiedInv == IInv /\ WorkerDied => IInv'
<1> SUFFICES ASSUME IInv, WorkerDied PROVE IInv'  OBVIOUS
<1> USE DEF WorkerDied, fileVars, bossVars, workerVars, boundVars
<1>1. TypeOK'  BY DEF IInv, TypeOK
<1> QED  BY <1>1, QuietInv

(* a worker that is gone, whatever its end was *)
LEMMA GoneWorker ==
  ASSUME IInv, NEW p \in Procs, Gone(p), wpc[p] # "none",
         UNCHANGED <<fileVars, bossVars, handler, alive_workers, at, crashed, crashes>>,
         kills' \in 0 .. MAX_KILLS
  PROVE  IInv'
<1> USE DEF fileVars, bossVars
<1>1. /\ wpc' = [wpc EXCEPT ![p] = "gone"]
      /\ zombies' \in {zombies, zombies \union {p}}
      /\ pending' \in {pending, pending \/ handler}
  BY DEF Gone
<1>2. pending' \in BOOLEAN  BY <1>1 DEF IInv, TypeOK
<1>3. TypeOK'  BY <1>1, <1>2 DEF IInv, TypeOK
<1>4. \A q \in Procs : wpc'[q] = wpc[q] \/ (q = p /\ wpc'[q] = "gone")
  BY <1>1 DEF IInv, TypeOK
<1> QED  BY <1>3, <1>4, QuietInv

(* a worker that now waits in the FIFO it has looked up *)
LEMMA LookupInv ==
  ASSUME IInv, NEW p \in Procs, wpc[p] \in {"start", "between"},
         NEW name \in {To(p[2]), From(p[2])}, NEW state \in {"open to", "open from"},
         Lookup(p, name, state),
         UNCHANGED <<fileVars, bossVars, handler, alive_workers, boundVars>>
  PROVE  IInv'
<1> USE DEF fileVars, bossVars, boundVars
<1>1. CASE names[name] = None
  <2>1. kills \in 0 .. MAX_KILLS  BY DEF IInv, TypeOK
  <2>2. Gone(p) /\ UNCHANGED at  BY <1>1 DEF Lookup
  <2> QED  BY <2>1, <2>2, GoneWorker
<1>2. CASE names[name] # None
  <2>0. /\ wpc' = [wpc EXCEPT ![p] = state] /\ at' = [at EXCEPT ![p] = names[name]]
        /\ UNCHANGED <<pending, zombies>>
    BY <1>2 DEF Lookup
  <2>1. name \in Names /\ names[name] \in 0 .. made
    <3>1. p[2] \in Workers  BY Pairs
    <3>2. name \in Names  BY <3>1, Places
    <3> QED  BY <3>2 DEF IInv, TypeOK
  <2>2. TypeOK'  BY <2>0, <2>1 DEF IInv, TypeOK
  <2>3. /\ wpc'[p] = state /\ at'[p] = names[name]
        /\ \A q \in Procs : q # p => wpc'[q] = wpc[q] /\ at'[q] = at[q]
    BY <2>0 DEF IInv, TypeOK
  <2>4. Loops' /\ MadeSoFar' /\ NothingLeft'
    BY DEF IInv, Loops, MadeSoFar, NothingLeft, Down
  <2>5. Fifos'  BY <2>3, <1>2 DEF IInv, Fifos, Waits
  <2>6. Own'
    <3>1. \A i \in Workers : Mine(i)' = Mine(i) /\ (Mine(i) = p => i = p[2])
      <4>1. \A i : <<session, i>>[2] = i  OBVIOUS
      <4> QED  BY <4>1 DEF Mine
    <3>2. ~Down => \A i \in Workers : Mine(i) \in Procs  BY DEF IInv, Loops, Mine, Procs
    <3>3. \A q \in Procs : q[1] > session' => wpc'[q] = "none"  BY <2>3 DEF IInv, Own
    <3>4. bpc \in {"make", "fork"} => \A i \in Workers : From(i) >= k => wpc'[Mine(i)] = "none"
      BY <2>3, <3>2 DEF IInv, Own, Down
    <3>5. ~Down => \A i \in Workers : wpc'[Mine(i)] \in {"open to", "open from"} =>
                                        at'[Mine(i)] \in {names[To(i)], names[From(i)]}
      <4> SUFFICES ASSUME ~Down, NEW i \in Workers, wpc'[Mine(i)] \in {"open to", "open from"}
                   PROVE  at'[Mine(i)] \in {names[To(i)], names[From(i)]}
        OBVIOUS
      <4>1. CASE Mine(i) = p  BY <4>1, <3>1, <2>3
      <4>2. CASE Mine(i) # p
        <5>1. Waits(Mine(i)) /\ at'[Mine(i)] = at[Mine(i)]  BY <4>2, <2>3, <3>2 DEF Waits
        <5> QED  BY <5>1 DEF IInv, Own
      <4> QED  BY <4>1, <4>2
    <3>6. bpc = "unlink" => \A i \in Workers : wpc'[Mine(i)] = "gone"
      BY <2>3, <3>2 DEF IInv, Own, Down
    <3> QED  BY <3>1, <3>3, <3>4, <3>5, <3>6 DEF Own, Waits, Down
  <2>7. OldBlocked'
    <3> SUFFICES ASSUME NEW q \in Procs, Old(q), wpc'[q] \in {"start", "between"} \/ Named(q)'
                 PROVE  names[1] # None /\ Early
      BY DEF OldBlocked, Old, Early, Down
    <3>1. wpc[q] \in {"start", "between"} \/ Named(q)  BY <2>3 DEF Named, Waits
    <3> QED  BY <3>1 DEF IInv, OldBlocked
  <2> QED  BY <2>2, <2>4, <2>5, <2>6, <2>7 DEF IInv
<1> QED  BY <1>1, <1>2

LEMMA OpenInv == ASSUME NEW p \in Procs PROVE IInv /\ (OpenTo(p) \/ OpenFrom(p)) => IInv'
<1>1. ASSUME IInv, OpenTo(p) PROVE IInv'  BY <1>1, LookupInv DEF OpenTo
<1>2. ASSUME IInv, OpenFrom(p) PROVE IInv'  BY <1>2, LookupInv DEF OpenFrom
<1> QED  BY <1>1, <1>2

LEMMA EndInv == ASSUME NEW p \in Procs PROVE IInv /\ (WorkerEnds(p) \/ Kill(p)) => IInv'
<1>0. IInv => kills \in 0 .. MAX_KILLS  BY DEF IInv, TypeOK
<1>1. ASSUME IInv, WorkerEnds(p) PROVE IInv'
  BY <1>0, <1>1, GoneWorker DEF WorkerEnds, boundVars
<1>2. ASSUME IInv, Kill(p) PROVE IInv'
  <2>1. kills' \in 0 .. MAX_KILLS  BY <1>0, <1>2, Bounds DEF Kill
  <2> QED  BY <1>2, <2>1, GoneWorker DEF Kill
<1> QED  BY <1>1, <1>2
-----------------------------------------------------------------------------
LEMMA NextIInv == IInv /\ [Next]_vars => IInv'
<1> SUFFICES ASSUME IInv, [Next]_vars PROVE IInv'  OBVIOUS
<1>1. CASE BossStep
  BY <1>1, MakeFifoInv, RefuseInv, ForkInv, SetHandlerInv, SetAliveWorkersInv, TestAliveInv,
     ReapedInv, UnlinkInv, WorkerDiedInv DEF BossStep
<1>2. CASE StartSearch \/ Exit \/ HandlerCrashes \/ Crash \/ Restart \/ CleanFifos
  BY <1>2, StartSearchInv, ExitInv, HandlerCrashesInv, CrashInv, RestartInv, CleanFifosInv
<1>3. CASE \E p \in Procs : \/ MeetTo(p) \/ MeetFrom(p) \/ OpenTo(p) \/ OpenFrom(p)
                            \/ WorkerEnds(p) \/ Kill(p)
  BY <1>3, MeetToInv, MeetFromInv, OpenInv, EndInv
<1>4. CASE UNCHANGED vars
  <2> USE <1>4 DEF vars, fileVars, bossVars, signalVars, workerVars, boundVars
  <2>1. TypeOK'  BY DEF IInv, TypeOK
  <2> QED  BY <2>1, QuietInv
<1> QED  BY <1>1, <1>2, <1>3, <1>4 DEF Next

(* The names and the workers of every session, and of the dead ones, stay in order (IInv). *)
THEOREM IInvHolds == Spec => []IInv
BY InitIInv, NextIInv, PTL DEF Spec

(***************************************************************************)
(* open_fifos() never joins the job executor to a worker that a dead       *)
(* process has left behind, for any number of workers, sessions, crashes   *)
(* and kills.                                                              *)
(***************************************************************************)
THEOREM OwnWorkersHolds == Spec => []OwnWorkers
BY IInvHolds, InvOwnWorkers, PTL

(***************************************************************************)
(* start_search() refuses a session only after a process died in one: what *)
(* job_executor() unlinks at its end is all that start_search() makes.     *)
(***************************************************************************)
THEOREM RefusedAfterCrashHolds == Spec => []RefusedAfterCrash
BY IInvHolds, InvRefused, PTL
=============================================================================
