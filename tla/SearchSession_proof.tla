------------------------ MODULE SearchSession_proof ------------------------
(***************************************************************************)
(* Proofs about SearchSession, for every number of workers, all sites and  *)
(* words, and every capacity of the FIFOs.                                 *)
(***************************************************************************)
EXTENDS SearchSession, Data_proof

-----------------------------------------------------------------------------
(* How the directories are dealt out. *)

LEMMA DirsTyped == Dirs \in Seq(Range(Dirs)) /\ Len(Dirs) \in Nat
  BY SessionAssumption

LEMMA ShareFacts ==
  ASSUME NEW i \in Workers
  PROVE  /\ Share(i) \in Nat /\ First(i) \in Nat
         /\ First(i) + Share(i) <= Len(Dirs)
         /\ i = 1 => First(i) = 0
         /\ i = N => First(i) + Share(i) = Len(Dirs)
         /\ i < N => First(i + 1) = First(i) + Share(i)
<1> DEFINE q == Len(Dirs) \div N
           r == Len(Dirs) % N
<1>1. q \in Nat /\ r \in 0 .. N - 1 /\ Len(Dirs) = N * q + r /\ N \in Nat \ {0} /\ Len(Dirs) \in Nat
  BY Division, DirsTyped, SessionAssumption
<1>2. i \in Nat /\ i >= 1 /\ i <= N /\ (i + 1) - 1 = i
  BY <1>1 DEF Workers
<1>3. /\ Share(i) = q + IF i <= r THEN 1 ELSE 0
      /\ First(i) = (i - 1) * q + IF i - 1 <= r THEN i - 1 ELSE r
      /\ First(i + 1) = i * q + IF i <= r THEN i ELSE r
  <2>1. Share(i) = q + IF i <= r THEN 1 ELSE 0
    BY DEF Share
  <2>2. First(i) = (i - 1) * q + IF i - 1 <= r THEN i - 1 ELSE r
    BY DEF First
  <2>3. First(i + 1) = ((i + 1) - 1) * q + IF (i + 1) - 1 <= r THEN (i + 1) - 1 ELSE r
    BY DEF First
  <2> HIDE DEF q, r
  <2> QED BY <2>1, <2>2, <2>3, <1>2
<1> HIDE DEF q, r
<1>4. i * q = (i - 1) * q + q /\ (i - 1) * q \in Nat
  BY <1>1, <1>2
<1>5. N * q = i * q + (N - i) * q /\ (N - i) * q \in Nat /\ i * q \in Nat
  BY <1>1, <1>2
<1>6. Share(i) \in Nat /\ First(i) \in Nat
  BY <1>1, <1>2, <1>3, <1>4
<1>7. First(i) + Share(i) <= Len(Dirs)
  BY <1>1, <1>2, <1>3, <1>4, <1>5
<1>8. i = 1 => First(i) = 0
  BY <1>1, <1>3
<1>9. i = N => First(i) + Share(i) = Len(Dirs)
  BY <1>1, <1>2, <1>3, <1>4
<1>10. i < N => First(i + 1) = First(i) + Share(i)
  BY <1>1, <1>2, <1>3, <1>4
<1> QED BY <1>6, <1>7, <1>8, <1>9, <1>10

LEMMA InShare ==
  ASSUME NEW i \in Workers, NEW k \in 1 .. Share(i)
  PROVE  First(i) + k \in 1 .. Len(Dirs) /\ Dirs[First(i) + k] \in Range(Dirs)
<1>1. First(i) + k \in 1 .. Len(Dirs)
  BY ShareFacts, DirsTyped
<1> QED BY <1>1 DEF Range

LEMMA DirsOfTyped ==
  ASSUME NEW i \in Workers
  PROVE  /\ DirsOf(i) \in Seq(Range(Dirs)) /\ Len(DirsOf(i)) = Share(i)
         /\ \A k \in 1 .. Share(i) : DirsOf(i)[k] = Dirs[First(i) + k]
<1>1. Share(i) \in Nat
  BY ShareFacts
<1>2. \A k \in 1 .. Share(i) : Dirs[First(i) + k] \in Range(Dirs)
  BY InShare
<1> QED BY <1>1, <1>2 DEF DirsOf

-----------------------------------------------------------------------------
(* What is written into the FIFOs. *)

Lines == Found(Range(Dirs), Vocabulary)
Commands == {"/search", "/wc", "/maxcount", "/exit", "exit"}
Values == UNION {Range(Dirs), Vocabulary, Lines, Nat, Commands, {"finished_preprocessing", None}}
MsgKinds == {"dir", "sent", "cmd", "count", "query", "msg", "int", "n", "path", "index", "line"}
Message == [kind : MsgKinds, val : Values]

LEMMA MsgTyped ==
  ASSUME NEW k \in MsgKinds, NEW v \in Values
  PROVE  Msg(k, v) \in Message /\ Msg(k, v).kind = k /\ Msg(k, v).val = v
  BY DEF Msg, Message

LEMMA ValuesOf ==
  /\ \A d \in Range(Dirs) : d \in Values
  /\ \A q \in Vocabulary : q \in Values
  /\ \A l \in Lines : l \in Values
  /\ \A n \in Nat : n \in Values
  /\ \A t \in Commands : t \in Values
  /\ None \in Values /\ "finished_preprocessing" \in Values
  BY DEF Values

LEMMA DirLetterFacts ==
  ASSUME NEW i \in Workers
  PROVE  /\ DirLetter(i) \in Seq(Message) /\ Len(DirLetter(i)) = Share(i) + 1
         /\ \A k \in 1 .. Share(i) : DirLetter(i)[k] = Msg("dir", DirsOf(i)[k])
         /\ DirLetter(i)[Share(i) + 1] = Msg("sent", None)
<1> DEFINE l == [k \in DOMAIN DirsOf(i) |-> Msg("dir", DirsOf(i)[k])]
           m == <<Msg("sent", None)>>
<1>1. DOMAIN DirsOf(i) = 1 .. Share(i) /\ Share(i) \in Nat /\ DirsOf(i) \in Seq(Range(Dirs))
  BY DirsOfTyped, ShareFacts
<1>2. \A k \in 1 .. Share(i) : Msg("dir", DirsOf(i)[k]) \in Message
  BY <1>1, DirsOfTyped, MsgTyped, ValuesOf DEF MsgKinds, Commands
<1>3. l \in Seq(Message) /\ Len(l) = Share(i) /\ \A k \in 1 .. Share(i) : l[k] = Msg("dir", DirsOf(i)[k])
  BY <1>1, <1>2
<1>4. m \in Seq(Message) /\ Len(m) = 1 /\ m[1] = Msg("sent", None)
  BY MsgTyped, ValuesOf DEF MsgKinds, Commands
<1>5. DirLetter(i) = l \o m
  BY DEF DirLetter
<1> HIDE DEF l, m
<1>6. l \in Seq(Message) /\ m \in Seq(Message)
  BY <1>3, <1>4
<1>7. /\ l \o m \in Seq(Message) /\ Len(l \o m) = Len(l) + Len(m)
      /\ \A k \in 1 .. Len(l) : (l \o m)[k] = l[k]
      /\ \A k \in 1 .. Len(m) : (l \o m)[k + Len(l)] = m[k]
  BY <1>6, Concat
<1> QED BY <1>1, <1>3, <1>4, <1>5, <1>7

LEMMA SearchLetterFacts ==
  ASSUME NEW qs \in Seq(Vocabulary)
  PROVE  /\ SearchLetter(qs) \in Seq(Message) /\ Len(SearchLetter(qs)) = Len(qs) + 2
         /\ SearchLetter(qs)[1] = Msg("cmd", "/search")
         /\ SearchLetter(qs)[2] = Msg("count", Len(qs))
         /\ \A k \in 1 .. Len(qs) : SearchLetter(qs)[k + 2] = Msg("query", qs[k])
<1> DEFINE l == <<Msg("cmd", "/search"), Msg("count", Len(qs))>>
           m == [k \in DOMAIN qs |-> Msg("query", qs[k])]
<1>1. l \in Seq(Message) /\ Len(l) = 2 /\ l[1] = Msg("cmd", "/search") /\ l[2] = Msg("count", Len(qs))
  <2>1. Len(qs) \in Nat
    OBVIOUS
  <2> QED BY <2>1, MsgTyped, ValuesOf DEF MsgKinds, Commands
<1>2. \A k \in 1 .. Len(qs) : Msg("query", qs[k]) \in Message
  BY MsgTyped, ValuesOf DEF MsgKinds, Commands
<1>3. m \in Seq(Message) /\ Len(m) = Len(qs) /\ \A k \in 1 .. Len(qs) : m[k] = Msg("query", qs[k])
  BY <1>2
<1>4. SearchLetter(qs) = l \o m
  BY DEF SearchLetter
<1> HIDE DEF l, m
<1>5. l \in Seq(Message) /\ m \in Seq(Message)
  BY <1>1, <1>3
<1>6. /\ l \o m \in Seq(Message) /\ Len(l \o m) = Len(l) + Len(m)
      /\ \A k \in 1 .. Len(l) : (l \o m)[k] = l[k]
      /\ \A k \in 1 .. Len(m) : (l \o m)[k + Len(l)] = m[k]
  BY <1>5, Concat
<1> QED BY <1>1, <1>3, <1>4, <1>6

LEMMA CommandLetter ==
  ASSUME NEW t \in Commands
  PROVE  /\ <<Msg("cmd", t)>> \in Seq(Message) /\ Len(<<Msg("cmd", t)>>) = 1
         /\ <<Msg("cmd", t)>>[1] = Msg("cmd", t)
  BY MsgTyped, ValuesOf DEF MsgKinds, Commands

(* The words of a search, each once, are words of the vocabulary, and not none. *)
LEMMA UniqueFacts ==
  ASSUME NEW words \in Requests
  PROVE  Unique(words) \in Seq(Vocabulary) /\ Unique(words) # <<>>
<1> DEFINE V == Seq(Vocabulary)
           Add(v, k) == IF words[k] \in Range(v) THEN v ELSE Append(v, words[k])
           step == [p \in V \X Nat |-> Add(p[1], p[2])]
           Unq(f) == f = [k \in 0 .. Len(words) |->
                        IF k = 0 THEN <<>>
                        ELSE IF words[k] \in Range(f[k - 1]) THEN f[k - 1]
                        ELSE Append(f[k - 1], words[k])]
<1>1. words \in Seq(Vocabulary) /\ Len(words) \in Nat /\ Len(words) > 0
  BY SessionAssumption
<1>2. \A v \in V, k \in 1 .. Len(words) : step[<<v, k>>] = Add(v, k) /\ Add(v, k) \in V
  BY <1>1
<1>3. <<>> \in V
  OBVIOUS
<1>4. PICK f : Computes(f, V, <<>>, step, Len(words))
  <2> HIDE DEF V, step, Unq, Add
  <2>1. IsStep(V, step, Len(words))
    BY <1>2 DEF IsStep
  <2> QED BY <1>1, <1>3, <2>1, Recursion
<1>5. Unq(f)
  <2> HIDE DEF step, V
  <2>1. ASSUME NEW k \in 1 .. Len(words) PROVE f[k] = Add(f[k - 1], k)
    <3>1. f[k - 1] \in V
      BY <1>1, <1>4 DEF Computes
    <3> QED BY <1>2, <1>4, <3>1 DEF Computes
  <2>2. ASSUME NEW k \in 0 .. Len(words) PROVE f[k] = IF k = 0 THEN <<>> ELSE Add(f[k - 1], k)
    <3> HIDE DEF Add
    <3>1. k # 0 => k \in 1 .. Len(words)
      BY <1>1
    <3> QED BY <2>1, <1>4, <3>1 DEF Computes
  <2>3. f = [k \in 0 .. Len(words) |-> f[k]]
    BY <1>4 DEF Computes
  <2> QED BY <2>2, <2>3
<1>6. \E g : Unq(g) /\ Unique(words) = g[Len(words)]
  <2>1. Unique(words) = (CHOOSE g : Unq(g))[Len(words)]
    BY DEF Unique
  <2> HIDE DEF Unq
  <2> QED BY <1>5, <2>1, Zenon
<1>7. PICK g : Unq(g) /\ Unique(words) = g[Len(words)]
  BY <1>6
<1> HIDE DEF V, step
<1>8. g[0] = <<>> /\ \A k \in 1 .. Len(words) : g[k] = Add(g[k - 1], k)
  <2>1. 0 \in 0 .. Len(words) /\ \A k \in 1 .. Len(words) : k \in 0 .. Len(words) /\ k # 0
    BY <1>1
  <2>2. \A k \in 0 .. Len(words) : g[k] = IF k = 0 THEN <<>>
                        ELSE IF words[k] \in Range(g[k - 1]) THEN g[k - 1]
                        ELSE Append(g[k - 1], words[k])
    BY <1>7
  <2> HIDE DEF Unq
  <2>3. g[0] = <<>>
    BY <2>1, <2>2
  <2> QED BY <2>1, <2>2, <2>3
<1> DEFINE T == {n \in Nat : n <= Len(words) => g[n] \in V /\ (n > 0 => g[n] # <<>>)}
<1> USE DEF V
<1>9. 0 \in T
  <2>1. g[0] \in V
    BY <1>3, <1>8
  <2> QED BY <2>1
<1>10. ASSUME NEW n \in T PROVE n + 1 \in T
  <2>1. SUFFICES ASSUME n + 1 <= Len(words) PROVE g[n + 1] \in V /\ g[n + 1] # <<>>
    OBVIOUS
  <2>2. g[n] \in V /\ g[n + 1] = Add(g[n], n + 1)
    BY <1>1, <1>8, <2>1
  <2>3. words[n + 1] \in Vocabulary
    BY <1>1, <2>1
  <2>4. words[n + 1] \in Range(g[n]) => g[n] # <<>>
    BY DEF Range
  <2>5. g[n + 1] \in V
    BY <2>2, <2>3
  <2>6. Append(g[n], words[n + 1]) # <<>>
    BY <2>2, <2>3
  <2> QED BY <2>2, <2>4, <2>5, <2>6
<1>11. Len(words) \in T
  <2>1. T \subseteq Nat
    OBVIOUS
  <2> HIDE DEF T
  <2>2. T = Nat
    BY <1>9, <1>10, <2>1, Induction
  <2> QED BY <2>2, <1>1
<1> QED BY <1>1, <1>7, <1>11

-----------------------------------------------------------------------------
(* The answers of a search. *)

LEMMA RangeFinite ==
  ASSUME NEW S, NEW s \in Seq(S)
  PROVE  IsFiniteSet(Range(s)) /\ Range(s) \subseteq S
<1>1. s \in Surjection(1 .. Len(s), Range(s))
  BY DEF Surjection, Range
<1>2. Len(s) \in Nat
  OBVIOUS
<1>3. IsFiniteSet(1 .. Len(s))
  BY <1>2, FS_Interval
<1>4. IsFiniteSet(Range(s))
  BY <1>1, <1>3, FS_Surjection
<1> QED BY <1>4 DEF Range

LEMMA FoundFinite ==
  ASSUME NEW D \in SUBSET Range(Dirs), NEW Q \in SUBSET Vocabulary, IsFiniteSet(D), IsFiniteSet(Q)
  PROVE  IsFiniteSet(Found(D, Q)) /\ Found(D, Q) \subseteq Lines /\ None \notin Found(D, Q)
<1> DEFINE T == {Hits[d][q] : d \in D, q \in Q}
           f == [p \in D \X Q |-> Hits[p[1]][p[2]]]
<1>1. f \in Surjection(D \X Q, T)
  <2>1. f \in [D \X Q -> T]
    OBVIOUS
  <2>2. ASSUME NEW t \in T PROVE \E p \in D \X Q : f[p] = t
    <3>1. PICK d \in D, q \in Q : t = Hits[d][q]
      OBVIOUS
    <3>2. <<d, q>> \in D \X Q /\ f[<<d, q>>] = t
      BY <3>1
    <3> QED BY <3>2
  <2> HIDE DEF f, T
  <2> QED BY <2>1, <2>2 DEF Surjection
<1>2. IsFiniteSet(D \X Q)
  BY FS_Product
<1>3. IsFiniteSet(T)
  <2> HIDE DEF f, T
  <2> QED BY <1>1, <1>2, FS_Surjection
<1>4. \A t \in T : IsFiniteSet(t) /\ None \notin t
  BY SessionAssumption
<1>5. IsFiniteSet(UNION T)
  <2> HIDE DEF T
  <2> QED BY <1>3, <1>4, FS_UNION
<1>6. Found(D, Q) = UNION T
  BY DEF Found
<1>7. UNION T \subseteq Lines
  BY DEF Lines, Found
<1> QED BY <1>4, <1>5, <1>6, <1>7

LEMMA SetToSeqFacts ==
  ASSUME NEW S, IsFiniteSet(S)
  PROVE  /\ SetToSeq(S) \in Seq(S) /\ Len(SetToSeq(S)) = Cardinality(S)
         /\ Range(SetToSeq(S)) = S
         /\ Cardinality(S) \in Nat /\ (Cardinality(S) > 0 <=> S # {})
<1> DEFINE n == Cardinality(S)
           Good(f) == f \in [1 .. n -> S] /\ IsInjective(f)
<1>1. n \in Nat /\ ExistsBijection(1 .. n, S) /\ (n = 0 <=> S = {})
  BY FS_CardinalityType, FS_EmptySet
<1>2. \E f : Good(f)
  BY <1>1 DEF ExistsBijection, Bijection, Injection, IsInjective
<1>3. Good(SetToSeq(S))
  <2>1. SetToSeq(S) = CHOOSE f \in [1 .. n -> S] : IsInjective(f)
    BY DEF SetToSeq
  <2> QED BY <1>2, <2>1, Zenon
<1> DEFINE f == SetToSeq(S)
<1> HIDE DEF f, n
<1>4. f \in [1 .. n -> S] /\ IsInjective(f)
  BY <1>3 DEF f, n
<1>5. f \in Injection(1 .. n, S)
  BY <1>4 DEF Injection, IsInjective
<1>6. IsFiniteSet(1 .. n) /\ Cardinality(1 .. n) = n
  BY <1>1, FS_Interval
<1>7. f \in Surjection(1 .. n, S)
  BY <1>5, <1>6, FS_Injection DEF n
<1>8. f \in Seq(S) /\ Len(f) = n /\ Range(f) = S
  BY <1>1, <1>4, <1>7 DEF Surjection, Range
<1> QED BY <1>1, <1>8 DEF f, n

LEMMA PartsFacts ==
  ASSUME NEW v \in Int
  PROVE  /\ Parts(v) \in Seq(MsgKinds) /\ Len(Parts(v)) = IF v > 0 THEN 3 * v ELSE 0
         /\ \A k \in 1 .. Len(Parts(v)) : Parts(v)[k] = Part(k) /\ Part(k) # "n"
         /\ Parts(v) # <<"n">>
<1>1. \A k \in Int : Part(k) \in MsgKinds \ {"n"}
  BY DEF Part, MsgKinds
<1>2. CASE v > 0
  <2>1. 3 * v \in Nat
    BY <1>2
  <2>2. Parts(v) \in Seq(MsgKinds) /\ Len(Parts(v)) = 3 * v /\ \A k \in 1 .. 3 * v : Parts(v)[k] = Part(k)
    BY <1>1, <2>1 DEF Parts
  <2> QED BY <1>1, <1>2, <2>2
<1>3. CASE ~(v > 0)
  <2>1. 1 .. 3 * v = {}
    BY <1>3
  <2>2. Parts(v) = <<>>
    BY <2>1 DEF Parts
  <2> QED BY <1>3, <2>2
<1> QED BY <1>2, <1>3

(* what a worker answers a search with: the lines F *)
AnswersWith(a, lines, F) ==
  /\ a \in Seq(Message) /\ Len(lines) \in Nat /\ Len(a) = 3 * Len(lines) + 1
  /\ a[1] = Msg("n", Len(lines)) /\ (Len(lines) > 0 <=> F # {})
  /\ \A k \in 2 .. Len(a) : a[k].kind = Part(k - 1)
  /\ \A k \in 1 .. Len(a) : a[k].kind = "line" => a[k].val \in F
  /\ \A l \in F : \E k \in 1 .. Len(a) : a[k] = Msg("line", l)

LEMMA AnswerFacts ==
  ASSUME NEW D \in SUBSET Range(Dirs), NEW Q \in SUBSET Vocabulary, IsFiniteSet(D), IsFiniteSet(Q),
         NEW lines, lines = SetToSeq(Found(D, Q)),
         NEW a, a = <<Msg("n", Len(lines))>> \o LineAnswers(lines)
  PROVE  AnswersWith(a, lines, Found(D, Q))
<1> DEFINE F == Found(D, Q)
           n == Len(lines)
           b == LineAnswers(lines)
           m == Msg("n", n)
<1>1. F \subseteq Lines /\ IsFiniteSet(F) /\ None \notin F
  BY FoundFinite
<1>2. lines \in Seq(F) /\ n \in Nat /\ Range(lines) = F /\ (n > 0 <=> F # {})
  BY <1>1, SetToSeqFacts
<1> HIDE DEF F, n
<1>3. \A k \in 1 .. 3 * n : k % 3 = 0 => k \div 3 \in 1 .. n /\ lines[k \div 3] \in F
  BY <1>2 DEF n
<1>4. \A k \in Int : Part(k) \in MsgKinds /\ (Part(k) = "line" <=> k % 3 = 0)
  BY DEF Part, MsgKinds
<1>5. \A k \in 1 .. 3 * n :
         /\ b[k] = Msg(Part(k), IF k % 3 = 0 THEN lines[k \div 3] ELSE None)
         /\ b[k] \in Message /\ b[k].kind = Part(k)
         /\ k % 3 = 0 => b[k] = Msg("line", lines[k \div 3]) /\ b[k].val \in F
  <2> SUFFICES ASSUME NEW k \in 1 .. 3 * n
               PROVE  /\ b[k] = Msg(Part(k), IF k % 3 = 0 THEN lines[k \div 3] ELSE None)
                      /\ b[k] \in Message /\ b[k].kind = Part(k)
                      /\ k % 3 = 0 => b[k] = Msg("line", lines[k \div 3]) /\ b[k].val \in F
    OBVIOUS
  <2> DEFINE v == IF k % 3 = 0 THEN lines[k \div 3] ELSE None
  <2>1. b[k] = Msg(Part(k), v)
    BY DEF LineAnswers, n
  <2>2. v \in Values /\ (k % 3 = 0 => v \in F)
    BY <1>1, <1>3, ValuesOf
  <2>3. Part(k) \in MsgKinds /\ (k % 3 = 0 => Part(k) = "line")
    BY <1>2, <1>4
  <2>4. Msg(Part(k), v) \in Message /\ Msg(Part(k), v).kind = Part(k) /\ Msg(Part(k), v).val = v
    <3> HIDE DEF v
    <3> QED BY <2>2, <2>3, MsgTyped
  <2> QED BY <2>1, <2>2, <2>3, <2>4
<1>6. b \in Seq(Message) /\ Len(b) = 3 * n
  <2>1. 3 * n \in Nat /\ DOMAIN b = 1 .. 3 * n /\ b = [k \in 1 .. 3 * n |-> b[k]]
    BY <1>2 DEF LineAnswers, n
  <2> HIDE DEF b
  <2> QED BY <2>1, <1>5
<1> HIDE DEF b
<1>7. m \in Message /\ m.kind = "n" /\ m.val = n
  BY <1>2, MsgTyped, ValuesOf DEF MsgKinds
<1>8. <<m>> \in Seq(Message) /\ Len(<<m>>) = 1 /\ <<m>>[1] = m /\ a = <<m>> \o b
  <2>1. a = <<m>> \o b
    BY DEF b, n, m
  <2> HIDE DEF m
  <2>2. <<m>> \in Seq(Message) /\ Len(<<m>>) = 1 /\ <<m>>[1] = m
    BY <1>7
  <2> QED BY <2>1, <2>2
<1> HIDE DEF m
<1>9. a \in Seq(Message) /\ Len(a) = 3 * n + 1 /\ a[1] = m /\ \A k \in 1 .. 3 * n : a[k + 1] = b[k]
  <2> DEFINE s == <<m>>
  <2>1. s \in Seq(Message) /\ Len(s) = 1 /\ s[1] = m /\ a = s \o b
    BY <1>8
  <2> HIDE DEF s
  <2>2. s \in Seq(Message) /\ b \in Seq(Message)
    BY <1>6, <2>1
  <2>3. /\ s \o b \in Seq(Message) /\ Len(s \o b) = Len(s) + Len(b)
        /\ \A k \in 1 .. Len(s) : (s \o b)[k] = s[k]
        /\ \A k \in 1 .. Len(b) : (s \o b)[k + Len(s)] = b[k]
    BY <2>2, Concat
  <2>4. Len(a) = 3 * n + 1 /\ a[1] = m
    BY <1>2, <1>6, <2>1, <2>3
  <2>5. \A k \in 1 .. 3 * n : a[k + 1] = b[k]
    BY <1>6, <2>1, <2>3
  <2> QED BY <2>1, <2>3, <2>4, <2>5
<1>10. \A k \in 2 .. Len(a) : k - 1 \in 1 .. 3 * n /\ a[k] = b[k - 1]
  BY <1>2, <1>9
<1>11. \A k \in 2 .. Len(a) : a[k].kind = Part(k - 1)
  BY <1>5, <1>10
<1>12. \A k \in 1 .. Len(a) : a[k].kind = "line" => a[k].val \in F
  <2> SUFFICES ASSUME NEW k \in 1 .. Len(a), a[k].kind = "line" PROVE a[k].val \in F
    OBVIOUS
  <2>1. k # 1
    BY <1>7, <1>9
  <2>2. k \in 2 .. Len(a)
    BY <1>2, <1>9, <2>1
  <2>3. k - 1 \in 1 .. 3 * n /\ a[k] = b[k - 1] /\ Part(k - 1) = "line"
    BY <1>10, <1>11, <2>2
  <2> QED BY <1>4, <1>5, <2>3
<1>13. \A l \in F : \E k \in 1 .. Len(a) : a[k] = Msg("line", l)
  <2> SUFFICES ASSUME NEW l \in F PROVE \E k \in 1 .. Len(a) : a[k] = Msg("line", l)
    OBVIOUS
  <2>1. PICK j \in 1 .. n : lines[j] = l
    BY <1>2 DEF Range, n
  <2>2. 3 * j \in 1 .. 3 * n /\ (3 * j) % 3 = 0 /\ (3 * j) \div 3 = j
    BY <1>2
  <2>3. b[3 * j] = Msg("line", l)
    BY <1>5, <2>1, <2>2
  <2>4. 3 * j + 1 \in 1 .. Len(a) /\ a[3 * j + 1] = Msg("line", l)
    BY <1>2, <1>9, <2>2, <2>3
  <2> QED BY <2>4
<1> QED BY <1>2, <1>9, <1>11, <1>12, <1>13 DEF F, n, m, AnswersWith

-----------------------------------------------------------------------------
(***************************************************************************)
(* The inductive invariant.  Down(i) is what worker i has yet to receive   *)
(* of the letter of the task, Up(i) the values it has answered with and    *)
(* the boss has not read, Exp(i) the values that the boss has yet to read. *)
(***************************************************************************)
BossStates == {"idle", "fork", "open", "send", "write", "read", "get",
               "verdict", "prompt", "bye", "wait", "dead"}
WorkerStates == {"none", "open", "load", "ready", "number", "queries", "answer",
                 "last_answer", "bye", "closed", "ended"}

Types ==
  /\ fifos \in SUBSET Workers /\ missing \in SUBSET MayBeMissing
  /\ bpc \in BossStates /\ task \in Commands \union {"dirs", None}
  /\ outbox \in [Workers -> Seq(Message)] /\ expect \in [Workers -> Seq(MsgKinds)]
  /\ queries \in Seq(Vocabulary)
  /\ alive_workers \in [Workers -> BOOLEAN] /\ zombies \in SUBSET Workers
  /\ some_worker_died \in BOOLEAN /\ timeout \in BOOLEAN /\ sigchld \in BOOLEAN
  /\ none_query_found \in BOOLEAN
  /\ wpc \in [Workers -> WorkerStates]
  /\ wdirs \in [Workers -> Seq(Range(Dirs))]
  /\ need \in [Workers -> Nat] /\ asked \in [Workers -> SUBSET Vocabulary]
  /\ reply \in [Workers -> Seq(Message)]
  /\ down \in [Workers -> Seq(Message)] /\ up \in [Workers -> Seq(Message)]
  /\ \A i \in Workers : Len(down[i]) <= PIPE /\ Len(up[i]) <= PIPE

Before == bpc \in {"idle", "fork", "open"}
Down(i) == down[i] \o outbox[i]
Up(i)   == up[i] \o reply[i]
Exp(i)  == IF bpc \in {"send", "write"} THEN Kinds(task) ELSE expect[i]
Mine(i) == Found(Range(wdirs[i]), Range(queries))

(* the boss: where in a task it is *)
Phase ==
  /\ bpc \notin {"send", "write", "dead"} => outbox = Nothing
  /\ bpc \in {"send", "write"} => ~Done(outbox)
  /\ bpc \notin {"read", "get", "dead"} => expect = Nothing
  /\ bpc \in {"read", "get"} => ~Done(expect) /\ task # "exit"
  /\ ~Before => task \in Commands \union {"dirs"}
  /\ bpc = "prompt" => task \in {"dirs", "/search", "/wc", "/maxcount"}
  /\ bpc = "verdict" => task = "/search"
  /\ bpc = "bye" => task = "/exit"
  /\ bpc = "wait" => task = "exit"
  /\ ~Before /\ task = "/search" => queries # <<>>
  /\ \A i \in Workers : "n" \in Range(expect[i]) => expect[i] = <<"n">>

(* a child that was reaped, or whose mark was taken back, has ended *)
Marks ==
  /\ \A i \in zombies : wpc[i] = "ended"
  /\ bpc \notin {"idle", "fork"} => \A i \in Workers : alive_workers[i] \/ wpc[i] = "ended"

(* until the first letters go out nothing is in the FIFOs *)
Opening ==
  /\ fifos = 1 .. Cardinality(fifos) /\ Cardinality(fifos) \in 0 .. N
  /\ bpc = "idle" => fifos = {}
  /\ bpc = "fork" => Cardinality(fifos) < N
  /\ bpc \notin {"idle", "fork"} => fifos = Workers
  /\ bpc \in {"idle", "fork"} => \A i \in Workers : wpc[i] = IF i \in fifos THEN "open" ELSE "none"
  /\ bpc = "open" => /\ \A i \in Workers : wpc[i] \in {"open", "load", "closed", "ended"}
                     /\ \A i, j \in Workers : i <= j /\ wpc[i] = "open" => wpc[j] = "open"
                     /\ wpc[N] = "open"
  /\ ~Before => \A i \in Workers : wpc[i] \notin {"none", "open"}
  /\ Before => \A i \in Workers : down[i] = <<>> /\ up[i] = <<>> /\ reply[i] = <<>> /\ wdirs[i] = <<>>

LetterOf(i) == CASE task = "dirs"    -> DirLetter(i)
                 [] task = "/search" -> SearchLetter(queries)
                 [] OTHER            -> <<Msg("cmd", task)>>

(* a live worker: what it has yet to receive is what its state waits for *)
Stage(i) ==
  /\ wpc[i] \in {"load", "ready", "number", "queries", "answer", "last_answer", "bye"}
  /\ wpc[i] = "load" => task = "dirs" /\ Down(i) = Drop(DirLetter(i), Len(wdirs[i]))
  /\ wpc[i] = "ready" => /\ reply[i] = <<>> /\ task # "exit"
                         /\ \/ Down(i) = <<>> /\ task # "/exit"
                            \/ Down(i) = LetterOf(i) /\ task # "dirs"
  /\ wpc[i] = "number" => task = "/search" /\ Down(i) = Drop(SearchLetter(queries), 1)
  /\ wpc[i] = "queries" => /\ task = "/search" /\ need[i] \in 1 .. Len(queries)
                           /\ Down(i) = Drop(SearchLetter(queries), Len(queries) + 2 - need[i])
                           /\ asked[i] = {queries[k] : k \in 1 .. Len(queries) - need[i]}
  /\ wpc[i] = "answer" => task \notin {"/exit", "exit"} /\ Down(i) = <<>> /\ reply[i] # <<>>
  /\ wpc[i] = "last_answer" => task = "/exit" /\ Down(i) = <<>> /\ reply[i] # <<>>
  /\ wpc[i] = "bye" => /\ reply[i] = <<>>
                       /\ \/ Down(i) = <<>> /\ task = "/exit"
                          \/ Down(i) = LetterOf(i) /\ task = "exit"

(* values U are the first, or (Complete) all of those of which kinds E are expected *)
FitsIn(U, E) ==
  \/ U = <<>>
  \/ /\ E # <<"n">> /\ Len(U) <= Len(E)
     /\ \A k \in 1 .. Len(U) : U[k].kind = E[k]
  \/ /\ E = <<"n">> /\ U # <<>> /\ U[1].kind = "n" /\ U[1].val \in Nat
     /\ Len(U) <= 3 * U[1].val + 1
     /\ \A k \in 2 .. Len(U) : U[k].kind = Part(k - 1)
Complete(U, E) ==
  /\ E = <<"n">> => U # <<>> /\ Len(U) = 3 * U[1].val + 1
  /\ E # <<"n">> => Len(U) = Len(E)

(* every line in U is one of worker i for the words of this search *)
Content(i, U) == \A k \in 1 .. Len(U) : U[k].kind = "line" => U[k].val \in Mine(i)

(* the boss may still read what worker i wrote *)
Heard(i) == alive_workers[i] \/ (bpc = "get" /\ Turn(expect) = i)

Talk(i) ==
  /\ Heard(i) => FitsIn(up[i], Exp(i)) /\ Content(i, up[i])
  /\ ~Gone(i) =>
       /\ Down(i) # <<>> => Up(i) = <<>> /\ Exp(i) = Kinds(task)
       /\ Down(i) = <<>> => FitsIn(Up(i), Exp(i)) /\ Complete(Up(i), Exp(i)) /\ Content(i, Up(i))

(* each worker has loaded the first of its directories, behind "load" all of them *)
Loaded(i) ==
  /\ Range(wdirs[i]) \subseteq Inhabited
  /\ Len(wdirs[i]) <= Share(i)
  /\ \A k \in 1 .. Len(wdirs[i]) : wdirs[i][k] = DirsOf(i)[k]
  /\ wpc[i] \notin {"none", "open", "load", "closed", "ended"} => Len(wdirs[i]) = Share(i)

(* the lines of a worker that has searched are sent to the commander, or on their way *)
Told(i) ==
  Down(i) = <<>> =>
    /\ \A l \in Mine(i) : l \in printed \/ \E k \in 1 .. Len(Up(i)) : Up(i)[k] = Msg("line", l)
    /\ Exp(i) = <<"n">> => (Up(i)[1].val > 0 <=> Mine(i) # {})
    /\ Exp(i) # <<"n">> => (Mine(i) # {} => ~none_query_found)

Searching == task = "/search" /\ bpc \in {"send", "write", "read", "get", "verdict"}

Stages == ~Before => \A i \in Workers : ~Gone(i) => Stage(i)
Talks  == ~Before /\ bpc # "dead" => \A i \in Workers : Talk(i)
Loads  == \A i \in Workers : Loaded(i)
NoneInvented == printed \subseteq Expected \union {Garbage}
Honest == (~Before /\ task = "/search" /\ AllUp) =>
             printed \subseteq Expected /\ (~none_query_found => Expected # {})
Exact  == (Searching /\ ~timeout /\ ~some_worker_died /\ AllUp) => \A i \in Workers : Told(i)

IInv ==
  /\ Types /\ Phase /\ Marks /\ Opening
  /\ Stages /\ Talks /\ Loads
  /\ NoneInvented /\ Honest /\ Exact

-----------------------------------------------------------------------------
LEMMA WorkersFacts == N \in Nat \ {0} /\ 1 \in Workers /\ N \in Workers /\ Workers \subseteq Nat /\ PIPE \in Nat
  BY SessionAssumption DEF Workers

LEMMA KindsTyped ==
  ASSUME NEW t \in Commands \union {"dirs"}
  PROVE  /\ Kinds(t) \in Seq(MsgKinds)
         /\ t # "exit" => Kinds(t) # <<>>
         /\ t = "exit" => Kinds(t) = <<>>
         /\ t = "/search" => Kinds(t) = <<"n">>
         /\ t # "/search" => \A k \in 1 .. Len(Kinds(t)) : Kinds(t)[k] \in {"msg", "int"}
<1>1. CASE t = "dirs"
  BY <1>1 DEF Kinds, MsgKinds
<1>2. CASE t = "/search"
  BY <1>2 DEF Kinds, MsgKinds
<1>3. CASE t = "/wc"
  BY <1>3 DEF Kinds, MsgKinds
<1>4. CASE t = "/maxcount"
  BY <1>4 DEF Kinds, MsgKinds
<1>5. CASE t = "/exit"
  BY <1>5 DEF Kinds, MsgKinds
<1>6. CASE t = "exit"
  BY <1>6 DEF Kinds, MsgKinds
<1> QED BY <1>1, <1>2, <1>3, <1>4, <1>5, <1>6 DEF Commands

(* the worker whose turn it is *)
LEMMA TurnFacts ==
  ASSUME NEW box, ~Done(box)
  PROVE  Turn(box) \in Workers /\ box[Turn(box)] # <<>>
<1> DEFINE T == {i \in Workers : box[i] # <<>>}
<1>1. T \subseteq Nat /\ T # {}
  BY WorkersFacts DEF Done
<1>2. PICK i \in T : \A j \in T : i <= j
  <2> HIDE DEF T
  <2> QED BY <1>1, Least
<1>3. \A j \in 1 .. i - 1 : j \in Workers /\ ~(i <= j)
  BY <1>2, WorkersFacts DEF Workers
<1>4. i \in Workers /\ box[i] # <<>> /\ \A j \in 1 .. i - 1 : box[j] = <<>>
  BY <1>2, <1>3
<1> QED BY <1>4, Zenon DEF Turn

LEMMA InitInv == Init => IInv
<1> SUFFICES ASSUME Init PROVE IInv
  OBVIOUS
<1>1. IsFiniteSet({}) /\ Cardinality({}) = 0
  BY FS_EmptySet
<1>2. bpc = "idle" /\ Before /\ outbox = Nothing /\ expect = Nothing /\ queries = <<>> /\ printed = {}
  BY DEF Init, Before
<1>3. <<>> \in Seq(Message) /\ <<>> \in Seq(MsgKinds) /\ <<>> \in Seq(Vocabulary) /\ <<>> \in Seq(Range(Dirs))
  OBVIOUS
<1>4. Types
  <2>1. \A S : <<>> \in S => [i \in Workers |-> <<>>] \in [Workers -> S]
    OBVIOUS
  <2>2. /\ outbox \in [Workers -> Seq(Message)] /\ expect \in [Workers -> Seq(MsgKinds)]
        /\ wdirs \in [Workers -> Seq(Range(Dirs))] /\ reply \in [Workers -> Seq(Message)]
        /\ down \in [Workers -> Seq(Message)] /\ up \in [Workers -> Seq(Message)]
    BY <1>3, <2>1 DEF Init, Nothing
  <2>3. \A i \in Workers : Len(down[i]) <= PIPE /\ Len(up[i]) <= PIPE
    BY WorkersFacts DEF Init
  <2>4. /\ alive_workers \in [Workers -> BOOLEAN] /\ wpc \in [Workers -> WorkerStates]
        /\ need \in [Workers -> Nat] /\ asked \in [Workers -> SUBSET Vocabulary]
    BY DEF Init, WorkerStates
  <2> QED BY <2>2, <2>3, <2>4, <1>3 DEF Init, Types, BossStates
<1>5. Phase
  BY <1>2 DEF Phase, Nothing, Range
<1>6. Marks
  BY DEF Init, Marks
<1>7. Opening
  <2>1. 1 .. 0 = {} /\ 0 \in 0 .. N /\ 0 < N
    BY WorkersFacts
  <2> QED BY <1>1, <1>2, <2>1 DEF Init, Opening
<1>8. Stages /\ Talks /\ Honest /\ Exact
  BY <1>2 DEF Stages, Talks, Honest, Exact, Searching
<1>9. Loads
  BY <1>2, ShareFacts DEF Init, Loads, Loaded, Range
<1>10. NoneInvented
  BY <1>2 DEF NoneInvented
<1> QED BY <1>4, <1>5, <1>6, <1>7, <1>8, <1>9, <1>10 DEF IInv

-----------------------------------------------------------------------------
(* What a worker receives. *)

LEMMA ReceivedHead ==
  ASSUME Types, NEW i \in Workers, down[i] # <<>>
  PROVE  /\ Down(i) \in Seq(Message) /\ Down(i) # <<>>
         /\ Head(down[i]) = Head(Down(i))
         /\ Tail(down[i]) \o outbox[i] = Tail(Down(i))
<1>1. down[i] \in Seq(Message) /\ outbox[i] \in Seq(Message)
  BY DEF Types
<1> DEFINE s == down[i]
           t == outbox[i]
<1>2. /\ s \o t \in Seq(Message) /\ s \o t # <<>>
      /\ Head(s \o t) = Head(s) /\ Tail(s \o t) = Tail(s) \o t
  <2>1. s \in Seq(Message) /\ t \in Seq(Message) /\ s # <<>>
    BY <1>1
  <2> HIDE DEF s, t
  <2> QED BY <2>1, Concat
<1> QED BY <1>2 DEF Down

LEMMA LoadHead ==
  ASSUME IInv, ~Before, NEW i \in Workers, wpc[i] = "load", down[i] # <<>>
  PROVE  LET k == Len(wdirs[i])
         IN  /\ k \in 0 .. Share(i)
             /\ k < Share(i) => Head(down[i]) = Msg("dir", DirsOf(i)[k + 1])
             /\ k = Share(i) => Head(down[i]) = Msg("sent", None)
             /\ Tail(down[i]) \o outbox[i] = Drop(DirLetter(i), k + 1)
<1>1. Types /\ Stage(i) /\ Loaded(i)
  BY DEF IInv, Stages, Loads, Gone
<1>2. Down(i) = Drop(DirLetter(i), Len(wdirs[i]))
  BY <1>1 DEF Stage
<1>3. Len(wdirs[i]) \in 0 .. Share(i)
  <2>1. wdirs[i] \in Seq(Range(Dirs))
    BY <1>1 DEF Types
  <2> QED BY <1>1, <2>1, ShareFacts DEF Loaded
<1>4. DirLetter(i) \in Seq(Message) /\ Len(DirLetter(i)) = Share(i) + 1 /\ Share(i) \in Nat
  BY DirLetterFacts, ShareFacts
<1> DEFINE k == Len(wdirs[i])
<1>5. Head(Down(i)) = DirLetter(i)[k + 1] /\ Tail(Down(i)) = Drop(DirLetter(i), k + 1)
  <2>1. k \in 0 .. Len(DirLetter(i)) /\ k < Len(DirLetter(i))
    BY <1>3, <1>4
  <2> HIDE DEF k
  <2>2. /\ Head(Drop(DirLetter(i), k)) = DirLetter(i)[k + 1]
        /\ Tail(Drop(DirLetter(i), k)) = Drop(DirLetter(i), k + 1)
    BY <1>4, <2>1, DropFacts
  <2> QED BY <1>2, <2>2 DEF k
<1>6. Head(down[i]) = Head(Down(i)) /\ Tail(down[i]) \o outbox[i] = Tail(Down(i))
  BY <1>1, ReceivedHead
<1>7. /\ k \in 0 .. Share(i)
      /\ k < Share(i) => DirLetter(i)[k + 1] = Msg("dir", DirsOf(i)[k + 1])
      /\ k = Share(i) => DirLetter(i)[k + 1] = Msg("sent", None)
  <2>1. k \in 0 .. Share(i)
    BY <1>3
  <2> HIDE DEF k
  <2>2. k < Share(i) => k + 1 \in 1 .. Share(i)
    BY <2>1, <1>4
  <2> QED BY <2>1, <2>2, DirLetterFacts
<1> QED BY <1>5, <1>6, <1>7

LEMMA LetterOfCommand ==
  ASSUME Types, Phase, ~Before, task # "dirs"
  PROVE  /\ LetterOf(1) \in Seq(Message) /\ Len(LetterOf(1)) >= 1
         /\ LetterOf(1)[1] = Msg("cmd", task)
         /\ task # "/search" => Len(LetterOf(1)) = 1
         /\ task = "/search" => LetterOf(1) = SearchLetter(queries)
<1>1. task \in Commands /\ queries \in Seq(Vocabulary)
  BY DEF Types, Phase
<1>2. CASE task = "/search"
  BY <1>1, <1>2, SearchLetterFacts DEF LetterOf
<1>3. CASE task # "/search"
  BY <1>1, <1>3, CommandLetter DEF LetterOf
<1> QED BY <1>2, <1>3

LEMMA CommandHead ==
  ASSUME IInv, ~Before, NEW i \in Workers, wpc[i] \in {"ready", "bye"}, down[i] # <<>>
  PROVE  /\ task \in Commands /\ (wpc[i] = "bye" <=> task = "exit")
         /\ Head(down[i]) = Msg("cmd", task)
         /\ task # "/search" => Tail(down[i]) \o outbox[i] = <<>>
         /\ task = "/search" => Tail(down[i]) \o outbox[i] = Drop(SearchLetter(queries), 1)
<1>1. Types /\ Phase /\ Stage(i)
  BY DEF IInv, Stages, Gone
<1>2. Down(i) # <<>> /\ Head(down[i]) = Head(Down(i)) /\ Tail(down[i]) \o outbox[i] = Tail(Down(i))
  BY <1>1, ReceivedHead
<1>3. Down(i) = LetterOf(i) /\ task # "dirs" /\ (wpc[i] = "bye" <=> task = "exit")
  BY <1>1, <1>2 DEF Stage
<1>4. LetterOf(i) = LetterOf(1) /\ task \in Commands
  BY <1>1, <1>3 DEF LetterOf, Phase
<1>5. LetterOf(1) \in Seq(Message) /\ Len(LetterOf(1)) >= 1 /\ LetterOf(1)[1] = Msg("cmd", task)
  BY <1>1, <1>3, LetterOfCommand
<1>6. Head(Down(i)) = Msg("cmd", task)
  BY <1>3, <1>4, <1>5
<1>7. task # "/search" => Tail(Down(i)) = <<>>
  <2>1. task # "/search" => Len(LetterOf(1)) = 1
    BY <1>1, <1>3, LetterOfCommand
  <2>2. Len(LetterOf(1)) = 1 => Tail(LetterOf(1)) = <<>>
    BY <1>5, TailOfOne
  <2> QED BY <2>1, <2>2, <1>3, <1>4, <1>5
<1>8. task = "/search" => Tail(Down(i)) = Drop(SearchLetter(queries), 1)
  <2>1. task = "/search" => LetterOf(1) = SearchLetter(queries)
    BY <1>1, <1>3, LetterOfCommand
  <2>2. Drop(LetterOf(1), 0) = LetterOf(1) /\ Tail(Drop(LetterOf(1), 0)) = Drop(LetterOf(1), 1)
    <3> DEFINE l == LetterOf(1)
    <3>1. l \in Seq(Message) /\ 0 \in 0 .. Len(l) /\ 0 < Len(l)
      BY <1>5
    <3> HIDE DEF l
    <3>2. Tail(Drop(l, 0)) = Drop(l, 0 + 1) /\ Drop(l, 0) = l
      BY <3>1, DropNone, DropFacts
    <3> QED BY <3>2 DEF l
  <2> QED BY <2>1, <2>2, <1>3, <1>4
<1> QED BY <1>2, <1>3, <1>4, <1>6, <1>7, <1>8

LEMMA NumberHead ==
  ASSUME IInv, ~Before, NEW i \in Workers, wpc[i] = "number", down[i] # <<>>
  PROVE  /\ Head(down[i]) = Msg("count", Len(queries))
         /\ Len(queries) \in Nat \ {0}
         /\ Tail(down[i]) \o outbox[i] = Drop(SearchLetter(queries), 2)
<1>1. Types /\ Phase /\ Stage(i)
  BY DEF IInv, Stages, Gone
<1>2. Head(down[i]) = Head(Down(i)) /\ Tail(down[i]) \o outbox[i] = Tail(Down(i))
  BY <1>1, ReceivedHead
<1>3. Down(i) = Drop(SearchLetter(queries), 1) /\ task = "/search"
  BY <1>1 DEF Stage
<1>4. queries \in Seq(Vocabulary) /\ queries # <<>> /\ Len(queries) \in Nat \ {0}
  BY <1>1, <1>3 DEF Types, Phase
<1>5. SearchLetter(queries) \in Seq(Message) /\ Len(SearchLetter(queries)) = Len(queries) + 2
      /\ SearchLetter(queries)[2] = Msg("count", Len(queries))
  BY <1>4, SearchLetterFacts
<1> DEFINE l == SearchLetter(queries)
<1>6. Head(Down(i)) = l[2] /\ Tail(Down(i)) = Drop(l, 2)
  <2>1. l \in Seq(Message) /\ 1 \in 0 .. Len(l) /\ 1 < Len(l) /\ Down(i) = Drop(l, 1)
    BY <1>3, <1>4, <1>5
  <2> HIDE DEF l
  <2>2. Head(Down(i)) = l[1 + 1] /\ Tail(Down(i)) = Drop(l, 1 + 1) /\ 1 + 1 = 2
    BY <2>1, DropFacts
  <2> QED BY <2>2
<1> QED BY <1>2, <1>4, <1>5, <1>6

LEMMA QueryHead ==
  ASSUME IInv, ~Before, NEW i \in Workers, wpc[i] = "queries", down[i] # <<>>
  PROVE  LET k == Len(queries) + 1 - need[i]
         IN  /\ k \in 1 .. Len(queries) /\ Head(down[i]) = Msg("query", queries[k])
             /\ Tail(down[i]) \o outbox[i] = Drop(SearchLetter(queries), k + 2)
<1>1. Types /\ Phase /\ Stage(i)
  BY DEF IInv, Stages, Gone
<1>2. Head(down[i]) = Head(Down(i)) /\ Tail(down[i]) \o outbox[i] = Tail(Down(i))
  BY <1>1, ReceivedHead
<1>3. Down(i) = Drop(SearchLetter(queries), Len(queries) + 2 - need[i]) /\ need[i] \in 1 .. Len(queries)
  BY <1>1 DEF Stage
<1>4. queries \in Seq(Vocabulary) /\ Len(queries) \in Nat
  BY <1>1 DEF Types
<1> DEFINE k == Len(queries) + 1 - need[i]
           l == SearchLetter(queries)
<1>5. SearchLetter(queries) \in Seq(Message) /\ Len(SearchLetter(queries)) = Len(queries) + 2
      /\ k \in 1 .. Len(queries) /\ SearchLetter(queries)[k + 2] = Msg("query", queries[k])
  <2>1. k \in 1 .. Len(queries)
    BY <1>3, <1>4
  <2> HIDE DEF k
  <2> QED BY <2>1, <1>4, SearchLetterFacts
<1>6. Down(i) = Drop(l, k + 1)
  <2>1. k + 1 = Len(queries) + 2 - need[i]
    BY <1>3, <1>4
  <2> QED BY <1>3, <2>1
<1>7. l \in Seq(Message) /\ k + 1 \in 0 .. Len(l) /\ k + 1 < Len(l) /\ (k + 1) + 1 = k + 2
  <2> HIDE DEF k
  <2> QED BY <1>4, <1>5
<1>8. Head(Down(i)) = l[k + 2] /\ Tail(Down(i)) = Drop(l, k + 2)
  <2> DEFINE m == k + 1
  <2>1. m \in 0 .. Len(l) /\ m < Len(l) /\ m + 1 = k + 2 /\ Down(i) = Drop(l, m) /\ l \in Seq(Message)
    BY <1>6, <1>7
  <2> HIDE DEF l, m
  <2>2. Head(Drop(l, m)) = l[m + 1] /\ Tail(Drop(l, m)) = Drop(l, m + 1)
    BY <2>1, DropFacts
  <2> QED BY <2>1, <2>2
<1> QED BY <1>2, <1>5, <1>8

(* nothing is received in any other state *)
LEMMA NothingToReceive ==
  ASSUME IInv, ~Before, NEW i \in Workers, wpc[i] \in {"answer", "last_answer"}
  PROVE  Down(i) = <<>> /\ down[i] = <<>> /\ outbox[i] = <<>>
<1>1. Down(i) = <<>> /\ down[i] \in Seq(Message) /\ outbox[i] \in Seq(Message)
  BY DEF IInv, Stages, Stage, Gone, Types
<1>2. down[i] \o outbox[i] = <<>> <=> down[i] = <<>> /\ outbox[i] = <<>>
  BY <1>1, Concat
<1> QED BY <1>1, <1>2 DEF Down

-----------------------------------------------------------------------------
(* What a step does not touch stays as it is. *)

Still(i) ==
  /\ wpc'[i] = wpc[i] /\ wdirs'[i] = wdirs[i] /\ need'[i] = need[i] /\ asked'[i] = asked[i]
  /\ reply'[i] = reply[i] /\ up'[i] = up[i] /\ Down(i)' = Down(i)

LEMMA StillStage ==
  ASSUME NEW i \in Workers, Stage(i), Still(i), UNCHANGED <<task, queries>>
  PROVE  Stage(i)'
<1>1. Down(i)' = Down(i) /\ LetterOf(i)' = LetterOf(i)
  BY DEF Still, LetterOf
<1> QED BY <1>1 DEF Stage, Still

LEMMA StillTalk ==
  ASSUME NEW i \in Workers, Talk(i), Still(i), UNCHANGED <<task, queries>>,
         Exp(i)' = Exp(i), Heard(i)' => Heard(i)
  PROVE  Talk(i)'
<1>1. Down(i)' = Down(i) /\ Up(i)' = Up(i) /\ Mine(i)' = Mine(i) /\ Gone(i)' = Gone(i)
  BY DEF Still, Up, Mine, Gone
<1>2. /\ FitsIn(up[i], Exp(i))' = FitsIn(up[i], Exp(i)) /\ Content(i, up[i])' = Content(i, up[i])
      /\ FitsIn(Up(i), Exp(i))' = FitsIn(Up(i), Exp(i)) /\ Complete(Up(i), Exp(i))' = Complete(Up(i), Exp(i))
      /\ Content(i, Up(i))' = Content(i, Up(i))
  BY <1>1 DEF Still, FitsIn, Content, Complete
<1>3. Kinds(task)' = Kinds(task)
  BY DEF Kinds
<1> QED BY <1>1, <1>2, <1>3 DEF Talk

LEMMA StillLoaded ==
  ASSUME NEW i \in Workers, Loaded(i), wdirs'[i] = wdirs[i], UNCHANGED missing,
         wpc'[i] \in {wpc[i], "none", "open", "load", "closed", "ended"}
  PROVE  Loaded(i)'
<1>1. (Range(wdirs[i]) \subseteq Inhabited)' = (Range(wdirs[i]) \subseteq Inhabited)
  BY DEF Inhabited, Range
<1> QED BY <1>1 DEF Loaded

LEMMA StillTold ==
  ASSUME NEW i \in Workers, Told(i), Still(i), UNCHANGED queries, Exp(i)' = Exp(i),
         printed \subseteq printed', none_query_found' => none_query_found
  PROVE  Told(i)'
<1>1. Down(i)' = Down(i) /\ Up(i)' = Up(i) /\ Mine(i)' = Mine(i)
  BY DEF Still, Up, Mine
<1> QED BY <1>1 DEF Told

(* a step that leaves every worker as it is *)
LEMMA AllStill ==
  ASSUME IInv, ~Before, bpc # "dead", \A i \in Workers : Still(i),
         UNCHANGED <<task, queries, missing>>,
         bpc' # "dead" => \A i \in Workers : Exp(i)' = Exp(i) /\ (Heard(i)' => Heard(i))
  PROVE  Stages' /\ Talks' /\ Loads'
<1>1. ASSUME NEW i \in Workers, ~Gone(i)' PROVE Stage(i)'
  <2>1. Stage(i)
    BY <1>1 DEF IInv, Stages, Still, Gone
  <2> QED BY <2>1, StillStage
<1>2. ASSUME NEW i \in Workers, bpc' # "dead" PROVE Talk(i)'
  <2>1. Talk(i)
    BY DEF IInv, Talks
  <2> QED BY <1>2, <2>1, StillTalk
<1>3. ASSUME NEW i \in Workers PROVE Loaded(i)'
  <2>1. Loaded(i)
    BY DEF IInv, Loads
  <2> QED BY <2>1, StillLoaded DEF Still
<1> QED BY <1>1, <1>2, <1>3 DEF Stages, Talks, Loads

(* and a step of worker i alone *)
LEMMA OneMoves ==
  ASSUME IInv, ~Before, bpc # "dead", UNCHANGED <<missing, bossVars, answerVars>>,
         UNCHANGED <<alive_workers, timeout, some_worker_died>>,
         NEW i \in Workers, \A j \in Workers \ {i} : Still(j),
         ~Gone(i)' => ~Gone(i) /\ Stage(i)', Talk(i)', Loaded(i)',
         Searching /\ Told(i) /\ ~Gone(i)' => Told(i)',
         UNCHANGED fifos, wpc'[i] \notin {"none", "open"}, wpc[i] # "ended",
         \A j \in zombies' : j \in zombies \/ wpc'[j] = "ended", Types'
  PROVE  IInv'
<1>1. /\ Before' = Before /\ Expected' = Expected /\ Searching' = Searching
      /\ \A j \in Workers : Exp(j)' = Exp(j) /\ Heard(j)' = Heard(j)
  BY DEF Before, bossVars, answerVars, Expected, Inhabited, Searching, Exp, Heard
<1>2. ASSUME NEW j \in Workers PROVE (~Gone(j)' => ~Gone(j) /\ Stage(j)') /\ Talk(j)' /\ Loaded(j)'
  <2>1. CASE j # i
    <3>1. Still(j) /\ (~Gone(j) => Stage(j)) /\ Talk(j) /\ Loaded(j)
      BY <2>1 DEF IInv, Stages, Talks, Loads
    <3>2. ~Gone(j)' => ~Gone(j)
      BY <3>1 DEF Still, Gone
    <3>3. UNCHANGED <<task, queries, missing>>
      BY DEF bossVars
    <3>4. ~Gone(j) => Stage(j)'
      BY <3>1, <3>3, StillStage
    <3>5. Talk(j)'
      BY <3>1, <3>3, <1>1, StillTalk
    <3>6. Loaded(j)'
      BY <3>1, <3>3, StillLoaded DEF Still
    <3> QED BY <3>2, <3>4, <3>5, <3>6
  <2> QED BY <2>1
<1>3. AllUp' => AllUp
  BY <1>2 DEF AllUp
<1>4. ASSUME Searching, ~timeout, ~some_worker_died, AllUp', NEW j \in Workers PROVE Told(j)'
  <2>1. Told(j)
    BY <1>3, <1>4 DEF IInv, Exact
  <2>2. CASE j # i
    BY <1>1, <2>1, <2>2, StillTold DEF bossVars, answerVars
  <2>3. CASE j = i
    BY <1>4, <2>1, <2>3 DEF AllUp
  <2> QED BY <2>2, <2>3
<1>5. Phase'
  BY DEF IInv, Phase, Before, bossVars, Done, Nothing
<1>6. Stages' /\ Talks' /\ Loads'
  BY <1>2 DEF Stages, Talks, Loads
<1>7. NoneInvented' /\ Honest'
  BY <1>1, <1>3 DEF IInv, NoneInvented, Honest, answerVars, bossVars
<1>8. Exact'
  BY <1>1, <1>4 DEF Exact
<1>9. Marks'
  <2>1. \A j \in zombies : j \in Workers \ {i} /\ wpc'[j] = "ended"
    BY DEF IInv, Marks, Types, Still
  <2>2. \A j \in Workers : alive_workers[j] \/ wpc'[j] = "ended"
    BY DEF IInv, Marks, Before, Still
  <2> QED BY <2>1, <2>2 DEF Marks
<1>10. Opening'
  <2>1. \A j \in Workers : wpc'[j] \notin {"none", "open"}
    BY DEF IInv, Opening, Still
  <2>2. bpc' = bpc
    BY DEF bossVars
  <2> QED BY <1>1, <2>1, <2>2 DEF IInv, Opening, Before
<1> QED BY <1>5, <1>6, <1>7, <1>8, <1>9, <1>10 DEF IInv

(* A worker receives only when it has answered and the boss has read everything. *)
LEMMA Receiving ==
  ASSUME IInv, NEW i \in Workers, NEW state \in WorkerStates, Receive(i, state), UNCHANGED outbox
  PROVE  /\ ~Before /\ bpc # "dead" /\ wpc[i] = state /\ down[i] # <<>>
         /\ Down(i)' = Tail(down[i]) \o outbox[i]
         /\ \A j \in Workers \ {i} : Down(j)' = Down(j)
         /\ down' \in [Workers -> Seq(Message)] /\ \A j \in Workers : Len(down'[j]) <= PIPE
         /\ state \notin {"closed", "ended"} => Up(i) = <<>> /\ up[i] = <<>> /\ reply[i] = <<>> /\ Exp(i) = Kinds(task)
<1>1. Types /\ Opening /\ Talks /\ bpc # "dead" /\ wpc[i] = state /\ down[i] # <<>>
  BY DEF IInv, Receive
<1>2. ~Before
  BY <1>1 DEF Opening
<1>3. down \in [Workers -> Seq(Message)] /\ down' = [down EXCEPT ![i] = Tail(@)]
  BY <1>1 DEF Types, Receive
<1>4. down'[i] = Tail(down[i]) /\ \A j \in Workers \ {i} : down'[j] = down[j]
  BY <1>3
<1>5. Tail(down[i]) \in Seq(Message) /\ Len(Tail(down[i])) <= PIPE
  <2>1. down[i] \in Seq(Message) /\ Len(down[i]) <= PIPE /\ PIPE \in Nat
    BY <1>1, WorkersFacts DEF Types
  <2> QED BY <1>1, <2>1
<1>6. down' \in [Workers -> Seq(Message)] /\ \A j \in Workers : Len(down'[j]) <= PIPE
  <2>1. \A j \in Workers : down'[j] \in Seq(Message) /\ Len(down'[j]) <= PIPE
    BY <1>1, <1>3, <1>4, <1>5 DEF Types
  <2> QED BY <1>3, <2>1
<1>7. state \notin {"closed", "ended"} => Up(i) = <<>> /\ Exp(i) = Kinds(task)
  BY <1>1, <1>2, ReceivedHead DEF Talks, Talk, Gone
<1>8. Up(i) = <<>> => up[i] = <<>> /\ reply[i] = <<>>
  <2>1. up[i] \in Seq(Message) /\ reply[i] \in Seq(Message)
    BY <1>1 DEF Types
  <2> QED BY <2>1, Concat DEF Up
<1> QED BY <1>1, <1>2, <1>4, <1>6, <1>7, <1>8 DEF Down

(* Talk of a worker none of whose answers is on its way, or that has just prepared them *)
LEMMA SilentTalk ==
  ASSUME NEW i \in Workers, up[i]' = <<>>, reply[i]' = <<>>, Down(i)' # <<>>, Exp(i)' = Kinds(task)'
  PROVE  Talk(i)'
<1>1. FitsIn(<<>>, Exp(i)') /\ Len(<<>>) = 0 /\ 1 .. 0 = {} /\ <<>> \o <<>> = <<>>
  BY DEF FitsIn
<1> QED BY <1>1 DEF Talk, Content, FitsIn, Up

LEMMA ReadyTalk ==
  ASSUME NEW i \in Workers, up[i]' = <<>>, reply[i]' \in Seq(Message), Down(i)' = <<>>,
         FitsIn(reply[i], Exp(i))', Complete(reply[i], Exp(i))', Content(i, reply[i])'
  PROVE  Talk(i)' /\ Up(i)' = reply[i]'
<1>1. FitsIn(<<>>, Exp(i)') /\ Len(<<>>) = 0 /\ 1 .. 0 = {} /\ <<>> \o reply[i]' = reply[i]'
  BY DEF FitsIn
<1> QED BY <1>1 DEF Talk, Content, FitsIn, Complete, Up

-----------------------------------------------------------------------------
(* The steps of a worker. *)

LEMMA LoadStep ==
  ASSUME IInv, NEW i \in Workers, Load(i)
  PROVE  IInv'
<1> DEFINE m == Head(down[i])
           k == Len(wdirs[i])
<1>1. Receive(i, "load") /\ UNCHANGED <<envVars, bossVars, answerVars, signalVars, need, asked, up>>
  BY DEF Load
<1>2. UNCHANGED <<outbox, expect, task, queries, bpc, missing, fifos>> /\ Kinds(task)' = Kinds(task)
  BY <1>1 DEF bossVars, envVars
<1>3. /\ ~Before /\ bpc # "dead" /\ wpc[i] = "load" /\ down[i] # <<>>
      /\ Down(i)' = Tail(down[i]) \o outbox[i]
      /\ \A j \in Workers \ {i} : Down(j)' = Down(j)
      /\ down' \in [Workers -> Seq(Message)] /\ \A j \in Workers : Len(down'[j]) <= PIPE
      /\ Up(i) = <<>> /\ up[i] = <<>> /\ reply[i] = <<>> /\ Exp(i) = Kinds(task)
  BY <1>1, <1>2, Receiving DEF WorkerStates
<1>4. Types /\ Stage(i) /\ Loaded(i) /\ Talk(i)
  BY <1>3 DEF IInv, Stages, Loads, Talks, Gone
<1>5. /\ k \in 0 .. Share(i)
      /\ k < Share(i) => m = Msg("dir", DirsOf(i)[k + 1])
      /\ k = Share(i) => m = Msg("sent", None)
      /\ Down(i)' = Drop(DirLetter(i), k + 1)
  BY <1>3, LoadHead
<1>6. DirLetter(i) \in Seq(Message) /\ Len(DirLetter(i)) = Share(i) + 1 /\ Share(i) \in Nat
  BY DirLetterFacts, ShareFacts
<1>7. Down(i)' = <<>> <=> k = Share(i)
  <2>1. k + 1 \in 0 .. Len(DirLetter(i))
    BY <1>5, <1>6
  <2> HIDE DEF k
  <2>2. Drop(DirLetter(i), k + 1) = <<>> <=> k + 1 = Len(DirLetter(i))
    BY <1>6, <2>1, DropFacts
  <2> QED BY <1>5, <1>6, <2>2
<1>8. task = "dirs" /\ ~Searching /\ Exp(i)' = Exp(i) /\ Exp(i) = <<"msg">> /\ Heard(i)' = Heard(i)
  <2>1. alive_workers' = alive_workers
    BY <1>1 DEF signalVars
  <2> QED BY <1>2, <1>3, <1>4, <2>1 DEF Stage, Searching, Exp, Kinds, Heard
<1>9. UNCHANGED <<missing, bossVars, answerVars, alive_workers, timeout, some_worker_died, sigchld, zombies>>
  BY <1>1 DEF envVars, signalVars
<1>10. CASE m.kind = "sent"
  <2>1. /\ wpc' = [wpc EXCEPT ![i] = "answer"]
        /\ reply' = [reply EXCEPT ![i] = <<Msg("msg", "finished_preprocessing")>>]
        /\ wdirs' = wdirs
    BY <1>10 DEF Load
  <2>2. k = Share(i)
    BY <1>5, <1>6, <1>10 DEF Msg
  <2> DEFINE a == <<Msg("msg", "finished_preprocessing")>>
  <2>3. a \in Seq(Message) /\ Len(a) = 1 /\ a[1].kind = "msg" /\ a # <<>>
    BY MsgTyped, ValuesOf DEF MsgKinds
  <2>4. /\ wpc'[i] = "answer" /\ reply'[i] = a
        /\ \A j \in Workers \ {i} : wpc'[j] = wpc[j] /\ reply'[j] = reply[j]
    BY <1>4, <2>1 DEF Types
  <2>5. Types'
    <3>1. wpc' \in [Workers -> WorkerStates]
      BY <1>4, <2>1 DEF Types, WorkerStates
    <3>2. reply' \in [Workers -> Seq(Message)]
      <4> HIDE DEF a
      <4> QED BY <1>4, <2>1, <2>3 DEF Types, a
    <3> QED BY <1>1, <1>3, <1>4, <2>1, <3>1, <3>2 DEF Types, envVars, bossVars, answerVars, signalVars
  <2>6. \A j \in Workers \ {i} : Still(j)
    BY <1>1, <1>3, <2>1, <2>4 DEF Still
  <2>7. Stage(i)'
    BY <1>2, <1>7, <1>8, <2>2, <2>3, <2>4 DEF Stage
  <2>8. Talk(i)'
    <3>1. FitsIn(a, <<"msg">>) /\ Complete(a, <<"msg">>) /\ Content(i, a)'
      BY <2>3 DEF FitsIn, Complete, Content
    <3>2. reply[i]' = a /\ Exp(i)' = <<"msg">>
      BY <1>8, <2>4
    <3>3. reply[i]' \in Seq(Message) /\ FitsIn(reply[i], Exp(i))' /\ Complete(reply[i], Exp(i))' /\ Content(i, reply[i])'
      <4> HIDE DEF a
      <4> QED BY <2>3, <3>1, <3>2 DEF FitsIn, Complete, Content
    <3>4. up[i]' = <<>> /\ Down(i)' = <<>>
      BY <1>1, <1>3, <1>7, <2>2
    <3> QED BY <3>3, <3>4, ReadyTalk
  <2>9. Loaded(i)'
    <3>1. (Range(wdirs[i]) \subseteq Inhabited)' = (Range(wdirs[i]) \subseteq Inhabited)
      BY <1>2, <2>1 DEF Inhabited, Range
    <3> QED BY <1>4, <2>1, <2>2, <3>1 DEF Loaded
  <2>10. ~Gone(i) /\ wpc'[i] \notin {"none", "open"} /\ wpc[i] # "ended"
    BY <1>3, <2>4 DEF Gone
  <2> HIDE DEF a
  <2> QED BY <1>2, <1>3, <1>8, <1>9, <2>5, <2>6, <2>7, <2>8, <2>9, <2>10, OneMoves
<1>11. CASE m.kind # "sent"
  <2>1. k < Share(i) /\ m = Msg("dir", DirsOf(i)[k + 1])
    BY <1>5, <1>6, <1>11 DEF Msg
  <2>2. m.val = DirsOf(i)[k + 1] /\ m.val \in Range(Dirs) /\ reply' = reply
    <3>1. k + 1 \in 1 .. Share(i)
      BY <1>5, <1>6, <2>1
    <3> HIDE DEF k, m
    <3>2. DirsOf(i)[k + 1] = Dirs[First(i) + (k + 1)] /\ Dirs[First(i) + (k + 1)] \in Range(Dirs)
      BY <3>1, DirsOfTyped, InShare
    <3> QED BY <1>11, <2>1, <3>2 DEF Msg, Load, m
  <2>3. Down(i)' # <<>>
    BY <1>6, <1>7, <2>1
  <2>4. Exp(i)' = Kinds(task)' /\ up[i]' = <<>> /\ reply[i]' = <<>>
    BY <1>1, <1>2, <1>3, <1>8, <2>2
  <2>5. Talk(i)'
    BY <2>3, <2>4, SilentTalk
  <2>6. CASE m.val \in missing
    <3>1. wpc' = [wpc EXCEPT ![i] = "closed"] /\ wdirs' = wdirs
      BY <1>11, <2>6 DEF Load
    <3>2. wpc'[i] = "closed" /\ \A j \in Workers \ {i} : wpc'[j] = wpc[j]
      BY <1>4, <3>1 DEF Types
    <3>3. Types'
      <4>1. wpc' \in [Workers -> WorkerStates]
        BY <1>4, <3>1 DEF Types, WorkerStates
      <4> QED BY <1>1, <1>3, <1>4, <2>2, <3>1, <4>1 DEF Types, envVars, bossVars, answerVars, signalVars
    <3>4. \A j \in Workers \ {i} : Still(j)
      BY <1>1, <1>3, <2>2, <3>1, <3>2 DEF Still
    <3>5. Loaded(i)'
      BY <1>2, <1>4, <3>1, <3>2, StillLoaded
    <3>6. Gone(i)' /\ wpc'[i] \notin {"none", "open"} /\ wpc[i] # "ended"
      BY <1>3, <3>2 DEF Gone
    <3> QED BY <1>2, <1>3, <1>8, <1>9, <2>5, <3>3, <3>4, <3>5, <3>6, OneMoves
  <2>7. CASE m.val \notin missing
    <3>1. wdirs' = [wdirs EXCEPT ![i] = Append(@, m.val)] /\ wpc' = wpc
      BY <1>11, <2>7 DEF Load
    <3>2. wdirs'[i] = Append(wdirs[i], m.val) /\ \A j \in Workers \ {i} : wdirs'[j] = wdirs[j]
      BY <1>4, <3>1 DEF Types
    <3>3. wdirs[i] \in Seq(Range(Dirs)) /\ wdirs'[i] \in Seq(Range(Dirs))
      BY <1>4, <2>2, <3>2 DEF Types
    <3>4. /\ Len(wdirs'[i]) = k + 1 /\ wdirs'[i][k + 1] = m.val
          /\ \A h \in 1 .. k : wdirs'[i][h] = wdirs[i][h]
      BY <3>2, <3>3
    <3>5. Types'
      <4>1. wdirs' \in [Workers -> Seq(Range(Dirs))]
        <5>1. \A j \in Workers : wdirs'[j] \in Seq(Range(Dirs))
          BY <1>4, <3>2, <3>3 DEF Types
        <5> QED BY <1>4, <3>1, <5>1 DEF Types
      <4> QED BY <1>1, <1>3, <1>4, <2>2, <3>1, <4>1 DEF Types, envVars, bossVars, answerVars, signalVars
    <3>6. \A j \in Workers \ {i} : Still(j)
      BY <1>1, <1>3, <2>2, <3>1, <3>2 DEF Still
    <3>7. Loaded(i)'
      <4>1. \A h \in 1 .. k + 1 : wdirs'[i][h] = DirsOf(i)[h] /\ wdirs'[i][h] \in Inhabited
        <5>1. \A h \in 1 .. k : wdirs[i][h] = DirsOf(i)[h] /\ wdirs[i][h] \in Inhabited
          BY <1>4, <3>3 DEF Loaded, Range
        <5>2. m.val \in Inhabited
          BY <2>2, <2>7 DEF Inhabited
        <5> QED BY <1>5, <2>2, <3>4, <5>1, <5>2
      <4>2. Range(wdirs'[i]) \subseteq Inhabited'
        BY <1>2, <3>3, <3>4, <4>1 DEF Range, Inhabited
      <4> QED BY <1>3, <1>5, <1>6, <2>1, <3>1, <3>4, <4>1, <4>2 DEF Loaded
    <3>8. Stage(i)'
      BY <1>2, <1>3, <1>5, <1>8, <3>1, <3>4 DEF Stage
    <3>9. ~Gone(i) /\ wpc'[i] \notin {"none", "open"} /\ wpc[i] # "ended"
      BY <1>3, <3>1 DEF Gone
    <3> HIDE DEF m, k
    <3> QED BY <1>2, <1>3, <1>8, <1>9, <2>5, <3>5, <3>6, <3>7, <3>8, <3>9, OneMoves
  <2> QED BY <2>6, <2>7
<1> QED BY <1>10, <1>11

(* the values a worker answers a command with are those the boss reads *)
LEMMA RepliesFacts ==
  ASSUME NEW t \in Commands \ {"/search", "exit"}
  PROVE  /\ Replies(t) \in Seq(Message) /\ Replies(t) # <<>>
         /\ FitsIn(Replies(t), Kinds(t)) /\ Complete(Replies(t), Kinds(t))
         /\ \A k \in 1 .. Len(Replies(t)) : Replies(t)[k].kind # "line"
<1>1. /\ Msg("int", None) \in Message /\ Msg("msg", None) \in Message
      /\ Msg("int", None).kind = "int" /\ Msg("msg", None).kind = "msg"
  BY MsgTyped, ValuesOf DEF MsgKinds
<1> DEFINE m == Msg("int", None)
           l == Msg("msg", None)
<1> HIDE DEF m, l
<1>2. CASE t = "/wc"
  <2>1. Replies(t) = <<m, m, m>> /\ Kinds(t) = <<"int", "int", "int">>
    BY <1>2 DEF Replies, Kinds, m
  <2>2. m \in Message /\ m.kind = "int"
    BY <1>1 DEF m
  <2> QED BY <2>1, <2>2 DEF FitsIn, Complete
<1>3. CASE t = "/maxcount"
  <2>1. Replies(t) = <<l, m>> /\ Kinds(t) = <<"msg", "int">>
    BY <1>3 DEF Replies, Kinds, m, l
  <2>2. m \in Message /\ m.kind = "int" /\ l \in Message /\ l.kind = "msg"
    BY <1>1 DEF m, l
  <2> QED BY <2>1, <2>2 DEF FitsIn, Complete
<1>4. CASE t = "/exit"
  <2>1. Replies(t) = <<m>> /\ Kinds(t) = <<"int">>
    BY <1>4 DEF Replies, Kinds, m
  <2>2. m \in Message /\ m.kind = "int"
    BY <1>1 DEF m
  <2> QED BY <2>1, <2>2 DEF FitsIn, Complete
<1> QED BY <1>2, <1>3, <1>4 DEF Commands

LEMMA GetCommandStep ==
  ASSUME IInv, NEW i \in Workers, GetCommand(i)
  PROVE  IInv'
<1>1. Receive(i, "ready") /\ UNCHANGED <<envVars, bossVars, answerVars, signalVars, wdirs, need, asked, up>>
  BY DEF GetCommand
<1>2. UNCHANGED <<outbox, expect, task, queries, bpc, missing, fifos>> /\ Kinds(task)' = Kinds(task)
  BY <1>1 DEF bossVars, envVars
<1>3. /\ ~Before /\ bpc # "dead" /\ wpc[i] = "ready" /\ down[i] # <<>>
      /\ Down(i)' = Tail(down[i]) \o outbox[i]
      /\ \A j \in Workers \ {i} : Down(j)' = Down(j)
      /\ down' \in [Workers -> Seq(Message)] /\ \A j \in Workers : Len(down'[j]) <= PIPE
      /\ Up(i) = <<>> /\ up[i] = <<>> /\ reply[i] = <<>> /\ Exp(i) = Kinds(task)
  BY <1>1, <1>2, Receiving DEF WorkerStates
<1>4. Types /\ Stage(i) /\ Loaded(i) /\ Phase
  BY <1>3 DEF IInv, Stages, Loads, Gone
<1>5. /\ task \in Commands \ {"exit"} /\ Head(down[i]).val = task
      /\ task # "/search" => Down(i)' = <<>>
      /\ task = "/search" => Down(i)' = Drop(SearchLetter(queries), 1)
  <2>1. task # "exit"
    BY <1>3, <1>4 DEF Stage
  <2>2. wpc[i] \in {"ready", "bye"}
    BY <1>3
  <2>3. /\ task \in Commands /\ Head(down[i]) = Msg("cmd", task)
        /\ task # "/search" => Tail(down[i]) \o outbox[i] = <<>>
        /\ task = "/search" => Tail(down[i]) \o outbox[i] = Drop(SearchLetter(queries), 1)
    BY <1>3, <2>2, CommandHead
  <2>4. Msg("cmd", task).val = task
    BY DEF Msg
  <2> QED BY <1>3, <2>1, <2>3, <2>4
<1> DEFINE pc == CASE task = "/search" -> "number"
                   [] task = "/exit"   -> "last_answer"
                   [] OTHER            -> "answer"
<1>6. wpc' = [wpc EXCEPT ![i] = pc] /\ reply' = [reply EXCEPT ![i] = Replies(task)]
  BY <1>5 DEF GetCommand
<1>7. /\ wpc'[i] = pc /\ reply'[i] = Replies(task)
      /\ \A j \in Workers \ {i} : wpc'[j] = wpc[j] /\ reply'[j] = reply[j]
  BY <1>4, <1>6 DEF Types
<1>8. Types'
  <2>1. pc \in WorkerStates
    BY DEF WorkerStates
  <2>2. wpc' \in [Workers -> WorkerStates]
    <3> HIDE DEF pc
    <3> QED BY <1>4, <1>6, <2>1 DEF Types
  <2>3. Replies(task) \in Seq(Message)
    <3>1. CASE task = "/search"
      BY <3>1 DEF Replies
    <3>2. CASE task # "/search"
      BY <1>5, <3>2, RepliesFacts
    <3> QED BY <3>1, <3>2
  <2>4. reply' \in [Workers -> Seq(Message)]
    BY <1>4, <1>6, <2>3 DEF Types
  <2> HIDE DEF pc
  <2> QED BY <1>1, <1>3, <1>4, <2>2, <2>4 DEF Types, envVars, bossVars, answerVars, signalVars
<1>9. \A j \in Workers \ {i} : Still(j)
  BY <1>1, <1>3, <1>7 DEF Still
<1>10. Exp(i)' = Kinds(task)
  BY <1>2, <1>3 DEF Exp
<1>11. Loaded(i)'
  <2>1. (Range(wdirs[i]) \subseteq Inhabited)' = (Range(wdirs[i]) \subseteq Inhabited)
    BY <1>1, <1>2 DEF Inhabited, Range
  <2> QED BY <1>1, <1>3, <1>4, <2>1 DEF Loaded
<1>12. ~Gone(i) /\ wpc'[i] \notin {"none", "open"} /\ wpc[i] # "ended"
  BY <1>3, <1>7 DEF Gone
<1>13. CASE task = "/search"
  <2>1. wpc'[i] = "number" /\ reply'[i] = <<>>
    BY <1>7, <1>13 DEF Replies
  <2>2. Down(i)' # <<>>
    <3>1. queries \in Seq(Vocabulary)
      BY <1>4 DEF Types
    <3>2. SearchLetter(queries) \in Seq(Message) /\ Len(SearchLetter(queries)) = Len(queries) + 2 /\ Len(queries) \in Nat
      BY <3>1, SearchLetterFacts
    <3> DEFINE l == SearchLetter(queries)
    <3>3. l \in Seq(Message) /\ 1 \in 0 .. Len(l) /\ 1 # Len(l)
      BY <3>2
    <3> HIDE DEF l
    <3>4. Drop(l, 1) # <<>>
      BY <3>3, DropFacts
    <3> QED BY <1>5, <1>13, <3>4 DEF l
  <2>3. Stage(i)'
    BY <1>2, <1>5, <1>13, <2>1 DEF Stage
  <2>4. Talk(i)'
    BY <1>1, <1>2, <1>3, <1>10, <2>1, <2>2, SilentTalk
  <2>5. Told(i)'
    BY <2>2 DEF Told
  <2> QED BY <1>1, <1>2, <1>3, <1>8, <1>9, <1>11, <1>12, <2>3, <2>4, <2>5, OneMoves DEF signalVars
<1>14. CASE task # "/search"
  <2>1. /\ Replies(task) \in Seq(Message) /\ Replies(task) # <<>>
        /\ FitsIn(Replies(task), Kinds(task)) /\ Complete(Replies(task), Kinds(task))
        /\ \A k \in 1 .. Len(Replies(task)) : Replies(task)[k].kind # "line"
    BY <1>5, <1>14, RepliesFacts
  <2>2. Stage(i)'
    BY <1>2, <1>5, <1>7, <1>14, <2>1 DEF Stage, Commands
  <2>3. Talk(i)'
    <3>1. FitsIn(reply[i], Exp(i))' /\ Complete(reply[i], Exp(i))' /\ Content(i, reply[i])'
      BY <1>7, <1>10, <2>1 DEF FitsIn, Complete, Content
    <3>2. up[i]' = <<>> /\ Down(i)' = <<>> /\ reply[i]' \in Seq(Message)
      BY <1>1, <1>3, <1>5, <1>7, <1>14, <2>1
    <3> QED BY <3>1, <3>2, ReadyTalk
  <2>4. ~Searching
    BY <1>14 DEF Searching
  <2> QED BY <1>1, <1>2, <1>3, <1>8, <1>9, <1>11, <1>12, <2>2, <2>3, <2>4, OneMoves DEF signalVars
<1> QED BY <1>13, <1>14

LEMMA GetNumberStep ==
  ASSUME IInv, NEW i \in Workers, GetNumber(i)
  PROVE  IInv'
<1>1. Receive(i, "number") /\ UNCHANGED <<envVars, bossVars, answerVars, signalVars, wdirs, reply, up>>
  BY DEF GetNumber
<1>2. UNCHANGED <<outbox, expect, task, queries, bpc, missing, fifos>> /\ Kinds(task)' = Kinds(task)
  BY <1>1 DEF bossVars, envVars
<1>3. /\ ~Before /\ bpc # "dead" /\ wpc[i] = "number" /\ down[i] # <<>>
      /\ Down(i)' = Tail(down[i]) \o outbox[i]
      /\ \A j \in Workers \ {i} : Down(j)' = Down(j)
      /\ down' \in [Workers -> Seq(Message)] /\ \A j \in Workers : Len(down'[j]) <= PIPE
      /\ Up(i) = <<>> /\ up[i] = <<>> /\ reply[i] = <<>> /\ Exp(i) = Kinds(task)
  BY <1>1, <1>2, Receiving DEF WorkerStates
<1>4. Types /\ Stage(i) /\ Loaded(i) /\ task = "/search" /\ queries \in Seq(Vocabulary)
  BY <1>3 DEF IInv, Stages, Loads, Gone, Types, Stage
<1> DEFINE n == Len(queries)
<1>5. Head(down[i]).val = n /\ n \in Nat \ {0} /\ Down(i)' = Drop(SearchLetter(queries), 2)
  <2>1. /\ Head(down[i]) = Msg("count", n) /\ n \in Nat \ {0}
        /\ Tail(down[i]) \o outbox[i] = Drop(SearchLetter(queries), 2)
    BY <1>3, NumberHead
  <2>2. Msg("count", n).val = n
    BY DEF Msg
  <2> QED BY <1>3, <2>1, <2>2
<1>6. /\ need' = [need EXCEPT ![i] = n]
      /\ asked' = [asked EXCEPT ![i] = {}]
      /\ wpc' = [wpc EXCEPT ![i] = "queries"]
  BY <1>5 DEF GetNumber
<1> HIDE DEF n
<1>7. /\ wpc'[i] = "queries" /\ need'[i] = n /\ asked'[i] = {}
      /\ \A j \in Workers \ {i} : wpc'[j] = wpc[j] /\ need'[j] = need[j] /\ asked'[j] = asked[j]
  BY <1>4, <1>6 DEF Types
<1>8. Types'
  <2>1. wpc' \in [Workers -> WorkerStates] /\ need' \in [Workers -> Nat] /\ asked' \in [Workers -> SUBSET Vocabulary]
    BY <1>4, <1>5, <1>6 DEF Types, WorkerStates
  <2> QED BY <1>1, <1>3, <1>4, <2>1 DEF Types, envVars, bossVars, answerVars, signalVars
<1>9. \A j \in Workers \ {i} : Still(j)
  BY <1>1, <1>3, <1>7 DEF Still, Up
<1>10. Exp(i)' = Kinds(task)'
  BY <1>2, <1>3 DEF Exp
<1>11. Loaded(i)'
  <2>1. (Range(wdirs[i]) \subseteq Inhabited)' = (Range(wdirs[i]) \subseteq Inhabited)
    BY <1>1, <1>2 DEF Inhabited, Range
  <2> QED BY <1>1, <1>3, <1>4, <2>1 DEF Loaded
<1>12. ~Gone(i) /\ wpc'[i] \notin {"none", "open"} /\ wpc[i] # "ended"
  BY <1>3, <1>7 DEF Gone
<1>13. Down(i)' # <<>>
  <2> DEFINE l == SearchLetter(queries)
  <2>1. l \in Seq(Message) /\ Len(l) = n + 2
    BY <1>4, SearchLetterFacts DEF n
  <2>2. 2 \in 0 .. Len(l) /\ 2 # Len(l)
    BY <1>5, <2>1
  <2> HIDE DEF l
  <2>3. Drop(l, 2) # <<>>
    BY <2>1, <2>2, DropFacts
  <2> QED BY <1>5, <2>3 DEF l
<1>14. Stage(i)'
  <2>1. n + 2 - n = 2 /\ n \in 1 .. n /\ 1 .. n - n = {}
    BY <1>5
  <2>2. {queries[k] : k \in 1 .. n - n} = {}
    BY <2>1
  <2> QED BY <1>2, <1>4, <1>5, <1>7, <2>1, <2>2 DEF Stage, n
<1>15. Talk(i)'
  BY <1>1, <1>3, <1>10, <1>13, SilentTalk
<1>16. Told(i)'
  BY <1>13 DEF Told
<1> QED BY <1>1, <1>2, <1>3, <1>8, <1>9, <1>11, <1>12, <1>14, <1>15, <1>16, OneMoves DEF signalVars

(* what the worker has been asked for, a query more *)
LEMMA OneMoreQuery ==
  ASSUME NEW S, NEW qs \in Seq(S), NEW k \in 1 .. Len(qs)
  PROVE  {qs[h] : h \in 1 .. k - 1} \union {qs[k]} = {qs[h] : h \in 1 .. k}
<1>1. \A h \in 1 .. k : h \in 1 .. k - 1 \/ h = k
  OBVIOUS
<1>2. \A h \in 1 .. k - 1 : h \in 1 .. k
  OBVIOUS
<1>3. k \in 1 .. k
  OBVIOUS
<1> QED BY <1>1, <1>2, <1>3

(* a worker that has loaded its directories is asked for the last word and answers *)
AnswersSearch(a, i) ==
  /\ a \in Seq(Message) /\ a # <<>>
  /\ FitsIn(a, <<"n">>) /\ Complete(a, <<"n">>) /\ Content(i, a)
  /\ \A l \in Mine(i) : \E k \in 1 .. Len(a) : a[k] = Msg("line", l)
  /\ a[1].val > 0 <=> Mine(i) # {}

LEMMA SearchAnswer ==
  ASSUME Types, NEW i \in Workers, Loaded(i), Len(wdirs[i]) = Share(i),
         NEW lines, lines = SetToSeq(Mine(i)),
         NEW a, a = <<Msg("n", Len(lines))>> \o LineAnswers(lines)
  PROVE  AnswersSearch(a, i)
<1> DEFINE D == Range(wdirs[i])
           Q == Range(queries)
<1>1. D \in SUBSET Range(Dirs) /\ Q \in SUBSET Vocabulary /\ IsFiniteSet(D) /\ IsFiniteSet(Q)
  <2>1. wdirs[i] \in Seq(Range(Dirs)) /\ queries \in Seq(Vocabulary)
    BY DEF Types
  <2> QED BY <2>1, RangeFinite
<1>2. Mine(i) = Found(D, Q)
  BY DEF Mine
<1> HIDE DEF D, Q
<1>3. AnswersWith(a, lines, Found(D, Q))
  <2>1. lines = SetToSeq(Found(D, Q)) /\ a = <<Msg("n", Len(lines))>> \o LineAnswers(lines)
    BY <1>2
  <2> QED BY <1>1, <2>1, AnswerFacts
<1>4. a[1].kind = "n" /\ a[1].val = Len(lines) /\ a # <<>>
  <2>1. Msg("n", Len(lines)).kind = "n" /\ Msg("n", Len(lines)).val = Len(lines)
    BY DEF Msg
  <2>2. a # <<>>
    BY <1>3 DEF AnswersWith
  <2> QED BY <1>3, <2>1, <2>2 DEF AnswersWith
<1>5. FitsIn(a, <<"n">>) /\ Complete(a, <<"n">>)
  BY <1>3, <1>4 DEF AnswersWith, FitsIn, Complete
<1>6. Content(i, a)
  BY <1>2, <1>3 DEF AnswersWith, Content
<1> QED BY <1>2, <1>3, <1>4, <1>5, <1>6 DEF AnswersWith, AnswersSearch

LEMMA GetQueryStep ==
  ASSUME IInv, NEW i \in Workers, GetQuery(i)
  PROVE  IInv'
<1>1. Receive(i, "queries") /\ UNCHANGED <<envVars, bossVars, answerVars, signalVars, wdirs, up>>
  BY DEF GetQuery
<1>2. UNCHANGED <<outbox, expect, task, queries, bpc, missing, fifos>> /\ Kinds(task)' = Kinds(task)
  BY <1>1 DEF bossVars, envVars
<1>3. /\ ~Before /\ bpc # "dead" /\ wpc[i] = "queries" /\ down[i] # <<>>
      /\ Down(i)' = Tail(down[i]) \o outbox[i]
      /\ \A j \in Workers \ {i} : Down(j)' = Down(j)
      /\ down' \in [Workers -> Seq(Message)] /\ \A j \in Workers : Len(down'[j]) <= PIPE
      /\ Up(i) = <<>> /\ up[i] = <<>> /\ reply[i] = <<>> /\ Exp(i) = Kinds(task)
  BY <1>1, <1>2, Receiving DEF WorkerStates
<1>4. Types /\ Stage(i) /\ Loaded(i) /\ task = "/search" /\ queries \in Seq(Vocabulary) /\ Len(queries) \in Nat
  <2>1. Types /\ Stage(i) /\ Loaded(i)
    BY <1>3 DEF IInv, Stages, Loads, Gone
  <2>2. task = "/search"
    BY <1>3, <2>1 DEF Stage
  <2>3. queries \in Seq(Vocabulary)
    BY <2>1 DEF Types
  <2> QED BY <2>1, <2>2, <2>3
<1> DEFINE n == Len(queries)
           k == n + 1 - need[i]
           q == queries[k]
<1>5. /\ k \in 1 .. n /\ Down(i)' = Drop(SearchLetter(queries), k + 2)
      /\ Head(down[i]).val = q
  <2>1. /\ k \in 1 .. n /\ Head(down[i]) = Msg("query", q)
        /\ Tail(down[i]) \o outbox[i] = Drop(SearchLetter(queries), k + 2)
    BY <1>3, QueryHead
  <2>2. Msg("query", q).val = q
    BY DEF Msg
  <2> QED BY <1>3, <2>1, <2>2
<1>6. /\ need[i] \in 1 .. n /\ n - need[i] = k - 1 /\ asked[i] = {queries[h] : h \in 1 .. k - 1}
      /\ need[i] - 1 \in Nat /\ n - (need[i] - 1) = k /\ n + 2 - (need[i] - 1) = k + 2
      /\ need[i] > 1 <=> k < n
  <2>1. need[i] \in 1 .. n /\ asked[i] = {queries[h] : h \in 1 .. n - need[i]}
    BY <1>3, <1>4 DEF Stage
  <2>2. n - need[i] = k - 1
    BY <1>4, <2>1
  <2> QED BY <1>4, <2>1, <2>2
<1>7. /\ need' = [need EXCEPT ![i] = @ - 1]
      /\ asked' = [asked EXCEPT ![i] = @ \union {q}]
  BY <1>5 DEF GetQuery
<1>8. q \in Vocabulary
  BY <1>4, <1>5
<1>9. /\ need'[i] = need[i] - 1 /\ asked'[i] = {queries[h] : h \in 1 .. k}
      /\ \A j \in Workers \ {i} : need'[j] = need[j] /\ asked'[j] = asked[j]
  <2>1. asked'[i] = {queries[h] : h \in 1 .. k - 1} \union {queries[k]}
    BY <1>4, <1>6, <1>7 DEF Types
  <2>2. asked'[i] = {queries[h] : h \in 1 .. k}
    <3> HIDE DEF k
    <3> QED BY <1>4, <1>5, <2>1, OneMoreQuery
  <2> QED BY <1>4, <1>7, <2>2 DEF Types
<1>10. need' \in [Workers -> Nat] /\ asked' \in [Workers -> SUBSET Vocabulary]
  <2>1. need' \in [Workers -> Nat]
    <3>1. \A j \in Workers : need'[j] \in Nat
      BY <1>4, <1>6, <1>9 DEF Types
    <3> QED BY <1>4, <1>7, <3>1 DEF Types
  <2>2. asked' \in [Workers -> SUBSET Vocabulary]
    <3> HIDE DEF q
    <3> QED BY <1>4, <1>7, <1>8 DEF Types
  <2> QED BY <2>1, <2>2
<1>11. Exp(i)' = Kinds(task)' /\ Exp(i)' = <<"n">> /\ Exp(i) = <<"n">>
  BY <1>2, <1>3, <1>4 DEF Exp, Kinds
<1>12. ~Gone(i) /\ wpc[i] # "ended" /\ Len(wdirs[i]) = Share(i)
  BY <1>3, <1>4 DEF Gone, Loaded
<1>13. Down(i)' = <<>> <=> k = n
  <2> DEFINE l == SearchLetter(queries)
  <2>1. l \in Seq(Message) /\ Len(l) = n + 2
    BY <1>4, SearchLetterFacts
  <2> HIDE DEF k, n
  <2>2. k + 2 \in 0 .. Len(l) /\ (k + 2 = Len(l) <=> k = n)
    BY <1>4, <1>5, <2>1 DEF n
  <2> HIDE DEF l
  <2>3. Drop(l, k + 2) = <<>> <=> k + 2 = Len(l)
    BY <2>1, <2>2, DropFacts
  <2> QED BY <1>5, <2>2, <2>3 DEF l
<1>14. (Range(wdirs[i]) \subseteq Inhabited)' = (Range(wdirs[i]) \subseteq Inhabited) /\ Mine(i)' = Mine(i)
  BY <1>1, <1>2 DEF Inhabited, Range, Mine
<1> HIDE DEF q
<1>15. CASE need[i] > 1
  <2>1. UNCHANGED <<wpc, reply>>
    BY <1>15 DEF GetQuery
  <2>2. Types'
    BY <1>1, <1>3, <1>4, <1>10, <2>1 DEF Types, envVars, bossVars, answerVars, signalVars
  <2>3. \A j \in Workers \ {i} : Still(j)
    BY <1>1, <1>3, <1>9, <2>1 DEF Still
  <2>4. Down(i)' # <<>>
    BY <1>4, <1>6, <1>13, <1>15
  <2>5. Stage(i)'
    <3>1. need'[i] \in 1 .. n /\ n - need'[i] = k /\ n + 2 - need'[i] = k + 2
      BY <1>4, <1>5, <1>6, <1>9, <1>15, SMTT(30)
    <3>2. Down(i)' = Drop(SearchLetter(queries), n + 2 - need'[i])
      <4> HIDE DEF k
      <4> QED BY <1>5, <3>1
    <3>3. asked'[i] = {queries[h] : h \in 1 .. n - need'[i]}
      <4> HIDE DEF k
      <4> QED BY <1>9, <3>1
    <3> HIDE DEF k
    <3> QED BY <1>2, <1>3, <1>4, <2>1, <3>1, <3>2, <3>3 DEF Stage
  <2>6. Talk(i)'
    BY <1>1, <1>3, <1>11, <2>1, <2>4, SilentTalk
  <2>7. Told(i)' /\ wpc'[i] \notin {"none", "open"}
    BY <1>3, <2>1, <2>4 DEF Told
  <2>8. Loaded(i)'
    BY <1>1, <1>2, <1>4, <2>1, StillLoaded
  <2> HIDE DEF k, n
  <2> QED BY <1>1, <1>2, <1>3, <1>12, <2>1, <2>2, <2>3, <2>5, <2>6, <2>7, <2>8, OneMoves DEF signalVars
<1>16. CASE ~(need[i] > 1)
  <2> DEFINE lines == SetToSeq(Found(Range(wdirs[i]), asked'[i]))
             a == <<Msg("n", Len(lines))>> \o LineAnswers(lines)
  <2>1. k = n /\ Down(i)' = <<>>
    BY <1>4, <1>5, <1>6, <1>13, <1>16, SMTT(30)
  <2>2. Found(Range(wdirs[i]), asked'[i]) = Mine(i)
    <3>1. asked'[i] = Range(queries)
      BY <1>4, <1>9, <2>1 DEF Range
    <3> QED BY <3>1 DEF Mine
  <2>3. wpc' = [wpc EXCEPT ![i] = "answer"] /\ reply' = [reply EXCEPT ![i] = a]
    BY <1>16 DEF GetQuery
  <2>4. lines = SetToSeq(Mine(i))
    BY <2>2
  <2>5. a = <<Msg("n", Len(lines))>> \o LineAnswers(lines)
    OBVIOUS
  <2> HIDE DEF lines, a
  <2>6. /\ a \in Seq(Message) /\ a # <<>>
        /\ FitsIn(a, <<"n">>) /\ Complete(a, <<"n">>) /\ Content(i, a)
        /\ \A l \in Mine(i) : \E h \in 1 .. Len(a) : a[h] = Msg("line", l)
        /\ a[1].val > 0 <=> Mine(i) # {}
    <3>1. Types /\ Loaded(i) /\ Len(wdirs[i]) = Share(i)
      BY <1>4, <1>12
    <3>2. AnswersSearch(a, i)
      BY <3>1, <2>4, <2>5, SearchAnswer
    <3> QED BY <3>2 DEF AnswersSearch
  <2>7. /\ wpc'[i] = "answer" /\ reply'[i] = a
        /\ \A j \in Workers \ {i} : wpc'[j] = wpc[j] /\ reply'[j] = reply[j]
    BY <1>4, <2>3 DEF Types
  <2>8. Types'
    <3>1. wpc' \in [Workers -> WorkerStates] /\ reply' \in [Workers -> Seq(Message)]
      BY <1>4, <2>3, <2>6 DEF Types, WorkerStates
    <3> QED BY <1>1, <1>3, <1>4, <1>10, <3>1 DEF Types, envVars, bossVars, answerVars, signalVars
  <2>9. \A j \in Workers \ {i} : Still(j)
    BY <1>1, <1>3, <1>9, <2>7 DEF Still
  <2>10. Stage(i)'
    BY <1>2, <1>4, <2>1, <2>6, <2>7 DEF Stage
  <2>11. Talk(i)' /\ Up(i)' = a
    <3>1. FitsIn(reply[i], Exp(i))' /\ Complete(reply[i], Exp(i))' /\ Content(i, reply[i])'
      BY <1>11, <1>14, <2>6, <2>7 DEF FitsIn, Complete, Content
    <3>2. up[i]' = <<>> /\ Down(i)' = <<>> /\ reply[i]' \in Seq(Message)
      BY <1>1, <1>3, <2>1, <2>6, <2>7
    <3> QED BY <2>7, <3>1, <3>2, ReadyTalk
  <2>12. Told(i)'
    BY <1>11, <1>14, <2>6, <2>11 DEF Told
  <2>13. Loaded(i)'
    BY <1>1, <1>4, <1>12, <1>14 DEF Loaded
  <2>14. wpc'[i] \notin {"none", "open"}
    BY <2>7
  <2> HIDE DEF k, n
  <2> QED BY <1>1, <1>2, <1>3, <1>12, <2>8, <2>9, <2>10, <2>11, <2>12, <2>13, <2>14, OneMoves DEF signalVars
<1> QED BY <1>15, <1>16

LEMMA ExpTyped ==
  ASSUME IInv, ~Before, NEW i \in Workers
  PROVE  Exp(i) \in Seq(MsgKinds)
<1>1. expect[i] \in Seq(MsgKinds) /\ task \in Commands \union {"dirs"}
  BY DEF IInv, Types, Phase
<1> QED BY <1>1, KindsTyped DEF Exp

(* the first of some values fit where all of them do *)
LEMMA FirstOnes ==
  ASSUME NEW i \in Workers, NEW E \in Seq(MsgKinds), NEW U \in Seq(Message), NEW V \in Seq(Message),
         FitsIn(U \o V, E), Content(i, U \o V)
  PROVE  FitsIn(U, E) /\ Content(i, U)
<1> DEFINE W == U \o V
<1>1. /\ W \in Seq(Message) /\ Len(W) = Len(U) + Len(V) /\ (W = <<>> => U = <<>>)
      /\ \A k \in 1 .. Len(U) : W[k] = U[k]
  BY Concat
<1>2. FitsIn(W, E) /\ Content(i, W)
  OBVIOUS
<1> HIDE DEF W
<1>3. /\ Len(U) \in Nat /\ Len(W) \in Nat /\ Len(U) <= Len(W) /\ (U # <<>> => Len(U) >= 1)
      /\ \A k \in 1 .. Len(U) : k \in 1 .. Len(W) /\ W[k] = U[k]
  BY <1>1
<1>4. Content(i, U)
  BY <1>2, <1>3 DEF Content
<1>5. CASE W = <<>>
  BY <1>1, <1>5 DEF FitsIn
<1>6. CASE E # <<"n">> /\ Len(W) <= Len(E) /\ \A k \in 1 .. Len(W) : W[k].kind = E[k]
  <2>1. \A k \in 1 .. Len(U) : U[k].kind = E[k]
    BY <1>3, <1>6
  <2>2. Len(U) <= Len(E)
    <3>1. Len(E) \in Nat
      OBVIOUS
    <3> QED BY <1>3, <1>6, <3>1
  <2> QED BY <1>4, <1>6, <2>1, <2>2 DEF FitsIn
<1>7. CASE /\ E = <<"n">> /\ W # <<>> /\ W[1].kind = "n" /\ W[1].val \in Nat
           /\ Len(W) <= 3 * W[1].val + 1
           /\ \A k \in 2 .. Len(W) : W[k].kind = Part(k - 1)
  <2>1. CASE U = <<>>
    BY <1>4, <2>1 DEF FitsIn
  <2>2. CASE U # <<>>
    <3>1. U[1] = W[1] /\ Len(U) <= 3 * U[1].val + 1
      BY <1>3, <1>7, <2>2
    <3>2. \A k \in 2 .. Len(U) : U[k].kind = Part(k - 1)
      BY <1>3, <1>7
    <3> QED BY <1>4, <1>7, <2>2, <3>1, <3>2 DEF FitsIn
  <2> QED BY <2>1, <2>2
<1> QED BY <1>2, <1>4, <1>5, <1>6, <1>7 DEF FitsIn

LEMMA AnswerStep ==
  ASSUME IInv, NEW i \in Workers, Answer(i)
  PROVE  IInv'
<1> USE DEF Answer
<1>1. UNCHANGED <<envVars, bossVars, answerVars, signalVars, wdirs, need, asked, down>>
  OBVIOUS
<1>2. /\ UNCHANGED <<outbox, expect, task, queries, bpc, missing, fifos, alive_workers>>
      /\ Kinds(task)' = Kinds(task)
  BY <1>1 DEF bossVars, envVars, signalVars
<1>3. Types /\ ~Before /\ bpc # "dead" /\ wpc[i] \in {"answer", "last_answer"} /\ Len(up[i]) < PIPE
  BY DEF IInv, Opening, Before
<1>4. Stage(i) /\ Loaded(i) /\ Talk(i)
  BY <1>3 DEF IInv, Stages, Loads, Talks, Gone
<1>5. Down(i) = <<>> /\ reply[i] # <<>> /\ (wpc[i] = "answer" => task \notin {"/exit", "exit"})
      /\ (wpc[i] = "last_answer" => task = "/exit")
  BY <1>3, <1>4 DEF Stage
<1>6. up[i] \in Seq(Message) /\ reply[i] \in Seq(Message) /\ Len(up[i]) \in Nat /\ PIPE \in Nat
  BY <1>3, WorkersFacts DEF Types
<1>7. Head(reply[i]) \in Message /\ Tail(reply[i]) \in Seq(Message) /\ Len(reply[i]) \in Nat
      /\ (Tail(reply[i]) = <<>> <=> ~(Len(reply[i]) > 1))
  <2> DEFINE t == reply[i]
  <2>1. t \in Seq(Message) /\ t # <<>>
    BY <1>5, <1>6
  <2> HIDE DEF t
  <2>2. Head(t) \in Message /\ Tail(t) \in Seq(Message) /\ Len(t) \in Nat /\ Len(t) >= 1 /\ Len(Tail(t)) = Len(t) - 1
    <3>1. Len(t) >= 1
      BY <2>1
    <3> QED BY <2>1, <3>1
  <2>3. Len(t) = 1 => Tail(t) = <<>>
    BY <2>1, TailOfOne
  <2>4. Len(t) > 1 => Tail(t) # <<>>
    <3> DEFINE u == Tail(t)
    <3>1. u \in Seq(Message) /\ Len(u) = Len(t) - 1 /\ Len(t) \in Nat
      BY <2>2
    <3> HIDE DEF u
    <3>2. u = <<>> => Len(u) = 0
      BY <3>1
    <3>3. Len(t) > 1 => u # <<>>
      BY <3>1, <3>2
    <3> QED BY <3>3 DEF u
  <2> QED BY <2>2, <2>3, <2>4 DEF t
<1>8. up' = [up EXCEPT ![i] = Append(@, Head(reply[i]))] /\ reply' = [reply EXCEPT ![i] = Tail(@)]
  OBVIOUS
<1> DEFINE pc == IF Len(reply[i]) > 1 THEN wpc[i] ELSE IF wpc[i] = "answer" THEN "ready" ELSE "bye"
<1>9. wpc' = [wpc EXCEPT ![i] = pc]
  OBVIOUS
<1>10. /\ up'[i] = Append(up[i], Head(reply[i])) /\ reply'[i] = Tail(reply[i]) /\ wpc'[i] = pc
       /\ \A j \in Workers \ {i} : up'[j] = up[j] /\ reply'[j] = reply[j] /\ wpc'[j] = wpc[j]
  BY <1>3, <1>8, <1>9 DEF Types
<1> HIDE DEF Answer
<1>11. up'[i] \in Seq(Message) /\ Len(up'[i]) <= PIPE /\ reply'[i] \in Seq(Message) /\ pc \in WorkerStates
  BY <1>3, <1>6, <1>7, <1>10 DEF WorkerStates
<1>12. Types'
  <2> HIDE DEF pc
  <2>1. \A j \in Workers : up'[j] \in Seq(Message) /\ Len(up'[j]) <= PIPE /\ reply'[j] \in Seq(Message)
    BY <1>3, <1>10, <1>11 DEF Types
  <2>2. up' \in [Workers -> Seq(Message)] /\ reply' \in [Workers -> Seq(Message)]
    BY <1>3, <1>8, <2>1 DEF Types
  <2>3. wpc' \in [Workers -> WorkerStates]
    BY <1>3, <1>9, <1>11 DEF Types
  <2> QED BY <1>1, <1>2, <1>3, <2>1, <2>2, <2>3 DEF Types, envVars, bossVars, answerVars, signalVars
<1>13. \A j \in Workers : Down(j)' = Down(j)
  BY <1>1, <1>2 DEF Down
<1>14. \A j \in Workers \ {i} : Still(j)
  BY <1>1, <1>10, <1>13 DEF Still
<1>15. Up(i)' = Up(i)
  <2> DEFINE s == up[i]
             t == reply[i]
  <2>1. s \in Seq(Message) /\ t \in Seq(Message) /\ t # <<>>
    BY <1>5, <1>6
  <2> HIDE DEF s, t
  <2>2. Append(s, Head(t)) \o Tail(t) = s \o t
    BY <2>1, MoveHead
  <2> QED BY <1>10, <2>2 DEF Up, s, t
<1>16. Exp(i)' = Exp(i) /\ Mine(i)' = Mine(i) /\ Inhabited' = Inhabited
  BY <1>1, <1>2 DEF Exp, Mine, Inhabited
<1>17. ~Gone(i) /\ wpc'[i] \notin {"none", "open"} /\ wpc[i] # "ended" /\ ~Gone(i)'
  BY <1>3, <1>10 DEF Gone
<1>18. Stage(i)'
  <2>1. Down(i)' = <<>>
    BY <1>5, <1>13
  <2>2. CASE Len(reply[i]) > 1
    <3>1. reply'[i] # <<>> /\ wpc'[i] = wpc[i]
      BY <1>7, <1>10, <2>2
    <3> QED BY <1>2, <1>3, <1>5, <2>1, <3>1 DEF Stage
  <2>3. CASE ~(Len(reply[i]) > 1)
    <3>1. reply'[i] = <<>>
      BY <1>7, <1>10, <2>3
    <3>2. /\ wpc[i] = "answer" => wpc'[i] = "ready"
          /\ wpc[i] = "last_answer" => wpc'[i] = "bye"
      BY <1>10, <2>3
    <3> QED BY <1>2, <1>3, <1>5, <2>1, <3>1, <3>2 DEF Stage
  <2> QED BY <2>2, <2>3
<1>19. Talk(i)'
  <2>1. FitsIn(Up(i), Exp(i)) /\ Complete(Up(i), Exp(i)) /\ Content(i, Up(i))
    BY <1>4, <1>5, <1>17 DEF Talk
  <2>2. FitsIn(Up(i), Exp(i))' /\ Complete(Up(i), Exp(i))' /\ Content(i, Up(i))'
    BY <1>15, <1>16, <2>1 DEF FitsIn, Complete, Content
  <2>3. FitsIn(up[i], Exp(i))' /\ Content(i, up[i])'
    <3> DEFINE s == up'[i]
               t == reply'[i]
               e == Exp(i)
    <3>1. s \in Seq(Message) /\ t \in Seq(Message) /\ FitsIn(s \o t, e) /\ Content(i, s \o t)
      BY <1>11, <1>15, <2>1 DEF Up
    <3>2. e \in Seq(MsgKinds)
      BY <1>3, ExpTyped
    <3> HIDE DEF s, t, e
    <3>3. FitsIn(s, e) /\ Content(i, s)
      BY <3>1, <3>2, FirstOnes
    <3> QED BY <1>16, <3>3 DEF s, e, FitsIn, Content
  <2> QED BY <1>5, <1>13, <2>2, <2>3 DEF Talk
<1>20. Loaded(i)'
  <2>1. (Range(wdirs[i]) \subseteq Inhabited)' = (Range(wdirs[i]) \subseteq Inhabited)
    BY <1>1, <1>16 DEF Range
  <2> QED BY <1>1, <1>3, <1>4, <2>1 DEF Loaded
<1>21. Told(i) => Told(i)'
  BY <1>1, <1>5, <1>13, <1>15, <1>16 DEF Told, answerVars
<1> HIDE DEF pc
<1> QED BY <1>1, <1>2, <1>3, <1>12, <1>14, <1>17, <1>18, <1>19, <1>20, <1>21, OneMoves DEF signalVars

(* A worker that ends or is killed says nothing more. *)
LEMMA SilencedTalk ==
  ASSUME NEW i \in Workers, Talk(i), Gone(i)', up[i]' = up[i], Exp(i)' = Exp(i), Mine(i)' = Mine(i),
         Heard(i)' => Heard(i)
  PROVE  Talk(i)'
<1>1. Heard(i)' => FitsIn(up[i], Exp(i))' /\ Content(i, up[i])'
  BY DEF Talk, FitsIn, Content
<1> QED BY <1>1 DEF Talk

LEMMA GoneStep ==
  ASSUME IInv, ~Before, bpc # "dead", NEW i \in Workers, NEW pc \in {"closed", "ended"},
         wpc' = [wpc EXCEPT ![i] = pc], wpc[i] # "ended",
         UNCHANGED <<fifos, missing, bossVars, answerVars, alive_workers, some_worker_died, timeout>>,
         UNCHANGED <<wdirs, need, asked, reply, up>>,
         \A j \in Workers : Down(j)' = Down(j) \/ j = i,
         down' \in [Workers -> Seq(Message)], \A j \in Workers : Len(down'[j]) <= PIPE,
         zombies' \in SUBSET Workers, sigchld' \in BOOLEAN,
         \A j \in zombies' : j \in zombies \/ wpc'[j] = "ended"
  PROVE  IInv'
<1>1. Types /\ Talk(i) /\ Loaded(i)
  BY DEF IInv, Talks, Loads
<1>2. wpc'[i] = pc /\ \A j \in Workers \ {i} : wpc'[j] = wpc[j]
  BY <1>1 DEF Types
<1>3. Types'
  <2>1. wpc' \in [Workers -> WorkerStates]
    BY <1>1 DEF Types, WorkerStates
  <2> QED BY <1>1, <2>1 DEF Types, bossVars, answerVars
<1>4. \A j \in Workers \ {i} : Still(j)
  BY <1>2 DEF Still
<1>5. Gone(i)' /\ wpc'[i] \notin {"none", "open"}
  BY <1>2 DEF Gone
<1>6. Exp(i)' = Exp(i) /\ Mine(i)' = Mine(i) /\ Heard(i)' = Heard(i)
  BY DEF Exp, Mine, Heard, bossVars
<1>7. Talk(i)'
  BY <1>1, <1>5, <1>6, SilencedTalk
<1>8. Loaded(i)'
  BY <1>1, <1>2, StillLoaded
<1> QED BY <1>3, <1>4, <1>5, <1>7, <1>8, OneMoves

LEMMA GetExitStep ==
  ASSUME IInv, NEW i \in Workers, GetExit(i)
  PROVE  IInv'
<1>1. Receive(i, "bye") /\ UNCHANGED <<envVars, bossVars, answerVars, signalVars, wdirs, need, asked, reply, up>>
  BY DEF GetExit
<1>2. outbox' = outbox
  BY <1>1 DEF bossVars
<1>3. /\ ~Before /\ bpc # "dead" /\ wpc[i] = "bye"
      /\ \A j \in Workers \ {i} : Down(j)' = Down(j)
      /\ down' \in [Workers -> Seq(Message)] /\ \A j \in Workers : Len(down'[j]) <= PIPE
  BY <1>1, <1>2, Receiving DEF WorkerStates
<1>4. wpc' = [wpc EXCEPT ![i] = "closed"]
  BY DEF GetExit
<1>5. zombies' = zombies /\ sigchld' = sigchld /\ zombies \in SUBSET Workers /\ sigchld \in BOOLEAN
  BY <1>1 DEF signalVars, IInv, Types
<1>6. wpc[i] # "ended" /\ "closed" \in {"closed", "ended"}
  BY <1>3
<1>7. /\ UNCHANGED <<fifos, missing, bossVars, answerVars, alive_workers, some_worker_died, timeout>>
      /\ UNCHANGED <<wdirs, need, asked, reply, up>>
  BY <1>1 DEF envVars, signalVars
<1>8. \A j \in Workers : Down(j)' = Down(j) \/ j = i
  BY <1>3
<1> QED BY <1>3, <1>4, <1>5, <1>6, <1>7, <1>8, GoneStep

(* a worker that ends while the boss is still opening FIFOs *)
LEMMA GoneBefore ==
  ASSUME IInv, Before, NEW i \in Workers, NEW pc \in {"closed", "ended"},
         wpc' = [wpc EXCEPT ![i] = pc], wpc[i] \notin {"none", "open", "ended"},
         UNCHANGED <<fifos, missing, bossVars, answerVars, alive_workers, some_worker_died, timeout>>,
         UNCHANGED <<wdirs, need, asked, reply, up, down>>,
         zombies' \in SUBSET Workers, sigchld' \in BOOLEAN,
         \A j \in zombies' : j \in zombies \/ wpc'[j] = "ended"
  PROVE  IInv'
<1>1. Types /\ Phase /\ Marks /\ Opening /\ Loads /\ NoneInvented
  BY DEF IInv
<1>2. wpc'[i] = pc /\ \A j \in Workers \ {i} : wpc'[j] = wpc[j]
  BY <1>1 DEF Types
<1>3. UNCHANGED <<bpc, task, outbox, expect, queries, printed, none_query_found>> /\ Before'
  BY DEF bossVars, answerVars, Before
<1>4. Types'
  <2>1. wpc' \in [Workers -> WorkerStates]
    BY <1>1 DEF Types, WorkerStates
  <2> QED BY <1>1, <1>3, <2>1 DEF Types
<1>5. bpc = "open"
  BY <1>1 DEF Opening, Before
<1>6. Opening'
  <2>1. i # N /\ \A j \in Workers : wpc'[j] = "open" <=> wpc[j] = "open"
    BY <1>1, <1>2, <1>5 DEF Opening
  <2>2. \A j \in Workers : wpc'[j] \in {"open", "load", "closed", "ended"}
    BY <1>1, <1>2, <1>5 DEF Opening
  <2>3. wpc'[N] = "open"
    BY <1>1, <1>5, <2>1, WorkersFacts DEF Opening
  <2>4. \A j, k \in Workers : j <= k /\ wpc'[j] = "open" => wpc'[k] = "open"
    BY <1>1, <1>5, <2>1 DEF Opening
  <2> QED BY <1>1, <1>3, <1>5, <2>2, <2>3, <2>4 DEF Opening
<1>7. Marks'
  <2>1. \A j \in Workers : alive_workers[j] \/ wpc'[j] = "ended"
    BY <1>1, <1>2, <1>5 DEF Marks
  <2>2. \A j \in zombies : wpc'[j] = "ended"
    BY <1>1, <1>2 DEF Marks, Types
  <2> QED BY <1>3, <2>1, <2>2 DEF Marks
<1>8. Phase'
  BY <1>1, <1>3 DEF Phase, Before, Done, Nothing
<1>9. Loads'
  <2>1. \A j \in Workers : wpc'[j] \in {wpc[j], "none", "open", "load", "closed", "ended"}
    BY <1>2
  <2> QED BY <1>1, <2>1, StillLoaded DEF Loads
<1>10. NoneInvented'
  BY <1>1, <1>3 DEF NoneInvented, Expected, Inhabited
<1>11. Stages' /\ Talks' /\ Honest' /\ Exact'
  BY <1>3, <1>5 DEF Stages, Talks, Honest, Exact, Searching
<1> QED BY <1>4, <1>6, <1>7, <1>8, <1>9, <1>10, <1>11 DEF IInv

LEMMA NotifyStep ==
  ASSUME IInv, NEW i \in Workers, Notify(i)
  PROVE  IInv'
<1> USE DEF Notify
<1>1. /\ wpc[i] = "closed" /\ bpc # "dead"
      /\ wpc' = [wpc EXCEPT ![i] = "ended"] /\ zombies' = zombies \union {i} /\ sigchld' = TRUE
      /\ UNCHANGED <<fifos, missing, bossVars, answerVars, alive_workers, some_worker_died, timeout>>
      /\ UNCHANGED <<wdirs, need, asked, reply, up, down, outbox, expect, queries, task, bpc>>
  BY DEF envVars, bossVars
<1> HIDE DEF Notify
<1>2. Types /\ zombies' \in SUBSET Workers /\ sigchld' \in BOOLEAN
  BY <1>1 DEF IInv, Types
<1>3. wpc'[i] = "ended" /\ \A j \in Workers \ {i} : wpc'[j] = wpc[j]
  BY <1>1, <1>2 DEF Types
<1>4. \A j \in zombies' : j \in zombies \/ wpc'[j] = "ended"
  BY <1>1, <1>3
<1>5. CASE ~Before
  <2>1. /\ \A j \in Workers : Down(j)' = Down(j) \/ j = i
        /\ down' \in [Workers -> Seq(Message)] /\ \A j \in Workers : Len(down'[j]) <= PIPE
    BY <1>1, <1>2 DEF Types, Down
  <2>2. wpc[i] # "ended" /\ "ended" \in {"closed", "ended"}
    BY <1>1
  <2> QED BY <1>1, <1>2, <1>4, <1>5, <2>1, <2>2, GoneStep
<1>6. CASE Before
  BY <1>1, <1>2, <1>3, <1>4, <1>6, GoneBefore
<1> QED BY <1>5, <1>6

LEMMA KillStep ==
  ASSUME IInv, NEW i \in Workers, Kill(i)
  PROVE  IInv'
<1> USE DEF Kill
<1>1. /\ wpc[i] \notin {"none", "open", "closed", "ended"} /\ bpc # "dead"
      /\ wpc' = [wpc EXCEPT ![i] = "closed"] /\ zombies' = zombies /\ sigchld' = sigchld
      /\ UNCHANGED <<fifos, missing, bossVars, answerVars, alive_workers, some_worker_died, timeout>>
      /\ UNCHANGED <<wdirs, need, asked, reply, up, down, outbox, expect, queries, task, bpc>>
  BY DEF signalVars, bossVars
<1> HIDE DEF Kill
<1>2. Types /\ zombies' \in SUBSET Workers /\ sigchld' \in BOOLEAN
  BY <1>1 DEF IInv, Types
<1>3. wpc'[i] = "closed" /\ \A j \in Workers \ {i} : wpc'[j] = wpc[j]
  BY <1>1, <1>2 DEF Types
<1>4. \A j \in zombies' : j \in zombies \/ wpc'[j] = "ended"
  BY <1>1
<1>5. CASE ~Before
  <2>1. /\ \A j \in Workers : Down(j)' = Down(j) \/ j = i
        /\ down' \in [Workers -> Seq(Message)] /\ \A j \in Workers : Len(down'[j]) <= PIPE
    BY <1>1, <1>2 DEF Types, Down
  <2>2. wpc[i] # "ended" /\ "closed" \in {"closed", "ended"}
    BY <1>1
  <2> QED BY <1>1, <1>2, <1>4, <1>5, <2>1, <2>2, GoneStep
<1>6. CASE Before
  BY <1>1, <1>2, <1>3, <1>4, <1>6, GoneBefore
<1> QED BY <1>5, <1>6

-----------------------------------------------------------------------------
(* The steps of the boss that leave the workers alone. *)

LEMMA StartSearchStep == IInv /\ StartSearch => IInv'
<1> SUFFICES ASSUME IInv, StartSearch PROVE IInv'
  OBVIOUS
<1>1. /\ bpc = "idle" /\ bpc' = "fork" /\ UNCHANGED <<fifos, missing, answerVars, signalVars, workerVars>>
      /\ UNCHANGED <<task, outbox, expect, queries, down, up>>
  BY DEF StartSearch
<1>2. Types /\ Phase /\ Marks /\ Opening /\ Loads /\ NoneInvented /\ Before /\ Before'
  BY <1>1 DEF IInv, Before
<1>3. Types'
  BY <1>1, <1>2 DEF Types, BossStates, answerVars, signalVars, workerVars
<1>4. Phase'
  BY <1>1, <1>2 DEF Phase, Done, Nothing
<1>5. Marks'
  BY <1>1, <1>2 DEF Marks, signalVars, workerVars
<1>6. Opening'
  <2>1. Cardinality({}) = 0 /\ 0 < N
    BY FS_EmptySet, WorkersFacts
  <2> QED BY <1>1, <1>2, <2>1 DEF Opening, workerVars
<1>7. Loads'
  BY <1>1, <1>2, StillLoaded DEF Loads, workerVars
<1>8. NoneInvented'
  BY <1>1, <1>2 DEF NoneInvented, Expected, Inhabited, answerVars
<1>9. Stages' /\ Talks' /\ Honest' /\ Exact'
  BY <1>1, <1>2 DEF Stages, Talks, Honest, Exact, Searching
<1> QED BY <1>3, <1>4, <1>5, <1>6, <1>7, <1>8, <1>9 DEF IInv

LEMMA ForkWorkerStep == IInv /\ ForkWorker => IInv'
<1> SUFFICES ASSUME IInv, ForkWorker PROVE IInv'
  OBVIOUS
<1> DEFINE n == Cardinality(fifos)
           i == n + 1
<1>1. /\ bpc = "fork" /\ fifos' = fifos \union {i} /\ wpc' = [wpc EXCEPT ![i] = "open"]
      /\ UNCHANGED <<missing, answerVars, some_worker_died, timeout, sigchld, zombies>>
      /\ UNCHANGED <<task, outbox, expect, queries, wdirs, need, asked, reply, down, up>>
  BY DEF ForkWorker
<1>2. IF i < N THEN UNCHANGED <<bpc, alive_workers>>
      ELSE bpc' = "open" /\ alive_workers' = [j \in Workers |-> TRUE]
  BY DEF ForkWorker
<1>3. Types /\ Phase /\ Marks /\ Opening /\ Loads /\ NoneInvented /\ Before /\ Before'
  BY <1>1, <1>2 DEF IInv, Before
<1>4. /\ fifos = 1 .. n /\ n \in 0 .. N /\ n < N
      /\ \A j \in Workers : wpc[j] = IF j \in fifos THEN "open" ELSE "none"
  BY <1>1, <1>3 DEF Opening
<1>5. i \in Workers /\ n \in Nat /\ fifos' = 1 .. i /\ i <= N /\ (~(i < N) => fifos' = Workers)
  BY <1>1, <1>4, WorkersFacts DEF Workers
<1>6. Cardinality(fifos') = i
  <2> HIDE DEF n
  <2>1. 1 .. i = 1 .. n + 1 /\ Cardinality(1 .. n + 1) = n + 1
    BY <1>5, FS_Interval
  <2> QED BY <1>5, <2>1
<1> HIDE DEF n
<1>7. wpc'[i] = "open" /\ \A j \in Workers \ {i} : wpc'[j] = wpc[j]
  BY <1>1, <1>3, <1>5 DEF Types
<1>8. \A j \in Workers : wpc'[j] = IF j \in fifos' THEN "open" ELSE "none"
  BY <1>1, <1>4, <1>7
<1>9. Types'
  <2>1. wpc' \in [Workers -> WorkerStates]
    BY <1>1, <1>3 DEF Types, WorkerStates
  <2>2. fifos' \in SUBSET Workers
    BY <1>1, <1>3, <1>5 DEF Types
  <2>3. bpc' \in BossStates /\ alive_workers' \in [Workers -> BOOLEAN]
    BY <1>2, <1>3 DEF Types, BossStates
  <2> QED BY <1>1, <1>3, <2>1, <2>2, <2>3 DEF Types, answerVars
<1>10. Phase'
  BY <1>1, <1>2, <1>3 DEF Phase, Done, Nothing, Before
<1>11. Marks'
  <2>1. zombies' = {}
    BY <1>1, <1>3, <1>4 DEF Marks, Types
  <2> QED BY <1>1, <1>2, <2>1 DEF Marks
<1>12. Opening'
  <2>1. i \in 0 .. N
    BY <1>5, WorkersFacts
  <2>2. \A j \in Workers : down'[j] = <<>> /\ up'[j] = <<>> /\ reply'[j] = <<>> /\ wdirs'[j] = <<>>
    BY <1>1, <1>3 DEF Opening
  <2>3. CASE i < N
    <3> HIDE DEF i
    <3> QED BY <1>1, <1>2, <1>5, <1>6, <1>8, <2>1, <2>2, <2>3 DEF Opening, Before
  <2>4. CASE ~(i < N)
    <3>1. bpc' = "open" /\ fifos' = Workers
      BY <1>2, <1>5, <2>4
    <3>2. \A j \in Workers : wpc'[j] = "open"
      BY <1>8, <3>1
    <3> HIDE DEF i
    <3> QED BY <1>5, <1>6, <2>1, <2>2, <3>1, <3>2, WorkersFacts DEF Opening, Before
  <2> QED BY <2>3, <2>4
<1>13. Loads'
  <2>1. \A j \in Workers : wpc'[j] \in {wpc[j], "none", "open", "load", "closed", "ended"}
    BY <1>8
  <2> QED BY <1>1, <1>3, <2>1, StillLoaded DEF Loads
<1>14. NoneInvented'
  BY <1>1, <1>3 DEF NoneInvented, Expected, Inhabited, answerVars
<1>15. Stages' /\ Talks' /\ Honest' /\ Exact'
  BY <1>1, <1>2, <1>3 DEF Stages, Talks, Honest, Exact, Searching
<1> QED BY <1>9, <1>10, <1>11, <1>12, <1>13, <1>14, <1>15 DEF IInv

(* a step that changes the boss' state and its flags, and neither a worker nor a FIFO *)
LEMMA QuietStep ==
  ASSUME IInv, ~Before, ~Before', bpc # "dead",
         UNCHANGED <<fifos, missing, task, outbox, expect, queries, answerVars, workerVars, down, up>>,
         bpc' # "dead" => \A i \in Workers : Exp(i)' = Exp(i) /\ (Heard(i)' => Heard(i)),
         Searching' /\ ~timeout' /\ ~some_worker_died' => Searching /\ ~timeout /\ ~some_worker_died,
         Types', Phase', Marks'
  PROVE  IInv'
<1>1. /\ \A i \in Workers : Still(i) /\ UNCHANGED <<task, queries, missing>>
      /\ UNCHANGED <<wpc, wdirs, reply, printed, none_query_found>>
  BY DEF Still, workerVars, answerVars, Down
<1>2. Stages' /\ Talks' /\ Loads'
  BY <1>1, AllStill
<1>3. Opening'
  BY <1>1 DEF IInv, Opening, Before
<1>4. Expected' = Expected /\ AllUp' = AllUp
  BY <1>1 DEF Expected, Inhabited, AllUp, Gone
<1>5. NoneInvented' /\ Honest'
  BY <1>1, <1>4 DEF IInv, NoneInvented, Honest
<1>6. Exact'
  <2>1. SUFFICES ASSUME Searching', ~timeout', ~some_worker_died', AllUp', NEW i \in Workers PROVE Told(i)'
    BY DEF Exact
  <2>2. Told(i) /\ bpc' # "dead"
    BY <1>4, <2>1 DEF IInv, Exact, Searching
  <2> QED BY <1>1, <2>2, StillTold
<1> QED BY <1>2, <1>3, <1>5, <1>6 DEF IInv

LEMMA TestAliveStep == IInv /\ TestAlive => IInv'
<1> SUFFICES ASSUME IInv, TestAlive PROVE IInv'
  OBVIOUS
<1>1. /\ \/ bpc = "send" /\ bpc' = "write"
         \/ bpc = "read" /\ bpc' = "get" /\ alive_workers[Turn(expect)]
      /\ UNCHANGED <<fifos, missing, task, outbox, expect, queries, answerVars, signalVars, workerVars, down, up>>
      /\ UNCHANGED <<alive_workers, some_worker_died, timeout, sigchld, zombies, printed, none_query_found>>
  BY DEF TestAlive, envVars, signalVars, answerVars
<1>2. ~Before /\ ~Before' /\ bpc # "dead" /\ bpc' # "dead" /\ Searching' = Searching
  BY <1>1 DEF Before, Searching
<1>3. \A i \in Workers : Exp(i)' = Exp(i) /\ (Heard(i)' => Heard(i))
  <2>1. \A i \in Workers : Exp(i)' = Exp(i)
    BY <1>1 DEF Exp
  <2>2. \A i \in Workers : Heard(i)' => Heard(i)
    BY <1>1 DEF Heard
  <2> QED BY <2>1, <2>2
<1>4. Types'
  BY <1>1 DEF IInv, Types, BossStates, workerVars
<1>5. Phase'
  BY <1>1, <1>2 DEF IInv, Phase, Done, Nothing
<1>6. Marks'
  BY <1>1 DEF IInv, Marks, workerVars
<1> QED BY <1>1, <1>2, <1>3, <1>4, <1>5, <1>6, QuietStep

(* the boss ends *)
LEMMA DeadStep ==
  ASSUME IInv, ~Before, bpc # "dead", bpc' = "dead",
         UNCHANGED <<envVars, task, outbox, expect, queries, answerVars, signalVars, workerVars, down, up>>
  PROVE  IInv'
<1>1. /\ UNCHANGED <<fifos, missing, task, outbox, expect, queries, answerVars, workerVars, down, up>>
      /\ UNCHANGED <<alive_workers, some_worker_died, timeout, sigchld, zombies, printed, none_query_found>>
  BY DEF envVars, signalVars, answerVars
<1>2. ~Before' /\ ~Searching'
  BY DEF Before, Searching
<1>3. Types'
  BY <1>1 DEF IInv, Types, BossStates, workerVars
<1>4. Phase'
  BY <1>1, <1>2 DEF IInv, Phase, Done, Nothing
<1>5. Marks'
  BY <1>1 DEF IInv, Marks, Before, workerVars
<1> QED BY <1>1, <1>2, <1>3, <1>4, <1>5, QuietStep

LEMMA BossEnds == IInv /\ (WriteFails \/ BossDies) => IInv'
<1>1. ASSUME IInv, WriteFails PROVE IInv'
  <2>1. ~Before /\ bpc # "dead"
    BY <1>1 DEF WriteFails, Before
  <2> QED BY <1>1, <2>1, DeadStep DEF WriteFails
<1>2. ASSUME IInv, BossDies PROVE IInv'
  <2>1. ~Before /\ bpc # "dead"
    BY <1>2 DEF BossDies, AtEndOfFile, Before
  <2> QED BY <1>2, <2>1, DeadStep DEF BossDies
<1> QED BY <1>1, <1>2

LEMMA VerdictStep == IInv /\ Verdict => IInv'
<1> SUFFICES ASSUME IInv, Verdict PROVE IInv'
  OBVIOUS
<1>1. /\ bpc = "verdict" /\ bpc' = "prompt" /\ timeout' = FALSE
      /\ UNCHANGED <<fifos, missing, task, outbox, expect, queries, answerVars, workerVars, down, up>>
      /\ UNCHANGED <<alive_workers, some_worker_died, sigchld, zombies, printed, none_query_found>>
  BY DEF Verdict, envVars, answerVars
<1>2. ~Before /\ ~Before' /\ bpc # "dead" /\ bpc' # "dead" /\ ~Searching'
  BY <1>1 DEF Before, Searching
<1>3. \A i \in Workers : Exp(i)' = Exp(i) /\ (Heard(i)' => Heard(i))
  BY <1>1 DEF Exp, Heard
<1>4. Types'
  BY <1>1 DEF IInv, Types, BossStates, workerVars
<1>5. Phase'
  BY <1>1, <1>2 DEF IInv, Phase, Done, Nothing
<1>6. Marks'
  BY <1>1 DEF IInv, Marks, workerVars
<1> QED BY <1>1, <1>2, <1>3, <1>4, <1>5, <1>6, QuietStep

LEMMA AlarmStep == IInv /\ Alarm => IInv'
<1> SUFFICES ASSUME IInv, Alarm PROVE IInv'
  OBVIOUS
<1>1. /\ bpc \in {"read", "get", "verdict"} /\ bpc' = bpc /\ timeout' = TRUE
      /\ UNCHANGED <<fifos, missing, task, outbox, expect, queries, answerVars, workerVars, down, up>>
      /\ UNCHANGED <<alive_workers, some_worker_died, sigchld, zombies, printed, none_query_found>>
  BY DEF Alarm, envVars, bossVars, answerVars
<1>2. ~Before /\ ~Before' /\ bpc # "dead" /\ bpc' # "dead"
  BY <1>1 DEF Before
<1>3. \A i \in Workers : Exp(i)' = Exp(i) /\ (Heard(i)' => Heard(i))
  BY <1>1 DEF Exp, Heard
<1>4. Types'
  BY <1>1 DEF IInv, Types, workerVars
<1>5. Phase'
  BY <1>1, <1>2 DEF IInv, Phase, Done, Nothing
<1>6. Marks'
  BY <1>1 DEF IInv, Marks, workerVars
<1> QED BY <1>1, <1>2, <1>3, <1>4, <1>5, <1>6, QuietStep

LEMMA ReapStep == IInv /\ Reap => IInv'
<1> SUFFICES ASSUME IInv, Reap PROVE IInv'
  OBVIOUS
<1>1. /\ bpc = "wait" /\ bpc' = bpc /\ zombies' \subseteq zombies
      /\ UNCHANGED <<fifos, missing, task, outbox, expect, queries, answerVars, workerVars, down, up>>
      /\ UNCHANGED <<alive_workers, some_worker_died, sigchld, timeout, printed, none_query_found>>
  BY DEF Reap, envVars, bossVars, answerVars
<1>2. ~Before /\ ~Before' /\ bpc # "dead" /\ bpc' # "dead" /\ ~Searching'
  BY <1>1 DEF Before, Searching
<1>3. \A i \in Workers : Exp(i)' = Exp(i) /\ (Heard(i)' => Heard(i))
  BY <1>1 DEF Exp, Heard
<1>4. Types'
  BY <1>1 DEF IInv, Types, workerVars
<1>5. Phase'
  BY <1>1, <1>2 DEF IInv, Phase, Done, Nothing
<1>6. Marks'
  BY <1>1 DEF IInv, Marks, workerVars
<1> QED BY <1>1, <1>2, <1>3, <1>4, <1>5, <1>6, QuietStep

(* The handler of SIGCHLD may run at any time. *)
LEMMA WorkerDiedStep == IInv /\ WorkerDied => IInv'
<1> SUFFICES ASSUME IInv, WorkerDied PROVE IInv'
  OBVIOUS
<1>1. /\ bpc' = bpc /\ bpc # "dead" /\ zombies' = {} /\ sigchld' = FALSE /\ some_worker_died' = TRUE
      /\ alive_workers' = [i \in Workers |-> alive_workers[i] /\ i \notin zombies]
      /\ UNCHANGED <<fifos, missing, task, outbox, expect, queries, answerVars, workerVars, down, up>>
      /\ UNCHANGED <<timeout, printed, none_query_found>>
  BY DEF WorkerDied, envVars, bossVars, answerVars
<1>2. Before' = Before /\ Types /\ Phase /\ Marks /\ Opening /\ Loads /\ NoneInvented
  BY <1>1 DEF IInv, Before
<1>3. \A i \in Workers : (alive_workers'[i] <=> alive_workers[i] /\ i \notin zombies)
  BY <1>1
<1>4. Types'
  <2>1. alive_workers' \in [Workers -> BOOLEAN]
    <3>1. \A i \in Workers : (alive_workers[i] /\ i \notin zombies) \in BOOLEAN
      OBVIOUS
    <3> QED BY <1>1, <3>1, Zenon
  <2> QED BY <1>1, <1>2, <2>1 DEF Types, workerVars
<1>5. Phase'
  BY <1>1, <1>2 DEF Phase, Done, Nothing, Before
<1>6. Marks'
  BY <1>1, <1>2, <1>3 DEF Marks, workerVars
<1>7. CASE ~Before
  <2>1. \A i \in Workers : Exp(i)' = Exp(i) /\ (Heard(i)' => Heard(i))
    BY <1>1, <1>3 DEF Exp, Heard
  <2> QED BY <1>1, <1>2, <1>4, <1>5, <1>6, <1>7, <2>1, QuietStep
<1>8. CASE Before
  <2>1. Opening'
    BY <1>1, <1>2 DEF Opening, workerVars, Before
  <2>2. Loads'
    BY <1>1, <1>2, StillLoaded DEF Loads, workerVars
  <2>3. NoneInvented'
    BY <1>1, <1>2 DEF NoneInvented, Expected, Inhabited
  <2>4. Stages' /\ Talks' /\ Honest' /\ Exact'
    BY <1>1, <1>2, <1>8 DEF Stages, Talks, Honest, Exact
  <2> QED BY <1>4, <1>5, <1>6, <2>1, <2>2, <2>3, <2>4 DEF IInv
<1> QED BY <1>7, <1>8

LEMMA RestStep == IInv /\ UNCHANGED vars => IInv'
<1> SUFFICES ASSUME IInv, UNCHANGED vars PROVE IInv'
  OBVIOUS
<1>1. UNCHANGED <<envVars, bossVars, answerVars, signalVars, workerVars, down, up>>
  BY DEF vars
<1>2. Types' /\ Phase' /\ Marks' /\ Opening'
  BY <1>1 DEF IInv, Types, Phase, Marks, Opening, Before, Done, Nothing,
              envVars, bossVars, answerVars, signalVars, workerVars
<1>3. /\ Before' = Before /\ bpc' = bpc /\ Searching' = Searching /\ AllUp' = AllUp
      /\ UNCHANGED <<task, queries, missing, printed, none_query_found, timeout, some_worker_died>>
      /\ UNCHANGED <<expect, wpc, wdirs, alive_workers>>
  BY <1>1 DEF Before, Searching, AllUp, Gone, envVars, bossVars, answerVars, signalVars, workerVars
<1>4. \A i \in Workers : Still(i) /\ Gone(i)' = Gone(i)
  BY <1>1 DEF Still, Down, Gone, bossVars, workerVars
<1>5. \A i \in Workers : Exp(i)' = Exp(i)
  BY <1>3 DEF Exp
<1>6. \A i \in Workers : Heard(i)' => Heard(i)
  BY <1>3 DEF Heard
<1>7. Stages'
  BY <1>3, <1>4, StillStage DEF IInv, Stages
<1>8. Talks'
  BY <1>3, <1>4, <1>5, <1>6, StillTalk DEF IInv, Talks
<1>9. Loads'
  BY <1>3, StillLoaded DEF IInv, Loads
<1>10. NoneInvented' /\ Honest'
  BY <1>3 DEF IInv, NoneInvented, Honest, Expected, Inhabited
<1>11. Exact'
  BY <1>3, <1>4, <1>5, StillTold DEF IInv, Exact
<1> QED BY <1>2, <1>7, <1>8, <1>9, <1>10, <1>11 DEF IInv

-----------------------------------------------------------------------------
(* The commander's commands. At the prompt every live worker waits for one. *)

(* No values are expected any more: nothing is on its way to or from a live worker. *)
LEMMA AllRead ==
  ASSUME IInv, bpc \in {"prompt", "bye", "verdict"}, NEW i \in Workers
  PROVE  /\ ~Gone(i) => Down(i) = <<>> /\ Up(i) = <<>> /\ down[i] = <<>> /\ up[i] = <<>> /\ reply[i] = <<>>
         /\ ~Gone(i) => wpc[i] = IF bpc = "bye" THEN "bye" ELSE "ready"
         /\ Heard(i) => up[i] = <<>>
<1>1. Types /\ Phase /\ ~Before /\ bpc # "dead" /\ Talk(i) /\ (~Gone(i) => Stage(i))
  BY DEF IInv, Before, Talks, Stages
<1>2. /\ Exp(i) = <<>> /\ task \in Commands \union {"dirs"} /\ task # "exit"
      /\ bpc = "bye" => task = "/exit"
      /\ bpc # "bye" => task # "/exit"
  BY <1>1 DEF Phase, Exp, Nothing, Before
<1>3. Kinds(task) # <<>>
  BY <1>2, KindsTyped
<1>4. down[i] \in Seq(Message) /\ up[i] \in Seq(Message) /\ reply[i] \in Seq(Message) /\ outbox[i] \in Seq(Message)
  BY <1>1 DEF Types
<1>5. \A U \in Seq(Message) : FitsIn(U, <<>>) => U = <<>>
  <2>1. \A U \in Seq(Message) : Len(U) <= 0 => U = <<>>
    OBVIOUS
  <2>2. Len(<<>>) = 0 /\ <<>> # <<"n">>
    OBVIOUS
  <2> QED BY <2>1, <2>2 DEF FitsIn
<1>6. ~Gone(i) => Down(i) = <<>> /\ FitsIn(Up(i), Exp(i))
  BY <1>1, <1>2, <1>3 DEF Talk
<1>7. Up(i) \in Seq(Message) /\ (Up(i) = <<>> <=> up[i] = <<>> /\ reply[i] = <<>>)
  BY <1>4, Concat DEF Up
<1>8. Down(i) = <<>> <=> down[i] = <<>> /\ outbox[i] = <<>>
  BY <1>4, Concat DEF Down
<1>9. ~Gone(i) => Down(i) = <<>> /\ Up(i) = <<>> /\ down[i] = <<>> /\ up[i] = <<>> /\ reply[i] = <<>>
  BY <1>2, <1>5, <1>6, <1>7, <1>8
<1>10. Heard(i) => up[i] = <<>>
  BY <1>1, <1>2, <1>4, <1>5 DEF Talk
<1>11. ~Gone(i) => wpc[i] = IF bpc = "bye" THEN "bye" ELSE "ready"
  <2>1. SUFFICES ASSUME ~Gone(i) PROVE wpc[i] = IF bpc = "bye" THEN "bye" ELSE "ready"
    OBVIOUS
  <2>2. Down(i) = <<>> /\ reply[i] = <<>> /\ Stage(i)
    BY <1>1, <1>9, <2>1
  <2>3. wpc[i] \notin {"load", "number", "queries"}
    <3>1. ASSUME NEW l \in Seq(Message), NEW k \in Nat, k < Len(l), Drop(l, k) = <<>> PROVE FALSE
      BY <3>1, DropFacts
    <3>2. wpc[i] # "load"
      <4>1. /\ DirLetter(i) \in Seq(Message) /\ Len(DirLetter(i)) = Share(i) + 1
            /\ wdirs[i] \in Seq(Range(Dirs)) /\ Len(wdirs[i]) <= Share(i) /\ Share(i) \in Nat
        BY <1>1, DirLetterFacts, ShareFacts DEF IInv, Loads, Loaded, Types
      <4>2. Len(wdirs[i]) \in Nat /\ Len(wdirs[i]) < Len(DirLetter(i))
        BY <4>1
      <4>3. Drop(DirLetter(i), Len(wdirs[i])) # <<>>
        BY <3>1, <4>1, <4>2
      <4> QED BY <2>2, <4>3 DEF Stage
    <3>3. /\ queries \in Seq(Vocabulary) /\ Len(queries) \in Nat
          /\ SearchLetter(queries) \in Seq(Message) /\ Len(SearchLetter(queries)) = Len(queries) + 2
      BY <1>1, SearchLetterFacts DEF Types
    <3>4. wpc[i] # "number"
      <4>1. 1 \in Nat /\ 1 < Len(SearchLetter(queries))
        BY <3>3
      <4>2. Drop(SearchLetter(queries), 1) # <<>>
        BY <3>1, <3>3, <4>1
      <4> QED BY <2>2, <4>2 DEF Stage
    <3>5. wpc[i] # "queries"
      <4>1. SUFFICES ASSUME wpc[i] = "queries" PROVE FALSE
        OBVIOUS
      <4> DEFINE k == Len(queries) + 2 - need[i]
      <4>2. need[i] \in 1 .. Len(queries) /\ Drop(SearchLetter(queries), k) = <<>>
        BY <2>2, <4>1 DEF Stage
      <4>3. k \in Nat /\ k < Len(SearchLetter(queries))
        BY <3>3, <4>2
      <4> HIDE DEF k
      <4> QED BY <3>1, <3>3, <4>2, <4>3
    <3> QED BY <3>2, <3>4, <3>5
  <2>4. wpc[i] \notin {"answer", "last_answer"}
    BY <2>2 DEF Stage
  <2>5. /\ LetterOf(i) # <<>>
        /\ wpc[i] \in {"ready", "bye"}
    <3>1. task # "dirs" => LetterOf(i) # <<>>
      <4>1. task # "dirs" => LetterOf(i) = LetterOf(1)
        BY DEF LetterOf
      <4>2. task # "dirs" => LetterOf(1) \in Seq(Message) /\ Len(LetterOf(1)) >= 1
        BY <1>1, LetterOfCommand
      <4> QED BY <4>1, <4>2
    <3>2. task = "dirs" => LetterOf(i) # <<>>
      <4>1. DirLetter(i) \in Seq(Message) /\ Len(DirLetter(i)) >= 1
        BY DirLetterFacts, ShareFacts
      <4> QED BY <4>1 DEF LetterOf
    <3> QED BY <2>2, <2>3, <2>4, <3>1, <3>2 DEF Stage
  <2> QED BY <1>1, <1>2, <2>2, <2>5 DEF Stage
<1> QED BY <1>9, <1>10, <1>11

LEMMA BeginStep ==
  ASSUME IInv, bpc \in {"prompt", "bye"}, NEW t \in Commands, NEW letters, Begin(t, letters),
         t = "exit" <=> bpc = "bye",
         queries' \in Seq(Vocabulary), t = "/search" => queries' # <<>> /\ printed' = {} /\ none_query_found' = TRUE,
         t # "/search" => UNCHANGED <<queries, printed, none_query_found>>,
         \A i \in Workers : letters[i] = LetterOf(1)',
         letters \in [Workers -> Seq(Message)],
         UNCHANGED <<envVars, signalVars, workerVars, down, up>>
  PROVE  IInv'
<1>1. bpc' = "send" /\ task' = t /\ outbox' = letters /\ expect' = Nothing
  BY DEF Begin
<1>2. /\ UNCHANGED <<fifos, missing, alive_workers, zombies, sigchld, some_worker_died, timeout>>
      /\ UNCHANGED <<wpc, wdirs, need, asked, reply, down, up>>
  BY DEF envVars, signalVars, workerVars
<1>3. Types /\ Phase /\ ~Before /\ ~Before' /\ bpc # "dead" /\ bpc' # "dead"
  BY <1>1 DEF IInv, Before
<1>4. t # "dirs" /\ task' # "dirs"
  <2>1. t # "dirs"
    BY DEF Commands
  <2> QED BY <1>1, <2>1
<1>5. Types'
  <2>1. expect' \in [Workers -> Seq(MsgKinds)]
    <3>1. <<>> \in Seq(MsgKinds)
      OBVIOUS
    <3> QED BY <1>1, <3>1 DEF Nothing
  <2>2. none_query_found' \in BOOLEAN
    BY <1>3 DEF Types
  <2> QED BY <1>1, <1>2, <1>3, <2>1, <2>2 DEF Types, BossStates
<1>6. LetterOf(1)' \in Seq(Message) /\ LetterOf(1)' # <<>>
  <2>1. CASE t = "/search"
    <3>1. LetterOf(1)' = SearchLetter(queries')
      BY <1>1, <2>1 DEF LetterOf, SearchLetter
    <3>2. Len(SearchLetter(queries')) = Len(queries') + 2 /\ SearchLetter(queries') \in Seq(Message) /\ Len(queries') \in Nat
      BY SearchLetterFacts
    <3> QED BY <3>1, <3>2
  <2>2. CASE t # "/search"
    <3>1. LetterOf(1)' = <<Msg("cmd", t)>>
      BY <1>1, <1>4, <2>2 DEF LetterOf, Msg
    <3> DEFINE l == <<Msg("cmd", t)>>
    <3>2. l \in Seq(Message) /\ Len(l) = 1
      BY CommandLetter
    <3> HIDE DEF l
    <3>3. l = <<>> => Len(l) = 0
      BY <3>2
    <3>4. l # <<>>
      BY <3>2, <3>3
    <3> QED BY <3>1, <3>2, <3>4 DEF l
  <2> QED BY <2>1, <2>2
<1>7. Phase'
  <2>1. ~Done(outbox')
    BY <1>1, <1>6, WorkersFacts DEF Done
  <2>2. \A i \in Workers : "n" \notin Range(expect'[i])
    BY <1>1 DEF Nothing, Range
  <2> QED BY <1>1, <1>3, <2>1, <2>2 DEF Phase
<1>8. Marks' /\ Opening'
  BY <1>1, <1>2, <1>3 DEF IInv, Marks, Opening, Before
<1>9. ASSUME NEW i \in Workers
      PROVE  /\ ~Gone(i) => down[i] = <<>> /\ up[i] = <<>> /\ reply[i] = <<>>
             /\ ~Gone(i) => wpc[i] = IF bpc = "bye" THEN "bye" ELSE "ready"
             /\ Heard(i) => up[i] = <<>>
             /\ Gone(i)' = Gone(i) /\ (Heard(i)' => Heard(i))
             /\ down[i] = <<>> => Down(i)' = LetterOf(i)'
             /\ LetterOf(i)' # <<>> /\ Exp(i)' = Kinds(task)'
  <2>1. LetterOf(i)' = LetterOf(1)'
    BY <1>4 DEF LetterOf
  <2>2. down[i] = <<>> => Down(i)' = LetterOf(i)'
    <3> DEFINE l == LetterOf(1)'
    <3>1. l \in Seq(Message)
      BY <1>6
    <3> HIDE DEF l
    <3>2. <<>> \o l = l
      BY <3>1
    <3> QED BY <1>1, <1>2, <2>1, <3>2 DEF Down, l
  <2>3. Gone(i)' = Gone(i) /\ (Heard(i)' => Heard(i))
    BY <1>1, <1>2 DEF Gone, Heard
  <2>4. Exp(i)' = Kinds(task)'
    BY <1>1 DEF Exp
  <2> QED BY <1>6, <2>1, <2>2, <2>3, <2>4, AllRead
<1>10. Stages'
  <2>1. ASSUME NEW i \in Workers, ~Gone(i)' PROVE Stage(i)'
    <3>1. Down(i)' = LetterOf(i)' /\ reply'[i] = <<>> /\ wpc'[i] = IF bpc = "bye" THEN "bye" ELSE "ready"
      BY <1>2, <1>9, <2>1
    <3> QED BY <1>1, <1>4, <3>1 DEF Stage
  <2> QED BY <2>1 DEF Stages
<1>11. Talks'
  <2>1. ASSUME NEW i \in Workers PROVE Talk(i)'
    <3>1. CASE ~Gone(i)
      BY <1>2, <1>9, <3>1, SilentTalk
    <3>2. CASE Gone(i)
      <4>1. Heard(i)' => up'[i] = <<>>
        BY <1>2, <1>9
      <4>2. up'[i] = <<>> => FitsIn(up[i], Exp(i))' /\ Content(i, up[i])'
        BY DEF FitsIn, Content
      <4> QED BY <1>9, <3>2, <4>1, <4>2 DEF Talk
    <3> QED BY <3>1, <3>2
  <2> QED BY <2>1 DEF Talks
<1>12. Loads'
  BY <1>2, StillLoaded DEF IInv, Loads
<1>13. NoneInvented' /\ Honest'
  <2>1. CASE t = "/search"
    BY <1>1, <2>1 DEF NoneInvented, Honest
  <2>2. CASE t # "/search"
    BY <1>1, <1>2, <2>2 DEF IInv, NoneInvented, Honest, Expected, Inhabited
  <2> QED BY <2>1, <2>2
<1>14. Exact'
  <2>1. ASSUME AllUp', NEW i \in Workers PROVE Told(i)'
    <3>1. Down(i)' # <<>>
      BY <1>9, <2>1 DEF AllUp
    <3> QED BY <3>1 DEF Told
  <2> QED BY <2>1 DEF Exact
<1> QED BY <1>5, <1>7, <1>8, <1>10, <1>11, <1>12, <1>13, <1>14 DEF IInv

LEMMA ReadSearchStep == IInv /\ ReadSearch => IInv'
<1> SUFFICES ASSUME IInv, ReadSearch PROVE IInv'
  OBVIOUS
<1> DEFINE letters == [i \in Workers |-> SearchLetter(queries')]
<1>1. PICK words \in Requests : queries' = Unique(words) /\ Begin("/search", letters)
  BY DEF ReadSearch
<1>2. queries' \in Seq(Vocabulary) /\ queries' # <<>>
  BY <1>1, UniqueFacts
<1>3. letters \in [Workers -> Seq(Message)] /\ \A i \in Workers : letters[i] = SearchLetter(queries')
  <2>1. SearchLetter(queries') \in Seq(Message)
    BY <1>2, SearchLetterFacts
  <2> QED BY <2>1
<1>4. SearchLetter(queries') = LetterOf(1)'
  <2>1. task' = "/search"
    BY <1>1 DEF Begin
  <2> QED BY <2>1 DEF LetterOf, SearchLetter
<1>5. /\ bpc \in {"prompt", "bye"} /\ bpc # "bye" /\ "/search" \in Commands /\ printed' = {} /\ none_query_found' = TRUE
      /\ UNCHANGED <<envVars, signalVars, workerVars, down, up>>
  BY DEF ReadSearch, Commands
<1> HIDE DEF letters
<1>6. Begin("/search", letters) /\ \A i \in Workers : letters[i] = LetterOf(1)'
  BY <1>1, <1>3, <1>4
<1> QED BY <1>2, <1>3, <1>5, <1>6, BeginStep

(* a command of one word *)
LEMMA WordStep ==
  ASSUME IInv, NEW t \in {"/wc", "/maxcount", "/exit", "exit"},
         bpc = IF t = "exit" THEN "bye" ELSE "prompt",
         Begin(t, [i \in Workers |-> <<Msg("cmd", t)>>]),
         UNCHANGED <<envVars, queries, answerVars, signalVars, workerVars, down, up>>
  PROVE  IInv'
<1> DEFINE letters == [i \in Workers |-> <<Msg("cmd", t)>>]
<1>1. t \in Commands /\ t # "/search" /\ t # "dirs" /\ bpc \in {"prompt", "bye"} /\ (t = "exit" <=> bpc = "bye")
  BY DEF Commands
<1>2. queries' \in Seq(Vocabulary) /\ UNCHANGED <<queries, printed, none_query_found>>
  BY DEF IInv, Types, answerVars
<1>3. letters \in [Workers -> Seq(Message)] /\ \A i \in Workers : letters[i] = <<Msg("cmd", t)>>
  <2>1. <<Msg("cmd", t)>> \in Seq(Message)
    BY <1>1, CommandLetter
  <2> QED BY <2>1
<1>4. <<Msg("cmd", t)>> = LetterOf(1)'
  <2>1. task' = t
    BY DEF Begin
  <2> QED BY <1>1, <2>1 DEF LetterOf, Msg
<1>5. Begin(t, letters)
  OBVIOUS
<1> HIDE DEF letters
<1>6. \A i \in Workers : letters[i] = LetterOf(1)'
  BY <1>3, <1>4
<1> QED BY <1>1, <1>2, <1>3, <1>5, <1>6, BeginStep

LEMMA CommandSteps == IInv /\ ((\E t \in {"/wc", "/maxcount", "/exit"} : ReadWord(t)) \/ SayExit) => IInv'
<1>1. ASSUME IInv, NEW t \in {"/wc", "/maxcount", "/exit"}, ReadWord(t) PROVE IInv'
  BY <1>1, WordStep DEF ReadWord
<1>2. ASSUME IInv, SayExit PROVE IInv'
  BY <1>2, WordStep DEF SayExit
<1> QED BY <1>1, <1>2

(* A session begins with empty FIFOs and ends with every worker. *)

LEMMA OpenFifosStep ==
  ASSUME IInv, NEW i \in Workers, OpenFifos(i)
  PROVE  IInv'
<1>1. /\ bpc = "open" /\ wpc[i] = "open" /\ \A j \in 1 .. i - 1 : wpc[j] # "open"
      /\ wpc' = [wpc EXCEPT ![i] = "load"]
      /\ UNCHANGED <<fifos, missing, printed, none_query_found, queries>>
      /\ UNCHANGED <<alive_workers, zombies, sigchld, some_worker_died, timeout>>
      /\ UNCHANGED <<wdirs, need, asked, reply, down, up>>
  BY DEF OpenFifos, bossVars, envVars, answerVars, signalVars
<1>2. Types /\ Phase /\ Marks /\ Opening /\ Loads /\ NoneInvented /\ Before
  BY <1>1 DEF IInv, Before
<1>3. wpc'[i] = "load" /\ \A j \in Workers \ {i} : wpc'[j] = wpc[j]
  BY <1>1, <1>2 DEF Types
<1>4. wpc' \in [Workers -> WorkerStates]
  BY <1>1, <1>2 DEF Types, WorkerStates
<1>5. \A j \in Workers : j < i => wpc[j] # "open"
  <2>1. \A j \in Workers : j < i => j \in 1 .. i - 1
    BY WorkersFacts DEF Workers
  <2> QED BY <1>1, <2>1
<1>6. /\ \A j \in Workers : wpc'[j] \in {"open", "load", "closed", "ended"}
      /\ \A j \in Workers : wpc'[j] = "open" <=> wpc[j] = "open" /\ j # i
      /\ \A j \in Workers : wpc'[j] \in {wpc[j], "none", "open", "load", "closed", "ended"}
  BY <1>1, <1>2, <1>3 DEF Opening
<1>7. Loads'
  BY <1>1, <1>2, <1>6, StillLoaded DEF Loads
<1>8. \A j \in Workers : down[j] = <<>> /\ up[j] = <<>> /\ reply[j] = <<>> /\ wdirs[j] = <<>>
  BY <1>2 DEF Opening
<1>9. \A j \in zombies : wpc'[j] = "ended"
  BY <1>1, <1>2, <1>3 DEF Marks, Types
<1>10. \A j \in Workers : alive_workers[j] \/ wpc'[j] = "ended"
  BY <1>1, <1>2, <1>3 DEF Marks
<1>11. NoneInvented'
  BY <1>1, <1>2 DEF NoneInvented, Expected, Inhabited
<1>12. CASE i < N
  <2>1. UNCHANGED <<bpc, task, outbox, expect>> /\ Before'
    BY <1>1, <1>12 DEF OpenFifos, bossVars, Before
  <2>2. Types'
    BY <1>1, <1>2, <1>4, <2>1 DEF Types
  <2>3. Phase' /\ Marks'
    BY <1>1, <1>2, <1>9, <1>10, <2>1 DEF Phase, Marks, Done, Nothing, Before
  <2>4. Opening'
    <3>1. wpc'[N] = "open"
      BY <1>1, <1>2, <1>6, <1>12, WorkersFacts DEF Opening
    <3>2. \A j, k \in Workers : j <= k /\ wpc'[j] = "open" => wpc'[k] = "open"
      <4>1. SUFFICES ASSUME NEW j \in Workers, NEW k \in Workers, j <= k, wpc'[j] = "open" PROVE wpc'[k] = "open"
        OBVIOUS
      <4>2. wpc[j] = "open" /\ j # i /\ ~(j < i) /\ wpc[k] = "open"
        BY <1>1, <1>2, <1>5, <1>6, <4>1 DEF Opening
      <4>3. k # i
        BY <4>1, <4>2, WorkersFacts
      <4> QED BY <1>6, <4>2, <4>3
    <3> QED BY <1>1, <1>2, <1>6, <1>8, <2>1, <3>1, <3>2 DEF Opening
  <2>5. Stages' /\ Talks' /\ Honest' /\ Exact'
    BY <1>1, <2>1 DEF Stages, Talks, Honest, Exact, Searching
  <2> QED BY <1>7, <1>11, <2>2, <2>3, <2>4, <2>5 DEF IInv
<1>13. CASE ~(i < N)
  <2>1. /\ task' = "dirs" /\ outbox' = [j \in Workers |-> DirLetter(j)]
        /\ expect' = Nothing /\ bpc' = "send"
    BY <1>13 DEF OpenFifos, Begin
  <2>2. ~Before' /\ i = N
    BY <1>13, <2>1, WorkersFacts DEF Before, Workers
  <2>3. Types'
    <3>1. outbox' \in [Workers -> Seq(Message)]
      BY <2>1, DirLetterFacts
    <3>2. expect' \in [Workers -> Seq(MsgKinds)]
      <4>1. <<>> \in Seq(MsgKinds)
        OBVIOUS
      <4> QED BY <2>1, <4>1 DEF Nothing
    <3> QED BY <1>1, <1>2, <1>4, <2>1, <3>1, <3>2 DEF Types, BossStates
  <2>4. \A j \in Workers : DirLetter(j) \in Seq(Message) /\ DirLetter(j) # <<>> /\ outbox'[j] = DirLetter(j)
    <3>1. ASSUME NEW j \in Workers PROVE DirLetter(j) \in Seq(Message) /\ DirLetter(j) # <<>>
      <4>1. DirLetter(j) \in Seq(Message) /\ Len(DirLetter(j)) >= 1
        BY DirLetterFacts, ShareFacts
      <4> QED BY <4>1
    <3> QED BY <2>1, <3>1
  <2>5. Phase'
    <3>1. ~Done(outbox')
      BY <2>4, WorkersFacts DEF Done
    <3>2. \A j \in Workers : "n" \notin Range(expect'[j])
      BY <2>1 DEF Nothing, Range
    <3> QED BY <2>1, <2>2, <3>1, <3>2 DEF Phase
  <2>6. Marks'
    BY <1>1, <1>9, <1>10 DEF Marks
  <2>7. \A j \in Workers : wpc'[j] \in {"load", "closed", "ended"}
    <3>1. \A j \in Workers : j = N \/ j < N
      BY WorkersFacts DEF Workers
    <3> QED BY <1>5, <1>6, <2>2, <3>1
  <2>8. Opening'
    BY <1>1, <1>2, <2>1, <2>2, <2>7 DEF Opening
  <2>9. ASSUME NEW j \in Workers PROVE Down(j)' = DirLetter(j) /\ Down(j)' # <<>>
    <3> DEFINE l == DirLetter(j)
    <3>1. l \in Seq(Message) /\ outbox'[j] = l /\ down'[j] = <<>> /\ l # <<>>
      BY <1>1, <1>8, <2>4
    <3> HIDE DEF l
    <3>2. <<>> \o l = l
      BY <3>1
    <3>3. Down(j)' = l /\ l # <<>>
      BY <3>1, <3>2 DEF Down
    <3> QED BY <3>3 DEF l
  <2>10. Stages'
    <3>1. ASSUME NEW j \in Workers, ~Gone(j)' PROVE Stage(j)'
      <4>1. wpc'[j] = "load" /\ wdirs'[j] = <<>> /\ Len(<<>>) = 0
        BY <1>1, <1>8, <2>7, <3>1 DEF Gone
      <4>2. Drop(DirLetter(j), 0) = DirLetter(j)
        <5>1. DirLetter(j) \in Seq(Message)
          BY <2>4
        <5> QED BY <5>1, DropNone
      <4> QED BY <2>1, <2>9, <4>1, <4>2 DEF Stage
    <3> QED BY <3>1 DEF Stages
  <2>11. Talks'
    <3>1. ASSUME NEW j \in Workers PROVE Talk(j)'
      <4>1. up[j]' = <<>> /\ reply[j]' = <<>> /\ Exp(j)' = Kinds(task)'
        BY <1>1, <1>8, <2>1 DEF Exp
      <4> QED BY <2>9, <4>1, SilentTalk
    <3> QED BY <3>1 DEF Talks
  <2>12. Honest' /\ Exact'
    BY <2>1 DEF Honest, Exact, Searching
  <2> QED BY <1>7, <1>11, <2>3, <2>5, <2>6, <2>8, <2>10, <2>11, <2>12 DEF IInv
<1> QED BY <1>12, <1>13

LEMMA EndSessionStep == IInv /\ EndSession => IInv'
<1> SUFFICES ASSUME IInv, EndSession PROVE IInv'
  OBVIOUS
<1>1. /\ bpc = "wait" /\ zombies = {} /\ bpc' = "idle" /\ task' = None /\ fifos' = {}
      /\ wpc' = [i \in Workers |-> "none"] /\ wdirs' = [i \in Workers |-> <<>>]
      /\ need' = [i \in Workers |-> 0] /\ asked' = [i \in Workers |-> {}]
      /\ reply' = [i \in Workers |-> <<>>]
      /\ down' = [i \in Workers |-> <<>>] /\ up' = [i \in Workers |-> <<>>]
      /\ UNCHANGED <<missing, outbox, expect, queries, printed, none_query_found>>
      /\ UNCHANGED <<alive_workers, zombies, sigchld, some_worker_died, timeout>>
  BY DEF EndSession, answerVars, signalVars
<1>2. Types /\ Phase /\ NoneInvented /\ Before'
  BY <1>1 DEF IInv, Before
<1>3. Types'
  <2>1. <<>> \in Seq(Message) /\ <<>> \in Seq(Range(Dirs))
    OBVIOUS
  <2>2. /\ down' \in [Workers -> Seq(Message)] /\ up' \in [Workers -> Seq(Message)]
        /\ reply' \in [Workers -> Seq(Message)] /\ wdirs' \in [Workers -> Seq(Range(Dirs))]
    BY <1>1, <2>1
  <2>3. \A i \in Workers : Len(down'[i]) <= PIPE /\ Len(up'[i]) <= PIPE
    BY <1>1, WorkersFacts
  <2>4. /\ wpc' \in [Workers -> WorkerStates] /\ need' \in [Workers -> Nat] /\ asked' \in [Workers -> SUBSET Vocabulary]
    BY <1>1 DEF WorkerStates
  <2> QED BY <1>1, <1>2, <2>2, <2>3, <2>4 DEF Types, BossStates
<1>4. Phase'
  BY <1>1, <1>2 DEF Phase, Nothing, Range
<1>5. Marks'
  BY <1>1 DEF Marks
<1>6. Opening'
  <2>1. Cardinality({}) = 0 /\ 1 .. 0 = {} /\ 0 \in 0 .. N
    BY FS_EmptySet, WorkersFacts
  <2> QED BY <1>1, <2>1 DEF Opening, Before
<1>7. Loads'
  BY <1>1, ShareFacts DEF Loads, Loaded, Range
<1>8. NoneInvented'
  BY <1>1, <1>2 DEF NoneInvented, Expected, Inhabited
<1>9. Stages' /\ Talks' /\ Honest' /\ Exact'
  BY <1>1, <1>2 DEF Stages, Talks, Honest, Exact, Searching
<1> QED BY <1>3, <1>4, <1>5, <1>6, <1>7, <1>8, <1>9 DEF IInv

-----------------------------------------------------------------------------
(* The boss writes to and reads from worker i. *)

LEMMA ServeStep ==
  ASSUME IInv, bpc \in {"send", "write", "read", "get"}, NEW i \in Workers,
         bpc' \notin {"idle", "fork", "open", "get", "dead"},
         UNCHANGED <<envVars, task, queries, signalVars, workerVars>>,
         \A j \in Workers \ {i} : Down(j)' = Down(j) /\ up'[j] = up[j] /\ Exp(j)' = Exp(j),
         Types', Phase', ~Gone(i) => Stage(i)', Talk(i)',
         printed \subseteq printed', none_query_found' => none_query_found,
         printed' \subseteq Expected \union {Garbage},
         task = "/search" /\ AllUp => printed' \subseteq Expected /\ (~none_query_found' => Expected # {}),
         task = "/search" /\ ~timeout /\ ~some_worker_died /\ ~Gone(i) /\ Told(i) => Told(i)'
  PROVE  IInv'
<1>1. /\ UNCHANGED <<fifos, missing, alive_workers, some_worker_died, timeout, sigchld, zombies>>
      /\ UNCHANGED <<wpc, wdirs, need, asked, reply>> /\ ~Before /\ ~Before' /\ bpc # "dead" /\ bpc' # "dead"
  BY DEF envVars, signalVars, workerVars, Before
<1>2. AllUp' = AllUp /\ Expected' = Expected /\ \A j \in Workers : Gone(j)' = Gone(j)
  BY <1>1 DEF AllUp, Expected, Inhabited, Gone
<1>3. \A j \in Workers \ {i} : Still(j) /\ (Heard(j)' => Heard(j))
  BY <1>1 DEF Still, Heard
<1>4. Stages'
  <2>1. ASSUME NEW j \in Workers \ {i}, ~Gone(j) PROVE Stage(j)'
    <3>1. Stage(j)
      BY <1>1, <2>1 DEF IInv, Stages
    <3> QED BY <1>3, <3>1, StillStage
  <2> QED BY <1>2, <2>1 DEF Stages
<1>5. Talks'
  <2>1. ASSUME NEW j \in Workers \ {i} PROVE Talk(j)'
    <3>1. Talk(j)
      BY <1>1 DEF IInv, Talks
    <3> QED BY <1>3, <3>1, StillTalk
  <2> QED BY <2>1 DEF Talks
<1>6. Loads'
  BY <1>1, StillLoaded DEF IInv, Loads
<1>7. Marks' /\ Opening'
  BY <1>1 DEF IInv, Marks, Opening, Before
<1>8. NoneInvented' /\ Honest'
  BY <1>1, <1>2 DEF NoneInvented, Honest
<1>9. Exact'
  <2>1. SUFFICES ASSUME task = "/search", ~timeout, ~some_worker_died, AllUp, NEW j \in Workers PROVE Told(j)'
    BY <1>1, <1>2 DEF Exact, Searching
  <2>2. Told(j)
    BY <2>1 DEF IInv, Exact, Searching
  <2>3. CASE j = i
    BY <2>1, <2>2, <2>3 DEF AllUp
  <2>4. CASE j # i
    BY <1>3, <2>2, <2>4, StillTold
  <2> QED BY <2>3, <2>4
<1> QED BY <1>4, <1>5, <1>6, <1>7, <1>8, <1>9 DEF IInv

(* one more message of worker i is dealt with *)
Wrote(i) ==
  /\ i \in Workers /\ outbox[i] # <<>> /\ outbox'[i] = Tail(outbox[i])
  /\ \A j \in Workers \ {i} : outbox'[j] = outbox[j]
  /\ outbox' \in [Workers -> Seq(Message)] /\ expect' \in [Workers -> Seq(MsgKinds)]
  /\ bpc' \in {"send", "read", "wait"} /\ UNCHANGED <<task, queries>>
  /\ \A j \in Workers : Exp(j)' = Exp(j)
  /\ Phase'

LEMMA AfterWriteFacts ==
  ASSUME IInv, bpc \in {"send", "write"}, AfterWrite
  PROVE  \E i \in Workers : i = Turn(outbox) /\ Wrote(i)
<1>1. Types /\ Phase /\ ~Before
  BY DEF IInv, Before
<1>2. PICK i \in Workers : i = Turn(outbox) /\ outbox[i] # <<>>
  <2>1. ~Done(outbox)
    BY <1>1 DEF Phase
  <2> QED BY <2>1, TurnFacts
<1>3. UNCHANGED <<task, queries>> /\ outbox' = [outbox EXCEPT ![i] = Tail(@)]
  BY <1>2 DEF AfterWrite
<1>4. outbox'[i] = Tail(outbox[i]) /\ \A j \in Workers \ {i} : outbox'[j] = outbox[j]
  BY <1>1, <1>2, <1>3 DEF Types
<1>5. outbox' \in [Workers -> Seq(Message)]
  <2>1. outbox[i] \in Seq(Message)
    BY <1>1, <1>2 DEF Types
  <2>2. Tail(outbox[i]) \in Seq(Message)
    BY <1>2, <2>1
  <2> QED BY <1>1, <1>3, <2>2 DEF Types
<1>6. Done(outbox') => outbox' = Nothing
  <2>1. outbox' = [j \in Workers |-> outbox'[j]]
    BY <1>5
  <2> QED BY <2>1 DEF Done, Nothing
<1>7. task \in Commands \union {"dirs"} /\ Kinds(task) \in Seq(MsgKinds)
      /\ (Kinds(task) = <<>> <=> task = "exit")
  BY <1>1, KindsTyped DEF Phase
<1>8. CASE ~Done(outbox')
  <2>1. expect' = Nothing /\ bpc' = "send"
    BY <1>8 DEF AfterWrite
  <2>2. expect' \in [Workers -> Seq(MsgKinds)]
    <3>1. <<>> \in Seq(MsgKinds)
      OBVIOUS
    <3> QED BY <2>1, <3>1 DEF Nothing
  <2>3. \A j \in Workers : Exp(j)' = Exp(j)
    <3>1. \A j \in Workers : Exp(j)' = Kinds(task)' /\ Exp(j) = Kinds(task)
      BY <2>1 DEF Exp
    <3>2. Kinds(task)' = Kinds(task)
      BY <1>3 DEF Kinds
    <3> QED BY <3>1, <3>2
  <2>4. Phase'
    <3>1. \A j \in Workers : "n" \notin Range(expect'[j])
      BY <2>1 DEF Nothing, Range
    <3> QED BY <1>1, <1>3, <1>8, <2>1, <3>1 DEF Phase, Before
  <2> QED BY <1>2, <1>3, <1>4, <1>5, <2>1, <2>2, <2>3, <2>4 DEF Wrote
<1>9. CASE Done(outbox')
  <2>1. /\ expect' = [j \in Workers |-> Kinds(task)]
        /\ bpc' = IF ~Done(expect') THEN "read" ELSE "wait"
    BY <1>9 DEF AfterWrite
  <2>2. expect' \in [Workers -> Seq(MsgKinds)]
    BY <1>7, <2>1
  <2>3. Done(expect') <=> task = "exit"
    BY <1>7, <2>1, WorkersFacts DEF Done
  <2>4. \A j \in Workers : Exp(j)' = Exp(j)
    <3>1. \A j \in Workers : Exp(j)' = expect'[j] /\ Exp(j) = Kinds(task)
      BY <2>1 DEF Exp
    <3> QED BY <2>1, <3>1
  <2>5. Phase'
    <3>1. \A j \in Workers : "n" \in Range(expect'[j]) => expect'[j] = <<"n">>
      <4>1. task # "/search" => "n" \notin Range(Kinds(task))
        <5>1. task # "/search" => \A k \in 1 .. Len(Kinds(task)) : Kinds(task)[k] \in {"msg", "int"}
          BY <1>7, KindsTyped
        <5>2. DOMAIN Kinds(task) = 1 .. Len(Kinds(task))
          BY <1>7
        <5> QED BY <5>1, <5>2 DEF Range
      <4>2. task = "/search" => Kinds(task) = <<"n">>
        BY DEF Kinds
      <4> QED BY <2>1, <4>1, <4>2
    <3>2. outbox' = Nothing
      BY <1>6, <1>9
    <3>3. task = "exit" => expect' = Nothing
      <4>1. task = "exit" => Kinds(task) = <<>>
        BY <1>7
      <4> QED BY <2>1, <4>1 DEF Nothing
    <3>4. /\ bpc' \in {"read", "wait"} /\ (bpc' = "wait" <=> task = "exit")
          /\ bpc' = "read" => ~Done(expect')
      BY <2>1, <2>3
    <3> QED BY <1>1, <1>3, <3>1, <3>2, <3>3, <3>4 DEF Phase, Before
  <2> QED BY <1>2, <1>3, <1>4, <1>5, <2>1, <2>2, <2>4, <2>5 DEF Wrote
<1>10. i \in Workers /\ i = Turn(outbox) /\ Wrote(i)
  BY <1>2, <1>8, <1>9
<1> QED BY <1>10, Zenon

LEMMA WriteStep == IInv /\ Write => IInv'
<1> SUFFICES ASSUME IInv, Write PROVE IInv'
  OBVIOUS
<1> PICK i \in Workers : i = Turn(outbox) /\ Wrote(i)
  BY AfterWriteFacts DEF Write
<1>1. /\ bpc = "write" /\ ~Gone(i) /\ Len(down[i]) < PIPE
      /\ down' = [down EXCEPT ![i] = Append(@, Head(outbox[i]))]
      /\ UNCHANGED <<envVars, answerVars, signalVars, workerVars, up>>
  BY DEF Write
<1>2. /\ i \in Workers /\ outbox[i] # <<>> /\ outbox'[i] = Tail(outbox[i])
      /\ \A j \in Workers \ {i} : outbox'[j] = outbox[j]
      /\ outbox' \in [Workers -> Seq(Message)] /\ expect' \in [Workers -> Seq(MsgKinds)]
      /\ bpc' \in {"send", "read", "wait"} /\ UNCHANGED <<task, queries>>
      /\ \A j \in Workers : Exp(j)' = Exp(j)
      /\ Phase'
  BY DEF Wrote
<1>3. Types /\ ~Before /\ bpc # "dead"
  BY <1>1 DEF IInv, Before
<1>4. down'[i] = Append(down[i], Head(outbox[i])) /\ \A j \in Workers \ {i} : down'[j] = down[j]
  BY <1>1, <1>2, <1>3 DEF Types
<1>5. down[i] \in Seq(Message) /\ outbox[i] \in Seq(Message) /\ PIPE \in Nat
  BY <1>2, <1>3, WorkersFacts DEF Types
<1>6. down' \in [Workers -> Seq(Message)] /\ \A j \in Workers : Len(down'[j]) <= PIPE
  <2>1. Head(outbox[i]) \in Message
    BY <1>2, <1>5
  <2>2. down'[i] \in Seq(Message) /\ Len(down'[i]) <= PIPE
    BY <1>1, <1>4, <1>5, <2>1
  <2>3. \A j \in Workers : down'[j] \in Seq(Message) /\ Len(down'[j]) <= PIPE
    BY <1>3, <1>4, <2>2 DEF Types
  <2> QED BY <1>1, <1>3, <2>3 DEF Types
<1>7. Types'
  <2>1. /\ UNCHANGED <<fifos, missing, alive_workers, some_worker_died, timeout, sigchld, zombies, none_query_found>>
        /\ UNCHANGED <<wpc, wdirs, need, asked, reply, up>>
    BY <1>1 DEF envVars, answerVars, signalVars, workerVars
  <2>2. bpc' \in BossStates
    BY <1>2 DEF BossStates
  <2> QED BY <1>2, <1>3, <1>6, <2>1, <2>2 DEF Types
<1>8. \A j \in Workers : Down(j)' = Down(j)
  <2>1. Down(i)' = Down(i)
    <3> DEFINE s == down[i]
               t == outbox[i]
    <3>1. s \in Seq(Message) /\ t \in Seq(Message) /\ t # <<>>
      BY <1>2, <1>5
    <3> HIDE DEF s, t
    <3>2. Append(s, Head(t)) \o Tail(t) = s \o t
      BY <3>1, MoveHead
    <3> QED BY <1>2, <1>4, <3>2 DEF Down, s, t
  <2>2. \A j \in Workers \ {i} : Down(j)' = Down(j)
    BY <1>2, <1>4 DEF Down
  <2> QED BY <2>1, <2>2
<1>9. UNCHANGED <<missing, fifos, wpc, wdirs, need, asked, reply, up, printed, none_query_found, alive_workers>>
  BY <1>1 DEF envVars, answerVars, signalVars, workerVars
<1>10. Still(i) /\ (Heard(i)' => Heard(i)) /\ Talk(i) /\ Stage(i) /\ Exp(i)' = Exp(i)
  BY <1>1, <1>2, <1>3, <1>8, <1>9 DEF Still, Heard, IInv, Talks, Stages
<1>11. Stage(i)' /\ Talk(i)'
  BY <1>2, <1>10, StillStage, StillTalk
<1>12. Told(i) => Told(i)'
  BY <1>2, <1>9, <1>10, StillTold
<1>13. /\ printed' \subseteq Expected \union {Garbage}
       /\ task = "/search" /\ AllUp => printed' \subseteq Expected /\ (~none_query_found' => Expected # {})
  BY <1>3, <1>9 DEF IInv, NoneInvented, Honest
<1> QED BY <1>1, <1>2, <1>7, <1>8, <1>9, <1>11, <1>12, <1>13, ServeStep

LEMMA WriteSkippedStep == IInv /\ WriteSkipped => IInv'
<1> SUFFICES ASSUME IInv, WriteSkipped PROVE IInv'
  OBVIOUS
<1> PICK i \in Workers : i = Turn(outbox) /\ Wrote(i)
  BY AfterWriteFacts DEF WriteSkipped
<1>1. /\ bpc = "send" /\ ~alive_workers[i]
      /\ UNCHANGED <<envVars, answerVars, signalVars, workerVars, down, up>>
  BY DEF WriteSkipped
<1>2. /\ i \in Workers /\ outbox[i] # <<>> /\ outbox'[i] = Tail(outbox[i])
      /\ \A j \in Workers \ {i} : outbox'[j] = outbox[j]
      /\ outbox' \in [Workers -> Seq(Message)] /\ expect' \in [Workers -> Seq(MsgKinds)]
      /\ bpc' \in {"send", "read", "wait"} /\ UNCHANGED <<task, queries>>
      /\ \A j \in Workers : Exp(j)' = Exp(j)
      /\ Phase'
  BY DEF Wrote
<1>3. Types /\ ~Before
  BY <1>1 DEF IInv, Before
<1>4. UNCHANGED <<missing, fifos, wpc, wdirs, need, asked, reply, printed, none_query_found, alive_workers, some_worker_died, timeout, sigchld, zombies>>
  BY <1>1 DEF envVars, answerVars, signalVars, workerVars
<1>5. Types'
  <2>1. bpc' \in BossStates
    BY <1>2 DEF BossStates
  <2> QED BY <1>1, <1>2, <1>3, <1>4, <2>1 DEF Types
<1>6. Gone(i) /\ Gone(i)' /\ ~Heard(i)'
  <2>1. wpc[i] = "ended"
    BY <1>1, <1>2 DEF IInv, Marks
  <2> QED BY <1>1, <1>2, <1>4, <2>1 DEF Gone, Heard
<1>7. Talk(i)'
  BY <1>6 DEF Talk
<1>8. \A j \in Workers \ {i} : Down(j)' = Down(j)
  BY <1>1, <1>2 DEF Down
<1>9. /\ printed' \subseteq Expected \union {Garbage}
      /\ task = "/search" /\ AllUp => printed' \subseteq Expected /\ (~none_query_found' => Expected # {})
  BY <1>3, <1>4 DEF IInv, NoneInvented, Honest
<1> QED BY <1>1, <1>2, <1>4, <1>5, <1>6, <1>7, <1>8, <1>9, ServeStep

(* The value read is of the kind expected; what is left fits what is expected then. *)
After(E, v) == IF E = <<"n">> THEN Parts(v) ELSE Tail(E)
OnlyNumber(E) == "n" \in Range(E) => E = <<"n">>

LEMMA AfterTyped ==
  ASSUME NEW E \in Seq(MsgKinds), E # <<>>, OnlyNumber(E), NEW v, E = <<"n">> => v \in Int
  PROVE  /\ After(E, v) \in Seq(MsgKinds) /\ "n" \notin Range(After(E, v))
         /\ Head(E) = "n" <=> E = <<"n">>
<1>1. Head(E) = E[1] /\ 1 \in DOMAIN E
  OBVIOUS
<1>2. Head(E) = "n" <=> E = <<"n">>
  <2>1. Head(E) = "n" => "n" \in Range(E)
    BY <1>1 DEF Range
  <2>2. E = <<"n">> => E[1] = "n"
    OBVIOUS
  <2> QED BY <1>1, <2>1, <2>2 DEF OnlyNumber
<1>3. CASE E = <<"n">>
  <2>1. After(E, v) = Parts(v) /\ v \in Int
    BY <1>3 DEF After
  <2>2. Parts(v) \in Seq(MsgKinds) /\ \A k \in 1 .. Len(Parts(v)) : Parts(v)[k] # "n"
    BY <2>1, PartsFacts
  <2>3. "n" \notin Range(Parts(v))
    BY <2>2 DEF Range
  <2> QED BY <1>2, <2>1, <2>2, <2>3
<1>4. CASE E # <<"n">>
  <2>1. After(E, v) = Tail(E)
    BY <1>4 DEF After
  <2>2. Tail(E) \in Seq(MsgKinds) /\ \A k \in 1 .. Len(Tail(E)) : Tail(E)[k] = E[k + 1] /\ k + 1 \in DOMAIN E
    OBVIOUS
  <2>3. "n" \notin Range(Tail(E))
    <3>1. "n" \notin Range(E)
      BY <1>4 DEF OnlyNumber
    <3> QED BY <2>2, <3>1 DEF Range
  <2> QED BY <1>2, <2>1, <2>2, <2>3
<1> QED BY <1>3, <1>4

LEMMA FitsTail ==
  ASSUME NEW i \in Workers, NEW U \in Seq(Message), U # <<>>, NEW E \in Seq(MsgKinds), E # <<>>,
         OnlyNumber(E), FitsIn(U, E), Content(i, U)
  PROVE  /\ Head(U).kind = Head(E) /\ (E = <<"n">> => Head(U).val \in Nat)
         /\ FitsIn(Tail(U), After(E, Head(U).val)) /\ Content(i, Tail(U))
         /\ Complete(U, E) => Complete(Tail(U), After(E, Head(U).val))
<1> DEFINE v == Head(U).val
           T == Tail(U)
           E2 == After(E, v)
<1>1. /\ Head(U) = U[1] /\ Len(U) \in Nat /\ Len(U) >= 1 /\ T \in Seq(Message) /\ Len(T) = Len(U) - 1
      /\ \A k \in 1 .. Len(T) : T[k] = U[k + 1] /\ k + 1 \in 1 .. Len(U)
  OBVIOUS
<1> HIDE DEF T
<1>2. Content(i, T)
  BY <1>1 DEF Content
<1>3. CASE E = <<"n">>
  <2>1. /\ U[1].kind = "n" /\ U[1].val \in Nat
        /\ Len(U) <= 3 * U[1].val + 1
        /\ \A k \in 2 .. Len(U) : U[k].kind = Part(k - 1)
    BY <1>3 DEF FitsIn
  <2>2. v \in Nat /\ E2 = Parts(v) /\ Head(E) = "n" /\ U[1].val = v
    BY <1>1, <1>3, <2>1 DEF After
  <2>3. /\ Len(Parts(v)) = 3 * v /\ Parts(v) # <<"n">>
        /\ \A k \in 1 .. Len(Parts(v)) : Parts(v)[k] = Part(k)
    <3>1. /\ Len(Parts(v)) = IF v > 0 THEN 3 * v ELSE 0
          /\ Parts(v) # <<"n">> /\ \A k \in 1 .. Len(Parts(v)) : Parts(v)[k] = Part(k)
      <4> HIDE DEF v
      <4>1. v \in Int
        BY <2>2
      <4>2. /\ Len(Parts(v)) = IF v > 0 THEN 3 * v ELSE 0
            /\ \A k \in 1 .. Len(Parts(v)) : Parts(v)[k] = Part(k) /\ Part(k) # "n"
            /\ Parts(v) # <<"n">>
        BY <4>1, PartsFacts
      <4> QED BY <4>2
    <3> QED BY <2>2, <3>1
  <2> HIDE DEF v
  <2>4. \A k \in 1 .. Len(T) : T[k].kind = Part(k)
    <3>1. ASSUME NEW k \in 1 .. Len(T) PROVE T[k].kind = Part(k)
      <4>1. k + 1 \in 2 .. Len(U) /\ (k + 1) - 1 = k
        BY <1>1
      <4> QED BY <1>1, <2>1, <4>1
    <3> QED BY <3>1
  <2>5. Len(T) <= Len(Parts(v))
    BY <1>1, <2>1, <2>2, <2>3
  <2>6. FitsIn(T, Parts(v))
    <3>1. \A k \in 1 .. Len(T) : T[k].kind = Parts(v)[k]
      BY <1>1, <2>2, <2>3, <2>4, <2>5
    <3> QED BY <2>3, <2>5, <3>1 DEF FitsIn
  <2>7. Complete(U, E) => Complete(T, Parts(v))
    <3>1. Complete(U, E) => Len(U) = 3 * v + 1
      BY <1>3, <2>2 DEF Complete
    <3> QED BY <1>1, <2>2, <2>3, <3>1 DEF Complete
  <2> QED BY <1>1, <1>2, <2>1, <2>2, <2>6, <2>7 DEF T
<1>4. CASE E # <<"n">>
  <2>1. Len(U) <= Len(E) /\ \A k \in 1 .. Len(U) : U[k].kind = E[k]
    BY <1>4 DEF FitsIn
  <2>2. E2 = Tail(E) /\ Tail(E) # <<"n">>
    <3>1. E2 = Tail(E)
      BY <1>4 DEF After
    <3>2. "n" \notin Range(E2)
      <4> HIDE DEF v
      <4>1. E = <<"n">> => v \in Int
        BY <1>4
      <4> QED BY <4>1, AfterTyped
    <3>3. "n" \in Range(<<"n">>)
      BY DEF Range
    <3> QED BY <3>1, <3>2, <3>3
  <2> HIDE DEF v
  <2>3. /\ Head(E) = E[1] /\ Len(E) \in Nat /\ Len(Tail(E)) = Len(E) - 1
        /\ \A k \in 1 .. Len(Tail(E)) : Tail(E)[k] = E[k + 1]
    OBVIOUS
  <2>4. Head(U).kind = Head(E)
    BY <1>1, <2>1, <2>3
  <2>5. Len(T) <= Len(Tail(E)) /\ \A k \in 1 .. Len(T) : T[k].kind = Tail(E)[k]
    BY <1>1, <2>1, <2>3, SMTT(30)
  <2>6. FitsIn(T, Tail(E))
    BY <2>2, <2>5 DEF FitsIn
  <2>7. Complete(U, E) => Complete(T, Tail(E))
    BY <1>1, <1>4, <2>2, <2>3 DEF Complete
  <2> QED BY <1>2, <1>4, <2>2, <2>4, <2>6, <2>7 DEF T, v
<1> QED BY <1>3, <1>4

(* one more value, v, of worker i is dealt with *)
Took(i, v) ==
  LET kind == Head(expect[i])
  IN  /\ i \in Workers /\ expect[i] # <<>> /\ expect[i] \in Seq(MsgKinds) /\ OnlyNumber(expect[i])
      /\ expect'[i] = After(expect[i], v) /\ (kind = "n" <=> expect[i] = <<"n">>)
      /\ \A j \in Workers \ {i} : expect'[j] = expect[j]
      /\ expect' \in [Workers -> Seq(MsgKinds)] /\ expect'[i] # <<"n">>
      /\ bpc' \in {"read", "verdict", "bye", "prompt"} /\ UNCHANGED <<task, queries, outbox>>
      /\ \A j \in Workers : Exp(j) = expect[j] /\ Exp(j)' = expect'[j]
      /\ none_query_found' = (none_query_found /\ ~(kind = "n" /\ v > 0))
      /\ printed' = printed \union
           IF kind = "line" /\ v # None /\ ~timeout /\ ~some_worker_died THEN {v} ELSE {}
      /\ Phase'

LEMMA AfterReadFacts ==
  ASSUME IInv, bpc \in {"read", "get"}, NEW v, AfterRead(v),
         Head(expect[Turn(expect)]) = "n" => v \in Int
  PROVE  \E i \in Workers : i = Turn(expect) /\ Took(i, v)
<1>1. Types /\ Phase /\ ~Before
  BY DEF IInv, Before
<1>2. PICK i \in Workers : i = Turn(expect) /\ expect[i] # <<>>
  <2>1. ~Done(expect)
    BY <1>1 DEF Phase
  <2> QED BY <2>1, TurnFacts
<1> DEFINE E == expect[i]
           kind == Head(E)
<1>3. E \in Seq(MsgKinds) /\ OnlyNumber(E) /\ E # <<>>
  BY <1>1, <1>2 DEF Types, Phase, OnlyNumber
<1>4. Head(E) = "n" => v \in Int
  BY <1>2
<1>5. E = <<"n">> => v \in Int
  <2>1. E = <<"n">> => Head(E) = "n"
    OBVIOUS
  <2> QED BY <1>4, <2>1
<1>6. /\ After(E, v) \in Seq(MsgKinds) /\ "n" \notin Range(After(E, v))
      /\ Head(E) = "n" <=> E = <<"n">>
  <2> HIDE DEF E
  <2> QED BY <1>3, <1>5, AfterTyped
<1>7. expect' = [expect EXCEPT ![i] = (IF kind = "n" THEN Parts(v) ELSE <<>>) \o Tail(@)]
  BY <1>2 DEF AfterRead
<1>8. (IF kind = "n" THEN Parts(v) ELSE <<>>) \o Tail(E) = After(E, v)
  <2>1. CASE kind = "n"
    <3>1. Parts(v) = After(E, v) /\ Parts(v) \in Seq(MsgKinds) /\ E = <<"n">>
      BY <1>6, <2>1 DEF After
    <3>2. Tail(E) = <<>>
      BY <3>1
    <3> DEFINE p == Parts(v)
    <3>3. p \in Seq(MsgKinds)
      BY <3>1
    <3> HIDE DEF p
    <3>4. p \o <<>> = p
      BY <3>3
    <3> QED BY <2>1, <3>1, <3>2, <3>4 DEF p
  <2>2. CASE kind # "n"
    <3>1. After(E, v) = Tail(E)
      BY <1>6, <2>2 DEF After
    <3> DEFINE p == Tail(E)
    <3>2. p \in Seq(MsgKinds)
      BY <1>3
    <3> HIDE DEF p
    <3>3. <<>> \o p = p
      BY <3>2
    <3> QED BY <2>2, <3>1, <3>3 DEF p
  <2> QED BY <2>1, <2>2
<1>9. expect' = [expect EXCEPT ![i] = After(E, v)]
  BY <1>7, <1>8
<1>10. /\ expect'[i] = After(E, v) /\ expect' \in [Workers -> Seq(MsgKinds)]
       /\ \A j \in Workers \ {i} : expect'[j] = expect[j]
  BY <1>1, <1>6, <1>9 DEF Types
<1>11. expect'[i] # <<"n">>
  <2>1. "n" \in Range(<<"n">>)
    BY DEF Range
  <2> QED BY <1>6, <1>10, <2>1
<1>12. /\ bpc' = IF ~Done(expect') THEN "read"
                  ELSE CASE task = "/search" -> "verdict"
                         [] task = "/exit"   -> "bye"
                         [] OTHER            -> "prompt"
       /\ UNCHANGED <<task, queries, outbox>>
  BY DEF AfterRead
<1>13. bpc' \in {"read", "verdict", "bye", "prompt"}
  BY <1>12
<1>14. \A j \in Workers : Exp(j) = expect[j] /\ Exp(j)' = expect'[j]
  BY <1>13 DEF Exp
<1>15. Phase'
  <2>1. \A j \in Workers : "n" \in Range(expect'[j]) => expect'[j] = <<"n">>
    BY <1>1, <1>6, <1>10 DEF Phase
  <2>2. Done(expect') => expect' = Nothing
    <3>1. expect' = [j \in Workers |-> expect'[j]]
      BY <1>10
    <3> QED BY <3>1 DEF Done, Nothing
  <2>3. task \in (Commands \union {"dirs"}) \ {"exit"} /\ outbox = Nothing /\ (task = "/search" => queries # <<>>)
    BY <1>1 DEF Phase
  <2>4. CASE ~Done(expect')
    BY <1>12, <2>1, <2>3, <2>4 DEF Phase, Before
  <2>5. CASE Done(expect')
    <3>1. /\ bpc' \in {"verdict", "bye", "prompt"}
          /\ bpc' = "verdict" => task = "/search"
          /\ bpc' = "bye" => task = "/exit"
          /\ bpc' = "prompt" => task \in {"dirs", "/wc", "/maxcount"}
      BY <1>12, <2>3, <2>5 DEF Commands
    <3> QED BY <1>12, <2>1, <2>2, <2>3, <2>5, <3>1 DEF Phase, Before
  <2> QED BY <2>4, <2>5
<1>16. /\ none_query_found' = (none_query_found /\ ~(kind = "n" /\ v > 0))
       /\ printed' = printed \union
           IF kind = "line" /\ v # None /\ ~timeout /\ ~some_worker_died THEN {v} ELSE {}
  BY <1>2 DEF AfterRead
<1>17. i \in Workers /\ i = Turn(expect) /\ Took(i, v)
  BY <1>2, <1>3, <1>6, <1>10, <1>11, <1>12, <1>13, <1>14, <1>15, <1>16 DEF Took
<1> QED BY <1>17, Zenon

(* the lines of a worker are lines of the search *)
LEMMA MineExpected ==
  ASSUME Types, NEW i \in Workers, Loaded(i)
  PROVE  Mine(i) \subseteq Expected /\ None \notin Mine(i)
<1>1. wdirs[i] \in Seq(Range(Dirs)) /\ queries \in Seq(Vocabulary)
  BY DEF Types
<1> DEFINE D == Range(wdirs[i])
           Q == Range(queries)
<1>2. D \in SUBSET Range(Dirs) /\ Q \in SUBSET Vocabulary /\ IsFiniteSet(D) /\ IsFiniteSet(Q)
  BY <1>1, RangeFinite
<1>3. None \notin Found(D, Q)
  <2> HIDE DEF D, Q
  <2> QED BY <1>2, FoundFinite
<1>4. D \subseteq Inhabited
  BY DEF Loaded
<1> QED BY <1>3, <1>4 DEF Mine, Expected, Found

(* the worker whose turn it is, while the boss reads *)
LEMMA Reading ==
  ASSUME IInv, bpc \in {"read", "get"}
  PROVE  \E i \in Workers : /\ i = Turn(expect) /\ expect[i] # <<>> /\ expect[i] \in Seq(MsgKinds)
                             /\ OnlyNumber(expect[i]) /\ Exp(i) = expect[i]
                             /\ Types /\ Talk(i) /\ Loaded(i) /\ (~Gone(i) => Stage(i))
                             /\ Mine(i) \subseteq Expected /\ None \notin Mine(i)
<1>1. ~Done(expect) /\ ~Before /\ bpc # "dead"
  BY DEF IInv, Phase, Before
<1>2. PICK i \in Workers : i = Turn(expect) /\ expect[i] # <<>>
  BY <1>1, TurnFacts
<1>3. expect[i] \in Seq(MsgKinds) /\ OnlyNumber(expect[i]) /\ Exp(i) = expect[i]
  BY DEF IInv, Types, Phase, OnlyNumber, Exp
<1>4. Types /\ Talk(i) /\ Loaded(i) /\ (~Gone(i) => Stage(i))
  BY <1>1 DEF IInv, Talks, Loads, Stages
<1>5. Mine(i) \subseteq Expected /\ None \notin Mine(i)
  BY <1>4, MineExpected
<1> QED BY <1>2, <1>3, <1>4, <1>5, Zenon

(* The first conjunct of InSync: the boss never reads an index for a number. *)
LEMMA ReadHead ==
  ASSUME IInv, bpc = "get", NEW i \in Workers, i = Turn(expect), up[i] # <<>>
  PROVE  /\ up[i] \in Seq(Message) /\ FitsIn(up[i], expect[i]) /\ Content(i, up[i])
         /\ Head(up[i]).kind = Head(expect[i]) /\ (expect[i] = <<"n">> => Head(up[i]).val \in Nat)
<1>1. PICK j \in Workers : /\ j = Turn(expect) /\ expect[j] # <<>> /\ expect[j] \in Seq(MsgKinds)
                           /\ OnlyNumber(expect[j]) /\ Exp(j) = expect[j]
                           /\ Types /\ Talk(j)
  BY Reading
<1>2. i = j
  BY <1>1
<1>3. Heard(i) /\ up[i] \in Seq(Message)
  BY <1>1, <1>2 DEF Heard, Types
<1>4. FitsIn(up[i], expect[i]) /\ Content(i, up[i]) /\ expect[i] \in Seq(MsgKinds) /\ expect[i] # <<>> /\ OnlyNumber(expect[i])
  BY <1>1, <1>2, <1>3 DEF Talk
<1> DEFINE U == up[i]
           E == expect[i]
<1>5. Head(U).kind = Head(E) /\ (E = <<"n">> => Head(U).val \in Nat)
  <2>1. /\ U \in Seq(Message) /\ U # <<>> /\ E \in Seq(MsgKinds) /\ E # <<>>
        /\ OnlyNumber(E) /\ FitsIn(U, E) /\ Content(i, U)
    BY <1>3, <1>4
  <2> HIDE DEF U, E
  <2> QED BY <2>1, FitsTail
<1> QED BY <1>3, <1>4, <1>5

LEMMA TookStage ==
  ASSUME NEW i \in Workers, Stage(i), UNCHANGED <<task, queries, workerVars>>, Down(i)' = Down(i)
  PROVE  Stage(i)'
<1>1. LetterOf(i)' = LetterOf(i) /\ UNCHANGED <<wpc, wdirs, need, asked, reply>>
  BY DEF LetterOf, workerVars
<1> QED BY <1>1 DEF Stage

(* A value of a worker that is gone: what it was, if it was anything, does not matter. *)
LEMMA TookFromGone ==
  ASSUME IInv, bpc \in {"read", "get"}, NEW i \in Workers, NEW v, Took(i, v),
         Gone(i), ~alive_workers[i] \/ up[i] = <<>>,
         Head(expect[i]) = "line" => v \in {None, Garbage},
         UNCHANGED <<envVars, signalVars, workerVars, down, up>>
  PROVE  IInv'
<1>1. /\ \A j \in Workers \ {i} : expect'[j] = expect[j]
      /\ expect' \in [Workers -> Seq(MsgKinds)]
      /\ bpc' \in {"read", "verdict", "bye", "prompt"} /\ UNCHANGED <<task, queries, outbox>>
      /\ \A j \in Workers : Exp(j) = expect[j] /\ Exp(j)' = expect'[j]
      /\ Phase'
  BY DEF Took
<1>2. UNCHANGED <<missing, fifos, wpc, wdirs, need, asked, reply, alive_workers, some_worker_died, timeout, sigchld, zombies>>
  BY DEF envVars, signalVars, workerVars
<1>3. printed \subseteq printed' /\ printed' \subseteq printed \union {Garbage} /\ (none_query_found' => none_query_found)
      /\ none_query_found' \in BOOLEAN
  <2>1. none_query_found \in BOOLEAN
    BY DEF IInv, Types
  <2> QED BY <2>1 DEF Took
<1>4. Types'
  BY <1>1, <1>2, <1>3 DEF IInv, Types, BossStates
<1>5. Gone(i)' /\ (Heard(i)' => up'[i] = <<>>)
  BY <1>1, <1>2 DEF Gone, Heard
<1>6. Talk(i)'
  <2>1. up'[i] = <<>> => FitsIn(up[i], Exp(i))' /\ Content(i, up[i])'
    BY DEF FitsIn, Content
  <2> QED BY <1>5, <2>1 DEF Talk
<1>7. printed' \subseteq Expected \union {Garbage}
  BY <1>3 DEF IInv, NoneInvented
<1>8. ~AllUp
  BY DEF AllUp
<1>9. \A j \in Workers \ {i} : Down(j)' = Down(j) /\ up'[j] = up[j] /\ Exp(j)' = Exp(j)
  BY <1>1 DEF Down
<1>10. bpc \in {"send", "write", "read", "get"} /\ bpc' \notin {"idle", "fork", "open", "get", "dead"}
  BY <1>1
<1> QED BY <1>1, <1>3, <1>4, <1>6, <1>7, <1>8, <1>9, <1>10, ServeStep

LEMMA ReadSkippedStep == IInv /\ ReadSkipped => IInv'
<1> SUFFICES ASSUME IInv, ReadSkipped PROVE IInv'
  OBVIOUS
<1>1. PICK i \in Workers : i = Turn(expect)
  BY Reading DEF ReadSkipped
<1> DEFINE v == IF Head(expect[i]) = "n" THEN -1 ELSE None
<1>2. bpc = "read" /\ ~alive_workers[i] /\ AfterRead(v) /\ UNCHANGED <<envVars, signalVars, workerVars, down, up>>
  BY <1>1 DEF ReadSkipped
<1>3. PICK j \in Workers : j = Turn(expect) /\ Took(j, v)
  <2>1. Head(expect[Turn(expect)]) = "n" => v \in Int
    BY <1>1
  <2> HIDE DEF v
  <2> QED BY <1>2, <2>1, AfterReadFacts
<1>4. Took(i, v)
  BY <1>1, <1>3
<1>5. Gone(i)
  BY <1>2 DEF IInv, Marks, Gone
<1>6. Head(expect[i]) = "line" => v \in {None, Garbage}
  OBVIOUS
<1> HIDE DEF v
<1> QED BY <1>2, <1>4, <1>5, <1>6, TookFromGone

LEMMA ReadGarbageStep == IInv /\ ReadGarbage => IInv'
<1> SUFFICES ASSUME IInv, ReadGarbage PROVE IInv'
  OBVIOUS
<1>1. PICK i \in Workers : i = Turn(expect)
  BY Reading DEF ReadGarbage, AtEndOfFile
<1>2. PICK v \in (IF Head(expect[i]) = "n" THEN GarbageCounts ELSE {Garbage, None}) : AfterRead(v)
  BY <1>1 DEF ReadGarbage
<1>3. bpc = "get" /\ up[i] = <<>> /\ Gone(i) /\ UNCHANGED <<envVars, signalVars, workerVars, down, up>>
  BY <1>1 DEF ReadGarbage, AtEndOfFile
<1>4. PICK j \in Workers : j = Turn(expect) /\ Took(j, v)
  <2>1. Head(expect[Turn(expect)]) = "n" => v \in Int
    BY <1>1, <1>2, SessionAssumption
  <2> QED BY <1>2, <1>3, <2>1, AfterReadFacts
<1>5. Took(i, v)
  BY <1>1, <1>4
<1>6. Head(expect[i]) = "line" => v \in {None, Garbage}
  BY <1>2
<1> QED BY <1>3, <1>5, <1>6, TookFromGone

(* the first value in a FIFO is the first of all those on their way *)
LEMMA NotEmptied ==
  ASSUME NEW i \in Workers, up[i] \in Seq(Message), reply[i] \in Seq(Message), up[i] # <<>>
  PROVE  /\ Up(i) \in Seq(Message) /\ Up(i) # <<>>
         /\ Head(Up(i)) = Head(up[i]) /\ Tail(Up(i)) = Tail(up[i]) \o reply[i]
<1> DEFINE u == up[i]
           r == reply[i]
<1>1. u \in Seq(Message) /\ r \in Seq(Message) /\ u # <<>>
  OBVIOUS
<1>2. Up(i) = u \o r
  BY DEF Up
<1> HIDE DEF u, r
<1>3. /\ u \o r \in Seq(Message) /\ u \o r # <<>>
      /\ Head(u \o r) = Head(u) /\ Tail(u \o r) = Tail(u) \o r
  BY <1>1, Concat
<1> QED BY <1>2, <1>3 DEF u, r

(* what a live worker's values, less the first, still tell of its lines *)
LEMMA TookTold ==
  ASSUME IInv, bpc = "get", NEW i \in Workers, i = Turn(expect), up[i] # <<>>, ~Gone(i),
         NEW v, v = Head(up[i]).val, Took(i, v),
         Up(i)' = Tail(Up(i)), Down(i)' = Down(i), UNCHANGED <<wdirs, queries>>,
         ~timeout, ~some_worker_died, Told(i)
  PROVE  Told(i)'
<1> DEFINE U == Up(i)
           T == Tail(U)
<1>1. PICK j \in Workers : j = Turn(expect) /\ Exp(j) = expect[j] /\ Types /\ Talk(j) /\ None \notin Mine(j)
  BY Reading
<1>2. Exp(i) = expect[i] /\ Types /\ Talk(i) /\ None \notin Mine(i)
  BY <1>1
<1>3. up[i] \in Seq(Message) /\ reply[i] \in Seq(Message)
  BY <1>2 DEF Types
<1>4. U \in Seq(Message) /\ U # <<>> /\ Head(U) = Head(up[i])
  BY <1>3, NotEmptied
<1>5. Mine(i)' = Mine(i)
  BY DEF Mine
<1>6. CASE Down(i) # <<>>
  BY <1>6 DEF Told
<1>7. CASE Down(i) = <<>>
  <2>1. /\ \A l \in Mine(i) : l \in printed \/ \E k \in 1 .. Len(U) : U[k] = Msg("line", l)
        /\ Exp(i) = <<"n">> => (U[1].val > 0 <=> Mine(i) # {})
        /\ Exp(i) # <<"n">> => (Mine(i) # {} => ~none_query_found)
    BY <1>7 DEF Told
  <2>2. /\ U[1] = Head(U) /\ Len(U) \in Nat /\ Len(T) = Len(U) - 1
        /\ \A k \in 1 .. Len(T) : T[k] = U[k + 1]
    <3> HIDE DEF U
    <3> QED BY <1>4
  <2> HIDE DEF U, T
  <2>3. Head(up[i]).kind = Head(expect[i])
    BY ReadHead
  <2>4. /\ Exp(i)' # <<"n">> /\ (Head(expect[i]) = "n" <=> expect[i] = <<"n">>)
        /\ none_query_found' = (none_query_found /\ ~(Head(expect[i]) = "n" /\ v > 0))
        /\ printed' = printed \union
             IF Head(expect[i]) = "line" /\ v # None /\ ~timeout /\ ~some_worker_died THEN {v} ELSE {}
    <3>1. Exp(i)' = expect'[i] /\ expect'[i] # <<"n">>
      BY DEF Took
    <3> QED BY <3>1 DEF Took
  <2>5. ASSUME NEW l \in Mine(i) PROVE l \in printed' \/ \E k \in 1 .. Len(T) : T[k] = Msg("line", l)
    <3>1. CASE l \in printed
      BY <2>4, <3>1
    <3>2. ASSUME NEW k \in 1 .. Len(U), U[k] = Msg("line", l), k # 1
          PROVE  \E m \in 1 .. Len(T) : T[m] = Msg("line", l)
      <4>1. k - 1 \in 1 .. Len(T) /\ (k - 1) + 1 = k
        BY <2>2, <3>2
      <4>2. T[k - 1] = Msg("line", l)
        BY <2>2, <3>2, <4>1
      <4> QED BY <4>1, <4>2
    <3>3. ASSUME U[1] = Msg("line", l) PROVE l \in printed'
      <4>1. Msg("line", l).kind = "line" /\ Msg("line", l).val = l
        BY DEF Msg
      <4>2. v = l /\ Head(expect[i]) = "line" /\ l # None
        BY <1>2, <1>4, <2>2, <2>3, <3>3, <4>1
      <4> QED BY <2>4, <4>2
    <3> QED BY <2>1, <3>1, <3>2, <3>3
  <2>6. Mine(i) # {} => ~none_query_found'
    <3>1. CASE Exp(i) = <<"n">>
      <4>1. Head(expect[i]) = "n" /\ U[1].val = v
        BY <1>2, <1>4, <2>2, <2>4, <3>1
      <4> QED BY <2>1, <2>4, <3>1, <4>1
    <3>2. CASE Exp(i) # <<"n">>
      BY <2>1, <2>4, <3>2
    <3> QED BY <3>1, <3>2
  <2>7. Up(i)' = T
    BY DEF T, U
  <2> QED BY <1>5, <2>4, <2>5, <2>6, <2>7 DEF Told
<1> QED BY <1>6, <1>7

(* a positive number of answers announces at least one line *)
LEMMA NumberHonest ==
  ASSUME NEW i \in Workers, NEW U \in Seq(Message), U # <<>>, FitsIn(U, <<"n">>), Complete(U, <<"n">>),
         Content(i, U), Head(U).val > 0
  PROVE  Mine(i) # {}
<1>1. Head(U) = U[1] /\ Len(U) \in Nat
  OBVIOUS
<1>2. U[1].val \in Nat /\ \A k \in 2 .. Len(U) : U[k].kind = Part(k - 1)
  BY DEF FitsIn
<1>3. Len(U) = 3 * U[1].val + 1
  BY DEF Complete
<1>4. 4 \in 2 .. Len(U) /\ 4 \in 1 .. Len(U) /\ 4 - 1 = 3
  BY <1>1, <1>2, <1>3
<1>5. Part(3) = "line"
  BY DEF Part
<1>6. U[4].kind = "line"
  BY <1>2, <1>4, <1>5
<1>7. U[4].val \in Mine(i)
  BY <1>4, <1>6 DEF Content
<1> QED BY <1>7

LEMMA ReadStep == IInv /\ Read => IInv'
<1> SUFFICES ASSUME IInv, Read PROVE IInv'
  OBVIOUS
<1>1. PICK i \in Workers : /\ i = Turn(expect) /\ expect[i] # <<>> /\ expect[i] \in Seq(MsgKinds)
                           /\ OnlyNumber(expect[i]) /\ Exp(i) = expect[i]
                           /\ Types /\ Talk(i) /\ Loaded(i) /\ (~Gone(i) => Stage(i))
                           /\ Mine(i) \subseteq Expected /\ None \notin Mine(i)
  BY Reading DEF Read
<1> DEFINE v == Head(up[i]).val
           E == expect[i]
           kind == Head(E)
<1>2. /\ bpc = "get" /\ up[i] # <<>> /\ AfterRead(v) /\ up' = [up EXCEPT ![i] = Tail(@)]
      /\ UNCHANGED <<envVars, signalVars, workerVars, down>>
  BY <1>1 DEF Read
<1>3. UNCHANGED <<missing, fifos, wpc, wdirs, need, asked, reply, alive_workers, some_worker_died, timeout, sigchld, zombies>>
  BY <1>2 DEF envVars, signalVars, workerVars
<1>4. /\ up[i] \in Seq(Message) /\ FitsIn(up[i], E) /\ Content(i, up[i])
      /\ Head(up[i]).kind = kind /\ (E = <<"n">> => v \in Nat)
  BY <1>1, <1>2, ReadHead
<1>5. Took(i, v)
  <2>1. kind = "n" => v \in Int
    <3>1. kind = "n" => E = <<"n">>
      <4>1. kind = E[1] /\ 1 \in DOMAIN E
        BY <1>1
      <4>2. kind = "n" => "n" \in Range(E)
        BY <4>1 DEF Range
      <4> QED BY <1>1, <4>2 DEF OnlyNumber
    <3> QED BY <1>4, <3>1
  <2>2. PICK j \in Workers : j = Turn(expect) /\ Took(j, v)
    <3>1. Head(expect[Turn(expect)]) = "n" => v \in Int
      BY <1>1, <2>1
    <3> HIDE DEF v
    <3> QED BY <1>2, <3>1, AfterReadFacts
  <2> QED BY <1>1, <2>2
<1>6. /\ \A j \in Workers \ {i} : expect'[j] = expect[j]
      /\ expect' \in [Workers -> Seq(MsgKinds)] /\ expect'[i] = After(E, v) /\ expect'[i] # <<"n">>
      /\ bpc' \in {"read", "verdict", "bye", "prompt"} /\ UNCHANGED <<task, queries, outbox>>
      /\ \A j \in Workers : Exp(j) = expect[j] /\ Exp(j)' = expect'[j]
      /\ (kind = "n" <=> E = <<"n">>)
      /\ Phase'
  BY <1>5 DEF Took
<1>7. /\ none_query_found' = (none_query_found /\ ~(kind = "n" /\ v > 0))
      /\ printed' = printed \union
           IF kind = "line" /\ v # None /\ ~timeout /\ ~some_worker_died THEN {v} ELSE {}
  BY <1>5 DEF Took
<1>8. kind = "line" => v \in Expected
  <2>1. Head(up[i]) = up[i][1] /\ 1 \in 1 .. Len(up[i])
    BY <1>2, <1>4
  <2>2. kind = "line" => v \in Mine(i)
    BY <1>4, <2>1 DEF Content
  <2> QED BY <1>1, <2>2
<1>9. /\ up'[i] = Tail(up[i]) /\ up' \in [Workers -> Seq(Message)]
      /\ \A j \in Workers \ {i} : up'[j] = up[j]
      /\ \A j \in Workers : Len(up'[j]) <= PIPE
  <2>1. up \in [Workers -> Seq(Message)] /\ (\A j \in Workers : Len(up[j]) <= PIPE) /\ PIPE \in Nat
    BY <1>1, WorkersFacts DEF Types
  <2>2. Tail(up[i]) \in Seq(Message) /\ Len(Tail(up[i])) = Len(up[i]) - 1 /\ Len(up[i]) \in Nat
    BY <1>2, <1>4
  <2>3. /\ up'[i] = Tail(up[i]) /\ up' \in [Workers -> Seq(Message)]
        /\ \A j \in Workers \ {i} : up'[j] = up[j]
    BY <1>2, <2>1, <2>2
  <2>4. Len(up'[i]) <= PIPE
    BY <2>1, <2>2, <2>3
  <2> QED BY <2>1, <2>3, <2>4
<1>10. /\ FitsIn(Tail(up[i]), After(E, v)) /\ Content(i, Tail(up[i]))
  <2> DEFINE U == up[i]
  <2>1. /\ U \in Seq(Message) /\ U # <<>> /\ E \in Seq(MsgKinds) /\ E # <<>>
        /\ OnlyNumber(E) /\ FitsIn(U, E) /\ Content(i, U) /\ v = Head(U).val
    BY <1>1, <1>2, <1>4
  <2> HIDE DEF U, E, v
  <2>2. FitsIn(Tail(U), After(E, Head(U).val)) /\ Content(i, Tail(U))
    BY <2>1, FitsTail
  <2> QED BY <2>1, <2>2 DEF U
<1>11. Mine(i)' = Mine(i) /\ Down(i)' = Down(i)
  BY <1>2, <1>3, <1>6 DEF Mine, Down
<1>12. Up(i) \in Seq(Message) /\ Up(i) # <<>> /\ Head(Up(i)) = Head(up[i]) /\ Up(i)' = Tail(Up(i))
  <2>1. reply[i] \in Seq(Message) /\ reply' = reply
    BY <1>1, <1>3 DEF Types
  <2>2. /\ Up(i) \in Seq(Message) /\ Up(i) # <<>>
        /\ Head(Up(i)) = Head(up[i]) /\ Tail(Up(i)) = Tail(up[i]) \o reply[i]
    BY <1>2, <1>4, <2>1, NotEmptied
  <2> QED BY <1>9, <2>1, <2>2 DEF Up
<1>13. ~Gone(i) => FitsIn(Up(i), E) /\ Complete(Up(i), E) /\ Content(i, Up(i)) /\ Down(i) = <<>>
  BY <1>1, <1>12 DEF Talk
<1>14. ~Gone(i) => FitsIn(Tail(Up(i)), After(E, v)) /\ Complete(Tail(Up(i)), After(E, v)) /\ Content(i, Tail(Up(i)))
  <2> DEFINE U == Up(i)
  <2>1. SUFFICES ASSUME ~Gone(i)
        PROVE  FitsIn(Tail(U), After(E, v)) /\ Complete(Tail(U), After(E, v)) /\ Content(i, Tail(U))
    OBVIOUS
  <2>2. /\ U \in Seq(Message) /\ U # <<>> /\ E \in Seq(MsgKinds) /\ E # <<>>
        /\ OnlyNumber(E) /\ FitsIn(U, E) /\ Content(i, U) /\ Complete(U, E) /\ v = Head(U).val
    BY <1>1, <1>12, <1>13, <2>1
  <2> HIDE DEF U, E, v
  <2>3. FitsIn(Tail(U), After(E, Head(U).val)) /\ Content(i, Tail(U)) /\ Complete(Tail(U), After(E, Head(U).val))
    BY <2>2, FitsTail
  <2> QED BY <2>2, <2>3
<1>15. Talk(i)'
  <2>1. Exp(i)' = After(E, v) /\ up'[i] = Tail(up[i]) /\ Gone(i)' = Gone(i)
    BY <1>3, <1>6, <1>9 DEF Gone
  <2>2. FitsIn(up[i], Exp(i))' /\ Content(i, up[i])'
    <3>1. FitsIn(up[i], Exp(i))' = FitsIn(Tail(up[i]), After(E, v))
      BY <2>1 DEF FitsIn
    <3>2. Content(i, up[i])' = Content(i, Tail(up[i]))
      BY <1>11, <2>1 DEF Content
    <3> QED BY <1>10, <3>1, <3>2
  <2>3. ~Gone(i) => FitsIn(Up(i), Exp(i))' /\ Complete(Up(i), Exp(i))' /\ Content(i, Up(i))'
    <3>1. FitsIn(Up(i), Exp(i))' = FitsIn(Tail(Up(i)), After(E, v))
      BY <1>12, <2>1 DEF FitsIn
    <3>2. Content(i, Up(i))' = Content(i, Tail(Up(i)))
      BY <1>11, <1>12 DEF Content
    <3>3. Complete(Up(i), Exp(i))' = Complete(Tail(Up(i)), After(E, v))
      BY <1>12, <2>1 DEF Complete
    <3> QED BY <1>14, <3>1, <3>2, <3>3
  <2> QED BY <1>11, <1>13, <2>1, <2>2, <2>3 DEF Talk
<1>16. ~Gone(i) => Stage(i)'
  <2>1. UNCHANGED <<task, queries, workerVars>>
    BY <1>2, <1>6
  <2> QED BY <1>1, <1>11, <2>1, TookStage
<1>17. task = "/search" /\ AllUp => printed' \subseteq Expected /\ (~none_query_found' => Expected # {})
  <2>1. SUFFICES ASSUME task = "/search", AllUp
        PROVE  printed' \subseteq Expected /\ (~none_query_found' => Expected # {})
    OBVIOUS
  <2>2. printed \subseteq Expected /\ (~none_query_found => Expected # {})
    BY <1>2, <2>1 DEF IInv, Honest, Before
  <2>3. kind = "n" /\ v > 0 => Expected # {}
    <3>1. SUFFICES ASSUME kind = "n", v > 0 PROVE Expected # {}
      OBVIOUS
    <3>2. E = <<"n">> /\ ~Gone(i)
      BY <1>6, <2>1, <3>1 DEF AllUp
    <3>3. FitsIn(Up(i), <<"n">>) /\ Complete(Up(i), <<"n">>) /\ Content(i, Up(i)) /\ Head(Up(i)).val > 0
      BY <1>12, <1>13, <3>1, <3>2
    <3>4. Mine(i) # {}
      BY <1>12, <3>3, NumberHonest
    <3> QED BY <1>1, <3>4
  <2>4. printed' \subseteq Expected
    BY <1>7, <1>8, <2>2
  <2> QED BY <1>7, <2>2, <2>3, <2>4
<1>18. printed' \subseteq Expected \union {Garbage} /\ printed \subseteq printed' /\ (none_query_found' => none_query_found)
  BY <1>7, <1>8 DEF IInv, NoneInvented
<1>19. Types'
  <2>1. none_query_found' \in BOOLEAN
    BY <1>1, <1>7 DEF Types
  <2>2. down' = down
    BY <1>2
  <2> QED BY <1>1, <1>3, <1>6, <1>9, <2>1, <2>2 DEF Types, BossStates
<1>20. task = "/search" /\ ~timeout /\ ~some_worker_died /\ ~Gone(i) /\ Told(i) => Told(i)'
  BY <1>1, <1>2, <1>3, <1>5, <1>6, <1>11, <1>12, TookTold
<1>21. \A j \in Workers \ {i} : Down(j)' = Down(j) /\ up'[j] = up[j] /\ Exp(j)' = Exp(j)
  BY <1>2, <1>6, <1>9 DEF Down
<1>22. bpc \in {"send", "write", "read", "get"} /\ bpc' \notin {"idle", "fork", "open", "get", "dead"}
  BY <1>2, <1>6
<1> QED BY <1>2, <1>6, <1>15, <1>16, <1>17, <1>18, <1>19, <1>20, <1>21, <1>22, ServeStep

-----------------------------------------------------------------------------
(* Every step keeps the invariant. *)
LEMMA BossStepInv == IInv /\ BossStep => IInv'
<1> SUFFICES ASSUME IInv, BossStep PROVE IInv'
  OBVIOUS
<1>1. CASE StartSearch \/ ForkWorker \/ TestAlive
  BY <1>1, StartSearchStep, ForkWorkerStep, TestAliveStep
<1>2. CASE Write \/ WriteSkipped \/ WriteFails
  BY <1>2, WriteStep, WriteSkippedStep, BossEnds
<1>3. CASE Read \/ ReadSkipped \/ ReadGarbage
  BY <1>3, ReadStep, ReadSkippedStep, ReadGarbageStep
<1>4. CASE Verdict \/ Reap \/ EndSession
  BY <1>4, VerdictStep, ReapStep, EndSessionStep
<1>5. CASE ReadSearch \/ (\E t \in {"/wc", "/maxcount", "/exit"} : ReadWord(t)) \/ SayExit
  BY <1>5, ReadSearchStep, CommandSteps
<1>6. CASE \E i \in Workers : OpenFifos(i)
  BY <1>6, OpenFifosStep
<1> QED BY <1>1, <1>2, <1>3, <1>4, <1>5, <1>6 DEF BossStep

LEMMA WorkerStepInv ==
  ASSUME IInv, NEW i \in Workers, WorkerStep(i) \/ Kill(i)
  PROVE  IInv'
<1>1. CASE Load(i) \/ GetCommand(i)
  BY <1>1, LoadStep, GetCommandStep
<1>2. CASE GetNumber(i) \/ GetQuery(i)
  BY <1>2, GetNumberStep, GetQueryStep
<1>3. CASE Answer(i) \/ GetExit(i)
  BY <1>3, AnswerStep, GetExitStep
<1>4. CASE Notify(i) \/ Kill(i)
  BY <1>4, NotifyStep, KillStep
<1> QED BY <1>1, <1>2, <1>3, <1>4 DEF WorkerStep

(* The inductive invariant holds in every state of every session. *)
THEOREM Invariance == Spec => []IInv
<1>1. IInv /\ [Next]_vars => IInv'
  <2> SUFFICES ASSUME IInv, [Next]_vars PROVE IInv'
    OBVIOUS
  <2>1. CASE BossStep
    BY <2>1, BossStepInv
  <2>2. CASE BossDies \/ WorkerDied \/ Alarm
    BY <2>2, BossEnds, WorkerDiedStep, AlarmStep
  <2>3. CASE \E i \in Workers : WorkerStep(i) \/ Kill(i)
    BY <2>3, WorkerStepInv
  <2>4. CASE Rest \/ UNCHANGED vars
    BY <2>4, RestStep DEF Rest
  <2> QED BY <2>1, <2>2, <2>3, <2>4 DEF Next
<1> QED BY <1>1, InitInv, PTL DEF Spec

-----------------------------------------------------------------------------
(* The properties that the runs check, for every value of the constants. *)

(* The variables have their types, no FIFO holds more than its capacity, and a *)
(* loop over the workers is only in its body while something is left to do.    *)
THEOREM TypeCorrect == Spec => []TypeOK
<1>1. IInv => TypeOK
  <2> SUFFICES ASSUME IInv PROVE TypeOK
    OBVIOUS
  <2>1. Types /\ Phase
    BY DEF IInv
  <2>2. \A i \in Workers : Len(down[i]) \in 0 .. PIPE /\ Len(up[i]) \in 0 .. PIPE
    <3>1. ASSUME NEW i \in Workers PROVE Len(down[i]) \in 0 .. PIPE /\ Len(up[i]) \in 0 .. PIPE
      <4>1. down[i] \in Seq(Message) /\ up[i] \in Seq(Message) /\ Len(down[i]) <= PIPE /\ Len(up[i]) <= PIPE
        BY <2>1 DEF Types
      <4>2. Len(down[i]) \in Nat /\ Len(up[i]) \in Nat /\ PIPE \in Nat
        BY <4>1, WorkersFacts
      <4> QED BY <4>1, <4>2
    <3> QED BY <3>1
  <2>3. task \in {"dirs", "/search", "/wc", "/maxcount", "/exit", "exit", None}
    BY <2>1 DEF Types, Commands
  <2>4. /\ bpc \in {"idle", "fork", "open", "send", "write", "read", "get", "verdict", "prompt", "bye", "wait", "dead"}
        /\ wpc \in [Workers -> {"none", "open", "load", "ready", "number", "queries", "answer",
                                "last_answer", "bye", "closed", "ended"}]
    BY <2>1 DEF Types, BossStates, WorkerStates
  <2>5. (bpc \in {"send", "write"} => ~Done(outbox)) /\ (bpc \in {"read", "get"} => ~Done(expect))
    BY <2>1 DEF Phase
  <2>6. /\ fifos \in SUBSET Workers /\ missing \in SUBSET MayBeMissing
        /\ alive_workers \in [Workers -> BOOLEAN] /\ zombies \in SUBSET Workers
        /\ some_worker_died \in BOOLEAN /\ timeout \in BOOLEAN /\ sigchld \in BOOLEAN
        /\ none_query_found \in BOOLEAN /\ need \in [Workers -> Nat]
    BY <2>1 DEF Types
  <2> QED BY <2>2, <2>3, <2>4, <2>5, <2>6 DEF TypeOK
<1> QED BY <1>1, Invariance, PTL

(* Both ends of every FIFO take each message for what it is: a worker never a *)
(* number for a command, the boss never an index for the number of answers.   *)
THEOREM Synchrony == Spec => []InSync
<1>1. IInv => InSync
  <2> SUFFICES ASSUME IInv PROVE InSync
    OBVIOUS
  <2>1. (bpc = "get" /\ up[Turn(expect)] # <<>>) => Head(up[Turn(expect)]).kind = Head(expect[Turn(expect)])
    <3>1. SUFFICES ASSUME bpc = "get", up[Turn(expect)] # <<>>
          PROVE Head(up[Turn(expect)]).kind = Head(expect[Turn(expect)])
      OBVIOUS
    <3>2. PICK i \in Workers : i = Turn(expect)
      BY <3>1, Reading
    <3>3. up[i] # <<>>
      BY <3>1, <3>2
    <3>4. Head(up[i]).kind = Head(expect[i])
      BY <3>1, <3>2, <3>3, ReadHead
    <3> QED BY <3>2, <3>4
  <2>2. ASSUME NEW i \in Workers, down[i] # <<>>
        PROVE  /\ wpc[i] = "load" => Head(down[i]).kind \in {"dir", "sent"}
               /\ wpc[i] \in {"ready", "bye"} => Head(down[i]).kind = "cmd"
               /\ wpc[i] = "number" => Head(down[i]).kind = "count"
               /\ wpc[i] = "queries" => Head(down[i]).kind = "query"
    <3>1. ~Before
      BY <2>2 DEF IInv, Opening
    <3>2. \A k, v : Msg(k, v).kind = k
      BY DEF Msg
    <3>3. wpc[i] = "load" => Head(down[i]).kind \in {"dir", "sent"}
      <4>1. SUFFICES ASSUME wpc[i] = "load" PROVE Head(down[i]).kind \in {"dir", "sent"}
        OBVIOUS
      <4> DEFINE k == Len(wdirs[i])
      <4>2. /\ k \in 0 .. Share(i)
            /\ k < Share(i) => Head(down[i]) = Msg("dir", DirsOf(i)[k + 1])
            /\ k = Share(i) => Head(down[i]) = Msg("sent", None)
        BY <2>2, <3>1, <4>1, LoadHead
      <4>3. Share(i) \in Nat
        BY ShareFacts
      <4> HIDE DEF k
      <4>4. k < Share(i) \/ k = Share(i)
        BY <4>2, <4>3
      <4> QED BY <3>2, <4>2, <4>4
    <3>4. wpc[i] \in {"ready", "bye"} => Head(down[i]).kind = "cmd"
      BY <2>2, <3>1, <3>2, CommandHead
    <3>5. wpc[i] = "number" => Head(down[i]).kind = "count"
      BY <2>2, <3>1, <3>2, NumberHead
    <3>6. wpc[i] = "queries" => Head(down[i]).kind = "query"
      BY <2>2, <3>1, <3>2, QueryHead
    <3> QED BY <3>3, <3>4, <3>5, <3>6
  <2> QED BY <2>1, <2>2 DEF InSync
<1> QED BY <1>1, Invariance, PTL

(* At the prompt nothing of an earlier command is on its way to or from a live *)
(* worker, and every live worker waits for the next one.                       *)
THEOREM CleanPrompt == Spec => []NothingLeftOver
<1>1. IInv => NothingLeftOver
  <2> SUFFICES ASSUME IInv, bpc = "prompt", NEW i \in Workers, ~Gone(i)
               PROVE  down[i] = <<>> /\ up[i] = <<>> /\ wpc[i] = "ready"
    BY DEF NothingLeftOver
  <2>1. bpc \in {"prompt", "bye"} /\ bpc # "bye"
    OBVIOUS
  <2> QED BY <2>1, AllRead
<1> QED BY <1>1, Invariance, PTL

(* No search sends a line of an earlier one. *)
THEOREM FreshAnswers == Spec => []NoStaleAnswer
<1>1. IInv => NoStaleAnswer
  BY DEF IInv, NoneInvented, NoStaleAnswer
<1> QED BY <1>1, Invariance, PTL

(* How the directories are dealt out: each position belongs to exactly one worker. *)
LEMMA Dealt ==
  ASSUME NEW p \in 1 .. Len(Dirs)
  PROVE  \E i \in Workers : \E k \in 1 .. Share(i) : p = First(i) + k
<1> DEFINE T == {i \in Workers : First(i) + Share(i) >= p}
<1>1. N \in T /\ T \subseteq Nat
  <2>1. N \in Workers /\ Workers \subseteq Nat
    BY WorkersFacts
  <2>2. \A i \in Workers : i = N => First(i) + Share(i) = Len(Dirs)
    BY ShareFacts
  <2>3. First(N) + Share(N) = Len(Dirs)
    BY <2>1, <2>2
  <2>4. Len(Dirs) >= p
    BY DirsTyped
  <2> QED BY <2>1, <2>3, <2>4
<1>2. PICK i \in T : \A j \in T : i <= j
  <2> HIDE DEF T
  <2> QED BY <1>1, Least
<1>3. i \in Workers /\ First(i) \in Nat /\ Share(i) \in Nat /\ First(i) + Share(i) >= p /\ p \in Nat /\ p >= 1
  BY <1>2, ShareFacts, DirsTyped
<1>4. First(i) < p
  <2>1. CASE i = 1
    BY <1>3, <2>1, ShareFacts
  <2>2. CASE i # 1
    <3>1. i - 1 \in Workers /\ i - 1 < N /\ (i - 1) + 1 = i
      BY <1>3, <2>2, WorkersFacts DEF Workers
    <3>2. First(i) = First(i - 1) + Share(i - 1)
      BY <3>1, ShareFacts
    <3>3. First(i - 1) \in Nat /\ Share(i - 1) \in Nat
      BY <3>1, ShareFacts
    <3>4. i - 1 \notin T
      <4>1. ~(i <= i - 1)
        BY <1>3, WorkersFacts
      <4> HIDE DEF T
      <4> QED BY <1>2, <4>1
    <3> QED BY <1>3, <3>1, <3>2, <3>3, <3>4
  <2> QED BY <2>1, <2>2
<1>5. p - First(i) \in 1 .. Share(i) /\ p = First(i) + (p - First(i))
  BY <1>3, <1>4
<1> QED BY <1>3, <1>5

LEMMA Apart ==
  ASSUME NEW i \in Workers, NEW j \in Workers, i < j
  PROVE  First(i) + Share(i) <= First(j)
<1> DEFINE q == Len(Dirs) \div N
           r == Len(Dirs) % N
<1>1. q \in Nat /\ r \in Nat
  BY Division, DirsTyped, SessionAssumption
<1>2. i \in Nat /\ j \in Nat /\ i >= 1 /\ j >= 1 /\ i <= j - 1
  BY WorkersFacts DEF Workers
<1>3. /\ Share(i) = q + IF i <= r THEN 1 ELSE 0
      /\ First(i) = (i - 1) * q + IF i - 1 <= r THEN i - 1 ELSE r
      /\ First(j) = (j - 1) * q + IF j - 1 <= r THEN j - 1 ELSE r
  BY DEF Share, First
<1> HIDE DEF q, r
<1>4. /\ (j - 1) * q = (i - 1) * q + q + ((j - 1) - i) * q
      /\ ((j - 1) - i) * q \in Nat /\ (i - 1) * q \in Nat
  <2>1. i - 1 \in Nat /\ (j - 1) - i \in Nat
    BY <1>2
  <2>2. PICK a \in Nat, b \in Nat : a = i - 1 /\ b = (j - 1) - i
    BY <2>1
  <2>3. (a + 1 + b) * q = a * q + q + b * q /\ b * q \in Nat /\ a * q \in Nat
    BY <1>1
  <2>4. j - 1 = a + 1 + b
    BY <1>2, <2>2
  <2> QED BY <2>2, <2>3, <2>4
<1> QED BY <1>1, <1>2, <1>3, <1>4

LEMMA DealtOnce ==
  ASSUME NEW i \in Workers, NEW j \in Workers, NEW k \in 1 .. Share(i), NEW m \in 1 .. Share(j),
         First(i) + k = First(j) + m
  PROVE  i = j /\ k = m
<1>1. First(i) \in Nat /\ First(j) \in Nat /\ Share(i) \in Nat /\ Share(j) \in Nat /\ i \in Nat /\ j \in Nat
  BY ShareFacts, WorkersFacts
<1>2. ~(i < j)
  <2>1. i < j => First(i) + Share(i) <= First(j)
    BY Apart
  <2> QED BY <1>1, <2>1
<1>3. ~(j < i)
  <2>1. j < i => First(j) + Share(j) <= First(i)
    BY Apart
  <2> QED BY <1>1, <2>1
<1>4. i = j
  BY <1>1, <1>2, <1>3
<1> QED BY <1>1, <1>4

(* what a live worker has loaded when no values are expected any more *)
LEMMA LoadedAll ==
  ASSUME IInv, bpc \in {"prompt", "verdict"}, NEW i \in Workers, ~Gone(i)
  PROVE  /\ DOMAIN wdirs[i] = 1 .. Share(i) /\ Len(wdirs[i]) = Share(i)
         /\ \A k \in 1 .. Share(i) : wdirs[i][k] = Dirs[First(i) + k]
<1>1. wpc[i] = "ready" /\ Types /\ Loaded(i)
  <2>1. bpc \in {"prompt", "bye", "verdict"} /\ bpc # "bye"
    OBVIOUS
  <2>2. wpc[i] = "ready"
    BY <2>1, AllRead
  <2> QED BY <2>2 DEF IInv, Loads
<1>2. wdirs[i] \in Seq(Range(Dirs)) /\ Len(wdirs[i]) = Share(i)
  BY <1>1 DEF Types, Loaded
<1>3. DOMAIN wdirs[i] = 1 .. Share(i)
  BY <1>2
<1>4. \A k \in 1 .. Share(i) : wdirs[i][k] = DirsOf(i)[k]
  BY <1>1, <1>2 DEF Loaded
<1>5. \A k \in 1 .. Share(i) : DirsOf(i)[k] = Dirs[First(i) + k]
  BY DirsOfTyped
<1> QED BY <1>2, <1>3, <1>4, <1>5

(* Every directory is loaded by exactly one worker, and no worker has two more *)
(* than another, whatever the numbers of workers and directories.              *)
THEOREM Distribution == Spec => []Distributed
<1>1. IInv => Distributed
  <2> SUFFICES ASSUME IInv, bpc = "prompt", AllUp
               PROVE  /\ \A d \in Range(Dirs) : \E i \in Workers : \E k \in DOMAIN wdirs[i] :
                           /\ wdirs[i][k] = d
                           /\ \A j \in Workers : \A m \in DOMAIN wdirs[j] : wdirs[j][m] = d => <<j, m>> = <<i, k>>
                      /\ \A i, j \in Workers : Len(wdirs[i]) <= Len(wdirs[j]) + 1
    BY DEF Distributed
  <2>1. \A i \in Workers : /\ DOMAIN wdirs[i] = 1 .. Share(i) /\ Len(wdirs[i]) = Share(i)
                           /\ \A k \in 1 .. Share(i) : wdirs[i][k] = Dirs[First(i) + k]
    <3>1. ASSUME NEW i \in Workers
          PROVE  /\ DOMAIN wdirs[i] = 1 .. Share(i) /\ Len(wdirs[i]) = Share(i)
                 /\ \A k \in 1 .. Share(i) : wdirs[i][k] = Dirs[First(i) + k]
      <4>1. ~Gone(i) /\ bpc \in {"prompt", "verdict"}
        BY DEF AllUp
      <4> QED BY <4>1, LoadedAll
    <3> QED BY <3>1
  <2>2. ASSUME NEW d \in Range(Dirs)
        PROVE  \E i \in Workers : \E k \in DOMAIN wdirs[i] :
                 /\ wdirs[i][k] = d
                 /\ \A j \in Workers : \A m \in DOMAIN wdirs[j] : wdirs[j][m] = d => <<j, m>> = <<i, k>>
    <3>1. PICK p \in 1 .. Len(Dirs) : Dirs[p] = d
      BY DirsTyped DEF Range
    <3>2. PICK i \in Workers : \E k \in 1 .. Share(i) : p = First(i) + k
      BY Dealt
    <3>3. PICK k \in 1 .. Share(i) : p = First(i) + k
      BY <3>2
    <3>4. wdirs[i][k] = d /\ k \in DOMAIN wdirs[i]
      BY <2>1, <3>1, <3>3
    <3>5. ASSUME NEW j \in Workers, NEW m \in DOMAIN wdirs[j], wdirs[j][m] = d
          PROVE  <<j, m>> = <<i, k>>
      <4>1. m \in 1 .. Share(j)
        BY <2>1
      <4>2. Dirs[First(j) + m] = d /\ First(j) + m \in 1 .. Len(Dirs)
        BY <2>1, <3>5, <4>1, InShare
      <4>3. First(j) + m = p
        <5>1. First(j) + m \in DOMAIN Dirs /\ p \in DOMAIN Dirs
          BY <4>2, DirsTyped
        <5> QED BY <3>1, <4>2, <5>1, SessionAssumption DEF IsInjective
      <4>4. First(i) + k = First(j) + m
        BY <3>3, <4>3
      <4>5. i = j /\ k = m
        BY <4>1, <4>4, DealtOnce
      <4> QED BY <4>5
    <3> QED BY <3>4, <3>5
  <2>3. \A i, j \in Workers : Len(wdirs[i]) <= Len(wdirs[j]) + 1
    <3>1. ASSUME NEW i \in Workers, NEW j \in Workers PROVE Share(i) <= Share(j) + 1
      <4>1. Len(Dirs) \div N \in Nat
        BY Division, DirsTyped, SessionAssumption
      <4> DEFINE q == Len(Dirs) \div N
      <4>2. Share(i) \in {q, q + 1} /\ Share(j) \in {q, q + 1}
        BY <4>1 DEF Share
      <4> HIDE DEF q
      <4>3. q \in Nat
        BY <4>1 DEF q
      <4> QED BY <4>2, <4>3
    <3> QED BY <2>1, <3>1
  <2> QED BY <2>2, <2>3
<1> QED BY <1>1, Invariance, PTL

(* A search in time, by a process of which no worker has died, answers with the *)
(* lines that contain a word of the search: all of them and no others.          *)
THEOREM Exactness == Spec => []AnswersExact
<1>1. IInv => AnswersExact
  <2> SUFFICES ASSUME IInv, bpc = "verdict", ~timeout, ~some_worker_died, AllUp
               PROVE  printed = Expected /\ none_query_found = (Expected = {})
    BY DEF AnswersExact
  <2>1. Types /\ task = "/search" /\ ~Before /\ Searching
    BY DEF IInv, Phase, Before, Searching
  <2>2. ASSUME NEW i \in Workers PROVE Mine(i) \subseteq printed /\ (Mine(i) # {} => ~none_query_found)
    <3>1. ~Gone(i) /\ bpc \in {"prompt", "bye", "verdict"}
      BY DEF AllUp
    <3>2. Down(i) = <<>> /\ Up(i) = <<>>
      BY <3>1, AllRead
    <3>3. Told(i)
      BY <2>1 DEF IInv, Exact
    <3>4. Exp(i) = <<>>
      BY DEF IInv, Phase, Exp, Nothing
    <3>5. Exp(i) # <<"n">>
      <4>1. <<>> # <<"n">>
        OBVIOUS
      <4> QED BY <3>4, <4>1
    <3>6. \A l \in Mine(i) : l \in printed \/ \E k \in 1 .. Len(<<>>) : Up(i)[k] = Msg("line", l)
      BY <3>2, <3>3 DEF Told
    <3>7. Len(<<>>) = 0
      OBVIOUS
    <3>8. Mine(i) \subseteq printed
      BY <3>6, <3>7
    <3> QED BY <3>2, <3>3, <3>5, <3>8 DEF Told
  <2>3. ASSUME NEW l \in Expected PROVE \E i \in Workers : l \in Mine(i)
    <3>1. PICK d \in Inhabited, q \in Range(queries) : l \in Hits[d][q]
      BY DEF Expected, Found
    <3>2. PICK p \in 1 .. Len(Dirs) : Dirs[p] = d
      BY DirsTyped DEF Inhabited, Range
    <3>3. PICK i \in Workers : \E k \in 1 .. Share(i) : p = First(i) + k
      BY Dealt
    <3>4. PICK k \in 1 .. Share(i) : p = First(i) + k
      BY <3>3
    <3>5. wdirs[i][k] = d /\ k \in DOMAIN wdirs[i]
      <4>1. ~Gone(i) /\ bpc \in {"prompt", "verdict"}
        BY DEF AllUp
      <4> QED BY <3>2, <3>4, <4>1, LoadedAll
    <3>6. d \in Range(wdirs[i])
      BY <3>5 DEF Range
    <3> QED BY <3>1, <3>6 DEF Mine, Found
  <2>4. printed \subseteq Expected /\ (~none_query_found => Expected # {})
    BY <2>1 DEF IInv, Honest
  <2>5. printed = Expected
    BY <2>2, <2>3, <2>4
  <2>6. Expected # {} => ~none_query_found
    BY <2>2, <2>3
  <2>7. none_query_found \in BOOLEAN
    BY <2>1 DEF Types
  <2>8. none_query_found = (Expected = {})
    BY <2>4, <2>6, <2>7
  <2> QED BY <2>5, <2>8
<1> QED BY <1>1, Invariance, PTL
=============================================================================
