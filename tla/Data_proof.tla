----------------------------- MODULE Data_proof -----------------------------
(***************************************************************************)
(* Facts that the proofs of the other modules cite: induction over the     *)
(* naturals and functions defined by recursion over them, division,        *)
(* sequences, and counters that wrap around.                               *)
(***************************************************************************)
EXTENDS Integers, Sequences, FiniteSets, WellFoundedInduction, FiniteSetTheorems, TLAPS

Less == OpToRel(<, Nat)

LEMMA LessIsWellFounded == IsWellFoundedOn(Less, Nat)
  BY NatLessThanWellFounded DEF Less, OpToRel

LEMMA InLess ==
  ASSUME NEW m \in Nat, NEW n \in Nat
  PROVE  <<m, n>> \in Less <=> m < n
  BY DEF Less, OpToRel

(* Induction, over a set of naturals instead of a predicate. *)
LEMMA Induction ==
  ASSUME NEW T, T \subseteq Nat, 0 \in T, \A n \in T : n + 1 \in T
  PROVE  T = Nat
<1>1. SUFFICES ASSUME T # Nat PROVE FALSE
  OBVIOUS
<1> DEFINE Missing == Nat \ T
<1>2. Missing \subseteq Nat /\ Missing # {}
  BY <1>1
<1>3. PICK n \in Missing : \A m \in Missing : <<m, n>> \notin Less
  <2> HIDE DEF Missing
  <2> QED BY <1>2, LessIsWellFounded, WFMin
<1>4. n \in Nat /\ n # 0
  OBVIOUS
<1>5. n - 1 \in Nat /\ n - 1 < n
  BY <1>4
<1>6. n - 1 \in T
  BY <1>3, <1>4, <1>5, InLess
<1> QED BY <1>5, <1>6

(* A set of naturals that has a member has a least one. *)
LEMMA Least ==
  ASSUME NEW T, T \subseteq Nat, T # {}
  PROVE  \E n \in T : \A m \in T : n <= m
<1>1. PICK n \in T : \A m \in T : <<m, n>> \notin Less
  BY LessIsWellFounded, WFMin
<1>2. \A m \in T : ~(m < n)
  BY <1>1, InLess
<1> QED BY <1>2

(***************************************************************************)
(* A function given by its first value and by the step from each value to  *)
(* the next exists, up to any bound.                                       *)
(***************************************************************************)
IsStep(V, step, bound) == \A v \in V, k \in 1 .. bound : step[<<v, k>>] \in V

Computes(f, V, base, step, bound) ==
  /\ f \in [0 .. bound -> V] /\ f[0] = base
  /\ \A k \in 1 .. bound : f[k] = step[<<f[k - 1], k>>]

LEMMA Recursion ==
  ASSUME NEW V, NEW base \in V, NEW step, NEW bound \in Nat, IsStep(V, step, bound)
  PROVE  \E f : Computes(f, V, base, step, bound)
<1> USE DEF IsStep, Computes
<1> DEFINE Good(f, n) == Computes(f, V, base, step, n)
           T == {n \in Nat : n <= bound => \E f : Good(f, n)}
<1>1. 0 \in T
  <2> DEFINE g == [k \in 0 .. 0 |-> base]
  <2>1. g \in [0 .. 0 -> V] /\ g[0] = base
    OBVIOUS
  <2>2. Good(g, 0)
    <3> HIDE DEF g
    <3> QED BY <2>1
  <2> HIDE DEF g, Good
  <2> QED BY <2>2
<1>2. ASSUME NEW n \in T PROVE n + 1 \in T
  <2>1. SUFFICES ASSUME n + 1 <= bound PROVE \E f : Good(f, n + 1)
    OBVIOUS
  <2>2. PICK f : Good(f, n)
    BY <2>1
  <2> DEFINE g == [k \in 0 .. n + 1 |-> IF k <= n THEN f[k] ELSE step[<<f[n], n + 1>>]]
  <2>3. n + 1 \in 1 .. bound /\ f[n] \in V
    BY <2>1, <2>2
  <2>4. g \in [0 .. n + 1 -> V]
    BY <2>2, <2>3
  <2>5. g[0] = base
    BY <2>2
  <2>6. ASSUME NEW k \in 1 .. n + 1 PROVE g[k] = step[<<g[k - 1], k>>]
    <3>1. k - 1 \in 0 .. n /\ g[k - 1] = f[k - 1]
      OBVIOUS
    <3>2. CASE k <= n
      <4>1. k \in 1 .. n /\ g[k] = f[k]
        BY <3>2
      <4> QED BY <3>1, <4>1, <2>2
    <3>3. CASE k = n + 1
      <4>1. g[k] = step[<<f[n], n + 1>>]
        BY <3>3
      <4> QED BY <3>1, <3>3, <4>1, SMTT(30)
    <3> QED BY <3>2, <3>3
  <2>7. Good(g, n + 1)
    <3> HIDE DEF g
    <3> QED BY <2>4, <2>5, <2>6
  <2> HIDE DEF g, Good
  <2> QED BY <2>7
<1>3. T = Nat
  <2>1. T \subseteq Nat
    OBVIOUS
  <2> HIDE DEF T
  <2> QED BY <1>1, <1>2, <2>1, Induction
<1>4. bound \in T
  BY <1>3
<1>5. \E f : Good(f, bound)
  BY <1>4
<1> QED BY <1>5

LEMMA ComputesIn ==
  ASSUME NEW f, NEW V, NEW base, NEW step, NEW bound \in Nat, Computes(f, V, base, step, bound),
         NEW k \in 1 .. bound
  PROVE  f[k - 1] \in V
<1>1. k - 1 \in 0 .. bound
  OBVIOUS
<1> QED BY <1>1 DEF Computes

LEMMA Division ==
  ASSUME NEW n \in Nat, NEW d \in Nat, d > 0
  PROVE  n \div d \in Nat /\ n % d \in 0 .. d - 1 /\ n = d * (n \div d) + (n % d)
<1>1. n = d * (n \div d) + (n % d)
  OBVIOUS
<1>2. n % d \in 0 .. d - 1
  OBVIOUS
<1>3. n \div d \in Nat
  OBVIOUS
<1> QED BY <1>1, <1>2, <1>3
-----------------------------------------------------------------------------
Drop(s, k) == SubSeq(s, k + 1, Len(s))

LEMMA DropFacts ==
  ASSUME NEW S, NEW s \in Seq(S), NEW k \in 0 .. Len(s)
  PROVE  /\ Drop(s, k) \in Seq(S) /\ Len(Drop(s, k)) = Len(s) - k
         /\ Drop(s, k) = <<>> <=> k = Len(s)
         /\ k < Len(s) => Head(Drop(s, k)) = s[k + 1] /\ Tail(Drop(s, k)) = Drop(s, k + 1)
<1>1. Drop(s, k) \in Seq(S) /\ Len(Drop(s, k)) = Len(s) - k /\ \A j \in 1 .. Len(s) - k : Drop(s, k)[j] = s[k + j]
  BY DEF Drop
<1>2. Drop(s, k) = <<>> <=> k = Len(s)
  BY <1>1
<1>3. ASSUME k < Len(s) PROVE Head(Drop(s, k)) = s[k + 1]
  BY <1>1, <1>3
<1>4. ASSUME k < Len(s) PROVE Tail(Drop(s, k)) = Drop(s, k + 1)
  BY <1>1, <1>4, SMTT(30) DEF Drop
<1> QED BY <1>1, <1>2, <1>3, <1>4

LEMMA DropNone ==
  ASSUME NEW S, NEW s \in Seq(S)
  PROVE  Drop(s, 0) = s
  BY DEF Drop

LEMMA TailOfOne ==
  ASSUME NEW S, NEW s \in Seq(S), Len(s) = 1
  PROVE  Tail(s) = <<>>
<1>1. s # <<>>
  OBVIOUS
<1>2. Tail(s) \in Seq(S) /\ Len(Tail(s)) = 0
  BY <1>1
<1>3. \A t \in Seq(S) : Len(t) = 0 => t = <<>>
  OBVIOUS
<1> QED BY <1>2, <1>3

(* An element that moves from the head of one sequence to the end of the other moves nothing. *)
LEMMA MoveHead ==
  ASSUME NEW S, NEW s \in Seq(S), NEW t \in Seq(S), t # <<>>
  PROVE  Append(s, Head(t)) \o Tail(t) = s \o t
<1> DEFINE l == Append(s, Head(t)) \o Tail(t)
           r == s \o t
<1>1. Tail(t) \in Seq(S) /\ Len(Tail(t)) = Len(t) - 1 /\ Head(t) \in S /\ Len(t) > 0
  OBVIOUS
<1>2. l \in Seq(S) /\ r \in Seq(S) /\ Len(l) = Len(s) + Len(t) /\ Len(r) = Len(s) + Len(t)
  BY <1>1
<1>3. \A k \in 1 .. Len(s) + Len(t) : l[k] = r[k]
  BY <1>1
<1> HIDE DEF l, r
<1>4. l = r
  BY <1>2, <1>3
<1> QED BY <1>4 DEF l, r

LEMMA Concat ==
  ASSUME NEW S, NEW s \in Seq(S), NEW t \in Seq(S)
  PROVE  /\ s \o t \in Seq(S) /\ Len(s \o t) = Len(s) + Len(t)
         /\ s \o t = <<>> <=> s = <<>> /\ t = <<>>
         /\ s = <<>> => s \o t = t
         /\ t = <<>> => s \o t = s
         /\ s # <<>> => Head(s \o t) = Head(s) /\ Tail(s \o t) = Tail(s) \o t
         /\ \A k \in 1 .. Len(s) : (s \o t)[k] = s[k]
         /\ \A k \in 1 .. Len(t) : (s \o t)[k + Len(s)] = t[k]
<1>1. s \o t \in Seq(S) /\ Len(s \o t) = Len(s) + Len(t) /\ \A k \in 1 .. Len(s) : (s \o t)[k] = s[k]
  OBVIOUS
<1>2. s \o t = <<>> <=> s = <<>> /\ t = <<>>
  BY <1>1
<1>3. s = <<>> => s \o t = t
  OBVIOUS
<1>4. t = <<>> => s \o t = s
  OBVIOUS
<1>5. ASSUME s # <<>> PROVE Head(s \o t) = Head(s) /\ Tail(s \o t) = Tail(s) \o t
  <2>1. Tail(s) \in Seq(S) /\ Len(Tail(s)) = Len(s) - 1 /\ Len(s) > 0 /\ \A k \in 1 .. Len(s) - 1 : Tail(s)[k] = s[k + 1]
    BY <1>5
  <2> DEFINE l == Tail(s \o t)
             r == Tail(s) \o t
  <2>2. s \o t # <<>>
    BY <1>2, <1>5
  <2>3. l \in Seq(S) /\ Len(l) = Len(s) + Len(t) - 1 /\ \A k \in 1 .. Len(s) + Len(t) - 1 : l[k] = (s \o t)[k + 1]
    BY <1>1, <2>2
  <2>4. r \in Seq(S) /\ Len(r) = Len(s) + Len(t) - 1
    BY <2>1
  <2>5. \A k \in 1 .. Len(s) + Len(t) - 1 : l[k] = r[k]
    BY <2>1, <2>3
  <2> HIDE DEF l, r
  <2>6. l = r
    <3>1. Len(l) = Len(r) /\ \A k \in 1 .. Len(l) : l[k] = r[k]
      BY <2>3, <2>4, <2>5
    <3> QED BY <2>3, <2>4, <3>1
  <2>7. Head(s \o t) = Head(s)
    BY <1>1, <2>1, <2>2
  <2>8. Tail(s \o t) = Tail(s) \o t
    BY <2>6 DEF l, r
  <2> QED BY <2>7, <2>8
<1>6. \A k \in 1 .. Len(t) : (s \o t)[k + Len(s)] = t[k]
  OBVIOUS
<1> QED BY <1>1, <1>2, <1>3, <1>4, <1>5, <1>6
-----------------------------------------------------------------------------
(* A counter that wraps around keeps the remainder of the number counted. *)
LEMMA OneRemainder ==
  ASSUME NEW d \in Nat, d > 0, NEW q \in Nat, NEW u \in Nat, NEW r \in 0 .. d - 1, NEW s \in 0 .. d - 1,
         d * q + r = d * u + s
  PROVE  r = s
<1>1. ASSUME NEW a \in Nat, NEW b \in Nat, a < b PROVE d * b >= d * a + d
  <2>1. PICK e \in Nat : b = a + 1 + e
    <3>1. b - a - 1 \in Nat /\ b = a + 1 + (b - a - 1)
      BY <1>1
    <3> QED BY <3>1
  <2>2. d * (a + 1 + e) = d * a + d + d * e /\ d * e \in Nat
    OBVIOUS
  <2>3. d * a \in Nat
    OBVIOUS
  <2> QED BY <2>1, <2>2, <2>3
<1>2. d * q \in Nat /\ d * u \in Nat
  OBVIOUS
<1>3. ~(q < u)
  <2>1. q < u => d * u >= d * q + d
    BY <1>1
  <2> QED BY <1>2, <2>1
<1>4. ~(u < q)
  <2>1. u < q => d * q >= d * u + d
    BY <1>1
  <2> QED BY <1>2, <2>1
<1>5. q = u
  BY <1>3, <1>4
<1> QED BY <1>2, <1>5

LEMMA Wrapping ==
  ASSUME NEW a \in Nat, NEW b \in Nat, NEW d \in Nat, d > 0
  PROVE  ((a % d) + b) % d = (a + b) % d
<1> DEFINE r == a % d
           q == a \div d
           s == (r + b) % d
           t == (r + b) \div d
           v == (a + b) % d
           u == (a + b) \div d
<1>1. q \in Nat /\ r \in 0 .. d - 1 /\ a = d * q + r
  BY Division
<1>2. r + b \in Nat /\ a + b \in Nat
  BY <1>1
<1>3. t \in Nat /\ s \in 0 .. d - 1 /\ r + b = d * t + s
  <2> HIDE DEF r
  <2> QED BY <1>2, Division
<1>4. u \in Nat /\ v \in 0 .. d - 1 /\ a + b = d * u + v
  <2> HIDE DEF r
  <2> QED BY <1>2, Division
<1> HIDE DEF r, q, s, t, u, v
<1>5. d * (q + t) = d * q + d * t /\ d * q \in Nat /\ d * t \in Nat /\ q + t \in Nat
  BY <1>1, <1>3
<1>6. d * (q + t) + s = d * u + v
  BY <1>1, <1>3, <1>4, <1>5
<1>7. s = v
  BY <1>3, <1>4, <1>5, <1>6, OneRemainder
<1> QED BY <1>7 DEF s, v, r

LEMMA FirstNumbers ==
  ASSUME NEW n \in Nat
  PROVE  IsFiniteSet(1 .. n) /\ Cardinality(1 .. n) = n
<1>1. n \in Int /\ 1 \in Int
  OBVIOUS
<1>2. IsFiniteSet(1 .. n) /\ Cardinality(1 .. n) = IF 1 > n THEN 0 ELSE n - 1 + 1
  BY <1>1, FS_Interval
<1> QED BY <1>2

(* The elements of S, each as often as f says. *)
Copies(S, f) == UNION {{x} \X (1 .. f[x]) : x \in S}

LEMMA CopiesOfOneMore ==
  ASSUME NEW S, IsFiniteSet(S), NEW z, z \notin S, NEW f, \A x \in S \union {z} : f[x] \in Nat
  PROVE  /\ IsFiniteSet(Copies(S, f)) /\ Cardinality(Copies(S, f)) \in Nat
         /\ Cardinality(Copies(S \union {z}, f)) = Cardinality(Copies(S, f)) + f[z]
<1> DEFINE new == {z} \X (1 .. f[z])
           old == Copies(S, f)
<1>1. IsFiniteSet(old)
  <2> DEFINE g == [x \in S |-> {x} \X (1 .. f[x])]
             T == {g[x] : x \in S}
  <2>1. g \in Surjection(S, T)
    BY DEF Surjection
  <2>2. ASSUME NEW x \in S PROVE IsFiniteSet(g[x])
    <3>1. IsFiniteSet({x}) /\ IsFiniteSet(1 .. f[x])
      <4>1. f[x] \in Nat
        OBVIOUS
      <4> QED BY <4>1, FS_Singleton, FirstNumbers
    <3>2. IsFiniteSet({x} \X (1 .. f[x]))
      BY <3>1, FS_Product
    <3> QED BY <3>2
  <2>3. old = UNION T
    BY DEF Copies
  <2> HIDE DEF g
  <2>4. IsFiniteSet(T)
    BY <2>1, FS_Surjection
  <2>5. \A U \in T : IsFiniteSet(U)
    BY <2>2
  <2> HIDE DEF T
  <2>6. IsFiniteSet(UNION T)
    BY <2>4, <2>5, FS_UNION
  <2> QED BY <2>3, <2>6
<1>2. IsFiniteSet(new) /\ Cardinality(new) = f[z]
  <2>1. IsFiniteSet({z}) /\ Cardinality({z}) = 1
    BY FS_Singleton
  <2>2. IsFiniteSet(1 .. f[z]) /\ Cardinality(1 .. f[z]) = f[z] /\ f[z] \in Nat
    <3>1. f[z] \in Nat
      OBVIOUS
    <3> QED BY <3>1, FirstNumbers
  <2>3. IsFiniteSet(new) /\ Cardinality(new) = Cardinality({z}) * Cardinality(1 .. f[z])
    BY <2>1, <2>2, FS_Product
  <2> QED BY <2>1, <2>2, <2>3
<1>3. Copies(S \union {z}, f) = old \union new
  BY DEF Copies
<1>4. old \intersect new = {}
  BY DEF Copies
<1> HIDE DEF old, new
<1>5. Cardinality(old \union new) = Cardinality(old) + Cardinality(new) - Cardinality(old \intersect new)
  BY <1>1, <1>2, FS_Union
<1>6. Cardinality(old) \in Nat /\ Cardinality({}) = 0 /\ f[z] \in Nat
  <2>1. f[z] \in Nat
    OBVIOUS
  <2> QED BY <1>1, <2>1, FS_CardinalityType, FS_EmptySet
<1>7. Cardinality(old \union new) = Cardinality(old) + f[z]
  <2>1. Cardinality(old \union new) = Cardinality(old) + f[z] - 0
    BY <1>2, <1>4, <1>5, <1>6
  <2> QED BY <1>6, <2>1
<1> QED BY <1>1, <1>3, <1>6, <1>7 DEF old
=============================================================================
