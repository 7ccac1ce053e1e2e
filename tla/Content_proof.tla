--------------------------- MODULE Content_proof ---------------------------
(***************************************************************************)
(* What is in the pages, what is found in them and what is answered: the   *)
(* sites that webcreator.sh makes, the index a worker builds of its pages, *)
(* and the answer the job executor makes of those of its workers; each of  *)
(* any size.  The three have variables of their own and nothing in common  *)
(* but the facts about data; their theorems are about SitesSpec, IndexSpec *)
(* and Spec.                                                               *)
(***************************************************************************)
EXTENDS WebCreator, WordIndex, AnswerMerge, Data_proof, SequenceTheorems

-----------------------------------------------------------------------------
(***************************************************************************)
(* The sites: SitesInv says what the pools that shrink have to do with the *)
(* links chosen so far.  The indexes left are of pages not linked yet and  *)
(* not of the page itself (InternalOK); every page linked outside is       *)
(* marked as taken, and each site left in the pool has a page that is not  *)
(* (ExternalOK).  A name is its number, whatever the random part (NamesOK).*)
(***************************************************************************)
(* All members of a sequence differ. *)
Differ(s) == \A l, m \in 1 .. Len(s) : s[l] = s[m] => l = m

NamesOK == \A pg \in Pages : page_index[pg] = 0 \/ \E n \in Nat : page_index[pg] = PageIndex(n, pg)

(* the first F links stay in the site, and only with two pages one may be to the page itself *)
HomeLinks ==
  \A l \in 1 .. Len(links) : l <= F => links[l][1] = site /\ (P > 2 => links[l] # <<site, page>>)

(* the indexes that are left are of other pages, none of them linked *)
InternalOK ==
  phase = "internal" =>
    /\ P > 2 /\ Len(links) <= F /\ HomeLinks /\ Differ(links) /\ Differ(inter_links_indexes)
    /\ \A r \in 1 .. Len(inter_links_indexes) :
         inter_links_indexes[r] # page /\ <<site, inter_links_indexes[r]>> \notin ToSet(links)

HasFree(s) == \E z \in 0 .. P - 1 : <<s, z>> \notin external_links_taken

(* what is linked outside is taken, and the sites that are left have a page that is not *)
ExternalOK ==
  phase = "external" =>
    /\ F <= Len(links) /\ HomeLinks /\ Differ(links) /\ Differ(websites_indexes)
    /\ \A l \in 1 .. Len(links) : l > F => links[l][1] # site /\ links[l] \in external_links_taken
    /\ \A r \in 1 .. Len(websites_indexes) : websites_indexes[r] # site /\ HasFree(websites_indexes[r])

SitesInv ==
  /\ SitesTypeOK /\ NamesOK /\ InternalOK /\ ExternalOK
  /\ phase = "sites" => Len(links) = F /\ HomeLinks /\ Differ(links)
  /\ phase # "failed"
-----------------------------------------------------------------------------
(* Numbers in names. *)
PowerLoop(g, n) ==
  g = [m \in 0 .. n |-> IF m = 0 THEN 10 ELSE IF m = g[m - 1] THEN 10 * m ELSE g[m - 1]]

LEMMA Power10Facts ==
  ASSUME NEW n \in Nat
  PROVE  Power10(n) \in Nat /\ n < Power10(n)
<1> DEFINE Next10(v, m) == IF m = v THEN 10 * m ELSE v
           step == [x \in Nat \X Nat |-> Next10(x[1], x[2])]
           Loop(g) == PowerLoop(g, n)
<1>1. \A v \in Nat, m \in 1 .. n : step[<<v, m>>] = Next10(v, m) /\ Next10(v, m) \in Nat
  OBVIOUS
<1>2. PICK h : Computes(h, Nat, 10, step, n)
  <2> HIDE DEF step, Next10
  <2>1. IsStep(Nat, step, n)
    BY <1>1 DEF IsStep
  <2> QED BY <2>1, Recursion
<1>3. Loop(h)
  <2> HIDE DEF step
  <2>1. ASSUME NEW m \in 1 .. n PROVE h[m] = Next10(h[m - 1], m)
    <3>1. m - 1 \in 0 .. n
      OBVIOUS
    <3>2. h[m - 1] \in Nat
      BY <1>2, <3>1 DEF Computes
    <3> QED BY <1>1, <1>2, <3>2 DEF Computes
  <2>2. ASSUME NEW m \in 0 .. n
        PROVE  h[m] = IF m = 0 THEN 10 ELSE IF m = h[m - 1] THEN 10 * m ELSE h[m - 1]
    <3>1. m # 0 => m \in 1 .. n
      OBVIOUS
    <3> QED BY <1>2, <2>1, <3>1 DEF Computes
  <2>3. h = [m \in 0 .. n |-> h[m]]
    BY <1>2 DEF Computes
  <2> QED BY <2>2, <2>3 DEF PowerLoop
<1>4. Power10(n) = (CHOOSE g : Loop(g))[n]
  BY DEF Power10, PowerLoop
<1>5. PICK g : Loop(g) /\ Power10(n) = g[n]
  <2>1. \E g : Loop(g) /\ Power10(n) = g[n]
    <3> HIDE DEF Loop
    <3> QED BY <1>3, <1>4, Zenon
  <2> QED BY <2>1
<1>6. \A m \in 0 .. n : g[m] = IF m = 0 THEN 10 ELSE IF m = g[m - 1] THEN 10 * m ELSE g[m - 1]
  BY <1>5 DEF PowerLoop
<1> HIDE DEF Loop, step
<1> DEFINE Good(m) == g[m] \in Nat /\ m < g[m]
           T == {m \in Nat : m <= n => Good(m)}
<1>7. 0 \in T
  BY <1>6
<1>8. ASSUME NEW m \in T PROVE m + 1 \in T
  <2> SUFFICES ASSUME m + 1 <= n PROVE Good(m + 1)
    OBVIOUS
  <2>1. m \in Nat /\ m + 1 \in 0 .. n /\ m + 1 # 0 /\ (m + 1) - 1 = m /\ Good(m)
    OBVIOUS
  <2>2. g[m + 1] = IF m + 1 = g[m] THEN 10 * (m + 1) ELSE g[m]
    BY <1>6, <2>1
  <2> QED BY <2>1, <2>2
<1>9. T = Nat
  <2>1. T \subseteq Nat
    OBVIOUS
  <2> HIDE DEF T
  <2> QED BY <1>7, <1>8, <2>1, Induction
<1>10. Good(n)
  BY <1>9
<1> QED BY <1>5, <1>10

LEMMA PageIndexType ==
  ASSUME NEW n \in Nat, NEW pg \in Nat \X Nat
  PROVE  PageIndex(n, pg) \in Nat
<1>1. PICK a, b \in Nat : pg = <<a, b>>
  OBVIOUS
<1>2. PICK x, y \in Nat : x = Power10(a) /\ y = Power10(b)
  BY Power10Facts
<1>3. n * x \in Nat
  OBVIOUS
<1>4. PICK k \in Nat : k = n * x + a
  BY <1>3
<1>5. k * y \in Nat
  OBVIOUS
<1> QED BY <1>1, <1>2, <1>4, <1>5 DEF PageIndex

(* The name ends with the digits of the page's index. *)
LEMMA LastDigits ==
  ASSUME NEW n \in Nat, NEW pg \in Nat \X Nat
  PROVE  \E k \in Nat : PageIndex(n, pg) = Power10(pg[2]) * k + pg[2]
<1>1. PICK a, b \in Nat : pg = <<a, b>>
  OBVIOUS
<1>2. PICK x \in Nat : x = Power10(a)
  BY Power10Facts
<1>3. n * x \in Nat
  OBVIOUS
<1>4. PICK k \in Nat : k = n * x + a
  BY <1>3
<1>5. PICK y \in Nat : y = Power10(b)
  BY Power10Facts
<1>6. PageIndex(n, pg) = k * y + b
  BY <1>1, <1>2, <1>4, <1>5 DEF PageIndex
<1>7. k * y = y * k
  OBVIOUS
<1> QED BY <1>1, <1>5, <1>6, <1>7
-----------------------------------------------------------------------------
(* Pools of indexes. *)
LEMMA OtherFacts ==
  ASSUME NEW n \in Nat \ {0}, NEW except \in Nat
  PROVE  /\ Other(n, except) \in Seq(0 .. n - 1) /\ Differ(Other(n, except))
         /\ \A r \in 1 .. Len(Other(n, except)) : Other(n, except)[r] # except
<1> DEFINE s == Other(n, except)
<1>1. n - 1 \in Nat
  OBVIOUS
<1>2. s = [x \in 1 .. n - 1 |-> IF x <= except THEN x - 1 ELSE x]
  BY DEF Other
<1>3. \A x \in 1 .. n - 1 : (IF x <= except THEN x - 1 ELSE x) \in 0 .. n - 1
  OBVIOUS
<1>4. s \in Seq(0 .. n - 1) /\ Len(s) = n - 1
  BY <1>1, <1>2, <1>3
<1>5. \A x \in 1 .. n - 1 : s[x] = IF x <= except THEN x - 1 ELSE x
  BY <1>2
<1> HIDE DEF s
<1>6. \A l, m \in 1 .. n - 1 : s[l] = s[m] => l = m
  BY <1>1, <1>5
<1>7. \A r \in 1 .. n - 1 : s[r] # except
  BY <1>1, <1>5
<1> QED BY <1>4, <1>6, <1>7 DEF Differ, s

LEMMA RemoveFacts ==
  ASSUME NEW S, NEW s \in Seq(S), NEW r \in 1 .. Len(s), Differ(s)
  PROVE  /\ RemoveAt(s, r) \in Seq(S) /\ Differ(RemoveAt(s, r))
         /\ \A k \in 1 .. Len(RemoveAt(s, r)) : \E m \in 1 .. Len(s) : m # r /\ RemoveAt(s, r)[k] = s[m]
<1> DEFINE a == SubSeq(s, 1, r - 1)
           b == SubSeq(s, r + 1, Len(s))
           t == a \o b
<1>1. /\ a \in Seq(S) /\ Len(a) = r - 1 /\ \A k \in 1 .. r - 1 : a[k] = s[k]
      /\ b \in Seq(S) /\ Len(b) = Len(s) - r /\ \A k \in 1 .. Len(s) - r : b[k] = s[r + k]
      /\ Len(s) \in Nat /\ r \in Nat
  <2>1. Len(s) \in Nat /\ r \in Nat /\ r >= 1 /\ r <= Len(s)
    OBVIOUS
  <2>2. a \in Seq(S) /\ Len(a) = r - 1 /\ \A k \in 1 .. r - 1 : a[k] = s[k]
    BY <2>1
  <2>3. b \in Seq(S) /\ Len(b) = Len(s) - r /\ \A k \in 1 .. Len(s) - r : b[k] = s[r + k]
    BY <2>1
  <2> QED BY <2>1, <2>2, <2>3
<1> HIDE DEF a, b
<1>2. /\ t \in Seq(S) /\ Len(t) = Len(s) - 1
      /\ \A k \in 1 .. r - 1 : t[k] = s[k]
      /\ \A k \in r .. Len(s) - 1 : t[k] = s[k + 1]
  <2>1. a \in Seq(S) /\ b \in Seq(S)
    BY <1>1
  <2>2. t \in Seq(S) /\ Len(t) = Len(a) + Len(b)
    BY <2>1
  <2>3. \A k \in 1 .. Len(a) : t[k] = a[k]
    BY <2>1
  <2>4. \A k \in 1 .. Len(b) : t[k + Len(a)] = b[k]
    BY <2>1
  <2> HIDE DEF t
  <2>5. ASSUME NEW k \in r .. Len(s) - 1 PROVE t[k] = s[k + 1]
    <3> DEFINE m == k - (r - 1)
    <3>0. r \in Nat /\ Len(s) \in Nat /\ Len(a) = r - 1 /\ Len(b) = Len(s) - r
      BY <1>1
    <3>1. m \in 1 .. Len(b) /\ m \in 1 .. Len(s) - r /\ m + Len(a) = k /\ r + m = k + 1
      BY <3>0
    <3> HIDE DEF m
    <3>2. t[m + Len(a)] = b[m] /\ b[m] = s[r + m]
      BY <1>1, <2>4, <3>1
    <3> QED BY <3>1, <3>2
  <2> QED BY <1>1, <2>2, <2>3, <2>5
<1>3. RemoveAt(s, r) = t
  BY DEF RemoveAt, a, b
<1> HIDE DEF t
<1> DEFINE of(k) == IF k <= r - 1 THEN k ELSE k + 1
<1>4. \A k \in 1 .. Len(t) : of(k) \in 1 .. Len(s) /\ of(k) # r /\ t[k] = s[of(k)]
  BY <1>1, <1>2
<1>5. \A k, m \in 1 .. Len(t) : of(k) = of(m) => k = m
  BY <1>1, <1>2
<1>6. Differ(t)
  <2> HIDE DEF of
  <2> QED BY <1>4, <1>5 DEF Differ
<1> QED BY <1>2, <1>3, <1>4, <1>6

LEMMA AppendDiffers ==
  ASSUME NEW S, NEW s \in Seq(S), NEW x \in S, Differ(s), x \notin ToSet(s)
  PROVE  /\ Append(s, x) \in Seq(S) /\ Len(Append(s, x)) = Len(s) + 1 /\ Differ(Append(s, x))
         /\ ToSet(Append(s, x)) = ToSet(s) \union {x}
         /\ Append(s, x)[Len(s) + 1] = x /\ \A k \in 1 .. Len(s) : Append(s, x)[k] = s[k]
<1> DEFINE t == Append(s, x)
<1>1. /\ t \in Seq(S) /\ Len(t) = Len(s) + 1 /\ Len(s) \in Nat /\ t[Len(s) + 1] = x
      /\ \A k \in 1 .. Len(s) : t[k] = s[k]
      /\ DOMAIN s = 1 .. Len(s) /\ DOMAIN t = 1 .. Len(t)
  OBVIOUS
<1> HIDE DEF t
<1>2. \A k \in 1 .. Len(t) : k = Len(s) + 1 \/ k \in 1 .. Len(s)
  BY <1>1
<1>3. \A k \in 1 .. Len(s) : s[k] # x
  BY <1>1 DEF ToSet
<1>4. Differ(t)
  BY <1>1, <1>2, <1>3 DEF Differ
<1>5. ToSet(t) = ToSet(s) \union {x}
  <2>1. ASSUME NEW y PROVE y \in ToSet(t) <=> y \in ToSet(s) \/ y = x
    <3>1. Len(s) + 1 \in 1 .. Len(t) /\ \A k \in 1 .. Len(s) : k \in 1 .. Len(t)
      BY <1>1
    <3> QED BY <1>1, <1>2, <3>1 DEF ToSet
  <2> QED BY <2>1
<1> QED BY <1>1, <1>4, <1>5 DEF t
-----------------------------------------------------------------------------
(* The arguments of the script. *)
LEMMA ArgumentFacts ==
  ASSUME \E a \in Arguments : W = a[1] /\ P = a[2]
  PROVE  /\ W \in Nat /\ W >= 2 /\ P \in Nat /\ P >= 2
         /\ RandomNums[args] \subseteq Nat
         /\ F \in Nat /\ 1 <= F /\ F <= P /\ Q \in Nat /\ 1 <= Q
<1>1. W \in Nat /\ W >= 2 /\ P \in Nat /\ P >= 2
  BY ArgumentsAssumption
<1>2. RandomNums[args] \subseteq Nat
  <2>1. PICK a \in Arguments : W = a[1] /\ P = a[2]
    OBVIOUS
  <2>2. a = args
    BY <2>1, ArgumentsAssumption DEF args
  <2>3. \A x \in 1 .. a[1] * a[2] : x \in Nat
    BY ArgumentsAssumption
  <2>4. RandomNums[a] \subseteq 1 .. a[1] * a[2]
    BY ArgumentsAssumption
  <2> QED BY <2>2, <2>3, <2>4
<1> QED BY <1>1, <1>2 DEF F, Q
-----------------------------------------------------------------------------
LEMMA FirstSites == SitesInit => SitesInv
<1> SUFFICES ASSUME SitesInit PROVE SitesInv
  OBVIOUS
<1>1. W \in Nat /\ W >= 2 /\ P \in Nat /\ P >= 2
  BY ArgumentFacts DEF SitesInit
<1>2. <<site, page>> \in Pages /\ links \in Seq(Pages) /\ inter_links_indexes \in Seq(0 .. P - 1)
      /\ websites_indexes \in Seq(Sites)
  BY <1>1 DEF SitesInit, Pages, Sites
<1>3. SitesTypeOK
  BY <1>2 DEF SitesInit, SitesTypeOK
<1> QED BY <1>3 DEF SitesInit, SitesInv, NamesOK, InternalOK, ExternalOK

(* The loops over sites and pages. *)
LEMMA NextPageFacts ==
  ASSUME SitesTypeOK, NEW over, NEW again, NextPage(over, again), UNCHANGED args
  PROVE  phase' \in {over, again} /\ (<<site, page>> \in Pages)'
<1>1. W \in Nat /\ W >= 2 /\ P \in Nat /\ P >= 2
  BY ArgumentFacts DEF SitesTypeOK
<1>2. site \in 0 .. W - 1 /\ page \in 0 .. P - 1
  BY DEF SitesTypeOK, Pages, Sites
<1>3. W' = W /\ P' = P
  BY DEF args
<1>4. site' \in 0 .. W - 1 /\ page' \in 0 .. P - 1
  BY <1>1, <1>2 DEF NextPage
<1> QED BY <1>3, <1>4 DEF NextPage, Pages, Sites

(* Steps that leave the links and the pools alone. *)
LEMMA SamePages ==
  ASSUME UNCHANGED args
  PROVE  Pages' = Pages /\ Sites' = Sites /\ F' = F /\ Q' = Q
  BY DEF args, Pages, Sites, F, Q

LEMMA NamePageStep == ASSUME SitesInv, NamePage PROVE SitesInv'
<1>1. SitesTypeOK /\ NamesOK /\ UNCHANGED args /\ NextPage("page", "name")
  BY DEF SitesInv, NamePage
<1>2. phase' \in {"page", "name"} /\ (<<site, page>> \in Pages)'
  BY <1>1, NextPageFacts
<1>3. PICK n \in RandomNums[args] : page_index' = [page_index EXCEPT ![<<site, page>>] = PageIndex(n, <<site, page>>)]
  BY DEF NamePage
<1>4. n \in Nat /\ RandomNums[args] \subseteq Nat
  BY <1>1, ArgumentFacts DEF SitesTypeOK
<1>5. Pages \subseteq Nat \X Nat /\ <<site, page>> \in Pages
  BY <1>1, ArgumentFacts DEF SitesTypeOK, Pages, Sites
<1>6. PICK m \in Nat : m = PageIndex(n, <<site, page>>)
  BY <1>4, <1>5, PageIndexType
<1>7. page_index' \in [Pages -> Nat]
  BY <1>1, <1>3, <1>6 DEF SitesTypeOK
<1>8. SitesTypeOK'
  BY <1>1, <1>2, <1>7, SamePages DEF SitesTypeOK, NamePage, poolVars, args
<1>9. NamesOK'
  <2>1. ASSUME NEW pg \in Pages PROVE page_index'[pg] = 0 \/ \E k \in Nat : page_index'[pg] = PageIndex(k, pg)
    <3>1. CASE pg = <<site, page>>
      <4>1. page_index'[pg] = PageIndex(n, pg)
        BY <1>1, <1>3, <3>1 DEF SitesTypeOK
      <4> QED BY <1>4, <4>1
    <3>2. CASE pg # <<site, page>>
      <4>1. page_index'[pg] = page_index[pg]
        BY <1>1, <1>3, <3>2 DEF SitesTypeOK
      <4> QED BY <1>1, <4>1 DEF NamesOK
    <3> QED BY <3>1, <3>2
  <2>2. PICK f : f = page_index'
    OBVIOUS
  <2>3. \A pg \in Pages : f[pg] = 0 \/ \E k \in Nat : f[pg] = PageIndex(k, pg)
    BY <2>1, <2>2
  <2> QED BY <1>1, <2>2, <2>3, SamePages DEF NamesOK, PageIndex, Power10
<1> QED BY <1>2, <1>8, <1>9 DEF SitesInv, InternalOK, ExternalOK

LEMMA StartPageStep == ASSUME SitesInv, StartPage PROVE SitesInv'
<1>1. /\ SitesTypeOK /\ NamesOK /\ UNCHANGED <<args, site, page, page_index>>
      /\ W \in Nat /\ P \in Nat /\ P >= 2 /\ F \in Nat /\ 1 <= F /\ F <= P
  BY ArgumentFacts DEF SitesInv, StartPage, SitesTypeOK
<1>2. site \in 0 .. W - 1 /\ page \in 0 .. P - 1
  BY <1>1 DEF SitesTypeOK, Pages, Sites
<1>3. W' = W /\ P' = P /\ Pages' = Pages /\ Sites' = Sites /\ F' = F /\ page' = page /\ site' = site
  BY <1>1, SamePages DEF args
<1>4. NamesOK'
  BY <1>1, <1>3 DEF NamesOK, PageIndex, Power10
<1>5. CASE P <= 2
  <2>1. /\ links' = [l \in 1 .. F |-> <<site, l - 1>>] /\ phase' = "sites" /\ inter_links_indexes' = <<>>
        /\ inc_links' = inc_links \union ToSet(links')
    BY <1>5 DEF StartPage
  <2>2. PICK s : s = links'
    OBVIOUS
  <2>3. \A l \in 1 .. F : <<site, l - 1>> \in Pages
    BY <1>1, <1>2 DEF Pages, Sites
  <2>4. s \in Seq(Pages) /\ Len(s) = F /\ \A l \in 1 .. F : s[l] = <<site, l - 1>>
    <3> HIDE DEF F
    <3> QED BY <1>1, <2>1, <2>2, <2>3
  <2>5. ToSet(s) \subseteq Pages
    BY <2>4 DEF ToSet
  <2>6. inc_links' \subseteq Pages
    BY <1>1, <2>1, <2>2, <2>5 DEF SitesTypeOK
  <2>7. <<>> \in Seq(0 .. P - 1)
    OBVIOUS
  <2>8. SitesTypeOK'
    BY <1>1, <1>3, <2>1, <2>2, <2>4, <2>6, <2>7 DEF SitesTypeOK, StartPage
  <2>9. Differ(s) /\ \A l \in 1 .. Len(s) : s[l][1] = site
    BY <1>1, <2>4 DEF Differ
  <2>10. HomeLinks'
    BY <1>3, <1>5, <2>2, <2>9, <1>1 DEF HomeLinks
  <2>11. Len(links') = F' /\ Differ(links')
    BY <1>3, <2>2, <2>4, <2>9
  <2> QED BY <1>4, <2>1, <2>8, <2>10, <2>11 DEF SitesInv, InternalOK, ExternalOK, Differ
<1>6. CASE ~(P <= 2)
  <2>1. links' = <<>> /\ phase' = "internal" /\ inter_links_indexes' = Other(P, page) /\ inc_links' = inc_links
    BY <1>6 DEF StartPage
  <2>2. PICK s : s = inter_links_indexes'
    OBVIOUS
  <2>3. s \in Seq(0 .. P - 1) /\ Differ(s) /\ \A r \in 1 .. Len(s) : s[r] # page
    <3>1. PICK n \in Nat \ {0}, k \in Nat : n = P /\ k = page
      BY <1>1, <1>2
    <3>2. /\ Other(n, k) \in Seq(0 .. n - 1) /\ Differ(Other(n, k))
          /\ \A r \in 1 .. Len(Other(n, k)) : Other(n, k)[r] # k
      BY OtherFacts
    <3> QED BY <2>1, <2>2, <3>1, <3>2
  <2>4. <<>> \in Seq(Pages) /\ ToSet(<<>>) = {} /\ Len(<<>>) = 0
    BY DEF ToSet
  <2>5. SitesTypeOK'
    BY <1>1, <1>3, <2>1, <2>2, <2>3, <2>4 DEF SitesTypeOK, StartPage
  <2>6. HomeLinks' /\ Differ(links')
    BY <2>1, <2>4 DEF HomeLinks, Differ
  <2>7. InternalOK'
    BY <1>1, <1>3, <1>6, <2>1, <2>2, <2>3, <2>4, <2>6 DEF InternalOK, Differ
  <2> QED BY <1>4, <2>1, <2>5, <2>7 DEF SitesInv, ExternalOK
<1> QED BY <1>5, <1>6

LEMMA ChooseInternalStep == ASSUME SitesInv, ChooseInternal PROVE SitesInv'
<1>1. /\ SitesTypeOK /\ NamesOK /\ InternalOK /\ phase = "internal" /\ phase' = phase
      /\ UNCHANGED <<args, site, page, page_index>>
      /\ W \in Nat /\ P \in Nat /\ P >= 2 /\ F \in Nat
  BY ArgumentFacts DEF SitesInv, ChooseInternal, SitesTypeOK, turnVars
<1>2. /\ P > 2 /\ Len(links) < F /\ HomeLinks /\ Differ(links) /\ Differ(inter_links_indexes)
      /\ \A r \in 1 .. Len(inter_links_indexes) :
           inter_links_indexes[r] # page /\ <<site, inter_links_indexes[r]>> \notin ToSet(links)
  BY <1>1 DEF InternalOK, ChooseInternal
<1>3. W' = W /\ P' = P /\ Pages' = Pages /\ Sites' = Sites /\ F' = F /\ page' = page /\ site' = site
  BY <1>1, SamePages DEF args
<1>4. NamesOK'
  BY <1>1, <1>3 DEF NamesOK, PageIndex, Power10
<1>5. PICK r \in 1 .. Len(inter_links_indexes) :
        /\ links' = Append(links, <<site, inter_links_indexes[r]>>)
        /\ inc_links' = inc_links \union {<<site, inter_links_indexes[r]>>}
        /\ inter_links_indexes' = RemoveAt(inter_links_indexes, r)
  BY DEF ChooseInternal
<1>6. PICK s, t, pool, left, x :
        /\ s = links /\ t = links' /\ pool = inter_links_indexes /\ left = inter_links_indexes'
        /\ x = <<site, inter_links_indexes[r]>>
  OBVIOUS
<1>7. /\ s \in Seq(Pages) /\ pool \in Seq(0 .. P - 1) /\ x = <<site, pool[r]>> /\ r \in 1 .. Len(pool)
      /\ t = Append(s, x) /\ left = RemoveAt(pool, r) /\ Differ(s) /\ Differ(pool) /\ x \notin ToSet(s)
      /\ Len(s) \in Nat
  BY <1>1, <1>2, <1>5, <1>6 DEF SitesTypeOK
<1>8. x \in Pages /\ pool[r] # page
  <2>1. pool[r] \in 0 .. P - 1
    <3>1. PICK S : S = 0 .. P - 1
      OBVIOUS
    <3>2. pool \in Seq(S)
      BY <1>7, <3>1
    <3>3. r \in 1 .. Len(pool)
      BY <1>7
    <3>4. pool[r] \in S
      BY <3>2, <3>3
    <3> QED BY <3>1, <3>4
  <2>2. site \in Sites
    BY <1>1 DEF SitesTypeOK, Pages
  <2> QED BY <1>2, <1>6, <1>7, <2>1, <2>2 DEF Pages
<1>9. /\ t \in Seq(Pages) /\ Len(t) = Len(s) + 1 /\ Differ(t) /\ ToSet(t) = ToSet(s) \union {x}
      /\ t[Len(s) + 1] = x /\ \A k \in 1 .. Len(s) : t[k] = s[k]
  <2>1. PICK S : S = Pages
    OBVIOUS
  <2>2. s \in Seq(S) /\ x \in S
    BY <1>7, <1>8, <2>1
  <2>3. Differ(s) /\ x \notin ToSet(s)
    BY <1>7
  <2>4. /\ Append(s, x) \in Seq(S) /\ Len(Append(s, x)) = Len(s) + 1 /\ Differ(Append(s, x))
        /\ ToSet(Append(s, x)) = ToSet(s) \union {x}
        /\ Append(s, x)[Len(s) + 1] = x /\ \A k \in 1 .. Len(s) : Append(s, x)[k] = s[k]
    BY <2>2, <2>3, AppendDiffers
  <2>5. t = Append(s, x)
    BY <1>7
  <2> HIDE DEF Pages
  <2> QED BY <2>1, <2>4, <2>5
<1>10. /\ left \in Seq(0 .. P - 1) /\ Differ(left)
       /\ \A k \in 1 .. Len(left) : \E m \in 1 .. Len(pool) : m # r /\ left[k] = pool[m]
  BY <1>7, RemoveFacts
<1>11. SitesTypeOK'
  <2>1. inc_links' \subseteq Pages
    BY <1>1, <1>5, <1>6, <1>8 DEF SitesTypeOK
  <2>2. links' \in Seq(Pages) /\ inter_links_indexes' \in Seq(0 .. P - 1)
    BY <1>6, <1>9, <1>10
  <2> QED BY <1>1, <1>3, <2>1, <2>2 DEF SitesTypeOK, ChooseInternal, turnVars
<1>12. HomeLinks'
  <2>1. ASSUME NEW l \in 1 .. Len(t) PROVE t[l][1] = site /\ t[l] # <<site, page>>
    <3>1. l = Len(s) + 1 \/ l \in 1 .. Len(s)
      BY <1>7, <1>9
    <3>2. CASE l = Len(s) + 1
      BY <1>7, <1>8, <1>9, <3>2
    <3>3. CASE l \in 1 .. Len(s)
      <4>1. l <= F
        BY <1>1, <1>2, <1>6, <1>7, <3>3
      <4> QED BY <1>2, <1>6, <1>9, <3>3, <4>1 DEF HomeLinks
    <3> QED BY <3>1, <3>2, <3>3
  <2> QED BY <1>3, <1>6, <2>1 DEF HomeLinks
<1>13. ASSUME NEW k \in 1 .. Len(left) PROVE left[k] # page /\ <<site, left[k]>> \notin ToSet(t)
  <2>1. PICK m \in 1 .. Len(pool) : m # r /\ left[k] = pool[m]
    BY <1>10
  <2>2. pool[m] # pool[r] /\ pool[m] # page /\ <<site, pool[m]>> \notin ToSet(s)
    BY <1>2, <1>6, <1>7, <2>1 DEF Differ
  <2> QED BY <1>7, <1>9, <2>1, <2>2
<1>14. InternalOK'
  <2>1. Len(t) <= F
    BY <1>1, <1>2, <1>6, <1>7, <1>9
  <2> QED BY <1>2, <1>3, <1>6, <1>9, <1>10, <1>12, <1>13, <2>1 DEF InternalOK
<1> QED BY <1>1, <1>4, <1>11, <1>14 DEF SitesInv, ExternalOK

LEMMA StartExternalStep == ASSUME SitesInv, StartExternal PROVE SitesInv'
<1>1. /\ SitesTypeOK /\ NamesOK /\ phase' = "external" /\ external_links_taken' = {}
      /\ UNCHANGED <<args, site, page, page_index, links>>
      /\ W \in Nat /\ W >= 2 /\ P \in Nat /\ P >= 2 /\ F \in Nat
  BY ArgumentFacts DEF SitesInv, StartExternal, SitesTypeOK
<1>2. Len(links) = F /\ HomeLinks /\ Differ(links)
  BY DEF SitesInv, StartExternal, InternalOK
<1>3. W' = W /\ P' = P /\ Pages' = Pages /\ Sites' = Sites /\ F' = F /\ page' = page /\ site' = site
  BY <1>1, SamePages DEF args
<1>4. NamesOK'
  BY <1>1, <1>3 DEF NamesOK, PageIndex, Power10
<1>5. PICK s, l : s = websites_indexes' /\ l = links
  OBVIOUS
<1>6. s \in Seq(Sites) /\ Differ(s) /\ \A r \in 1 .. Len(s) : s[r] # site
  <2>1. PICK n \in Nat \ {0}, k \in Nat : n = W /\ k = site
    BY <1>1 DEF SitesTypeOK, Pages, Sites
  <2>2. /\ Other(n, k) \in Seq(0 .. n - 1) /\ Differ(Other(n, k))
        /\ \A r \in 1 .. Len(Other(n, k)) : Other(n, k)[r] # k
    BY OtherFacts
  <2>3. s = Other(n, k)
    BY <1>5, <2>1 DEF StartExternal
  <2> QED BY <2>1, <2>2, <2>3 DEF Sites
<1>7. SitesTypeOK'
  BY <1>1, <1>3, <1>5, <1>6 DEF SitesTypeOK, StartExternal
<1>8. \A x : HasFree(x)'
  <2>1. 0 \in 0 .. P - 1
    BY <1>1
  <2> QED BY <1>1, <1>3, <2>1 DEF HasFree
<1>9. HomeLinks'
  BY <1>1, <1>2, <1>3 DEF HomeLinks
<1>10. ExternalOK'
  <2>1. \A k \in 1 .. Len(l) : ~(k > F)
    BY <1>1, <1>2, <1>5
  <2>2. F <= Len(l) /\ Differ(l)
    BY <1>1, <1>2, <1>5
  <2>3. \A r \in 1 .. Len(s) : s[r] # site /\ HasFree(s[r])'
    BY <1>6, <1>8
  <2> QED BY <1>1, <1>3, <1>5, <1>6, <1>9, <2>1, <2>2, <2>3 DEF ExternalOK
<1> QED BY <1>1, <1>4, <1>7, <1>10 DEF SitesInv, InternalOK

LEMMA ChooseExternalStep == ASSUME SitesInv, ChooseExternal PROVE SitesInv'
<1>1. /\ SitesTypeOK /\ NamesOK /\ ExternalOK /\ phase = "external" /\ UNCHANGED <<args, site, page, page_index>>
      /\ W \in Nat /\ P \in Nat /\ P >= 2 /\ F \in Nat
  BY ArgumentFacts DEF SitesInv, ChooseExternal, SitesTypeOK
<1>2. W' = W /\ P' = P /\ Pages' = Pages /\ Sites' = Sites /\ F' = F /\ page' = page /\ site' = site
  BY <1>1, SamePages DEF args
<1>3. NamesOK'
  BY <1>1, <1>2 DEF NamesOK, PageIndex, Power10
<1>4. PICK s, t, pool, left, taken, now :
        /\ s = links /\ t = links' /\ pool = websites_indexes /\ left = websites_indexes'
        /\ taken = external_links_taken /\ now = external_links_taken'
  OBVIOUS
<1> DEFINE Free(x) == {z \in 0 .. P - 1 : <<x, z>> \notin taken}
<1>5. PICK r \in 1 .. Len(pool) :
        /\ left = IF LastFree(Free(pool[r])) THEN RemoveAt(pool, r) ELSE pool
        /\ IF Free(pool[r]) = {} THEN phase' = "failed" /\ UNCHANGED <<external_links_taken, links, inc_links>>
           ELSE \E z \in Free(pool[r]) :
                  /\ now = taken \union {<<pool[r], z>>}
                  /\ t = Append(s, <<pool[r], z>>)
                  /\ inc_links' = inc_links \union {<<pool[r], z>>}
                  /\ UNCHANGED phase
  BY <1>4 DEF ChooseExternal
<1>6. /\ F <= Len(s) /\ HomeLinks /\ Differ(s) /\ Differ(pool)
      /\ s \in Seq(Pages) /\ pool \in Seq(Sites) /\ taken \subseteq Pages /\ Len(s) \in Nat
      /\ \A l \in 1 .. Len(s) : l > F => s[l][1] # site /\ s[l] \in taken
      /\ \A l \in 1 .. Len(s) : l <= F => s[l][1] = site /\ (P > 2 => s[l] # <<site, page>>)
      /\ \A k \in 1 .. Len(pool) : pool[k] # site /\ Free(pool[k]) # {}
  <2>1. s \in Seq(Pages) /\ pool \in Seq(Sites) /\ taken \subseteq Pages
    BY <1>1, <1>4 DEF SitesTypeOK
  <2>2. /\ F <= Len(s) /\ HomeLinks /\ Differ(s) /\ Differ(pool)
        /\ \A l \in 1 .. Len(s) : l > F => s[l][1] # site /\ s[l] \in taken
        /\ \A k \in 1 .. Len(pool) : pool[k] # site /\ HasFree(pool[k])
    BY <1>1, <1>4 DEF ExternalOK
  <2>3. \A x : HasFree(x) => Free(x) # {}
    BY <1>4 DEF HasFree
  <2>4. \A l \in 1 .. Len(s) : l <= F => s[l][1] = site /\ (P > 2 => s[l] # <<site, page>>)
    BY <1>4, <2>2 DEF HomeLinks
  <2> HIDE DEF Free
  <2> QED BY <2>1, <2>2, <2>3, <2>4
<1>7. PICK z \in Free(pool[r]) :
        /\ now = taken \union {<<pool[r], z>>}
        /\ t = Append(s, <<pool[r], z>>)
        /\ inc_links' = inc_links \union {<<pool[r], z>>}
        /\ UNCHANGED phase
  BY <1>5, <1>6
<1>8. PICK o, x : o = pool[r] /\ x = <<pool[r], z>>
  OBVIOUS
<1>9. /\ o \in Sites /\ z \in 0 .. P - 1 /\ x \in Pages /\ x \notin taken /\ o # site /\ x = <<o, z>>
  BY <1>6, <1>7, <1>8 DEF Pages
<1>10. x \notin ToSet(s)
  <2>1. ASSUME NEW l \in 1 .. Len(s) PROVE s[l] # x
    <3>1. l > F \/ l <= F
      BY <1>1
    <3>2. x[1] = o
      BY <1>9
    <3>3. CASE l > F
      BY <1>6, <1>9, <3>3
    <3>4. CASE l <= F
      BY <1>6, <1>9, <3>2, <3>4
    <3> QED BY <3>1, <3>3, <3>4
  <2>2. DOMAIN s = 1 .. Len(s)
    BY <1>6
  <2> QED BY <2>1, <2>2 DEF ToSet
<1>11. /\ t \in Seq(Pages) /\ Len(t) = Len(s) + 1 /\ Differ(t)
       /\ t[Len(s) + 1] = x /\ \A k \in 1 .. Len(s) : t[k] = s[k]
  BY <1>6, <1>7, <1>8, <1>9, <1>10, AppendDiffers
<1>12. /\ left \in Seq(Sites) /\ Differ(left)
       /\ \A k \in 1 .. Len(left) : \E m \in 1 .. Len(pool) :
            left[k] = pool[m] /\ (LastFree(Free(pool[r])) => m # r)
  <2>1. CASE LastFree(Free(pool[r]))
    <3>1. left = RemoveAt(pool, r)
      BY <1>5, <2>1
    <3>2. /\ left \in Seq(Sites) /\ Differ(left)
          /\ \A k \in 1 .. Len(left) : \E m \in 1 .. Len(pool) : m # r /\ left[k] = pool[m]
      BY <1>6, <3>1, RemoveFacts, SMTT(30)
    <3> QED BY <3>2
  <2>2. CASE ~LastFree(Free(pool[r]))
    <3>1. left = pool
      BY <1>5, <2>2
    <3> QED BY <1>6, <2>2, <3>1
  <2> QED BY <2>1, <2>2
<1>13. ASSUME NEW k \in 1 .. Len(left)
       PROVE  left[k] # site /\ \E y \in 0 .. P - 1 : <<left[k], y>> \notin now
  <2>1. PICK m \in 1 .. Len(pool) : left[k] = pool[m] /\ (LastFree(Free(pool[r])) => m # r)
    BY <1>12
  <2>2. pool[m] # site /\ Free(pool[m]) # {}
    BY <1>6
  <2>3. CASE m # r
    <3>1. pool[m] # o
      BY <1>6, <1>8, <2>3 DEF Differ
    <3>2. PICK y \in Free(pool[m]) : TRUE
      BY <2>2
    <3> QED BY <1>7, <1>8, <1>9, <2>1, <2>2, <3>1, <3>2
  <2>4. CASE m = r
    <3>1. Cardinality(Free(o)) # 1
      BY <1>8, <2>1, <2>4 DEF LastFree
    <3>2. Free(o) # {z}
      BY <3>1, FS_Singleton
    <3>3. PICK y \in Free(o) : y # z
      BY <1>7, <1>8, <3>2
    <3> QED BY <1>7, <1>8, <1>9, <2>1, <2>2, <2>4, <3>3
  <2> QED BY <2>3, <2>4
<1>14. SitesTypeOK'
  <2>1. inc_links' \subseteq Pages /\ now \subseteq Pages
    BY <1>1, <1>6, <1>7, <1>8, <1>9 DEF SitesTypeOK
  <2> QED BY <1>1, <1>2, <1>4, <1>7, <1>11, <1>12, <2>1 DEF SitesTypeOK, ChooseExternal
<1>15. ASSUME NEW l \in 1 .. Len(t)
       PROVE  /\ l > F => t[l][1] # site /\ t[l] \in now
              /\ l <= F => t[l][1] = site /\ (P > 2 => t[l] # <<site, page>>)
  <2>1. (l = Len(s) + 1 /\ ~(l <= F)) \/ l \in 1 .. Len(s)
    BY <1>1, <1>6, <1>11
  <2>2. CASE l = Len(s) + 1 /\ ~(l <= F)
    BY <1>7, <1>8, <1>9, <1>11, <2>2
  <2>3. CASE l \in 1 .. Len(s)
    BY <1>6, <1>7, <1>11, <2>3
  <2> QED BY <2>1, <2>2, <2>3
<1>16. HomeLinks'
  BY <1>2, <1>4, <1>15 DEF HomeLinks
<1>17. ExternalOK'
  <2>1. F <= Len(t)
    BY <1>1, <1>6, <1>11
  <2>2. \A k \in 1 .. Len(left) : left[k] # site /\ HasFree(left[k])'
    BY <1>2, <1>4, <1>13 DEF HasFree
  <2> QED BY <1>2, <1>4, <1>11, <1>12, <1>15, <1>16, <2>1, <2>2 DEF ExternalOK
<1> QED BY <1>1, <1>3, <1>7, <1>14, <1>17 DEF SitesInv, InternalOK

LEMMA WritePageStep == ASSUME SitesInv, WritePage PROVE SitesInv'
<1>1. SitesTypeOK /\ NamesOK /\ UNCHANGED <<args, page_index>> /\ NextPage("verdict", "page")
  BY DEF SitesInv, WritePage
<1>2. phase' \in {"verdict", "page"} /\ (<<site, page>> \in Pages)'
  BY <1>1, NextPageFacts
<1>3. Pages' = Pages /\ Sites' = Sites /\ P' = P /\ W' = W
  BY <1>1, SamePages DEF args
<1>4. linked' \subseteq Pages
  <2>1. PICK s : s = links
    OBVIOUS
  <2>2. s \in Seq(Pages)
    BY <1>1, <2>1 DEF SitesTypeOK
  <2>3. ToSet(s) \subseteq Pages
    BY <2>2 DEF ToSet
  <2> QED BY <1>1, <2>1, <2>3 DEF SitesTypeOK, WritePage
<1>5. SitesTypeOK'
  BY <1>1, <1>2, <1>3, <1>4 DEF SitesTypeOK, WritePage, poolVars
<1>6. NamesOK'
  BY <1>1, <1>3 DEF NamesOK, PageIndex, Power10
<1> QED BY <1>2, <1>5, <1>6 DEF SitesInv, InternalOK, ExternalOK

LEMMA VerdictStep == ASSUME SitesInv, Verdict PROVE SitesInv'
<1>1. SitesTypeOK /\ NamesOK /\ UNCHANGED <<args, page_index>> /\ phase' = "done" /\ all_inc_links' \in BOOLEAN
  BY DEF SitesInv, Verdict
<1>2. Pages' = Pages /\ Sites' = Sites /\ P' = P /\ W' = W
  BY <1>1, SamePages DEF args
<1>3. SitesTypeOK'
  BY <1>1, <1>2 DEF SitesTypeOK, Verdict, poolVars
<1>4. NamesOK'
  BY <1>1, <1>2 DEF NamesOK, PageIndex, Power10
<1> QED BY <1>1, <1>3, <1>4 DEF SitesInv, InternalOK, ExternalOK

LEMMA SitesStutterStep == ASSUME SitesInv, UNCHANGED sitesVars PROVE SitesInv'
<1>1. W' = W /\ P' = P /\ Pages' = Pages /\ Sites' = Sites /\ F' = F
  BY SamePages DEF sitesVars, args
<1>2. SitesTypeOK' /\ NamesOK'
  BY <1>1 DEF SitesInv, SitesTypeOK, NamesOK, PageIndex, Power10, sitesVars, turnVars, poolVars
<1>3. HomeLinks' = HomeLinks /\ \A x : HasFree(x)' = HasFree(x)
  BY <1>1 DEF HomeLinks, HasFree, sitesVars, turnVars, poolVars
<1>4. InternalOK' /\ ExternalOK'
  BY <1>1, <1>3 DEF SitesInv, InternalOK, ExternalOK, sitesVars, turnVars, poolVars
<1> QED BY <1>1, <1>2, <1>3, <1>4 DEF SitesInv, sitesVars, turnVars

(* In every state of webcreator.sh the pools and the links chosen fit together. *)
THEOREM SitesInvHolds == SitesSpec => []SitesInv
<1>1. SitesInv /\ [SitesNext]_sitesVars => SitesInv'
  BY NamePageStep, StartPageStep, ChooseInternalStep, StartExternalStep, ChooseExternalStep, WritePageStep,
     VerdictStep, SitesStutterStep DEF SitesNext
<1> QED BY FirstSites, <1>1, PTL DEF SitesSpec

LEMMA SitesInvLinks == SitesInv => LinksOfPage
<1> SUFFICES ASSUME SitesInv PROVE LinksOfPage
  OBVIOUS
<1>1. SitesTypeOK
  BY DEF SitesInv
<1>2. F \in Nat /\ Q \in Nat
  BY <1>1, ArgumentFacts DEF SitesTypeOK
<1>3. ASSUME phase = "external", Len(links) = F + Q
      PROVE  /\ \A l, m \in 1 .. F + Q : links[l] = links[m] => l = m
             /\ {l \in 1 .. F + Q : links[l][1] = site} = 1 .. F
             /\ P > 2 => <<site, page>> \notin ToSet(links)
  <2>1. PICK s : s = links
    OBVIOUS
  <2>2. /\ Differ(s) /\ s \in Seq(Pages) /\ Len(s) = F + Q
        /\ \A l \in 1 .. Len(s) : l > F => s[l][1] # site
        /\ \A l \in 1 .. Len(s) : l <= F => s[l][1] = site /\ (P > 2 => s[l] # <<site, page>>)
    BY <1>1, <1>3, <2>1 DEF SitesInv, ExternalOK, HomeLinks, SitesTypeOK
  <2>3. \A l \in 1 .. F + Q : s[l][1] = site <=> l \in 1 .. F
    BY <1>2, <2>2
  <2>4. \A l \in 1 .. F : l \in 1 .. F + Q
    BY <1>2
  <2>5. ASSUME P > 2, NEW l \in 1 .. Len(s) PROVE s[l] # <<site, page>>
    <3>1. l > F \/ l <= F
      BY <1>2
    <3> QED BY <2>2, <2>5, <3>1
  <2>6. DOMAIN s = 1 .. Len(s)
    BY <2>2
  <2>7. P > 2 => <<site, page>> \notin ToSet(s)
    BY <2>5, <2>6 DEF ToSet
  <2> QED BY <2>1, <2>2, <2>3, <2>4, <2>7 DEF Differ
<1> QED BY <1>1, <1>3 DEF LinksOfPage

(***************************************************************************)
(* A page that is about to be written has f different links into its site, *)
(* none to itself with more than two pages, and q different links to other *)
(* sites, for every number of sites and pages.                             *)
(***************************************************************************)
THEOREM LinksOfPageHolds == SitesSpec => []LinksOfPage
  BY SitesInvHolds, SitesInvLinks, PTL

(* A site that is picked for an external link has a page not yet linked: shuf gets no empty range. *)
THEOREM PickedSiteHasPage == SitesSpec => [](phase # "failed")
<1>1. SitesInv => phase # "failed"
  BY DEF SitesInv
<1> QED BY SitesInvHolds, <1>1, PTL

(* What is marked as linked is what is in the files, and the links of the page at hand. *)
MarkInv ==
  /\ inc_links = linked \union IF phase \in {"internal", "sites", "external"} THEN ToSet(links) ELSE {}
  /\ VerdictTrue

LEMMA AppendSet ==
  ASSUME NEW S, NEW s \in Seq(S), NEW x \in S
  PROVE  ToSet(Append(s, x)) = ToSet(s) \union {x}
<1>1. PICK n \in Nat : n = Len(s)
  OBVIOUS
<1>2. PICK t : t = Append(s, x)
  OBVIOUS
<1>3. Len(t) = n + 1 /\ t[n + 1] = x /\ \A k \in 1 .. n : t[k] = s[k]
  BY <1>1, <1>2
<1>4. DOMAIN t = 1 .. n + 1 /\ DOMAIN s = 1 .. n
  BY <1>1, <1>2
<1>5. 1 .. n + 1 = (1 .. n) \union {n + 1}
  OBVIOUS
<1> QED BY <1>2, <1>3, <1>4, <1>5 DEF ToSet

LEMMA MarkStep == ASSUME SitesInv, SitesInv', MarkInv, [SitesNext]_sitesVars PROVE MarkInv'
<1>1. SitesTypeOK /\ phase' # "failed"
  BY DEF SitesInv
<1>2. CASE NamePage
  <2>1. phase = "name" /\ phase' \in {"page", "name"}
    BY <1>2 DEF NamePage, NextPage
  <2> QED BY <1>2, <2>1 DEF MarkInv, VerdictTrue, NamePage
<1>3. CASE StartPage
  <2>1. phase = "page" /\ phase' \in {"sites", "internal"} /\ linked' = linked
    BY <1>3 DEF StartPage
  <2>2. inc_links' = inc_links \union ToSet(links')
    <3>1. ToSet(<<>>) = {}
      BY DEF ToSet
    <3> QED BY <1>3, <3>1 DEF StartPage
  <2> QED BY <2>1, <2>2 DEF MarkInv, VerdictTrue
<1>4. CASE ChooseInternal
  <2>1. phase = "internal" /\ phase' = phase /\ linked' = linked
    BY <1>4 DEF ChooseInternal, turnVars
  <2>2. PICK x : links' = Append(links, x) /\ inc_links' = inc_links \union {x}
    BY <1>4 DEF ChooseInternal
  <2>3. ToSet(links') = ToSet(links) \union {x}
    <3>1. links \in Seq(Pages \union {x})
      BY <1>1 DEF SitesTypeOK
    <3> QED BY <2>2, <3>1, AppendSet
  <2> QED BY <2>1, <2>2, <2>3 DEF MarkInv, VerdictTrue
<1>5. CASE StartExternal
  BY <1>5 DEF MarkInv, VerdictTrue, StartExternal
<1>6. CASE ChooseExternal
  <2>1. phase = "external" /\ phase' = phase /\ linked' = linked
    BY <1>1, <1>6 DEF ChooseExternal
  <2>2. PICK x : links' = Append(links, x) /\ inc_links' = inc_links \union {x}
    BY <1>1, <1>6 DEF ChooseExternal
  <2>3. ToSet(links') = ToSet(links) \union {x}
    <3>1. links \in Seq(Pages \union {x})
      BY <1>1 DEF SitesTypeOK
    <3> QED BY <2>2, <3>1, AppendSet
  <2> QED BY <2>1, <2>2, <2>3 DEF MarkInv, VerdictTrue
<1>7. CASE WritePage
  <2>1. phase = "external" /\ phase' \in {"verdict", "page"}
    BY <1>7 DEF WritePage, NextPage
  <2> QED BY <1>7, <2>1 DEF MarkInv, VerdictTrue, WritePage
<1>8. CASE Verdict
  <2>1. inc_links = linked /\ linked \subseteq Pages
    BY <1>1, <1>8 DEF MarkInv, Verdict, SitesTypeOK
  <2>2. Pages' = Pages
    BY <1>8, SamePages DEF Verdict
  <2>3. all_inc_links' <=> linked = Pages
    BY <1>8, <2>1 DEF Verdict
  <2> QED BY <1>8, <2>1, <2>2, <2>3 DEF MarkInv, VerdictTrue, Verdict
<1>9. CASE UNCHANGED sitesVars
  <2>1. Pages' = Pages
    BY <1>9, SamePages DEF sitesVars
  <2> QED BY <1>9, <2>1 DEF MarkInv, VerdictTrue, sitesVars, turnVars
<1> QED BY <1>2, <1>3, <1>4, <1>5, <1>6, <1>7, <1>8, <1>9 DEF SitesNext

(* For any number of sites and pages: "all pages have at least one incoming link" is printed if and only if it is so. *)
THEOREM VerdictTrueHolds == SitesSpec => []VerdictTrue
<1>1. SitesInit => MarkInv
  BY DEF SitesInit, MarkInv, VerdictTrue
<1>2. SitesInv /\ SitesInv' /\ MarkInv /\ [SitesNext]_sitesVars => MarkInv'
  BY MarkStep
<1>3. MarkInv => VerdictTrue
  BY DEF MarkInv
<1> QED BY <1>1, <1>2, <1>3, SitesInvHolds, PTL DEF SitesSpec

LEMMA SitesInvNames == SitesInv => UniqueNames
<1> SUFFICES ASSUME SitesInv, NEW pg \in Pages, NEW pg2 \in Pages, pg[1] = pg2[1], pg # pg2,
                    page_index[pg] # 0, Power10(pg[2]) = Power10(pg2[2]),
                    page_index[pg] = page_index[pg2]
             PROVE  FALSE
  BY DEF UniqueNames
<1>1. P \in Nat /\ W \in Nat
  BY ArgumentFacts DEF SitesInv, SitesTypeOK
<1>2. pg \in Nat \X Nat /\ pg2 \in Nat \X Nat /\ pg[2] # pg2[2]
  BY <1>1 DEF Pages, Sites
<1>3. PICK n \in Nat : page_index[pg] = PageIndex(n, pg)
  BY DEF SitesInv, NamesOK
<1>4. PICK m \in Nat : page_index[pg2] = PageIndex(m, pg2)
  BY DEF SitesInv, NamesOK
<1>5. PICK a, b \in Nat : a = pg[2] /\ b = pg2[2]
  BY <1>2
<1>6. PICK q \in Nat : q = Power10(a) /\ q = Power10(b) /\ a < q /\ b < q
  BY <1>5, Power10Facts
<1>7. PICK k \in Nat : page_index[pg] = q * k + a
  BY <1>2, <1>3, <1>5, <1>6, LastDigits
<1>8. PICK l \in Nat : page_index[pg2] = q * l + b
  BY <1>2, <1>4, <1>5, <1>6, LastDigits
<1>9. q * k + a = q * l + b /\ a # b
  BY <1>2, <1>5, <1>7, <1>8
<1>10. q > 0 /\ a \in 0 .. q - 1 /\ b \in 0 .. q - 1
  BY <1>6
<1> QED BY <1>6, <1>9, <1>10, OneRemainder

(***************************************************************************)
(* The names of the pages of a site: for any number of sites and of pages, *)
(* and any random numbers, two pages whose indexes have as many digits are *)
(* not written to one file.                                                *)
(***************************************************************************)
THEOREM UniqueNamesHolds == SitesSpec => []UniqueNames
  BY SitesInvHolds, SitesInvNames, PTL
-----------------------------------------------------------------------------
(***************************************************************************)
(* The index: IndexExact and AnswersExact speak of the moments between two *)
(* words and of the end.  IndexInv says of every step where the worker is  *)
(* (Position, InWord), that the nodes are those of a trie and each posting *)
(* list is that of the words come past (Built), and that these are counted *)
(* (Counted).  What a loop computes is shown by induction over its turns.  *)
(***************************************************************************)
Sorted(s) == \A m \in 1 .. Len(s) : \A k \in 1 .. m - 1 : s[k] < s[m]
In(s, x)  == \E k \in 1 .. Len(s) : s[k] = x

LEMMA StopFacts ==
  ASSUME NEW s \in Seq(Nat), NEW ch \in Nat
  PROVE  /\ Stop(s, ch) \in 0 .. Len(s)
         /\ Stop(s, ch) = 0 => \A k \in 1 .. Len(s) : s[k] < ch
         /\ Stop(s, ch) # 0 => s[Stop(s, ch)] >= ch /\ \A k \in 1 .. Stop(s, ch) - 1 : s[k] < ch
<1> DEFINE I == {k \in 1 .. Len(s) : s[k] >= ch}
<1>1. Stop(s, ch) = IF I # {} THEN Min(I) ELSE 0
  BY DEF Stop, SelectInSeq
<1>2. CASE I = {}
  BY <1>1, <1>2
<1>3. CASE I # {}
  <2>1. \E n \in I : \A m \in I : n <= m
    <3>1. I \subseteq Nat
      OBVIOUS
    <3> HIDE DEF I
    <3> QED BY <1>3, <3>1, Least
  <2>2. Stop(s, ch) \in I /\ \A m \in I : Stop(s, ch) <= m
    <3> HIDE DEF I
    <3> QED BY <1>1, <1>3, <2>1, Zenon DEF Min
  <2>3. PICK n, len \in Nat : n = Stop(s, ch) /\ len = Len(s)
    BY <2>2
  <2>4. n \in 1 .. len /\ s[n] >= ch
    BY <2>2, <2>3
  <2>5. \A k \in 1 .. len : k < n => s[k] < ch
    <3>1. ASSUME NEW k \in 1 .. len, k < n, ~(s[k] < ch) PROVE FALSE
      <4>1. s[k] \in Nat
        BY <2>3
      <4>2. k \in I
        BY <2>3, <3>1, <4>1
      <4> QED BY <2>2, <2>3, <2>4, <3>1, <4>2
    <3> QED BY <3>1
  <2>6. n \in 0 .. len /\ n # 0 /\ \A k \in 1 .. n - 1 : k \in 1 .. len /\ k < n
    BY <2>4
  <2> HIDE DEF I
  <2> QED BY <2>3, <2>4, <2>5, <2>6
<1> QED BY <1>2, <1>3

LEMMA HasFacts ==
  ASSUME NEW s \in Seq(Nat), NEW ch \in Nat, Sorted(s)
  PROVE  Has(s, ch) <=> In(s, ch)
<1> DEFINE n == Stop(s, ch)
<1>1. /\ n \in 0 .. Len(s)
      /\ n = 0 => \A k \in 1 .. Len(s) : s[k] < ch
      /\ n # 0 => s[n] >= ch /\ \A k \in 1 .. n - 1 : s[k] < ch
  BY StopFacts
<1>2. Has(s, ch) <=> n # 0 /\ s[n] = ch
  BY DEF Has
<1> HIDE DEF n
<1>3. \A k \in 1 .. Len(s) : s[k] \in Nat
  OBVIOUS
<1>4. ASSUME NEW k \in 1 .. Len(s), s[k] = ch PROVE n # 0 /\ s[n] = ch
  <2>1. n # 0
    BY <1>1, <1>3, <1>4
  <2>2. n <= k
    BY <1>1, <1>3, <1>4, <2>1
  <2>3. s[n] <= s[k]
    BY <1>1, <1>3, <2>1, <2>2 DEF Sorted
  <2> QED BY <1>1, <1>3, <1>4, <2>1, <2>3
<1>5. ASSUME n # 0, s[n] = ch PROVE In(s, ch)
  BY <1>1, <1>5 DEF In
<1> QED BY <1>2, <1>4, <1>5 DEF In

LEMMA InsertFacts ==
  ASSUME NEW s \in Seq(Nat), NEW n \in 1 .. Len(s), NEW ch \in Nat
  PROVE  /\ InsertAt(s, n, ch) \in Seq(Nat) /\ Len(InsertAt(s, n, ch)) = Len(s) + 1
         /\ \A k \in 1 .. n - 1 : InsertAt(s, n, ch)[k] = s[k]
         /\ InsertAt(s, n, ch)[n] = ch
         /\ \A k \in n .. Len(s) : InsertAt(s, n, ch)[k + 1] = s[k]
<1> DEFINE a == SubSeq(s, 1, n - 1)
           b == SubSeq(s, n, Len(s))
           u == a \o <<ch>>
           t == u \o b
<1>1. a \in Seq(Nat) /\ Len(a) = n - 1 /\ \A k \in 1 .. n - 1 : a[k] = s[k]
  OBVIOUS
<1>2. b \in Seq(Nat) /\ Len(b) = Len(s) - n + 1 /\ \A k \in 1 .. Len(s) - n + 1 : b[k] = s[n + k - 1]
  <2>1. n \in Int /\ Len(s) \in Int /\ 1 <= n /\ n <= Len(s)
    OBVIOUS
  <2>2. b \in Seq(Nat) /\ Len(b) = Len(s) - n + 1
    BY <2>1
  <2>3. ASSUME NEW k \in 1 .. Len(s) - n + 1 PROVE b[k] = s[n + k - 1]
    BY <2>1
  <2> QED BY <2>2, <2>3
<1> HIDE DEF a, b
<1>3. u = Append(a, ch)
  BY <1>1
<1> HIDE DEF u
<1>4. /\ u \in Seq(Nat) /\ Len(u) = n /\ u[n] = ch
      /\ \A k \in 1 .. n - 1 : u[k] = s[k]
  BY <1>1, <1>3
<1>5. /\ t \in Seq(Nat) /\ Len(t) = Len(u) + Len(b)
      /\ \A k \in 1 .. Len(u) : t[k] = u[k]
      /\ \A k \in 1 .. Len(b) : t[k + Len(u)] = b[k]
  <2>1. u \in Seq(Nat) /\ b \in Seq(Nat)
    BY <1>2, <1>4
  <2>2. t \in Seq(Nat) /\ Len(t) = Len(u) + Len(b)
    BY <2>1
  <2>3. \A k \in 1 .. Len(u) : t[k] = u[k]
    BY <2>1
  <2>4. \A k \in 1 .. Len(b) : t[k + Len(u)] = b[k]
    BY <2>1, SMTT(30)
  <2> QED BY <2>2, <2>3, <2>4
<1>6. t = InsertAt(s, n, ch)
  BY DEF InsertAt, u, a, b
<1> HIDE DEF t
<1>7. ASSUME NEW k \in n .. Len(s) PROVE t[k + 1] = s[k]
  <2>1. k - n + 1 \in 1 .. Len(b) /\ k - n + 1 + Len(u) = k + 1 /\ n + (k - n + 1) - 1 = k
    BY <1>2, <1>4
  <2>2. t[k - n + 1 + Len(u)] = b[k - n + 1] /\ b[k - n + 1] = s[n + (k - n + 1) - 1]
    BY <1>2, <1>5, <2>1
  <2> QED BY <2>1, <2>2
<1>8. t \in Seq(Nat) /\ Len(t) = Len(s) + 1 /\ t[n] = ch /\ \A k \in 1 .. n - 1 : t[k] = s[k]
  <2>1. t \in Seq(Nat) /\ Len(t) = Len(s) + 1
    BY <1>2, <1>4, <1>5
  <2>2. n \in 1 .. Len(u)
    BY <1>4
  <2>3. t[n] = ch
    BY <1>4, <1>5, <2>2
  <2>4. \A k \in 1 .. n - 1 : t[k] = s[k]
    <3>1. \A k \in 1 .. n - 1 : k \in 1 .. Len(u)
      BY <1>4
    <3> QED BY <1>4, <1>5, <3>1
  <2> QED BY <2>1, <2>3, <2>4
<1> QED BY <1>6, <1>7, <1>8

LEMMA AddLetterFacts ==
  ASSUME NEW s \in Seq(Nat), NEW ch \in Nat, Sorted(s)
  PROVE  /\ AddLetter(s, ch) \in Seq(Nat) /\ Sorted(AddLetter(s, ch))
         /\ \A c \in Nat : In(AddLetter(s, ch), c) <=> c = ch \/ In(s, c)
<1> DEFINE n == Stop(s, ch)
<1>a. /\ n \in 0 .. Len(s)
      /\ n = 0 => \A k \in 1 .. Len(s) : s[k] < ch
      /\ n # 0 => s[n] >= ch /\ \A k \in 1 .. n - 1 : s[k] < ch
  BY StopFacts
<1>b. AddLetter(s, ch) = IF Has(s, ch) THEN s ELSE IF n = 0 THEN Append(s, ch) ELSE InsertAt(s, n, ch)
  BY DEF AddLetter
<1>c. Has(s, ch) <=> n # 0 /\ s[n] = ch
  BY DEF Has
<1>d. \A k \in 1 .. Len(s) : s[k] \in Nat
  OBVIOUS
<1> HIDE DEF n
<1>1. CASE Has(s, ch)
  BY <1>1, <1>b, HasFacts
<1>2. CASE ~Has(s, ch) /\ n = 0
  <2>1. AddLetter(s, ch) = Append(s, ch) /\ \A k \in 1 .. Len(s) : s[k] < ch
    BY <1>2, <1>a, <1>b
  <2>2. /\ Append(s, ch) \in Seq(Nat) /\ Len(Append(s, ch)) = Len(s) + 1
        /\ \A k \in 1 .. Len(s) : Append(s, ch)[k] = s[k]
        /\ Append(s, ch)[Len(s) + 1] = ch
    OBVIOUS
  <2>3. Sorted(Append(s, ch))
    BY <2>1, <2>2 DEF Sorted
  <2>4. \A c \in Nat : In(Append(s, ch), c) <=> c = ch \/ In(s, c)
    BY <2>2 DEF In
  <2> QED BY <2>1, <2>2, <2>3, <2>4
<1>3. CASE ~Has(s, ch) /\ n # 0
  <2> DEFINE t == InsertAt(s, n, ch)
  <2>1. n \in 1 .. Len(s) /\ s[n] > ch /\ \A k \in 1 .. n - 1 : s[k] < ch
    BY <1>3, <1>a, <1>c, <1>d
  <2>2. AddLetter(s, ch) = t
    BY <1>3, <1>b
  <2>3. t \in Seq(Nat) /\ Len(t) = Len(s) + 1 /\ t[n] = ch
    BY <2>1, InsertFacts
  <2>4. \A k \in 1 .. n - 1 : t[k] = s[k]
    BY <2>1, InsertFacts
  <2>5. \A k \in n .. Len(s) : t[k + 1] = s[k]
    BY <2>1, InsertFacts
  <2> HIDE DEF t
  <2>6. \A k \in n .. Len(s) : s[k] > ch
    BY <1>d, <2>1 DEF Sorted
  <2>7. ASSUME NEW m \in 1 .. Len(t), m > n PROVE t[m] = s[m - 1] /\ m - 1 \in n .. Len(s)
    <3>1. m - 1 \in n .. Len(s) /\ (m - 1) + 1 = m
      BY <2>1, <2>3, <2>7
    <3>2. t[(m - 1) + 1] = s[m - 1]
      BY <2>5, <3>1
    <3> QED BY <3>1, <3>2
  <2>8. Sorted(t)
    <3> SUFFICES ASSUME NEW m \in 1 .. Len(t), NEW k \in 1 .. m - 1 PROVE t[k] < t[m]
      BY DEF Sorted
    <3>0. k \in 1 .. Len(t) /\ k < m
      BY <2>3
    <3>1. CASE m < n
      <4>1. t[k] = s[k] /\ t[m] = s[m] /\ m \in 1 .. Len(s)
        BY <2>1, <2>4, <3>1
      <4> QED BY <4>1 DEF Sorted
    <3>2. CASE m = n
      BY <2>1, <2>3, <2>4, <3>2
    <3>3. CASE m > n
      <4>1. t[m] = s[m - 1] /\ m - 1 \in n .. Len(s)
        BY <2>7, <3>3
      <4>2. CASE k < n
        <5>1. t[k] = s[k] /\ s[k] < ch /\ k \in 1 .. Len(s)
          BY <2>1, <2>4, <4>2
        <5>2. s[m - 1] > ch /\ m - 1 \in 1 .. Len(s)
          BY <2>1, <2>6, <4>1
        <5> QED BY <1>d, <4>1, <5>1, <5>2
      <4>3. CASE k = n
        BY <2>3, <2>6, <4>1, <4>3
      <4>4. CASE k > n
        <5>1. t[k] = s[k - 1] /\ k - 1 \in 1 .. (m - 1) - 1 /\ m - 1 \in 1 .. Len(s)
          BY <2>1, <2>3, <2>7, <3>0, <4>1, <4>4
        <5> QED BY <4>1, <5>1 DEF Sorted
      <4> QED BY <2>1, <3>0, <4>2, <4>3, <4>4
    <3> QED BY <2>1, <2>3, <3>1, <3>2, <3>3
  <2>9. ASSUME NEW c \in Nat PROVE In(t, c) <=> c = ch \/ In(s, c)
    <3>1. ASSUME NEW k \in 1 .. Len(t), t[k] = c PROVE c = ch \/ In(s, c)
      <4>2. CASE k < n
        <5>1. k \in 1 .. Len(s) /\ s[k] = c
          BY <2>1, <2>4, <3>1, <4>2, SMTT(30)
        <5> QED BY <5>1 DEF In
      <4>3. CASE k = n
        BY <2>3, <3>1, <4>3
      <4>4. CASE k > n
        <5>1. k - 1 \in 1 .. Len(s) /\ s[k - 1] = c
          BY <2>1, <2>7, <3>1, <4>4
        <5> QED BY <5>1 DEF In
      <4> QED BY <2>1, <2>3, <4>2, <4>3, <4>4
    <3>2. ASSUME NEW k \in 1 .. Len(s), s[k] = c PROVE In(t, c)
      <4>1. CASE k < n
        <5>1. k \in 1 .. Len(t) /\ t[k] = c
          BY <2>1, <2>3, <2>4, <3>2, <4>1, SMTT(30)
        <5> QED BY <5>1 DEF In
      <4>2. CASE k >= n
        <5>1. k + 1 \in 1 .. Len(t) /\ k \in n .. Len(s)
          BY <2>1, <2>3, <4>2
        <5>2. t[k + 1] = c
          BY <2>5, <3>2, <5>1
        <5> QED BY <5>1, <5>2 DEF In
      <4> QED BY <2>1, <4>1, <4>2
    <3>3. n \in 1 .. Len(t)
      BY <2>1, <2>3
    <3>4. c = ch => In(t, c)
      BY <2>3, <3>3 DEF In
    <3> QED BY <3>1, <3>2, <3>4 DEF In
  <2> QED BY <2>2, <2>3, <2>8, <2>9
<1> QED BY <1>1, <1>2, <1>3
-----------------------------------------------------------------------------
(***************************************************************************)
(* The tree of letters: the way to a node is in it, a list is sorted, and  *)
(* holds the letters of the nodes below, all of them.                      *)
(***************************************************************************)
Trie(ch) ==
  /\ DOMAIN ch \subseteq Seq(Nat) /\ <<>> \in DOMAIN ch
  /\ \A q \in DOMAIN ch : \A n \in 0 .. Len(q) : SubSeq(q, 1, n) \in DOMAIN ch
  /\ \A q \in DOMAIN ch : ch[q] \in Seq(Nat) /\ Sorted(ch[q])
  /\ \A q \in DOMAIN ch, c \in Nat : In(ch[q], c) <=> Append(q, c) \in DOMAIN ch

LEMMA RootTrie == Trie([p \in {<<>>} |-> <<>>])
<1> DEFINE ch == [p \in {<<>>} |-> <<>>]
<1>1. DOMAIN ch = {<<>>} /\ ch[<<>>] = <<>>
  OBVIOUS
<1>2. \A n \in 0 .. Len(<<>>) : SubSeq(<<>>, 1, n) = <<>>
  OBVIOUS
<1>3. \A c \in Nat : Append(<<>>, c) # <<>>
  OBVIOUS
<1>4. Sorted(<<>>) /\ \A c \in Nat : ~In(<<>>, c)
  BY DEF Sorted, In
<1> HIDE DEF ch
<1>5. <<>> \in Seq(Nat)
  OBVIOUS
<1> QED BY <1>1, <1>2, <1>3, <1>4, <1>5 DEF Trie, ch

LEMMA AppendFacts ==
  ASSUME NEW p \in Seq(Nat), NEW c \in Nat
  PROVE  /\ Append(p, c) \in Seq(Nat) /\ Len(Append(p, c)) = Len(p) + 1
         /\ \A n \in 0 .. Len(p) : SubSeq(Append(p, c), 1, n) = SubSeq(p, 1, n)
         /\ SubSeq(Append(p, c), 1, Len(p) + 1) = Append(p, c)
         /\ SubSeq(p, 1, Len(p)) = p
         /\ \A r \in Seq(Nat), d \in Nat : Append(r, d) = Append(p, c) <=> r = p /\ d = c
<1> DEFINE q == Append(p, c)
<1>1. q \in Seq(Nat) /\ Len(q) = Len(p) + 1 /\ q[Len(p) + 1] = c /\ \A k \in 1 .. Len(p) : q[k] = p[k]
  OBVIOUS
<1>2. ASSUME NEW n \in 0 .. Len(p) PROVE SubSeq(q, 1, n) = SubSeq(p, 1, n)
  <2> HIDE DEF q
  <2>1. n \in Nat /\ n <= Len(p) /\ Len(p) \in Nat
    OBVIOUS
  <2>2. SubSeq(p, 1, n) \in Seq(Nat) /\ Len(SubSeq(p, 1, n)) = n /\ \A k \in 1 .. n : SubSeq(p, 1, n)[k] = p[k]
    BY <2>1
  <2>3. SubSeq(q, 1, n) \in Seq(Nat) /\ Len(SubSeq(q, 1, n)) = n /\ \A k \in 1 .. n : SubSeq(q, 1, n)[k] = q[k]
    BY <1>1, <2>1
  <2>4. \A k \in 1 .. n : SubSeq(q, 1, n)[k] = SubSeq(p, 1, n)[k]
    BY <1>1, <2>1, <2>2, <2>3
  <2> QED BY <2>2, <2>3, <2>4, SeqEqual
<1>3. SubSeq(q, 1, Len(p) + 1) = q
  <2> HIDE DEF q
  <2> QED BY <1>1
<1>4. SubSeq(p, 1, Len(p)) = p
  OBVIOUS
<1>5. ASSUME NEW r \in Seq(Nat), NEW d \in Nat, Append(r, d) = q PROVE r = p /\ d = c
  <2>1. /\ Len(Append(r, d)) = Len(r) + 1 /\ Append(r, d)[Len(r) + 1] = d
        /\ \A k \in 1 .. Len(r) : Append(r, d)[k] = r[k]
    OBVIOUS
  <2> HIDE DEF q
  <2>2. Len(r) = Len(p)
    BY <1>1, <1>5, <2>1
  <2>3. d = c /\ \A k \in 1 .. Len(p) : r[k] = p[k]
    BY <1>1, <1>5, <2>1, <2>2
  <2> QED BY <2>2, <2>3, SeqEqual
<1> QED BY <1>1, <1>2, <1>3, <1>4, <1>5

(* A new letter, or one that is there, below a node that is there. *)
LEMMA InsertedTrie ==
  ASSUME NEW ch, Trie(ch), NEW p \in DOMAIN ch, NEW c \in Nat,
         NEW new, new = WithNode([ch EXCEPT ![p] = AddLetter(@, c)], Append(p, c))
  PROVE  Trie(new) /\ DOMAIN new = DOMAIN ch \union {Append(p, c)}
<1> DEFINE q == Append(p, c)
           D == DOMAIN ch
           E == DOMAIN new
<1>1. /\ E = D \union {q}
      /\ \A r \in D : r # p => new[r] = ch[r]
      /\ new[p] = AddLetter(ch[p], c)
      /\ q \notin D => new[q] = <<>>
  BY DEF WithNode
<1>2. D \subseteq Seq(Nat) /\ p \in Seq(Nat) /\ ch[p] \in Seq(Nat) /\ Sorted(ch[p])
  BY DEF Trie
<1>3. /\ q \in Seq(Nat) /\ Len(q) = Len(p) + 1 /\ SubSeq(q, 1, Len(p) + 1) = q
      /\ \A n \in 0 .. Len(p) : SubSeq(q, 1, n) = SubSeq(p, 1, n)
      /\ \A r \in Seq(Nat), d \in Nat : Append(r, d) = q <=> r = p /\ d = c
  BY <1>2, AppendFacts
<1>4. /\ AddLetter(ch[p], c) \in Seq(Nat) /\ Sorted(AddLetter(ch[p], c))
      /\ \A d \in Nat : In(AddLetter(ch[p], c), d) <=> d = c \/ In(ch[p], d)
  BY <1>2, AddLetterFacts
<1>5. <<>> \in Seq(Nat) /\ Sorted(<<>>) /\ \A d \in Nat : ~In(<<>>, d)
  BY DEF Sorted, In
<1> HIDE DEF q
<1>6. E \subseteq Seq(Nat) /\ <<>> \in E
  BY <1>1, <1>2, <1>3 DEF Trie
<1>7. ASSUME NEW r \in E, NEW n \in 0 .. Len(r) PROVE SubSeq(r, 1, n) \in E
  <2>1. CASE r \in D
    BY <1>1, <2>1 DEF Trie
  <2>2. CASE r = q /\ n \in 0 .. Len(p)
    <3>1. SubSeq(r, 1, n) = SubSeq(p, 1, n) /\ SubSeq(p, 1, n) \in D
      BY <1>3, <2>2 DEF Trie
    <3> QED BY <1>1, <3>1
  <2>3. CASE r = q /\ n = Len(p) + 1
    BY <1>1, <1>3, <2>3
  <2>4. r = q => n \in 0 .. Len(p) \/ n = Len(p) + 1
    BY <1>2, <1>3
  <2> QED BY <1>1, <2>1, <2>2, <2>3, <2>4
<1>8. ASSUME NEW r \in E PROVE new[r] \in Seq(Nat) /\ Sorted(new[r])
  <2>1. CASE r \in D /\ r # p
    BY <1>1, <2>1 DEF Trie
  <2>2. CASE r = p
    BY <1>1, <1>4, <2>2
  <2>3. CASE r = q /\ r \notin D
    BY <1>1, <1>5, <2>3
  <2> QED BY <1>1, <2>1, <2>2, <2>3
<1>9. ASSUME NEW r \in E, NEW d \in Nat PROVE In(new[r], d) <=> Append(r, d) \in E
  <2>0. r \in Seq(Nat)
    BY <1>6
  <2>1. CASE r \in D /\ r # p
    <3>1. new[r] = ch[r] /\ Append(r, d) # q
      BY <1>1, <1>3, <2>0, <2>1
    <3>2. In(ch[r], d) <=> Append(r, d) \in D
      BY <2>1 DEF Trie
    <3> QED BY <1>1, <3>1, <3>2
  <2>2. CASE r = p
    <3>1. Append(r, d) = q <=> d = c
      BY <1>3, <2>0, <2>2
    <3>2. In(ch[p], d) <=> Append(p, d) \in D
      BY DEF Trie
    <3> QED BY <1>1, <1>4, <2>2, <3>1, <3>2
  <2>3. CASE r = q /\ r \notin D
    <3>1. ~In(new[r], d)
      BY <1>1, <1>5, <2>3
    <3>2. /\ Len(Append(r, d)) = Len(r) + 1
          /\ SubSeq(Append(r, d), 1, Len(r)) = SubSeq(r, 1, Len(r)) /\ SubSeq(r, 1, Len(r)) = r
      BY <2>0, AppendFacts
    <3>3. Append(r, d) # q
      BY <1>2, <1>3, <2>3, <3>2
    <3>4. Append(r, d) \notin D
      <4>1. SUFFICES ASSUME Append(r, d) \in D PROVE FALSE
        OBVIOUS
      <4>2. Len(r) \in 0 .. Len(Append(r, d))
        BY <2>0, <3>2
      <4>3. SubSeq(Append(r, d), 1, Len(r)) \in D
        BY <4>1, <4>2 DEF Trie
      <4> QED BY <2>3, <3>2, <4>3
    <3> QED BY <1>1, <3>1, <3>3, <3>4
  <2> QED BY <1>1, <2>1, <2>2, <2>3
<1> QED BY <1>1, <1>6, <1>7, <1>8, <1>9 DEF Trie, q

(* The beginnings of a word, letter by letter. *)
LEMMA OneLetterMore ==
  ASSUME NEW q \in Seq(Nat), NEW k \in 1 .. Len(q)
  PROVE  q[k] \in Nat /\ Append(SubSeq(q, 1, k - 1), q[k]) = SubSeq(q, 1, k)
<1>1. k \in Nat /\ 1 <= k /\ k <= Len(q) /\ Len(q) \in Nat /\ q[k] \in Nat
  OBVIOUS
<1> DEFINE a == SubSeq(q, 1, k - 1)
           b == SubSeq(q, 1, k)
           t == Append(a, q[k])
<1>2. a \in Seq(Nat) /\ Len(a) = k - 1 /\ \A n \in 1 .. k - 1 : a[n] = q[n]
  BY <1>1
<1>3. b \in Seq(Nat) /\ Len(b) = k /\ \A n \in 1 .. k : b[n] = q[n]
  BY <1>1
<1> HIDE DEF a, b
<1>4. t \in Seq(Nat) /\ Len(t) = k /\ t[k] = q[k] /\ \A n \in 1 .. k - 1 : t[n] = a[n]
  BY <1>1, <1>2
<1> HIDE DEF t
<1>5. t = b
  <2>1. ASSUME NEW n \in 1 .. k PROVE t[n] = b[n]
    <3>1. n = k \/ n \in 1 .. k - 1
      BY <1>1
    <3> QED BY <1>1, <1>2, <1>3, <1>4, <3>1
  <2> QED BY <1>3, <1>4, <2>1, SeqEqual
<1> QED BY <1>1, <1>5 DEF t, a, b

(* The search for a word ends at its node, if there is one. *)
LEMMA SearchFacts ==
  ASSUME NEW ch, Trie(ch), NEW q \in Seq(Nat)
  PROVE  (\A k \in 1 .. Len(q) : SubSeq(q, 1, k - 1) \in DOMAIN ch /\ Has(ch[SubSeq(q, 1, k - 1)], q[k]))
           <=> q \in DOMAIN ch
<1>1. \A p \in DOMAIN ch, c \in Nat : Has(ch[p], c) <=> Append(p, c) \in DOMAIN ch
  <2> SUFFICES ASSUME NEW p \in DOMAIN ch, NEW c \in Nat PROVE Has(ch[p], c) <=> Append(p, c) \in DOMAIN ch
    OBVIOUS
  <2>1. ch[p] \in Seq(Nat) /\ Sorted(ch[p]) /\ (In(ch[p], c) <=> Append(p, c) \in DOMAIN ch)
    BY DEF Trie
  <2>2. Has(ch[p], c) <=> In(ch[p], c)
    BY <2>1, HasFacts
  <2> QED BY <2>1, <2>2
<1>2. \A k \in 1 .. Len(q) : q[k] \in Nat /\ Append(SubSeq(q, 1, k - 1), q[k]) = SubSeq(q, 1, k)
  BY OneLetterMore
<1>3. ASSUME q \in DOMAIN ch, NEW k \in 1 .. Len(q)
      PROVE  SubSeq(q, 1, k - 1) \in DOMAIN ch /\ Has(ch[SubSeq(q, 1, k - 1)], q[k])
  <2>1. k - 1 \in 0 .. Len(q) /\ k \in 0 .. Len(q)
    OBVIOUS
  <2>2. SubSeq(q, 1, k - 1) \in DOMAIN ch /\ SubSeq(q, 1, k) \in DOMAIN ch
    BY <1>3, <2>1 DEF Trie
  <2> QED BY <1>1, <1>2, <2>2
<1>4. ASSUME \A k \in 1 .. Len(q) : SubSeq(q, 1, k - 1) \in DOMAIN ch /\ Has(ch[SubSeq(q, 1, k - 1)], q[k])
      PROVE  q \in DOMAIN ch
  <2>1. CASE q = <<>>
    BY <2>1 DEF Trie
  <2>2. CASE q # <<>>
    <3>1. Len(q) \in 1 .. Len(q)
      BY <2>2
    <3>2. SubSeq(q, 1, Len(q) - 1) \in DOMAIN ch /\ Has(ch[SubSeq(q, 1, Len(q) - 1)], q[Len(q)])
      BY <1>4, <3>1
    <3>3. SubSeq(q, 1, Len(q)) \in DOMAIN ch
      BY <1>1, <1>2, <3>1, <3>2
    <3>4. SubSeq(q, 1, Len(q)) = q
      OBVIOUS
    <3> QED BY <3>3, <3>4
  <2> QED BY <2>1, <2>2
<1> QED BY <1>3, <1>4
-----------------------------------------------------------------------------
(* The files: what the assumption says of them. *)
LEMMA CorpusFacts ==
  ASSUME NEW c \in Corpora
  PROVE  /\ Len(c) \in Nat
         /\ \A d \in 1 .. Len(c) : c[d].id \in Nat \X Nat /\ c[d].path \in Nat /\ Len(c[d].lines) \in Nat
         /\ \A d \in 1 .. Len(c) : \A l \in 1 .. Len(c[d].lines) :
              c[d].lines[l] \in Seq(Seq(Nat)) /\ Len(c[d].lines[l]) \in Nat
         /\ \A d \in 1 .. Len(c) : \A l \in 1 .. Len(c[d].lines) : \A k \in 1 .. Len(c[d].lines[l]) :
              c[d].lines[l][k] \in Seq(Nat) \ {<<>>}
         /\ \A d, e \in 1 .. Len(c) : c[d].id = c[e].id => d = e
         /\ \A d, e \in 1 .. Len(c) : c[d].path = c[e].path => d = e
<1>1. c \in Seq(FileType)
  BY IndexAssumption
<1>2. ASSUME NEW d \in 1 .. Len(c)
      PROVE  c[d].id \in Nat \X Nat /\ c[d].path \in Nat /\ c[d].lines \in Seq(Seq(Seq(Nat)))
  <2>1. c[d] \in FileType
    BY <1>1
  <2> QED BY <2>1 DEF FileType
<1>3. ASSUME NEW d \in 1 .. Len(c), NEW l \in 1 .. Len(c[d].lines) PROVE c[d].lines[l] \in Seq(Seq(Nat))
  BY <1>2
<1>4. ASSUME NEW d \in 1 .. Len(c), NEW l \in 1 .. Len(c[d].lines), NEW k \in 1 .. Len(c[d].lines[l])
      PROVE  c[d].lines[l][k] \in Seq(Nat) \ {<<>>}
  <2>1. c[d].lines[l][k] \in Seq(Nat)
    BY <1>3
  <2>2. c[d].lines[l][k] # <<>>
    BY IndexAssumption
  <2> QED BY <2>1, <2>2
<1>5. \A d, e \in 1 .. Len(c) : c[d].path = c[e].path \/ c[d].id = c[e].id => d = e
  BY IndexAssumption
<1>6. Len(c) \in Nat /\ \A d \in 1 .. Len(c) : Len(c[d].lines) \in Nat
  BY <1>1, <1>2
<1>7. \A d \in 1 .. Len(c) : \A l \in 1 .. Len(c[d].lines) : Len(c[d].lines[l]) \in Nat
  BY <1>3
<1> QED BY <1>2, <1>3, <1>4, <1>5, <1>6, <1>7, Zenon

PlacesIn(c) ==
  UNION {UNION {{<<d, l, k>> : k \in 1 .. Len(c[d].lines[l])} : l \in 1 .. Len(c[d].lines)} : d \in 1 .. Len(c)}

WordIn(c, o) == c[o[1]].lines[o[2]][o[3]]

(* the words outside of tags before a place *)
Passed(c, f, l, w) ==
  {o \in PlacesIn(c) : /\ o[1] < f \/ (o[1] = f /\ (o[2] < l \/ (o[2] = l /\ o[3] < w)))
                       /\ Outside(c[o[1]].lines[o[2]], o[3])}

LEMMA OccurrencesArePassed == Occurrences = Passed(corpus, txt_file, line, word)
  BY DEF Occurrences, Passed, Places, PlacesIn, Earlier

IsPlace(c, d, l, k) ==
  d \in 1 .. Len(c) /\ l \in 1 .. Len(c[d].lines) /\ k \in 1 .. Len(c[d].lines[l])

LEMMA InPlaces ==
  ASSUME NEW c, NEW o
  PROVE  o \in PlacesIn(c) <=> \E d, l, k \in Nat : IsPlace(c, d, l, k) /\ o = <<d, l, k>>
<1> DEFINE OfLine(d, l) == {<<d, l, k>> : k \in 1 .. Len(c[d].lines[l])}
           OfFile(d)    == UNION {OfLine(d, l) : l \in 1 .. Len(c[d].lines)}
<1>1. PlacesIn(c) = UNION {OfFile(d) : d \in 1 .. Len(c)}
  BY DEF PlacesIn
<1>2. ASSUME NEW d, NEW l PROVE o \in OfLine(d, l) <=> \E k \in 1 .. Len(c[d].lines[l]) : o = <<d, l, k>>
  OBVIOUS
<1> HIDE DEF OfLine
<1>3. ASSUME NEW d PROVE o \in OfFile(d) <=> \E l \in 1 .. Len(c[d].lines) : o \in OfLine(d, l)
  OBVIOUS
<1> HIDE DEF OfFile
<1>4. o \in PlacesIn(c) <=> \E d \in 1 .. Len(c) : o \in OfFile(d)
  BY <1>1
<1>5. ASSUME o \in PlacesIn(c) PROVE \E d, l, k \in Nat : IsPlace(c, d, l, k) /\ o = <<d, l, k>>
  <2>1. PICK d \in 1 .. Len(c) : o \in OfFile(d)
    BY <1>4, <1>5
  <2>2. PICK l \in 1 .. Len(c[d].lines) : o \in OfLine(d, l)
    BY <1>3, <2>1
  <2>3. PICK k \in 1 .. Len(c[d].lines[l]) : o = <<d, l, k>>
    BY <1>2, <2>2
  <2>4. d \in Nat /\ l \in Nat /\ k \in Nat /\ IsPlace(c, d, l, k)
    BY DEF IsPlace
  <2> QED BY <2>3, <2>4
<1>6. ASSUME NEW d \in Nat, NEW l \in Nat, NEW k \in Nat, IsPlace(c, d, l, k), o = <<d, l, k>>
      PROVE  o \in PlacesIn(c)
  <2>1. d \in 1 .. Len(c) /\ l \in 1 .. Len(c[d].lines) /\ k \in 1 .. Len(c[d].lines[l])
    BY <1>6 DEF IsPlace
  <2>2. o \in OfLine(d, l)
    BY <1>2, <1>6, <2>1
  <2>3. o \in OfFile(d)
    BY <1>3, <2>1, <2>2
  <2> QED BY <1>4, <2>1, <2>3
<1> QED BY <1>5, <1>6

LEMMA PassedFacts ==
  ASSUME NEW c \in Corpora, NEW f, NEW l, NEW w, NEW o
  PROVE  o \in Passed(c, f, l, w) <=>
           \E d, m, k \in Nat :
             /\ IsPlace(c, d, m, k) /\ o = <<d, m, k>> /\ Outside(c[d].lines[m], k)
             /\ d < f \/ (d = f /\ (m < l \/ (m = l /\ k < w)))
<1>1. ASSUME o \in Passed(c, f, l, w)
      PROVE  \E d, m, k \in Nat :
             /\ IsPlace(c, d, m, k) /\ o = <<d, m, k>> /\ Outside(c[d].lines[m], k)
             /\ d < f \/ (d = f /\ (m < l \/ (m = l /\ k < w)))
  <2>1. o \in PlacesIn(c)
    BY <1>1 DEF Passed
  <2>3. PICK d, m, k \in Nat : IsPlace(c, d, m, k) /\ o = <<d, m, k>>
    BY <2>1, InPlaces
  <2>4. /\ o[1] < f \/ (o[1] = f /\ (o[2] < l \/ (o[2] = l /\ o[3] < w)))
        /\ Outside(c[o[1]].lines[o[2]], o[3])
    BY <1>1 DEF Passed
  <2>5. o[1] = d /\ o[2] = m /\ o[3] = k
    BY <2>3
  <2> QED BY <2>3, <2>4, <2>5
<1>2. ASSUME NEW d \in Nat, NEW m \in Nat, NEW k \in Nat, IsPlace(c, d, m, k),
             o = <<d, m, k>>, Outside(c[d].lines[m], k),
             d < f \/ (d = f /\ (m < l \/ (m = l /\ k < w)))
      PROVE  o \in Passed(c, f, l, w)
  <2>1. o \in PlacesIn(c)
    BY <1>2, InPlaces
  <2>2. o[1] = d /\ o[2] = m /\ o[3] = k
    BY <1>2
  <2> QED BY <1>2, <2>1, <2>2 DEF Passed
<1> QED BY <1>1, <1>2

LEMMA WordType ==
  ASSUME NEW c \in Corpora, NEW f, NEW l, NEW w, IsPlace(c, f, l, w)
  PROVE  c[f].lines[l][w] \in Seq(Nat)
  BY CorpusFacts DEF IsPlace

LEMMA NothingPassed ==
  ASSUME NEW c \in Corpora
  PROVE  Passed(c, 1, 1, 1) = {}
<1>1. \A d, m, k \in Nat : IsPlace(c, d, m, k) => ~(d < 1 \/ (d = 1 /\ (m < 1 \/ (m = 1 /\ k < 1))))
  BY CorpusFacts DEF IsPlace
<1> QED BY <1>1, PassedFacts

LEMMA PassedPlace ==
  ASSUME NEW c \in Corpora, NEW f, NEW l, NEW w, NEW o \in Passed(c, f, l, w)
  PROVE  \E d, m, k \in Nat :
           /\ IsPlace(c, d, m, k) /\ o = <<d, m, k>> /\ Outside(c[d].lines[m], k)
           /\ d < f \/ (d = f /\ (m < l \/ (m = l /\ k < w)))
  BY PassedFacts

LEMMA WordPassed ==
  ASSUME NEW c \in Corpora, NEW f, NEW l, NEW w, IsPlace(c, f, l, w)
  PROVE  /\ Outside(c[f].lines[l], w) =>
              \A o : o \in Passed(c, f, l, w + 1) <=> o \in Passed(c, f, l, w) \/ o = <<f, l, w>>
         /\ ~Outside(c[f].lines[l], w) =>
              \A o : o \in Passed(c, f, l, w + 1) <=> o \in Passed(c, f, l, w)
         /\ <<f, l, w>> \notin Passed(c, f, l, w)
<1>1. f \in Nat /\ l \in Nat /\ w \in Nat
  BY CorpusFacts DEF IsPlace
<1>2. ASSUME NEW o \in Passed(c, f, l, w) PROVE o \in Passed(c, f, l, w + 1)
  <2>1. PICK d, m, k \in Nat :
             /\ IsPlace(c, d, m, k) /\ o = <<d, m, k>> /\ Outside(c[d].lines[m], k)
             /\ d < f \/ (d = f /\ (m < l \/ (m = l /\ k < w)))
    BY PassedPlace
  <2>2. k < w => k < w + 1
    BY <1>1
  <2> QED BY <2>1, <2>2, PassedFacts
<1>3. ASSUME NEW o \in Passed(c, f, l, w + 1)
      PROVE  o \in Passed(c, f, l, w) \/ (o = <<f, l, w>> /\ Outside(c[f].lines[l], w))
  <2>1. PICK d, m, k \in Nat :
             /\ IsPlace(c, d, m, k) /\ o = <<d, m, k>> /\ Outside(c[d].lines[m], k)
             /\ d < f \/ (d = f /\ (m < l \/ (m = l /\ k < w + 1)))
    <3>1. PICK n : n = w + 1
      OBVIOUS
    <3>2. o \in Passed(c, f, l, n)
      BY <1>3, <3>1
    <3>3. \E d, m, k \in Nat :
             /\ IsPlace(c, d, m, k) /\ o = <<d, m, k>> /\ Outside(c[d].lines[m], k)
             /\ d < f \/ (d = f /\ (m < l \/ (m = l /\ k < n)))
      BY <3>2, PassedPlace
    <3> QED BY <3>1, <3>3
  <2>2. CASE d = f /\ m = l /\ k = w
    BY <2>1, <2>2
  <2>3. CASE ~(d = f /\ m = l /\ k = w)
    <3>1. m = l /\ d = f /\ k < w + 1 => k < w
      BY <1>1, <2>3
    <3> QED BY <2>1, <3>1, PassedFacts
  <2> QED BY <2>2, <2>3
<1>4. Outside(c[f].lines[l], w) => <<f, l, w>> \in Passed(c, f, l, w + 1)
  <2>1. w < w + 1 /\ IsPlace(c, f, l, w)
    BY <1>1
  <2> QED BY <1>1, <2>1, PassedFacts
<1>5. <<f, l, w>> \notin Passed(c, f, l, w)
  <2>1. SUFFICES ASSUME <<f, l, w>> \in Passed(c, f, l, w) PROVE FALSE
    OBVIOUS
  <2>2. PICK d, m, k \in Nat :
             /\ IsPlace(c, d, m, k) /\ <<f, l, w>> = <<d, m, k>>
             /\ d < f \/ (d = f /\ (m < l \/ (m = l /\ k < w)))
    BY <2>1, PassedPlace
  <2> QED BY <1>1, <2>2
<1> QED BY <1>2, <1>3, <1>4, <1>5

LEMMA LinePassed ==
  ASSUME NEW c \in Corpora, NEW f \in 1 .. Len(c), NEW l \in 1 .. Len(c[f].lines),
         NEW w \in Nat, w > Len(c[f].lines[l])
  PROVE  Passed(c, f, l + 1, 1) = Passed(c, f, l, w)
<1>1. \A d, m, k \in Nat : IsPlace(c, d, m, k) =>
        (d = f /\ m = l => k < w) /\ k >= 1
  BY CorpusFacts DEF IsPlace
<1>2. \A d, m, k \in Nat : IsPlace(c, d, m, k) =>
        ((d < f \/ (d = f /\ (m < l + 1 \/ (m = l + 1 /\ k < 1)))) <=>
        (d < f \/ (d = f /\ (m < l \/ (m = l /\ k < w)))))
  BY <1>1
<1>3. ASSUME NEW o \in Passed(c, f, l + 1, 1) PROVE o \in Passed(c, f, l, w)
  <2>1. PICK d, m, k \in Nat :
             /\ IsPlace(c, d, m, k) /\ o = <<d, m, k>> /\ Outside(c[d].lines[m], k)
             /\ d < f \/ (d = f /\ (m < l + 1 \/ (m = l + 1 /\ k < 1)))
    BY PassedPlace, SMTT(30)
  <2>2. d < f \/ (d = f /\ (m < l \/ (m = l /\ k < w)))
    BY <1>2, <2>1
  <2> QED BY <2>1, <2>2, PassedFacts
<1>4. ASSUME NEW o \in Passed(c, f, l, w) PROVE o \in Passed(c, f, l + 1, 1)
  <2>1. PICK d, m, k \in Nat :
             /\ IsPlace(c, d, m, k) /\ o = <<d, m, k>> /\ Outside(c[d].lines[m], k)
             /\ d < f \/ (d = f /\ (m < l \/ (m = l /\ k < w)))
    BY PassedPlace, SMTT(30)
  <2>2. d < f \/ (d = f /\ (m < l + 1 \/ (m = l + 1 /\ k < 1)))
    BY <1>2, <2>1
  <2> QED BY <2>1, <2>2, PassedFacts
<1> QED BY <1>3, <1>4

LEMMA FilePassed ==
  ASSUME NEW c \in Corpora, NEW f \in 1 .. Len(c), NEW l \in Nat, l > Len(c[f].lines), NEW w
  PROVE  Passed(c, f + 1, 1, 1) = Passed(c, f, l, w)
<1>1. \A d, m, k \in Nat : IsPlace(c, d, m, k) =>
        (d = f => m < l) /\ m >= 1 /\ k >= 1
  BY CorpusFacts DEF IsPlace
<1>2. \A d, m, k \in Nat : IsPlace(c, d, m, k) =>
        ((d < f + 1 \/ (d = f + 1 /\ (m < 1 \/ (m = 1 /\ k < 1)))) <=>
        (d < f \/ (d = f /\ (m < l \/ (m = l /\ k < w)))))
  BY <1>1
<1>3. ASSUME NEW o \in Passed(c, f + 1, 1, 1) PROVE o \in Passed(c, f, l, w)
  <2>1. PICK d, m, k \in Nat :
             /\ IsPlace(c, d, m, k) /\ o = <<d, m, k>> /\ Outside(c[d].lines[m], k)
             /\ d < f + 1 \/ (d = f + 1 /\ (m < 1 \/ (m = 1 /\ k < 1)))
    BY PassedPlace, SMTT(30)
  <2>2. d < f \/ (d = f /\ (m < l \/ (m = l /\ k < w)))
    BY <1>2, <2>1
  <2> QED BY <2>1, <2>2, PassedFacts
<1>4. ASSUME NEW o \in Passed(c, f, l, w) PROVE o \in Passed(c, f + 1, 1, 1)
  <2>1. PICK d, m, k \in Nat :
             /\ IsPlace(c, d, m, k) /\ o = <<d, m, k>> /\ Outside(c[d].lines[m], k)
             /\ d < f \/ (d = f /\ (m < l \/ (m = l /\ k < w)))
    BY PassedPlace, SMTT(30)
  <2>2. d < f + 1 \/ (d = f + 1 /\ (m < 1 \/ (m = 1 /\ k < 1)))
    BY <1>2, <2>1
  <2> QED BY <2>1, <2>2, PassedFacts
<1> QED BY <1>3, <1>4

LEMMA TagStep ==
  ASSUME NEW ws \in Seq(Seq(Nat)), NEW k \in 1 .. Len(ws)
  PROVE  /\ InTag(ws, k + 1) <=> ~Close(ws[k]) /\ (Open(ws[k]) \/ InTag(ws, k))
         /\ ~InTag(ws, 1)
<1> HIDE DEF Open, Close
<1>1. ASSUME InTag(ws, k + 1) PROVE ~Close(ws[k]) /\ (Open(ws[k]) \/ InTag(ws, k))
  <2>1. PICK m \in 1 .. k : Open(ws[m]) /\ \A j \in m .. k : ~Close(ws[j])
    BY <1>1 DEF InTag
  <2>2. ~Close(ws[k])
    BY <2>1
  <2>3. m # k => m \in 1 .. k - 1 /\ \A j \in m .. k - 1 : ~Close(ws[j])
    BY <2>1
  <2> QED BY <2>1, <2>2, <2>3 DEF InTag
<1>2. ASSUME ~Close(ws[k]), Open(ws[k]) PROVE InTag(ws, k + 1)
  <2>1. k \in 1 .. (k + 1) - 1 /\ \A j \in k .. (k + 1) - 1 : j = k
    OBVIOUS
  <2> QED BY <1>2, <2>1 DEF InTag
<1>3. ASSUME ~Close(ws[k]), InTag(ws, k) PROVE InTag(ws, k + 1)
  <2>1. PICK m \in 1 .. k - 1 : Open(ws[m]) /\ \A j \in m .. k - 1 : ~Close(ws[j])
    BY <1>3 DEF InTag
  <2>2. m \in 1 .. (k + 1) - 1 /\ \A j \in m .. (k + 1) - 1 : j = k \/ j \in m .. k - 1
    BY <2>1
  <2> QED BY <1>3, <2>1, <2>2 DEF InTag
<1>4. ~InTag(ws, 1)
  BY DEF InTag
<1> QED BY <1>1, <1>2, <1>3, <1>4
-----------------------------------------------------------------------------
(* Posting lists. *)
DocType  == Nat \X Nat
NodeType == [doc : DocType, freq : Nat, lines : Seq(Nat)]

(* The place of a document in a list of records that have a field doc. *)
LEMMA FindFacts ==
  ASSUME NEW R, NEW list \in Seq(R), \A r \in R : r.doc \in DocType, NEW doc \in DocType
  PROVE  /\ Find(list, doc) \in 0 .. Len(list)
         /\ Find(list, doc) = 0 => \A k \in 1 .. Len(list) : list[k].doc # doc
         /\ Find(list, doc) # 0 => list[Find(list, doc)].doc = doc
<1> DEFINE I == {k \in 1 .. Len(list) : SameDoc(list[k].doc, doc)}
<1>1. Find(list, doc) = IF I # {} THEN Min(I) ELSE 0
  BY DEF Find, SelectInSeq
<1>2. ASSUME NEW k \in 1 .. Len(list) PROVE k \in I <=> list[k].doc = doc
  <2>1. list[k].doc \in DocType
    OBVIOUS
  <2>2. PICK d \in DocType : d = list[k].doc
    BY <2>1
  <2>3. SameDoc(d, doc) <=> d = doc
    BY DEF SameDoc, DocType
  <2> QED BY <2>2, <2>3
<1>3. I \subseteq 1 .. Len(list) /\ I \subseteq Nat
  OBVIOUS
<1> HIDE DEF I
<1>4. CASE I = {}
  BY <1>1, <1>2, <1>4
<1>5. CASE I # {}
  <2>1. \E n \in I : \A m \in I : n <= m
    BY <1>3, <1>5, Least
  <2>2. Find(list, doc) \in I
    BY <1>1, <1>5, <2>1, Zenon DEF Min
  <2>3. Find(list, doc) \in 1 .. Len(list)
    BY <1>3, <2>2
  <2>4. list[Find(list, doc)].doc = doc
    BY <1>2, <2>2, <2>3
  <2> QED BY <2>3, <2>4
<1> QED BY <1>4, <1>5

(* update, of the node of a document and of a list, with everything they read *)
Touched(n, l) ==
  [n EXCEPT !.freq = @ + 1, !.lines = IF Last(@) # l THEN Append(@, l) ELSE @]

Updated(list, doc, l) ==
  IF Find(list, doc) = 0 THEN Append(list, [doc |-> doc, freq |-> 1, lines |-> <<l>>])
  ELSE [list EXCEPT ![Find(list, doc)] = Touched(@, l)]

LEMMA UpdateIsUpdated ==
  ASSUME NEW list
  PROVE  Update(list) = Updated(list, corpus[txt_file].id, line)
  BY DEF Update, Updated, UpdateNode, Touched

HitsOf(c, O, q, d) == {o \in O : WordIn(c, o) = q /\ o[1] = d}

NodeOK(c, O, n, q, d) ==
  /\ n.doc = c[d].id
  /\ HitsOf(c, O, q, d) # {} /\ n.freq = Cardinality(HitsOf(c, O, q, d))
  /\ ToSet(n.lines) = {o[2] : o \in HitsOf(c, O, q, d)}
  /\ Sorted(n.lines)

ListOK(c, O, list, q) ==
  /\ list \in Seq(NodeType)
  /\ \A k \in 1 .. Len(list) : \E d \in 1 .. Len(c) : NodeOK(c, O, list[k], q, d)
  /\ \A o \in O : WordIn(c, o) = q => \E k \in 1 .. Len(list) : list[k].doc = c[o[1]].id
  /\ \A m \in 1 .. Len(list) : \A k \in 1 .. m - 1 :
       \E e \in 1 .. Len(c) : \E d \in 1 .. e - 1 : list[k].doc = c[d].id /\ list[m].doc = c[e].id

LEMMA ListIsExact ==
  ASSUME NEW list, NEW q, ListOK(corpus, Occurrences, list, q)
  PROVE  PostingsExact(list, q)
<1>1. \A o : WordAt(o) = WordIn(corpus, o)
  BY DEF WordAt, WordIn
<1>2. \A d : HitsIn(q, d) = HitsOf(corpus, Occurrences, q, d)
  BY <1>1 DEF HitsIn, OccurrencesOf, HitsOf
<1>3. \A n, d : NodeOK(corpus, Occurrences, n, q, d) => NodeExact(n, q, d)
  BY <1>2 DEF NodeOK, NodeExact, Sorted
<1>4. \A o \in OccurrencesOf(q) : o \in Occurrences /\ WordIn(corpus, o) = q
  BY <1>1 DEF OccurrencesOf
<1>5. \A k \in 1 .. Len(list) : \E d \in 1 .. Len(corpus) : NodeExact(list[k], q, d)
  BY <1>3 DEF ListOK
<1>6. \A o \in OccurrencesOf(q) : \E k \in 1 .. Len(list) : list[k].doc = corpus[o[1]].id
  BY <1>4 DEF ListOK
<1> QED BY <1>5, <1>6 DEF ListOK, PostingsExact

LEMMA EmptyList ==
  ASSUME NEW c, NEW O, NEW q, \A o \in O : WordIn(c, o) # q
  PROVE  ListOK(c, O, <<>>, q)
<1>1. <<>> \in Seq(NodeType) /\ Len(<<>>) = 0
  OBVIOUS
<1> QED BY <1>1 DEF ListOK

(* A word more is nothing to the list of another. *)
LEMMA OtherList ==
  ASSUME NEW c, NEW O, NEW x, NEW q, WordIn(c, x) # q, NEW list, ListOK(c, O, list, q)
  PROVE  ListOK(c, O \union {x}, list, q)
<1>1. \A d : HitsOf(c, O \union {x}, q, d) = HitsOf(c, O, q, d)
  BY DEF HitsOf
<1>2. \A n, d : NodeOK(c, O, n, q, d) => NodeOK(c, O \union {x}, n, q, d)
  BY <1>1 DEF NodeOK
<1>3. \A k \in 1 .. Len(list) : \E d \in 1 .. Len(c) : NodeOK(c, O \union {x}, list[k], q, d)
  BY <1>2 DEF ListOK
<1>4. \A o \in O \union {x} : WordIn(c, o) = q => \E k \in 1 .. Len(list) : list[k].doc = c[o[1]].id
  BY DEF ListOK
<1> QED BY <1>3, <1>4 DEF ListOK

(* The word after the words of O, in the file f and the line l. *)
NextIn(c, O, x) ==
  /\ x \notin O /\ IsFiniteSet(O)
  /\ x[1] \in 1 .. Len(c) /\ x[2] \in Nat
  /\ \A o \in O : o[1] \in 1 .. Len(c) /\ o[2] \in Nat /\ (o[1] < x[1] \/ (o[1] = x[1] /\ o[2] <= x[2]))

LEMMA NodeOfOther ==
  ASSUME NEW c, NEW O, NEW x, NEW q, NEW n, NEW d, d # x[1], NodeOK(c, O, n, q, d)
  PROVE  NodeOK(c, O \union {x}, n, q, d)
<1>1. HitsOf(c, O \union {x}, q, d) = HitsOf(c, O, q, d)
  BY DEF HitsOf
<1> QED BY <1>1 DEF NodeOK

LEMMA MoreHits ==
  ASSUME NEW c, NEW O, NEW x, NEW q, NextIn(c, O, x), WordIn(c, x) = q
  PROVE  /\ Cardinality(HitsOf(c, O, q, x[1])) \in Nat
         /\ Cardinality(HitsOf(c, O, q, x[1]) \union {x}) = Cardinality(HitsOf(c, O, q, x[1])) + 1
         /\ \A o \in HitsOf(c, O, q, x[1]) : o[2] \in Nat /\ o[2] <= x[2]
<1> DEFINE H == HitsOf(c, O, q, x[1])
<1>1. HitsOf(c, O \union {x}, q, x[1]) = H \union {x}
  BY DEF HitsOf
<1>2. H \subseteq O /\ x \notin H /\ IsFiniteSet(O)
  BY DEF HitsOf, NextIn
<1>3. \A o \in H : o[2] \in Nat /\ o[2] <= x[2]
  BY DEF HitsOf, NextIn
<1> HIDE DEF H
<1>4. IsFiniteSet(H)
  BY <1>2, FS_Subset
<1>5. Cardinality(H) \in Nat /\ Cardinality(H \union {x}) = Cardinality(H) + 1
  BY <1>2, <1>4, FS_CardinalityType, FS_AddElement
<1> HIDE DEF H
<1> QED BY <1>1, <1>3, <1>5 DEF H

LEMMA NewNode ==
  ASSUME NEW c, NEW O, NEW x, NEW q, NextIn(c, O, x), WordIn(c, x) = q, HitsOf(c, O, q, x[1]) = {},
         NEW n, n = [doc |-> c[x[1]].id, freq |-> 1, lines |-> <<x[2]>>]
  PROVE  NodeOK(c, O \union {x}, n, q, x[1])
<1> DEFINE G == HitsOf(c, O \union {x}, q, x[1])
<1>1. G = {x} /\ Cardinality(G) = 1
  <2>1. G = HitsOf(c, O, q, x[1]) \union {x}
    BY DEF HitsOf
  <2>2. G = {x}
    BY <2>1
  <2> QED BY <2>2, FS_Singleton
<1>2. ToSet(<<x[2]>>) = {x[2]} /\ Sorted(<<x[2]>>)
  <2>1. Len(<<x[2]>>) = 1 /\ <<x[2]>>[1] = x[2] /\ DOMAIN <<x[2]>> = 1 .. 1
    OBVIOUS
  <2> QED BY <2>1 DEF ToSet, Sorted
<1> HIDE DEF G
<1>3. {o[2] : o \in G} = {x[2]} /\ G # {}
  BY <1>1
<1>4. n.doc = c[x[1]].id /\ n.freq = 1 /\ n.lines = <<x[2]>>
  OBVIOUS
<1> QED BY <1>1, <1>2, <1>3, <1>4 DEF NodeOK, G

LEMMA TouchedNode ==
  ASSUME NEW c, NEW O, NEW x, NEW q, NextIn(c, O, x), WordIn(c, x) = q,
         NEW n \in NodeType, NodeOK(c, O, n, q, x[1])
  PROVE  Touched(n, x[2]) \in NodeType /\ Touched(n, x[2]).doc = n.doc
         /\ NodeOK(c, O \union {x}, Touched(n, x[2]), q, x[1])
<1> DEFINE H == HitsOf(c, O, q, x[1])
           G == HitsOf(c, O \union {x}, q, x[1])
           s == n.lines
           l == x[2]
           t == IF Last(s) # l THEN Append(s, l) ELSE s
           m == Touched(n, l)
<1>1. /\ G = H \union {x} /\ Cardinality(H) \in Nat /\ Cardinality(G) = Cardinality(H) + 1
      /\ \A o \in H : o[2] \in Nat /\ o[2] <= l
  <2>1. G = H \union {x}
    BY DEF HitsOf
  <2>2. Cardinality(H) \in Nat
    BY MoreHits
  <2>4. Cardinality(H \union {x}) = Cardinality(H) + 1
    BY MoreHits
  <2>3. \A o \in H : o[2] \in Nat /\ o[2] <= l
    BY DEF HitsOf, NextIn
  <2> QED BY <2>1, <2>2, <2>3, <2>4
<1>2. /\ n.doc \in DocType /\ n.freq \in Nat /\ s \in Seq(Nat)
      /\ m = [doc |-> n.doc, freq |-> n.freq + 1, lines |-> t]
  <2>1. n = [doc |-> n.doc, freq |-> n.freq, lines |-> s]
    BY DEF NodeType
  <2>2. n.doc \in DocType /\ n.freq \in Nat /\ s \in Seq(Nat)
    BY DEF NodeType
  <2>3. m = [n EXCEPT !.freq = n.freq + 1, !.lines = t]
    BY <2>1 DEF Touched
  <2> HIDE DEF t, m, s
  <2>4. m = [doc |-> n.doc, freq |-> n.freq + 1, lines |-> t]
    BY <2>1, <2>3
  <2> QED BY <2>2, <2>4
<1>3. m.doc = n.doc /\ m.freq = n.freq + 1 /\ m.lines = t
  <2> HIDE DEF m, t
  <2> QED BY <1>2
<1>4. /\ n.doc = c[x[1]].id /\ H # {} /\ n.freq = Cardinality(H)
      /\ ToSet(s) = {o[2] : o \in H} /\ Sorted(s)
  BY DEF NodeOK
<1>5. l \in Nat
  BY DEF NextIn
<1> HIDE DEF H, G, m, l, s
<1>6. {o[2] : o \in G} = {o[2] : o \in H} \union {l}
  BY <1>1 DEF l
<1>7. \A k \in 1 .. Len(s) : s[k] \in Nat /\ s[k] <= l
  <2> SUFFICES ASSUME NEW k \in 1 .. Len(s) PROVE s[k] \in Nat /\ s[k] <= l
    OBVIOUS
  <2>1. s[k] \in ToSet(s)
    BY <1>2 DEF ToSet
  <2> QED BY <1>1, <1>4, <2>1
<1>8. Len(s) \in Nat /\ Len(s) > 0
  <2>1. ToSet(s) # {}
    BY <1>4
  <2>2. DOMAIN s = 1 .. Len(s)
    BY <1>2
  <2> QED BY <1>2, <2>1, <2>2 DEF ToSet
<1>9. t \in Seq(Nat) /\ Sorted(t) /\ ToSet(t) = ToSet(s) \union {l}
  <2>1. CASE Last(s) = l
    <3>1. t = s
      BY <2>1
    <3>2. l \in ToSet(s)
      BY <1>2, <1>8, <2>1 DEF ToSet, Last
    <3> QED BY <1>2, <1>4, <3>1, <3>2
  <2>2. CASE Last(s) # l
    <3>1. t = Append(s, l)
      BY <2>2
    <3>2. /\ t \in Seq(Nat) /\ Len(t) = Len(s) + 1 /\ t[Len(s) + 1] = l
          /\ \A k \in 1 .. Len(s) : t[k] = s[k]
      BY <1>2, <1>5, <3>1
    <3>3. s[Len(s)] < l
      BY <1>5, <1>7, <1>8, <2>2 DEF Last
    <3>4. \A k \in 1 .. Len(s) : s[k] < l
      <4> SUFFICES ASSUME NEW k \in 1 .. Len(s) PROVE s[k] < l
        OBVIOUS
      <4>1. CASE k = Len(s)
        BY <3>3, <4>1
      <4>2. CASE k # Len(s)
        <5>1. k \in 1 .. Len(s) - 1 /\ Len(s) \in 1 .. Len(s)
          BY <1>8, <4>2
        <5>2. s[k] < s[Len(s)]
          BY <1>4, <5>1 DEF Sorted
        <5> QED BY <1>5, <1>7, <3>3, <5>1, <5>2
      <4> QED BY <4>1, <4>2
    <3> HIDE DEF t
    <3>5. Sorted(t)
      <4> SUFFICES ASSUME NEW j \in 1 .. Len(t), NEW k \in 1 .. j - 1 PROVE t[k] < t[j]
        BY DEF Sorted
      <4>1. CASE j = Len(s) + 1
        BY <1>8, <3>2, <3>4, <4>1
      <4>2. CASE j # Len(s) + 1
        <5>1. j \in 1 .. Len(s) /\ k \in 1 .. Len(s)
          BY <1>8, <3>2, <4>2
        <5> QED BY <1>4, <3>2, <5>1 DEF Sorted
      <4> QED BY <4>1, <4>2
    <3>6. ToSet(t) = ToSet(s) \union {l}
      <4>1. DOMAIN t = 1 .. Len(s) + 1 /\ DOMAIN s = 1 .. Len(s)
        BY <1>2, <3>2
      <4>2. \A k \in 1 .. Len(s) + 1 : k = Len(s) + 1 \/ k \in 1 .. Len(s)
        BY <1>8
      <4>3. Len(s) + 1 \in 1 .. Len(s) + 1 /\ 1 .. Len(s) \subseteq 1 .. Len(s) + 1
        BY <1>8
      <4>4. \A y \in ToSet(t) : y \in ToSet(s) \union {l}
        BY <3>2, <4>1, <4>2 DEF ToSet
      <4>5. \A y \in ToSet(s) : y \in ToSet(t)
        BY <3>2, <4>1, <4>3 DEF ToSet
      <4>6. l \in ToSet(t)
        BY <3>2, <4>1, <4>3 DEF ToSet
      <4> QED BY <4>4, <4>5, <4>6
    <3> QED BY <3>2, <3>5, <3>6
  <2> QED BY <2>1, <2>2
<1> HIDE DEF t
<1>10. m \in NodeType
  BY <1>2, <1>9 DEF NodeType
<1>11. NodeOK(c, O \union {x}, m, q, x[1])
  <2>1. G # {} /\ m.freq = Cardinality(G)
    BY <1>1, <1>3, <1>4
  <2>2. ToSet(m.lines) = {o[2] : o \in G} /\ Sorted(m.lines)
    BY <1>3, <1>4, <1>6, <1>9
  <2>3. m.doc = c[x[1]].id
    BY <1>3, <1>4
  <2> QED BY <2>1, <2>2, <2>3 DEF NodeOK, G
<1> QED BY <1>3, <1>10, <1>11 DEF m, l

LEMMA UpdatedList ==
  ASSUME NEW c \in Corpora, NEW O, NEW x, NextIn(c, O, x), NEW q, WordIn(c, x) = q,
         NEW list, ListOK(c, O, list, q),
         NEW new, new = Updated(list, c[x[1]].id, x[2])
  PROVE  ListOK(c, O \union {x}, new, q)
<1> DEFINE f == x[1]
           l == x[2]
           doc == c[f].id
           n == Find(list, doc)
           With == O \union {x}
<1>1. /\ \A d \in 1 .. Len(c) : c[d].id \in DocType
      /\ \A d, e \in 1 .. Len(c) : c[d].id = c[e].id => d = e
      /\ Len(c) \in Nat
  BY CorpusFacts DEF DocType
<1>2. /\ x \notin O /\ f \in 1 .. Len(c) /\ l \in Nat
      /\ \A o \in O : o[1] \in 1 .. Len(c) /\ o[1] <= f
  BY <1>1 DEF NextIn
<1>3. /\ list \in Seq(NodeType)
      /\ \A k \in 1 .. Len(list) : \E d \in 1 .. Len(c) : NodeOK(c, O, list[k], q, d)
      /\ \A o \in O : WordIn(c, o) = q => \E k \in 1 .. Len(list) : list[k].doc = c[o[1]].id
      /\ \A m \in 1 .. Len(list) : \A k \in 1 .. m - 1 :
           \E e \in 1 .. Len(c) : \E d \in 1 .. e - 1 : list[k].doc = c[d].id /\ list[m].doc = c[e].id
  BY DEF ListOK
<1>4. doc \in DocType /\ \A r \in NodeType : r.doc \in DocType
  BY <1>1, <1>2 DEF NodeType
<1>5. /\ n \in 0 .. Len(list)
      /\ n = 0 => \A k \in 1 .. Len(list) : list[k].doc # doc
      /\ n # 0 => list[n].doc = doc
  <2> HIDE DEF doc
  <2> QED BY <1>3, <1>4, FindFacts
<1>6. ASSUME NEW k \in 1 .. Len(list), list[k].doc # doc
      PROVE  \E d \in 1 .. Len(c) : d # f /\ NodeOK(c, With, list[k], q, d)
  <2>1. PICK d \in 1 .. Len(c) : NodeOK(c, O, list[k], q, d)
    BY <1>3
  <2>2. d # f
    BY <1>6, <2>1 DEF NodeOK
  <2>3. NodeOK(c, With, list[k], q, d)
    BY <2>1, <2>2, NodeOfOther
  <2> QED BY <2>2, <2>3
<1>7. new = IF n = 0 THEN Append(list, [doc |-> doc, freq |-> 1, lines |-> <<l>>])
            ELSE [list EXCEPT ![n] = Touched(list[n], l)]
  BY DEF Updated
<1>8. CASE n = 0
  <2> DEFINE node == [doc |-> doc, freq |-> 1, lines |-> <<l>>]
  <2>1. HitsOf(c, O, q, f) = {}
    <3>1. SUFFICES ASSUME NEW o \in O, WordIn(c, o) = q, o[1] = f PROVE FALSE
      BY DEF HitsOf
    <3>2. \E k \in 1 .. Len(list) : list[k].doc = c[o[1]].id
      BY <1>3, <3>1
    <3> QED BY <1>5, <1>8, <3>1, <3>2
  <2>2. NodeOK(c, With, node, q, f)
    BY <2>1, NewNode
  <2>3. node \in NodeType /\ node.doc = doc
    <3>1. <<l>> \in Seq(Nat)
      BY <1>2
    <3> QED BY <1>4, <3>1 DEF NodeType
  <2> HIDE DEF node
  <2>4. new = Append(list, node)
    BY <1>7, <1>8 DEF node
  <2>5. /\ new \in Seq(NodeType) /\ Len(new) = Len(list) + 1 /\ Len(list) \in Nat
        /\ new[Len(list) + 1] = node /\ \A k \in 1 .. Len(list) : new[k] = list[k]
    BY <1>3, <2>3, <2>4
  <2>6. ASSUME NEW k \in 1 .. Len(new) PROVE \E d \in 1 .. Len(c) : NodeOK(c, With, new[k], q, d)
    <3>1. CASE k = Len(list) + 1
      BY <1>2, <2>2, <2>5, <3>1
    <3>2. CASE k \in 1 .. Len(list)
      BY <1>5, <1>6, <1>8, <2>5, <3>2
    <3>3. k = Len(list) + 1 \/ k \in 1 .. Len(list)
      BY <2>5
    <3> QED BY <3>1, <3>2, <3>3
  <2>7. ASSUME NEW o \in With, WordIn(c, o) = q PROVE \E k \in 1 .. Len(new) : new[k].doc = c[o[1]].id
    <3>1. CASE o = x
      <4>1. Len(list) + 1 \in 1 .. Len(new) /\ new[Len(list) + 1].doc = c[x[1]].id
        BY <2>3, <2>5
      <4> QED BY <3>1, <4>1
    <3>2. CASE o \in O
      <4>1. PICK k \in 1 .. Len(list) : list[k].doc = c[o[1]].id
        BY <1>3, <2>7, <3>2
      <4>2. k \in 1 .. Len(new) /\ new[k].doc = c[o[1]].id
        BY <2>5, <4>1
      <4> QED BY <4>2
    <3> QED BY <3>1, <3>2
  <2>8. ASSUME NEW m \in 1 .. Len(new), NEW k \in 1 .. m - 1
        PROVE  \E e \in 1 .. Len(c) : \E d \in 1 .. e - 1 : new[k].doc = c[d].id /\ new[m].doc = c[e].id
    <3>1. CASE m = Len(list) + 1
      <4>1. k \in 1 .. Len(list) /\ new[k] = list[k]
        BY <2>5, <3>1
      <4>2. PICK d \in 1 .. Len(c) : NodeOK(c, O, list[k], q, d)
        BY <1>3, <4>1
      <4>3. list[k].doc = c[d].id /\ d # f
        BY <1>5, <1>8, <4>1, <4>2 DEF NodeOK
      <4>4. PICK o \in O : o[1] = d
        BY <4>2 DEF NodeOK, HitsOf
      <4>5. d \in 1 .. f - 1
        BY <1>2, <4>3, <4>4
      <4> QED BY <1>2, <2>3, <2>5, <3>1, <4>1, <4>3, <4>5
    <3>2. CASE m \in 1 .. Len(list)
      <4>1. k \in 1 .. Len(list) /\ new[k] = list[k] /\ new[m] = list[m]
        BY <2>5, <3>2
      <4> QED BY <1>3, <3>2, <4>1
    <3> QED BY <2>5, <3>1, <3>2
  <2> QED BY <2>5, <2>6, <2>7, <2>8 DEF ListOK
<1>9. CASE n # 0
  <2> DEFINE node == Touched(list[n], l)
  <2>1. n \in 1 .. Len(list) /\ list[n] \in NodeType /\ list[n].doc = doc
    BY <1>3, <1>5, <1>9
  <2>2. NodeOK(c, O, list[n], q, f)
    <3>1. PICK d \in 1 .. Len(c) : NodeOK(c, O, list[n], q, d)
      BY <1>3, <2>1
    <3>2. c[d].id = c[f].id
      BY <2>1, <3>1 DEF NodeOK
    <3>3. d = f
      BY <1>1, <1>2, <3>2
    <3> QED BY <3>1, <3>3
  <2>3. node \in NodeType /\ node.doc = list[n].doc /\ NodeOK(c, With, node, q, f)
    <3> DEFINE r == list[n]
    <3>1. r \in NodeType /\ NodeOK(c, O, r, q, x[1])
      BY <2>1, <2>2
    <3>2. /\ Touched(r, x[2]) \in NodeType /\ Touched(r, x[2]).doc = r.doc
          /\ NodeOK(c, O \union {x}, Touched(r, x[2]), q, x[1])
      <4> HIDE DEF r
      <4> QED BY <3>1, TouchedNode, ZenonT(60)
    <3> QED BY <3>2
  <2> HIDE DEF node
  <2>4. new = [list EXCEPT ![n] = node]
    BY <1>7, <1>9 DEF node
  <2>5. /\ new \in Seq(NodeType) /\ Len(new) = Len(list) /\ Len(list) \in Nat
        /\ new[n] = node /\ \A k \in 1 .. Len(list) : k # n => new[k] = list[k]
    BY <1>3, <2>1, <2>3, <2>4
  <2>6. \A k \in 1 .. Len(list) : new[k].doc = list[k].doc
    BY <2>3, <2>5
  <2>7. ASSUME NEW k \in 1 .. Len(new) PROVE \E d \in 1 .. Len(c) : NodeOK(c, With, new[k], q, d)
    <3>1. CASE k = n
      BY <1>2, <2>3, <2>5, <3>1
    <3>2. CASE k # n
      <4>1. list[k].doc # doc
        <5>1. SUFFICES ASSUME list[k].doc = doc PROVE FALSE
          OBVIOUS
        <5>2. ASSUME NEW a \in 1 .. Len(list), NEW b \in 1 .. a - 1 PROVE list[b].doc # list[a].doc
          <6>1. PICK e \in 1 .. Len(c) : \E d \in 1 .. e - 1 : list[b].doc = c[d].id /\ list[a].doc = c[e].id
            BY <1>3
          <6>2. PICK d \in 1 .. e - 1 : list[b].doc = c[d].id
            BY <6>1
          <6>3. d \in 1 .. Len(c) /\ d # e
            BY <1>1, <6>1
          <6> QED BY <1>1, <6>1, <6>2, <6>3
        <5>3. k \in 1 .. Len(list)
          BY <2>5
        <5>4. k \in 1 .. n - 1 \/ n \in 1 .. k - 1
          BY <2>1, <3>2, <5>3
        <5> QED BY <2>1, <5>1, <5>2, <5>3, <5>4
      <4> QED BY <1>6, <2>5, <3>2, <4>1
    <3> QED BY <3>1, <3>2
  <2>8. ASSUME NEW o \in With, WordIn(c, o) = q PROVE \E k \in 1 .. Len(new) : new[k].doc = c[o[1]].id
    <3>1. CASE o = x
      <4>1. new[n].doc = c[x[1]].id /\ n \in 1 .. Len(new)
        BY <2>1, <2>5, <2>6
      <4> QED BY <3>1, <4>1
    <3>2. CASE o \in O
      <4>1. PICK k \in 1 .. Len(list) : list[k].doc = c[o[1]].id
        BY <1>3, <2>8, <3>2
      <4> QED BY <2>5, <2>6, <4>1
    <3> QED BY <3>1, <3>2
  <2>9. ASSUME NEW m \in 1 .. Len(new), NEW k \in 1 .. m - 1
        PROVE  \E e \in 1 .. Len(c) : \E d \in 1 .. e - 1 : new[k].doc = c[d].id /\ new[m].doc = c[e].id
    <3>1. m \in 1 .. Len(list) /\ k \in 1 .. Len(list)
      BY <2>5
    <3> QED BY <1>3, <2>6, <3>1
  <2> QED BY <2>5, <2>7, <2>8, <2>9 DEF ListOK
<1> QED BY <1>8, <1>9
-----------------------------------------------------------------------------
(* The invariant: where the worker is, and the index of the words it has come past. *)
Position(c, f, l, w, t) ==
  /\ f \in 1 .. Len(c) + 1 /\ l \in Nat /\ w \in Nat /\ t \in BOOLEAN
  /\ f <= Len(c) => l \in 1 .. Len(c[f].lines) + 1
  /\ f <= Len(c) /\ l <= Len(c[f].lines) =>
       w \in 1 .. Len(c[f].lines[l]) + 1 /\ (t <=> InTag(c[f].lines[l], w))
  /\ ~(f <= Len(c) /\ l <= Len(c[f].lines)) => ~t

InWord(c, f, l, w, k, ch) ==
  /\ IsPlace(c, f, l, w) /\ Outside(c[f].lines[l], w)
  /\ k \in 1 .. Len(c[f].lines[l][w]) + 1
  /\ \A n \in 0 .. k - 1 : SubSeq(c[f].lines[l][w], 1, n) \in DOMAIN ch

Built(c, O, ch, lists) ==
  /\ Trie(ch) /\ DOMAIN lists = DOMAIN ch
  /\ \A q \in DOMAIN lists : ListOK(c, O, lists[q], q)
  /\ \A o \in O : WordIn(c, o) \in DOMAIN lists

Counted(O, n, a) == IsFiniteSet(O) /\ n = Cardinality(O) + IF a = "letter" THEN 1 ELSE 0

IndexInv ==
  /\ corpus \in Corpora /\ at \in {"word", "letter", "done"} /\ letter \in Nat
  /\ Position(corpus, txt_file, line, word, open_a_tag)
  /\ at = "letter" => InWord(corpus, txt_file, line, word, letter, children)
  /\ at = "done" => txt_file > Len(corpus)
  /\ Built(corpus, Passed(corpus, txt_file, line, word), children, pl)
  /\ Counted(Passed(corpus, txt_file, line, word), n_words, at)

LEMMA FirstPosition ==
  ASSUME NEW c \in Corpora
  PROVE  Position(c, 1, 1, 1, FALSE)
<1>1. Len(c) \in Nat
  BY CorpusFacts
<1>2. ASSUME 1 <= Len(c) PROVE Len(c[1].lines) \in Nat
  BY <1>1, <1>2, CorpusFacts
<1>3. ASSUME 1 <= Len(c), 1 <= Len(c[1].lines) PROVE Len(c[1].lines[1]) \in Nat /\ ~InTag(c[1].lines[1], 1)
  <2>1. 1 \in 1 .. Len(c) /\ 1 \in 1 .. Len(c[1].lines)
    BY <1>1, <1>2, <1>3
  <2>2. Len(c[1].lines[1]) \in Nat
    BY <2>1, CorpusFacts
  <2> QED BY <2>2 DEF InTag
<1> QED BY <1>1, <1>2, <1>3 DEF Position

LEMMA NextPosition ==
  ASSUME NEW c \in Corpora, NEW f, NEW l, NEW w, IsPlace(c, f, l, w), NEW t, Position(c, f, l, w, t)
  PROVE  LET ws == c[f].lines[l]
         IN  Position(c, f, l, w + 1, ~Close(ws[w]) /\ (Open(ws[w]) \/ t))
<1> DEFINE ws == c[f].lines[l]
<1>1. f \in 1 .. Len(c) /\ l \in 1 .. Len(c[f].lines) /\ w \in 1 .. Len(ws)
  BY DEF IsPlace
<1>2. ws \in Seq(Seq(Nat)) /\ Len(ws) \in Nat /\ Len(c) \in Nat /\ Len(c[f].lines) \in Nat
  BY <1>1, CorpusFacts
<1>3. t <=> InTag(ws, w)
  BY <1>1, <1>2 DEF Position
<1>4. InTag(ws, w + 1) <=> ~Close(ws[w]) /\ (Open(ws[w]) \/ InTag(ws, w))
  <2> HIDE DEF ws
  <2> QED BY <1>1, <1>2, TagStep
<1> DEFINE u == ~Close(ws[w]) /\ (Open(ws[w]) \/ t)
<1>5. u <=> InTag(ws, w + 1)
  BY <1>3, <1>4
<1>6. u \in BOOLEAN
  OBVIOUS
<1> HIDE DEF u
<1>7. Position(c, f, l, w + 1, u)
  BY <1>1, <1>2, <1>5, <1>6 DEF Position
<1> QED BY <1>7 DEF u

LEMMA LinePosition ==
  ASSUME NEW c \in Corpora, NEW f \in 1 .. Len(c), NEW l \in 1 .. Len(c[f].lines)
  PROVE  Position(c, f, l + 1, 1, FALSE)
<1>1. Len(c) \in Nat /\ Len(c[f].lines) \in Nat
  BY CorpusFacts
<1>2. ASSUME l + 1 <= Len(c[f].lines) PROVE Len(c[f].lines[l + 1]) \in Nat
  <2>1. l + 1 \in 1 .. Len(c[f].lines)
    BY <1>1, <1>2
  <2> QED BY <2>1, CorpusFacts
<1>3. ~InTag(c[f].lines[l + 1], 1)
  BY DEF InTag
<1> QED BY <1>1, <1>2, <1>3 DEF Position

LEMMA FilePosition ==
  ASSUME NEW c \in Corpora, NEW f \in 1 .. Len(c)
  PROVE  Position(c, f + 1, 1, 1, FALSE)
<1>1. Len(c) \in Nat
  BY CorpusFacts
<1>2. ASSUME f + 1 <= Len(c) PROVE Len(c[f + 1].lines) \in Nat
  <2>1. f + 1 \in 1 .. Len(c)
    BY <1>1, <1>2
  <2> QED BY <2>1, CorpusFacts
<1>3. ASSUME f + 1 <= Len(c), 1 <= Len(c[f + 1].lines)
      PROVE  Len(c[f + 1].lines[1]) \in Nat
  <2>1. f + 1 \in 1 .. Len(c) /\ 1 \in 1 .. Len(c[f + 1].lines)
    BY <1>1, <1>2, <1>3
  <2> QED BY <2>1, CorpusFacts
<1>4. ~InTag(c[f + 1].lines[1], 1)
  BY DEF InTag
<1> QED BY <1>1, <1>2, <1>3, <1>4 DEF Position

LEMMA BuiltInsert ==
  ASSUME NEW c, NEW O, NEW ch, NEW lists, Built(c, O, ch, lists), NEW p \in DOMAIN ch, NEW k \in Nat,
         NEW new, new = WithNode([ch EXCEPT ![p] = AddLetter(@, k)], Append(p, k)),
         NEW news, news = WithNode(lists, Append(p, k))
  PROVE  Built(c, O, new, news) /\ DOMAIN new = DOMAIN ch \union {Append(p, k)}
<1>1. Trie(new) /\ DOMAIN new = DOMAIN ch \union {Append(p, k)}
  <2>1. Trie(ch)
    BY DEF Built
  <2>2. Trie(new)
    BY <2>1, InsertedTrie
  <2>3. DOMAIN new = DOMAIN ch \union {Append(p, k)}
    BY DEF WithNode
  <2> QED BY <2>2, <2>3
<1>2. /\ DOMAIN news = DOMAIN lists \union {Append(p, k)}
      /\ \A q \in DOMAIN lists : news[q] = lists[q]
      /\ Append(p, k) \notin DOMAIN lists => news[Append(p, k)] = <<>>
  BY DEF WithNode
<1>3. ASSUME NEW q \in DOMAIN news PROVE ListOK(c, O, news[q], q)
  <2>1. CASE q \in DOMAIN lists
    BY <1>2, <2>1 DEF Built
  <2>2. CASE q \notin DOMAIN lists
    <3>1. news[q] = <<>>
      BY <1>2, <2>2
    <3>2. \A o \in O : WordIn(c, o) # q
      BY <2>2 DEF Built
    <3> QED BY <3>1, <3>2, EmptyList
  <2> QED BY <2>1, <2>2
<1>4. \A o \in O : WordIn(c, o) \in DOMAIN news
  BY <1>2 DEF Built
<1>5. DOMAIN lists = DOMAIN ch
  BY DEF Built
<1> QED BY <1>1, <1>2, <1>3, <1>4, <1>5 DEF Built

LEMMA BuiltUpdate ==
  ASSUME NEW c \in Corpora, NEW O, NEW x, NextIn(c, O, x), NEW q, WordIn(c, x) = q,
         NEW ch, NEW lists, Built(c, O, ch, lists), q \in DOMAIN lists,
         NEW news, news = [lists EXCEPT ![q] = Updated(lists[q], c[x[1]].id, x[2])]
  PROVE  Built(c, O \union {x}, ch, news)
<1>1. DOMAIN news = DOMAIN lists /\ \A r \in DOMAIN lists : r # q => news[r] = lists[r]
  OBVIOUS
<1>2. PICK new : new = Updated(lists[q], c[x[1]].id, x[2])
  OBVIOUS
<1>3. news[q] = new
  BY <1>2
<1>4. ListOK(c, O \union {x}, new, q)
  <2>1. PICK list : list = lists[q]
    OBVIOUS
  <2>2. ListOK(c, O, list, q) /\ new = Updated(list, c[x[1]].id, x[2])
    BY <1>2, <2>1 DEF Built
  <2> QED BY <2>2, UpdatedList
<1>5. ASSUME NEW r \in DOMAIN news PROVE ListOK(c, O \union {x}, news[r], r)
  <2>1. CASE r = q
    BY <1>3, <1>4, <2>1
  <2>2. CASE r # q
    <3>1. ListOK(c, O, lists[r], r) /\ news[r] = lists[r]
      BY <1>1, <2>2 DEF Built
    <3>2. ListOK(c, O \union {x}, lists[r], r)
      BY <2>2, <3>1, OtherList
    <3> QED BY <3>1, <3>2
  <2> QED BY <2>1, <2>2
<1>6. \A o \in O \union {x} : WordIn(c, o) \in DOMAIN news
  BY <1>1 DEF Built
<1> QED BY <1>1, <1>5, <1>6 DEF Built

LEMMA NextPlace ==
  ASSUME NEW c \in Corpora, NEW f, NEW l, NEW w, IsPlace(c, f, l, w), IsFiniteSet(Passed(c, f, l, w))
  PROVE  NextIn(c, Passed(c, f, l, w), <<f, l, w>>)
<1> DEFINE x == <<f, l, w>>
           O == Passed(c, f, l, w)
<1>1. /\ f \in 1 .. Len(c) /\ l \in 1 .. Len(c[f].lines) /\ w \in 1 .. Len(c[f].lines[l])
      /\ Len(c) \in Nat /\ Len(c[f].lines) \in Nat
  BY CorpusFacts DEF IsPlace
<1>2. x \notin O
  BY <1>1, WordPassed
<1>3. x[1] = f /\ x[2] = l
  OBVIOUS
<1> HIDE DEF x
<1>4. ASSUME NEW o \in O
      PROVE  o[1] \in 1 .. Len(c) /\ o[2] \in Nat /\ (o[1] < f \/ (o[1] = f /\ o[2] <= l))
  <2>1. PICK d, m, k \in Nat :
             /\ IsPlace(c, d, m, k) /\ o = <<d, m, k>> /\ Outside(c[d].lines[m], k)
             /\ d < f \/ (d = f /\ (m < l \/ (m = l /\ k < w)))
    BY PassedFacts
  <2>2. d \in 1 .. Len(c) /\ o[1] = d /\ o[2] = m
    BY <2>1 DEF IsPlace
  <2> QED BY <1>1, <2>1, <2>2
<1> HIDE DEF O
<1>5. NextIn(c, O, x)
  BY <1>1, <1>2, <1>3, <1>4 DEF NextIn, O
<1> QED BY <1>5 DEF x, O

LEMMA FirstIndex == IndexInit => IndexInv
<1> SUFFICES ASSUME IndexInit PROVE IndexInv
  OBVIOUS
<1>1. /\ corpus \in Corpora /\ at = "word" /\ txt_file = 1 /\ line = 1 /\ word = 1 /\ letter = 1
      /\ open_a_tag = FALSE /\ children = [p \in {<<>>} |-> <<>>] /\ pl = [p \in {<<>>} |-> <<>>]
      /\ n_words = 0
  BY DEF IndexInit
<1>2. Passed(corpus, txt_file, line, word) = {}
  BY <1>1, NothingPassed
<1>3. Position(corpus, txt_file, line, word, open_a_tag)
  BY <1>1, FirstPosition
<1>4. Built(corpus, {}, children, pl)
  <2>1. Trie(children)
    BY <1>1, RootTrie
  <2>2. DOMAIN pl = {<<>>} /\ pl[<<>>] = <<>> /\ DOMAIN children = {<<>>}
    BY <1>1
  <2>3. ListOK(corpus, {}, <<>>, <<>>)
    BY EmptyList
  <2> QED BY <2>1, <2>2, <2>3 DEF Built
<1>5. Counted({}, n_words, at)
  <2>1. IsFiniteSet({}) /\ Cardinality({}) = 0
    BY FS_EmptySet
  <2> QED BY <1>1, <2>1 DEF Counted
<1> QED BY <1>1, <1>2, <1>3, <1>4, <1>5 DEF IndexInv

(* Inside of a line. *)
LEMMA AtWord ==
  ASSUME IndexInv, InLine, word <= Len(Words)
  PROVE  IsPlace(corpus, txt_file, line, word)
<1>1. txt_file \in 1 .. Len(corpus) /\ Len(corpus) \in Nat
  BY CorpusFacts DEF IndexInv, Position, InLine, InFile
<1>2. line \in 1 .. Len(corpus[txt_file].lines)
  BY <1>1, CorpusFacts DEF IndexInv, Position, InLine, InFile, Lines
<1>3. word \in 1 .. Len(corpus[txt_file].lines[line])
  BY <1>1, <1>2, CorpusFacts DEF IndexInv, Position, InLine, InFile, Lines, Words
<1> QED BY <1>1, <1>2, <1>3 DEF IsPlace

LEMMA SkipWordStep == ASSUME IndexInv, SkipWord PROVE IndexInv'
<1>1. /\ InLine /\ word <= Len(Words) /\ at = "word"
      /\ Open(Word) \/ Close(Word) \/ open_a_tag
      /\ open_a_tag' = (~Close(Word) /\ (Open(Word) \/ open_a_tag)) /\ word' = word + 1
      /\ UNCHANGED <<corpus, at, txt_file, line, letter, children, pl, n_words>>
  BY DEF SkipWord, InLine, InFile
<1>2. IsPlace(corpus, txt_file, line, word)
  BY <1>1, AtWord
<1>3. Word = corpus[txt_file].lines[line][word]
  BY DEF Word, Words, Lines
<1>4. corpus \in Corpora /\ Position(corpus, txt_file, line, word, open_a_tag)
  BY DEF IndexInv
<1>5. Position(corpus, txt_file, line, word + 1, ~Close(Word) /\ (Open(Word) \/ open_a_tag))
  BY <1>2, <1>3, <1>4, NextPosition
<1>6. Passed(corpus, txt_file, line, word + 1) = Passed(corpus, txt_file, line, word)
  <2>1. txt_file \in 1 .. Len(corpus) /\ line \in 1 .. Len(corpus[txt_file].lines)
        /\ word \in 1 .. Len(corpus[txt_file].lines[line])
    BY <1>2 DEF IsPlace
  <2>2. open_a_tag <=> InTag(corpus[txt_file].lines[line], word)
    BY <1>4, <2>1, CorpusFacts DEF Position
  <2>3. ~Outside(corpus[txt_file].lines[line], word)
    BY <1>1, <1>3, <2>2 DEF Outside
  <2>4. \A o : o \in Passed(corpus, txt_file, line, word + 1) <=> o \in Passed(corpus, txt_file, line, word)
    BY <1>2, <1>4, <2>3, WordPassed
  <2> QED BY <2>4
<1>7. Position(corpus, txt_file, line, word, open_a_tag)'
  BY <1>1, <1>5
<1>8. (Passed(corpus, txt_file, line, word))' = Passed(corpus, txt_file, line, word)
  BY <1>1, <1>6
<1> QED BY <1>1, <1>7, <1>8 DEF IndexInv

LEMMA StartWordStep == ASSUME IndexInv, StartWord PROVE IndexInv'
<1>1. /\ InLine /\ word <= Len(Words) /\ at = "word"
      /\ ~Open(Word) /\ ~Close(Word) /\ ~open_a_tag
      /\ n_words' = n_words + 1 /\ at' = "letter" /\ letter' = 1
      /\ UNCHANGED <<corpus, txt_file, line, word, open_a_tag, children, pl>>
  BY DEF StartWord, InLine, InFile
<1>2. IsPlace(corpus, txt_file, line, word)
  BY <1>1, AtWord
<1>3. Word = corpus[txt_file].lines[line][word]
  BY DEF Word, Words, Lines
<1>4. corpus \in Corpora /\ Position(corpus, txt_file, line, word, open_a_tag)
  BY DEF IndexInv
<1>5. /\ txt_file \in 1 .. Len(corpus) /\ line \in 1 .. Len(corpus[txt_file].lines)
      /\ word \in 1 .. Len(corpus[txt_file].lines[line])
  BY <1>2 DEF IsPlace
<1>6. InWord(corpus, txt_file, line, word, 1, children)
  <2>1. open_a_tag <=> InTag(corpus[txt_file].lines[line], word)
    BY <1>4, <1>5, CorpusFacts DEF Position
  <2>2. Outside(corpus[txt_file].lines[line], word)
    BY <1>1, <1>3, <2>1 DEF Outside
  <2>3. Word \in Seq(Nat)
    BY <1>3, <1>4, <1>5, CorpusFacts
  <2>4. 1 \in 1 .. Len(Word) + 1
    BY <2>3
  <2>5. SubSeq(Word, 1, 0) = <<>> /\ <<>> \in DOMAIN children
    BY <2>3 DEF IndexInv, Built, Trie
  <2>6. \A n \in 0 .. 1 - 1 : n = 0
    OBVIOUS
  <2> QED BY <1>2, <1>3, <2>2, <2>4, <2>5, <2>6 DEF InWord
<1>7. Counted(Passed(corpus, txt_file, line, word), n_words, at)'
  <2> DEFINE O == Passed(corpus, txt_file, line, word)
  <2>1. Counted(O, n_words, at)
    BY DEF IndexInv
  <2>2. Counted(O, n_words + 1, "letter")
    <3> HIDE DEF O
    <3>1. IsFiniteSet(O) /\ n_words = Cardinality(O) + 0 /\ Cardinality(O) \in Nat
      BY <1>1, <2>1, FS_CardinalityType DEF Counted
    <3> QED BY <3>1 DEF Counted
  <2> QED BY <1>1, <2>2
<1> QED BY <1>1, <1>6, <1>7 DEF IndexInv

LEMMA InsertLetterStep == ASSUME IndexInv, InsertLetter PROVE IndexInv'
<1> DEFINE p == SubSeq(Word, 1, letter - 1)
           q == SubSeq(Word, 1, letter)
<1>1. /\ at = "letter" /\ letter <= Len(Word) /\ letter' = letter + 1
      /\ children' = WithNode([children EXCEPT ![p] = AddLetter(@, Word[letter])], q)
      /\ pl' = WithNode(pl, q)
      /\ UNCHANGED <<corpus, at, txt_file, line, word, open_a_tag, n_words>>
  BY DEF InsertLetter
<1>2. Word = corpus[txt_file].lines[line][word]
  BY DEF Word, Words, Lines
<1>3. /\ corpus \in Corpora /\ letter \in Nat /\ InWord(corpus, txt_file, line, word, letter, children)
      /\ Built(corpus, Passed(corpus, txt_file, line, word), children, pl)
  BY <1>1 DEF IndexInv
<1>4. /\ IsPlace(corpus, txt_file, line, word) /\ Outside(corpus[txt_file].lines[line], word)
      /\ letter \in 1 .. Len(Word) + 1 /\ \A n \in 0 .. letter - 1 : SubSeq(Word, 1, n) \in DOMAIN children
  BY <1>2, <1>3 DEF InWord
<1>5. Word \in Seq(Nat) /\ Len(Word) \in Nat
  <2>1. Word \in Seq(Nat)
    BY <1>2, <1>3, <1>4, WordType
  <2> QED BY <2>1
<1>6. p \in DOMAIN children /\ letter \in 1 .. Len(Word) /\ Word[letter] \in Nat /\ q = Append(p, Word[letter])
  <2>1. letter - 1 \in 0 .. letter - 1 /\ letter \in 1 .. Len(Word)
    BY <1>1, <1>4, <1>5
  <2>2. Word[letter] \in Nat /\ Append(SubSeq(Word, 1, letter - 1), Word[letter]) = SubSeq(Word, 1, letter)
    <3> HIDE DEF p, q
    <3> QED BY <1>5, <2>1, OneLetterMore
  <2> QED BY <1>4, <2>1, <2>2
<1>7. Built(corpus, Passed(corpus, txt_file, line, word), children', pl') /\ DOMAIN children' = DOMAIN children \union {q}
  <2> HIDE DEF p, q
  <2>1. PICK new, news : new = children' /\ news = pl'
    OBVIOUS
  <2>2. /\ new = WithNode([children EXCEPT ![p] = AddLetter(@, Word[letter])], Append(p, Word[letter]))
        /\ news = WithNode(pl, Append(p, Word[letter]))
    BY <1>1, <1>6, <2>1
  <2>3. Built(corpus, Passed(corpus, txt_file, line, word), new, news)
    BY <1>3, <1>6, <2>2, BuiltInsert
  <2>4. DOMAIN new = DOMAIN children \union {Append(p, Word[letter])}
    BY <2>2 DEF WithNode
  <2> QED BY <1>6, <2>1, <2>3, <2>4
<1>8. InWord(corpus, txt_file, line, word, letter + 1, children')
  <2>1. letter + 1 \in 1 .. Len(Word) + 1
    BY <1>5, <1>6
  <2>2. ASSUME NEW n \in 0 .. (letter + 1) - 1 PROVE SubSeq(Word, 1, n) \in DOMAIN children'
    <3>1. n = letter \/ n \in 0 .. letter - 1
      BY <1>6
    <3> QED BY <1>4, <1>7, <3>1
  <2> QED BY <1>2, <1>4, <2>1, <2>2 DEF InWord
<1> HIDE DEF p, q
<1> QED BY <1>1, <1>3, <1>7, <1>8 DEF IndexInv

LEMMA EndWordStep == ASSUME IndexInv, EndWord PROVE IndexInv'
<1> DEFINE x == <<txt_file, line, word>>
           O == Passed(corpus, txt_file, line, word)
<1>1. /\ at = "letter" /\ letter > Len(Word) /\ at' = "word" /\ word' = word + 1
      /\ pl' = [pl EXCEPT ![Word] = Update(@)]
      /\ UNCHANGED <<corpus, txt_file, line, letter, open_a_tag, children, n_words>>
  BY DEF EndWord
<1>2. Word = corpus[txt_file].lines[line][word]
  BY DEF Word, Words, Lines
<1>3. /\ corpus \in Corpora /\ letter \in Nat /\ InWord(corpus, txt_file, line, word, letter, children)
      /\ Built(corpus, O, children, pl) /\ Position(corpus, txt_file, line, word, open_a_tag)
      /\ Counted(O, n_words, at)
  BY <1>1 DEF IndexInv
<1>4. /\ IsPlace(corpus, txt_file, line, word) /\ Outside(corpus[txt_file].lines[line], word)
      /\ letter \in 1 .. Len(Word) + 1 /\ \A n \in 0 .. letter - 1 : SubSeq(Word, 1, n) \in DOMAIN children
  BY <1>2, <1>3 DEF InWord
<1>5. /\ txt_file \in 1 .. Len(corpus) /\ line \in 1 .. Len(corpus[txt_file].lines)
      /\ word \in 1 .. Len(corpus[txt_file].lines[line])
  BY <1>4 DEF IsPlace
<1>6. Word \in DOMAIN pl
  <2>1. Word \in Seq(Nat) /\ Len(Word) \in Nat
    <3>1. Word \in Seq(Nat)
      BY <1>2, <1>3, <1>4, WordType
    <3> QED BY <3>1
  <2>2. SubSeq(Word, 1, Len(Word)) = Word
    BY <2>1
  <2>3. Len(Word) \in 0 .. letter - 1
    BY <1>1, <1>4, <2>1
  <2> QED BY <1>3, <1>4, <2>2, <2>3 DEF Built
<1>7. Passed(corpus, txt_file, line, word + 1) = O \union {x}
  <2>1. \A o : o \in Passed(corpus, txt_file, line, word + 1) <=> o \in O \/ o = x
    BY <1>3, <1>4, <1>5, WordPassed
  <2> HIDE DEF O, x
  <2> QED BY <2>1
<1>8. NextIn(corpus, O, x)
  BY <1>3, <1>4, NextPlace DEF Counted
<1>9. Built(corpus, O \union {x}, children, pl')
  <2>1. pl' = [pl EXCEPT ![Word] = Updated(pl[Word], corpus[txt_file].id, line)]
    BY <1>1, UpdateIsUpdated
  <2>2. x[1] = txt_file /\ x[2] = line /\ WordIn(corpus, x) = Word
    BY <1>2 DEF WordIn
  <2>3. PICK news : news = pl'
    OBVIOUS
  <2>4. news = [pl EXCEPT ![Word] = Updated(pl[Word], corpus[x[1]].id, x[2])]
    BY <2>1, <2>2, <2>3
  <2> HIDE DEF x, O
  <2>5. Built(corpus, O \union {x}, children, news)
    BY <1>3, <1>6, <1>8, <2>2, <2>4, BuiltUpdate
  <2> QED BY <2>3, <2>5
<1>10. Counted(O \union {x}, n_words, "word")
  <2> HIDE DEF x, O
  <2>1. IsFiniteSet(O) /\ x \notin O /\ n_words = Cardinality(O) + 1
    BY <1>1, <1>3, <1>8 DEF Counted, NextIn
  <2>2. IsFiniteSet(O \union {x}) /\ Cardinality(O \union {x}) = Cardinality(O) + 1 /\ Cardinality(O) \in Nat
    BY <2>1, FS_AddElement, FS_CardinalityType
  <2> QED BY <2>1, <2>2 DEF Counted
<1>11. Position(corpus, txt_file, line, word + 1, open_a_tag)
  <2>1. ~Open(Word) /\ ~Close(Word) /\ ~InTag(corpus[txt_file].lines[line], word)
    BY <1>2, <1>4 DEF Outside
  <2>2. open_a_tag = FALSE
    BY <1>3, <1>5, <2>1, CorpusFacts DEF Position
  <2>3. Position(corpus, txt_file, line, word + 1, ~Close(Word) /\ (Open(Word) \/ open_a_tag))
    BY <1>2, <1>3, <1>4, NextPosition
  <2>4. (~Close(Word) /\ (Open(Word) \/ open_a_tag)) = open_a_tag
    BY <2>1, <2>2
  <2> QED BY <2>3, <2>4
<1>12. (Passed(corpus, txt_file, line, word))' = O \union {x}
  BY <1>1, <1>7
<1>13. Position(corpus, txt_file, line, word, open_a_tag)'
  BY <1>1, <1>11
<1> HIDE DEF x, O
<1> QED BY <1>1, <1>3, <1>9, <1>10, <1>12, <1>13 DEF IndexInv

LEMMA NextLineStep == ASSUME IndexInv, NextLine PROVE IndexInv'
<1>1. /\ at = "word" /\ txt_file <= Len(corpus) /\ line <= Len(corpus[txt_file].lines)
      /\ word > Len(corpus[txt_file].lines[line])
      /\ line' = line + 1 /\ word' = 1 /\ open_a_tag' = FALSE
      /\ UNCHANGED <<corpus, at, txt_file, letter, children, pl, n_words>>
  BY DEF NextLine, InLine, InFile, Lines, Words
<1>2. corpus \in Corpora /\ Position(corpus, txt_file, line, word, open_a_tag)
  BY DEF IndexInv
<1>3. txt_file \in 1 .. Len(corpus) /\ line \in 1 .. Len(corpus[txt_file].lines) /\ word \in Nat
  <2>1. txt_file \in 1 .. Len(corpus)
    BY <1>1, <1>2, CorpusFacts DEF Position
  <2> QED BY <1>1, <1>2, <2>1, CorpusFacts DEF Position
<1>4. Passed(corpus, txt_file, line + 1, 1) = Passed(corpus, txt_file, line, word)
  BY <1>1, <1>2, <1>3, LinePassed
<1>5. Position(corpus, txt_file, line + 1, 1, FALSE)
  BY <1>2, <1>3, LinePosition
<1>6. (Passed(corpus, txt_file, line, word))' = Passed(corpus, txt_file, line, word)
  BY <1>1, <1>4
<1>7. Position(corpus, txt_file, line, word, open_a_tag)'
  BY <1>1, <1>5
<1> QED BY <1>1, <1>6, <1>7 DEF IndexInv

LEMMA NextFileStep == ASSUME IndexInv, NextFile PROVE IndexInv'
<1>1. /\ at = "word" /\ txt_file <= Len(corpus) /\ line > Len(corpus[txt_file].lines)
      /\ txt_file' = txt_file + 1 /\ line' = 1 /\ word' = 1
      /\ UNCHANGED <<corpus, at, letter, open_a_tag, children, pl, n_words>>
  BY DEF NextFile, InFile, Lines
<1>2. corpus \in Corpora /\ Position(corpus, txt_file, line, word, open_a_tag)
  BY DEF IndexInv
<1>3. txt_file \in 1 .. Len(corpus) /\ line \in Nat /\ Len(corpus[txt_file].lines) \in Nat
  <2>1. txt_file \in 1 .. Len(corpus)
    BY <1>1, <1>2, CorpusFacts DEF Position
  <2> QED BY <1>2, <2>1, CorpusFacts DEF Position
<1>4. open_a_tag = FALSE
  BY <1>1, <1>2, <1>3 DEF Position
<1>5. Passed(corpus, txt_file + 1, 1, 1) = Passed(corpus, txt_file, line, word)
  BY <1>1, <1>2, <1>3, FilePassed
<1>6. Position(corpus, txt_file + 1, 1, 1, FALSE)
  BY <1>2, <1>3, FilePosition
<1>7. (Passed(corpus, txt_file, line, word))' = Passed(corpus, txt_file, line, word)
  BY <1>1, <1>5
<1>8. Position(corpus, txt_file, line, word, open_a_tag)'
  BY <1>1, <1>4, <1>6
<1> QED BY <1>1, <1>7, <1>8 DEF IndexInv

LEMMA FinishStep == ASSUME IndexInv, Finish PROVE IndexInv'
<1>1. /\ at = "word" /\ txt_file > Len(corpus) /\ at' = "done"
      /\ UNCHANGED <<corpus, txt_file, line, word, letter, open_a_tag, children, pl, n_words>>
  BY DEF Finish
<1>2. Counted(Passed(corpus, txt_file, line, word), n_words, at)'
  BY <1>1 DEF IndexInv, Counted
<1> QED BY <1>1, <1>2 DEF IndexInv

LEMMA IndexStutterStep == ASSUME IndexInv, UNCHANGED indexVars PROVE IndexInv'
  BY DEF IndexInv, indexVars, placeVars

(* At every step of insert_docs and insert_word the index is that of the words come past. *)
THEOREM IndexInvHolds == IndexSpec => []IndexInv
<1>1. IndexInv /\ [IndexNext]_indexVars => IndexInv'
  BY SkipWordStep, StartWordStep, InsertLetterStep, EndWordStep, NextLineStep, NextFileStep, FinishStep,
     IndexStutterStep DEF IndexNext
<1> QED BY FirstIndex, <1>1, PTL DEF IndexSpec

LEMMA SearchIsExact ==
  ASSUME IndexInv, NEW q \in Queries
  PROVE  ListOK(corpus, Occurrences, Search(q), q)
<1>1. q \in Seq(Nat)
  BY IndexAssumption
<1>2. Built(corpus, Occurrences, children, pl)
  BY OccurrencesArePassed DEF IndexInv
<1>3. Search(q) = IF q \in DOMAIN children THEN pl[q] ELSE <<>>
  BY <1>1, <1>2, SearchFacts DEF Search, Built
<1>4. CASE q \in DOMAIN children
  BY <1>2, <1>3, <1>4 DEF Built
<1>5. CASE q \notin DOMAIN children
  <2>1. \A o \in Occurrences : WordIn(corpus, o) # q
    BY <1>2, <1>5 DEF Built
  <2> QED BY <1>3, <1>5, <2>1, EmptyList
<1> QED BY <1>4, <1>5

(* The first and the last letter of a tidy word tell whether it opens a tag, and closes one. *)
LEMMA TidyWord ==
  ASSUME NEW w \in Seq(Nat), w # <<>>, Tidy(w)
  PROVE  /\ Close(w) <=> 62 \in ToSet(w)
         /\ ~Close(w) /\ 60 \in ToSet(w) => Open(w)
         /\ Open(w) => 60 \in ToSet(w)
<1>1. ToSet(w) = {w[x] : x \in 1 .. Len(w)}
  BY DEF ToSet
<1>2. Len(w) \in 1 .. Len(w) /\ 1 \in 1 .. Len(w)
  OBVIOUS
<1>3. w[Len(w)] \in ToSet(w) /\ w[1] \in ToSet(w)
  BY <1>1, <1>2
<1> QED BY <1>3 DEF Tidy, Close, Open, Last

(* What the worker takes for a word outside of tags a reader sees. *)
LEMMA TidyLine ==
  ASSUME NEW ws \in Seq(Seq(Nat)), \A k \in 1 .. Len(ws) : ws[k] # <<>> /\ Tidy(ws[k]),
         NEW k \in 1 .. Len(ws)
  PROVE  Outside(ws, k) <=> Visible(ws, k)
<1> DEFINE Has60(m) == 60 \in ToSet(ws[m])
           Has62(m) == 62 \in ToSet(ws[m])
           Left(m) == \E x \in 1 .. Len(ws[m]) :
                        /\ ws[m][x] = 60
                        /\ \A j \in x + 1 .. Len(ws[m]) : ws[m][j] # 62
                        /\ \A n \in m + 1 .. k - 1 : ~Has62(n)
<1>1. Len(ws) \in Nat /\ \A m \in 1 .. Len(ws) : ws[m] \in Seq(Nat)
  OBVIOUS
<1>2. ASSUME NEW m \in 1 .. Len(ws)
      PROVE  /\ Close(ws[m]) <=> Has62(m)
             /\ ~Close(ws[m]) /\ Has60(m) => Open(ws[m])
             /\ Open(ws[m]) => Has60(m)
  BY <1>1, TidyWord
<1>3. Visible(ws, k) <=> ~Has60(k) /\ ~Has62(k) /\ \A m \in 1 .. k - 1 : ~Left(m)
  <2>1. ({60, 62} \intersect ToSet(ws[k]) = {}) <=> ~Has60(k) /\ ~Has62(k)
    OBVIOUS
  <2> DEFINE Shut(m) == \A x \in 1 .. Len(ws[m]) :
                          ws[m][x] = 60 => \/ \E j \in x + 1 .. Len(ws[m]) : ws[m][j] = 62
                                           \/ \E n \in m + 1 .. k - 1 : Has62(n)
  <2>2. ASSUME NEW m \in 1 .. k - 1 PROVE Shut(m) <=> ~Left(m)
    <3> HIDE DEF Has62
    <3>1. ASSUME Left(m), Shut(m) PROVE FALSE
      <4>1. PICK x \in 1 .. Len(ws[m]) : /\ ws[m][x] = 60
                                         /\ \A j \in x + 1 .. Len(ws[m]) : ws[m][j] # 62
                                         /\ \A n \in m + 1 .. k - 1 : ~Has62(n)
        BY <3>1, Zenon
      <4>2. \/ \E j \in x + 1 .. Len(ws[m]) : ws[m][j] = 62
            \/ \E n \in m + 1 .. k - 1 : Has62(n)
        BY <3>1, <4>1, Zenon
      <4> QED BY <4>1, <4>2, Zenon
    <3>2. ASSUME ~Shut(m) PROVE Left(m)
      <4>1. PICK x \in 1 .. Len(ws[m]) :
              /\ ws[m][x] = 60
              /\ ~\E j \in x + 1 .. Len(ws[m]) : ws[m][j] = 62
              /\ ~\E n \in m + 1 .. k - 1 : Has62(n)
        BY <3>2, Zenon
      <4>2. \A j \in x + 1 .. Len(ws[m]) : ws[m][j] # 62
        BY <4>1, Zenon
      <4>3. \A n \in m + 1 .. k - 1 : ~Has62(n)
        BY <4>1, Zenon
      <4> QED BY <4>1, <4>2, <4>3, Zenon
    <3> HIDE DEF Left, Shut
    <3> QED BY <3>1, <3>2
  <2>3. Visible(ws, k) <=> {60, 62} \intersect ToSet(ws[k]) = {} /\ \A m \in 1 .. k - 1 : Shut(m)
    BY Zenon DEF Visible
  <2> HIDE DEF Has60, Has62, Left, Shut
  <2> QED BY <2>1, <2>2, <2>3
<1>4. ASSUME NEW m \in 1 .. k - 1
      PROVE  Left(m) <=> Open(ws[m]) /\ \A j \in m .. k - 1 : ~Close(ws[j])
  <2>1. m \in 1 .. Len(ws) /\ m \in Nat /\ k \in Nat /\ \A j \in m .. k - 1 : j \in 1 .. Len(ws)
    BY <1>1
  <2>2. PICK w \in Seq(Nat) : w = ws[m] /\ w # <<>>
    BY <1>1, <2>1
  <2>3. Len(w) \in Nat /\ Len(w) >= 1 /\ ToSet(w) = {w[x] : x \in 1 .. Len(w)}
    BY <2>2 DEF ToSet
  <2>4. (\A j \in m .. k - 1 : ~Close(ws[j])) <=> ~Has62(m) /\ \A n \in m + 1 .. k - 1 : ~Has62(n)
    <3>1. (\A j \in m .. k - 1 : ~Close(ws[j])) <=> \A j \in m .. k - 1 : ~Has62(j)
      <4> HIDE DEF Has62
      <4> QED BY <1>2, <2>1
    <3>2. \A j : j \in m .. k - 1 <=> j = m \/ j \in m + 1 .. k - 1
      BY <2>1
    <3> HIDE DEF Has62
    <3> QED BY <3>1, <3>2
  <2>5. ASSUME Left(m) PROVE ~Has62(m) /\ Open(ws[m])
    <3>1. PICK x \in 1 .. Len(w) : w[x] = 60 /\ \A j \in x + 1 .. Len(w) : w[j] # 62
      BY <2>2, <2>5
    <3>2. Last(w) # 62
      <4>1. x = Len(w) \/ Len(w) \in x + 1 .. Len(w)
        BY <2>3
      <4>2. w[Len(w)] # 62
        BY <3>1, <4>1
      <4> QED BY <4>2 DEF Last
    <3>3. ~Close(ws[m]) /\ Has60(m)
      BY <2>2, <2>3, <3>1, <3>2 DEF Close
    <3> HIDE DEF Has60, Has62
    <3> QED BY <1>2, <2>1, <3>3
  <2>6. ASSUME Open(ws[m]), ~Has62(m), \A n \in m + 1 .. k - 1 : ~Has62(n) PROVE Left(m)
    <3>1. 1 \in 1 .. Len(w) /\ w[1] = 60
      BY <2>2, <2>3, <2>6 DEF Open
    <3>2. \A j \in 1 .. Len(w) : w[j] # 62
      BY <2>2, <2>3, <2>6
    <3>3. \A j \in 1 + 1 .. Len(w) : w[j] # 62
      BY <2>3, <3>2
    <3> HIDE DEF Has62
    <3> QED BY <2>2, <2>6, <3>1, <3>3
  <2>7. Left(m) => \A n \in m + 1 .. k - 1 : ~Has62(n)
    OBVIOUS
  <2> HIDE DEF Left, Has62, Has60
  <2> QED BY <2>4, <2>5, <2>6, <2>7
<1>5. InTag(ws, k) <=> \E m \in 1 .. k - 1 : Left(m)
  <2> HIDE DEF Left
  <2> QED BY <1>4 DEF InTag
<1>6. Outside(ws, k) <=> ~Has60(k) /\ ~Has62(k) /\ ~InTag(ws, k)
  <2> HIDE DEF Has60, Has62
  <2> QED BY <1>2 DEF Outside
<1> HIDE DEF Left, Has60, Has62
<1> QED BY <1>3, <1>5, <1>6

LEMMA IndexInvExact == IndexInv => IndexExact
<1> SUFFICES ASSUME IndexInv PROVE IndexExact
  OBVIOUS
<1>1. IndexTypeOK
  <2>1. corpus \in Corpora /\ Position(corpus, txt_file, line, word, open_a_tag) /\ Trie(children)
        /\ DOMAIN pl = DOMAIN children /\ at \in {"word", "letter", "done"} /\ letter \in Nat
    BY DEF IndexInv, Built
  <2>2. corpus \in Seq(FileType)
    BY <2>1, IndexAssumption
  <2>3. n_words \in Nat
    <3>1. PICK O : O = Passed(corpus, txt_file, line, word)
      OBVIOUS
    <3>2. Counted(O, n_words, at)
      BY <3>1 DEF IndexInv
    <3>3. Cardinality(O) \in Nat
      BY <3>2, FS_CardinalityType DEF Counted
    <3> QED BY <3>2, <3>3 DEF Counted
  <2>4. ASSUME NEW p \in DOMAIN children, NEW k \in 1 .. Len(children[p])
        PROVE  Append(p, children[p][k]) \in DOMAIN children
    <3>1. children[p] \in Seq(Nat)
      BY <2>1 DEF Trie
    <3>2. children[p][k] \in Nat /\ In(children[p], children[p][k])
      BY <3>1 DEF In
    <3> QED BY <2>1, <3>2 DEF Trie
  <2> QED BY <2>1, <2>2, <2>3, <2>4 DEF IndexTypeOK, Position
<1>2. ASSUME at # "letter" PROVE n_words = Cardinality(Occurrences)
  <2>1. PICK O : O = Occurrences
    OBVIOUS
  <2>2. Counted(O, n_words, at)
    BY <2>1, OccurrencesArePassed DEF IndexInv
  <2>3. Cardinality(O) \in Nat
    BY <2>2, FS_CardinalityType DEF Counted
  <2> QED BY <1>2, <2>1, <2>2, <2>3 DEF Counted
<1>3. \A q \in Queries : PostingsExact(Search(q), q)
  <2> SUFFICES ASSUME NEW q \in Queries PROVE PostingsExact(Search(q), q)
    OBVIOUS
  <2>1. ListOK(corpus, Occurrences, Search(q), q)
    BY SearchIsExact
  <2> QED BY <2>1, ListIsExact
<1>4. TagsTold
  <2> SUFFICES ASSUME NEW d \in 1 .. Len(corpus), NEW l \in 1 .. Len(corpus[d].lines),
                      \A k \in 1 .. Len(corpus[d].lines[l]) : Tidy(corpus[d].lines[l][k]),
                      NEW k \in 1 .. Len(corpus[d].lines[l])
               PROVE  Outside(corpus[d].lines[l], k) <=> Visible(corpus[d].lines[l], k)
    BY DEF TagsTold
  <2>1. corpus \in Corpora
    BY DEF IndexInv
  <2>2. PICK c \in Corpora : c = corpus
    BY <2>1
  <2>3. PICK ws \in Seq(Seq(Nat)) : ws = c[d].lines[l]
    BY <2>2, CorpusFacts
  <2>4. \A m \in 1 .. Len(ws) : ws[m] # <<>>
    <3>1. \A m \in 1 .. Len(c[d].lines[l]) : c[d].lines[l][m] \in Seq(Nat) \ {<<>>}
      BY <2>2, CorpusFacts
    <3> QED BY <2>3, <3>1
  <2> QED BY <2>2, <2>3, <2>4, TidyLine
<1> QED BY <1>1, <1>2, <1>3, <1>4 DEF IndexExact

(***************************************************************************)
(* Between two words search_word finds, for every word that is asked for   *)
(* and any files, exactly the files that have it outside of tags, with its *)
(* number and its lines.                                                   *)
(***************************************************************************)
THEOREM IndexExactHolds == IndexSpec => []IndexExact
  BY IndexInvHolds, IndexInvExact, PTL
-----------------------------------------------------------------------------
(* Lists of answers: each document once, and each of its lines once. *)
AnswerRecord == [doc : DocType, lines : Seq(Nat)]

Distinct(s) == \A m \in 1 .. Len(s) : \A k \in 1 .. m - 1 : s[k] # s[m]

Lists ==
  {a \in Seq(AnswerRecord) : /\ \A m \in 1 .. Len(a) : \A k \in 1 .. m - 1 : a[k].doc # a[m].doc
                           /\ \A m \in 1 .. Len(a) : Distinct(a[m].lines)}

Told(a, d, l) == \E m \in 1 .. Len(a) : a[m].doc = d /\ In(a[m].lines, l)

LEMMA AppendDistinct ==
  ASSUME NEW s \in Seq(Nat), Distinct(s), NEW l \in Nat, ~In(s, l)
  PROVE  /\ Append(s, l) \in Seq(Nat) /\ Distinct(Append(s, l))
         /\ \A m : In(Append(s, l), m) <=> In(s, m) \/ m = l
<1> DEFINE t == Append(s, l)
<1>1. /\ t \in Seq(Nat) /\ Len(t) = Len(s) + 1 /\ Len(s) \in Nat
      /\ t[Len(s) + 1] = l /\ \A k \in 1 .. Len(s) : t[k] = s[k]
  OBVIOUS
<1> HIDE DEF t
<1>2. \A k \in 1 .. Len(s) : s[k] # l
  BY DEF In
<1>3. Distinct(t)
  <2> SUFFICES ASSUME NEW m \in 1 .. Len(t), NEW k \in 1 .. m - 1 PROVE t[k] # t[m]
    BY DEF Distinct
  <2>1. CASE m = Len(s) + 1
    <3>1. k \in 1 .. Len(s)
      BY <1>1, <2>1
    <3> QED BY <1>1, <1>2, <2>1, <3>1
  <2>2. CASE m # Len(s) + 1
    <3>1. m \in 1 .. Len(s)
      BY <1>1, <2>2
    <3>2. k \in 1 .. Len(s)
      BY <1>1, <3>1
    <3> QED BY <1>1, <3>1, <3>2 DEF Distinct
  <2> QED BY <2>1, <2>2
<1>4. ASSUME NEW m PROVE In(t, m) <=> In(s, m) \/ m = l
  <2>1. ASSUME NEW k \in 1 .. Len(t), t[k] = m PROVE In(s, m) \/ m = l
    <3>1. k = Len(s) + 1 \/ k \in 1 .. Len(s)
      BY <1>1
    <3> QED BY <1>1, <2>1, <3>1 DEF In
  <2>2. ASSUME NEW k \in 1 .. Len(s), s[k] = m PROVE In(t, m)
    <3>1. k \in 1 .. Len(t) /\ t[k] = m
      BY <1>1, <2>2
    <3> QED BY <3>1 DEF In
  <2>3. Len(s) + 1 \in 1 .. Len(t)
    BY <1>1
  <2>4. m = l => In(t, m)
    BY <1>1, <2>3 DEF In
  <2> QED BY <2>1, <2>2, <2>4 DEF In
<1> QED BY <1>1, <1>3, <1>4 DEF t

LEMMA OneLine ==
  ASSUME NEW l \in Nat
  PROVE  <<l>> \in Seq(Nat) /\ Distinct(<<l>>) /\ \A m : In(<<l>>, m) <=> m = l
<1>1. <<l>> \in Seq(Nat) /\ Len(<<l>>) = 1 /\ <<l>>[1] = l
  OBVIOUS
<1> QED BY <1>1 DEF Distinct, In

LEMMA AddLineFacts ==
  ASSUME NEW a \in Lists, NEW doc \in DocType, NEW l \in Nat
  PROVE  /\ AddLine(a, doc, l) \in Lists
         /\ \A d, m : Told(AddLine(a, doc, l), d, m) <=> Told(a, d, m) \/ (d = doc /\ m = l)
<1> DEFINE n == Find(a, doc)
           b == AddLine(a, doc, l)
<1>1. /\ a \in Seq(AnswerRecord) /\ Len(a) \in Nat
      /\ \A m \in 1 .. Len(a) : \A k \in 1 .. m - 1 : a[k].doc # a[m].doc
      /\ \A m \in 1 .. Len(a) : Distinct(a[m].lines)
  BY DEF Lists
<1>2. /\ n \in 0 .. Len(a)
      /\ n = 0 => \A k \in 1 .. Len(a) : a[k].doc # doc
      /\ n # 0 => a[n].doc = doc
  <2>1. \A r \in AnswerRecord : r.doc \in DocType
    BY DEF AnswerRecord
  <2> QED BY <1>1, <2>1, FindFacts
<1>3. \A k \in 1 .. Len(a) : a[k].doc \in DocType /\ a[k].lines \in Seq(Nat)
  <2> SUFFICES ASSUME NEW k \in 1 .. Len(a) PROVE a[k].doc \in DocType /\ a[k].lines \in Seq(Nat)
    OBVIOUS
  <2>1. a[k] \in AnswerRecord
    BY <1>1
  <2> QED BY <2>1 DEF AnswerRecord
<1>4. b = IF n = 0 THEN Append(a, [doc |-> doc, lines |-> <<l>>])
          ELSE IF l \in ToSet(a[n].lines) THEN a
          ELSE [a EXCEPT ![n].lines = Append(a[n].lines, l)]
  BY DEF AddLine
<1> HIDE DEF n
<1>5. CASE n = 0
  <2> DEFINE node == [doc |-> doc, lines |-> <<l>>]
  <2>1. node \in AnswerRecord /\ node.doc = doc /\ node.lines = <<l>>
    BY OneLine DEF AnswerRecord
  <2>2. b = Append(a, node)
    BY <1>4, <1>5
  <2> HIDE DEF node, b
  <2>3. /\ b \in Seq(AnswerRecord) /\ Len(b) = Len(a) + 1
        /\ b[Len(a) + 1] = node /\ \A k \in 1 .. Len(a) : b[k] = a[k]
    BY <1>1, <2>1, <2>2
  <2>4. \A k \in 1 .. Len(b) : k = Len(a) + 1 \/ k \in 1 .. Len(a)
    BY <1>1, <2>3
  <2>5. ASSUME NEW m \in 1 .. Len(b), NEW k \in 1 .. m - 1 PROVE b[k].doc # b[m].doc
    <3>1. CASE m = Len(a) + 1
      <4>1. k \in 1 .. Len(a)
        BY <1>1, <3>1
      <4> QED BY <1>2, <1>5, <2>1, <2>3, <3>1, <4>1
    <3>2. CASE m \in 1 .. Len(a)
      <4>1. k \in 1 .. Len(a)
        BY <1>1, <3>2
      <4> QED BY <1>1, <2>3, <3>2, <4>1
    <3> QED BY <2>4, <3>1, <3>2
  <2>6. \A m \in 1 .. Len(b) : Distinct(b[m].lines)
    <3>1. Distinct(node.lines)
      BY <2>1, OneLine
    <3>2. ASSUME NEW m \in 1 .. Len(b) PROVE Distinct(b[m].lines)
      <4>1. CASE m = Len(a) + 1
        BY <2>3, <3>1, <4>1
      <4>2. CASE m \in 1 .. Len(a)
        BY <1>1, <2>3, <4>2
      <4> QED BY <2>4, <4>1, <4>2
    <3> QED BY <3>2
  <2>7. ASSUME NEW d, NEW j PROVE Told(b, d, j) <=> Told(a, d, j) \/ (d = doc /\ j = l)
    <3>1. In(<<l>>, j) <=> j = l
      BY OneLine
    <3>2. ASSUME Told(b, d, j) PROVE Told(a, d, j) \/ (d = doc /\ j = l)
      <4>1. PICK m \in 1 .. Len(b) : b[m].doc = d /\ In(b[m].lines, j)
        BY <3>2 DEF Told
      <4> QED BY <2>1, <2>3, <2>4, <3>1, <4>1 DEF Told
    <3>3. ASSUME Told(a, d, j) PROVE Told(b, d, j)
      <4>1. PICK m \in 1 .. Len(a) : a[m].doc = d /\ In(a[m].lines, j)
        BY <3>3 DEF Told
      <4>2. m \in 1 .. Len(b) /\ b[m] = a[m]
        BY <1>1, <2>3
      <4> QED BY <4>1, <4>2 DEF Told
    <3>4. Len(a) + 1 \in 1 .. Len(b)
      BY <1>1, <2>3
    <3>5. d = doc /\ j = l => Told(b, d, j)
      BY <2>1, <2>3, <3>1, <3>4 DEF Told
    <3> QED BY <3>2, <3>3, <3>5
  <2>8. b \in Lists
    BY <2>3, <2>5, <2>6 DEF Lists
  <2> QED BY <2>7, <2>8 DEF b
<1>6. CASE n # 0 /\ l \in ToSet(a[n].lines)
  <2>1. b = a /\ n \in 1 .. Len(a)
    BY <1>1, <1>2, <1>4, <1>6
  <2>2. In(a[n].lines, l)
    <3>1. a[n].lines \in Seq(Nat)
      BY <1>3, <2>1
    <3>2. PICK s : s = a[n].lines
      OBVIOUS
    <3>3. DOMAIN s = 1 .. Len(s) /\ l \in ToSet(s)
      BY <1>6, <3>1, <3>2
    <3> QED BY <3>2, <3>3 DEF ToSet, In
  <2>3. Told(a, doc, l)
    BY <1>2, <1>6, <2>1, <2>2 DEF Told
  <2> HIDE DEF b
  <2>4. \A d, m : Told(b, d, m) <=> Told(a, d, m) \/ (d = doc /\ m = l)
    BY <2>1, <2>3
  <2> QED BY <2>1, <2>4 DEF b
<1>7. CASE n # 0 /\ l \notin ToSet(a[n].lines)
  <2> DEFINE s == a[n].lines
             t == Append(s, l)
  <2>1. n \in 1 .. Len(a) /\ s \in Seq(Nat) /\ Distinct(s) /\ a[n].doc = doc
    BY <1>1, <1>2, <1>3, <1>7
  <2>2. ~In(s, l)
    <3> HIDE DEF s
    <3>1. DOMAIN s = 1 .. Len(s)
      BY <2>1
    <3>2. l \notin ToSet(s)
      BY <1>7 DEF s
    <3> QED BY <3>1, <3>2 DEF ToSet, In
  <2>3. t \in Seq(Nat) /\ Distinct(t) /\ \A m : In(t, m) <=> In(s, m) \/ m = l
    <3> HIDE DEF s
    <3> QED BY <2>1, <2>2, AppendDistinct
  <2>4. b = [a EXCEPT ![n].lines = t]
    BY <1>4, <1>7
  <2> HIDE DEF b, t
  <2>5. a[n] = [doc |-> a[n].doc, lines |-> s]
    <3>1. a[n] \in AnswerRecord
      BY <1>1, <2>1
    <3> QED BY <3>1 DEF AnswerRecord
  <2> DEFINE node == [doc |-> doc, lines |-> t]
  <2>6. b = [a EXCEPT ![n] = node]
    <3> HIDE DEF s
    <3>1. b = [a EXCEPT ![n] = [a[n] EXCEPT !.lines = t]]
      BY <2>4
    <3>2. [a[n] EXCEPT !.lines = t] = [doc |-> a[n].doc, lines |-> t]
      BY <2>5
    <3> QED BY <2>1, <3>1, <3>2
  <2>7. node \in AnswerRecord /\ node.doc = doc /\ node.lines = t
    BY <2>3 DEF AnswerRecord
  <2> HIDE DEF node, s
  <2>8. /\ b \in Seq(AnswerRecord) /\ Len(b) = Len(a)
        /\ b[n] = node /\ \A k \in 1 .. Len(a) : k # n => b[k] = a[k]
    BY <1>1, <2>1, <2>6, <2>7
  <2>9. \A k \in 1 .. Len(a) : b[k].doc = a[k].doc
    BY <2>1, <2>7, <2>8
  <2>10. ASSUME NEW m \in 1 .. Len(b), NEW k \in 1 .. m - 1 PROVE b[k].doc # b[m].doc
    <3>1. m \in 1 .. Len(a) /\ k \in 1 .. Len(a)
      BY <1>1, <2>8
    <3> QED BY <1>1, <2>9, <3>1
  <2>11. \A m \in 1 .. Len(b) : Distinct(b[m].lines)
    BY <1>1, <2>3, <2>7, <2>8
  <2>12. b \in Lists
    BY <2>8, <2>10, <2>11 DEF Lists
  <2>13. \A j : In(b[n].lines, j) <=> In(a[n].lines, j) \/ j = l
    BY <2>3, <2>7, <2>8 DEF s
  <2>14. ASSUME NEW d, NEW j PROVE Told(b, d, j) <=> Told(a, d, j) \/ (d = doc /\ j = l)
    <3>1. ASSUME NEW m \in 1 .. Len(b), b[m].doc = d, In(b[m].lines, j) PROVE Told(a, d, j) \/ (d = doc /\ j = l)
      <4>1. m \in 1 .. Len(a) /\ a[m].doc = d
        BY <2>8, <2>9, <3>1
      <4>2. CASE m = n
        BY <2>1, <2>13, <3>1, <4>1, <4>2 DEF Told
      <4>3. CASE m # n
        BY <2>8, <3>1, <4>1, <4>3 DEF Told
      <4> QED BY <4>2, <4>3
    <3>2. ASSUME NEW m \in 1 .. Len(a), a[m].doc = d, In(a[m].lines, j) PROVE Told(b, d, j)
      <4>1. m \in 1 .. Len(b) /\ b[m].doc = d
        BY <2>8, <2>9, <3>2
      <4>2. In(b[m].lines, j)
        BY <2>8, <2>13, <3>2
      <4> QED BY <4>1, <4>2 DEF Told
    <3>3. ASSUME d = doc, j = l PROVE Told(b, d, j)
      <4>1. n \in 1 .. Len(b) /\ b[n].doc = d /\ In(b[n].lines, j)
        BY <2>1, <2>8, <2>9, <2>13, <3>3
      <4> QED BY <4>1 DEF Told
    <3> QED BY <3>1, <3>2, <3>3 DEF Told
  <2> QED BY <2>12, <2>14 DEF b
<1> QED BY <1>5, <1>6, <1>7

(***************************************************************************)
(* The loops over lines and nodes: each is a function that exists, because *)
(* one list of answers is made of another, and tells what was told before  *)
(* and what it was given.                                                  *)
(***************************************************************************)
LineLoop(f, a, n) ==
  f = [k \in 0 .. Len(n.lines) |-> IF k = 0 THEN a ELSE AddLine(f[k - 1], n.doc, n.lines[k])]

LEMMA LineLoopExists ==
  ASSUME NEW a \in Lists, NEW n \in NodeType
  PROVE  \E f : LineLoop(f, a, n) /\ AddPosting(a, n) = f[Len(n.lines)]
<1> DEFINE V == Lists
           Add(v, k) == AddLine(v, n.doc, n.lines[k])
           step == [p \in V \X Nat |-> Add(p[1], p[2])]
           top == Len(n.lines)
<1>1. n.doc \in DocType /\ top \in Nat /\ \A k \in 1 .. top : n.lines[k] \in Nat
  BY DEF NodeType
<1>2. \A v \in V, k \in 1 .. top : step[<<v, k>>] = Add(v, k) /\ Add(v, k) \in V
  <2> TAKE v \in V, k \in 1 .. top
  <2>1. step[<<v, k>>] = Add(v, k)
    <3> HIDE DEF V, Add
    <3> QED BY <1>1
  <2>2. v \in Lists /\ n.lines[k] \in Nat
    BY <1>1
  <2>3. Add(v, k) \in V
    BY <1>1, <2>2, AddLineFacts
  <2> QED BY <2>1, <2>3
<1>3. PICK f : Computes(f, V, a, step, top)
  <2>1. a \in V
    OBVIOUS
  <2> HIDE DEF V, step, Add, top
  <2>2. IsStep(V, step, top)
    BY <1>2 DEF IsStep
  <2> QED BY <1>1, <2>1, <2>2, Recursion
<1>4. LineLoop(f, a, n)
  <2> HIDE DEF step, V
  <2>1. ASSUME NEW k \in 1 .. top PROVE f[k] = Add(f[k - 1], k)
    <3>1. f[k - 1] \in V
      BY <1>1, <1>3, ComputesIn
    <3> QED BY <1>2, <1>3, <3>1 DEF Computes
  <2>2. ASSUME NEW k \in 0 .. top PROVE f[k] = IF k = 0 THEN a ELSE Add(f[k - 1], k)
    <3> HIDE DEF Add
    <3>1. k # 0 => k \in 1 .. top
      BY <1>1
    <3> QED BY <2>1, <1>3, <3>1 DEF Computes
  <2>3. f = [k \in 0 .. top |-> f[k]]
    BY <1>3 DEF Computes
  <2> QED BY <2>2, <2>3 DEF LineLoop
<1> DEFINE Loop(g) == LineLoop(g, a, n)
<1>5. AddPosting(a, n) = (CHOOSE g : Loop(g))[top]
  BY DEF AddPosting, LineLoop
<1> HIDE DEF Loop, top
<1>6. \E g : Loop(g) /\ AddPosting(a, n) = g[top]
  <2>1. Loop(f)
    BY <1>4 DEF Loop
  <2> QED BY <1>5, <2>1, Zenon
<1> QED BY <1>6 DEF Loop, top

LEMMA AddPostingFacts ==
  ASSUME NEW a \in Lists, NEW n \in NodeType
  PROVE  /\ AddPosting(a, n) \in Lists
         /\ \A d, m : Told(AddPosting(a, n), d, m) <=> Told(a, d, m) \/ (d = n.doc /\ In(n.lines, m))
<1>1. n.doc \in DocType /\ Len(n.lines) \in Nat /\ \A k \in 1 .. Len(n.lines) : n.lines[k] \in Nat
  BY DEF NodeType
<1>2. PICK f : LineLoop(f, a, n) /\ AddPosting(a, n) = f[Len(n.lines)]
  BY LineLoopExists
<1> DEFINE Upto(k, m) == \E j \in 1 .. k : n.lines[j] = m
           Good(k) == /\ f[k] \in Lists
                      /\ \A d, m : Told(f[k], d, m) <=> Told(a, d, m) \/ (d = n.doc /\ Upto(k, m))
           T == {k \in Nat : k <= Len(n.lines) => Good(k)}
<1>3. 0 \in T
  <2>1. f[0] = a
    BY <1>1, <1>2 DEF LineLoop
  <2>2. \A m : ~Upto(0, m)
    OBVIOUS
  <2> HIDE DEF Upto
  <2> QED BY <2>1, <2>2
<1>4. ASSUME NEW k \in T PROVE k + 1 \in T
  <2>1. SUFFICES ASSUME k + 1 <= Len(n.lines) PROVE Good(k + 1)
    OBVIOUS
  <2>2. Good(k) /\ k \in Nat /\ k + 1 \in 1 .. Len(n.lines)
    BY <1>1, <2>1
  <2>3. f[k + 1] = AddLine(f[k], n.doc, n.lines[k + 1])
    <3>1. k + 1 \in 0 .. Len(n.lines) /\ k + 1 # 0 /\ (k + 1) - 1 = k
      BY <1>1, <2>2
    <3> QED BY <1>2, <3>1 DEF LineLoop
  <2>4. \A m : Upto(k + 1, m) <=> Upto(k, m) \/ m = n.lines[k + 1]
    <3>1. \A j : j \in 1 .. k + 1 <=> j \in 1 .. k \/ j = k + 1
      BY <2>2
    <3> QED BY <3>1
  <2> HIDE DEF Upto
  <2>5. PICK b, l : b = f[k] /\ l = n.lines[k + 1]
    OBVIOUS
  <2>6. b \in Lists /\ l \in Nat
    BY <1>1, <2>2, <2>5
  <2>7. /\ AddLine(b, n.doc, l) \in Lists
        /\ \A d, m : Told(AddLine(b, n.doc, l), d, m) <=> Told(b, d, m) \/ (d = n.doc /\ m = l)
    BY <1>1, <2>6, AddLineFacts
  <2> QED BY <2>2, <2>3, <2>4, <2>5, <2>7
<1>5. T = Nat
  <2>1. T \subseteq Nat
    OBVIOUS
  <2> HIDE DEF T
  <2> QED BY <1>3, <1>4, <2>1, Induction
<1>6. Good(Len(n.lines))
  <2>1. Len(n.lines) \in T
    BY <1>1, <1>5
  <2> HIDE DEF Good
  <2> QED BY <1>1, <2>1
<1>7. \A m : Upto(Len(n.lines), m) <=> In(n.lines, m)
  BY DEF In
<1> HIDE DEF Upto
<1> QED BY <1>2, <1>6, <1>7

NodeLoop(f, a, list) ==
  f = [k \in 0 .. Len(list) |-> IF k = 0 THEN a ELSE AddPosting(f[k - 1], list[k])]

LEMMA NodeLoopExists ==
  ASSUME NEW a \in Lists, NEW list \in Seq(NodeType)
  PROVE  \E f : NodeLoop(f, a, list) /\ AddPostings(a, list) = f[Len(list)]
<1> DEFINE V == Lists
           Add(v, k) == AddPosting(v, list[k])
           step == [p \in V \X Nat |-> Add(p[1], p[2])]
           top == Len(list)
<1>1. top \in Nat /\ \A k \in 1 .. top : list[k] \in NodeType
  OBVIOUS
<1>2. \A v \in V, k \in 1 .. top : step[<<v, k>>] = Add(v, k) /\ Add(v, k) \in V
  <2> TAKE v \in V, k \in 1 .. top
  <2>1. step[<<v, k>>] = Add(v, k)
    <3> HIDE DEF V, Add
    <3> QED BY <1>1
  <2>2. v \in Lists /\ list[k] \in NodeType
    BY <1>1
  <2>3. Add(v, k) \in V
    BY <2>2, AddPostingFacts
  <2> QED BY <2>1, <2>3
<1>3. PICK f : Computes(f, V, a, step, top)
  <2>1. a \in V
    OBVIOUS
  <2> HIDE DEF V, step, Add, top
  <2>2. IsStep(V, step, top)
    BY <1>2 DEF IsStep
  <2> QED BY <1>1, <2>1, <2>2, Recursion
<1>4. NodeLoop(f, a, list)
  <2> HIDE DEF step, V
  <2>1. ASSUME NEW k \in 1 .. top PROVE f[k] = Add(f[k - 1], k)
    <3>1. f[k - 1] \in V
      BY <1>1, <1>3, ComputesIn
    <3> QED BY <1>2, <1>3, <3>1 DEF Computes
  <2>2. ASSUME NEW k \in 0 .. top PROVE f[k] = IF k = 0 THEN a ELSE Add(f[k - 1], k)
    <3> HIDE DEF Add
    <3>1. k # 0 => k \in 1 .. top
      BY <1>1
    <3> QED BY <2>1, <1>3, <3>1 DEF Computes
  <2>3. f = [k \in 0 .. top |-> f[k]]
    BY <1>3 DEF Computes
  <2> QED BY <2>2, <2>3 DEF NodeLoop
<1> DEFINE Loop(g) == NodeLoop(g, a, list)
<1>5. AddPostings(a, list) = (CHOOSE g : Loop(g))[top]
  BY DEF AddPostings, NodeLoop
<1> HIDE DEF Loop, top
<1>6. \E g : Loop(g) /\ AddPostings(a, list) = g[top]
  <2>1. Loop(f)
    BY <1>4 DEF Loop
  <2> QED BY <1>5, <2>1, Zenon
<1> QED BY <1>6 DEF Loop, top

InNode(list, d, m) == \E k \in 1 .. Len(list) : list[k].doc = d /\ In(list[k].lines, m)

LEMMA AddPostingsFacts ==
  ASSUME NEW a \in Lists, NEW list \in Seq(NodeType)
  PROVE  /\ AddPostings(a, list) \in Lists
         /\ \A d, m : Told(AddPostings(a, list), d, m) <=> Told(a, d, m) \/ InNode(list, d, m)
<1>1. Len(list) \in Nat /\ \A k \in 1 .. Len(list) : list[k] \in NodeType
  OBVIOUS
<1>2. PICK f : NodeLoop(f, a, list) /\ AddPostings(a, list) = f[Len(list)]
  BY NodeLoopExists
<1> DEFINE Upto(k, d, m) == \E j \in 1 .. k : list[j].doc = d /\ In(list[j].lines, m)
           Good(k) == /\ f[k] \in Lists
                      /\ \A d, m : Told(f[k], d, m) <=> Told(a, d, m) \/ Upto(k, d, m)
           T == {k \in Nat : k <= Len(list) => Good(k)}
<1>3. 0 \in T
  <2>1. f[0] = a
    BY <1>1, <1>2 DEF NodeLoop
  <2>2. \A d, m : ~Upto(0, d, m)
    OBVIOUS
  <2> HIDE DEF Upto
  <2> QED BY <2>1, <2>2
<1>4. ASSUME NEW k \in T PROVE k + 1 \in T
  <2>1. SUFFICES ASSUME k + 1 <= Len(list) PROVE Good(k + 1)
    OBVIOUS
  <2>2. Good(k) /\ k \in Nat /\ k + 1 \in 1 .. Len(list)
    BY <1>1, <2>1
  <2>3. f[k + 1] = AddPosting(f[k], list[k + 1])
    <3>1. k + 1 \in 0 .. Len(list) /\ k + 1 # 0 /\ (k + 1) - 1 = k
      BY <1>1, <2>2
    <3> QED BY <1>2, <3>1 DEF NodeLoop
  <2>5. PICK b, n : b = f[k] /\ n = list[k + 1]
    OBVIOUS
  <2>4. \A d, m : Upto(k + 1, d, m) <=> Upto(k, d, m) \/ (d = n.doc /\ In(n.lines, m))
    <3>1. \A j : j \in 1 .. k + 1 <=> j \in 1 .. k \/ j = k + 1
      BY <2>2
    <3> QED BY <2>5, <3>1
  <2> HIDE DEF Upto
  <2>6. b \in Lists /\ n \in NodeType
    BY <1>1, <2>2, <2>5
  <2>7. /\ AddPosting(b, n) \in Lists
        /\ \A d, m : Told(AddPosting(b, n), d, m) <=> Told(b, d, m) \/ (d = n.doc /\ In(n.lines, m))
    BY <2>6, AddPostingFacts
  <2> QED BY <2>2, <2>3, <2>4, <2>5, <2>7
<1>5. T = Nat
  <2>1. T \subseteq Nat
    OBVIOUS
  <2> HIDE DEF T
  <2> QED BY <1>3, <1>4, <2>1, Induction
<1>6. Good(Len(list))
  <2>1. Len(list) \in T
    BY <1>1, <1>5
  <2> HIDE DEF Good
  <2> QED BY <1>1, <2>1
<1>7. \A d, m : Upto(Len(list), d, m) <=> InNode(list, d, m)
  BY DEF InNode
<1> HIDE DEF Upto
<1> QED BY <1>2, <1>6, <1>7

LEMMA TwoSearches ==
  ASSUME NEW q1, NEW q2
  PROVE  SearchAnswers(<<q1, q2>>) = AddPostings(AddPostings(<<>>, Search(q1)), Search(q2))
<1> DEFINE q == <<q1, q2>>
           Loop(f) == f = [k \in 0 .. Len(q) |-> IF k = 0 THEN <<>> ELSE AddPostings(f[k - 1], Search(q[k]))]
           one == AddPostings(<<>>, Search(q1))
           two == AddPostings(one, Search(q2))
           h == [k \in 0 .. Len(q) |-> IF k = 0 THEN <<>> ELSE IF k = 1 THEN one ELSE two]
<1>1. Len(q) = 2 /\ q[1] = q1 /\ q[2] = q2
  OBVIOUS
<1>2. SearchAnswers(q) = (CHOOSE f : Loop(f))[Len(q)]
  BY DEF SearchAnswers
<1> HIDE DEF q
<1>3. Loop(h)
  <2>1. h[0] = <<>> /\ h[1] = one /\ h[2] = two
    <3> HIDE DEF one, two
    <3> QED BY <1>1
  <2>2. ASSUME NEW k \in 0 .. Len(q) PROVE h[k] = IF k = 0 THEN <<>> ELSE AddPostings(h[k - 1], Search(q[k]))
    <3>1. k \in {0, 1, 2}
      BY <1>1
    <3>2. CASE k = 0
      BY <2>1, <3>2
    <3>3. CASE k = 1
      <4>1. h[k - 1] = <<>> /\ q[k] = q1
        BY <1>1, <2>1, <3>3
      <4> HIDE DEF h
      <4> QED BY <2>1, <3>3, <4>1
    <3>4. CASE k = 2
      <4>1. h[k - 1] = one /\ q[k] = q2
        BY <1>1, <2>1, <3>4
      <4> HIDE DEF h, one
      <4> QED BY <2>1, <3>4, <4>1
    <3> QED BY <3>1, <3>2, <3>3, <3>4
  <2>3. h = [k \in 0 .. Len(q) |-> h[k]]
    OBVIOUS
  <2> HIDE DEF h
  <2> QED BY <2>2, <2>3
<1> HIDE DEF Loop
<1>4. PICK g : Loop(g) /\ SearchAnswers(q) = g[Len(q)]
  <2>1. \E g : Loop(g) /\ SearchAnswers(q) = g[Len(q)]
    <3> HIDE DEF h
    <3> QED BY <1>2, <1>3, Zenon
  <2> QED BY <2>1
<1>5. \A k \in 0 .. Len(q) : g[k] = IF k = 0 THEN <<>> ELSE AddPostings(g[k - 1], Search(q[k]))
  BY <1>4 DEF Loop
<1>6. 0 \in 0 .. Len(q) /\ 1 \in 0 .. Len(q) /\ 2 \in 0 .. Len(q) /\ 1 - 1 = 0 /\ 2 - 1 = 1
  BY <1>1
<1>7. g[0] = <<>>
  BY <1>5, <1>6
<1>8. g[1] = one
  BY <1>1, <1>5, <1>6, <1>7
<1>9. g[2] = two
  <2> HIDE DEF one
  <2> QED BY <1>1, <1>5, <1>6, <1>8
<1> QED BY <1>1, <1>4, <1>9 DEF q

(* The lines of the first k documents. *)
ToldPairs(a, k) == UNION {{<<a[m].doc, l>> : l \in ToSet(a[m].lines)} : m \in 1 .. k}

LEMMA InToldPairs ==
  ASSUME NEW a \in Lists, NEW k \in 0 .. Len(a), NEW x
  PROVE  x \in ToldPairs(a, k) <=>
           \E m \in 1 .. k : \E j \in 1 .. Len(a[m].lines) : x = <<a[m].doc, a[m].lines[j]>>
<1> DEFINE Of(m) == {<<a[m].doc, l>> : l \in ToSet(a[m].lines)}
<1>1. ToldPairs(a, k) = UNION {Of(m) : m \in 1 .. k}
  BY DEF ToldPairs
<1>2. ASSUME NEW m \in 1 .. k PROVE x \in Of(m) <=> \E j \in 1 .. Len(a[m].lines) : x = <<a[m].doc, a[m].lines[j]>>
  <2>1. PICK s : s = a[m].lines
    OBVIOUS
  <2>2. DOMAIN s = 1 .. Len(s)
    <3>1. a \in Seq(AnswerRecord) /\ m \in 1 .. Len(a)
      BY DEF Lists
    <3>2. a[m] \in AnswerRecord
      BY <3>1
    <3>3. s \in Seq(Nat)
      BY <2>1, <3>2 DEF AnswerRecord
    <3> QED BY <3>3
  <2> QED BY <2>1, <2>2 DEF ToSet
<1> HIDE DEF Of
<1>3. x \in ToldPairs(a, k) <=> \E m \in 1 .. k : x \in Of(m)
  BY <1>1
<1> QED BY <1>2, <1>3

LEMMA LinesOfOne ==
  ASSUME NEW d, NEW s \in Seq(Nat), Distinct(s), NEW S, S = {<<d, l>> : l \in ToSet(s)}
  PROVE  IsFiniteSet(S) /\ Cardinality(S) = Len(s)
<1> DEFINE b == [j \in 1 .. Len(s) |-> <<d, s[j]>>]
           I == 1 .. Len(s)
<1>1. Len(s) \in Nat /\ DOMAIN s = 1 .. Len(s)
  OBVIOUS
<1>2. b \in Surjection(I, S)
  <2>1. \A j \in I : b[j] = <<d, s[j]>> /\ s[j] \in ToSet(s)
    BY <1>1 DEF ToSet
  <2>2. b \in [I -> S]
    BY <2>1
  <2>3. ASSUME NEW t \in S PROVE \E j \in I : b[j] = t
    <3>1. PICK l \in ToSet(s) : t = <<d, l>>
      OBVIOUS
    <3>2. PICK j \in I : l = s[j]
      BY <1>1, <3>1 DEF ToSet
    <3> QED BY <2>1, <3>1, <3>2
  <2> HIDE DEF b
  <2> QED BY <2>2, <2>3 DEF Surjection
<1>3. b \in Injection(I, S)
  <2>1. b \in [I -> S] /\ DOMAIN b = I
    BY <1>2 DEF Surjection
  <2>2. ASSUME NEW j \in I, NEW k \in I, b[j] = b[k] PROVE j = k
    <3>1. b[j] = <<d, s[j]>> /\ b[k] = <<d, s[k]>>
      OBVIOUS
    <3>2. s[j] = s[k]
      <4> HIDE DEF b
      <4>1. <<d, s[j]>> = <<d, s[k]>>
        BY <2>2, <3>1
      <4> QED BY <4>1
    <3>3. j = k \/ j \in 1 .. k - 1 \/ k \in 1 .. j - 1
      BY <1>1
    <3> QED BY <3>2, <3>3 DEF Distinct
  <2> HIDE DEF b
  <2> QED BY <2>1, <2>2 DEF Injection, IsInjective
<1> HIDE DEF b
<1>4. ExistsBijection(I, S)
  BY <1>2, <1>3 DEF ExistsBijection, Bijection
<1>5. IsFiniteSet(I) /\ Cardinality(I) = Len(s)
  BY <1>1, FirstNumbers
<1> HIDE DEF I
<1> QED BY <1>4, <1>5, FS_Bijection

CountLoop(f, a) == f = [k \in 0 .. Len(a) |-> IF k = 0 THEN 0 ELSE f[k - 1] + Len(a[k].lines)]

LEMMA CountLoopExists ==
  ASSUME NEW a \in Lists
  PROVE  \E f : CountLoop(f, a) /\ NAnswers(a) = f[Len(a)]
<1> DEFINE Add(v, k) == v + Len(a[k].lines)
           step == [p \in Nat \X Nat |-> Add(p[1], p[2])]
           top == Len(a)
<1>1. top \in Nat /\ \A k \in 1 .. top : Len(a[k].lines) \in Nat
  <2>1. a \in Seq(AnswerRecord)
    BY DEF Lists
  <2>2. ASSUME NEW k \in 1 .. top PROVE Len(a[k].lines) \in Nat
    <3>1. a[k] \in AnswerRecord
      BY <2>1
    <3>2. a[k].lines \in Seq(Nat)
      BY <3>1 DEF AnswerRecord
    <3> QED BY <3>2
  <2> QED BY <2>1, <2>2
<1>2. \A v \in Nat, k \in 1 .. top : step[<<v, k>>] = Add(v, k) /\ Add(v, k) \in Nat
  BY <1>1
<1>3. PICK f : Computes(f, Nat, 0, step, top)
  <2> HIDE DEF step, Add, top
  <2>1. IsStep(Nat, step, top)
    BY <1>2 DEF IsStep
  <2> QED BY <1>1, <2>1, Recursion
<1>4. CountLoop(f, a)
  <2> HIDE DEF step
  <2>1. ASSUME NEW k \in 1 .. top PROVE f[k] = Add(f[k - 1], k)
    <3>1. f[k - 1] \in Nat
      BY <1>1, <1>3, ComputesIn
    <3> QED BY <1>2, <1>3, <3>1 DEF Computes
  <2>2. ASSUME NEW k \in 0 .. top PROVE f[k] = IF k = 0 THEN 0 ELSE Add(f[k - 1], k)
    <3> HIDE DEF Add
    <3>1. k # 0 => k \in 1 .. top
      BY <1>1
    <3> QED BY <2>1, <1>3, <3>1 DEF Computes
  <2>3. f = [k \in 0 .. top |-> f[k]]
    BY <1>3 DEF Computes
  <2> QED BY <2>2, <2>3 DEF CountLoop
<1> DEFINE Loop(g) == CountLoop(g, a)
<1>5. NAnswers(a) = (CHOOSE g : Loop(g))[top]
  BY DEF NAnswers, CountLoop
<1> HIDE DEF Loop, top
<1>6. \E g : Loop(g) /\ NAnswers(a) = g[top]
  <2>1. Loop(f)
    BY <1>4 DEF Loop
  <2> QED BY <1>5, <2>1, Zenon
<1> QED BY <1>6 DEF Loop, top

LEMMA NAnswersFacts ==
  ASSUME NEW a \in Lists
  PROVE  NAnswers(a) = Cardinality(ToldPairs(a, Len(a)))
<1>1. /\ a \in Seq(AnswerRecord) /\ Len(a) \in Nat
      /\ \A m \in 1 .. Len(a) : \A k \in 1 .. m - 1 : a[k].doc # a[m].doc
      /\ \A m \in 1 .. Len(a) : Distinct(a[m].lines)
  BY DEF Lists
<1>2. PICK f : CountLoop(f, a) /\ NAnswers(a) = f[Len(a)]
  BY CountLoopExists
<1> DEFINE Pairs(k) == ToldPairs(a, k)
           Good(k) == IsFiniteSet(Pairs(k)) /\ f[k] = Cardinality(Pairs(k))
           T == {k \in Nat : k <= Len(a) => Good(k)}
<1>3. 0 \in T
  <2>1. f[0] = 0
    BY <1>1, <1>2 DEF CountLoop
  <2>2. Pairs(0) = {}
    BY DEF ToldPairs
  <2> HIDE DEF Pairs
  <2> QED BY <2>1, <2>2, FS_EmptySet
<1>4. ASSUME NEW k \in T PROVE k + 1 \in T
  <2>1. SUFFICES ASSUME k + 1 <= Len(a) PROVE Good(k + 1)
    OBVIOUS
  <2>2. Good(k) /\ k \in Nat /\ k + 1 \in 1 .. Len(a) /\ k \in 0 .. Len(a) /\ k + 1 \in 0 .. Len(a)
    BY <1>1, <2>1
  <2>3. f[k + 1] = f[k] + Len(a[k + 1].lines)
    <3>1. k + 1 # 0 /\ (k + 1) - 1 = k
      BY <2>2
    <3> QED BY <1>2, <2>2, <3>1 DEF CountLoop
  <2> DEFINE s == a[k + 1].lines
             d == a[k + 1].doc
             S == {<<d, l>> : l \in ToSet(s)}
  <2>4. s \in Seq(Nat) /\ Distinct(s)
    <3>1. a[k + 1] \in AnswerRecord
      BY <1>1, <2>2
    <3> QED BY <1>1, <2>2, <3>1 DEF AnswerRecord
  <2>5. IsFiniteSet(S) /\ Cardinality(S) = Len(s)
    <3> HIDE DEF s, d
    <3> QED BY <2>4, LinesOfOne
  <2>6. Pairs(k + 1) = Pairs(k) \union S
    <3>1. \A j : j \in 1 .. k + 1 <=> j \in 1 .. k \/ j = k + 1
      BY <2>2
    <3> QED BY <3>1 DEF ToldPairs
  <2>7. Pairs(k) \intersect S = {}
    <3>1. SUFFICES ASSUME NEW x \in Pairs(k), x \in S PROVE FALSE
      OBVIOUS
    <3>2. PICK m \in 1 .. k : \E j \in 1 .. Len(a[m].lines) : x = <<a[m].doc, a[m].lines[j]>>
      BY <2>2, <3>1, InToldPairs
    <3>3. x[1] = a[m].doc /\ x[1] = a[k + 1].doc
      BY <3>1, <3>2
    <3>4. m \in 1 .. (k + 1) - 1
      BY <2>2
    <3> QED BY <1>1, <2>2, <3>3, <3>4
  <2> HIDE DEF Pairs, S
  <2>8. IsFiniteSet(Pairs(k + 1)) /\ Cardinality(Pairs(k + 1)) = Cardinality(Pairs(k)) + Cardinality(S) - Cardinality({})
    <3>1. PICK A, B : A = Pairs(k) /\ B = S
      OBVIOUS
    <3>2. IsFiniteSet(A) /\ IsFiniteSet(B)
      BY <2>2, <2>5, <3>1
    <3>3. /\ IsFiniteSet(A \union B)
          /\ Cardinality(A \union B) = Cardinality(A) + Cardinality(B) - Cardinality(A \intersect B)
      BY <3>2, FS_Union
    <3> QED BY <2>6, <2>7, <3>1, <3>3
  <2>9. Cardinality({}) = 0 /\ Cardinality(Pairs(k)) \in Nat /\ Cardinality(S) \in Nat
    BY <2>2, <2>5, FS_EmptySet, FS_CardinalityType
  <2> QED BY <2>2, <2>3, <2>5, <2>8, <2>9
<1>5. T = Nat
  <2>1. T \subseteq Nat
    OBVIOUS
  <2> HIDE DEF T
  <2> QED BY <1>3, <1>4, <2>1, Induction
<1>6. Good(Len(a))
  <2>1. Len(a) \in T
    BY <1>1, <1>5
  <2> HIDE DEF Good
  <2> QED BY <1>1, <2>1
<1> QED BY <1>2, <1>6

(* What the nodes of a list tell is what the files say. *)
LEMMA NodesTell ==
  ASSUME NEW c \in Corpora, NEW O, NEW list, NEW q, ListOK(c, O, list, q), \A o \in O : o[1] \in 1 .. Len(c),
         NEW d, NEW l
  PROVE  InNode(list, d, l) <=> \E o \in O : WordIn(c, o) = q /\ d = c[o[1]].id /\ l = o[2]
<1>1. /\ list \in Seq(NodeType)
      /\ \A k \in 1 .. Len(list) : \E e \in 1 .. Len(c) : NodeOK(c, O, list[k], q, e)
      /\ \A o \in O : WordIn(c, o) = q => \E k \in 1 .. Len(list) : list[k].doc = c[o[1]].id
  BY DEF ListOK
<1>2. ASSUME NEW k \in 1 .. Len(list) PROVE In(list[k].lines, l) <=> l \in ToSet(list[k].lines)
  <2>1. list[k] \in NodeType
    BY <1>1
  <2>2. PICK s : s = list[k].lines
    OBVIOUS
  <2>3. s \in Seq(Nat)
    BY <2>1, <2>2 DEF NodeType
  <2>4. DOMAIN s = 1 .. Len(s)
    BY <2>3
  <2> QED BY <2>2, <2>4 DEF In, ToSet
<1>3. ASSUME InNode(list, d, l) PROVE \E o \in O : WordIn(c, o) = q /\ d = c[o[1]].id /\ l = o[2]
  <2>1. PICK k \in 1 .. Len(list) : list[k].doc = d /\ In(list[k].lines, l)
    BY <1>3 DEF InNode
  <2>2. PICK e \in 1 .. Len(c) : NodeOK(c, O, list[k], q, e)
    BY <1>1
  <2>3. l \in {o[2] : o \in HitsOf(c, O, q, e)} /\ d = c[e].id
    BY <1>2, <2>1, <2>2 DEF NodeOK
  <2>4. PICK o \in HitsOf(c, O, q, e) : l = o[2]
    BY <2>3
  <2> QED BY <2>3, <2>4 DEF HitsOf
<1>4. ASSUME NEW o \in O, WordIn(c, o) = q, d = c[o[1]].id, l = o[2] PROVE InNode(list, d, l)
  <2>1. PICK k \in 1 .. Len(list) : list[k].doc = d
    BY <1>1, <1>4
  <2>2. PICK e \in 1 .. Len(c) : NodeOK(c, O, list[k], q, e)
    BY <1>1
  <2>3. c[e].id = c[o[1]].id
    BY <1>4, <2>1, <2>2 DEF NodeOK
  <2>4. e = o[1]
    BY <2>3, CorpusFacts
  <2>5. o \in HitsOf(c, O, q, e)
    BY <1>4, <2>4 DEF HitsOf
  <2>6. l \in ToSet(list[k].lines)
    BY <1>4, <2>2, <2>5 DEF NodeOK
  <2>7. In(list[k].lines, l)
    BY <1>2, <2>6
  <2> QED BY <2>1, <2>7 DEF InNode
<1> QED BY <1>3, <1>4

(* The words found are words of the files. *)
LEMMA OccurrencesAreWords ==
  ASSUME corpus \in Corpora, NEW o \in Occurrences
  PROVE  o[1] \in 1 .. Len(corpus) /\ o[2] \in Nat
<1>1. o \in Passed(corpus, txt_file, line, word)
  BY OccurrencesArePassed
<1>2. PICK d, m, k \in Nat : IsPlace(corpus, d, m, k) /\ o = <<d, m, k>>
  BY <1>1, PassedFacts
<1> QED BY <1>2 DEF IsPlace

LEMMA SearchedLines ==
  ASSUME IndexInv, NEW q1 \in Queries, NEW q2 \in Queries
  PROVE  LinesExact(q1, q2)
<1> DEFINE one == AddPostings(<<>>, Search(q1))
           two == AddPostings(one, Search(q2))
           told == ToldPairs(two, Len(two))
           said == {<<corpus[o[1]].id, o[2]>> : o \in OccurrencesOf(q1) \union OccurrencesOf(q2)}
<1>1. corpus \in Corpora /\ ListOK(corpus, Occurrences, Search(q1), q1) /\ ListOK(corpus, Occurrences, Search(q2), q2)
  BY SearchIsExact DEF IndexInv
<1>2. Search(q1) \in Seq(NodeType) /\ Search(q2) \in Seq(NodeType)
  BY <1>1 DEF ListOK
<1>3. <<>> \in Lists /\ \A d, l : ~Told(<<>>, d, l)
  <2>1. <<>> \in Seq(AnswerRecord) /\ Len(<<>>) = 0
    OBVIOUS
  <2> QED BY <2>1 DEF Lists, Told
<1>4. one \in Lists /\ \A d, l : Told(one, d, l) <=> InNode(Search(q1), d, l)
  <2>1. PICK a, list : a = <<>> /\ list = Search(q1)
    OBVIOUS
  <2>2. a \in Lists /\ list \in Seq(NodeType)
    BY <1>2, <1>3, <2>1
  <2>3. /\ AddPostings(a, list) \in Lists
        /\ \A d, m : Told(AddPostings(a, list), d, m) <=> Told(a, d, m) \/ InNode(list, d, m)
    BY <2>2, AddPostingsFacts
  <2> QED BY <1>3, <2>1, <2>3
<1>5. two \in Lists /\ \A d, l : Told(two, d, l) <=> InNode(Search(q1), d, l) \/ InNode(Search(q2), d, l)
  <2> HIDE DEF one
  <2>1. PICK a, list : a = one /\ list = Search(q2)
    OBVIOUS
  <2>2. a \in Lists /\ list \in Seq(NodeType)
    BY <1>2, <1>4, <2>1
  <2>3. /\ AddPostings(a, list) \in Lists
        /\ \A d, m : Told(AddPostings(a, list), d, m) <=> Told(a, d, m) \/ InNode(list, d, m)
    BY <2>2, AddPostingsFacts
  <2> QED BY <1>4, <2>1, <2>3
<1>6. SearchAnswers(<<q1, q2>>) = two
  BY TwoSearches
<1> HIDE DEF two
<1>7. ASSUME NEW d, NEW l
      PROVE  Told(two, d, l) <=> \E o \in Occurrences : (WordAt(o) = q1 \/ WordAt(o) = q2) /\ d = corpus[o[1]].id /\ l = o[2]
  <2>1. \A o \in Occurrences : o[1] \in 1 .. Len(corpus)
    BY <1>1, OccurrencesAreWords
  <2>2. PICK c, O, s1, s2 : c = corpus /\ O = Occurrences /\ s1 = Search(q1) /\ s2 = Search(q2)
    OBVIOUS
  <2>3. c \in Corpora /\ ListOK(c, O, s1, q1) /\ ListOK(c, O, s2, q2) /\ \A o \in O : o[1] \in 1 .. Len(c)
    BY <1>1, <2>1, <2>2
  <2>4. InNode(s1, d, l) <=> \E o \in O : WordIn(c, o) = q1 /\ d = c[o[1]].id /\ l = o[2]
    BY <2>3, NodesTell
  <2>5. InNode(s2, d, l) <=> \E o \in O : WordIn(c, o) = q2 /\ d = c[o[1]].id /\ l = o[2]
    BY <2>3, NodesTell
  <2>6. \A o : WordAt(o) = WordIn(c, o)
    BY <2>2 DEF WordAt, WordIn
  <2>7. Told(two, d, l) <=> InNode(s1, d, l) \/ InNode(s2, d, l)
    BY <1>5, <2>2
  <2> QED BY <2>2, <2>4, <2>5, <2>6, <2>7
<1>8. ASSUME NEW x PROVE x \in told <=> \E d, l : Told(two, d, l) /\ x = <<d, l>>
  <2>1. Len(two) \in 0 .. Len(two)
    BY <1>5 DEF Lists
  <2>2. x \in told <=> \E m \in 1 .. Len(two) : \E j \in 1 .. Len(two[m].lines) : x = <<two[m].doc, two[m].lines[j]>>
    BY <1>5, <2>1, InToldPairs
  <2> QED BY <2>2 DEF Told, In
<1>9. ASSUME NEW x
      PROVE  x \in said <=>
               \E o \in Occurrences : (WordAt(o) = q1 \/ WordAt(o) = q2) /\ x = <<corpus[o[1]].id, o[2]>>
  <2>1. x \in said <=> \E o \in OccurrencesOf(q1) \union OccurrencesOf(q2) : x = <<corpus[o[1]].id, o[2]>>
    OBVIOUS
  <2> QED BY <2>1 DEF OccurrencesOf
<1> HIDE DEF told, said
<1>10. told = said
  <2>1. \A x : x \in told <=> x \in said
    BY <1>7, <1>8, <1>9
  <2> QED BY <2>1
<1>11. NAnswers(two) = Cardinality(told)
  BY <1>5, NAnswersFacts DEF told
<1> DEFINE ans == SearchAnswers(<<q1, q2>>)
           pairs == UNION {{<<ans[m].doc, l>> : l \in ToSet(ans[m].lines)} : m \in 1 .. Len(ans)}
<1>12. pairs = told
  BY <1>6 DEF told, ToldPairs
<1>13. LinesExact(q1, q2) <=> pairs = said /\ NAnswers(ans) = Cardinality(pairs)
  BY DEF LinesExact, said
<1> HIDE DEF pairs, ans
<1> QED
  <2>1. NAnswers(ans) = NAnswers(two)
    BY <1>6 DEF ans
  <2> QED BY <1>10, <1>11, <1>12, <1>13, <2>1
-----------------------------------------------------------------------------
(* Counts: the node that the loop keeps is one of the list, and no other beats it. *)
LEMMA PathOfDoc ==
  ASSUME corpus \in Corpora, NEW d \in 1 .. Len(corpus)
  PROVE  Path(corpus[d].id) = corpus[d].path
<1> DEFINE Is(e) == e \in 1 .. Len(corpus) /\ corpus[e].id = corpus[d].id
<1>1. \A e : Is(e) => e = d
  BY CorpusFacts
<1>2. Is(d)
  OBVIOUS
<1>3. (CHOOSE e : Is(e)) = d
  <2> HIDE DEF Is
  <2> QED BY <1>1, <1>2, Zenon
<1>4. (CHOOSE e \in 1 .. Len(corpus) : corpus[e].id = corpus[d].id) = CHOOSE e : Is(e)
  OBVIOUS
<1> QED BY <1>3, <1>4 DEF Path

BestType == [freq : Nat, doc : DocType]

Kept(n, b, k, most) ==
  IF k = 1 \/ Beats(n, b.freq, b.doc, most) THEN [freq |-> n.freq, doc |-> n.doc] ELSE b

BestLoop(f, list, most) == f = [k \in 1 .. Len(list) |-> Kept(list[k], f[k - 1], k, most)]

LEMMA BestLoopExists ==
  ASSUME NEW q, NEW most, NEW list \in Seq(NodeType), Search(q) = list, list # <<>>
  PROVE  \E f : /\ BestLoop(f, list, most) /\ Count(q, most) = f[Len(list)]
                /\ \A k \in 1 .. Len(list) : f[k] \in BestType
<1> DEFINE V == BestType
           base == [freq |-> 0, doc |-> <<0, 0>>]
           Add(v, k) == Kept(list[k], v, k, most)
           step == [p \in V \X Nat |-> Add(p[1], p[2])]
           top == Len(list)
<1>1. /\ top \in Nat /\ base \in V /\ top \in 1 .. top
      /\ \A k \in 1 .. top : list[k].freq \in Nat /\ list[k].doc \in DocType
  <2>1. base \in V
    BY DEF BestType, DocType
  <2>2. ASSUME NEW k \in 1 .. top PROVE list[k].freq \in Nat /\ list[k].doc \in DocType
    <3>1. list[k] \in NodeType
      OBVIOUS
    <3> QED BY <3>1 DEF NodeType
  <2>3. top \in Nat /\ top \in 1 .. top
    OBVIOUS
  <2> QED BY <2>1, <2>2, <2>3
<1>2. \A v \in V, k \in 1 .. top : step[<<v, k>>] = Add(v, k) /\ Add(v, k) \in V
  <2> TAKE v \in V, k \in 1 .. top
  <2>1. step[<<v, k>>] = Add(v, k)
    <3> HIDE DEF V, Add
    <3> QED BY <1>1
  <2>2. Add(v, k) \in V
    BY <1>1 DEF Kept, BestType
  <2> QED BY <2>1, <2>2
<1>3. PICK h : Computes(h, V, base, step, top)
  <2> HIDE DEF V, step, Add, top, base
  <2>1. IsStep(V, step, top)
    BY <1>2 DEF IsStep
  <2> QED BY <1>1, <2>1, Recursion
<1> DEFINE f == [k \in 1 .. top |-> h[k]]
<1>4. ASSUME NEW k \in 1 .. top PROVE f[k] = Add(f[k - 1], k) /\ f[k] \in V
  <2> HIDE DEF step, V
  <2>1. h[k - 1] \in V /\ h[k] \in V
    <3>1. k - 1 \in 0 .. top /\ k \in 0 .. top
      BY <1>1
    <3> QED BY <1>3, <3>1 DEF Computes
  <2>2. h[k] = Add(h[k - 1], k)
    BY <1>2, <1>3, <2>1 DEF Computes
  <2>3. f[k] = h[k]
    OBVIOUS
  <2>4. CASE k = 1
    BY <2>1, <2>2, <2>3, <2>4 DEF Kept
  <2>5. CASE k # 1
    <3>1. k - 1 \in 1 .. top
      BY <1>1, <2>5
    <3>2. f[k - 1] = h[k - 1]
      BY <3>1
    <3> HIDE DEF f
    <3> QED BY <2>1, <2>2, <2>3, <3>2
  <2> QED BY <2>4, <2>5
<1>5. BestLoop(f, list, most)
  <2>1. f = [k \in 1 .. top |-> f[k]]
    OBVIOUS
  <2> HIDE DEF f
  <2> QED BY <1>4, <2>1 DEF BestLoop
<1> DEFINE Loop(g) == BestLoop(g, list, most)
<1>6. Count(q, most) = (CHOOSE g : Loop(g))[top]
  BY DEF Count, BestLoop, Kept
<1> HIDE DEF Loop, top, f
<1>7. \E g : Loop(g) /\ Count(q, most) = g[top]
  <2>1. Loop(f)
    BY <1>5 DEF Loop
  <2> QED BY <1>6, <2>1, Zenon
<1>8. PICK g : Loop(g) /\ Count(q, most) = g[top]
  BY <1>7
<1>9. \A k \in 1 .. top : g[k] = Kept(list[k], g[k - 1], k, most)
  BY <1>8 DEF Loop, BestLoop, top
<1>10. \A k \in 1 .. top : g[k] \in BestType
  <2> DEFINE T == {k \in Nat : k + 1 <= top => g[k + 1] \in BestType}
  <2>1. 0 \in T
    <3> SUFFICES ASSUME 1 <= top PROVE g[1] \in BestType
      OBVIOUS
    <3>1. 1 \in 1 .. top
      BY <1>1
    <3>2. g[1] = [freq |-> list[1].freq, doc |-> list[1].doc]
      BY <1>9, <3>1 DEF Kept
    <3> QED BY <1>1, <3>1, <3>2 DEF BestType
  <2>2. ASSUME NEW k \in T PROVE k + 1 \in T
    <3> SUFFICES ASSUME k + 1 + 1 <= top PROVE g[k + 1 + 1] \in BestType
      OBVIOUS
    <3>1. k \in Nat /\ k + 1 + 1 \in 1 .. top /\ (k + 1 + 1) - 1 = k + 1 /\ g[k + 1] \in BestType
      BY <1>1
    <3>2. PICK m, b : m = k + 1 + 1 /\ b = g[k + 1]
      OBVIOUS
    <3>3. g[m] = Kept(list[m], b, m, most)
      BY <1>9, <3>1, <3>2
    <3>4. list[m].freq \in Nat /\ list[m].doc \in DocType /\ b \in BestType
      BY <1>1, <3>1, <3>2
    <3> QED BY <3>2, <3>3, <3>4 DEF Kept, BestType
  <2>3. T = Nat
    <3>1. T \subseteq Nat
      OBVIOUS
    <3> HIDE DEF T
    <3> QED BY <2>1, <2>2, <3>1, Induction
  <2>4. ASSUME NEW k \in 1 .. top PROVE g[k] \in BestType
    <3>1. k - 1 \in Nat /\ (k - 1) + 1 = k /\ k <= top
      BY <1>1
    <3>2. k - 1 \in T
      <4> HIDE DEF T
      <4> QED BY <2>3, <3>1
    <3> QED BY <3>1, <3>2
  <2> QED BY <2>4
<1> QED BY <1>8, <1>10 DEF Loop, top

(* Counts of which the second is no better than the first. *)
NotBetter(b, n, most) ==
  \/ n.doc = b.doc /\ n.freq = b.freq
  \/ IF most THEN n.freq < b.freq ELSE n.freq > b.freq
  \/ n.freq = b.freq /\ Path(b.doc) < Path(n.doc)

LEMMA KeptIsBest ==
  ASSUME NEW b \in BestType, NEW n \in NodeType, NEW k \in Nat, k # 1, NEW most \in BOOLEAN,
         Path(b.doc) \in Nat, Path(n.doc) \in Nat, Path(b.doc) = Path(n.doc) => b.doc = n.doc
  PROVE  /\ NotBetter(Kept(n, b, k, most), n, most)
         /\ \A r \in NodeType : Path(r.doc) \in Nat /\ NotBetter(b, r, most) => NotBetter(Kept(n, b, k, most), r, most)
<1>1. b.freq \in Nat /\ n.freq \in Nat
  BY DEF BestType, NodeType
<1>2. CASE Beats(n, b.freq, b.doc, most)
  <2>1. PICK new : new = Kept(n, b, k, most)
    OBVIOUS
  <2>2. new.freq = n.freq /\ new.doc = n.doc
    BY <1>2, <2>1 DEF Kept
  <2>3. ASSUME NEW r \in NodeType, Path(r.doc) \in Nat, NotBetter(b, r, most) PROVE NotBetter(new, r, most)
    <3>1. r.freq \in Nat
      BY DEF NodeType
    <3>2. CASE r.doc = b.doc /\ r.freq = b.freq
      BY <1>1, <1>2, <2>2, <3>1, <3>2 DEF NotBetter, Beats
    <3>3. CASE IF most THEN r.freq < b.freq ELSE r.freq > b.freq
      BY <1>1, <1>2, <2>2, <3>1, <3>3 DEF NotBetter, Beats
    <3>4. CASE r.freq = b.freq /\ Path(b.doc) < Path(r.doc)
      BY <1>1, <1>2, <2>2, <2>3, <3>1, <3>4 DEF NotBetter, Beats
    <3> QED BY <2>3, <3>2, <3>3, <3>4 DEF NotBetter
  <2> QED BY <2>1, <2>2, <2>3 DEF NotBetter
<1>3. CASE ~Beats(n, b.freq, b.doc, most)
  <2>1. Kept(n, b, k, most) = b
    BY <1>3 DEF Kept
  <2>2. NotBetter(b, n, most)
    BY <1>1, <1>3 DEF NotBetter, Beats
  <2> QED BY <2>1, <2>2
<1> QED BY <1>2, <1>3

LEMMA BestOfList ==
  ASSUME NEW q, NEW most \in BOOLEAN, NEW list \in Seq(NodeType), Search(q) = list, list # <<>>,
         \A k \in 1 .. Len(list) : Path(list[k].doc) \in Nat,
         \A j, k \in 1 .. Len(list) : Path(list[j].doc) = Path(list[k].doc) => list[j].doc = list[k].doc
  PROVE  /\ \E k \in 1 .. Len(list) : Count(q, most).doc = list[k].doc /\ Count(q, most).freq = list[k].freq
         /\ \A k \in 1 .. Len(list) : NotBetter(Count(q, most), list[k], most)
<1>1. /\ Len(list) \in Nat /\ Len(list) # 0
      /\ \A k \in 1 .. Len(list) : list[k] \in NodeType
  OBVIOUS
<1>2. PICK f : /\ BestLoop(f, list, most) /\ Count(q, most) = f[Len(list)]
               /\ \A k \in 1 .. Len(list) : f[k] \in BestType
  BY BestLoopExists
<1>3. \A k \in 1 .. Len(list) : f[k] = Kept(list[k], f[k - 1], k, most)
  BY <1>2 DEF BestLoop
<1> DEFINE From(k) == \E j \in 1 .. k : f[k].doc = list[j].doc /\ f[k].freq = list[j].freq
           BestTo(k) == \A m \in 1 .. k : NotBetter(f[k], list[m], most)
           T == {k \in Nat : k + 1 <= Len(list) => From(k + 1) /\ BestTo(k + 1)}
<1>4. 0 \in T
  <2> SUFFICES From(1) /\ BestTo(1)
    OBVIOUS
  <2>1. 1 \in 1 .. Len(list)
    BY <1>1
  <2>2. f[1].doc = list[1].doc /\ f[1].freq = list[1].freq
    <3>1. f[1] = [freq |-> list[1].freq, doc |-> list[1].doc]
      BY <1>3, <2>1 DEF Kept
    <3> QED BY <3>1
  <2>3. \A m \in 1 .. 1 : m = 1
    OBVIOUS
  <2> QED BY <2>2, <2>3 DEF NotBetter
<1>5. ASSUME NEW k \in T PROVE k + 1 \in T
  <2>1. SUFFICES ASSUME k + 1 + 1 <= Len(list) PROVE From(k + 1 + 1) /\ BestTo(k + 1 + 1)
    OBVIOUS
  <2>2. PICK e, m : e = k + 1 /\ m = k + 1 + 1
    OBVIOUS
  <2>3. /\ e \in 1 .. Len(list) /\ m \in 1 .. Len(list) /\ m - 1 = e /\ m # 1 /\ m \in Nat
        /\ From(e) /\ BestTo(e) /\ m = e + 1
    BY <1>1, <2>1, <2>2
  <2>4. PICK b, n, new : b = f[e] /\ n = list[m] /\ new = f[m]
    OBVIOUS
  <2>5. new = Kept(n, b, m, most) /\ b \in BestType /\ n \in NodeType
    BY <1>1, <1>2, <1>3, <2>3, <2>4
  <2>6. PICK j \in 1 .. e : b.doc = list[j].doc /\ b.freq = list[j].freq
    BY <2>3, <2>4
  <2>7. j \in 1 .. Len(list)
    BY <1>1, <2>3
  <2>8. Path(b.doc) \in Nat /\ Path(n.doc) \in Nat /\ (Path(b.doc) = Path(n.doc) => b.doc = n.doc)
    BY <2>3, <2>4, <2>6, <2>7
  <2>9. NotBetter(new, n, most)
    BY <2>3, <2>5, <2>8, KeptIsBest
  <2>10. \A r \in NodeType : Path(r.doc) \in Nat /\ NotBetter(b, r, most) => NotBetter(new, r, most)
    BY <2>3, <2>5, <2>8, KeptIsBest
  <2>11. BestTo(m)
    <3> SUFFICES ASSUME NEW l \in 1 .. m PROVE NotBetter(new, list[l], most)
      BY <2>4
    <3>1. l = m \/ (l \in 1 .. e /\ l \in 1 .. Len(list))
      BY <1>1, <2>3
    <3>2. CASE l = m
      BY <2>4, <2>9, <3>2
    <3>3. CASE l \in 1 .. e /\ l \in 1 .. Len(list)
      <4>1. NotBetter(b, list[l], most)
        BY <2>3, <2>4, <3>3
      <4> QED BY <1>1, <2>10, <3>3, <4>1
    <3> QED BY <3>1, <3>2, <3>3
  <2>12. From(m)
    <3>1. CASE new = b
      <4>1. j \in 1 .. m
        BY <2>3
      <4> QED BY <2>4, <2>6, <3>1, <4>1
    <3>2. CASE new = [freq |-> n.freq, doc |-> n.doc]
      <4>1. m \in 1 .. m /\ new.doc = n.doc /\ new.freq = n.freq
        BY <2>3, <3>2
      <4> QED BY <2>4, <4>1
    <3> QED BY <2>5, <3>1, <3>2 DEF Kept
  <2> QED BY <2>2, <2>11, <2>12
<1>6. T = Nat
  <2>1. T \subseteq Nat
    OBVIOUS
  <2> HIDE DEF T
  <2> QED BY <1>4, <1>5, <2>1, Induction
<1>7. From(Len(list)) /\ BestTo(Len(list))
  <2>1. Len(list) - 1 \in Nat /\ (Len(list) - 1) + 1 = Len(list)
    BY <1>1
  <2>2. Len(list) - 1 \in T
    <3> HIDE DEF T
    <3> QED BY <1>6, <2>1
  <2> HIDE DEF From, BestTo
  <2> QED BY <1>1, <2>1, <2>2
<1> QED BY <1>2, <1>7

LEMMA CountedFiles ==
  ASSUME IndexInv, NEW q \in Queries, NEW most \in BOOLEAN, Search(q) # <<>>
  PROVE  CountExact(q, most)
<1>1. PICK c, O, list, best :
        c = corpus /\ O = Occurrences /\ list = Search(q) /\ best = Count(q, most)
  OBVIOUS
<1>2. c \in Corpora /\ ListOK(c, O, list, q) /\ IsFiniteSet(O)
  BY <1>1, SearchIsExact, OccurrencesArePassed DEF IndexInv, Counted
<1>3. /\ list \in Seq(NodeType) /\ list # <<>>
      /\ \A k \in 1 .. Len(list) : \E d \in 1 .. Len(c) : NodeOK(c, O, list[k], q, d)
      /\ \A o \in O : WordIn(c, o) = q => \E k \in 1 .. Len(list) : list[k].doc = c[o[1]].id
  BY <1>1, <1>2 DEF ListOK
<1>4. \A d \in 1 .. Len(c) : Path(c[d].id) = c[d].path /\ c[d].path \in Nat
  BY <1>1, <1>2, PathOfDoc, CorpusFacts
<1>5. \A d, e \in 1 .. Len(c) : (c[d].id = c[e].id => d = e) /\ (c[d].path = c[e].path => d = e)
  BY <1>2, CorpusFacts
<1>6. \A k \in 1 .. Len(list) : \E d \in 1 .. Len(c) : list[k].doc = c[d].id
  BY <1>3 DEF NodeOK
<1>7. /\ \A k \in 1 .. Len(list) : Path(list[k].doc) \in Nat
      /\ \A j, k \in 1 .. Len(list) : Path(list[j].doc) = Path(list[k].doc) => list[j].doc = list[k].doc
  <2>1. ASSUME NEW k \in 1 .. Len(list) PROVE Path(list[k].doc) \in Nat
    BY <1>4, <1>6
  <2>2. ASSUME NEW j \in 1 .. Len(list), NEW k \in 1 .. Len(list), Path(list[j].doc) = Path(list[k].doc)
        PROVE  list[j].doc = list[k].doc
    <3>1. PICK d \in 1 .. Len(c) : list[j].doc = c[d].id
      BY <1>6
    <3>2. PICK e \in 1 .. Len(c) : list[k].doc = c[e].id
      BY <1>6
    <3> QED BY <1>4, <1>5, <2>2, <3>1, <3>2
  <2> QED BY <2>1, <2>2
<1>8. \E k \in 1 .. Len(list) : best.doc = list[k].doc /\ best.freq = list[k].freq
  <2>1. Search(q) = list
    BY <1>1
  <2>2. list \in Seq(NodeType) /\ list # <<>>
    BY <1>3
  <2>3. \E k \in 1 .. Len(list) : Count(q, most).doc = list[k].doc /\ Count(q, most).freq = list[k].freq
    BY <1>7, <2>1, <2>2, BestOfList, ZenonT(60)
  <2> QED BY <1>1, <2>3
<1>9. \A k \in 1 .. Len(list) : NotBetter(best, list[k], most)
  BY <1>1, <1>3, <1>7, BestOfList
<1> DEFINE H(d) == HitsOf(c, O, q, d)
           in(d) == Cardinality(H(d))
<1>10. ASSUME NEW d PROVE IsFiniteSet(H(d)) /\ in(d) \in Nat /\ (in(d) = 0 <=> H(d) = {}) /\ HitsIn(q, d) = H(d)
  <2>1. H(d) \subseteq O
    BY DEF HitsOf
  <2>2. HitsIn(q, d) = H(d)
    BY <1>1 DEF HitsIn, OccurrencesOf, HitsOf, WordAt, WordIn
  <2> HIDE DEF H
  <2>3. IsFiniteSet(H(d))
    BY <1>2, <2>1, FS_Subset
  <2> QED BY <2>2, <2>3, FS_CardinalityType, FS_EmptySet
<1>11. ASSUME NEW k \in 1 .. Len(list), NEW d \in 1 .. Len(c), list[k].doc = c[d].id
       PROVE  list[k].freq = in(d) /\ in(d) > 0
  <2>1. PICK e \in 1 .. Len(c) : NodeOK(c, O, list[k], q, e)
    BY <1>3
  <2>2. e = d
    BY <1>5, <1>11, <2>1 DEF NodeOK
  <2>3. H(d) # {} /\ list[k].freq = in(d)
    BY <2>1, <2>2 DEF NodeOK
  <2> HIDE DEF H
  <2> QED BY <1>10, <2>3
<1>12. \E d \in 1 .. Len(c) : c[d].id = best.doc /\ in(d) = best.freq /\ in(d) > 0
  <2>1. PICK k \in 1 .. Len(list) : best.doc = list[k].doc /\ best.freq = list[k].freq
    BY <1>8
  <2>2. PICK d \in 1 .. Len(c) : list[k].doc = c[d].id
    BY <1>6
  <2> HIDE DEF in
  <2> QED BY <1>11, <2>1, <2>2
<1>13. ASSUME NEW d \in 1 .. Len(c), in(d) > 0
       PROVE  \/ c[d].id = best.doc
              \/ IF most THEN in(d) < best.freq ELSE in(d) > best.freq
              \/ in(d) = best.freq /\ Path(best.doc) < c[d].path
  <2>1. H(d) # {}
    <3> HIDE DEF H
    <3> QED BY <1>10, <1>13
  <2>2. PICK o \in O : WordIn(c, o) = q /\ o[1] = d
    BY <2>1 DEF HitsOf
  <2>3. PICK k \in 1 .. Len(list) : list[k].doc = c[d].id
    BY <1>3, <2>2
  <2> HIDE DEF in
  <2>4. list[k].freq = in(d)
    BY <1>11, <2>3
  <2> QED BY <1>4, <1>9, <2>3, <2>4 DEF NotBetter
<1>14. \A d : Cardinality(HitsIn(q, d)) = in(d)
  BY <1>10
<1> HIDE DEF in
<1> QED BY <1>1, <1>12, <1>13, <1>14 DEF CountExact

LEMMA IndexInvAnswers == IndexInv => AnswersExact
  BY SearchedLines, CountedFiles DEF AnswersExact

(***************************************************************************)
(* The answers to a search for two words, and to /maxcount and /mincount,  *)
(* are what the files say, for any files and words.                        *)
(***************************************************************************)
THEOREM AnswersExactHolds == IndexSpec => []AnswersExact
  BY IndexInvHolds, IndexInvAnswers, PTL
-----------------------------------------------------------------------------
(***************************************************************************)
(* The answers of any number of workers are merged rightly: for all counts *)
(* and files, and whoever dies when, a result of /maxcount or /mincount    *)
(* that is shown and that all workers took part in is the best one, and a  *)
(* total of /wc the sum.                                                   *)
(*                                                                         *)
(* BestShown and TotalShown speak of the end of the loop only.  IInv says  *)
(* what holds before: the file at hand is the best of the workers read so  *)
(* far (Best), or the number at hand is their total (SoFar), the name just *)
(* read belongs to the next worker (NameFits), and a worker that was read  *)
(* without having answered never answers (Settled), which is why answers   *)
(* that come late cannot disturb the others.                               *)
(***************************************************************************)
(* the workers whose names, for /wc whose numbers, have been read *)
Past == 1 .. (IF pc = "number" /\ cmd # "/wc" THEN i ELSE i - 1)

Settled  == Past \subseteq sent \union ended
Noted    == /\ Workers \ alive_workers \subseteq ended
            /\ ~some_worker_died => alive_workers = Workers
Place    == /\ pc = "number" => i \in Workers
            /\ pc = "done" => i = N + 1
            /\ shown => pc = "done"
NameFits == pc = "number" /\ cmd # "/wc" /\ ~some_worker_died /\ i \in sent => named = answer[i].file
Best     == cmd # "/wc" /\ ~some_worker_died /\ 1 .. i - 1 \subseteq sent
              => FirstOf(i - 1, counter, file)
SoFar    == cmd = "/wc" /\ ~some_worker_died /\ 1 .. i - 1 \subseteq sent
              => counter = Total(answer, i - 1)

IInv == TypeOK /\ Settled /\ Noted /\ Place /\ NameFits /\ Best /\ SoFar /\ BestShown /\ TotalShown

-----------------------------------------------------------------------------
(* What an answer holds. *)
LEMMA AnswerType ==
  ASSUME NEW a \in Answer
  PROVE  /\ a.count \in Nat /\ a.count < INT_MAX
         /\ a.file \in Nat /\ a.file \in Files \union {NULL}
         /\ a.count > 0 => a.file \in Files
<1> USE MergeAssumption DEF NULL
<1>1. CASE a \in [count : {0}, file : {NULL}]
  <2>1. a.count = 0 /\ a.file = 0
    BY <1>1
  <2> QED  BY <2>1
<1>2. CASE a \in [count : Counts \ {0}, file : Files]
  <2>1. a.count \in Counts /\ a.file \in Files
    BY <1>2
  <2>2. a.count \in Nat /\ a.count < INT_MAX
    BY <2>1 DEF Counts
  <2>3. a.file \in Nat
    BY <2>1
  <2> QED  BY <2>1, <2>2, <2>3
<1> QED  BY <1>1, <1>2 DEF Answer

(* One more worker that does not know the word changes nothing. *)
LEMMA FirstOfUnknown ==
  ASSUME TypeOK, NEW n \in Nat, n + 1 <= N, NEW c \in Nat, NEW f,
         FirstOf(n, c, f), answer[n + 1].count = 0
  PROVE  FirstOf(n + 1, c, f)
<1>1. Knowing(n + 1) = Knowing(n)
  BY MergeAssumption DEF Knowing
<1> QED  BY <1>1 DEF FirstOf

(* One more worker that knows the word: the better of its file and the one at hand is the best. *)
LEMMA FirstOfKnown ==
  ASSUME TypeOK, cmd # "/wc", NEW n \in Nat, n + 1 <= N, FirstOf(n, counter, file),
         answer[n + 1].count > 0, named = answer[n + 1].file
  PROVE  IF Better(answer[n + 1].count) THEN FirstOf(n + 1, answer[n + 1].count, named)
                                        ELSE FirstOf(n + 1, counter, file)
<1> DEFINE k == answer[n + 1].count
<1>1. n + 1 \in Workers
  BY MergeAssumption DEF Workers
<1>2. answer[n + 1] \in Answer
  BY <1>1 DEF TypeOK
<1>3. k \in Nat /\ k < INT_MAX /\ named \in Nat
  BY <1>2, AnswerType
<1>4. Knowing(n + 1) = Knowing(n) \union {n + 1}
  BY MergeAssumption DEF Knowing
<1>5. \A w \in Knowing(n) : w \in Workers /\ answer[w].count \in Nat /\ answer[w].file \in Nat
  <2> SUFFICES ASSUME NEW w \in Knowing(n) PROVE w \in Workers /\ answer[w].count \in Nat /\ answer[w].file \in Nat
    OBVIOUS
  <2>1. w \in Workers
    BY MergeAssumption DEF Knowing, Workers
  <2>2. answer[w] \in Answer
    BY <2>1 DEF TypeOK
  <2> QED  BY <2>1, <2>2, AnswerType
<1>6. counter \in Nat /\ cmd \in {"/maxcount", "/mincount"}
  BY DEF TypeOK, Commands
<1>7. CASE Knowing(n) = {}
  <2>1. Better(k) /\ Knowing(n + 1) = {n + 1}
    BY <1>7, <1>3, <1>4, <1>6, MergeAssumption DEF Better, FirstOf, StartCount
  <2> QED  BY <2>1, <1>3 DEF FirstOf
<1>8. CASE Knowing(n) # {}
  <2>1. /\ \E w \in Knowing(n) : answer[w].count = counter /\ answer[w].file = file
        /\ \A w \in Knowing(n) :
             \/ IF cmd = "/maxcount" THEN answer[w].count < counter ELSE answer[w].count > counter
             \/ answer[w].count = counter /\ file <= answer[w].file
    BY <1>8 DEF FirstOf
  <2>2. file \in Nat
    BY <2>1, <1>5
  <2>3. CASE Better(k)
    <3>1. \A w \in Knowing(n) :
             \/ IF cmd = "/maxcount" THEN answer[w].count < k ELSE answer[w].count > k
             \/ answer[w].count = k /\ named <= answer[w].file
      BY <2>1, <2>2, <2>3, <1>3, <1>5, <1>6 DEF Better
    <3>2. FirstOf(n + 1, k, named)
      BY <3>1, <1>3, <1>4 DEF FirstOf
    <3> QED  BY <3>2, <2>3
  <2>4. CASE ~Better(k)
    <3>1. \/ IF cmd = "/maxcount" THEN k < counter ELSE k > counter
          \/ k = counter /\ file <= named
      BY <2>2, <2>4, <1>3, <1>6, MergeAssumption DEF Better
    <3>2. FirstOf(n + 1, counter, file)
      BY <3>1, <2>1, <1>4 DEF FirstOf
    <3> QED  BY <3>2, <2>4
  <2> QED  BY <2>3, <2>4
<1> QED  BY <1>7, <1>8
(* The total over one more worker is longer by its count. *)
TotalLoop(f, a) == f = [k \in 0 .. N |-> IF k = 0 THEN 0 ELSE f[k - 1] + a[k].count]

LEMMA TotalFacts ==
  ASSUME NEW a \in [Workers -> Answer]
  PROVE  /\ Total(a, 0) = 0
         /\ \A k \in 1 .. N : Total(a, k) = Total(a, k - 1) + a[k].count
<1> DEFINE Add(v, k) == v + a[k].count
           step == [p \in Nat \X Nat |-> Add(p[1], p[2])]
<1>1. N \in Nat /\ \A k \in 1 .. N : a[k].count \in Nat
  BY MergeAssumption, AnswerType DEF Workers
<1>2. \A v \in Nat, k \in 1 .. N : step[<<v, k>>] = Add(v, k) /\ Add(v, k) \in Nat
  BY <1>1
<1>3. PICK f : Computes(f, Nat, 0, step, N)
  <2> HIDE DEF step, Add
  <2>1. IsStep(Nat, step, N)
    BY <1>2 DEF IsStep
  <2> QED BY <1>1, <2>1, Recursion
<1>4. TotalLoop(f, a)
  <2> HIDE DEF step
  <2>1. ASSUME NEW k \in 1 .. N PROVE f[k] = Add(f[k - 1], k)
    <3>1. f[k - 1] \in Nat
      BY <1>1, <1>3, ComputesIn
    <3> QED BY <1>2, <1>3, <3>1 DEF Computes
  <2>2. ASSUME NEW k \in 0 .. N PROVE f[k] = IF k = 0 THEN 0 ELSE Add(f[k - 1], k)
    <3> HIDE DEF Add
    <3>1. k # 0 => k \in 1 .. N
      BY <1>1
    <3> QED BY <2>1, <1>3, <3>1 DEF Computes
  <2>3. f = [k \in 0 .. N |-> f[k]]
    BY <1>3 DEF Computes
  <2> QED BY <2>2, <2>3 DEF TotalLoop
<1> DEFINE Loop(g) == TotalLoop(g, a)
           total == CHOOSE g : Loop(g)
<1>5. \A n : Total(a, n) = total[n]
  BY DEF Total, TotalLoop
<1>6. Loop(total)
  <2>1. Loop(f)
    BY <1>4
  <2> HIDE DEF Loop
  <2> QED BY <2>1
<1>7. total[0] = 0 /\ \A k \in 1 .. N : total[k] = total[k - 1] + a[k].count
  <2> HIDE DEF total
  <2>1. 0 \in 0 .. N /\ \A k \in 1 .. N : k \in 0 .. N /\ k # 0
    BY <1>1
  <2> QED BY <1>6, <2>1 DEF TotalLoop
<1> HIDE DEF total
<1> QED BY <1>5, <1>7
-----------------------------------------------------------------------------
LEMMA InitIInv == Init => IInv
<1> SUFFICES ASSUME Init PROVE IInv
  OBVIOUS
<1>1. TypeOK
  <2>1. i \in 1 .. N + 1 /\ counter \in Nat
    BY MergeAssumption DEF Init, StartCount
  <2> QED  BY <2>1 DEF Init, TypeOK
<1>2. FirstOf(0, counter, file)
  BY DEF Init, FirstOf, Knowing
<1>3. SoFar /\ TotalShown
  <2>1. i - 1 = 0 /\ Total(answer, 0) = 0 /\ ~shown
    BY <1>1, TotalFacts DEF Init, TypeOK
  <2>2. cmd = "/wc" => counter = 0
    BY DEF Init, StartCount
  <2> QED  BY <2>1, <2>2 DEF SoFar, TotalShown
<1> QED  BY <1>1, <1>2, <1>3 DEF Init, IInv, Settled, Past, Noted, Place, NameFits, Best, BestShown

LEMMA SendAnswerStep == ASSUME IInv, NEW w \in Workers, SendAnswer(w) PROVE IInv'
<1>1. TypeOK'
  BY DEF IInv, TypeOK, SendAnswer, loopVars, diedVars
<1>2. w \notin Past
  BY DEF IInv, Settled, SendAnswer
<1>3. Settled' /\ Noted' /\ Place'
  BY DEF IInv, Settled, Past, Noted, Place, SendAnswer, loopVars, diedVars
<1>4. i \in Nat /\ N \in Nat
  BY MergeAssumption DEF IInv, TypeOK
<1>5. NameFits'
  <2>1. pc = "number" /\ cmd # "/wc" => i \in Past
    BY <1>4 DEF IInv, Place, Past, Workers
  <2> QED  BY <2>1, <1>2 DEF IInv, NameFits, SendAnswer, loopVars, diedVars
<1>6. 1 .. i - 1 \subseteq Past
  BY <1>4 DEF Past
<1>7. 1 .. i - 1 \subseteq sent' => 1 .. i - 1 \subseteq sent
  BY <1>2, <1>6 DEF SendAnswer
<1>8. Best'
  <2>1. FirstOf(i - 1, counter, file)' <=> FirstOf(i - 1, counter, file)
    BY DEF FirstOf, Knowing, StartCount, SendAnswer, loopVars
  <2> QED  BY <2>1, <1>7 DEF IInv, Best, SendAnswer, loopVars, diedVars
<1>9. BestShown'
  <2>1. shown => w \in Past
    BY <1>4 DEF IInv, Place, Past, Workers
  <2> QED  BY <2>1, <1>2 DEF BestShown, SendAnswer
<1>10. SoFar'
  BY <1>7 DEF IInv, SoFar, SendAnswer, loopVars, diedVars
<1>11. TotalShown'
  <2>1. shown => w \in Past
    BY <1>4 DEF IInv, Place, Past, Workers
  <2> QED  BY <2>1, <1>2 DEF TotalShown, SendAnswer
<1> QED  BY <1>1, <1>3, <1>5, <1>8, <1>9, <1>10, <1>11 DEF IInv

LEMMA EndStep == ASSUME IInv, NEW w \in Workers, End(w) PROVE IInv'
<1>1. TypeOK'
  BY DEF IInv, TypeOK, End, loopVars, diedVars
<1>2. Settled' /\ Noted' /\ Place' /\ NameFits'
  BY DEF IInv, Settled, Past, Noted, Place, NameFits, End, loopVars, diedVars
<1>3. Best' /\ BestShown'
  BY DEF IInv, Best, BestShown, FirstOf, Knowing, StartCount, End, loopVars, diedVars
<1>4. SoFar' /\ TotalShown'
  BY DEF IInv, SoFar, TotalShown, End, loopVars, diedVars
<1> QED  BY <1>1, <1>2, <1>3, <1>4 DEF IInv

LEMMA WorkerDiedStep == ASSUME IInv, WorkerDied PROVE IInv'
<1>1. TypeOK'
  BY DEF IInv, TypeOK, WorkerDied, loopVars
<1>2. Settled' /\ Noted' /\ Place' /\ NameFits'
  BY DEF IInv, Settled, Past, Noted, Place, NameFits, WorkerDied, loopVars
<1>3. Best' /\ BestShown'
  BY DEF IInv, Best, BestShown, FirstOf, Knowing, StartCount, WorkerDied, loopVars
<1>4. SoFar' /\ TotalShown'
  BY DEF IInv, SoFar, TotalShown, WorkerDied, loopVars
<1> QED  BY <1>1, <1>2, <1>3, <1>4 DEF IInv

LEMMA ReadNameStep == ASSUME IInv, ReadName PROVE IInv'
<1>1. i \in Workers /\ i \in Nat /\ N \in Nat
  BY MergeAssumption DEF IInv, TypeOK, ReadName, Workers
<1>2. TypeOK'
  BY DEF IInv, TypeOK, ReadName, diedVars
<1>3. Noted' /\ Place'
  BY <1>1 DEF IInv, Noted, Place, ReadName, diedVars
<1>4. SoFar' /\ TotalShown'
  BY DEF IInv, Place, SoFar, TotalShown, ReadName, diedVars
<1>5. CASE cmd = "/wc"
  BY <1>1, <1>2, <1>3, <1>4, <1>5 DEF IInv, Settled, Past, NameFits, Best, BestShown, ReadName, diedVars
<1>6. CASE cmd # "/wc"
  <2>1. i \in sent \union ended
    BY <1>1, <1>6 DEF IInv, Noted, ReadName, Readable
  <2>2. Past' = Past \union {i}
    <3>1. \A n \in Nat : 1 .. n = (1 .. n - 1) \union IF n = 0 THEN {} ELSE {n}
      OBVIOUS
    <3>2. i # 0
      BY <1>1 DEF Workers
    <3>3. 1 .. i = (1 .. i - 1) \union {i}
      BY <1>1, <3>1, <3>2
    <3> QED  BY <3>3, <1>6 DEF Past, ReadName
  <2>3. Settled'
    BY <2>1, <2>2 DEF IInv, Settled, ReadName
  <2>4. NameFits'
    BY <1>1, <1>6 DEF IInv, Noted, NameFits, ReadName, Readable, diedVars
  <2>5. FirstOf(i - 1, counter, file)' <=> FirstOf(i - 1, counter, file)
    BY DEF FirstOf, Knowing, StartCount, ReadName
  <2>6. Best' /\ BestShown'
    BY <2>5 DEF IInv, Best, Place, BestShown, ReadName, diedVars
  <2> QED  BY <1>2, <1>3, <1>4, <2>3, <2>4, <2>6 DEF IInv
<1> QED  BY <1>5, <1>6

LEMMA ReadNumberStep == ASSUME IInv, ReadNumber PROVE IInv'
<1>1. i \in Workers /\ i \in Nat /\ N \in Nat /\ i - 1 \in Nat /\ (i - 1) + 1 = i /\ i <= N
  BY MergeAssumption DEF IInv, TypeOK, Place, ReadNumber, Workers
<1>2. PICK k \in Counts : Readable(k, answer[i].count, 0, Counts) /\ Keep(k)
  BY DEF ReadNumber
<1>3. k \in Nat
  BY <1>2, MergeAssumption DEF Counts
<1>4. TypeOK'
  <2>1. counter' \in Nat /\ file' \in Files \union {NULL}
    BY <1>2, <1>3 DEF IInv, TypeOK, Keep
  <2>2. i' \in 1 .. N + 1
    BY <1>1 DEF ReadNumber
  <2> QED  BY <2>1, <2>2 DEF IInv, TypeOK, ReadNumber, diedVars
<1>5. Noted' /\ Place' /\ NameFits'
  BY DEF IInv, Noted, Place, NameFits, ReadNumber, diedVars
<1>6. i \in sent \union ended
  BY <1>1, <1>2 DEF IInv, Noted, Readable
<1>7. Settled'
  <2>1. 1 .. i \subseteq sent \union ended
    <3>1. 1 .. i - 1 \subseteq Past
      BY <1>1 DEF Past
    <3>2. 1 .. i = (1 .. i - 1) \union {i}
      BY <1>1
    <3> QED  BY <3>1, <3>2, <1>6 DEF IInv, Settled
  <2>2. Past' = 1 .. i
    BY <1>1 DEF Past, ReadNumber
  <2> QED  BY <2>1, <2>2 DEF Settled, ReadNumber
<1>8. Best'
  <2> SUFFICES ASSUME cmd # "/wc", ~some_worker_died, 1 .. i \subseteq sent
               PROVE  FirstOf(i - 1, counter, file)'
    <3>1. i' - 1 = i
      BY <1>1 DEF ReadNumber
    <3> QED  BY <3>1 DEF Best, ReadNumber, diedVars
  <2>1. i \in sent /\ 1 .. i - 1 \subseteq sent /\ i \in alive_workers
    BY <1>1 DEF IInv, Noted
  <2>2. k = answer[i].count
    BY <1>2, <2>1 DEF IInv, Settled, Readable
  <2>3. named = answer[i].file
    BY <2>1 DEF IInv, NameFits, ReadNumber
  <2>4. FirstOf(i - 1, counter, file)
    BY <2>1 DEF IInv, Best
  <2>5. FirstOf(i, counter', file')
    <3>1. CASE k = 0
      <4>1. FirstOf(i, counter, file)
        BY <1>1, <2>2, <2>4, <3>1, FirstOfUnknown DEF IInv, TypeOK
      <4> QED  BY <4>1, <1>2, <3>1 DEF Keep
    <3>2. CASE k > 0
      <4>1. IF Better(k) THEN FirstOf(i, k, named) ELSE FirstOf(i, counter, file)
        BY <1>1, <2>2, <2>3, <2>4, <3>2, FirstOfKnown DEF IInv
      <4> QED  BY <4>1, <1>2, <3>2 DEF Keep
    <3> QED  BY <1>3, <3>1, <3>2
  <2>6. i' - 1 = i
    BY <1>1 DEF ReadNumber
  <2> QED  BY <2>5, <2>6 DEF FirstOf, Knowing, StartCount, ReadNumber
<1>9. BestShown'
  BY DEF IInv, Place, BestShown, ReadNumber
<1>10. SoFar'
  <2> SUFFICES ASSUME cmd = "/wc", ~some_worker_died, 1 .. i \subseteq sent
               PROVE  counter' = Total(answer, i)
    <3>1. i' - 1 = i
      BY <1>1 DEF ReadNumber
    <3> QED  BY <3>1 DEF SoFar, ReadNumber, diedVars
  <2>1. i \in sent /\ 1 .. i - 1 \subseteq sent /\ i \in alive_workers
    BY <1>1 DEF IInv, Noted
  <2>2. k = answer[i].count
    BY <1>2, <2>1 DEF IInv, Settled, Readable
  <2>3. counter = Total(answer, i - 1)
    BY <2>1 DEF IInv, SoFar
  <2>4. Total(answer, i) = Total(answer, i - 1) + answer[i].count
    <3>1. answer \in [Workers -> Answer] /\ i \in 1 .. N
      BY <1>1 DEF IInv, TypeOK, Workers
    <3> QED  BY <3>1, TotalFacts
  <2> QED  BY <1>2, <2>2, <2>3, <2>4 DEF Keep
<1>11. TotalShown'
  BY DEF IInv, Place, TotalShown, ReadNumber
<1> QED  BY <1>4, <1>5, <1>7, <1>8, <1>9, <1>10, <1>11 DEF IInv

LEMMA ShowStep == ASSUME IInv, Show PROVE IInv'
<1>1. i = N + 1 /\ N \in Nat /\ i - 1 = N
  BY MergeAssumption DEF IInv, TypeOK, Show
<1>2. TypeOK'
  BY DEF IInv, TypeOK, Show, diedVars
<1>3. Settled' /\ Noted' /\ Place' /\ NameFits'
  BY <1>1 DEF IInv, Settled, Past, Noted, Place, NameFits, Show, diedVars
<1>4. FirstOf(N, counter, file)' <=> FirstOf(N, counter, file)
  BY DEF FirstOf, Knowing, StartCount, Show
<1>5. Best'
  BY <1>1, <1>4 DEF IInv, Best, Show, diedVars
<1>6. BestShown'
  BY <1>1, <1>4 DEF IInv, Best, BestShown, Workers, Show
<1>7. SoFar'
  BY DEF IInv, SoFar, Show, diedVars
<1>8. TotalShown'
  BY <1>1 DEF IInv, SoFar, TotalShown, Workers, Show
<1> QED  BY <1>2, <1>3, <1>5, <1>6, <1>7, <1>8 DEF IInv

LEMMA StutterStep == ASSUME IInv, UNCHANGED vars PROVE IInv'
<1>1. TypeOK' /\ Settled' /\ Noted' /\ Place' /\ NameFits'
  BY DEF IInv, TypeOK, Settled, Past, Noted, Place, NameFits, vars, loopVars, diedVars
<1>2. Best' /\ BestShown'
  BY DEF IInv, Best, BestShown, FirstOf, Knowing, StartCount, vars, loopVars, diedVars
<1>3. SoFar' /\ TotalShown'
  BY DEF IInv, SoFar, TotalShown, vars, loopVars, diedVars
<1> QED  BY <1>1, <1>2, <1>3 DEF IInv

(* The strengthened invariant holds of every run of the loops. *)
THEOREM IInvHolds == Spec => []IInv
<1>1. IInv /\ [Next]_vars => IInv'
  BY SendAnswerStep, EndStep, WorkerDiedStep, ReadNameStep, ReadNumberStep, ShowStep, StutterStep DEF Next
<1> QED  BY <1>1, InitIInv, PTL DEF Spec

(* Type correctness of the merge of answers, for any number of workers and any counts. *)
THEOREM TypeOKHolds == Spec => []TypeOK
<1>1. IInv => TypeOK
  BY DEF IInv
<1> QED  BY <1>1, IInvHolds, PTL

(***************************************************************************)
(* For any number of workers, any counts, any files and any deaths: what   *)
(* get_maxcount_txt_file_name and get_mincount_txt_file_name return and    *)
(* the job executor shows is the best file of all workers' files, and what *)
(* get_total_stats adds up and it shows is the sum over all workers.       *)
(***************************************************************************)
THEOREM ResultShownHolds == Spec => []ResultShown
<1>1. IInv => ResultShown
  BY DEF IInv, ResultShown
<1> QED  BY <1>1, IInvHolds, PTL
=============================================================================
