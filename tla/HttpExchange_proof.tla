------------------------- MODULE HttpExchange_proof -------------------------
(***************************************************************************)
(* Proofs about HttpExchange and its two ends: for all streams, answers    *)
(* and files, every way a request or an answer is cut, and every size of   *)
(* the buffers.                                                            *)
(***************************************************************************)
EXTENDS HttpExchange, FiniteSetTheorems, TLAPS

(* The scan for the blank line. *)

ScanStates == {"none", "r", "n", "rn", "rnr", "found", "nonvalid"}

(* The table of the scan, read backwards: which states and bytes lead to each state. *)
LEMMA ScannedFrom ==
  ASSUME NEW s \in ScanStates, NEW b \in Bytes, NEW t, t = Scanned(s, b)
  PROVE  /\ t \in ScanStates
         /\ t = "found" <=> s = "found" \/ (s = "rnr" /\ b = "n")
         /\ t = "rnr" <=> s = "rn" /\ b = "r"
         /\ t = "rn" <=> s = "r" /\ b = "n"
         /\ t = "r" <=> s = "none" /\ b = "r"
         /\ t = "n" <=> s = "none" /\ b = "n"
         /\ t = "nonvalid" <=> \/ s = "nonvalid"
                               \/ s \in {"r", "rnr"} /\ b # "n"
                               \/ s \in {"n", "rn"} /\ b = "n"
                               \/ s = "n" /\ b = "r"
         /\ t = "none" => b \notin {"r", "n"}
  BY DEF Scanned, ScanStates, Bytes

(* The four steps of a scan. *)
LEMMA ScanSteps ==
  ASSUME NEW w \in [1 .. 4 -> Bytes]
  PROVE  \E s1, s2, s3 \in ScanStates :
           /\ s1 = Scanned("none", w[1]) /\ s2 = Scanned(s1, w[2])
           /\ s3 = Scanned(s2, w[3]) /\ Scan(w) = Scanned(s3, w[4])
  <1> DEFINE s1 == Scanned("none", w[1])
             s2 == Scanned(s1, w[2])
             s3 == Scanned(s2, w[3])
  <1>1. Scan(w) = Scanned(s3, w[4]) BY DEF Scan
  <1>2. s1 \in ScanStates BY ScannedFrom DEF ScanStates
  <1>3. s2 \in ScanStates
    <2> HIDE DEF s1
    <2> QED BY <1>2, ScannedFrom
  <1>4. s3 \in ScanStates
    <2> HIDE DEF s2
    <2> QED BY <1>3, ScannedFrom
  <1> QED BY <1>1, <1>2, <1>3, <1>4

(* The scan stops with "found" exactly on CR LF CR LF. *)
LEMMA ScanFound ==
  ASSUME NEW w \in [1 .. 4 -> Bytes], Scan(w) = "found"
  PROVE  w[1] = "r" /\ w[2] = "n" /\ w[3] = "r" /\ w[4] = "n"
  <1>1. PICK s1 \in ScanStates, s2 \in ScanStates, s3 \in ScanStates :
          /\ s1 = Scanned("none", w[1]) /\ s2 = Scanned(s1, w[2])
          /\ s3 = Scanned(s2, w[3]) /\ Scan(w) = Scanned(s3, w[4])
    BY ScanSteps
  <1>2. "none" \in ScanStates BY DEF ScanStates
  <1>3. s1 # "found" /\ s1 # "rnr" /\ s1 # "rn" BY <1>1, <1>2, ScannedFrom
  <1>4. s2 # "found" /\ s2 # "rnr" BY <1>1, <1>3, ScannedFrom
  <1>5. s3 # "found" BY <1>1, <1>4, ScannedFrom
  <1>6. s3 = "rnr" /\ w[4] = "n" BY <1>1, <1>5, ScannedFrom
  <1>7. s2 = "rn" /\ w[3] = "r" BY <1>1, <1>6, ScannedFrom
  <1>8. s1 = "r" /\ w[2] = "n" BY <1>1, <1>7, ScannedFrom
  <1>9. w[1] = "r" BY <1>1, <1>2, <1>8, ScannedFrom
  <1> QED BY <1>6, <1>7, <1>8, <1>9

(* The syntax check fails only where CR and LF do not come in pairs, or behind a blank line. *)
LEMMA ScanNonvalid ==
  ASSUME NEW w \in [1 .. 4 -> Bytes], Scan(w) = "nonvalid"
  PROVE  \/ \E k \in 1 .. 3 : w[k] = "r" /\ w[k + 1] # "n"
         \/ \E k \in 2 .. 4 : w[k] = "n" /\ w[k - 1] # "r"
         \/ w[1] = "n" /\ w[2] = "r"
  <1> DEFINE Pair(a, b) == (a = "r" /\ b # "n") \/ (b = "n" /\ a # "r")
  <1>1. PICK s1 \in ScanStates, s2 \in ScanStates, s3 \in ScanStates :
          /\ s1 = Scanned("none", w[1]) /\ s2 = Scanned(s1, w[2])
          /\ s3 = Scanned(s2, w[3]) /\ Scan(w) = Scanned(s3, w[4])
    BY ScanSteps
  <1>2. "none" \in ScanStates BY DEF ScanStates
  <1>3. s1 # "nonvalid" /\ s1 # "rnr" /\ s1 # "rn" /\ (s1 = "r" => w[1] = "r") /\ (s1 = "n" => w[1] = "n")
    BY <1>1, <1>2, ScannedFrom
  <1>4. /\ s2 # "rnr"
        /\ s2 = "rn" => w[2] = "n"
        /\ s2 = "r" => w[2] = "r"
        /\ s2 = "n" => w[2] = "n" /\ w[1] # "r"
        /\ s2 = "nonvalid" => Pair(w[1], w[2]) \/ (w[1] = "n" /\ w[2] = "r")
    <2>1. s1 = "none" => w[1] # "r" BY <1>1, <1>2, ScannedFrom
    <2> QED BY <1>1, <1>3, <2>1, ScannedFrom
  <1>5. /\ s3 = "rnr" => w[3] = "r"
        /\ s3 = "rn" => w[3] = "n"
        /\ s3 = "r" => w[3] = "r"
        /\ s3 = "n" => w[3] = "n" /\ w[2] # "r"
        /\ s3 = "nonvalid" => Pair(w[1], w[2]) \/ Pair(w[2], w[3]) \/ (w[1] = "n" /\ w[2] = "r")
    <2>1. s2 = "none" => w[2] # "r" BY <1>1, ScannedFrom
    <2> QED BY <1>1, <1>4, <2>1, ScannedFrom
  <1>6. Pair(w[1], w[2]) \/ Pair(w[2], w[3]) \/ Pair(w[3], w[4]) \/ (w[1] = "n" /\ w[2] = "r")
    BY <1>1, <1>4, <1>5, ScannedFrom
  <1>7. CASE Pair(w[1], w[2])
    <2>1. CASE w[1] = "r" /\ w[1 + 1] # "n" BY <2>1
    <2>2. CASE w[2] = "n" /\ w[2 - 1] # "r" BY <2>2
    <2> QED BY <1>7, <2>1, <2>2
  <1>8. CASE Pair(w[2], w[3])
    <2>1. CASE w[2] = "r" /\ w[2 + 1] # "n" BY <2>1
    <2>2. CASE w[3] = "n" /\ w[3 - 1] # "r" BY <2>2
    <2> QED BY <1>8, <2>1, <2>2
  <1>9. CASE Pair(w[3], w[4])
    <2>1. CASE w[3] = "r" /\ w[3 + 1] # "n" BY <2>1
    <2>2. CASE w[4] = "n" /\ w[4 - 1] # "r" BY <2>2
    <2> QED BY <1>9, <2>1, <2>2
  <1> QED BY <1>6, <1>7, <1>8, <1>9

(* Bytes of the window, and which of them are received ones. *)
LEMMA WindowBytes ==
  ASSUME stream \in Seq(Bytes), pos \in Nat, NEW n \in Nat \ {0}, pos + n <= Len(stream),
         NEW junk \in [Before(n) -> HeapBytes], HeapBytes \subseteq Bytes
  PROVE  /\ Window(n, junk) \in [1 .. 4 -> Bytes]
         /\ \A k \in 1 .. 4 : pos + n - 4 + k >= 1 => Window(n, junk)[k] = stream[pos + n - 4 + k]
         /\ \A k \in 1 .. 4 : pos + n - 4 + k < 1 => Window(n, junk)[k] = junk[k]
  BY DEF Window, Before

(* A chunk that leaves the reader with "found" ends at a blank line. *)
LEMMA FoundIsBlankLine ==
  ASSUME stream \in Seq(Bytes), pos \in Nat, NEW n \in Nat \ {0}, pos + n <= Len(stream),
         NEW junk \in [Before(n) -> HeapBytes], HeapBytes \subseteq Bytes,
         \A k \in Before(n) : junk[k] \notin {"r", "n"},
         Scan(Window(n, junk)) = "found"
  PROVE  BlankLineAt(stream, pos + n)
  <1> DEFINE w == Window(n, junk)
  <1>1. w \in [1 .. 4 -> Bytes] BY WindowBytes
  <1>2. w[1] = "r" /\ w[2] = "n" /\ w[3] = "r" /\ w[4] = "n"
    <2>1. Scan(w) = "found" OBVIOUS
    <2> HIDE DEF w
    <2> QED BY <2>1, <1>1, ScanFound
  <1>3. pos + n >= 4
    <2> SUFFICES ASSUME pos + n < 4 PROVE FALSE
      OBVIOUS
    <2>1. w[1] \notin {"r", "n"} BY WindowBytes DEF Before
    <2> HIDE DEF w
    <2> QED BY <2>1, <1>2
  <1>4. \A k \in 1 .. 4 : w[k] = stream[pos + n - 4 + k]
    BY <1>3, WindowBytes
  <1> HIDE DEF w
  <1> QED
    BY <1>2, <1>3, <1>4 DEF BlankLineAt

(* On a well-formed stream the syntax check does not fail. *)
LEMMA WellFormedIsValid ==
  ASSUME stream \in Seq(Bytes), pos \in Nat, NEW n \in Nat \ {0}, pos + n <= Len(stream),
         NEW junk \in [Before(n) -> HeapBytes], HeapBytes \subseteq Bytes,
         \A k \in Before(n) : junk[k] \notin {"r", "n"},
         WellFormed(stream)
  PROVE  Scan(Window(n, junk)) # "nonvalid"
  <1> SUFFICES ASSUME Scan(Window(n, junk)) = "nonvalid" PROVE FALSE
    OBVIOUS
  <1> DEFINE w == Window(n, junk)
             e == pos + n - 4
  <1>1. w \in [1 .. 4 -> Bytes] BY WindowBytes
  <1>2. /\ \A k \in 1 .. 4 : e + k >= 1 => w[k] = stream[e + k]
        /\ \A k \in 1 .. 4 : e + k < 1 => w[k] \notin {"r", "n"}
    BY WindowBytes DEF Before
  <1>3. e \in Int /\ e + 4 <= Len(stream) /\ Len(stream) \in Nat
    OBVIOUS
  <1> HIDE DEF w, e
  <1>4. CASE \E k \in 1 .. 3 : w[k] = "r" /\ w[k + 1] # "n"
    <2>1. PICK k \in 1 .. 3 : w[k] = "r" /\ w[k + 1] # "n" BY <1>4
    <2>2. e + k >= 1 /\ stream[e + k] = "r" /\ stream[e + k + 1] # "n" BY <2>1, <1>2, <1>3, SMTT(30)
    <2> QED BY <2>2, <1>3 DEF WellFormed
  <1>5. CASE \E k \in 2 .. 4 : w[k] = "n" /\ w[k - 1] # "r"
    <2>1. PICK k \in 2 .. 4 : w[k] = "n" /\ w[k - 1] # "r" BY <1>5
    <2>2. e + k >= 1 /\ stream[e + k] = "n" BY <2>1, <1>2, <1>3, SMTT(30)
    <2>3. e + k > 1 /\ stream[e + k - 1] = "r" BY <2>2, <1>3 DEF WellFormed
    <2> QED BY <2>1, <2>3, <1>2, <1>3, SMTT(30)
  <1>6. CASE w[1] = "n" /\ w[2] = "r"
    <2>1. e + 1 >= 1 /\ stream[e + 1] = "n" /\ stream[e + 2] = "r" BY <1>6, <1>2, <1>3
    <2>2. e + 1 > 1 /\ stream[e] = "r" BY <2>1, <1>3 DEF WellFormed
    <2>3. stream[e + 3] = "n" BY <2>1, <1>3 DEF WellFormed
    <2>4. BlankLineAt(stream, e + 3) BY <2>1, <2>2, <2>3, <1>3 DEF BlankLineAt
    <2> QED BY <2>4, <2>2, <1>3 DEF WellFormed
  <1> QED
    <2>1. Scan(w) = "nonvalid" BY DEF w
    <2> QED BY <2>1, <1>1, <1>4, <1>5, <1>6, ScanNonvalid

-----------------------------------------------------------------------------
(* Which requests are valid: lines are told apart by the line feeds before them. *)
LEMMA SameCount ==
  ASSUME NEW s \in Seq(Bytes), NEW i \in 1 .. Len(s), NEW j \in 1 .. Len(s), i <= j, s[i] # "n", s[j] # "n"
  PROVE  Cardinality({k \in 1 .. i : s[k] = "n"}) = Cardinality({k \in 1 .. j : s[k] = "n"}) <=> SameLine(s, i, j)
<1> DEFINE A == {k \in 1 .. i : s[k] = "n"}
           B == {k \in 1 .. j : s[k] = "n"}
<1>1. A \subseteq B /\ B \subseteq 1 .. j /\ i \in Nat /\ j \in Nat /\ Len(s) \in Nat
  OBVIOUS
<1>2. IsFiniteSet(B)
  <2>1. IsFiniteSet(1 .. j)
    BY <1>1, FS_Interval
  <2> HIDE DEF B
  <2> QED BY <1>1, <2>1, FS_Subset
<1>3. Cardinality(A) = Cardinality(B) <=> A = B
  <2> HIDE DEF A, B
  <2> QED BY <1>1, <1>2, FS_Subset
<1>4. A = B <=> SameLine(s, i, j)
  <2>1. ASSUME A = B, NEW k \in 1 .. Len(s), s[k] = "n" PROVE k < i <=> k < j
    <3>1. k # i /\ k # j
      BY <2>1
    <3>2. k < j => k \in B
      BY <1>1, <2>1
    <3>3. k \in A => k <= i
      OBVIOUS
    <3> QED BY <1>1, <2>1, <3>1, <3>2, <3>3
  <2>2. ASSUME SameLine(s, i, j), NEW k \in B PROVE k \in A
    <3>1. k \in 1 .. Len(s) /\ s[k] = "n" /\ k # j /\ k < j
      BY <1>1
    <3>2. k < i
      BY <2>2, <3>1 DEF SameLine
    <3> QED BY <1>1, <3>1, <3>2
  <2> QED BY <1>1, <2>1, <2>2 DEF SameLine
<1> QED BY <1>3, <1>4

LEMMA ValidMeansProper ==
  ASSUME stream \in Seq(Bytes), pos \in 0 .. Len(stream)
  PROVE  Valid <=> Proper(Received)
<1> DEFINE s == Received
           H == {i \in 1 .. pos : s[i] = "H"}
<1>1. s \in Seq(Bytes) /\ Len(s) = pos /\ pos \in Nat
  BY DEF Received
<1>2. ASSUME NEW i \in 1 .. pos, NEW j \in 1 .. pos, s[i] # "n", s[j] # "n"
      PROVE  LineOf(i) = LineOf(j) <=> SameLine(s, i, j)
  <2>1. i \in 1 .. Len(s) /\ j \in 1 .. Len(s)
    BY <1>1
  <2>2. CASE i <= j
    <3> HIDE DEF s
    <3> QED BY <1>1, <1>2, <2>1, <2>2, SameCount DEF LineOf, s
  <2>3. CASE j <= i
    <3>1. SameLine(s, i, j) <=> SameLine(s, j, i)
      BY DEF SameLine
    <3>2. LineOf(j) = LineOf(i) <=> SameLine(s, j, i)
      <4> HIDE DEF s
      <4> QED BY <1>1, <1>2, <2>1, <2>3, SameCount DEF LineOf, s
    <3> QED BY <3>1, <3>2
  <2> QED BY <1>1, <2>2, <2>3
<1>3. HostLines = {LineOf(i) : i \in H}
  BY DEF HostLines
<1>4. \A i \in 1 .. pos : LineOf(i) \in 0 .. pos
  <2> TAKE i \in 1 .. pos
  <2> DEFINE A == {k \in 1 .. i : Received[k] = "n"}
  <2>1. A \subseteq 1 .. i /\ i \in Nat /\ i <= pos
    BY <1>1
  <2>2. IsFiniteSet(1 .. i) /\ Cardinality(1 .. i) = i
    BY <2>1, FS_Interval
  <2>3. IsFiniteSet(A) /\ Cardinality(A) <= i
    BY <2>1, <2>2, FS_Subset
  <2>4. Cardinality(A) \in Nat
    BY <2>3, FS_CardinalityType
  <2>5. LineOf(i) = Cardinality(A)
    BY DEF LineOf
  <2> QED BY <1>1, <2>1, <2>3, <2>4, <2>5
<1>5. IsFiniteSet(HostLines)
  <2>1. HostLines \subseteq 0 .. pos
    BY <1>3, <1>4
  <2>2. IsFiniteSet(0 .. pos)
    BY <1>1, FS_Interval
  <2> QED BY <2>1, <2>2, FS_Subset
<1>6. Cardinality(HostLines) = 1 <=> \E l : HostLines = {l}
  BY <1>5, FS_Singleton
<1>7. (\E l : HostLines = {l}) <=> \E i \in H : \A j \in H : LineOf(i) = LineOf(j)
  <2>1. \A l : HostLines = {l} => \E i \in H : \A j \in H : LineOf(i) = LineOf(j)
    <3> TAKE l
    <3> HAVE HostLines = {l}
    <3> HIDE DEF H
    <3>1. \A i \in H : LineOf(i) = l
      BY <1>3
    <3>2. H # {}
      BY <1>3
    <3> QED BY <3>1, <3>2
  <2>2. ASSUME NEW i \in H, \A j \in H : LineOf(i) = LineOf(j) PROVE HostLines = {LineOf(i)}
    <3> HIDE DEF H
    <3> QED BY <1>3, <2>2
  <2> QED BY <2>1, <2>2
<1>8. \A i \in H : i \in 1 .. pos /\ s[i] = "H" /\ s[i] # "n"
  OBVIOUS
<1>9. (\E i \in H : \A j \in H : LineOf(i) = LineOf(j)) <=> \E i \in H : \A j \in H : SameLine(s, i, j)
  <2> HIDE DEF H, s
  <2> QED BY <1>2, <1>8
<1>10. ASSUME pos > 1, s[1] = "G" PROVE 0 \notin HostLines <=> \A i \in H : ~SameLine(s, 1, i)
  <2>1. 1 \in 1 .. pos /\ s[1] # "n"
    BY <1>1, <1>10
  <2>2. LineOf(1) = 0
    <3>1. {k \in 1 .. 1 : Received[k] = "n"} = {}
      BY <2>1
    <3> QED BY <3>1, FS_EmptySet DEF LineOf
  <2>3. \A i \in H : LineOf(1) = LineOf(i) <=> SameLine(s, 1, i)
    <3> HIDE DEF H, s
    <3> QED BY <1>2, <1>8, <2>1
  <2>4. 0 \in HostLines <=> \E i \in H : LineOf(i) = 0
    <3> HIDE DEF H
    <3> QED BY <1>3
  <2> HIDE DEF H, s
  <2> QED BY <2>2, <2>3, <2>4
<1>11. \A i, j \in H : SameLine(s, i, j) => (SameLine(s, 1, i) <=> SameLine(s, 1, j))
  BY DEF SameLine
<1>12. Proper(s) <=> /\ pos > 1 /\ s[1] = "G"
                     /\ \E i \in H : ~SameLine(s, 1, i) /\ \A j \in H : SameLine(s, i, j)
  <2> HIDE DEF s
  <2> QED BY <1>1 DEF Proper
<1>13. Valid <=> pos > 1 /\ s[1] = "G" /\ Cardinality(HostLines) = 1 /\ 0 \notin HostLines
  BY DEF Valid
<1> HIDE DEF s, H
<1>14. ASSUME pos > 1, s[1] = "G"
       PROVE  (Cardinality(HostLines) = 1 /\ 0 \notin HostLines)
                <=> \E i \in H : ~SameLine(s, 1, i) /\ \A j \in H : SameLine(s, i, j)
  BY <1>6, <1>7, <1>9, <1>10, <1>11, <1>14
<1>15. Valid <=> Proper(s)
  BY <1>12, <1>13, <1>14
<1> QED BY <1>15 DEF s
-----------------------------------------------------------------------------
(* The reader of a request, whichever client sends it. *)
ReadType ==
  /\ stream \in Seq(Bytes) /\ hangsup \in BOOLEAN /\ pos \in 0 .. Len(stream) /\ misled \in BOOLEAN
  /\ verdict \in {"reading", "request", "null", "gone", "valid", "bad"}

(* Bytes before the block cannot make the reader stop inside a request that starts with a word. *)
NotFooled ==
  verdict \in {"request", "valid"} /\ stream[1] = "G" => BlankLineAt(stream, pos)

(* The verdicts of valid_http_get are true ones. *)
JudgeInv ==
  /\ verdict = "valid" => Proper(Received)
  /\ verdict = "bad" /\ WellFormed(stream) /\ Proper(stream) => misled

ReadInv == ReadType /\ EndsAtBlankLine /\ NotRefused /\ NotFooled /\ JudgeInv

LEMMA StartReadInv ==
  ASSUME stream \in Seq(Bytes), hangsup \in BOOLEAN, misled \in BOOLEAN,
         pos = 0, verdict \in {"reading", "gone"}
  PROVE  ReadInv
<1>1. pos \in 0 .. Len(stream)
  OBVIOUS
<1> QED BY <1>1 DEF ReadInv, ReadType, EndsAtBlankLine, NotRefused, NotFooled, JudgeInv

LEMMA FoundBehindWord ==
  ASSUME stream \in Seq(Bytes), pos \in Nat, NEW n \in Nat \ {0}, pos + n <= Len(stream),
         NEW junk \in [Before(n) -> HeapBytes], HeapBytes \subseteq Bytes,
         stream[1] = "G", Scan(Window(n, junk)) = "found"
  PROVE  BlankLineAt(stream, pos + n)
<1> DEFINE w == Window(n, junk)
<1>1. w \in [1 .. 4 -> Bytes] /\ \A k \in 1 .. 4 : pos + n - 4 + k >= 1 => w[k] = stream[pos + n - 4 + k]
  BY WindowBytes
<1>2. w[1] = "r" /\ w[2] = "n" /\ w[3] = "r" /\ w[4] = "n"
  <2>1. Scan(w) = "found"
    OBVIOUS
  <2> HIDE DEF w
  <2> QED BY <2>1, <1>1, ScanFound
<1> HIDE DEF w
<1>3. ASSUME NEW k \in 1 .. 4, pos + n - 4 + k = 1 PROVE FALSE
  <2>1. w[k] = stream[1]
    BY <1>1, <1>3
  <2>2. w[k] # "G"
    BY <1>2
  <2> QED BY <2>1, <2>2
<1>4. pos + n >= 4
  <2>1. CASE pos + n = 1
    BY <1>3, <2>1
  <2>2. CASE pos + n = 2
    BY <1>3, <2>2
  <2>3. CASE pos + n = 3
    BY <1>3, <2>3
  <2> QED BY <2>1, <2>2, <2>3
<1> QED BY <1>1, <1>2, <1>4 DEF BlankLineAt

LEMMA ReadChunkInv == ReadInv /\ ReadChunk => ReadInv'
<1> SUFFICES ASSUME ReadInv, ReadChunk PROVE ReadInv'
  OBVIOUS
<1>1. PICK n \in 1 .. CHUNK : \E junk \in [Before(n) -> HeapBytes] :
        /\ pos + n <= Len(stream)
        /\ verdict' = AfterScan(Scan(Window(n, junk)))
        /\ pos' = pos + n
        /\ misled' = (misled \/ \E k \in Before(n) : junk[k] \in {"r", "n"})
  BY DEF ReadChunk
<1>2. PICK junk \in [Before(n) -> HeapBytes] :
        /\ pos + n <= Len(stream)
        /\ verdict' = AfterScan(Scan(Window(n, junk)))
        /\ pos' = pos + n
        /\ misled' = (misled \/ \E k \in Before(n) : junk[k] \in {"r", "n"})
  BY <1>1
<1>3. UNCHANGED <<stream, hangsup>>
  BY DEF ReadChunk
<1>4. /\ stream \in Seq(Bytes) /\ pos \in Nat /\ HeapBytes \subseteq Bytes /\ n \in Nat \ {0}
      /\ Len(stream) \in Nat
  BY RequestAssumption DEF ReadInv, ReadType
<1>5. verdict' \in {"request", "null", "reading"}
  BY <1>2 DEF AfterScan
<1>6. ReadType'
  <2>1. pos' \in 0 .. Len(stream')
    BY <1>2, <1>3, <1>4
  <2>2. misled' \in BOOLEAN
    BY <1>2 DEF ReadInv, ReadType
  <2> QED BY <1>3, <1>5, <2>1, <2>2 DEF ReadInv, ReadType
<1>7. ~misled' => \A k \in Before(n) : junk[k] \notin {"r", "n"}
  BY <1>2
<1>8. verdict' \in {"request", "valid"} => Scan(Window(n, junk)) = "found"
  BY <1>2 DEF AfterScan
<1>9. EndsAtBlankLine'
  <2> SUFFICES ASSUME verdict' \in {"request", "valid"}, ~misled' PROVE BlankLineAt(stream', pos')
    BY DEF EndsAtBlankLine
  <2> QED BY <1>2, <1>3, <1>4, <1>7, <1>8, FoundIsBlankLine
<1>10. NotRefused'
  <2> SUFFICES ASSUME WellFormed(stream'), ~misled'
               PROVE  verdict' # "null" /\ (verdict' \in {"request", "valid"} => pos' = Len(stream'))
    BY DEF NotRefused
  <2>1. WellFormed(stream)
    BY <1>3
  <2>2. Scan(Window(n, junk)) # "nonvalid"
    BY <2>1, <1>2, <1>4, <1>7, WellFormedIsValid
  <2>3. verdict' # "null"
    BY <2>2, <1>2 DEF AfterScan
  <2>4. ASSUME verdict' \in {"request", "valid"} PROVE pos' = Len(stream')
    <3>1. BlankLineAt(stream, pos + n)
      BY <2>4, <1>2, <1>3, <1>9 DEF EndsAtBlankLine
    <3>2. pos + n \in 1 .. Len(stream)
      BY <1>2, <1>4
    <3> QED BY <3>1, <3>2, <2>1, <1>2, <1>3 DEF WellFormed
  <2> QED BY <2>3, <2>4
<1>11. NotFooled'
  <2> SUFFICES ASSUME verdict' \in {"request", "valid"}, stream'[1] = "G" PROVE BlankLineAt(stream', pos')
    BY DEF NotFooled
  <2>1. stream[1] = "G"
    BY <1>3
  <2> QED BY <2>1, <1>2, <1>3, <1>4, <1>8, FoundBehindWord
<1>12. JudgeInv'
  BY <1>5 DEF JudgeInv
<1> QED BY <1>6, <1>9, <1>10, <1>11, <1>12 DEF ReadInv

LEMMA JudgeKeepsInv == ReadInv /\ Judge => ReadInv'
<1> SUFFICES ASSUME ReadInv, Judge PROVE ReadInv'
  OBVIOUS
<1>1. /\ verdict \in {"request", "null"} /\ UNCHANGED <<stream, hangsup, pos, misled>>
      /\ verdict' = IF verdict = "request" /\ Valid THEN "valid" ELSE "bad"
  BY DEF Judge
<1>2. stream \in Seq(Bytes) /\ pos \in 0 .. Len(stream)
  BY DEF ReadInv, ReadType
<1>3. Valid <=> Proper(Received)
  BY <1>2, ValidMeansProper
<1>4. Received' = Received
  BY <1>1 DEF Received
<1>5. ReadType' /\ EndsAtBlankLine' /\ NotRefused' /\ NotFooled'
  BY <1>1 DEF ReadInv, ReadType, EndsAtBlankLine, NotRefused, NotFooled
<1>6. verdict' = "valid" => Proper(Received')
  BY <1>1, <1>3, <1>4
<1>7. verdict' = "bad" /\ WellFormed(stream) /\ Proper(stream) => misled
  <2> SUFFICES ASSUME verdict' = "bad", WellFormed(stream), Proper(stream), ~misled PROVE FALSE
    OBVIOUS
  <2>1. verdict = "request" /\ pos = Len(stream)
    BY <1>1 DEF ReadInv, NotRefused
  <2>2. Received = stream
    BY <1>2, <2>1 DEF Received
  <2> QED BY <1>1, <1>3, <2>1, <2>2
<1>8. JudgeInv'
  BY <1>1, <1>6, <1>7 DEF JudgeInv
<1> QED BY <1>5, <1>8 DEF ReadInv

LEMMA ReaderStep == ReadInv /\ Next => ReadInv' /\ UNCHANGED <<stream, hangsup>>
<1> SUFFICES ASSUME ReadInv, Next PROVE ReadInv' /\ UNCHANGED <<stream, hangsup>>
  OBVIOUS
<1>1. CASE ReadChunk
  BY <1>1, ReadChunkInv DEF ReadChunk
<1>2. CASE EndOfFile
  <2>1. UNCHANGED Received
    BY <1>2 DEF EndOfFile, Received
  <2> QED BY <1>2, <2>1 DEF EndOfFile, ReadInv, ReadType, EndsAtBlankLine, NotRefused, NotFooled, JudgeInv
<1>3. CASE Judge
  BY <1>3, JudgeKeepsInv DEF Judge
<1> QED BY <1>1, <1>2, <1>3 DEF Next

LEMMA SameRequest ==
  ASSUME ReadInv, UNCHANGED <<stream, pos, misled, verdict>>, hangsup' \in BOOLEAN
  PROVE  ReadInv'
<1>1. UNCHANGED Received
  BY DEF Received
<1> QED BY <1>1 DEF ReadInv, ReadType, EndsAtBlankLine, NotRefused, NotFooled, JudgeInv
-----------------------------------------------------------------------------
(* The server alone, with any stream. *)
RequestInv == stream \in Streams /\ ReadInv

LEMMA RequestInvHolds == Spec => []RequestInv
<1>1. Init => RequestInv
  BY StartReadInv, RequestAssumption DEF Init, RequestInv
<1>2. RequestInv /\ [Next]_requestVars => RequestInv'
  <2> SUFFICES ASSUME RequestInv, [Next]_requestVars PROVE RequestInv'
    OBVIOUS
  <2>1. CASE Next
    BY <2>1, ReaderStep DEF RequestInv
  <2>2. CASE UNCHANGED requestVars
    <3>1. UNCHANGED <<stream, hangsup, pos, misled, verdict>> /\ hangsup' \in BOOLEAN
      BY <2>2 DEF requestVars, RequestInv, ReadInv, ReadType
    <3> QED BY <3>1, SameRequest DEF RequestInv
  <2> QED BY <2>1, <2>2
<1> QED BY <1>1, <1>2, PTL DEF Spec

(* read_http_get_req: the reader stops at a blank line and nowhere else, for all chunks. *)
THEOREM EndsAtBlankLineHolds == Spec => []EndsAtBlankLine
<1>1. RequestInv => EndsAtBlankLine
  BY DEF RequestInv, ReadInv
<1> QED BY <1>1, RequestInvHolds, PTL

(* read_http_get_req: no well-formed header is refused or left before its end, for all chunks. *)
THEOREM NotRefusedHolds == Spec => []NotRefused
<1>1. RequestInv => NotRefused
  BY DEF RequestInv, ReadInv
<1> QED BY <1>1, RequestInvHolds, PTL
-----------------------------------------------------------------------------
(***************************************************************************)
(* The answer.  The loop over its header, byte by byte: HeadSent is the    *)
(* header, at of its tokens were read.                                     *)
(***************************************************************************)
HeadSent == answer.head

HeaderType == [prev_blr : BOOLEAN, prev_cr : BOOLEAN, next_is_size : BOOLEAN,
               word : Seq(Resp!Tokens), word_counter : Nat, content_size : Nat \union {-1}]

AnswerType ==
  /\ Resp!AnswerOK(answer)
  /\ at \in 0 .. Len(HeadSent) /\ header \in HeaderType /\ header.word_counter <= at
  /\ counter \in 0 .. answer.body /\ overrun \in BOOLEAN /\ (overrun => counter > 0)
  /\ outcome \in {"header", "content", "page", "ignored", "lost", "reset"}

HasNo(t, w) == \A k \in 1 .. Len(w) : w[k] # t

(* the flags and the word of the loop tell what was read *)
ScanInv == outcome = "header" =>
  /\ header.prev_blr <=> at > 0 /\ HeadSent[at] = "r"
  /\ header.prev_cr <=> \/ at > 0 /\ HeadSent[at] = "n"
                        \/ at > 1 /\ HeadSent[at] = "r" /\ HeadSent[at - 1] = "n"
  /\ \A j \in 1 .. at : HeadSent[j] = "n" => j > 1 /\ HeadSent[j - 1] = "r"
  /\ \A j \in 1 .. at - 1 : HeadSent[j] = "r" => HeadSent[j + 1] = "n"
  /\ header.word_counter = 0 =>
       /\ ~header.next_is_size /\ header.content_size = -1
       /\ IF header.word = <<>> THEN at = 0 \/ (at = 1 /\ HeadSent[1] = "r") ELSE header.word[1] = HeadSent[1]
  /\ header.word_counter > 0 => HeadSent[1] = "V"
  /\ (header.next_is_size \/ header.content_size # -1 \/ ~HasNo("L", header.word))
       => \E j \in 1 .. at : HeadSent[j] = "L"
  /\ header.content_size \in {-1, 0, answer.claimed}

TheField(i) ==
  /\ i \in 2 .. Len(HeadSent) - 3 /\ Resp!SizeField(HeadSent, i)
  /\ \A j \in 1 .. Len(HeadSent) : HeadSent[j] = "L" => j = i

(* where the loop is, before, in and behind the Content-Length field of a well-formed header *)
AtField(i) ==
  /\ at < Len(HeadSent)
  /\ at = 0 => header.word = <<>>
  /\ at = 1 => header.word = <<"V">>
  /\ at >= 2 => header.word_counter > 0
  /\ at > 0 /\ HeadSent[at] \in {"s", "n"} => header.word = <<>>
  /\ at <= i => ~header.next_is_size /\ header.content_size = -1
  /\ at # i => HasNo("L", header.word)
  /\ at = i => header.word = <<"L">>
  /\ at = i + 1 => header.next_is_size
  /\ at = i + 2 => header.next_is_size /\ header.word = <<"#">>
  /\ at = i + 3 /\ HeadSent[at] = "r" => header.next_is_size /\ header.word = <<"#">>
  /\ at > i + 3 \/ (at = i + 3 /\ HeadSent[at] = "s") =>
       ~header.next_is_size /\ header.content_size = answer.claimed

FieldInv ==
  outcome = "header" /\ Resp!WellFormed(HeadSent) => \A i \in Nat : TheField(i) => AtField(i)

ContentInv ==
  /\ outcome \in {"content", "page"} =>
       /\ Resp!Paired(HeadSent) /\ HeadSent[1] = "V"
       /\ at = Len(HeadSent) /\ Resp!BlankLineAt(HeadSent, at)
       /\ \E i \in 1 .. Len(HeadSent) : HeadSent[i] = "L"
       /\ header.content_size \in {0, answer.claimed}
       /\ Resp!WellFormed(HeadSent) => header.content_size = answer.claimed
  /\ outcome = "header" => counter = 0
  /\ outcome = "content" => counter = 0 \/ counter # header.content_size
  /\ outcome = "page" => counter = header.content_size /\ counter > 0
  /\ outcome = "lost" =>
       /\ ~answer.open
       /\ Resp!WellFormed(HeadSent) => counter = answer.body /\ (counter = 0 \/ counter # answer.claimed)
  /\ Resp!WellFormed(HeadSent) => outcome # "ignored"
  /\ Resp!WellFormed(HeadSent) /\ answer.body <= answer.claimed => ~overrun

AnswerInv == AnswerType /\ ScanInv /\ FieldInv /\ ContentInv

LEMMA AnswerFacts ==
  ASSUME Resp!AnswerOK(answer)
  PROVE  /\ answer \in Resp!AnswerType
         /\ HeadSent \in Seq(Resp!Tokens) /\ Len(HeadSent) \in Nat
         /\ answer.claimed \in Nat /\ answer.body \in Nat /\ answer.open \in BOOLEAN
         /\ \A p \in 1 .. Len(HeadSent) : Resp!BlankLineAt(HeadSent, p) => p = Len(HeadSent)
<1>1. answer \in [head : Seq(Resp!Tokens), claimed : Nat, body : Nat, open : BOOLEAN]
  BY DEF Resp!AnswerOK, Resp!AnswerType
<1>2. answer.head \in Seq(Resp!Tokens) /\ answer.claimed \in Nat /\ answer.body \in Nat /\ answer.open \in BOOLEAN
  BY <1>1
<1>3. \A p \in 1 .. Len(HeadSent) : Resp!BlankLineAt(HeadSent, p) => p = Len(HeadSent)
  BY DEF Resp!AnswerOK, HeadSent
<1> QED BY <1>1, <1>2, <1>3 DEF HeadSent, Resp!AnswerType

(* A well-formed header has one Content-Length field, and it is not at its end. *)
LEMMA FieldFacts ==
  ASSUME HeadSent \in Seq(Resp!Tokens), Resp!WellFormed(HeadSent)
  PROVE  /\ \E i \in Nat : TheField(i)
         /\ Len(HeadSent) >= 5 /\ HeadSent[1] = "V" /\ HeadSent[2] = "s"
         /\ Resp!BlankLineAt(HeadSent, Len(HeadSent))
<1> DEFINE s == HeadSent
<1>1. /\ s[1] = "V" /\ s[2] = "s" /\ Resp!BlankLineAt(s, Len(s))
      /\ \E i \in 1 .. Len(s) : Resp!SizeField(s, i) /\ \A j \in 1 .. Len(s) : s[j] = "L" => j = i
  BY DEF Resp!WellFormed
<1>2. PICK i \in 1 .. Len(s) : Resp!SizeField(s, i) /\ \A j \in 1 .. Len(s) : s[j] = "L" => j = i
  BY <1>1
<1>3. i \in 2 .. Len(s) - 3 /\ Len(s) \in Nat
  BY <1>2 DEF Resp!SizeField
<1>4. i \in Nat /\ Len(s) >= 5
  BY <1>3
<1>5. TheField(i)
  BY <1>2, <1>3 DEF TheField
<1> QED BY <1>1, <1>4, <1>5

(* The loop when read_http_get_response is called. *)
LEMMA StartAnswerInv ==
  ASSUME Resp!AnswerOK(answer), Resp!Fresh
  PROVE  AnswerInv
<1>1. /\ HeadSent \in Seq(Resp!Tokens) /\ Len(HeadSent) \in Nat
      /\ answer.claimed \in Nat /\ answer.body \in Nat
  BY AnswerFacts
<1>2. /\ at = 0 /\ counter = 0 /\ overrun = FALSE /\ outcome = "header"
      /\ header = [prev_blr |-> FALSE, prev_cr |-> FALSE, next_is_size |-> FALSE,
                   word |-> <<>>, word_counter |-> 0, content_size |-> -1]
  BY DEF Resp!Fresh, Resp!NewHeader
<1>3. /\ header.prev_blr = FALSE /\ header.prev_cr = FALSE /\ header.next_is_size = FALSE
      /\ header.word = <<>> /\ header.word_counter = 0 /\ header.content_size = -1
  BY <1>2
<1>4. header \in HeaderType
  BY <1>2 DEF HeaderType
<1>5. AnswerType
  <2>1. at \in 0 .. Len(HeadSent) /\ counter \in 0 .. answer.body /\ header.word_counter <= at
    BY <1>1, <1>2, <1>3
  <2>2. overrun \in BOOLEAN /\ ~overrun /\ outcome = "header"
    BY <1>2
  <2> QED BY <1>4, <2>1, <2>2 DEF AnswerType
<1>6. ScanInv
  BY <1>2, <1>3 DEF ScanInv, HasNo
<1>7. FieldInv
  <2> SUFFICES ASSUME Resp!WellFormed(HeadSent), NEW i \in Nat, TheField(i) PROVE AtField(i)
    BY DEF FieldInv
  <2>1. Len(HeadSent) >= 5
    BY <1>1, FieldFacts
  <2>2. i >= 2
    BY <1>1 DEF TheField
  <2> QED BY <1>1, <1>2, <1>3, <2>1, <2>2 DEF AtField, HasNo
<1>8. ContentInv
  BY <1>2 DEF ContentInv
<1> QED BY <1>5, <1>6, <1>7, <1>8 DEF AnswerInv

(* The server hangs up. *)
LEMMA ClosedAnswerInv ==
  ASSUME AnswerInv, answer' = [answer EXCEPT !.open = FALSE],
         UNCHANGED <<at, header, counter, overrun, outcome>>
  PROVE  AnswerInv'
<1>1. /\ answer \in Resp!AnswerType
      /\ HeadSent \in Seq(Resp!Tokens) /\ Len(HeadSent) \in Nat
      /\ answer.claimed \in Nat /\ answer.body \in Nat
  BY AnswerFacts DEF AnswerInv, AnswerType
<1>2. /\ answer'.head = answer.head /\ answer'.claimed = answer.claimed /\ answer'.body = answer.body
      /\ answer'.open = FALSE /\ answer' \in Resp!AnswerType
  BY <1>1 DEF Resp!AnswerType
<1>3. UNCHANGED HeadSent
  BY <1>2 DEF HeadSent
<1>4. Resp!AnswerOK(answer)'
  BY <1>2 DEF AnswerInv, AnswerType, Resp!AnswerOK
<1>5. AnswerType'
  BY <1>2, <1>3, <1>4 DEF AnswerInv, AnswerType
<1>6. ScanInv'
  BY <1>2, <1>3 DEF AnswerInv, ScanInv
<1>7. FieldInv'
  BY <1>2, <1>3 DEF AnswerInv, FieldInv, TheField, AtField
<1>8. ContentInv'
  BY <1>2, <1>3 DEF AnswerInv, ContentInv
<1> QED BY <1>5, <1>6, <1>7, <1>8 DEF AnswerInv

LEMMA AfterTokenFields ==
  ASSUME answer.claimed \in Nat, NEW h \in HeaderType, NEW b \in Resp!Tokens, NEW g, g = Resp!AfterToken(h, b)
  PROVE  /\ g \in HeaderType
         /\ g.prev_blr <=> b = "r"
         /\ b = "r" => /\ g.prev_cr = h.prev_cr /\ g.next_is_size = h.next_is_size /\ g.word = h.word
                       /\ g.word_counter = h.word_counter /\ g.content_size = h.content_size
         /\ b \in {"s", "n"} =>
              /\ g.prev_cr <=> b = "n"
              /\ g.next_is_size <=> ~h.next_is_size /\ h.word = <<"L">>
              /\ g.word = <<>> /\ g.word_counter = h.word_counter + 1
              /\ g.content_size = IF h.next_is_size THEN Resp!Atoi(h.word) ELSE h.content_size
         /\ b \notin {"r", "s", "n"} =>
              /\ ~g.prev_cr /\ g.next_is_size = h.next_is_size /\ g.word = Append(h.word, b)
              /\ g.word_counter = h.word_counter /\ g.content_size = h.content_size
<1> DEFINE flags == [h EXCEPT !.prev_blr = FALSE, !.prev_cr = (b = "n")]
<1>1. /\ h.prev_blr \in BOOLEAN /\ h.prev_cr \in BOOLEAN /\ h.next_is_size \in BOOLEAN
      /\ h.word \in Seq(Resp!Tokens) /\ h.word_counter \in Nat /\ h.content_size \in Nat \union {-1}
  BY DEF HeaderType
<1>2. \A w : Resp!Atoi(w) \in {0, answer.claimed}
  BY DEF Resp!Atoi
<1>3. CASE b = "r"
  <2>1. g = [h EXCEPT !.prev_blr = TRUE]
    BY <1>3 DEF Resp!AfterToken
  <2>2. g \in HeaderType
    BY <2>1 DEF HeaderType
  <2>3. /\ g.prev_blr = TRUE /\ g.prev_cr = h.prev_cr /\ g.next_is_size = h.next_is_size
        /\ g.word = h.word /\ g.word_counter = h.word_counter /\ g.content_size = h.content_size
    BY <2>1 DEF HeaderType
  <2> QED BY <1>3, <2>2, <2>3
<1>4. flags \in HeaderType /\ flags.prev_blr = FALSE /\ flags.prev_cr = (b = "n")
      /\ flags.next_is_size = h.next_is_size /\ flags.word = h.word
      /\ flags.word_counter = h.word_counter /\ flags.content_size = h.content_size
  BY DEF HeaderType
<1>5. CASE b \in {"s", "n"}
  <2> HIDE DEF flags
  <2>1. g = Resp!EndOfWord(flags)
    BY <1>5 DEF Resp!AfterToken, flags
  <2>2. g = [flags EXCEPT !.word = <<>>, !.word_counter = @ + 1,
                          !.next_is_size = ~@ /\ flags.word = <<"L">>,
                          !.content_size = IF flags.next_is_size THEN Resp!Atoi(flags.word) ELSE @]
    BY <2>1 DEF Resp!EndOfWord
  <2>3. /\ g.prev_blr = flags.prev_blr /\ g.prev_cr = flags.prev_cr
        /\ g.next_is_size = (~flags.next_is_size /\ flags.word = <<"L">>)
        /\ g.word = <<>> /\ g.word_counter = flags.word_counter + 1
        /\ g.content_size = IF flags.next_is_size THEN Resp!Atoi(flags.word) ELSE flags.content_size
    BY <1>4, <2>2 DEF HeaderType
  <2>4. g \in HeaderType
    <3>1. <<>> \in Seq(Resp!Tokens) /\ flags.word_counter + 1 \in Nat
      BY <1>1, <1>4
    <3>2. (IF flags.next_is_size THEN Resp!Atoi(flags.word) ELSE flags.content_size) \in Nat \union {-1}
      BY <1>1, <1>2, <1>4
    <3> QED BY <1>4, <2>2, <3>1, <3>2 DEF HeaderType
  <2> QED BY <1>4, <1>5, <2>3, <2>4
<1>6. CASE b \notin {"r", "s", "n"}
  <2> HIDE DEF flags
  <2>1. g = [flags EXCEPT !.word = Append(@, b)]
    BY <1>6 DEF Resp!AfterToken, flags
  <2>2. /\ g.prev_blr = flags.prev_blr /\ g.prev_cr = flags.prev_cr
        /\ g.next_is_size = flags.next_is_size /\ g.word = Append(flags.word, b)
        /\ g.word_counter = flags.word_counter /\ g.content_size = flags.content_size
    BY <1>4, <2>1 DEF HeaderType
  <2>3. g \in HeaderType
    <3>1. Append(flags.word, b) \in Seq(Resp!Tokens)
      BY <1>1, <1>4
    <3> QED BY <1>4, <2>1, <3>1 DEF HeaderType
  <2> QED BY <1>4, <1>6, <2>2, <2>3
<1> QED BY <1>3, <1>5, <1>6

(* One more token of the header, of which the loop goes on. *)
LEMMA HeaderGoesOn ==
  ASSUME AnswerInv, Resp!ReadHeader, outcome' = "header"
  PROVE  header' \in HeaderType /\ header'.word_counter <= at + 1 /\ ScanInv' /\ FieldInv'
<1> DEFINE s == HeadSent
           p == at + 1
           b == s[p]
           h == header
           g == header'
<1>1. /\ outcome = "header" /\ at < Len(s) /\ at' = p /\ outcome' = Resp!AfterByte(h, b)
      /\ g = Resp!AfterToken(h, b) /\ UNCHANGED <<answer, counter, overrun>>
  <2>1. /\ outcome = "header" /\ at < Len(answer.head) /\ at' = at + 1
        /\ outcome' = Resp!AfterByte(header, answer.head[at'])
        /\ header' = IF outcome' = "header" THEN Resp!AfterToken(header, answer.head[at']) ELSE header
        /\ UNCHANGED <<answer, counter, overrun>>
    BY DEF Resp!ReadHeader
  <2>2. answer.head[at'] = b
    BY <2>1 DEF HeadSent
  <2> QED BY <2>1, <2>2 DEF HeadSent
<1>2. /\ s \in Seq(Resp!Tokens) /\ Len(s) \in Nat /\ answer.claimed \in Nat
      /\ \A q \in 1 .. Len(s) : Resp!BlankLineAt(s, q) => q = Len(s)
  BY AnswerFacts DEF AnswerInv, AnswerType
<1>3. /\ at \in Nat /\ p \in Nat /\ p \in 1 .. Len(s) /\ b \in Resp!Tokens
      /\ h \in HeaderType /\ h.word_counter <= at
  <2>1. at \in 0 .. Len(s) /\ h \in HeaderType /\ h.word_counter <= at
    BY DEF AnswerInv, AnswerType
  <2>2. at \in Nat /\ p \in Nat /\ p \in 1 .. Len(s)
    BY <1>1, <1>2, <2>1
  <2> QED BY <1>2, <2>1, <2>2
<1>4. h.word_counter \in Nat /\ h.word \in Seq(Resp!Tokens)
  BY <1>3 DEF HeaderType
<1>5. /\ h.prev_blr <=> b = "n"
      /\ ~(b = "n" /\ h.prev_cr)
      /\ ~(b \in {"s", "n"} /\ ~h.next_is_size /\ h.word_counter = 0 /\ h.word # <<"V">>)
  BY <1>1 DEF Resp!AfterByte, Resp!Unpaired, Resp!WrongStart
<1> HIDE DEF g, b, s
<1>6. /\ g \in HeaderType
      /\ g.prev_blr <=> b = "r"
      /\ b = "r" => /\ g.prev_cr = h.prev_cr /\ g.next_is_size = h.next_is_size /\ g.word = h.word
                    /\ g.word_counter = h.word_counter /\ g.content_size = h.content_size
      /\ b \in {"s", "n"} =>
           /\ g.prev_cr <=> b = "n"
           /\ g.next_is_size <=> ~h.next_is_size /\ h.word = <<"L">>
           /\ g.word = <<>> /\ g.word_counter = h.word_counter + 1
           /\ g.content_size = IF h.next_is_size THEN Resp!Atoi(h.word) ELSE h.content_size
      /\ b \notin {"r", "s", "n"} =>
           /\ ~g.prev_cr /\ g.next_is_size = h.next_is_size /\ g.word = Append(h.word, b)
           /\ g.word_counter = h.word_counter /\ g.content_size = h.content_size
  <2>1. answer.claimed \in Nat /\ h \in HeaderType /\ b \in Resp!Tokens /\ g = Resp!AfterToken(h, b)
    BY <1>1, <1>2, <1>3
  <2> HIDE DEF h
  <2> QED BY <2>1, AfterTokenFields
<1>7. /\ h.prev_blr <=> at > 0 /\ s[at] = "r"
      /\ h.prev_cr <=> (at > 0 /\ s[at] = "n") \/ (at > 1 /\ s[at] = "r" /\ s[at - 1] = "n")
      /\ \A j \in 1 .. at : s[j] = "n" => j > 1 /\ s[j - 1] = "r"
      /\ \A j \in 1 .. at - 1 : s[j] = "r" => s[j + 1] = "n"
      /\ h.word_counter = 0 =>
           /\ ~h.next_is_size /\ h.content_size = -1
           /\ IF h.word = <<>> THEN at = 0 \/ (at = 1 /\ s[1] = "r") ELSE h.word[1] = s[1]
      /\ h.word_counter > 0 => s[1] = "V"
      /\ (h.next_is_size \/ h.content_size # -1 \/ ~HasNo("L", h.word))
           => \E j \in 1 .. at : s[j] = "L"
      /\ h.content_size \in {-1, 0, answer.claimed}
  BY <1>1 DEF AnswerInv, ScanInv, s
<1>8. UNCHANGED HeadSent /\ at' = p
  BY <1>1 DEF HeadSent
<1>9. b = "n" <=> at > 0 /\ s[at] = "r"
  BY <1>5, <1>7
<1>10. g.word_counter <= at + 1
  BY <1>3, <1>4, <1>6
<1>11. ScanInv'
  <2>1. g.prev_blr <=> p > 0 /\ s[p] = "r"
    BY <1>3, <1>6 DEF b
  <2>2. g.prev_cr <=> (p > 0 /\ s[p] = "n") \/ (p > 1 /\ s[p] = "r" /\ s[p - 1] = "n")
    <3>1. p > 1 <=> at > 0
      BY <1>3
    <3>2. p - 1 = at
      BY <1>3
    <3>3. b = "r" => (h.prev_cr <=> at > 0 /\ s[at] = "n")
      <4>1. at > 1 => at > 0
        BY <1>3
      <4>2. b = "r" => ~(at > 0 /\ s[at] = "r")
        BY <1>9
      <4> QED BY <1>7, <4>1, <4>2
    <3> QED BY <1>3, <1>6, <3>1, <3>2, <3>3 DEF b
  <2>3. \A j \in 1 .. p : s[j] = "n" => j > 1 /\ s[j - 1] = "r"
    <3> TAKE j \in 1 .. p
    <3> HAVE s[j] = "n"
    <3>1. CASE j = p
      <4>1. at > 0 /\ s[at] = "r"
        BY <1>9, <3>1 DEF b
      <4> QED BY <1>3, <3>1, <4>1
    <3>2. CASE j # p
      <4>1. j \in 1 .. at
        BY <1>3, <3>2
      <4> QED BY <1>7, <4>1
    <3> QED BY <3>1, <3>2
  <2>4. \A j \in 1 .. p - 1 : s[j] = "r" => s[j + 1] = "n"
    <3> TAKE j \in 1 .. p - 1
    <3> HAVE s[j] = "r"
    <3>1. CASE j = at
      BY <1>3, <1>9, <3>1 DEF b
    <3>2. CASE j # at
      <4>1. j \in 1 .. at - 1
        BY <1>3, <3>2
      <4> QED BY <1>7, <4>1
    <3> QED BY <3>1, <3>2
  <2>5. g.word_counter = 0 =>
           /\ ~g.next_is_size /\ g.content_size = -1
           /\ IF g.word = <<>> THEN p = 0 \/ (p = 1 /\ s[1] = "r") ELSE g.word[1] = s[1]
    <3> SUFFICES ASSUME g.word_counter = 0
                 PROVE  /\ ~g.next_is_size /\ g.content_size = -1
                        /\ IF g.word = <<>> THEN p = 0 \/ (p = 1 /\ s[1] = "r") ELSE g.word[1] = s[1]
      OBVIOUS
    <3>1. b \notin {"s", "n"} /\ h.word_counter = 0
      BY <1>4, <1>6
    <3>2. ~g.next_is_size /\ g.content_size = -1
      BY <1>6, <1>7, <3>1
    <3>3. h.word = <<>> => at = 0
      <4>1. ~(at = 1 /\ s[1] = "r")
        BY <1>9, <3>1
      <4> QED BY <1>7, <3>1, <4>1
    <3>4. CASE b = "r"
      <4>1. g.word = h.word
        BY <1>6, <3>4
      <4>2. at = 0 => p = 1 /\ s[1] = "r"
        BY <3>4 DEF b
      <4> QED BY <1>7, <3>1, <3>2, <3>3, <4>1, <4>2
    <3>5. CASE b # "r"
      <4>1. g.word = Append(h.word, b) /\ g.word # <<>>
        BY <1>4, <1>6, <3>1, <3>5
      <4>2. CASE h.word = <<>>
        <5>1. g.word[1] = b
          BY <4>1, <4>2
        <5> QED BY <3>2, <3>3, <4>1, <4>2, <5>1 DEF b
      <4>3. CASE h.word # <<>>
        <5>1. g.word[1] = h.word[1]
          BY <1>4, <4>1, <4>3
        <5> QED BY <1>7, <3>1, <3>2, <4>1, <4>3, <5>1
      <4> QED BY <4>2, <4>3
    <3> QED BY <3>4, <3>5
  <2>6. g.word_counter > 0 => s[1] = "V"
    <3> SUFFICES ASSUME g.word_counter > 0, h.word_counter = 0 PROVE s[1] = "V"
      BY <1>4, <1>7
    <3>1. b \in {"s", "n"}
      BY <1>6
    <3>2. h.word = <<"V">> /\ h.word # <<>> /\ h.word[1] = "V"
      <4>1. h.word = <<"V">>
        BY <1>5, <1>7, <3>1
      <4> QED BY <4>1
    <3> QED BY <1>7, <3>2
  <2>7. (g.next_is_size \/ g.content_size # -1 \/ ~HasNo("L", g.word)) => \E j \in 1 .. p : s[j] = "L"
    <3>1. \A j \in 1 .. at : j \in 1 .. p
      BY <1>3
    <3>2. p \in 1 .. p
      BY <1>3
    <3>3. ASSUME b = "L" PROVE \E j \in 1 .. p : s[j] = "L"
      BY <3>2, <3>3 DEF b
    <3>4. ASSUME h.next_is_size \/ h.content_size # -1 \/ ~HasNo("L", h.word)
          PROVE  \E j \in 1 .. p : s[j] = "L"
      BY <1>7, <3>1, <3>4
    <3>5. CASE b \in {"s", "n"}
      <4>1. HasNo("L", g.word)
        BY <1>6, <3>5 DEF HasNo
      <4>2. h.word = <<"L">> => ~HasNo("L", h.word)
        BY DEF HasNo
      <4> QED BY <1>6, <3>4, <3>5, <4>1, <4>2
    <3>6. CASE b = "r"
      BY <1>6, <3>4, <3>6
    <3>7. CASE b \notin {"r", "s", "n"}
      <4>1. HasNo("L", h.word) /\ b # "L" => HasNo("L", g.word)
        BY <1>4, <1>6, <3>7, SMTT(30) DEF HasNo
      <4> QED BY <1>6, <3>3, <3>4, <3>7, <4>1
    <3> QED BY <3>5, <3>6, <3>7
  <2>8. g.content_size \in {-1, 0, answer.claimed}
    <3>1. Resp!Atoi(h.word) \in {0, answer.claimed}
      BY DEF Resp!Atoi
    <3> QED BY <1>6, <1>7, <3>1
  <2> HIDE DEF p
  <2> QED BY <1>1, <1>8, <2>1, <2>2, <2>3, <2>4, <2>5, <2>6, <2>7, <2>8 DEF ScanInv, g, s
<1>12. FieldInv'
  <2> SUFFICES ASSUME Resp!WellFormed(s), NEW i \in Nat, TheField(i) PROVE AtField(i)'
    BY <1>8 DEF FieldInv, s, TheField
  <2>1. AtField(i)
    BY <1>1 DEF AnswerInv, FieldInv, s
  <2>2. /\ Len(s) >= 5 /\ s[1] = "V" /\ s[2] = "s" /\ Resp!BlankLineAt(s, Len(s))
    BY <1>2, FieldFacts DEF s
  <2>3. /\ i \in 2 .. Len(s) - 3 /\ s[i - 1] \in {"s", "n"} /\ s[i] = "L" /\ s[i + 1] = "s" /\ s[i + 2] = "#"
        /\ s[i + 3] \in {"s", "r"} /\ \A j \in 1 .. Len(s) : s[j] = "L" => j = i
    BY DEF TheField, Resp!SizeField, s
  <2>4. /\ at = 0 => h.word = <<>>
        /\ at = 1 => h.word = <<"V">>
        /\ at >= 2 => h.word_counter > 0
        /\ at > 0 /\ s[at] \in {"s", "n"} => h.word = <<>>
        /\ at <= i => ~h.next_is_size /\ h.content_size = -1
        /\ at # i => HasNo("L", h.word)
        /\ at = i => h.word = <<"L">>
        /\ at = i + 1 => h.next_is_size
        /\ at = i + 2 => h.next_is_size /\ h.word = <<"#">>
        /\ at = i + 3 /\ s[at] = "r" => h.next_is_size /\ h.word = <<"#">>
        /\ at > i + 3 \/ (at = i + 3 /\ s[at] = "s") => ~h.next_is_size /\ h.content_size = answer.claimed
    BY <2>1 DEF AtField, s
  <2> HIDE DEF h
  <2>5. i \in Nat /\ i >= 2 /\ i <= Len(s) - 3
    BY <1>2, <2>3
  <2>6. p < Len(s)
    <3> SUFFICES ASSUME p = Len(s) PROVE FALSE
      BY <1>2, <1>3
    <3>1. b = "n" /\ s[at] = "r" /\ s[at - 1] = "n" /\ at > 1
      BY <1>3, <2>2 DEF Resp!BlankLineAt, b
    <3> QED BY <1>5, <1>7, <3>1
  <2>7. p = 1 => g.word = <<"V">>
    <3> SUFFICES ASSUME p = 1 PROVE g.word = <<"V">>
      OBVIOUS
    <3>1. at = 0 /\ b = "V"
      BY <1>3, <2>2 DEF b
    <3> QED BY <1>6, <2>4, <3>1
  <2>8. p >= 2 => g.word_counter > 0
    <3>1. CASE at = 1
      <4>1. b = "s"
        BY <2>2, <3>1 DEF b
      <4> QED BY <1>4, <1>6, <4>1
    <3>2. CASE at >= 2
      BY <1>4, <1>6, <2>4, <3>2
    <3> QED BY <1>3, <3>1, <3>2
  <2>9. s[p] \in {"s", "n"} => g.word = <<>>
    BY <1>6 DEF b
  <2>10. HasNo("L", h.word) => h.word # <<"L">>
    BY DEF HasNo
  <2>11. p <= i => ~g.next_is_size /\ g.content_size = -1
    <3> SUFFICES ASSUME p <= i PROVE ~g.next_is_size /\ g.content_size = -1
      OBVIOUS
    <3>1. at < i
      BY <1>3, <2>5
    <3>2. ~h.next_is_size /\ h.content_size = -1 /\ h.word # <<"L">>
      BY <1>3, <2>4, <2>5, <2>10, <3>1
    <3> QED BY <1>6, <3>2
  <2>12. p # i => HasNo("L", g.word)
    <3> SUFFICES ASSUME p # i PROVE HasNo("L", g.word)
      OBVIOUS
    <3>1. b # "L"
      BY <1>3, <2>3 DEF b
    <3>2. CASE at = i
      <4>1. b = "s"
        BY <2>3, <3>2 DEF b
      <4> QED BY <1>6, <4>1 DEF HasNo
    <3>3. CASE at # i
      <4>1. HasNo("L", h.word)
        BY <2>4, <3>3
      <4>2. CASE b \in {"s", "n"}
        BY <1>6, <4>2 DEF HasNo
      <4>3. CASE b = "r"
        BY <1>6, <4>1, <4>3
      <4>4. CASE b \notin {"r", "s", "n"}
        <5>1. g.word = Append(h.word, b) /\ h.word \in Seq(Resp!Tokens)
          BY <1>4, <1>6, <4>4
        <5>2. \A k \in 1 .. Len(h.word) : h.word[k] # "L"
          BY <4>1 DEF HasNo
        <5>3. ASSUME NEW k \in 1 .. Len(g.word) PROVE g.word[k] # "L"
          <6>1. Len(g.word) = Len(h.word) + 1 /\ Len(h.word) \in Nat
            BY <5>1
          <6>2. CASE k = Len(h.word) + 1
            <7>1. g.word[k] = b
              BY <5>1, <6>2
            <7> QED BY <3>1, <7>1
          <6>3. CASE k # Len(h.word) + 1
            <7>1. k \in 1 .. Len(h.word) /\ g.word[k] = h.word[k]
              BY <5>1, <6>1, <6>3
            <7> QED BY <5>2, <7>1
          <6> QED BY <6>2, <6>3
        <5> QED BY <5>3 DEF HasNo
      <4> QED BY <4>2, <4>3, <4>4
    <3> QED BY <3>2, <3>3
  <2>13. p = i => g.word = <<"L">>
    <3> SUFFICES ASSUME p = i PROVE g.word = <<"L">>
      OBVIOUS
    <3>1. at = i - 1 /\ at > 0 /\ b = "L"
      BY <1>3, <2>3, <2>5 DEF b
    <3>2. h.word = <<>>
      BY <2>3, <2>4, <3>1
    <3> QED BY <1>6, <3>1, <3>2
  <2>14. p = i + 1 => g.next_is_size
    <3> SUFFICES ASSUME p = i + 1 PROVE g.next_is_size
      OBVIOUS
    <3>1. at = i /\ b = "s"
      BY <1>3, <2>3, <2>5 DEF b
    <3> QED BY <1>6, <2>4, <2>5, <3>1
  <2>15. p = i + 2 => g.next_is_size /\ g.word = <<"#">>
    <3> SUFFICES ASSUME p = i + 2 PROVE g.next_is_size /\ g.word = <<"#">>
      OBVIOUS
    <3>1. at = i + 1 /\ at > 0 /\ s[at] = "s" /\ b = "#"
      BY <1>3, <2>3, <2>5 DEF b
    <3>2. h.next_is_size /\ h.word = <<>>
      BY <2>4, <3>1
    <3>3. g.word = Append(<<>>, "#") /\ g.next_is_size
      BY <1>6, <3>1, <3>2
    <3> QED BY <3>3
  <2>16. p = i + 3 /\ s[p] = "r" => g.next_is_size /\ g.word = <<"#">>
    <3> SUFFICES ASSUME p = i + 3, s[p] = "r" PROVE g.next_is_size /\ g.word = <<"#">>
      OBVIOUS
    <3>1. at = i + 2 /\ b = "r"
      BY <1>3, <2>5 DEF b
    <3> QED BY <1>6, <2>4, <3>1
  <2>17. ASSUME h.next_is_size, h.word = <<"#">>, b \in {"s", "n"}
         PROVE  ~g.next_is_size /\ g.content_size = answer.claimed
    <3>1. Resp!Atoi(h.word) = answer.claimed
      BY <2>17 DEF Resp!Atoi
    <3> QED BY <1>6, <2>17, <3>1
  <2>18. p > i + 3 \/ (p = i + 3 /\ s[p] = "s") => ~g.next_is_size /\ g.content_size = answer.claimed
    <3>1. CASE p = i + 3 /\ s[p] = "s"
      <4>1. at = i + 2 /\ b \in {"s", "n"}
        BY <1>3, <2>5, <3>1 DEF b
      <4> QED BY <2>4, <2>17, <4>1
    <3>2. CASE p = i + 4
      <4>1. at = i + 3 /\ at > 0
        BY <1>3, <2>5, <3>2
      <4>2. CASE s[at] = "r"
        <5>1. b \in {"s", "n"}
          BY <1>9, <4>1, <4>2
        <5> QED BY <2>4, <2>17, <4>1, <4>2, <5>1
      <4>3. CASE s[at] = "s"
        <5>1. ~h.next_is_size /\ h.content_size = answer.claimed /\ h.word # <<"L">>
          BY <2>4, <2>10, <4>1, <4>3
        <5> QED BY <1>6, <5>1
      <4> QED BY <2>3, <4>1, <4>2, <4>3
    <3>3. CASE p > i + 4
      <4>1. at > i + 3 /\ at # i
        BY <1>3, <2>5, <3>3
      <4>2. ~h.next_is_size /\ h.content_size = answer.claimed /\ h.word # <<"L">>
        BY <2>4, <2>10, <4>1
      <4> QED BY <1>6, <4>2
    <3> QED BY <1>3, <2>5, <3>1, <3>2, <3>3
  <2>19. p # 0
    BY <1>3
  <2> HIDE DEF p
  <2> QED BY <1>1, <1>8, <2>6, <2>7, <2>8, <2>9, <2>11, <2>12, <2>13, <2>14, <2>15, <2>16, <2>18, <2>19
          DEF AtField, g, s
<1> QED BY <1>6, <1>10, <1>11, <1>12 DEF g

(* The byte that ends the header, or shows that it is not one. *)
LEMMA HeaderEnds ==
  ASSUME AnswerInv, Resp!ReadHeader, outcome' # "header"
  PROVE  outcome' \in {"content", "ignored"} /\ ContentInv'
<1> DEFINE s == HeadSent
           p == at + 1
           b == s[p]
<1>1. /\ outcome = "header" /\ at < Len(s) /\ at' = p /\ outcome' = Resp!AfterByte(header, b)
      /\ UNCHANGED <<answer, header, counter, overrun>>
  <2>1. /\ outcome = "header" /\ at < Len(answer.head) /\ at' = at + 1
        /\ outcome' = Resp!AfterByte(header, answer.head[at'])
        /\ header' = IF outcome' = "header" THEN Resp!AfterToken(header, answer.head[at']) ELSE header
        /\ UNCHANGED <<answer, counter, overrun>>
    BY DEF Resp!ReadHeader
  <2>2. answer.head[at'] = b
    BY <2>1 DEF HeadSent
  <2> QED BY <2>1, <2>2 DEF HeadSent
<1>2. /\ s \in Seq(Resp!Tokens) /\ Len(s) \in Nat /\ answer.claimed \in Nat
      /\ \A q \in 1 .. Len(s) : Resp!BlankLineAt(s, q) => q = Len(s)
  BY AnswerFacts DEF AnswerInv, AnswerType
<1>3. /\ at \in Nat /\ p \in Nat /\ p \in 1 .. Len(s)
      /\ header \in HeaderType /\ header.word_counter \in Nat
  <2>1. at \in 0 .. Len(s) /\ header \in HeaderType
    BY DEF AnswerInv, AnswerType
  <2> QED BY <1>1, <1>2, <2>1 DEF HeaderType
<1> HIDE DEF s, b
<1>4. /\ header.prev_blr <=> at > 0 /\ s[at] = "r"
      /\ header.prev_cr <=> (at > 0 /\ s[at] = "n") \/ (at > 1 /\ s[at] = "r" /\ s[at - 1] = "n")
      /\ \A j \in 1 .. at : s[j] = "n" => j > 1 /\ s[j - 1] = "r"
      /\ \A j \in 1 .. at - 1 : s[j] = "r" => s[j + 1] = "n"
      /\ header.word_counter = 0 =>
           /\ ~header.next_is_size /\ header.content_size = -1
           /\ IF header.word = <<>> THEN at = 0 \/ (at = 1 /\ s[1] = "r") ELSE header.word[1] = s[1]
      /\ header.word_counter > 0 => s[1] = "V"
      /\ (header.next_is_size \/ header.content_size # -1 \/ ~HasNo("L", header.word))
           => \E j \in 1 .. at : s[j] = "L"
      /\ header.content_size \in {-1, 0, answer.claimed}
  BY <1>1 DEF AnswerInv, ScanInv, s
<1>5. \/ ~(header.prev_blr <=> b = "n") /\ outcome' = "ignored"
      \/ /\ header.prev_blr <=> b = "n"
         /\ b = "n" /\ header.prev_cr
         /\ outcome' = IF header.content_size = -1 THEN "ignored" ELSE "content"
      \/ /\ header.prev_blr <=> b = "n"
         /\ b \in {"s", "n"} /\ ~header.next_is_size /\ header.word_counter = 0 /\ header.word # <<"V">>
         /\ outcome' = "ignored"
  <2>1. header.prev_blr \in BOOLEAN /\ header.prev_cr \in BOOLEAN
    BY <1>3 DEF HeaderType
  <2>2. Resp!Unpaired(header, b) <=> ~(header.prev_blr <=> b = "n")
    BY <2>1 DEF Resp!Unpaired
  <2>3. Resp!WrongStart(header) <=> ~header.next_is_size /\ header.word_counter = 0 /\ header.word # <<"V">>
    BY DEF Resp!WrongStart
  <2>4. outcome' = IF Resp!Unpaired(header, b) THEN "ignored"
                   ELSE IF b = "n" /\ header.prev_cr THEN IF header.content_size = -1 THEN "ignored" ELSE "content"
                   ELSE IF b \in {"s", "n"} /\ Resp!WrongStart(header) THEN "ignored" ELSE "header"
    BY <1>1 DEF Resp!AfterByte
  <2> QED BY <2>2, <2>3, <2>4
<1>6. \A w : HasNo("L", w) => w # <<"L">>
  BY DEF HasNo
<1>7. ASSUME b = "n", header.prev_blr, header.prev_cr
      PROVE  /\ at > 1 /\ s[at] = "r" /\ s[at - 1] = "n" /\ p = Len(s) /\ Resp!BlankLineAt(s, p)
             /\ Resp!Paired(s)
  <2>1. at > 0 /\ s[at] = "r"
    BY <1>4, <1>7
  <2>2. at > 1 /\ s[at - 1] = "n"
    BY <1>4, <1>7, <2>1
  <2>3. at - 1 \in 1 .. at
    BY <1>3, <2>2
  <2>4. at - 1 > 1 /\ s[(at - 1) - 1] = "r"
    BY <1>4, <2>2, <2>3
  <2>5. p >= 4 /\ p - 1 = at /\ p - 2 = at - 1 /\ p - 3 = (at - 1) - 1 /\ s[p] = "n"
    <3>1. at # 2 => p >= 4
      BY <1>3, <2>2
    <3>2. at # 2
      BY <2>4
    <3> QED BY <1>3, <1>7, <3>1, <3>2 DEF b
  <2>6. Resp!BlankLineAt(s, p)
    BY <2>1, <2>2, <2>4, <2>5 DEF Resp!BlankLineAt
  <2>7. p = Len(s)
    BY <1>2, <1>3, <2>6
  <2>8. ASSUME NEW i \in 1 .. Len(s), s[i] = "n" PROVE i > 1 /\ s[i - 1] = "r"
    <3>1. CASE i = p
      BY <2>1, <2>5, <3>1
    <3>2. CASE i # p
      <4>1. i \in 1 .. at
        BY <1>3, <2>7, <3>2
      <4> QED BY <1>4, <2>8, <4>1
    <3> QED BY <3>1, <3>2
  <2>9. ASSUME NEW i \in 1 .. Len(s), s[i] = "r" PROVE i < Len(s) /\ s[i + 1] = "n"
    <3>1. i # p
      BY <2>5, <2>9
    <3>2. CASE i = at
      BY <1>3, <2>5, <2>7, <3>2
    <3>3. CASE i # at
      <4>1. i \in 1 .. at - 1
        BY <1>3, <2>7, <3>1, <3>3
      <4>2. i < Len(s)
        BY <1>3, <2>7, <4>1
      <4> QED BY <1>4, <2>9, <4>1, <4>2
    <3> QED BY <3>2, <3>3
  <2>10. Resp!Paired(s)
    BY <2>8, <2>9 DEF Resp!Paired
  <2> QED BY <2>1, <2>2, <2>6, <2>7, <2>10
<1>8. ASSUME Resp!WellFormed(s)
      PROVE  /\ header.prev_blr <=> b = "n"
             /\ ~(b \in {"s", "n"} /\ ~header.next_is_size /\ header.word_counter = 0 /\ header.word # <<"V">>)
             /\ b = "n" /\ header.prev_cr => header.content_size = answer.claimed
  <2>1. /\ \E i \in Nat : TheField(i)
        /\ Len(s) >= 5 /\ s[1] = "V" /\ s[2] = "s" /\ Resp!Paired(s)
    BY <1>2, <1>8, FieldFacts DEF s, Resp!WellFormed
  <2>2. PICK i \in Nat : TheField(i)
    BY <2>1
  <2>3. AtField(i)
    BY <1>1, <1>8, <2>2 DEF AnswerInv, FieldInv, s
  <2>4. header.prev_blr <=> b = "n"
    <3>1. ASSUME header.prev_blr PROVE b = "n"
      <4>1. at \in 1 .. Len(s) /\ s[at] = "r"
        BY <1>1, <1>2, <1>3, <1>4, <3>1
      <4> QED BY <2>1, <4>1 DEF Resp!Paired, b
    <3>2. ASSUME b = "n" PROVE header.prev_blr
      <4>1. p > 1 /\ s[p - 1] = "r"
        BY <1>3, <2>1, <3>2 DEF Resp!Paired, b
      <4>2. at > 0 /\ p - 1 = at
        BY <1>3, <4>1
      <4> QED BY <1>4, <4>1, <4>2
    <3> QED BY <3>1, <3>2
  <2>5. ~(b \in {"s", "n"} /\ header.word_counter = 0 /\ header.word # <<"V">>)
    <3>1. CASE at = 0
      <4>1. b = "V"
        BY <2>1, <3>1 DEF b
      <4> QED BY <4>1
    <3>2. CASE at = 1
      BY <2>3, <3>2 DEF AtField
    <3>3. CASE at >= 2
      BY <1>3, <2>3, <3>3 DEF AtField
    <3> QED BY <1>3, <3>1, <3>2, <3>3
  <2>6. ASSUME b = "n", header.prev_cr PROVE header.content_size = answer.claimed
    <3>1. at > 1 /\ s[at] = "r" /\ s[at - 1] = "n" /\ p = Len(s)
      BY <1>7, <2>4, <2>6
    <3>2. /\ i \in 2 .. Len(s) - 3 /\ s[i + 1] = "s" /\ s[i + 2] = "#" /\ s[i + 3] \in {"s", "r"}
      BY <2>2 DEF TheField, Resp!SizeField, s
    <3>3. at >= i + 2
      BY <1>2, <1>3, <3>1, <3>2
    <3>4. at # i + 2
      BY <3>1, <3>2
    <3>5. at # i + 3
      <4> SUFFICES ASSUME at = i + 3 PROVE FALSE
        OBVIOUS
      <4>1. at - 1 = i + 2
        BY <1>3, <3>2
      <4> QED BY <3>1, <3>2, <4>1
    <3>6. at > i + 3
      BY <1>3, <3>2, <3>3, <3>4, <3>5
    <3> QED BY <2>3, <3>6 DEF AtField
  <2> QED BY <2>4, <2>5, <2>6
<1>9. UNCHANGED HeadSent
  BY <1>1 DEF HeadSent
<1>10. ContentInv
  BY DEF AnswerInv
<1>11. CASE outcome' = "ignored"
  <2>1. ~Resp!WellFormed(s)
    BY <1>2, <1>5, <1>8, <1>11
  <2> QED BY <1>1, <1>9, <1>10, <1>11, <2>1 DEF ContentInv, s
<1>12. CASE outcome' = "content"
  <2>1. b = "n" /\ header.prev_blr /\ header.prev_cr /\ header.content_size # -1
    BY <1>5, <1>12
  <2>2. /\ p = Len(s) /\ Resp!BlankLineAt(s, p) /\ Resp!Paired(s)
    BY <1>7, <2>1
  <2>3. s[1] = "V"
    BY <1>3, <1>4, <2>1
  <2>4. \E i \in 1 .. Len(s) : s[i] = "L"
    <3>1. PICK j \in 1 .. at : s[j] = "L"
      BY <1>4, <2>1
    <3>2. j \in 1 .. Len(s)
      BY <1>3, <2>2
    <3> QED BY <3>1, <3>2
  <2>5. header.content_size \in {0, answer.claimed}
    BY <1>4, <2>1
  <2>6. Resp!WellFormed(s) => header.content_size = answer.claimed
    BY <1>8, <2>1
  <2>7. counter = 0 \/ counter # header.content_size
    BY <1>1, <1>10 DEF ContentInv
  <2> QED BY <1>1, <1>9, <1>10, <1>12, <2>2, <2>3, <2>4, <2>5, <2>6, <2>7 DEF ContentInv, s
<1> QED BY <1>5, <1>11, <1>12

LEMMA ReadHeaderInv == AnswerInv /\ Resp!ReadHeader => AnswerInv'
<1> SUFFICES ASSUME AnswerInv, Resp!ReadHeader PROVE AnswerInv'
  OBVIOUS
<1>1. /\ outcome = "header" /\ at < Len(answer.head) /\ at' = at + 1
      /\ UNCHANGED <<answer, counter, overrun>>
      /\ outcome' # "header" => UNCHANGED header
  BY DEF Resp!ReadHeader
<1>2. /\ Len(HeadSent) \in Nat /\ at \in 0 .. Len(HeadSent) /\ header \in HeaderType
      /\ header.word_counter <= at /\ header.word_counter \in Nat /\ UNCHANGED HeadSent
      /\ counter \in 0 .. answer.body /\ overrun \in BOOLEAN /\ (overrun => counter > 0)
  BY <1>1, AnswerFacts DEF AnswerInv, AnswerType, HeaderType, HeadSent
<1>3. /\ at' \in 0 .. Len(HeadSent') /\ Resp!AnswerOK(answer)' /\ counter' \in 0 .. answer'.body
      /\ overrun' \in BOOLEAN /\ (overrun' => counter' > 0)
  <2>1. at + 1 \in 0 .. Len(HeadSent)
    BY <1>1, <1>2 DEF HeadSent
  <2>2. Resp!AnswerOK(answer)
    BY DEF AnswerInv, AnswerType
  <2>3. Resp!AnswerOK(answer)' <=> Resp!AnswerOK(answer)
    BY <1>1 DEF Resp!AnswerOK
  <2> QED BY <1>1, <1>2, <2>1, <2>2, <2>3
<1>4. CASE outcome' = "header"
  <2>1. header' \in HeaderType /\ header'.word_counter <= at + 1 /\ ScanInv' /\ FieldInv'
    BY <1>4, HeaderGoesOn
  <2>2. AnswerType'
    BY <1>1, <1>3, <1>4, <2>1 DEF AnswerType
  <2>3. ContentInv'
    BY <1>1, <1>2, <1>4 DEF AnswerInv, ContentInv
  <2> QED BY <2>1, <2>2, <2>3 DEF AnswerInv
<1>5. CASE outcome' # "header"
  <2>1. outcome' \in {"content", "ignored"} /\ ContentInv'
    BY <1>5, HeaderEnds
  <2>2. header.word_counter <= at + 1
    BY <1>2
  <2>3. AnswerType'
    BY <1>1, <1>2, <1>3, <1>5, <2>1, <2>2 DEF AnswerType
  <2>4. ScanInv' /\ FieldInv'
    BY <1>5 DEF ScanInv, FieldInv
  <2> QED BY <2>1, <2>3, <2>4 DEF AnswerInv
<1> QED BY <1>4, <1>5

LEMMA ReadContentInv == AnswerInv /\ Resp!ReadContent => AnswerInv'
<1> SUFFICES ASSUME AnswerInv, Resp!ReadContent PROVE AnswerInv'
  OBVIOUS
<1>1. PICK n \in 1 .. READ_SIZE :
        /\ counter + n <= answer.body
        /\ counter' = counter + n
        /\ overrun' = (overrun \/ counter' > header.content_size)
        /\ outcome' = IF counter' = header.content_size THEN "page" ELSE "content"
  BY DEF Resp!ReadContent
<1>2. outcome = "content" /\ UNCHANGED <<answer, at, header>>
  BY DEF Resp!ReadContent
<1>3. /\ Len(HeadSent) \in Nat /\ answer.body \in Nat /\ answer.claimed \in Nat
      /\ at \in 0 .. Len(HeadSent) /\ header \in HeaderType
      /\ counter \in 0 .. answer.body /\ overrun \in BOOLEAN /\ UNCHANGED HeadSent
  BY <1>2, AnswerFacts DEF AnswerInv, AnswerType, HeadSent
<1>4. n \in Nat \ {0} /\ counter' \in 0 .. answer.body /\ counter' > 0
  BY <1>1, <1>3, AnswersAssumption
<1>5. outcome' \in {"page", "content"} /\ overrun' \in BOOLEAN
  BY <1>1
<1>6. AnswerType'
  <2>1. Resp!AnswerOK(answer)' <=> Resp!AnswerOK(answer)
    BY <1>2 DEF Resp!AnswerOK
  <2> QED BY <1>2, <1>3, <1>4, <1>5, <2>1 DEF AnswerInv, AnswerType
<1>7. ScanInv' /\ FieldInv'
  BY <1>5 DEF ScanInv, FieldInv
<1>8. ContentInv'
  <2>1. ContentInv
    BY DEF AnswerInv
  <2>2. ASSUME Resp!WellFormed(HeadSent), answer.body <= answer.claimed PROVE ~overrun'
    <3>1. header.content_size = answer.claimed /\ ~overrun
      BY <1>2, <2>1, <2>2 DEF ContentInv
    <3>2. ~(counter' > header.content_size)
      BY <1>3, <1>4, <2>2, <3>1
    <3> QED BY <1>1, <3>1, <3>2
  <2>3. outcome' = "content" => counter' # header.content_size
    BY <1>1
  <2>4. outcome' = "page" => counter' = header.content_size
    BY <1>1
  <2> QED BY <1>2, <1>3, <1>4, <1>5, <2>1, <2>2, <2>3, <2>4 DEF ContentInv
<1> QED BY <1>6, <1>7, <1>8 DEF AnswerInv

LEMMA HangUpInv == AnswerInv /\ Resp!EndOfFile => AnswerInv'
<1> SUFFICES ASSUME AnswerInv, Resp!EndOfFile PROVE AnswerInv'
  OBVIOUS
<1>1. /\ ~answer.open /\ outcome' = "lost" /\ UNCHANGED <<answer, at, header, counter, overrun>>
      /\ \/ outcome = "header" /\ at = Len(HeadSent)
         \/ outcome = "content" /\ counter = answer.body
  BY DEF Resp!EndOfFile, HeadSent
<1>2. UNCHANGED HeadSent /\ HeadSent \in Seq(Resp!Tokens) /\ Len(HeadSent) \in Nat
  BY <1>1, AnswerFacts DEF AnswerInv, AnswerType, HeadSent
<1>3. AnswerType'
  <2>1. Resp!AnswerOK(answer)' <=> Resp!AnswerOK(answer)
    BY <1>1 DEF Resp!AnswerOK
  <2> QED BY <1>1, <1>2, <2>1 DEF AnswerInv, AnswerType
<1>4. ScanInv' /\ FieldInv'
  BY <1>1 DEF ScanInv, FieldInv
<1>5. ContentInv'
  <2>1. ContentInv
    BY DEF AnswerInv
  <2>2. ASSUME Resp!WellFormed(HeadSent) PROVE counter = answer.body /\ (counter = 0 \/ counter # answer.claimed)
    <3>1. outcome # "header"
      <4> SUFFICES ASSUME outcome = "header", at = Len(HeadSent) PROVE FALSE
        BY <1>1
      <4>1. PICK i \in Nat : TheField(i)
        BY <1>2, <2>2, FieldFacts
      <4>2. at < Len(HeadSent)
        BY <2>2, <4>1 DEF AnswerInv, FieldInv, AtField
      <4> QED BY <1>2, <4>2
    <3> QED BY <1>1, <2>1, <2>2, <3>1 DEF ContentInv
  <2> QED BY <1>1, <1>2, <2>1, <2>2 DEF ContentInv
<1> QED BY <1>3, <1>4, <1>5 DEF AnswerInv

LEMMA ResetInv == AnswerInv /\ Resp!Reset => AnswerInv'
<1> SUFFICES ASSUME AnswerInv, Resp!Reset PROVE AnswerInv'
  OBVIOUS
<1>1. outcome' = "reset" /\ UNCHANGED <<answer, at, header, counter, overrun>> /\ UNCHANGED HeadSent
  BY DEF Resp!Reset, HeadSent
<1>2. AnswerType'
  <2>1. Resp!AnswerOK(answer)' <=> Resp!AnswerOK(answer)
    BY <1>1 DEF Resp!AnswerOK
  <2> QED BY <1>1, <2>1 DEF AnswerInv, AnswerType
<1>3. ScanInv' /\ FieldInv'
  BY <1>1 DEF ScanInv, FieldInv
<1>4. ContentInv'
  BY <1>1 DEF AnswerInv, ContentInv
<1> QED BY <1>2, <1>3, <1>4 DEF AnswerInv

LEMMA AnswerStep == AnswerInv /\ Resp!Next => AnswerInv' /\ UNCHANGED answer
<1>1. Resp!Next => UNCHANGED answer
  BY DEF Resp!Next, Resp!ReadHeader, Resp!ReadContent, Resp!EndOfFile
<1> QED BY <1>1, ReadHeaderInv, ReadContentInv, HangUpInv DEF Resp!Next

LEMMA SameAnswer ==
  ASSUME AnswerInv, UNCHANGED responseVars
  PROVE  AnswerInv'
<1>1. UNCHANGED <<answer, at, header, counter, overrun, outcome>> /\ UNCHANGED HeadSent
  BY DEF responseVars, HeadSent
<1>2. AnswerType'
  <2>1. Resp!AnswerOK(answer)' <=> Resp!AnswerOK(answer)
    BY <1>1 DEF Resp!AnswerOK
  <2> QED BY <1>1, <2>1 DEF AnswerInv, AnswerType
<1>3. ScanInv' /\ FieldInv' /\ ContentInv'
  BY <1>1 DEF AnswerInv, ScanInv, FieldInv, TheField, AtField, ContentInv
<1> QED BY <1>2, <1>3 DEF AnswerInv

(* What the loop promises for every answer, whoever sends it. *)
LEMMA AnswerIsProper == AnswerInv => Resp!TypeOK /\ Resp!SizeIsClaimed /\ Resp!PageIsProper /\ Resp!NoOverrun
<1> SUFFICES ASSUME AnswerInv PROVE Resp!TypeOK /\ Resp!SizeIsClaimed /\ Resp!PageIsProper /\ Resp!NoOverrun
  OBVIOUS
<1>1. /\ answer \in Resp!AnswerType /\ HeadSent \in Seq(Resp!Tokens) /\ Len(HeadSent) \in Nat
      /\ answer.claimed \in Nat /\ answer.body \in Nat
  BY AnswerFacts DEF AnswerInv, AnswerType
<1>2. Resp!TypeOK
  <2>1. /\ header.prev_blr \in BOOLEAN /\ header.prev_cr \in BOOLEAN /\ header.next_is_size \in BOOLEAN
        /\ header.word \in Seq(Resp!Tokens) /\ header.word_counter \in Nat
        /\ header.content_size \in Nat \union {-1}
    BY DEF AnswerInv, AnswerType, HeaderType
  <2>2. at \in 0 .. Len(HeadSent) /\ header.word_counter <= at
    BY DEF AnswerInv, AnswerType
  <2>3. header.word_counter \in 0 .. at
    BY <1>1, <2>1, <2>2
  <2> QED BY <1>1, <2>1, <2>2, <2>3 DEF Resp!TypeOK, AnswerInv, AnswerType, HeadSent
<1>3. Resp!SizeIsClaimed
  BY DEF Resp!SizeIsClaimed, AnswerInv, ContentInv, HeadSent
<1>4. Resp!PageIsProper
  BY <1>1 DEF Resp!PageIsProper, AnswerInv, ContentInv, HeadSent
<1>5. Resp!NoOverrun
  BY DEF Resp!NoOverrun, AnswerInv, ContentInv, HeadSent
<1> QED BY <1>2, <1>3, <1>4, <1>5
-----------------------------------------------------------------------------
(* What the server sends. *)
LEMMA ResponseFacts ==
  ASSUME file \in Files, verdict \in {"valid", "bad"}
  PROVE  /\ Response \in MessageType \union {None}
         /\ Response = None =>
              /\ verdict = "valid"
              /\ file.kind \in {"directory", "other"} \/ (file.kind = "file" /\ file.size = 0)
         /\ Response # None =>
              /\ Response.head = AnswerHead /\ Response.claimed = Response.body /\ Response.body \in Nat
              /\ ~Response.page => Response.text /\ Response.claimed > 0
              /\ Response.page => /\ verdict = "valid" /\ file.kind = "file"
                                  /\ Response.text = file.text /\ Response.claimed = file.size - 1
              /\ ~Response.page /\ verdict = "valid" =>
                   file.kind \in {"missing", "denied"} /\ Response.claimed = Texts[file.kind]
<1>1. /\ file.kind \in {"file", "missing", "denied", "directory", "other"}
      /\ file.size \in Nat /\ file.text \in BOOLEAN
  BY ExchangeAssumption DEF FileType
<1>2. None \notin MessageType
  BY ExchangeAssumption
<1>3. ASSUME NEW k \in {"missing", "denied", "request"}
      PROVE  /\ Fixed(k) \in MessageType /\ Texts[k] \in Nat /\ Texts[k] > 0
             /\ Fixed(k).head = AnswerHead /\ Fixed(k).claimed = Texts[k] /\ Fixed(k).body = Texts[k]
             /\ Fixed(k).text /\ ~Fixed(k).page
  <2>1. Texts[k] \in Nat \ {0}
    BY ExchangeAssumption
  <2>2. Texts[k] \in Nat /\ Texts[k] > 0
    BY <2>1
  <2> QED BY <2>2 DEF MessageType, Fixed, Message
<1>4. ASSUME file.size # 0
      PROVE  /\ Page \in MessageType /\ file.size - 1 \in Nat
             /\ Page.head = AnswerHead /\ Page.claimed = file.size - 1 /\ Page.body = file.size - 1
             /\ Page.text = file.text /\ Page.page
  <2>1. file.size - 1 \in Nat
    BY <1>1, <1>4
  <2> QED BY <1>1, <2>1 DEF MessageType, Page, Message, Content
<1>5. Response = IF verdict = "bad" THEN Fixed("request")
                 ELSE IF file.kind \in {"missing", "denied"} THEN Fixed(file.kind)
                 ELSE IF file.kind = "file" /\ file.size # 0 THEN Page ELSE None
  BY <1>1 DEF Response, HasLines
<1>6. CASE verdict = "bad"
  <2>1. Response = Fixed("request")
    BY <1>5, <1>6
  <2> QED BY <1>2, <1>3, <1>6, <2>1
<1>7. CASE verdict = "valid" /\ file.kind \in {"missing", "denied"}
  <2>1. Response = Fixed(file.kind)
    BY <1>5, <1>7
  <2> QED BY <1>2, <1>3, <1>7, <2>1
<1>8. CASE /\ verdict = "valid" /\ file.kind \notin {"missing", "denied"}
           /\ ~(file.kind = "file" /\ file.size # 0)
  <2>1. Response = None
    BY <1>5, <1>8
  <2> QED BY <1>1, <1>8, <2>1
<1>9. CASE verdict = "valid" /\ file.kind = "file" /\ file.size # 0
  <2>1. Response = Page
    BY <1>5, <1>9
  <2> QED BY <1>2, <1>4, <1>9, <2>1
<1> QED BY <1>1, <1>6, <1>7, <1>8, <1>9

(* a is a part of m, cut in its header or in its body; or it is all of m *)
PartOf(a, m) ==
  /\ a.claimed = m.claimed
  /\ \/ a.head \in PrefixesOf(m.head) /\ a.body = 0
     \/ a.head = m.head /\ a.body \in 0 .. m.body

AllOf(a, m) == a.head = m.head /\ a.claimed = m.claimed /\ a.body = m.body

LEMMA HeadFacts ==
  /\ AnswerHead \in Seq(Resp!Tokens) /\ Len(AnswerHead) \in Nat /\ Len(AnswerHead) > 0
  /\ Resp!WellFormed(AnswerHead) /\ Resp!BlankLineAt(AnswerHead, Len(AnswerHead))
  /\ \A p \in 1 .. Len(AnswerHead) : Resp!BlankLineAt(AnswerHead, p) => p = Len(AnswerHead)
<1> DEFINE a == [NoAnswer EXCEPT !.head = AnswerHead]
<1>1. Resp!AnswerOK(a) /\ Resp!WellFormed(AnswerHead)
  BY AnswersAssumption
<1>2. a.head = AnswerHead
  BY DEF NoAnswer
<1>3. a \in Resp!AnswerType /\ \A p \in 1 .. Len(a.head) : Resp!BlankLineAt(a.head, p) => p = Len(a.head)
  <2> HIDE DEF a
  <2> QED BY <1>1 DEF Resp!AnswerOK
<1>4. a.head \in Seq(Resp!Tokens)
  <2> HIDE DEF a
  <2> QED BY <1>3 DEF Resp!AnswerType
<1>5. Resp!BlankLineAt(AnswerHead, Len(AnswerHead))
  BY <1>1 DEF Resp!WellFormed
<1> QED BY <1>1, <1>2, <1>3, <1>4, <1>5 DEF Resp!BlankLineAt

(* However write() cuts an answer of the server, what arrives is a part of it that can be read. *)
LEMMA CutFacts ==
  ASSUME NEW m \in MessageType, NEW a \in Cut(Arrived(m))
  PROVE  /\ a \in Resp!AnswerType /\ a.open = TRUE /\ Resp!AnswerOK(a)
         /\ PartOf(a, m)
         /\ a = Arrived(m) <=> AllOf(a, m)
<1> DEFINE n == Arrived(m)
<1>1. /\ m.head = AnswerHead /\ m.claimed \in Nat /\ m.body \in Nat /\ m.open = TRUE
  BY DEF MessageType
<1>2. n = [head |-> AnswerHead, claimed |-> m.claimed, body |-> m.body, open |-> TRUE]
  BY <1>1 DEF Arrived
<1>3. \/ \E h \in PrefixesOf(AnswerHead) : a = [head |-> h, claimed |-> m.claimed, body |-> 0, open |-> TRUE]
      \/ \E b \in 0 .. m.body : a = [head |-> AnswerHead, claimed |-> m.claimed, body |-> b, open |-> TRUE]
  <2>1. \/ \E h \in PrefixesOf(n.head) : a = [n EXCEPT !.head = h, !.body = 0]
        \/ \E b \in 0 .. n.body : a = [n EXCEPT !.body = b]
    BY DEF Cut
  <2>2. n.head = AnswerHead /\ n.body = m.body
    BY <1>2
  <2> HIDE DEF n
  <2>3. CASE \E h \in PrefixesOf(n.head) : a = [n EXCEPT !.head = h, !.body = 0]
    <3>1. PICK h \in PrefixesOf(AnswerHead) : a = [n EXCEPT !.head = h, !.body = 0]
      BY <2>2, <2>3
    <3>2. a = [head |-> h, claimed |-> m.claimed, body |-> 0, open |-> TRUE]
      BY <1>2, <3>1
    <3> QED BY <3>2
  <2>4. CASE \E b \in 0 .. n.body : a = [n EXCEPT !.body = b]
    <3>1. PICK b \in 0 .. m.body : a = [n EXCEPT !.body = b]
      BY <2>2, <2>4
    <3>2. a = [head |-> AnswerHead, claimed |-> m.claimed, body |-> b, open |-> TRUE]
      BY <1>2, <3>1
    <3> QED BY <3>2
  <2> QED BY <2>1, <2>3, <2>4
<1>0. ASSUME NEW h, NEW b, a = [head |-> h, claimed |-> m.claimed, body |-> b, open |-> TRUE]
      PROVE  a = n <=> AllOf(a, m)
  <2>1. a.head = h /\ a.claimed = m.claimed /\ a.body = b
    BY <1>0
  <2>2. AllOf(a, m) <=> h = AnswerHead /\ b = m.body
    BY <1>1, <2>1 DEF AllOf
  <2>3. a = n => h = AnswerHead /\ b = m.body
    <3>1. n.head = AnswerHead /\ n.body = m.body
      BY <1>2
    <3> HIDE DEF n
    <3> QED BY <2>1, <3>1
  <2>4. h = AnswerHead /\ b = m.body => a = n
    BY <1>2, <1>0
  <2> QED BY <2>2, <2>3, <2>4
<1>4. CASE \E h \in PrefixesOf(AnswerHead) : a = [head |-> h, claimed |-> m.claimed, body |-> 0, open |-> TRUE]
  <2>1. PICK h \in PrefixesOf(AnswerHead) : a = [head |-> h, claimed |-> m.claimed, body |-> 0, open |-> TRUE]
    BY <1>4
  <2>2. PICK k \in 0 .. Len(AnswerHead) : h = SubSeq(AnswerHead, 1, k)
    BY DEF PrefixesOf
  <2>3. h \in Seq(Resp!Tokens) /\ Len(h) = k /\ \A j \in 1 .. k : h[j] = AnswerHead[j]
    BY <2>2, HeadFacts
  <2>4. /\ a.head = h /\ a.claimed = m.claimed /\ a.body = 0 /\ a.open = TRUE
        /\ a \in Resp!AnswerType
    BY <1>1, <2>1, <2>3 DEF Resp!AnswerType
  <2>5. \A p \in 1 .. Len(h) : Resp!BlankLineAt(h, p) => p = Len(h)
    <3> SUFFICES ASSUME NEW p \in 1 .. Len(h), Resp!BlankLineAt(h, p) PROVE p = Len(h)
      OBVIOUS
    <3>1. p \in 1 .. Len(AnswerHead) /\ Resp!BlankLineAt(AnswerHead, p)
      BY <2>2, <2>3, HeadFacts DEF Resp!BlankLineAt
    <3>2. p = Len(AnswerHead)
      BY <3>1, HeadFacts
    <3> QED BY <2>2, <2>3, <3>2, HeadFacts
  <2>6. Resp!AnswerOK(a)
    BY <2>4, <2>5 DEF Resp!AnswerOK
  <2>7. PartOf(a, m)
    BY <1>1, <2>4 DEF PartOf
  <2>8. a = n <=> AllOf(a, m)
    BY <1>0, <2>1
  <2> QED BY <2>4, <2>6, <2>7, <2>8
<1>5. CASE \E b \in 0 .. m.body : a = [head |-> AnswerHead, claimed |-> m.claimed, body |-> b, open |-> TRUE]
  <2>1. PICK b \in 0 .. m.body : a = [head |-> AnswerHead, claimed |-> m.claimed, body |-> b, open |-> TRUE]
    BY <1>5
  <2>2. b \in Nat /\ AnswerHead \in Seq(Resp!Tokens)
    BY <1>1, HeadFacts
  <2>3. /\ a.head = AnswerHead /\ a.claimed = m.claimed /\ a.body = b /\ a.open = TRUE
        /\ a \in Resp!AnswerType
    BY <1>1, <2>1, <2>2 DEF Resp!AnswerType
  <2>4. Resp!AnswerOK(a)
    BY <2>3, HeadFacts DEF Resp!AnswerOK
  <2>5. PartOf(a, m)
    BY <1>1, <2>1, <2>3 DEF PartOf
  <2>6. a = n <=> AllOf(a, m)
    BY <1>0, <2>1
  <2> QED BY <2>3, <2>4, <2>5, <2>6
<1> QED BY <1>3, <1>4, <1>5

(* A part with some of the body has the whole header, and no part is longer than the whole. *)
LEMMA PartFacts ==
  ASSUME NEW a, NEW m \in MessageType, PartOf(a, m), a.head \in Seq(Resp!Tokens)
  PROVE  /\ a.claimed = m.claimed /\ a.body \in Nat /\ a.body <= m.body
         /\ a.body > 0 => a.head = AnswerHead
<1>1. m.head = AnswerHead /\ m.body \in Nat
  BY DEF MessageType
<1> QED BY <1>1 DEF PartOf
-----------------------------------------------------------------------------
(***************************************************************************)
(* The two ends.  The server: what it has sent is a part of the answer to  *)
(* the request it has read, and it has counted what it sent whole.         *)
(***************************************************************************)
Untouched == answer.head = <<>> /\ answer.claimed = 0 /\ answer.body = 0

AllSent == message # None /\ AllOf(answer, message)
Counted == AllSent /\ message.page
Waiting == server = "up" /\ consumer \in {"read", "send"}

ServerInv ==
  /\ file \in Files /\ message \in MessageType \union {None}
  /\ server \in {"up", "crashed", "broken", "killed", "other"}
  /\ consumer \in {"read", "send", "count", "close", "done"}
  /\ server = "other" => consumer = "read" /\ message = None
  /\ server # "other" => Untouched \/ (message # None /\ PartOf(answer, message))
  /\ Waiting => Untouched /\ answer.open /\ Resp!Fresh
  /\ message # None => verdict \in {"valid", "bad"} /\ message = Response /\ consumer # "read"
  /\ consumer \in {"send", "count"} => message # None
  /\ consumer = "count" => AllSent
  /\ consumer \in {"read", "send", "count"} => pages_served = 0 /\ total_bytes_sent = 0
  /\ consumer \in {"close", "done"} =>
       /\ pages_served = IF Counted THEN 1 ELSE 0
       /\ total_bytes_sent = IF Counted THEN message.body ELSE 0
  /\ server = "crashed" => verdict \in {"valid", "bad"} /\ Response = None

(* The crawler: what it saved is the page it read in answer to its own request. *)
Taken ==
  /\ outcome = "page" /\ stream = Request
  /\ saved = [size |-> counter, text |-> IsErrorText]

NoneCounted == pages_downloaded = 0 /\ total_bytes_received = 0
Unsaved     == saved = None /\ NoneCounted

ClientInv ==
  /\ crawler \in {"up", "exited", "broken", "killed", "other"}
  /\ client \in {"send", "read", "save", "count", "close", "done"}
  /\ crawler = "other" => client = "done" /\ Unsaved /\ stream \in Streams
  /\ crawler # "other" => stream \in PrefixesOf(Request)
  /\ crawler = "exited" => outcome \in {"lost", "reset"}
  /\ outcome \in {"lost", "reset"} /\ crawler = "up" => client = "read"
  /\ client = "send" => stream = <<>> /\ pos = 0 /\ verdict \in {"reading", "gone"} /\ Unsaved
  /\ client = "read" => stream = Request /\ Unsaved
  /\ client = "save" => stream = Request /\ Unsaved /\ outcome = "page"
  /\ client = "count" => Taken /\ ~IsErrorText /\ NoneCounted
  /\ client \in {"close", "done"} /\ crawler # "other" =>
       \/ Unsaved /\ (stream = Request => outcome \in {"ignored", "lost", "reset"})
       \/ /\ Taken
          /\ pages_downloaded = IF IsErrorText THEN 0 ELSE 1
          /\ total_bytes_received = IF IsErrorText THEN 0 ELSE counter

ExchangeInv == ReadInv /\ AnswerInv /\ ServerInv /\ ClientInv

LEMMA FreshInvNext == Resp!AnswerOK(answer)' /\ Resp!Fresh' => AnswerInv'
<1>1. Resp!AnswerOK(answer) /\ Resp!Fresh => AnswerInv
  BY StartAnswerInv
<1> QED BY <1>1, PTL

(* Nothing can be read as long as nothing was sent. *)
LEMMA NothingToRead ==
  ASSUME Untouched, answer.open, Resp!Fresh, Resp!Next
  PROVE  FALSE
<1>1. Len(answer.head) = 0 /\ at = 0 /\ outcome = "header"
  BY DEF Untouched, Resp!Fresh
<1> QED BY <1>1 DEF Resp!Next, Resp!ReadHeader, Resp!ReadContent, Resp!EndOfFile

(* What of the request and of the answer a step of the crawler leaves alone, the server does. *)
LEMMA SameServer ==
  ASSUME ServerInv, UNCHANGED <<serverVars, answer, verdict>>, Waiting => Resp!Fresh'
  PROVE  ServerInv'
<1>1. UNCHANGED <<file, server, consumer, message, pages_served, total_bytes_sent, answer, verdict>>
  BY DEF serverVars
<1>2. UNCHANGED Response
  BY <1>1 DEF Response, Fixed, Page, Message, HasLines, Content
<1>3. UNCHANGED <<Untouched, AllSent, Counted, Waiting>>
  BY <1>1 DEF Untouched, AllSent, Counted, Waiting, AllOf
<1>4. PartOf(answer, message)' <=> PartOf(answer, message)
  BY <1>1 DEF PartOf
<1> QED BY <1>1, <1>2, <1>3, <1>4 DEF ServerInv

(* A step of the server changes the request's verdict, and the answer before it was read. *)
LEMMA SameClient ==
  ASSUME ClientInv, UNCHANGED <<crawlerVars, stream, outcome, counter>>,
         client = "send" => pos' = 0 /\ verdict' \in {"reading", "gone"},
         outcome = "page" => UNCHANGED message
  PROVE  ClientInv'
<1>1. UNCHANGED <<crawler, client, saved, pages_downloaded, total_bytes_received, stream, outcome, counter>>
  BY DEF crawlerVars
<1>2. UNCHANGED <<Unsaved, NoneCounted>>
  BY <1>1 DEF Unsaved, NoneCounted
<1>3. outcome = "page" => UNCHANGED IsErrorText
  BY DEF IsErrorText
<1>4. UNCHANGED Taken
  BY <1>1, <1>3 DEF Taken
<1>5. Taken => outcome = "page"
  BY DEF Taken
<1> QED BY <1>1, <1>2, <1>3, <1>4, <1>5 DEF ClientInv

LEMMA RequestFacts ==
  /\ Request \in Seq(Bytes) /\ Len(Request) \in Nat /\ Len(Request) > 1 /\ Request[1] = "G"
  /\ WellFormed(Request) /\ Proper(Request)
  /\ \A p \in 1 .. Len(Request) : BlankLineAt(Request, p) => p = Len(Request)
  /\ Request # <<>> /\ Request \in PrefixesOf(Request) /\ <<>> \in PrefixesOf(Request)
<1>1. Request \in Seq(Bytes) /\ WellFormed(Request) /\ Proper(Request)
  BY ExchangeAssumption
<1>2. Len(Request) \in Nat /\ Len(Request) > 1 /\ Request[1] = "G"
  BY <1>1 DEF Proper
<1>3. \A p \in 1 .. Len(Request) : BlankLineAt(Request, p) => p = Len(Request)
  BY <1>1 DEF WellFormed
<1>4. Request # <<>>
  BY <1>2
<1>5. Request \in PrefixesOf(Request)
  <2>1. SubSeq(Request, 1, Len(Request)) = Request
    BY <1>1
  <2>2. Len(Request) \in 0 .. Len(Request)
    BY <1>2
  <2>3. SubSeq(Request, 1, Len(Request)) \in PrefixesOf(Request)
    BY <2>2 DEF PrefixesOf
  <2> QED BY <2>1, <2>3
<1>6. <<>> \in PrefixesOf(Request)
  <2>1. SubSeq(Request, 1, 0) = <<>>
    BY <1>1
  <2> QED BY <1>2, <2>1 DEF PrefixesOf
<1> QED BY <1>1, <1>2, <1>3, <1>4, <1>5, <1>6

LEMMA PrefixFacts ==
  ASSUME NEW s \in PrefixesOf(Request)
  PROVE  s \in Seq(Bytes) /\ Len(s) <= Len(Request) /\ \A j \in 1 .. Len(s) : s[j] = Request[j]
<1>1. PICK k \in 0 .. Len(Request) : s = SubSeq(Request, 1, k)
  BY DEF PrefixesOf
<1> QED BY <1>1, RequestFacts

-----------------------------------------------------------------------------
LEMMA StartsRight == ExchangeInit => ExchangeInv
<1> SUFFICES ASSUME ExchangeInit PROVE ExchangeInv
  OBVIOUS
<1>1. /\ BothOurs \/ OtherClient \/ OtherServer
      /\ pos = 0 /\ misled = FALSE /\ verdict = "reading" /\ Resp!Fresh
      /\ consumer = "read" /\ message = None
      /\ pages_served = 0 /\ total_bytes_sent = 0
      /\ saved = None /\ pages_downloaded = 0 /\ total_bytes_received = 0
  BY DEF ExchangeInit
<1>2. file \in Files
  <2> DEFINE Absent(x) == x.kind = "missing"
  <2>1. \E x \in Files : Absent(x)
    BY ExchangeAssumption
  <2>2. BothOurs \/ file = CHOOSE x \in Files : Absent(x)
    BY <1>1 DEF OtherClient, OtherServer
  <2> HIDE DEF Absent
  <2>3. (CHOOSE x \in Files : Absent(x)) \in Files
    BY <2>1, Zenon
  <2> QED BY <2>2, <2>3 DEF BothOurs
<1>3. stream \in Seq(Bytes) /\ hangsup \in BOOLEAN
  <2>1. Request \in Seq(Bytes) /\ Streams \subseteq Seq(Bytes) /\ <<>> \in Seq(Bytes)
    BY RequestFacts, RequestAssumption
  <2>2. stream = <<>> \/ stream \in Streams \/ stream = Request
    BY <1>1 DEF BothOurs, OtherClient, OtherServer
  <2>3. hangsup \in BOOLEAN
    BY <1>1 DEF BothOurs, OtherClient, OtherServer
  <2> QED BY <2>1, <2>2, <2>3
<1>4. ReadInv
  BY <1>1, <1>3, StartReadInv
<1>5. NoAnswer \in Resp!AnswerType /\ Resp!AnswerOK(NoAnswer)
  <2>1. NoAnswer.head = <<>> /\ NoAnswer.body = 0
    BY DEF NoAnswer
  <2>2. NoAnswer \in Resp!AnswerType
    BY DEF NoAnswer, Resp!AnswerType
  <2> QED BY <2>1, <2>2 DEF Resp!AnswerOK
<1>6. Resp!AnswerOK(answer)
  BY <1>1, <1>5, AnswersAssumption DEF BothOurs, OtherClient, OtherServer
<1>7. AnswerInv
  BY <1>1, <1>6, StartAnswerInv
<1>8. server # "other" => Untouched /\ answer.open
  <2>1. server # "other" => answer = NoAnswer
    BY <1>1 DEF BothOurs, OtherClient, OtherServer
  <2> QED BY <2>1 DEF NoAnswer, Untouched
<1>9. server \in {"up", "other"}
  BY <1>1 DEF BothOurs, OtherClient, OtherServer
<1>10. ServerInv
  BY <1>1, <1>2, <1>8, <1>9 DEF ServerInv, Waiting
<1>11. outcome = "header"
  BY <1>1 DEF Resp!Fresh
<1>12. ClientInv
  <2>1. Unsaved
    BY <1>1 DEF Unsaved, NoneCounted
  <2>2. CASE BothOurs
    BY <1>1, <1>11, <2>1, <2>2, RequestFacts DEF BothOurs, ClientInv
  <2>3. CASE OtherClient
    BY <1>1, <1>11, <2>1, <2>3 DEF OtherClient, ClientInv
  <2>4. CASE OtherServer
    BY <1>1, <1>11, <2>1, <2>4, RequestFacts DEF OtherServer, ClientInv
  <2> QED BY <1>1, <2>2, <2>3, <2>4
<1> QED BY <1>4, <1>7, <1>10, <1>12 DEF ExchangeInv

(* The client thread. *)
LEMMA SendRequestInv == ExchangeInv /\ SendRequest => ExchangeInv'
<1> SUFFICES ASSUME ExchangeInv, SendRequest PROVE ExchangeInv'
  OBVIOUS
<1>1. /\ crawler = "up" /\ client = "send" /\ stream' \in PrefixesOf(Request)
      /\ client' = IF stream' = Request THEN "read" ELSE "close"
      /\ UNCHANGED <<hangsup, pos, misled, verdict, responseVars, serverVars,
                     crawler, saved, pages_downloaded, total_bytes_received>>
  BY DEF SendRequest
<1>2. pos = 0 /\ verdict \in {"reading", "gone"} /\ Unsaved
  BY <1>1 DEF ExchangeInv, ClientInv
<1>3. hangsup \in BOOLEAN /\ misled \in BOOLEAN
  BY DEF ExchangeInv, ReadInv, ReadType
<1>4. ReadInv'
  <2>1. stream' \in Seq(Bytes)
    BY <1>1, PrefixFacts
  <2>2. pos' \in 0 .. Len(stream') /\ pos' = 0
    BY <1>1, <1>2, <2>1
  <2> QED BY <1>1, <1>2, <1>3, <2>1, <2>2
        DEF ReadInv, ReadType, EndsAtBlankLine, NotRefused, NotFooled, JudgeInv
<1>5. AnswerInv'
  BY <1>1, SameAnswer DEF ExchangeInv
<1>6. UNCHANGED <<answer, at, header, counter, overrun, outcome>>
  BY <1>1 DEF responseVars
<1>7. ServerInv'
  <2>1. Waiting => Resp!Fresh'
    BY <1>6 DEF ExchangeInv, ServerInv, Resp!Fresh
  <2> QED BY <1>1, <1>6, <2>1, SameServer DEF ExchangeInv
<1>8. ClientInv'
  <2>1. Unsaved'
    BY <1>1, <1>2 DEF Unsaved, NoneCounted
  <2>2. outcome \notin {"lost", "reset"}
    BY <1>1 DEF ExchangeInv, ClientInv
  <2> QED BY <1>1, <1>6, <2>1, <2>2 DEF ClientInv
<1> QED BY <1>4, <1>5, <1>7, <1>8 DEF ExchangeInv

LEMMA ReadAnswerInv == ExchangeInv /\ ReadAnswer => ExchangeInv'
<1> SUFFICES ASSUME ExchangeInv, ReadAnswer PROVE ExchangeInv'
  OBVIOUS
<1>1. /\ crawler = "up" /\ client = "read" /\ Resp!Next
      /\ UNCHANGED <<requestVars, serverVars, crawlerVars>>
  BY DEF ReadAnswer
<1>2. AnswerInv' /\ UNCHANGED answer
  BY <1>1, AnswerStep DEF ExchangeInv
<1>3. UNCHANGED <<stream, hangsup, pos, misled, verdict, crawler, client, saved,
                  pages_downloaded, total_bytes_received>>
  BY <1>1 DEF requestVars, crawlerVars
<1>4. ReadInv'
  <2>1. hangsup' \in BOOLEAN
    BY <1>3 DEF ExchangeInv, ReadInv, ReadType
  <2> QED BY <1>3, <2>1, SameRequest DEF ExchangeInv
<1>5. ServerInv'
  <2>1. ~Waiting
    BY <1>1, NothingToRead DEF ExchangeInv, ServerInv
  <2> QED BY <1>1, <1>2, <1>3, <2>1, SameServer DEF ExchangeInv
<1>6. ClientInv'
  <2>1. UNCHANGED <<Unsaved, NoneCounted>>
    BY <1>3 DEF Unsaved, NoneCounted
  <2> QED BY <1>1, <1>3, <2>1 DEF ExchangeInv, ClientInv
<1> QED BY <1>2, <1>4, <1>5, <1>6 DEF ExchangeInv

(* The steps of the crawler that touch neither end of what is sent. *)
LEMMA CrawlerAlone ==
  ASSUME ExchangeInv, UNCHANGED <<stream, pos, misled, verdict, responseVars, serverVars>>,
         hangsup' \in BOOLEAN, ClientInv'
  PROVE  ExchangeInv'
<1>1. ReadInv'
  BY SameRequest DEF ExchangeInv
<1>2. AnswerInv'
  BY SameAnswer DEF ExchangeInv
<1>3. UNCHANGED <<answer, at, header, counter, overrun, outcome>>
  BY DEF responseVars
<1>4. ServerInv'
  <2>1. Waiting => Resp!Fresh'
    BY <1>3 DEF ExchangeInv, ServerInv, Resp!Fresh
  <2> QED BY <1>3, <2>1, SameServer DEF ExchangeInv
<1> QED BY <1>1, <1>2, <1>4 DEF ExchangeInv

LEMMA TakeAnswerInv == ExchangeInv /\ TakeAnswer => ExchangeInv'
<1> SUFFICES ASSUME ExchangeInv, TakeAnswer PROVE ExchangeInv'
  OBVIOUS
<1>1. /\ crawler = "up" /\ client = "read" /\ outcome \in {"page", "ignored", "lost", "reset"}
      /\ crawler' = IF outcome \in {"lost", "reset"} THEN "exited" ELSE "up"
      /\ client' = IF outcome = "page" THEN "save" ELSE "close"
      /\ hangsup' = (crawler' = "exited")
      /\ UNCHANGED <<stream, pos, misled, verdict, responseVars, serverVars,
                     saved, pages_downloaded, total_bytes_received>>
  BY DEF TakeAnswer
<1>2. UNCHANGED <<outcome, counter, Unsaved>>
  BY <1>1 DEF responseVars, Unsaved, NoneCounted
<1>3. stream = Request /\ Unsaved
  BY <1>1 DEF ExchangeInv, ClientInv
<1>4. ClientInv'
  BY <1>1, <1>2, <1>3, RequestFacts DEF ClientInv
<1>5. hangsup' \in BOOLEAN
  BY <1>1
<1> QED BY <1>1, <1>4, <1>5, CrawlerAlone

LEMMA SavePageInv == ExchangeInv /\ SavePage => ExchangeInv'
<1> SUFFICES ASSUME ExchangeInv, SavePage PROVE ExchangeInv'
  OBVIOUS
<1>1. /\ crawler = "up" /\ client = "save"
      /\ saved' = [size |-> counter, text |-> IsErrorText]
      /\ client' = IF IsErrorText THEN "close" ELSE "count"
      /\ UNCHANGED <<requestVars, responseVars, serverVars, crawler, pages_downloaded, total_bytes_received>>
  BY DEF SavePage
<1>2. /\ UNCHANGED <<stream, hangsup, pos, misled, verdict, outcome, counter, message>>
  BY <1>1 DEF requestVars, responseVars, serverVars
<1>3. stream = Request /\ NoneCounted /\ outcome = "page"
  BY <1>1 DEF ExchangeInv, ClientInv, Unsaved
<1>4. UNCHANGED <<IsErrorText, NoneCounted>>
  BY <1>1, <1>2 DEF IsErrorText, NoneCounted
<1>5. Taken'
  BY <1>1, <1>2, <1>3, <1>4 DEF Taken
<1>6. ClientInv'
  <2>1. pages_downloaded' = 0 /\ total_bytes_received' = 0
    BY <1>3, <1>4 DEF NoneCounted
  <2> QED BY <1>1, <1>2, <1>3, <1>4, <1>5, <2>1, RequestFacts DEF ClientInv
<1>7. hangsup' \in BOOLEAN
  BY <1>2 DEF ExchangeInv, ReadInv, ReadType
<1> QED BY <1>1, <1>2, <1>6, <1>7, CrawlerAlone

LEMMA CountPageInv == ExchangeInv /\ CountPage => ExchangeInv'
<1> SUFFICES ASSUME ExchangeInv, CountPage PROVE ExchangeInv'
  OBVIOUS
<1>1. /\ crawler = "up" /\ client = "count" /\ client' = "close"
      /\ pages_downloaded' = pages_downloaded + 1
      /\ total_bytes_received' = total_bytes_received + counter
      /\ UNCHANGED <<requestVars, responseVars, serverVars, crawler, saved>>
  BY DEF CountPage
<1>2. /\ UNCHANGED <<stream, hangsup, pos, misled, verdict, outcome, counter, message>>
  BY <1>1 DEF requestVars, responseVars, serverVars
<1>3. Taken /\ ~IsErrorText /\ pages_downloaded = 0 /\ total_bytes_received = 0 /\ stream \in PrefixesOf(Request)
  BY <1>1 DEF ExchangeInv, ClientInv, NoneCounted
<1>4. UNCHANGED <<IsErrorText, Taken>>
  BY <1>1, <1>2 DEF IsErrorText, Taken
<1>5. counter \in Nat
  BY AnswerFacts DEF ExchangeInv, AnswerInv, AnswerType
<1>6. ClientInv'
  <2>1. pages_downloaded' = 1 /\ total_bytes_received' = counter'
    BY <1>1, <1>2, <1>3, <1>5
  <2>2. outcome' \notin {"lost", "reset"}
    BY <1>3, <1>4 DEF Taken
  <2> QED BY <1>1, <1>2, <1>3, <1>4, <2>1, <2>2 DEF ClientInv
<1>7. hangsup' \in BOOLEAN
  BY <1>2 DEF ExchangeInv, ReadInv, ReadType
<1> QED BY <1>1, <1>2, <1>6, <1>7, CrawlerAlone

LEMMA CloseClientInv == ExchangeInv /\ CloseClient => ExchangeInv'
<1> SUFFICES ASSUME ExchangeInv, CloseClient PROVE ExchangeInv'
  OBVIOUS
<1>1. /\ crawler = "up" /\ client = "close" /\ client' = "done" /\ hangsup' = TRUE
      /\ UNCHANGED <<stream, pos, misled, verdict, responseVars, serverVars,
                     crawler, saved, pages_downloaded, total_bytes_received>>
  BY DEF CloseClient
<1>2. UNCHANGED <<outcome, counter, message>>
  BY <1>1 DEF responseVars, serverVars
<1>3. UNCHANGED <<Unsaved, Taken, IsErrorText>>
  BY <1>1, <1>2 DEF Unsaved, NoneCounted, Taken, IsErrorText
<1>4. ClientInv'
  BY <1>1, <1>2, <1>3 DEF ExchangeInv, ClientInv
<1>5. hangsup' \in BOOLEAN
  BY <1>1
<1> QED BY <1>1, <1>4, <1>5, CrawlerAlone

LEMMA CrawlerEndsInv == ExchangeInv /\ CrawlerEnds => ExchangeInv'
<1> SUFFICES ASSUME ExchangeInv, CrawlerEnds PROVE ExchangeInv'
  OBVIOUS
<1>1. /\ crawler = "up" /\ client # "done" /\ crawler' = "killed" /\ hangsup' = TRUE
      /\ UNCHANGED <<stream, pos, misled, verdict, responseVars, serverVars,
                     client, saved, pages_downloaded, total_bytes_received>>
  BY DEF CrawlerEnds
<1>2. UNCHANGED <<outcome, counter, message>>
  BY <1>1 DEF responseVars, serverVars
<1>3. UNCHANGED <<Unsaved, NoneCounted, Taken, IsErrorText>>
  BY <1>1, <1>2 DEF Unsaved, NoneCounted, Taken, IsErrorText
<1>4. ClientInv'
  BY <1>1, <1>2, <1>3 DEF ExchangeInv, ClientInv
<1>5. hangsup' \in BOOLEAN
  BY <1>1
<1> QED BY <1>1, <1>4, <1>5, CrawlerAlone

LEMMA ClientBreaksInv == ExchangeInv /\ ClientBreaks => ExchangeInv'
<1> SUFFICES ASSUME ExchangeInv, ClientBreaks PROVE ExchangeInv'
  OBVIOUS
<1>1. /\ crawler = "up" /\ client = "send" /\ crawler' = "broken" /\ hangsup' = TRUE
      /\ UNCHANGED <<stream, pos, misled, verdict, responseVars, serverVars,
                     client, saved, pages_downloaded, total_bytes_received>>
  BY DEF ClientBreaks
<1>2. UNCHANGED <<outcome, Unsaved>>
  BY <1>1 DEF responseVars, Unsaved, NoneCounted
<1>3. ClientInv'
  BY <1>1, <1>2 DEF ExchangeInv, ClientInv
<1>4. hangsup' \in BOOLEAN
  BY <1>1
<1> QED BY <1>1, <1>3, <1>4, CrawlerAlone

LEMMA AnswerResetInv == ExchangeInv /\ AnswerReset => ExchangeInv'
<1> SUFFICES ASSUME ExchangeInv, AnswerReset PROVE ExchangeInv'
  OBVIOUS
<1>1. /\ crawler = "up" /\ client = "read" /\ Resp!Reset /\ ~answer.open
      /\ outcome' = "reset" /\ UNCHANGED <<answer, counter>>
      /\ UNCHANGED <<requestVars, serverVars, crawlerVars>>
  BY DEF AnswerReset, Resp!Reset
<1>2. UNCHANGED <<stream, hangsup, pos, misled, verdict, crawler, client, saved,
                  pages_downloaded, total_bytes_received>>
  BY <1>1 DEF requestVars, crawlerVars
<1>3. ReadInv'
  <2>1. hangsup' \in BOOLEAN
    BY <1>2 DEF ExchangeInv, ReadInv, ReadType
  <2> QED BY <1>2, <2>1, SameRequest DEF ExchangeInv
<1>4. AnswerInv'
  BY <1>1, ResetInv DEF ExchangeInv
<1>5. ServerInv'
  <2>1. ~Waiting
    BY <1>1 DEF ExchangeInv, ServerInv
  <2> QED BY <1>1, <1>2, <2>1, SameServer DEF ExchangeInv
<1>6. ClientInv'
  <2>1. UNCHANGED <<Unsaved, NoneCounted>>
    BY <1>2 DEF Unsaved, NoneCounted
  <2> QED BY <1>1, <1>2, <2>1 DEF ExchangeInv, ClientInv
<1> QED BY <1>3, <1>4, <1>5, <1>6 DEF ExchangeInv
-----------------------------------------------------------------------------
(* The consumer thread. *)
LEMMA ReadRequestInv == ExchangeInv /\ ReadRequest => ExchangeInv'
<1> SUFFICES ASSUME ExchangeInv, ReadRequest PROVE ExchangeInv'
  OBVIOUS
<1>1. /\ server = "up" /\ consumer = "read" /\ Next
      /\ UNCHANGED <<responseVars, serverVars, crawlerVars>>
  BY DEF ReadRequest
<1>2. ReadInv' /\ UNCHANGED <<stream, hangsup>>
  BY <1>1, ReaderStep DEF ExchangeInv
<1>3. AnswerInv'
  BY <1>1, SameAnswer DEF ExchangeInv
<1>4. UNCHANGED <<answer, at, header, counter, overrun, outcome,
                  file, server, consumer, message, pages_served, total_bytes_sent>>
  BY <1>1 DEF responseVars, serverVars
<1>5. message = None
  BY <1>1 DEF ExchangeInv, ServerInv
<1>6. ServerInv'
  <2>1. UNCHANGED <<Untouched, AllSent, Counted, Waiting>> /\ (Resp!Fresh' <=> Resp!Fresh)
    BY <1>4 DEF Untouched, AllSent, Counted, Waiting, AllOf, Resp!Fresh
  <2>2. PartOf(answer, message)' <=> PartOf(answer, message)
    BY <1>4 DEF PartOf
  <2> QED BY <1>1, <1>4, <1>5, <2>1, <2>2 DEF ExchangeInv, ServerInv
<1>7. ClientInv'
  <2>1. ASSUME client = "send" PROVE pos' = 0 /\ verdict' \in {"reading", "gone"}
    <3>1. Len(stream) = 0 /\ pos = 0 /\ verdict \in {"reading", "gone"}
      BY <2>1 DEF ExchangeInv, ClientInv
    <3>2. ~ReadChunk
      BY <3>1, RequestAssumption DEF ReadChunk
    <3> QED BY <1>1, <3>1, <3>2 DEF Next, EndOfFile, Judge
  <2> QED BY <1>1, <1>2, <1>4, <2>1, SameClient DEF ExchangeInv
<1> QED BY <1>2, <1>3, <1>6, <1>7 DEF ExchangeInv

LEMMA RespondInv == ExchangeInv /\ Respond => ExchangeInv'
<1> SUFFICES ASSUME ExchangeInv, Respond PROVE ExchangeInv'
  OBVIOUS
<1>1. /\ server = "up" /\ consumer = "read" /\ verdict \in {"valid", "bad"}
      /\ message' = Response
      /\ consumer' = IF message' = None THEN "read" ELSE "send"
      /\ server' = IF message' = None THEN "crashed" ELSE "up"
      /\ answer' = [answer EXCEPT !.open = (message' # None)]
      /\ UNCHANGED <<requestVars, at, header, counter, overrun, outcome, file,
                     pages_served, total_bytes_sent, crawlerVars>>
  BY DEF Respond
<1>2. UNCHANGED <<stream, hangsup, pos, misled, verdict>>
  BY <1>1 DEF requestVars
<1>3. Untouched /\ answer.open /\ Resp!Fresh /\ file \in Files /\ pages_served = 0 /\ total_bytes_sent = 0
  BY <1>1 DEF ExchangeInv, ServerInv, Waiting
<1>4. answer \in Resp!AnswerType
  BY AnswerFacts DEF ExchangeInv, AnswerInv, AnswerType
<1>5. /\ answer'.head = answer.head /\ answer'.claimed = answer.claimed /\ answer'.body = answer.body
      /\ answer'.open = (message' # None) /\ answer' \in Resp!AnswerType
  <2>1. (message' # None) \in BOOLEAN
    OBVIOUS
  <2> HIDE DEF Resp!AnswerType
  <2>2. answer' = [answer EXCEPT !.open = (message' # None)]
    BY <1>1
  <2> QED BY <1>4, <2>1, <2>2 DEF Resp!AnswerType
<1>6. ReadInv'
  <2>1. hangsup' \in BOOLEAN
    BY <1>2 DEF ExchangeInv, ReadInv, ReadType
  <2> QED BY <1>2, <2>1, SameRequest DEF ExchangeInv
<1>7. outcome = "header" /\ outcome' = "header" /\ Resp!Fresh'
  BY <1>1, <1>3 DEF Resp!Fresh
<1>8. Untouched'
  BY <1>3, <1>5 DEF Untouched
<1>9. AnswerInv'
  <2>1. Resp!AnswerOK(answer)'
    BY <1>5, <1>8 DEF Resp!AnswerOK, Untouched
  <2> QED BY <1>7, <2>1, FreshInvNext
<1>10. message' \in MessageType \union {None} /\ UNCHANGED Response
  <2>1. UNCHANGED Response
    BY <1>1, <1>2 DEF Response, Fixed, Page, Message, HasLines, Content
  <2> QED BY <1>1, <1>3, <2>1, ResponseFacts
<1>11. ServerInv'
  <2>1. CASE message' = None
    <3>1. ~Waiting'
      BY <1>1, <2>1 DEF Waiting
    <3> QED BY <1>1, <1>2, <1>3, <1>8, <1>10, <2>1, <3>1 DEF ServerInv
  <2>2. CASE message' # None
    <3>1. answer'.open
      BY <1>5, <2>2
    <3> QED BY <1>1, <1>2, <1>3, <1>7, <1>8, <1>10, <2>2, <3>1 DEF ServerInv
  <2> QED BY <2>1, <2>2
<1>12. ClientInv'
  <2>1. client # "send"
    BY <1>1 DEF ExchangeInv, ClientInv
  <2> QED BY <1>1, <1>2, <1>7, <2>1, SameClient DEF ExchangeInv
<1> QED BY <1>6, <1>9, <1>11, <1>12 DEF ExchangeInv

(* The steps of the server after the request was read. *)
LEMMA ServerAlone ==
  ASSUME ExchangeInv, UNCHANGED <<requestVars, crawlerVars, message, outcome, counter>>,
         AnswerInv', ServerInv'
  PROVE  ExchangeInv'
<1>1. UNCHANGED <<stream, hangsup, pos, misled, verdict>>
  BY DEF requestVars
<1>2. ReadInv'
  <2>1. hangsup' \in BOOLEAN
    BY <1>1 DEF ExchangeInv, ReadInv, ReadType
  <2> QED BY <1>1, <2>1, SameRequest DEF ExchangeInv
<1>3. ClientInv'
  <2>1. client = "send" => pos' = 0 /\ verdict' \in {"reading", "gone"}
    BY <1>1 DEF ExchangeInv, ClientInv
  <2> QED BY <1>1, <2>1, SameClient DEF ExchangeInv
<1> QED BY <1>2, <1>3 DEF ExchangeInv

LEMMA GiveUpInv == ExchangeInv /\ GiveUp => ExchangeInv'
<1> SUFFICES ASSUME ExchangeInv, GiveUp PROVE ExchangeInv'
  OBVIOUS
<1>1. /\ server = "up" /\ consumer = "read" /\ verdict = "gone" /\ consumer' = "close"
      /\ UNCHANGED <<requestVars, responseVars, file, server, message,
                     pages_served, total_bytes_sent, crawlerVars>>
  BY DEF GiveUp
<1>2. UNCHANGED <<answer, outcome, counter, verdict>>
  BY <1>1 DEF responseVars, requestVars
<1>3. AnswerInv'
  BY <1>1, SameAnswer DEF ExchangeInv
<1>4. ServerInv'
  <2>1. message' = None
    BY <1>1 DEF ExchangeInv, ServerInv
  <2>2. ~Counted' /\ ~Waiting'
    BY <1>1, <2>1 DEF Counted, AllSent, Waiting
  <2>3. Untouched' <=> Untouched
    BY <1>2 DEF Untouched
  <2> QED BY <1>1, <1>2, <2>1, <2>2, <2>3 DEF ExchangeInv, ServerInv
<1> QED BY <1>1, <1>2, <1>3, <1>4, ServerAlone

(* What arrives of the answer can be read from its beginning. *)
LEMMA ArrivesInv ==
  ASSUME ExchangeInv, Waiting, consumer = "send", NEW a \in Cut(Arrived(message)), NEW open \in BOOLEAN,
         answer' = [a EXCEPT !.open = open], UNCHANGED <<at, header, counter, overrun, outcome>>
  PROVE  /\ AnswerInv' /\ PartOf(answer', message) /\ (AllOf(answer', message) <=> AllOf(a, message))
         /\ answer'.open = open
<1>1. message \in MessageType /\ Resp!Fresh
  BY DEF ExchangeInv, ServerInv
<1>2. a \in Resp!AnswerType /\ Resp!AnswerOK(a) /\ PartOf(a, message)
  BY <1>1, CutFacts
<1>3. /\ answer'.head = a.head /\ answer'.claimed = a.claimed /\ answer'.body = a.body
      /\ answer'.open = open /\ answer' \in Resp!AnswerType
  BY <1>2 DEF Resp!AnswerType
<1>4. Resp!AnswerOK(answer)'
  BY <1>2, <1>3 DEF Resp!AnswerOK
<1>5. Resp!Fresh'
  BY <1>1 DEF Resp!Fresh
<1>6. AnswerInv'
  BY <1>4, <1>5, FreshInvNext
<1> QED BY <1>2, <1>3, <1>6 DEF PartOf, AllOf

LEMMA SendAnswerInv == ExchangeInv /\ SendAnswer => ExchangeInv'
<1> SUFFICES ASSUME ExchangeInv, SendAnswer PROVE ExchangeInv'
  OBVIOUS
<1>1. /\ server = "up" /\ consumer = "send" /\ answer' \in Cut(Arrived(message))
      /\ consumer' = IF answer' = Arrived(message) THEN "count" ELSE "close"
      /\ UNCHANGED <<requestVars, at, header, counter, overrun, outcome,
                     file, server, message, pages_served, total_bytes_sent, crawlerVars>>
  BY DEF SendAnswer
<1>2. message \in MessageType /\ message # None /\ pages_served = 0 /\ total_bytes_sent = 0
  BY <1>1 DEF ExchangeInv, ServerInv
<1>3. PICK a \in Cut(Arrived(message)) : a = answer'
  BY <1>1
<1>4. a \in Resp!AnswerType /\ a.open = TRUE /\ (a = Arrived(message) <=> AllOf(a, message))
  BY <1>2, CutFacts
<1>5. answer' = [a EXCEPT !.open = TRUE]
  BY <1>3, <1>4 DEF Resp!AnswerType
<1>6. AnswerInv' /\ PartOf(answer', message)
  <2>1. Waiting
    BY <1>1 DEF Waiting
  <2> QED BY <1>1, <1>5, <2>1, ArrivesInv
<1>7. UNCHANGED <<verdict, Response>>
  <2>1. UNCHANGED verdict
    BY <1>1 DEF requestVars
  <2> QED BY <1>1, <2>1 DEF Response, Fixed, Page, Message, HasLines, Content
<1>8. ServerInv'
  <2>1. PartOf(answer', message') /\ message' # None /\ ~Waiting'
    BY <1>1, <1>2, <1>6 DEF PartOf, Waiting
  <2>2. consumer' = "count" <=> AllSent'
    BY <1>1, <1>2, <1>3, <1>4 DEF AllSent, AllOf
  <2>3. AllSent' \/ ~Counted'
    BY DEF Counted
  <2> QED BY <1>1, <1>2, <1>7, <2>1, <2>2, <2>3 DEF ExchangeInv, ServerInv
<1> QED BY <1>1, <1>6, <1>8, ServerAlone

LEMMA CountServedInv == ExchangeInv /\ CountServed => ExchangeInv'
<1> SUFFICES ASSUME ExchangeInv, CountServed PROVE ExchangeInv'
  OBVIOUS
<1>1. /\ server = "up" /\ consumer = "count" /\ consumer' = "close"
      /\ pages_served' = pages_served + IF message.page THEN 1 ELSE 0
      /\ total_bytes_sent' = total_bytes_sent + IF message.page THEN message.body ELSE 0
      /\ UNCHANGED <<requestVars, responseVars, file, server, message, crawlerVars>>
  BY DEF CountServed
<1>2. UNCHANGED <<answer, outcome, counter, verdict>>
  BY <1>1 DEF responseVars, requestVars
<1>3. AnswerInv'
  BY <1>1, SameAnswer DEF ExchangeInv
<1>4. UNCHANGED <<Response, Untouched, AllSent, Counted>>
  BY <1>1, <1>2 DEF Response, Fixed, Page, Message, HasLines, Content, Untouched, AllSent, AllOf, Counted
<1>5. message \in MessageType /\ message # None /\ AllSent /\ pages_served = 0 /\ total_bytes_sent = 0
  BY <1>1 DEF ExchangeInv, ServerInv
<1>6. message.body \in Nat /\ message.page \in BOOLEAN
  BY <1>5 DEF MessageType
<1>7. /\ pages_served' = IF Counted' THEN 1 ELSE 0
      /\ total_bytes_sent' = IF Counted' THEN message'.body ELSE 0
  BY <1>1, <1>4, <1>5, <1>6 DEF Counted
<1>8. ServerInv'
  <2>1. ~Waiting' /\ (PartOf(answer, message)' <=> PartOf(answer, message))
    BY <1>1, <1>2 DEF Waiting, PartOf
  <2> QED BY <1>1, <1>2, <1>4, <1>5, <1>7, <2>1 DEF ExchangeInv, ServerInv
<1> QED BY <1>1, <1>2, <1>3, <1>8, ServerAlone

(* The server hangs up and does nothing else. *)
LEMMA HungUp ==
  ASSUME ExchangeInv, answer' = [answer EXCEPT !.open = FALSE], ~Waiting', server = "up",
         UNCHANGED <<requestVars, at, header, counter, overrun, outcome,
                     file, message, pages_served, total_bytes_sent, crawlerVars>>,
         \/ server' = "up" /\ consumer = "close" /\ consumer' = "done"
         \/ server' \in {"killed", "broken"} /\ UNCHANGED consumer
  PROVE  ExchangeInv'
<1>1. AnswerInv'
  BY ClosedAnswerInv DEF ExchangeInv
<1>2. answer \in Resp!AnswerType
  BY AnswerFacts DEF ExchangeInv, AnswerInv, AnswerType
<1>3. answer'.head = answer.head /\ answer'.claimed = answer.claimed /\ answer'.body = answer.body
  BY <1>2 DEF Resp!AnswerType
<1>4. UNCHANGED <<verdict, Response>>
  <2>1. UNCHANGED verdict
    BY DEF requestVars
  <2> QED BY <2>1 DEF Response, Fixed, Page, Message, HasLines, Content
<1>5. UNCHANGED <<Untouched, AllSent, Counted>> /\ (PartOf(answer, message)' <=> PartOf(answer, message))
  BY <1>3 DEF Untouched, AllSent, AllOf, Counted, PartOf
<1>6. ServerInv'
  BY <1>4, <1>5 DEF ExchangeInv, ServerInv
<1> QED BY <1>1, <1>6, ServerAlone

LEMMA CloseServerInv == ExchangeInv /\ CloseServer => ExchangeInv'
<1> SUFFICES ASSUME ExchangeInv, CloseServer PROVE ExchangeInv'
  OBVIOUS
<1>1. /\ server = "up" /\ consumer = "close" /\ consumer' = "done" /\ server' = "up"
      /\ answer' = [answer EXCEPT !.open = FALSE]
      /\ UNCHANGED <<requestVars, at, header, counter, overrun, outcome,
                     file, message, pages_served, total_bytes_sent, crawlerVars>>
  BY DEF CloseServer
<1>2. ~Waiting'
  BY <1>1 DEF Waiting
<1> QED BY <1>1, <1>2, HungUp

LEMMA ReadBreaksInv == ExchangeInv /\ ReadBreaks => ExchangeInv'
<1> SUFFICES ASSUME ExchangeInv, ReadBreaks PROVE ExchangeInv'
  OBVIOUS
<1>1. /\ server = "up" /\ server' = "broken" /\ answer' = [answer EXCEPT !.open = FALSE]
      /\ UNCHANGED <<requestVars, at, header, counter, overrun, outcome,
                     file, consumer, message, pages_served, total_bytes_sent, crawlerVars>>
  BY DEF ReadBreaks
<1>2. ~Waiting'
  BY <1>1 DEF Waiting
<1> QED BY <1>1, <1>2, HungUp

LEMMA WriteBreaksInv == ExchangeInv /\ WriteBreaks => ExchangeInv'
<1> SUFFICES ASSUME ExchangeInv, WriteBreaks PROVE ExchangeInv'
  OBVIOUS
<1>1. /\ server = "up" /\ server' = "broken" /\ answer' = [answer EXCEPT !.open = FALSE]
      /\ UNCHANGED <<requestVars, at, header, counter, overrun, outcome,
                     file, consumer, message, pages_served, total_bytes_sent, crawlerVars>>
  BY DEF WriteBreaks
<1>2. ~Waiting'
  BY <1>1 DEF Waiting
<1> QED BY <1>1, <1>2, HungUp

LEMMA ServerEndsInv == ExchangeInv /\ ServerEnds => ExchangeInv'
<1> SUFFICES ASSUME ExchangeInv, ServerEnds PROVE ExchangeInv'
  OBVIOUS
<1>1. /\ server = "up" /\ consumer # "done" /\ server' = "killed"
      /\ \E a \in IF consumer = "send" THEN Cut(Arrived(message)) ELSE {answer} :
           answer' = [a EXCEPT !.open = FALSE]
      /\ UNCHANGED <<requestVars, at, header, counter, overrun, outcome,
                     file, consumer, message, pages_served, total_bytes_sent, crawlerVars>>
  BY DEF ServerEnds
<1>2. ~Waiting'
  BY <1>1 DEF Waiting
<1>3. CASE consumer # "send"
  <2>1. answer' = [answer EXCEPT !.open = FALSE]
    BY <1>1, <1>3
  <2> QED BY <1>1, <1>2, <2>1, HungUp
<1>4. CASE consumer = "send"
  <2>1. PICK a \in Cut(Arrived(message)) : answer' = [a EXCEPT !.open = FALSE]
    BY <1>1, <1>4
  <2>2. AnswerInv' /\ PartOf(answer', message)
    <3>1. Waiting
      BY <1>1, <1>4 DEF Waiting
    <3> QED BY <1>1, <1>4, <2>1, <3>1, ArrivesInv
  <2>3. UNCHANGED <<verdict, Response>>
    <3>1. UNCHANGED verdict
      BY <1>1 DEF requestVars
    <3> QED BY <1>1, <3>1 DEF Response, Fixed, Page, Message, HasLines, Content
  <2>4. ServerInv'
    <3>1. PartOf(answer', message') /\ message' # None
      BY <1>1, <1>4, <2>2 DEF PartOf, ExchangeInv, ServerInv
    <3> QED BY <1>1, <1>2, <1>4, <2>3, <3>1 DEF ExchangeInv, ServerInv
  <2> QED BY <1>1, <2>2, <2>4, ServerAlone
<1> QED BY <1>3, <1>4

LEMMA ExchangeStep == ExchangeInv /\ [ExchangeNext]_exchangeVars => ExchangeInv'
<1> SUFFICES ASSUME ExchangeInv, [ExchangeNext]_exchangeVars PROVE ExchangeInv'
  OBVIOUS
<1>1. CASE ClientStep
  BY <1>1, SendRequestInv, ReadAnswerInv, TakeAnswerInv, SavePageInv, CountPageInv, CloseClientInv DEF ClientStep
<1>2. CASE ConsumerStep
  BY <1>2, ReadRequestInv, RespondInv, GiveUpInv, SendAnswerInv, CountServedInv, CloseServerInv DEF ConsumerStep
<1>3. CASE CrawlerEnds
  BY <1>3, CrawlerEndsInv
<1>4. CASE ServerEnds
  BY <1>4, ServerEndsInv
<1>5. CASE Breaks
  BY <1>5, ClientBreaksInv, AnswerResetInv, ReadBreaksInv, WriteBreaksInv DEF Breaks
<1>6. CASE UNCHANGED exchangeVars
  <2>1. UNCHANGED <<requestVars, responseVars, serverVars, crawlerVars>>
    BY <1>6 DEF exchangeVars
  <2>2. UNCHANGED <<stream, hangsup, pos, misled, verdict, outcome, counter, message>>
    BY <2>1 DEF requestVars, responseVars, serverVars
  <2>3. hangsup' \in BOOLEAN
    BY <2>2 DEF ExchangeInv, ReadInv, ReadType
  <2>4. client = "send" => pos' = 0 /\ verdict' \in {"reading", "gone"}
    BY <2>2 DEF ExchangeInv, ClientInv
  <2>5. ClientInv'
    BY <2>1, <2>2, <2>4, SameClient DEF ExchangeInv
  <2> QED BY <2>1, <2>2, <2>3, <2>5, CrawlerAlone
<1> QED BY <1>1, <1>2, <1>3, <1>4, <1>5, <1>6 DEF ExchangeNext

(***************************************************************************)
(* The inductive invariant of an exchange: of its two ends, whichever of   *)
(* them is of this repository, and of what is on its way between them.     *)
(***************************************************************************)
THEOREM Invariance == ExchangeSpec => []ExchangeInv
BY StartsRight, ExchangeStep, PTL DEF ExchangeSpec
-----------------------------------------------------------------------------
(* What the invariant says once something has been read, or was lost. *)

LEMMA PageIsWhole ==
  ASSUME ExchangeInv, outcome = "page", server # "other"
  PROVE  /\ message \in MessageType /\ message # None /\ AllSent /\ ~Waiting
         /\ counter = message.claimed /\ counter = message.body
<1>1. counter > 0 /\ counter \in 0 .. answer.body /\ answer.body \in Nat /\ HeadSent \in Seq(Resp!Tokens)
  BY AnswerFacts DEF ExchangeInv, AnswerInv, AnswerType, ContentInv
<1>2. answer.body > 0 /\ counter \in Nat
  BY <1>1
<1>3. message # None /\ message \in MessageType /\ PartOf(answer, message)
  BY <1>2 DEF ExchangeInv, ServerInv, Untouched
<1>4. answer.head = AnswerHead /\ answer.claimed = message.claimed /\ answer.body <= message.body
  BY <1>1, <1>2, <1>3, PartFacts DEF HeadSent
<1>5. counter = answer.claimed
  BY <1>4, HeadFacts DEF ExchangeInv, AnswerInv, ContentInv, HeadSent
<1>6. message.claimed = message.body /\ message.head = AnswerHead /\ message.body \in Nat
  <2>1. file \in Files /\ verdict \in {"valid", "bad"} /\ message = Response
    BY <1>3 DEF ExchangeInv, ServerInv
  <2> QED BY <1>3, <2>1, ResponseFacts
<1>7. answer.body = message.body
  BY <1>1, <1>2, <1>4, <1>5, <1>6
<1>8. AllSent
  BY <1>3, <1>4, <1>6, <1>7 DEF AllSent, AllOf
<1>9. ~Waiting
  BY <1>2 DEF ExchangeInv, ServerInv, Untouched
<1> QED BY <1>3, <1>4, <1>5, <1>6, <1>8, <1>9

(* The server answers with a page only when it has read the whole request of this crawler. *)
LEMMA ValidIsWhole ==
  ASSUME ExchangeInv, crawler # "other", verdict = "valid"
  PROVE  stream = Request /\ pos = Len(stream)
<1>1. Proper(Received) /\ stream \in PrefixesOf(Request) /\ NotFooled /\ pos \in 0 .. Len(stream)
  BY DEF ExchangeInv, ReadInv, ReadType, JudgeInv, ClientInv
<1>2. PICK k \in 0 .. Len(Request) : stream = SubSeq(Request, 1, k)
  BY <1>1 DEF PrefixesOf
<1>3. stream \in Seq(Bytes) /\ Len(stream) = k /\ \A j \in 1 .. k : stream[j] = Request[j]
  BY <1>2, RequestFacts
<1>4. pos > 1
  <2>1. Len(Received) = pos
    BY <1>1, <1>3 DEF Received
  <2>2. Len(Received) > 1
    BY <1>1 DEF Proper
  <2> QED BY <2>1, <2>2
<1>5. stream[1] = "G"
  BY <1>1, <1>3, <1>4, RequestFacts
<1>6. BlankLineAt(stream, pos)
  BY <1>1, <1>5 DEF NotFooled
<1>7. BlankLineAt(Request, pos) /\ pos \in 1 .. Len(Request)
  BY <1>1, <1>2, <1>3, <1>4, <1>6 DEF BlankLineAt
<1>8. pos = Len(Request)
  BY <1>7, RequestFacts
<1>9. k = Len(Request)
  BY <1>1, <1>2, <1>3, <1>8, RequestFacts
<1>10. stream = Request
  BY <1>2, <1>9, RequestFacts
<1> QED BY <1>8, <1>10

LEMMA TypesHold == ExchangeInv => ExchangeTypeOK
<1> SUFFICES ASSUME ExchangeInv PROVE ExchangeTypeOK
  OBVIOUS
<1>1. stream \in Streams \union PrefixesOf(Request)
  BY DEF ExchangeInv, ClientInv
<1>2. pages_served \in 0 .. 1
  <2>1. pages_served = 0 \/ pages_served = 1
    BY DEF ExchangeInv, ServerInv
  <2> QED BY <2>1
<1>3. pages_downloaded \in 0 .. 1
  <2>1. pages_downloaded = 0 \/ pages_downloaded = 1
    BY DEF ExchangeInv, ClientInv, Unsaved, NoneCounted
  <2> QED BY <2>1
<1>4. Resp!TypeOK
  BY AnswerIsProper DEF ExchangeInv
<1> QED BY <1>1, <1>2, <1>3, <1>4 DEF ExchangeTypeOK, ExchangeInv, ReadInv, ReadType, ServerInv, ClientInv

(***************************************************************************)
(* read_http_get_req, whoever sends the request and whatever bytes lie     *)
(* before a block: it stops at a blank line and nowhere else.              *)
(***************************************************************************)
THEOREM StopsAtBlankLine == ExchangeSpec => []EndsAtBlankLine
<1>1. ExchangeInv => EndsAtBlankLine
  BY DEF ExchangeInv, ReadInv
<1> QED BY <1>1, Invariance, PTL

(***************************************************************************)
(* valid_http_get and read_http_get_response: what they take for proper    *)
(* is, for every stream, every answer and every way they are cut.          *)
(***************************************************************************)
THEOREM TakenIsProperHolds == ExchangeSpec => []TakenIsProper
<1>1. ExchangeInv => TakenIsProper
  <2> SUFFICES ASSUME ExchangeInv PROVE TakenIsProper
    OBVIOUS
  <2>1. ExchangeTypeOK
    BY TypesHold
  <2>2. ValidIsProper
    BY DEF ExchangeInv, ReadInv, JudgeInv, ValidIsProper
  <2>3. Resp!SizeIsClaimed /\ Resp!PageIsProper /\ Resp!NoOverrun
    BY AnswerIsProper DEF ExchangeInv
  <2>4. ASSUME overrun PROVE server = "other"
    <3> SUFFICES ASSUME server # "other" PROVE FALSE
      OBVIOUS
    <3>1. counter > 0 /\ counter \in 0 .. answer.body /\ answer.body \in Nat /\ HeadSent \in Seq(Resp!Tokens)
      BY <2>4, AnswerFacts DEF ExchangeInv, AnswerInv, AnswerType
    <3>2. answer.body > 0
      BY <3>1
    <3>3. message # None /\ message \in MessageType /\ PartOf(answer, message)
      BY <3>2 DEF ExchangeInv, ServerInv, Untouched
    <3>4. answer.head = AnswerHead /\ answer.claimed = message.claimed /\ answer.body <= message.body
      BY <3>1, <3>2, <3>3, PartFacts DEF HeadSent
    <3>5. message.claimed = message.body
      <4>1. file \in Files /\ verdict \in {"valid", "bad"} /\ message = Response
        BY <3>3 DEF ExchangeInv, ServerInv
      <4> QED BY <3>3, <4>1, ResponseFacts
    <3>6. Resp!WellFormed(HeadSent) /\ answer.body <= answer.claimed
      BY <3>4, <3>5, HeadFacts DEF HeadSent
    <3> QED BY <2>4, <3>6 DEF ExchangeInv, AnswerInv, ContentInv
  <2> QED BY <2>1, <2>2, <2>3, <2>4 DEF TakenIsProper
<1> QED BY <1>1, Invariance, PTL

LEMMA SavedRight == ExchangeInv => SavedAsServed
<1> SUFFICES ASSUME ExchangeInv, saved # None, server # "other", ~misled
             PROVE  saved = IF file.kind = "file" THEN [size |-> file.size - 1, text |-> file.text]
                                                  ELSE [size |-> Texts[file.kind], text |-> TRUE]
  BY DEF SavedAsServed
<1>1. Taken
  BY DEF ExchangeInv, ClientInv, Unsaved
<1>2. outcome = "page" /\ stream = Request /\ saved = [size |-> counter, text |-> IsErrorText]
  BY <1>1 DEF Taken
<1>3. message \in MessageType /\ message # None /\ counter = message.claimed
  BY <1>2, PageIsWhole
<1>4. file \in Files /\ verdict \in {"valid", "bad"} /\ message = Response
  BY <1>3 DEF ExchangeInv, ServerInv
<1>5. verdict = "valid"
  BY <1>2, <1>4, RequestFacts DEF ExchangeInv, ReadInv, JudgeInv
<1>6. message.text \in BOOLEAN /\ message.page \in BOOLEAN
  BY <1>3 DEF MessageType
<1>7. IsErrorText = message.text
  BY <1>3, <1>6 DEF IsErrorText
<1>8. CASE message.page
  <2>1. file.kind = "file" /\ message.text = file.text /\ message.claimed = file.size - 1
    BY <1>3, <1>4, <1>8, ResponseFacts
  <2> QED BY <1>2, <1>3, <1>7, <2>1
<1>9. CASE ~message.page
  <2>1. /\ file.kind \in {"missing", "denied"} /\ message.claimed = Texts[file.kind]
        /\ message.text
    BY <1>3, <1>4, <1>5, <1>9, ResponseFacts
  <2>2. IsErrorText = TRUE /\ file.kind # "file"
    BY <1>6, <1>7, <2>1
  <2> QED BY <1>2, <1>3, <2>1, <2>2
<1> QED BY <1>8, <1>9

LEMMA CountersRight == ExchangeInv => CountersAgree
<1> SUFFICES ASSUME ExchangeInv PROVE CountersAgree
  OBVIOUS
<1>1. ASSUME pages_served = 1
      PROVE  /\ message \in MessageType /\ message # None /\ AllOf(answer, message) /\ message.page
             /\ total_bytes_sent = message.body /\ verdict = "valid"
             /\ message.claimed = message.body /\ message.text = file.text
  <2>1. consumer \in {"close", "done"} /\ Counted /\ total_bytes_sent = message.body
    BY <1>1 DEF ExchangeInv, ServerInv
  <2>2. message # None /\ AllOf(answer, message) /\ message.page
    BY <2>1 DEF Counted, AllSent
  <2>3. message \in MessageType /\ file \in Files /\ verdict \in {"valid", "bad"} /\ message = Response
    BY <2>2 DEF ExchangeInv, ServerInv
  <2> QED BY <2>1, <2>2, <2>3, ResponseFacts
<1>2. pages_served = 1 => answer.body = total_bytes_sent /\ answer.body = answer.claimed
  BY <1>1 DEF AllOf
<1>3. ASSUME pages_downloaded = 1
      PROVE  \/ pages_served = 1 /\ total_bytes_sent = total_bytes_received
             \/ pages_served = 0 /\ (consumer = "count" \/ server # "up")
  <2>1. /\ Taken /\ ~IsErrorText /\ total_bytes_received = counter
    BY <1>3 DEF ExchangeInv, ClientInv, Unsaved, NoneCounted
  <2>2. CASE server = "other"
    <3>1. pages_served = 0
      BY <2>2 DEF ExchangeInv, ServerInv
    <3> QED BY <2>2, <3>1
  <2>3. CASE server # "other"
    <3>1. message \in MessageType /\ message # None /\ AllSent /\ ~Waiting /\ counter = message.body
      BY <2>1, <2>3, PageIsWhole DEF Taken
    <3>2. file \in Files /\ verdict \in {"valid", "bad"} /\ message = Response
      BY <3>1 DEF ExchangeInv, ServerInv
    <3>3. ~message.text
      BY <2>1, <3>1 DEF IsErrorText
    <3>4. Counted
      BY <3>1, <3>2, <3>3, ResponseFacts DEF Counted
    <3>5. consumer \in {"read", "send", "count", "close", "done"}
      BY DEF ExchangeInv, ServerInv
    <3>6. CASE consumer \in {"close", "done"}
      BY <2>1, <3>1, <3>4, <3>6 DEF ExchangeInv, ServerInv
    <3>7. CASE consumer \in {"read", "send", "count"}
      <4>1. pages_served = 0
        BY <3>7 DEF ExchangeInv, ServerInv
      <4> QED BY <3>1, <3>7, <4>1 DEF Waiting
    <3> QED BY <3>5, <3>6, <3>7
  <2> QED BY <2>2, <2>3
<1>4. ASSUME pages_served = 1, crawler = "up", client = "done"
      PROVE  pages_downloaded = IF file.text THEN 0 ELSE 1
  <2>1. /\ message \in MessageType /\ message # None /\ AllOf(answer, message) /\ verdict = "valid"
        /\ message.text = file.text
    BY <1>1, <1>4
  <2>2. stream = Request
    BY <1>4, <2>1, ValidIsWhole
  <2>3. answer.head = AnswerHead
    BY <2>1 DEF AllOf, MessageType
  <2>4. outcome \notin {"ignored", "lost", "reset"}
    <3>1. outcome # "ignored"
      BY <2>3, HeadFacts DEF ExchangeInv, AnswerInv, ContentInv, HeadSent
    <3>2. outcome \notin {"lost", "reset"}
      BY <1>4 DEF ExchangeInv, ClientInv
    <3> QED BY <3>1, <3>2
  <2>5. pages_downloaded = IF IsErrorText THEN 0 ELSE 1
    BY <1>4, <2>2, <2>4 DEF ExchangeInv, ClientInv
  <2>6. IsErrorText <=> file.text
    BY <2>1 DEF IsErrorText
  <2> QED BY <2>5, <2>6
<1> QED BY <1>2, <1>3, <1>4 DEF CountersAgree

(***************************************************************************)
(* write_page_in_file and the statistics of both programs: the two ends    *)
(* agree on every page, for all files, however the request and the answer  *)
(* are cut and whichever process ends when.                                *)
(***************************************************************************)
THEOREM EndsAgreeHolds == ExchangeSpec => []EndsAgree
<1>1. ExchangeInv => EndsAgree
  BY SavedRight, CountersRight DEF EndsAgree
<1> QED BY <1>1, Invariance, PTL

(***************************************************************************)
(* Which end has hung up when a read() or a write() fails.  A client       *)
(* thread of the crawler hangs up as its last step; a reset leaves bytes   *)
(* of the request unread for good; and what ends a process is over at the  *)
(* other end.                                                              *)
(***************************************************************************)
BreaksInv ==
  /\ hangsup /\ crawler = "up" => client = "done"
  /\ outcome = "reset" => ~Waiting /\ stream = Request /\ pos < Len(stream)
  /\ crawler = "broken" => server # "up"
  /\ server = "broken" /\ crawler = "up" => client # "send" /\ stream # Request

LEMMA BreaksStart == ExchangeInit => BreaksInv
<1>1. ExchangeInit => /\ hangsup /\ crawler = "up" => client = "done"
                      /\ server \in {"up", "other"} /\ crawler \in {"up", "other"}
  BY DEF ExchangeInit, BothOurs, OtherClient, OtherServer
<1>2. ExchangeInit => outcome = "header"
  BY DEF ExchangeInit, Resp!Fresh
<1> QED BY <1>1, <1>2 DEF BreaksInv

(* The steps of the client thread. *)
LEMMA BreaksClient ==
  ASSUME ExchangeInv, BreaksInv, ClientStep
  PROVE  BreaksInv'
<1>1. /\ crawler = "up" /\ UNCHANGED <<pos, serverVars>>
      /\ crawler' \in {"up", "exited"} /\ client' # "send"
  BY DEF ClientStep, SendRequest, ReadAnswer, TakeAnswer, SavePage, CountPage, CloseClient, requestVars, crawlerVars
<1>2. UNCHANGED <<server, consumer, Waiting>>
  BY <1>1 DEF serverVars, Waiting
<1>3. hangsup' /\ crawler' = "up" => client' = "done"
  BY DEF BreaksInv, ClientStep, SendRequest, ReadAnswer, TakeAnswer, SavePage, CountPage, CloseClient,
         requestVars, crawlerVars
<1>4. CASE SendRequest
  <2>1. client = "send" /\ UNCHANGED outcome
    BY <1>4 DEF SendRequest, responseVars
  <2>2. outcome # "reset" /\ server # "broken"
    BY <1>1, <2>1 DEF ExchangeInv, ClientInv, BreaksInv
  <2> QED BY <1>1, <1>2, <1>3, <2>1, <2>2 DEF BreaksInv
<1>5. CASE ReadAnswer
  <2>1. UNCHANGED stream /\ Resp!Next
    BY <1>5 DEF ReadAnswer, requestVars
  <2>2. outcome' # "reset"
    BY <2>1 DEF Resp!Next, Resp!ReadHeader, Resp!AfterByte, Resp!ReadContent, Resp!EndOfFile
  <2> QED BY <1>1, <1>2, <1>3, <2>1, <2>2 DEF BreaksInv
<1>6. CASE TakeAnswer \/ SavePage \/ CountPage \/ CloseClient
  <2>1. UNCHANGED <<stream, outcome>>
    BY <1>6 DEF TakeAnswer, SavePage, CountPage, CloseClient, requestVars, responseVars
  <2> QED BY <1>1, <1>2, <1>3, <2>1 DEF BreaksInv
<1> QED BY <1>4, <1>5, <1>6 DEF ClientStep

(* The steps of the consumer thread, and the end of its process for other reasons. *)
LEMMA BreaksServer ==
  ASSUME ExchangeInv, BreaksInv, ConsumerStep \/ ServerEnds
  PROVE  BreaksInv'
<1>1. /\ server = "up" /\ server' \in {"up", "crashed", "killed"}
      /\ UNCHANGED <<crawlerVars, outcome, stream, hangsup>>
      /\ consumer \notin {"read", "send"} => consumer' \notin {"read", "send"}
      /\ ReadRequest => Waiting
      /\ ~ReadRequest => UNCHANGED pos
  <2>1. CASE ReadRequest
    <3>1. UNCHANGED <<stream, hangsup>>
      BY <2>1, ReaderStep DEF ReadRequest, ExchangeInv
    <3> QED BY <2>1, <3>1 DEF ReadRequest, responseVars, serverVars, Waiting
  <2>2. CASE ~ReadRequest
    BY <2>2 DEF ConsumerStep, Respond, GiveUp, SendAnswer, CountServed, CloseServer, ServerEnds,
                requestVars, responseVars
  <2> QED BY <2>1, <2>2
<1>2. UNCHANGED <<crawler, client>> /\ (~Waiting => ~Waiting')
  BY <1>1 DEF crawlerVars, Waiting
<1> QED BY <1>1, <1>2 DEF BreaksInv

(* The steps that end a process, and the reset. *)
LEMMA BreaksEnds ==
  ASSUME ExchangeInv, BreaksInv, Breaks \/ CrawlerEnds
  PROVE  BreaksInv'
<1>1. CASE ClientBreaks \/ CrawlerEnds
  <2>1. /\ crawler' # "up" /\ (crawler' = "broken" => server # "up")
        /\ UNCHANGED <<stream, pos, outcome, server, consumer>>
    BY <1>1 DEF ClientBreaks, CrawlerEnds, responseVars, serverVars
  <2>2. UNCHANGED Waiting
    BY <2>1 DEF Waiting
  <2> QED BY <2>1, <2>2 DEF BreaksInv
<1>2. CASE AnswerReset
  <2>1. /\ crawler = "up" /\ client = "read" /\ pos < Len(stream) /\ ~answer.open
        /\ UNCHANGED <<stream, hangsup, pos, server, consumer, crawler, client>>
    BY <1>2 DEF AnswerReset, Resp!Reset, requestVars, serverVars, crawlerVars
  <2>2. UNCHANGED Waiting
    BY <2>1 DEF Waiting
  <2>3. ~Waiting /\ stream = Request
    BY <2>1 DEF ExchangeInv, ServerInv, ClientInv
  <2> QED BY <2>1, <2>2, <2>3 DEF BreaksInv
<1>3. CASE ReadBreaks \/ WriteBreaks
  <2>1. /\ server = "up" /\ consumer \in {"read", "send"} /\ hangsup /\ server' = "broken"
        /\ UNCHANGED <<stream, hangsup, pos, outcome, crawler, client>>
    BY <1>3 DEF ReadBreaks, WriteBreaks, requestVars, crawlerVars
  <2>2. outcome = "header"
    BY <2>1 DEF ExchangeInv, ServerInv, Waiting, Resp!Fresh
  <2>3. ASSUME crawler = "up" PROVE client = "done" /\ stream # Request
    <3>1. client = "done"
      BY <2>1, <2>3 DEF BreaksInv
    <3>2. Taken \/ (stream = Request => outcome \in {"ignored", "lost", "reset"})
      BY <2>3, <3>1 DEF ExchangeInv, ClientInv
    <3> QED BY <2>2, <3>1, <3>2 DEF Taken
  <2> QED BY <2>1, <2>2, <2>3 DEF BreaksInv
<1> QED BY <1>1, <1>2, <1>3 DEF Breaks

LEMMA BreaksStep == ExchangeInv /\ BreaksInv /\ [ExchangeNext]_exchangeVars => BreaksInv'
<1> SUFFICES ASSUME ExchangeInv, BreaksInv, [ExchangeNext]_exchangeVars PROVE BreaksInv'
  OBVIOUS
<1>1. CASE UNCHANGED exchangeVars
  BY <1>1 DEF exchangeVars, requestVars, responseVars, serverVars, crawlerVars, BreaksInv, Waiting
<1> QED BY <1>1, BreaksClient, BreaksServer, BreaksEnds DEF ExchangeNext

(***************************************************************************)
(* read(), send_message, discon, parse_file and make_http_get_response:    *)
(* the exits and the crashes that ExitsKnown names are the only ones that  *)
(* what passes over one connection can cause, for all requests, answers    *)
(* and files, directories among them, and however they are cut.            *)
(***************************************************************************)
THEOREM ExitsAreKnown == ExchangeSpec => []ExitsKnown
<1>1. ExchangeInv /\ BreaksInv => ExitsKnown
  <2> SUFFICES ASSUME ExchangeInv, BreaksInv PROVE ExitsKnown
    OBVIOUS
  <2>1. ASSUME crawler = "exited", server # "other", answer.head = AnswerHead, ~(answer.body < message.body), ~misled
        PROVE  file.kind = "file" /\ file.size = 1
    <3>1. message # None /\ message \in MessageType /\ PartOf(answer, message)
      <4>1. ~Untouched
        BY <2>1, HeadFacts DEF Untouched
      <4> QED BY <2>1, <4>1 DEF ExchangeInv, ServerInv
    <3>2. file \in Files /\ verdict \in {"valid", "bad"} /\ message = Response
      BY <3>1 DEF ExchangeInv, ServerInv
    <3>3. outcome = "lost"
      <4>1. outcome # "reset"
        <5> SUFFICES ASSUME outcome = "reset" PROVE FALSE
          OBVIOUS
        <5>1. stream = Request /\ pos < Len(stream) /\ Len(stream) \in Nat
          BY RequestFacts DEF BreaksInv
        <5>2. verdict = "valid"
          BY <2>1, <3>2, <5>1, RequestFacts DEF ExchangeInv, ReadInv, JudgeInv
        <5>3. pos = Len(stream)
          BY <2>1, <5>2, ValidIsWhole
        <5> QED BY <5>1, <5>3
      <4> QED BY <2>1, <4>1 DEF ExchangeInv, ClientInv
    <3>4. counter = answer.body /\ (counter = 0 \/ counter # answer.claimed)
      BY <2>1, <3>3, HeadFacts DEF ExchangeInv, AnswerInv, ContentInv, HeadSent
    <3>5. answer.claimed = message.claimed /\ answer.body \in Nat /\ answer.body <= message.body
      <4>1. answer.head \in Seq(Resp!Tokens)
        BY <2>1, HeadFacts
      <4> QED BY <3>1, <4>1, PartFacts
    <3>6. message.claimed = message.body /\ message.body \in Nat
      BY <3>1, <3>2, ResponseFacts
    <3>7. message.claimed = 0
      BY <2>1, <3>4, <3>5, <3>6
    <3>8. message.page
      BY <3>1, <3>2, <3>7, ResponseFacts
    <3>9. file.kind = "file" /\ file.size - 1 = 0
      BY <3>1, <3>2, <3>7, <3>8, ResponseFacts
    <3>10. file.size \in Nat
      BY <3>2, ExchangeAssumption DEF FileType
    <3> QED BY <3>9, <3>10
  <2>2. ASSUME server = "crashed"
        PROVE  /\ verdict = "valid" /\ Proper(Received)
               /\ file.kind \in {"directory", "other"} \/ (file.kind = "file" /\ file.size = 0)
    <3>1. file \in Files /\ verdict \in {"valid", "bad"} /\ Response = None
      BY <2>2 DEF ExchangeInv, ServerInv
    <3>2. verdict = "valid" /\ (file.kind \in {"directory", "other"} \/ (file.kind = "file" /\ file.size = 0))
      BY <3>1, ResponseFacts
    <3>3. Proper(Received)
      BY <3>2 DEF ExchangeInv, ReadInv, JudgeInv
    <3> QED BY <3>2, <3>3
  <2>3. crawler = "broken" => server # "up"
    BY DEF BreaksInv
  <2>4. server = "broken" /\ crawler # "other" => crawler # "up" \/ stream # Request
    BY DEF BreaksInv
  <2> QED BY <2>1, <2>2, <2>3, <2>4 DEF ExitsKnown
<1>2. ExchangeSpec => []BreaksInv
  BY BreaksStart, BreaksStep, Invariance, PTL DEF ExchangeSpec
<1> QED BY <1>1, <1>2, Invariance, PTL
=============================================================================
