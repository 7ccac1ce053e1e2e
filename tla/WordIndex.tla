----------------------------- MODULE WordIndex -----------------------------
(***************************************************************************)
(* The index a worker builds of the pages in its directories, and what it  *)
(* answers from it: my_trie (a tree of letters in sorted lists), its       *)
(* posting lists, and the lines and counts taken from them.                *)
(*                                                                         *)
(* A letter is its code; 60 is "<" and 62 is ">".  A node of the trie is   *)
(* named by the letters on the way to it; a horizontal list of nodes is    *)
(* the sequence of their letters, and a posting list a sequence of nodes.  *)
(***************************************************************************)
EXTENDS Integers, Sequences, SequencesExt, FiniteSets

CONSTANTS Corpora,     \* what the directories of a worker may hold, in the order of readdir()
          Queries      \* words that are asked for

(***************************************************************************)
(* A file: its document id, which is the index of its directory and its    *)
(* index there, its path, of which only the order of strcmp() counts, and  *)
(* the words of its lines.                                                 *)
(***************************************************************************)
FileType == [id : Nat \X Nat, path : Nat, lines : Seq(Seq(Seq(Nat)))]

ASSUME IndexAssumption ==
  /\ \A c \in Corpora : /\ c \in Seq(FileType)
                        /\ \A i, j \in 1 .. Len(c) : (c[i].path = c[j].path \/ c[i].id = c[j].id) => i = j
                        /\ \A i \in 1 .. Len(c) : \A l \in 1 .. Len(c[i].lines) :
                             \A k \in 1 .. Len(c[i].lines[l]) : c[i].lines[l][k] # <<>>
  /\ Queries \subseteq Seq(Nat) \ {<<>>}

VARIABLES corpus,
          at, txt_file, line, word, letter,   \* where insert_docs and insert_word are
          open_a_tag,
          children,                       \* each node's list of letters below it, <<>> for first
          pl,                             \* each node's posting list, empty for NULL
          n_words                         \* words of the files

placeVars == <<at, txt_file, line, word, letter, open_a_tag>>
indexVars == <<corpus, placeVars, children, pl, n_words>>

Lines == corpus[txt_file].lines
Words == Lines[line]
Word  == Words[word]

Open(w)  == w[1] = 60

(* Mutant: a word that opens a tag is not looked at any further. *)
CloseUnlessOpen(w) == Last(w) = 62 /\ ~Open(w)

Close(w) == Last(w) = 62

IndexInit ==
  /\ corpus \in Corpora
  /\ at = "word" /\ txt_file = 1 /\ line = 1 /\ word = 1 /\ letter = 1 /\ open_a_tag = FALSE
  /\ children = [p \in {<<>>} |-> <<>>] /\ pl = [p \in {<<>>} |-> <<>>]
  /\ n_words = 0

InFile == at = "word" /\ txt_file <= Len(corpus)
InLine == InFile /\ line <= Len(Lines)

(* a word that belongs to a tag *)
SkipWord ==
  /\ InLine /\ word <= Len(Words)
  /\ Open(Word) \/ Close(Word) \/ open_a_tag
  /\ open_a_tag' = (~Close(Word) /\ (Open(Word) \/ open_a_tag))
  /\ word' = word + 1
  /\ UNCHANGED <<corpus, at, txt_file, line, letter, children, pl, n_words>>

StartWord ==
  /\ InLine /\ word <= Len(Words)
  /\ ~Open(Word) /\ ~Close(Word) /\ ~open_a_tag
  /\ n_words' = n_words + 1
  /\ at' = "letter" /\ letter' = 1
  /\ UNCHANGED <<corpus, txt_file, line, word, open_a_tag, children, pl>>

(* the place in a sorted list where the search for a letter stops; 0 at its end *)
Stop(list, ch) == SelectInSeq(list, LAMBDA c : c >= ch)

Has(list, ch) == Stop(list, ch) # 0 /\ list[Stop(list, ch)] = ch

(* Mutant: a new letter is always put at the end of its list. *)
AddLetterLast(list, ch) == IF Has(list, ch) THEN list ELSE Append(list, ch)

AddLetter(list, ch) ==
  IF Has(list, ch) THEN list
  ELSE IF Stop(list, ch) = 0 THEN Append(list, ch) ELSE InsertAt(list, Stop(list, ch), ch)

(* a new node has neither letters below it nor a posting list; one that is there keeps them *)
WithNode(f, p) == [x \in DOMAIN f \union {p} |-> IF x \in DOMAIN f THEN f[x] ELSE <<>>]

(* Mutant: the node of a new letter takes the place of the one before it. *)
InsertLetterShort ==
  /\ at = "letter" /\ letter <= Len(Word)
  /\ LET p == SubSeq(Word, 1, letter - 1)
         q == SubSeq(Word, 1, letter)
     IN  /\ children' = WithNode([children EXCEPT ![p] = AddLetter(@, Word[letter])], q)
         /\ pl' = WithNode(pl, p)
  /\ letter' = letter + 1
  /\ UNCHANGED <<corpus, at, txt_file, line, word, open_a_tag, n_words>>

(* insert_word, one letter: a node is found in its list, or put where it keeps the list sorted *)
InsertLetter ==
  /\ at = "letter" /\ letter <= Len(Word)
  /\ LET p == SubSeq(Word, 1, letter - 1)
         q == SubSeq(Word, 1, letter)
     IN  /\ children' = WithNode([children EXCEPT ![p] = AddLetter(@, Word[letter])], q)
         /\ pl' = WithNode(pl, q)
  /\ letter' = letter + 1
  /\ UNCHANGED <<corpus, at, txt_file, line, word, open_a_tag, n_words>>

(* update_node: the lines of a file come in order, so the last one tells whether it is new *)
UpdateNode(n) ==
  [n EXCEPT !.freq = @ + 1,
            !.lines = IF Last(@) # line THEN Append(@, line) ELSE @]

(* Mutant: the directories of two documents are not compared. *)
SameDocInAnyDir(d, e) == d[2] = e[2]

(* cmp_doc_ids, cmp_doc_id *)
SameDoc(d, e) == d[1] = e[1] /\ d[2] = e[2]

(* the place of a document in a list; 0 if it is not there *)
Find(list, doc) == SelectInSeq(list, LAMBDA n : SameDoc(n.doc, doc))

(* posting_list::update *)
Update(list) ==
  LET doc == corpus[txt_file].id
      k   == Find(list, doc)
  IN  IF k = 0 THEN Append(list, [doc |-> doc, freq |-> 1, lines |-> <<line>>])
      ELSE [list EXCEPT ![k] = UpdateNode(@)]

EndWord ==
  /\ at = "letter" /\ letter > Len(Word)
  /\ pl' = [pl EXCEPT ![Word] = Update(@)]
  /\ at' = "word" /\ word' = word + 1
  /\ UNCHANGED <<corpus, txt_file, line, letter, open_a_tag, children, n_words>>

(* insert_docs: the next line starts outside of any tag *)
NextLine ==
  /\ InLine /\ word > Len(Words)
  /\ line' = line + 1 /\ word' = 1 /\ open_a_tag' = FALSE
  /\ UNCHANGED <<corpus, at, txt_file, letter, children, pl, n_words>>

NextFile ==
  /\ InFile /\ line > Len(Lines)
  /\ txt_file' = txt_file + 1 /\ line' = 1 /\ word' = 1
  /\ UNCHANGED <<corpus, at, letter, open_a_tag, children, pl, n_words>>

Finish ==
  /\ at = "word" /\ txt_file > Len(corpus)
  /\ at' = "done"
  /\ UNCHANGED <<corpus, txt_file, line, word, letter, open_a_tag, children, pl, n_words>>

IndexNext ==
  \/ SkipWord \/ StartWord \/ InsertLetter \/ EndWord \/ NextLine \/ NextFile \/ Finish

IndexSpec == IndexInit /\ [][IndexNext]_indexVars
-----------------------------------------------------------------------------
(* What a worker answers from its index. *)

(* search_word: each letter is looked up in its sorted list *)
Search(q) ==
  IF \A i \in 1 .. Len(q) : LET p == SubSeq(q, 1, i - 1)
                            IN  p \in DOMAIN children /\ Has(children[p], q[i])
    THEN pl[q] ELSE <<>>

(* Mutant: a line is added whether it is there or not. *)
AddLineAgain(answers, doc, l) ==
  LET k == Find(answers, doc)
  IN  IF k = 0 THEN Append(answers, [doc |-> doc, lines |-> <<l>>])
      ELSE [answers EXCEPT ![k].lines = Append(@, l)]

(* update_search_answers *)
AddLine(answers, doc, l) ==
  LET k == Find(answers, doc)
  IN  IF k = 0 THEN Append(answers, [doc |-> doc, lines |-> <<l>>])
      ELSE IF l \in ToSet(answers[k].lines) THEN answers
      ELSE [answers EXCEPT ![k].lines = Append(@, l)]

(* get_search_answer: all lines of all nodes of a posting list *)
AddPosting(answers, n) ==
  LET loop[k \in 0 .. Len(n.lines)] ==
        IF k = 0 THEN answers ELSE AddLine(loop[k - 1], n.doc, n.lines[k])
  IN  loop[Len(n.lines)]

AddPostings(answers, list) ==
  LET loop[k \in 0 .. Len(list)] == IF k = 0 THEN answers ELSE AddPosting(loop[k - 1], list[k])
  IN  loop[Len(list)]

SearchAnswers(queries) ==
  LET loop[k \in 0 .. Len(queries)] ==
        IF k = 0 THEN <<>> ELSE AddPostings(loop[k - 1], Search(queries[k]))
  IN  loop[Len(queries)]

(* get_total_n_lines *)
NAnswers(answers) ==
  LET loop[k \in 0 .. Len(answers)] == IF k = 0 THEN 0 ELSE loop[k - 1] + Len(answers[k].lines)
  IN  loop[Len(answers)]

Path(doc) == corpus[CHOOSE d \in 1 .. Len(corpus) : corpus[d].id = doc].path

(* Mutant: of two files with the same count the later one is kept. *)
BeatsLater(n, count, best, most) ==
  \/ IF most THEN n.freq > count ELSE n.freq < count
  \/ n.freq = count

(* get_maxcount_keyword (most) and get_mincount_keyword: a tie goes to the smaller path *)
Beats(n, count, best, most) ==
  \/ IF most THEN n.freq > count ELSE n.freq < count
  \/ n.freq = count /\ Path(best) > Path(n.doc)

Count(q, most) ==
  LET list == Search(q)
      loop[k \in 1 .. Len(list)] ==
        IF k = 1 \/ Beats(list[k], loop[k - 1].freq, loop[k - 1].doc, most)
          THEN [freq |-> list[k].freq, doc |-> list[k].doc] ELSE loop[k - 1]
  IN  loop[Len(list)]
-----------------------------------------------------------------------------
(* What the files say. *)

Earlier(d, l, k) == d < txt_file \/ (d = txt_file /\ (l < line \/ (l = line /\ k < word)))

(* a tag was opened before the k-th word, and no word since closes one *)
InTag(ws, k) ==
  \E m \in 1 .. k - 1 : Open(ws[m]) /\ \A j \in m .. k - 1 : ~Close(ws[j])

Outside(ws, k) == ~Open(ws[k]) /\ ~Close(ws[k]) /\ ~InTag(ws, k)

(***************************************************************************)
(* What a reader of the page sees, letter by letter: a word that is not of *)
(* a tag, behind no "<" that is still without its ">".  A word is tidy if  *)
(* its "<", when it does not close again, comes first, and its ">" last.   *)
(***************************************************************************)
Tidy(w) ==
  Last(w) = 62 \/ (62 \notin ToSet(w) /\ (60 \in ToSet(w) => w[1] = 60))

Visible(ws, k) ==
  /\ {60, 62} \intersect ToSet(ws[k]) = {}
  /\ \A m \in 1 .. k - 1 : \A i \in 1 .. Len(ws[m]) :
       ws[m][i] = 60 => \/ \E j \in i + 1 .. Len(ws[m]) : ws[m][j] = 62
                        \/ \E n \in m + 1 .. k - 1 : 62 \in ToSet(ws[n])

(* on a line of tidy words the first and last letters of the words tell the tags *)
TagsTold ==
  \A d \in 1 .. Len(corpus) : \A l \in 1 .. Len(corpus[d].lines) :
    LET ws == corpus[d].lines[l]
    IN  (\A k \in 1 .. Len(ws) : Tidy(ws[k]))
          => \A k \in 1 .. Len(ws) : Outside(ws, k) <=> Visible(ws, k)

(* file, line and number of every word *)
Places ==
  UNION {UNION {{<<d, l, k>> : k \in 1 .. Len(corpus[d].lines[l])} : l \in 1 .. Len(corpus[d].lines)} :
           d \in 1 .. Len(corpus)}

WordAt(o) == corpus[o[1]].lines[o[2]][o[3]]

(* the words outside of tags that the worker has come past *)
Occurrences ==
  {o \in Places : Earlier(o[1], o[2], o[3]) /\ Outside(corpus[o[1]].lines[o[2]], o[3])}

OccurrencesOf(q) == {o \in Occurrences : WordAt(o) = q}

HitsIn(q, d) == {o \in OccurrencesOf(q) : o[1] = d}

(* n is about file d: its occurrences of q and their lines, each once *)
NodeExact(n, q, d) ==
  /\ n.doc = corpus[d].id
  /\ HitsIn(q, d) # {} /\ n.freq = Cardinality(HitsIn(q, d))
  /\ ToSet(n.lines) = {o[2] : o \in HitsIn(q, d)}
  /\ \A m \in 1 .. Len(n.lines) : \A k \in 1 .. m - 1 : n.lines[k] < n.lines[m]

(* a node for each file with the word, in the order of the files *)
PostingsExact(list, q) ==
  /\ \A k \in 1 .. Len(list) : \E d \in 1 .. Len(corpus) : NodeExact(list[k], q, d)
  /\ \A o \in OccurrencesOf(q) : \E k \in 1 .. Len(list) : list[k].doc = corpus[o[1]].id
  /\ \A m \in 1 .. Len(list) : \A k \in 1 .. m - 1 :
       \E e \in 1 .. Len(corpus) : \E d \in 1 .. e - 1 :
         list[k].doc = corpus[d].id /\ list[m].doc = corpus[e].id

IndexTypeOK ==
  /\ corpus \in Seq(FileType) /\ at \in {"word", "letter", "done"}
  /\ txt_file \in 1 .. Len(corpus) + 1 /\ line \in Nat /\ word \in Nat /\ letter \in Nat
  /\ open_a_tag \in BOOLEAN /\ n_words \in Nat
  /\ DOMAIN pl = DOMAIN children
  /\ \A p \in DOMAIN children : \A i \in 1 .. Len(children[p]) :
       Append(p, children[p][i]) \in DOMAIN children

(***************************************************************************)
(* Between two words, whatever was inserted in whatever order: search_word *)
(* finds exactly the words that occurred outside of tags, with each file   *)
(* once, the number of occurrences in it, and its lines, each once.  A     *)
(* word that is only the beginning of another, or a list that lost its     *)
(* order, would show here.  Every letter of a list has its node.  And on   *)
(* lines of tidy words, those outside of tags are what a reader of the     *)
(* page sees; of "<b>word" and the like neither can be said.               *)
(***************************************************************************)
IndexExact ==
  /\ IndexTypeOK /\ TagsTold
  /\ at # "letter" =>
       /\ \A q \in Queries : PostingsExact(Search(q), q)
       /\ n_words = Cardinality(Occurrences)

(* /search q1 q2 *)
LinesExact(q1, q2) ==
  LET answers == SearchAnswers(<<q1, q2>>)
      lines   == UNION {{<<answers[i].doc, l>> : l \in ToSet(answers[i].lines)} :
                          i \in 1 .. Len(answers)}
  IN  /\ lines = {<<corpus[o[1]].id, o[2]>> : o \in OccurrencesOf(q1) \union OccurrencesOf(q2)}
      /\ NAnswers(answers) = Cardinality(lines)

(* /maxcount q (most) and /mincount q *)
CountExact(q, most) ==
  LET best == Count(q, most)
      in(d) == Cardinality(HitsIn(q, d))
  IN  /\ \E d \in 1 .. Len(corpus) : corpus[d].id = best.doc /\ in(d) = best.freq /\ in(d) > 0
      /\ \A d \in 1 .. Len(corpus) : in(d) > 0 =>
           \/ corpus[d].id = best.doc
           \/ IF most THEN in(d) < best.freq ELSE in(d) > best.freq
           \/ in(d) = best.freq /\ Path(best.doc) < corpus[d].path

(***************************************************************************)
(* /search with two words: every line with one of them is answered, once,  *)
(* though both words and several occurrences may be in it, and the number  *)
(* of answers that is announced is the number that is sent.  /maxcount and *)
(* /mincount: the file with the most (fewest, but not none) occurrences,   *)
(* of several the one whose path comes first, in whatever order readdir()  *)
(* gave the files.                                                         *)
(***************************************************************************)
AnswersExact ==
  at = "done" =>
    /\ \A q1, q2 \in Queries : LinesExact(q1, q2)
    /\ \A q \in Queries, most \in BOOLEAN : Search(q) # <<>> => CountExact(q, most)
=============================================================================
