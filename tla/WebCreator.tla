----------------------------- MODULE WebCreator -----------------------------
(***************************************************************************)
(* webcreator.sh: w sites of p pages each, every page with f links to      *)
(* pages of its own site and q links to pages of other sites, all chosen   *)
(* by chance.  A page is <<i, j>>: site i, index j; the lines of text that *)
(* fill a page are left out.  W, P, F and Q are the script's w, p, f and q *)
(* and site and page its i and j.                                          *)
(***************************************************************************)
EXTENDS Integers, Sequences, SequencesExt, FiniteSets

CONSTANTS Arguments,  \* what arguments 3 and 4 may be
          RandomNums  \* RandomNums[a]: what shuf gives for the ids of pages, with arguments a

(* [ w -ge 2 ] and [ p -ge 2 ] *)
ASSUME ArgumentsAssumption ==
  /\ Arguments \subseteq Nat \X Nat
  /\ \A a \in Arguments : /\ a[1] >= 2 /\ a[2] >= 2
                          /\ RandomNums[a] \subseteq 1 .. a[1] * a[2] /\ RandomNums[a] # {}

VARIABLES W, P,                      \* sites, and pages of a site
          phase, site, page,         \* the loops over sites and pages
          page_index,                \* the number in the name of each page
          links,                     \* the links chosen for the page
          inter_links_indexes,       \* indexes still to choose from
          websites_indexes,          \* sites still to choose from
          external_links_taken,      \* pages already chosen
          inc_links,                 \* pages marked as having an incoming link
          linked,                    \* the links written to files
          all_inc_links              \* the verdict that is printed

Sites == 0 .. W - 1
Pages == Sites \X (0 .. P - 1)
F     == P \div 2 + 1
Q     == W \div 2 + 1

args      == <<W, P>>
turnVars  == <<phase, site, page>>
poolVars  == <<inter_links_indexes, websites_indexes, external_links_taken>>
sitesVars == <<args, turnVars, page_index, links, poolVars, inc_links, linked, all_inc_links>>

(* the first of 10, 100, ... that is greater than n *)
Power10(n) ==
  LET power[m \in 0 .. n] ==
        IF m = 0 THEN 10 ELSE IF m = power[m - 1] THEN 10 * m ELSE power[m - 1]
  IN  power[n]

(* Mutant: only the site and the random number are in the name. *)
PageIndexNoJ(random_num, pg) == random_num * Power10(pg[1]) + pg[1]

(* $random_num$i$j: the decimal digits of the three numbers, one behind the other *)
PageIndex(random_num, pg) ==
  (random_num * Power10(pg[1]) + pg[1]) * Power10(pg[2]) + pg[2]

SitesInit ==
  /\ \E a \in Arguments : W = a[1] /\ P = a[2]
  /\ phase = "name" /\ site = 0 /\ page = 0
  /\ page_index = [pg \in Pages |-> 0]
  /\ links = <<>> /\ inter_links_indexes = <<>> /\ websites_indexes = <<>>
  /\ external_links_taken = {} /\ inc_links = {} /\ linked = {}
  /\ all_inc_links = TRUE

(* Mutant: the loop over the sites makes one turn too many. *)
NextPageOneMore(done, again) ==
  IF page < P - 1 THEN page' = page + 1 /\ phase' = again /\ UNCHANGED site
  ELSE /\ page' = 0
       /\ IF site <= W - 1 THEN site' = site + 1 /\ phase' = again ELSE site' = 0 /\ phase' = done

(* the next page of the loops, or the first and the state "done" *)
NextPage(done, again) ==
  IF page < P - 1 THEN page' = page + 1 /\ phase' = again /\ UNCHANGED site
  ELSE /\ page' = 0
       /\ IF site < W - 1 THEN site' = site + 1 /\ phase' = again ELSE site' = 0 /\ phase' = done

NamePage ==
  /\ phase = "name"
  /\ \E random_num \in RandomNums[args] :
       page_index' = [page_index EXCEPT ![<<site, page>>] = PageIndex(random_num, <<site, page>>)]
  /\ NextPage("page", "name")
  /\ UNCHANGED <<args, links, poolVars, inc_links, linked, all_inc_links>>

(* 0 to n - 1 without one of them *)
Other(n, except) == [x \in 1 .. n - 1 |-> IF x <= except THEN x - 1 ELSE x]

(* a new page: p <= 2 links the first f pages of the site, the page itself among them *)
StartPage ==
  /\ phase = "page"
  /\ IF P <= 2
     THEN /\ links' = [l \in 1 .. F |-> <<site, l - 1>>]
          /\ inc_links' = inc_links \union ToSet(links')
          /\ inter_links_indexes' = <<>> /\ phase' = "sites"
     ELSE /\ links' = <<>> /\ inter_links_indexes' = Other(P, page) /\ phase' = "internal"
          /\ UNCHANGED inc_links
  /\ UNCHANGED <<args, site, page, page_index, websites_indexes, external_links_taken, linked, all_inc_links>>

(* Mutant: an index stays in the pool when it is chosen. *)
ChooseInternalAgain ==
  /\ phase = "internal" /\ Len(links) < F
  /\ \E r \in 1 .. Len(inter_links_indexes) :
       /\ links' = Append(links, <<site, inter_links_indexes[r]>>)
       /\ inc_links' = inc_links \union {<<site, inter_links_indexes[r]>>}
  /\ UNCHANGED <<args, turnVars, page_index, poolVars, linked, all_inc_links>>

ChooseInternal ==
  /\ phase = "internal" /\ Len(links) < F
  /\ \E r \in 1 .. Len(inter_links_indexes) :
       /\ links' = Append(links, <<site, inter_links_indexes[r]>>)
       /\ inc_links' = inc_links \union {<<site, inter_links_indexes[r]>>}
       /\ inter_links_indexes' = RemoveAt(inter_links_indexes, r)
  /\ UNCHANGED <<args, turnVars, page_index, websites_indexes, external_links_taken, linked, all_inc_links>>

StartExternal ==
  /\ \/ phase = "internal" /\ Len(links) = F
     \/ phase = "sites"
  /\ websites_indexes' = Other(W, site) /\ external_links_taken' = {}
  /\ phase' = "external"
  /\ UNCHANGED <<args, site, page, page_index, links, inter_links_indexes, inc_links, linked, all_inc_links>>

(* Mutant: a site is kept until none of its pages is free. *)
LastFreeNone(free) == Cardinality(free) = 0

LastFree(free) == Cardinality(free) = 1

(***************************************************************************)
(* A site that is not the page's own, and of its pages one not yet taken;  *)
(* a site leaves the pool with its last such page.  Of a site without one  *)
(* shuf gets an empty range, and the script has no link to write.          *)
(***************************************************************************)
ChooseExternal ==
  /\ phase = "external" /\ Len(links) < F + Q
  /\ \E r \in 1 .. Len(websites_indexes) :
       LET other == websites_indexes[r]
           free == {z \in 0 .. P - 1 : <<other, z>> \notin external_links_taken}
       IN  /\ websites_indexes' =
                IF LastFree(free) THEN RemoveAt(websites_indexes, r) ELSE websites_indexes
           /\ IF free = {} THEN phase' = "failed" /\ UNCHANGED <<external_links_taken, links, inc_links>>
              ELSE \E z \in free :
                     /\ external_links_taken' = external_links_taken \union {<<other, z>>}
                     /\ links' = Append(links, <<other, z>>)
                     /\ inc_links' = inc_links \union {<<other, z>>}
                     /\ UNCHANGED phase
  /\ UNCHANGED <<args, site, page, page_index, inter_links_indexes, linked, all_inc_links>>

(* html_nlines = f + q lines, each with one link *)
WritePage ==
  /\ phase = "external" /\ Len(links) = F + Q
  /\ linked' = linked \union ToSet(links)
  /\ NextPage("verdict", "page")
  /\ UNCHANGED <<args, page_index, links, poolVars, inc_links, all_inc_links>>

(* Mutant: the pages of the last site are not looked at. *)
VerdictNotLast ==
  /\ phase = "verdict"
  /\ all_inc_links' = \A pg \in Pages : pg[1] < W - 1 => pg \in inc_links
  /\ phase' = "done"
  /\ UNCHANGED <<args, site, page, page_index, links, poolVars, inc_links, linked>>

(* all_inc_links, page by page; a break of the inner loop only skips pages that cannot change it *)
Verdict ==
  /\ phase = "verdict"
  /\ all_inc_links' = \A pg \in Pages : pg \in inc_links
  /\ phase' = "done"
  /\ UNCHANGED <<args, site, page, page_index, links, poolVars, inc_links, linked>>

SitesNext ==
  \/ NamePage \/ StartPage \/ ChooseInternal \/ StartExternal \/ ChooseExternal \/ WritePage \/ Verdict

(* a sequential script goes on as long as it can *)
SitesSpec == SitesInit /\ [][SitesNext]_sitesVars /\ WF_sitesVars(SitesNext)
-----------------------------------------------------------------------------
SitesTypeOK ==
  /\ \E a \in Arguments : W = a[1] /\ P = a[2]
  /\ phase \in {"name", "page", "internal", "sites", "external", "verdict", "done", "failed"}
  /\ <<site, page>> \in Pages /\ page_index \in [Pages -> Nat]
  /\ links \in Seq(Pages) /\ inter_links_indexes \in Seq(0 .. P - 1) /\ websites_indexes \in Seq(Sites)
  /\ external_links_taken \subseteq Pages /\ inc_links \subseteq Pages /\ linked \subseteq Pages
  /\ all_inc_links \in BOOLEAN

(***************************************************************************)
(* A page is written with f different links into its site, none of them to *)
(* itself when p > 2, and q different links into other sites: the pools    *)
(* that shrink while chance picks from them never give a page twice.       *)
(***************************************************************************)
LinksOfPage ==
  /\ SitesTypeOK
  /\ phase = "external" /\ Len(links) = F + Q =>
       LET inside == {l \in 1 .. F + Q : links[l][1] = site}
       IN  /\ \A l, m \in 1 .. F + Q : links[l] = links[m] => l = m
           /\ inside = 1 .. F
           /\ P > 2 => <<site, page>> \notin ToSet(links)

(* The message about incoming links is about the links that are in the files. *)
VerdictTrue == phase = "done" => (all_inc_links <=> linked = Pages)

(***************************************************************************)
(* shuf is never asked for a number out of none: however the numbers fall, *)
(* there is always a page left to link, and the script gets to its end,    *)
(* where the message about incoming links is true.                         *)
(***************************************************************************)
Finishes == <>(phase = "done" /\ VerdictTrue)

(***************************************************************************)
(* README.md:44 says that the pages of a site have names of their own.     *)
(* Whatever the random digits are, two pages have one name only if their   *)
(* indexes have different numbers of digits, so never with ten pages or    *)
(* fewer.  With eleven it happens: of site 1, page 0 with the random       *)
(* number 11 and page 10 with the random number 1 are page1_1110.html.     *)
(***************************************************************************)
UniqueNames ==
  \A pg, pg2 \in Pages :
    pg[1] = pg2[1] /\ pg # pg2 /\ page_index[pg] # 0 /\ page_index[pg] = page_index[pg2]
      => Power10(pg[2]) # Power10(pg2[2])
=============================================================================
