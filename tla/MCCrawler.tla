----------------------------- MODULE MCCrawler -----------------------------
(* A small instance of Crawler: two sites, three pages that link to each other. *)
EXTENDS Crawler, TLC

Page(s, i) == [site |-> s, id |-> i]
Up(s, p)   == [up |-> TRUE, dir |-> s, page |-> p]       \* "../site1/page1_7.html"
Here(p)    == [up |-> FALSE, page |-> p]                 \* "page1_7.html"
Path(p)    == [dir |-> p.site, page |-> p]

p1 == Page(0, 1)
p2 == Page(0, 2)
p3 == Page(1, 1)

MCUrls  == {Path(p1), Path(p2), Path(p3)}
MCStart == Path(p1)
MCLinks == Path(p1) :> <<Here(p2), Up(1, p3)>>
        @@ Path(p2) :> <<Here(p1), Up(1, p3)>>
        @@ Path(p3) :> <<Up(0, p2)>>
MCLength == Path(p1) :> 1 @@ Path(p2) :> 3 @@ Path(p3) :> 3
=============================================================================
