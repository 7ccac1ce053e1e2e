---------------------------- MODULE HttpExchange ----------------------------
(***************************************************************************)
(* One page on its way from the server's disk to the crawler's: a client   *)
(* thread of mycrawler.cpp and a consumer thread of myhttpd.cpp at the two *)
(* ends of a connection.  HttpRequest reads what the one sends, and        *)
(* HttpResponse what the other answers; each write() may take only a part, *)
(* and either process may end at any moment.  Each of the two programs     *)
(* also meets clients and servers that are not of this repository.         *)
(***************************************************************************)
EXTENDS HttpRequest

CONSTANTS Answers,      \* what other servers send
          Request,      \* make_http_get_req, in the bytes of HttpRequest
          AnswerHead,   \* the header of make_http_get_response, in the tokens of HttpResponse
          Files,        \* what the requested path may name
          Texts,        \* Texts[k]: the length of the fixed text for a file of kind k
          READ_SIZE, None

(***************************************************************************)
(* What a path may name: a file that can be read, nothing, a file without  *)
(* the right to read it, a directory, which opens but cannot be read, or   *)
(* what fails to open for another reason.  size: the bytes that getline()  *)
(* gets; text: but for the last of them they are the text of an error      *)
(* answer.  Files contain no NUL byte.                                     *)
(***************************************************************************)
FileType == [kind : {"file", "missing", "denied", "directory", "other"}, size : Nat, text : BOOLEAN]

(* what make_http_get_response returns; page: it is the page that was asked for *)
MessageType == [head : {AnswerHead}, claimed : Nat, body : Nat, open : {TRUE},
                text : BOOLEAN, page : BOOLEAN]

ASSUME ExchangeAssumption ==
  /\ Files \subseteq FileType /\ \E x \in Files : x.kind = "missing"
  /\ Texts \in [{"missing", "denied", "request"} -> Nat \ {0}]
  /\ Request \in Seq(Bytes) /\ WellFormed(Request) /\ Proper(Request)
  /\ None \notin MessageType

VARIABLES answer, at, header, counter, overrun, outcome,       \* the answer, read by the crawler
          file, server, consumer, message,                     \* the server's process and thread
          pages_served, total_bytes_sent,
          crawler, client, saved,                              \* the crawler's process and thread
          pages_downloaded, total_bytes_received

responseVars == <<answer, at, header, counter, overrun, outcome>>
serverVars   == <<file, server, consumer, message, pages_served, total_bytes_sent>>
crawlerVars  == <<crawler, client, saved, pages_downloaded, total_bytes_received>>
exchangeVars == <<requestVars, responseVars, serverVars, crawlerVars>>

PrefixesOf(s) == {SubSeq(s, 1, n) : n \in 0 .. Len(s)}

(* what has arrived of an answer of which write() took only a part *)
Cut(m) ==
  {[m EXCEPT !.head = h, !.body = 0] : h \in PrefixesOf(m.head)}
    \union {[m EXCEPT !.body = b] : b \in 0 .. m.body}

NoAnswer == [head |-> <<>>, claimed |-> 0, body |-> 0, open |-> TRUE]

Resp == INSTANCE HttpResponse

ASSUME AnswersAssumption ==
  /\ READ_SIZE \in Nat \ {0} /\ \A a \in Answers : Resp!AnswerOK(a)
  /\ Resp!AnswerOK([NoAnswer EXCEPT !.head = AnswerHead]) /\ Resp!WellFormed(AnswerHead)

(* both ends are of this repository *)
BothOurs ==
  /\ stream = <<>> /\ hangsup = FALSE /\ crawler = "up" /\ client = "send"
  /\ answer = NoAnswer /\ server = "up"
  /\ file \in Files

(* the server meets another client, whose whole stream is on its way *)
OtherClient ==
  /\ stream \in Streams /\ hangsup \in BOOLEAN /\ crawler = "other" /\ client = "done"
  /\ answer = NoAnswer /\ server = "up"
  /\ file = CHOOSE x \in Files : x.kind = "missing"

(* the crawler has sent its request to another server, whose whole answer is on its way *)
OtherServer ==
  /\ stream = Request /\ hangsup = FALSE /\ crawler = "up" /\ client = "read"
  /\ answer \in Answers /\ server = "other"
  /\ file = CHOOSE x \in Files : x.kind = "missing"

ExchangeInit ==
  /\ BothOurs \/ OtherClient \/ OtherServer
  /\ pos = 0 /\ misled = FALSE /\ verdict = "reading" /\ Resp!Fresh
  /\ consumer = "read" /\ message = None
  /\ pages_served = 0 /\ total_bytes_sent = 0
  /\ saved = None /\ pages_downloaded = 0 /\ total_bytes_received = 0
-----------------------------------------------------------------------------
(* The client thread. *)

(* Mutant: the result of send_message is taken the wrong way round. *)
SendRequestSwapped ==
  /\ crawler = "up" /\ client = "send"
  /\ stream' \in PrefixesOf(Request)
  /\ client' = IF stream' = Request THEN "close" ELSE "read"
  /\ UNCHANGED <<hangsup, pos, misled, verdict, responseVars, serverVars,
                 crawler, saved, pages_downloaded, total_bytes_received>>

(* send_message: after a short write a warning, and the connection is closed *)
SendRequest ==
  /\ crawler = "up" /\ client = "send"
  /\ stream' \in PrefixesOf(Request)
  /\ client' = IF stream' = Request THEN "read" ELSE "close"
  /\ UNCHANGED <<hangsup, pos, misled, verdict, responseVars, serverVars,
                 crawler, saved, pages_downloaded, total_bytes_received>>

ReadAnswer ==
  /\ crawler = "up" /\ client = "read"
  /\ Resp!Next
  /\ UNCHANGED <<requestVars, serverVars, crawlerVars>>

(* Mutant: what was read before the connection broke counts as the page. *)
TakeAnswerCut ==
  /\ crawler = "up" /\ client = "read" /\ outcome \in {"page", "ignored", "lost", "reset"}
  /\ client' = IF outcome = "page" \/ counter > 0 THEN "save" ELSE "close"
  /\ UNCHANGED <<requestVars, responseVars, serverVars, crawler, saved,
                 pages_downloaded, total_bytes_received>>

(* discon: exit(1); an answer that is NULL is ignored *)
TakeAnswer ==
  /\ crawler = "up" /\ client = "read" /\ outcome \in {"page", "ignored", "lost", "reset"}
  /\ crawler' = IF outcome \in {"lost", "reset"} THEN "exited" ELSE "up"
  /\ client' = IF outcome = "page" THEN "save" ELSE "close"
  /\ hangsup' = (crawler' = "exited")
  /\ UNCHANGED <<stream, pos, misled, verdict, responseVars, serverVars,
                 saved, pages_downloaded, total_bytes_received>>

(* strcmp() of what was read with the three fixed texts, which other servers do not send *)
IsErrorText == message # None /\ message.text

(* write_page_in_file, whatever the answer says *)
SavePage ==
  /\ crawler = "up" /\ client = "save"
  /\ saved' = [size |-> counter, text |-> IsErrorText]
  /\ client' = IF IsErrorText THEN "close" ELSE "count"
  /\ UNCHANGED <<requestVars, responseVars, serverVars, crawler,
                 pages_downloaded, total_bytes_received>>

CountPage ==
  /\ crawler = "up" /\ client = "count"
  /\ pages_downloaded' = pages_downloaded + 1
  /\ total_bytes_received' = total_bytes_received + counter
  /\ client' = "close"
  /\ UNCHANGED <<requestVars, responseVars, serverVars, crawler, saved>>

CloseClient ==
  /\ crawler = "up" /\ client = "close"
  /\ client' = "done" /\ hangsup' = TRUE
  /\ UNCHANGED <<stream, pos, misled, verdict, responseVars, serverVars,
                 crawler, saved, pages_downloaded, total_bytes_received>>

(***************************************************************************)
(* How the crawler ends by this connection: its write() fails, exit(3) or  *)
(* SIGPIPE, as the server's process is gone; or its read() fails, as the   *)
(* server has closed an end with bytes of the request unread.              *)
(***************************************************************************)
ClientBreaks ==
  /\ crawler = "up" /\ client = "send" /\ server # "up"
  /\ crawler' = "broken" /\ hangsup' = TRUE
  /\ UNCHANGED <<stream, pos, misled, verdict, responseVars, serverVars,
                 client, saved, pages_downloaded, total_bytes_received>>

AnswerReset ==
  /\ crawler = "up" /\ client = "read" /\ pos < Len(stream)
  /\ Resp!Reset
  /\ UNCHANGED <<requestVars, serverVars, crawlerVars>>

(* and by what is not of this connection: another client thread, or the operator *)
CrawlerEnds ==
  /\ crawler = "up" /\ client # "done"
  /\ crawler' = "killed" /\ hangsup' = TRUE
  /\ UNCHANGED <<stream, pos, misled, verdict, responseVars, serverVars,
                 client, saved, pages_downloaded, total_bytes_received>>
-----------------------------------------------------------------------------
(* The consumer thread. *)

ReadRequest ==
  /\ server = "up" /\ consumer = "read"
  /\ Next
  /\ UNCHANGED <<responseVars, serverVars, crawlerVars>>

(* parse_file: the lines of the file, without its last byte *)
Content == file.size - 1

Message(n, text, page) ==
  [head |-> AnswerHead, claimed |-> n, body |-> n, open |-> TRUE, text |-> text, page |-> page]

Fixed(k) == Message(Texts[k], TRUE, FALSE)
Page     == Message(Content, file.text, TRUE)

(* getline() gets a line of it; otherwise the result of parse_file is its NULL of the beginning *)
HasLines == file.kind = "file" /\ file.size > 0

(* Mutant: Content-Length is the size of the file. *)
ResponseSized ==
  IF verdict = "bad"                          THEN Fixed("request")
  ELSE IF file.kind \in {"missing", "denied"} THEN Fixed(file.kind)
  ELSE IF HasLines                            THEN [Page EXCEPT !.claimed = file.size]
  ELSE None

(* Mutant: the errno of a file that may not be read is not looked for. *)
ResponseNoDenied ==
  IF verdict = "bad"            THEN Fixed("request")
  ELSE IF file.kind = "missing" THEN Fixed(file.kind)
  ELSE IF HasLines              THEN Page
  ELSE None

(* fopen, parse_file and make_http_get_response; None for another errno and without a line *)
Response ==
  IF verdict = "bad"                          THEN Fixed("request")
  ELSE IF file.kind \in {"missing", "denied"} THEN Fixed(file.kind)
  ELSE IF HasLines                            THEN Page
  ELSE None

(* strlen() of an answer or of a file that is NULL ends the process *)
Respond ==
  /\ server = "up" /\ consumer = "read" /\ verdict \in {"valid", "bad"}
  /\ message' = Response
  /\ consumer' = IF message' = None THEN "read" ELSE "send"
  /\ server' = IF message' = None THEN "crashed" ELSE "up"
  /\ answer' = [answer EXCEPT !.open = (message' # None)]
  /\ UNCHANGED <<requestVars, at, header, counter, overrun, outcome, file,
                 pages_served, total_bytes_sent, crawlerVars>>

(* the client is gone: nothing is answered *)
GiveUp ==
  /\ server = "up" /\ consumer = "read" /\ verdict = "gone"
  /\ consumer' = "close"
  /\ UNCHANGED <<requestVars, responseVars, file, server, message,
                 pages_served, total_bytes_sent, crawlerVars>>

Arrived(m) == [head |-> m.head, claimed |-> m.claimed, body |-> m.body, open |-> m.open]

(* Mutant: an answer of which write() took only a part counts as sent. *)
SendAnswerAnyway ==
  /\ server = "up" /\ consumer = "send"
  /\ answer' \in Cut(Arrived(message))
  /\ consumer' = "count"
  /\ UNCHANGED <<requestVars, at, header, counter, overrun, outcome,
                 file, server, message, pages_served, total_bytes_sent, crawlerVars>>

(* send_message: a short write is not repeated, a warning is all *)
SendAnswer ==
  /\ server = "up" /\ consumer = "send"
  /\ answer' \in Cut(Arrived(message))
  /\ consumer' = IF answer' = Arrived(message) THEN "count" ELSE "close"
  /\ UNCHANGED <<requestVars, at, header, counter, overrun, outcome,
                 file, server, message, pages_served, total_bytes_sent, crawlerVars>>

(* Mutant: the two sums are swapped. *)
CountServedSwapped ==
  /\ server = "up" /\ consumer = "count"
  /\ pages_served' = pages_served + IF message.page THEN message.body ELSE 0
  /\ total_bytes_sent' = total_bytes_sent + IF message.page THEN 1 ELSE 0
  /\ consumer' = "close"
  /\ UNCHANGED <<requestVars, responseVars, file, server, message, crawlerVars>>

CountServed ==
  /\ server = "up" /\ consumer = "count"
  /\ pages_served' = pages_served + IF message.page THEN 1 ELSE 0
  /\ total_bytes_sent' = total_bytes_sent + IF message.page THEN message.body ELSE 0
  /\ consumer' = "close"
  /\ UNCHANGED <<requestVars, responseVars, file, server, message, crawlerVars>>

(* Mutant: client_sock is not closed. *)
CloseServerNot ==
  /\ server = "up" /\ consumer = "close"
  /\ consumer' = "done"
  /\ UNCHANGED <<requestVars, responseVars, file, server, message,
                 pages_served, total_bytes_sent, crawlerVars>>

CloseServer ==
  /\ server = "up" /\ consumer = "close"
  /\ consumer' = "done" /\ answer' = [answer EXCEPT !.open = FALSE]
  /\ UNCHANGED <<requestVars, at, header, counter, overrun, outcome,
                 file, server, message, pages_served, total_bytes_sent, crawlerVars>>

(***************************************************************************)
(* How a client that has hung up ends the server: read() fails, exit(2),   *)
(* or write() does, exit(3) or SIGPIPE.                                    *)
(***************************************************************************)
ReadBreaks ==
  /\ server = "up" /\ consumer = "read" /\ verdict = "reading" /\ hangsup
  /\ server' = "broken" /\ answer' = [answer EXCEPT !.open = FALSE]
  /\ UNCHANGED <<requestVars, at, header, counter, overrun, outcome,
                 file, consumer, message, pages_served, total_bytes_sent, crawlerVars>>

WriteBreaks ==
  /\ server = "up" /\ consumer = "send" /\ hangsup
  /\ server' = "broken" /\ answer' = [answer EXCEPT !.open = FALSE]
  /\ UNCHANGED <<requestVars, at, header, counter, overrun, outcome,
                 file, consumer, message, pages_served, total_bytes_sent, crawlerVars>>

(* another connection ends it, or the operator; a write() on its way leaves a part of the answer *)
ServerEnds ==
  /\ server = "up" /\ consumer # "done"
  /\ server' = "killed"
  /\ \E a \in IF consumer = "send" THEN Cut(Arrived(message)) ELSE {answer} :
       answer' = [a EXCEPT !.open = FALSE]
  /\ UNCHANGED <<requestVars, at, header, counter, overrun, outcome,
                 file, consumer, message, pages_served, total_bytes_sent, crawlerVars>>
-----------------------------------------------------------------------------
ClientStep   == SendRequest \/ ReadAnswer \/ TakeAnswer \/ SavePage \/ CountPage \/ CloseClient
ConsumerStep == ReadRequest \/ Respond \/ GiveUp \/ SendAnswer \/ CountServed \/ CloseServer

Breaks       == ClientBreaks \/ AnswerReset \/ ReadBreaks \/ WriteBreaks

ExchangeNext == ClientStep \/ ConsumerStep \/ Breaks \/ CrawlerEnds \/ ServerEnds

ExchangeSpec == ExchangeInit /\ [][ExchangeNext]_exchangeVars

(* Both threads are scheduled, and what was sent arrives. *)
FairSpec == ExchangeSpec /\ WF_exchangeVars(ClientStep) /\ WF_exchangeVars(ConsumerStep)
-----------------------------------------------------------------------------
ExchangeTypeOK ==
  /\ stream \in Streams \union PrefixesOf(Request) /\ pos \in 0 .. Len(stream) /\ misled \in BOOLEAN
  /\ verdict \in {"reading", "request", "null", "gone", "valid", "bad"}
  /\ Resp!TypeOK
  /\ file \in Files /\ message \in MessageType \union {None}
  /\ server \in {"up", "crashed", "broken", "killed", "other"}
  /\ crawler \in {"up", "exited", "broken", "killed", "other"}
  /\ consumer \in {"read", "send", "count", "close", "done"}
  /\ client \in {"send", "read", "save", "count", "close", "done"}
  /\ pages_served \in 0 .. 1 /\ pages_downloaded \in 0 .. 1

(***************************************************************************)
(* What either end takes for proper is.  A request that is answered has    *)
(* GET first and one Host line, even if bytes before a block took part in  *)
(* finding its end.  A well-formed answer is not ignored, and its size is  *)
(* the number of the Content-Length field; what becomes a page came under  *)
(* a proper header and is as long as that says; and the block of           *)
(* content_size + 1 bytes is enough for every server that sends no more    *)
(* than it has announced, myhttpd among them.                              *)
(***************************************************************************)
TakenIsProper ==
  /\ ExchangeTypeOK
  /\ ValidIsProper
  /\ Resp!SizeIsClaimed /\ Resp!PageIsProper
  /\ overrun => server = "other" /\ Resp!NoOverrun

(***************************************************************************)
(* Whatever part of a request or an answer a write() took, however the     *)
(* rest was cut and whichever process ended: what the crawler saves is     *)
(* what the path deserves, which of a file is all but its last byte.  An   *)
(* answer to a request that the server found invalid is never among it,    *)
(* unless bytes before a block have misled the server.                     *)
(***************************************************************************)
SavedAsServed ==
  saved # None /\ server # "other" /\ ~misled =>
    saved = IF file.kind = "file" THEN [size |-> file.size - 1, text |-> file.text]
                                  ELSE [size |-> Texts[file.kind], text |-> TRUE]

(***************************************************************************)
(* The counters of the two programs agree on a page.  The server counts    *)
(* what was sent whole; the crawler counts what the server has counted or  *)
(* is about to, with the same bytes; and what the server has counted the   *)
(* crawler has, once its thread is through with it, unless the page reads  *)
(* like an error answer.                                                   *)
(***************************************************************************)
CountersAgree ==
  /\ pages_served = 1 => answer.body = total_bytes_sent /\ answer.body = answer.claimed
  /\ pages_downloaded = 1 =>
       \/ pages_served = 1 /\ total_bytes_sent = total_bytes_received
       \/ pages_served = 0 /\ (consumer = "count" \/ server # "up")
  /\ pages_served = 1 /\ crawler = "up" /\ client = "done" =>
       pages_downloaded = IF file.text THEN 0 ELSE 1

(* The two ends of a connection agree on the page, and on the statistics of it. *)
EndsAgree == SavedAsServed /\ CountersAgree

(***************************************************************************)
(* What takes a whole process down with what passes over one connection.   *)
(* The crawler, by a read(): with myhttpd only if the answer was cut, or   *)
(* its content is empty, or the server was misled; by a write(): only if   *)
(* the server is down.  The server, by a pointer that is NULL: only after  *)
(* a proper request for a directory, an empty file or one that fails to    *)
(* open for a reason without an answer, never by bytes alone; by a read()  *)
(* or a write(): with mycrawler only if that is down itself, or gave up a  *)
(* request that it had not sent whole.                                     *)
(***************************************************************************)
ExitsKnown ==
  /\ crawler = "exited" /\ server # "other" =>
       \/ answer.head # AnswerHead \/ answer.body < message.body
       \/ file.kind = "file" /\ file.size = 1
       \/ misled
  /\ crawler = "broken" => server # "up"
  /\ server = "crashed" =>
       /\ verdict = "valid" /\ Proper(Received)
       /\ file.kind \in {"directory", "other"} \/ (file.kind = "file" /\ file.size = 0)
  /\ server = "broken" /\ crawler # "other" => crawler # "up" \/ stream # Request

(***************************************************************************)
(* Every well-formed header gets the verdict it deserves, however TCP cuts *)
(* it: the thread does not miss a blank line and wait for bytes that the   *)
(* client has no reason to send.                                           *)
(***************************************************************************)
HeaderIsJudged ==
  WellFormed(stream)
    ~> \/ verdict = IF Proper(stream) THEN "valid" ELSE "bad"
       \/ misled \/ server # "up"

(***************************************************************************)
(* However TCP cuts an answer: whole and not empty it becomes a page; with *)
(* bytes missing, or with an empty content (no read() can leave the loop   *)
(* with a count of 0), it is lost when the server hangs up.                *)
(***************************************************************************)
AnswerIsTaken ==
  client = "read" /\ (Resp!Whole \/ Resp!Short)
    ~> outcome = (IF Resp!Whole THEN "page" ELSE "lost") \/ crawler # "up"

(***************************************************************************)
(* The exchange of the two programs ends at both ends, however it started: *)
(* neither waits for the other for ever.  And every answer that a client   *)
(* thread waits for, whosever it is, gets what it deserves.                *)
(***************************************************************************)
ExchangeEnds ==
  /\ server # "other" /\ crawler # "other"
       => <>(/\ client = "done" \/ crawler # "up"
             /\ consumer = "done" \/ server # "up")
  /\ AnswerIsTaken
=============================================================================
