---------------------------- MODULE HttpClient ----------------------------
(***************************************************************************)
(* The HTTP client (httpclient/src/http.c, built without HTTPS): one       *)
(* handle, on which the program makes one blocking request after another.  *)
(* A request connects, writes, reads the answer through http_parser, whose *)
(* callbacks fill the handle, and starts again for each redirection.       *)
(* Other threads may cancel a request or ask it to exit at any moment.     *)
(* What a server sends is a sequence of units; a unit is what one call of  *)
(* a parser callback gets: the status line's reason, a piece of a header's *)
(* name or value, the end of the headers, or a piece of the body.  The     *)
(* text of a unit is the sequence of its pieces: of one, or of none.       *)
(***************************************************************************)
EXTENDS Integers, Sequences, FiniteSets

CONSTANTS
    Urls,          \* URLs, as arguments and as values of Location
    BadUrls,       \* those that do not parse, or whose host is not found
    OkUrls,        \* those that are answered with a status from 200 to 299
    Response,      \* what the server of each URL sends: [head, body, tail]
    Texts,         \* names and values of headers
    Data,          \* pieces of bodies
    Number,        \* the values of Content-Length that occur, with their numbers
    Files,         \* paths for downloads
    Socks,         \* descriptors socket() returns
    BufSize,       \* units that fit in the receive buffer
    Parts,         \* writes that make up a request
    None,          \* NULL, or -1 for a descriptor
    MaxRequests    \* bound: requests of the program

(* Piece i of k of a text. *)
Piece == [of : Texts, i : Nat, k : Nat]

Unit == [cb : {"status", "field", "value", "headers_complete", "malformed"},
         text : Seq(Piece)]

IsFirst(x) == x.text = << >> \/ x.text[1].i = 1
IsLast(x)  == x.text = << >> \/ x.text[1].i = x.text[1].k

NextPiece(x, y) ==
    /\ x.text # << >> /\ y.text # << >>
    /\ x.text[1].i < x.text[1].k
    /\ y.text[1] = [x.text[1] EXCEPT !.i = @ + 1]

EndsHeader(x) == x.cb = "status" \/ (x.cb = "value" /\ IsLast(x))

(* The order in which http_parser calls the callbacks: y after x. *)
MayFollow(x, y) ==
    \/ y.cb = "malformed"
    \/ y.cb = "headers_complete" /\ EndsHeader(x)
    \/ y.cb = "field" /\ IsFirst(y) /\ (EndsHeader(x) \/ x.cb \in {"headers_complete", "body"})
    \/ y.cb = "value" /\ IsFirst(y) /\ x.cb = "field" /\ IsLast(x)
    \/ y.cb \in {"field", "value"} /\ x.cb = y.cb /\ NextPiece(x, y)
    \/ y.cb = "body" /\ x.cb \in {"headers_complete", "body"}

MayBegin(x) == x.cb \notin {"value", "body"} /\ IsFirst(x)

HeadOf(u) == Response[u].head
BodyOf(u) == Response[u].body
TailOf(u) == Response[u].tail

(* The units a server sends, in their order. *)
Size(u) == Len(HeadOf(u)) + Len(BodyOf(u)) + Len(TailOf(u))

UnitOf(u, n) ==
    LET m == n - Len(HeadOf(u))
    IN  IF m <= 0 THEN HeadOf(u)[n]
        ELSE IF m <= Len(BodyOf(u)) THEN [cb |-> "body", text |-> <<BodyOf(u)[m]>>]
        ELSE TailOf(u)[m - Len(BodyOf(u))]

(* Where the header of unit n, a piece of a value, has the last piece of its name. *)
NameAt(u, n) == n - (IF UnitOf(u, n).text = << >> THEN 1 ELSE UnitOf(u, n).text[1].i)

NameOf(u, n) == UnitOf(u, NameAt(u, n)).text[1].of

(* A header of u has this name and this value. *)
Names(u, n, name, value) ==
    LET x == UnitOf(u, n)
    IN  x.cb = "value" /\ x.text # << >> /\ x.text[1].of = value /\ NameOf(u, n) = name

(* What http_parser makes of what a server sends: a head, a body and trailers. *)
WellFormed(u) ==
    /\ HeadOf(u) \in Seq(Unit) /\ BodyOf(u) \in Seq(Data) /\ TailOf(u) \in Seq(Unit)
    /\ Size(u) > 0 => MayBegin(UnitOf(u, 1))
    /\ \A n \in 2 .. Size(u) : MayFollow(UnitOf(u, n - 1), UnitOf(u, n))
    /\ \A n \in 1 .. Size(u) :
          LET x == UnitOf(u, n)
          IN  /\ Len(x.text) = 1 \/ (Len(x.text) = 0 /\ x.cb # "field")
              /\ x.cb = "headers_complete" => n = Len(HeadOf(u))
              /\ x.cb \in {"field", "value"} /\ x.text # << >> =>
                    x.text[1].i \in 1 .. x.text[1].k
    /\ \A n \in 1 .. Size(u) :
          LET value == UnitOf(u, n).text[1].of
          IN  /\ Names(u, n, "Location", value) => value \in Urls
              /\ Names(u, n, "Content-Length", value) =>
                    value \in DOMAIN Number /\ Number[value] = Len(BodyOf(u))

ASSUME HttpAssumption ==
    /\ BadUrls \subseteq Urls
    /\ None \notin Urls \cup Files \cup Socks
    /\ {BufSize, Parts} \subseteq Nat \ {0}
    /\ MaxRequests \in Nat
    /\ \A u \in Urls : WellFormed(u)

VARIABLES
    http,      \* ft_http_client_t
    url,       \* the argument of http_internal_sync_request
    pc,        \* where the request is
    part,      \* writes done
    buf,       \* units received and not parsed yet
    sent,      \* units the server of this connection has sent
    cut,       \* the server closed the connection before its last unit
    open,      \* open descriptors
    disk,      \* what is in the files
    cancel,    \* whether another thread is in ft_http_cancel_request
    raced,     \* whether one has ever been
    requests   \* requests so far

request == <<http, url, pc, part>>
net == <<buf, sent, cut>>
others == <<cancel, raced, requests>>
vars == <<http, url, pc, part, buf, sent, cut, open, disk, cancel, raced, requests>>

(* The handle ft_http_new returns.  "body" is the size of the buffer body        *)
(* points to, 0 for NULL, and "bytes" what its first body_len bytes are.         *)
NewHandle ==
    [fd |-> None, body |-> 0, body_len |-> 0, bytes |-> << >>, content_length |-> 0,
     header_field |-> << >>, header_value |-> << >>, parser_statue |-> "NONE",
     redirect |-> FALSE, redirect_url |-> None, status_ok |-> FALSE,
     error_code |-> "OK", exit |-> FALSE, download |-> FALSE, pf |-> None,
     filename |-> None]

Init == /\ http = NewHandle
        /\ url = None
        /\ pc = "app"
        /\ part = 0
        /\ buf = << >>
        /\ sent = 0
        /\ cut = FALSE
        /\ open = {}
        /\ disk = [f \in Files |-> << >>]
        /\ cancel = FALSE
        /\ raced = FALSE
        /\ requests = 0

(* A text cut into k pieces, and the text a sequence of pieces makes up.         *)
Pieces(text, k) == [i \in 1 .. k |-> [of |-> text, i |-> i, k |-> k]]

IsText(s, text) == s # << >> /\ s = Pieces(text, Len(s))

HasReason(u) == HeadOf(u) # << >> /\ HeadOf(u)[1].cb = "status"

--------------------------------------------------------------------------
(* The calls of the program.                                                   *)

Request(u, h) ==
    /\ pc = "app"
    /\ requests < MaxRequests
    /\ requests' = requests + 1
    /\ url' = u
    /\ http' = h
    /\ pc' = "start"
    /\ UNCHANGED <<part, buf, sent, cut, open, disk, cancel, raced>>

(* ft_http_sync_request *)
Get(u) == Request(u, [http EXCEPT !.download = FALSE])

(* ft_http_sync_download_file *)
Download(u, f) == Request(u, [http EXCEPT !.download = TRUE, !.filename = f])

(* Mutant of Destroy: the socket is not closed. *)
DestroyLeaking ==
    /\ pc = "app"
    /\ ~ cancel
    /\ pc' = "destroyed"
    /\ http' = NewHandle
    /\ UNCHANGED <<url, part, buf, sent, cut, open, disk, cancel, raced, requests>>

(* ft_http_destroy *)
Destroy ==
    /\ pc = "app"
    /\ ~ cancel
    /\ pc' = "destroyed"
    /\ open' = open \ {http.fd}
    /\ http' = NewHandle
    /\ UNCHANGED <<url, part, buf, sent, cut, disk, cancel, raced, requests>>

(* ft_http_exit; nothing resets the flag. *)
Exit ==
    /\ pc # "destroyed"
    /\ http' = [http EXCEPT !.exit = TRUE]
    /\ UNCHANGED <<url, pc, part, buf, sent, cut, open, disk, cancel, raced, requests>>

(* ft_http_cancel_request in another thread: close(fd), then fd = -1.            *)
CancelClose ==
    /\ pc # "destroyed"
    /\ ~ cancel
    /\ http.fd # None
    /\ open' = open \ {http.fd}
    /\ cancel' = TRUE
    /\ raced' = TRUE
    /\ UNCHANGED <<http, url, pc, part, buf, sent, cut, disk, requests>>

CancelForget ==
    /\ cancel
    /\ http' = [http EXCEPT !.fd = None]
    /\ cancel' = FALSE
    /\ UNCHANGED <<url, pc, part, buf, sent, cut, open, disk, raced, requests>>

--------------------------------------------------------------------------
(* http_internal_sync_request.                                                 *)

Return(h, error) ==
    /\ http' = [h EXCEPT !.error_code = error]
    /\ pc' = "app"
    /\ UNCHANGED <<url, part, sent, open, cancel, raced, requests>>

Cleared(h) ==
    [h EXCEPT !.body = 0, !.body_len = 0, !.bytes = << >>, !.header_field = << >>,
              !.header_value = << >>, !.fd = None, !.redirect = FALSE,
              !.parser_statue = "NONE", !.error_code = "OK", !.content_length = 0]

Start ==
    /\ pc = "start"
    /\ http' = [Cleared(http) EXCEPT !.error_code = IF url \in Urls \ BadUrls THEN "OK" ELSE "URL"]
    /\ pc' = IF url \in Urls \ BadUrls THEN "connect" ELSE "app"
    /\ open' = open \ {http.fd}
    /\ buf' = << >>
    /\ cut' = FALSE
    /\ UNCHANGED <<url, part, sent, disk, others>>

(* http_connect_host up to connect().                                            *)
ConnectHost ==
    /\ pc = "connect"
    /\ \E s \in Socks \ open : http' = [http EXCEPT !.fd = s] /\ open' = open \cup {s}
    /\ pc' = "connecting"
    /\ UNCHANGED <<url, part, net, disk, others>>

(* connect() is in progress and select() finds the socket writable.              *)
Connected ==
    /\ pc = "connecting"
    /\ http.fd \in open
    /\ pc' = "send"
    /\ part' = 0
    /\ sent' = 0
    /\ UNCHANGED <<http, url, buf, cut, open, disk, others>>

(* No socket, an error, a timeout, or a connect() that succeeds at once: the     *)
(* loop then calls connect() again, which fails because the socket is connected. *)
ConnectFails ==
    /\ pc \in {"connect", "connecting"}
    /\ Return(http, "CONNECT")
    /\ UNCHANGED <<buf, cut, disk>>

(* Mutant of MayTransfer: "exit" is not looked at.                               *)
MayTransferRegardless == http.fd \in open

(* What http_read_write looks at before each recv() and send().                  *)
MayTransfer == ~ http.exit /\ http.fd \in open

SendPart ==
    /\ pc = "send"
    /\ MayTransfer
    /\ part' = part + 1
    /\ pc' = IF part + 1 = Parts THEN "recv" ELSE "send"
    /\ UNCHANGED <<http, url, net, open, disk, others>>

SendFails ==
    /\ pc = "send"
    /\ Return(http, "WRITE")
    /\ UNCHANGED <<buf, cut, disk>>

(* The rest of a body of known length is read into the body, past the parser.    *)
Direct == /\ ~ http.download
          /\ http.parser_statue = "BODY"
          /\ http.body > 0
          /\ http.content_length > 0

(* Mutant of Want: the last unit of the body is not read.                        *)
WantOneLess == IF Direct THEN http.content_length - http.body_len - 1 ELSE BufSize

Want == IF Direct THEN http.content_length - http.body_len ELSE BufSize

RecvSome ==
    /\ pc = "recv"
    /\ MayTransfer
    /\ ~ cut
    /\ sent < Size(url)
    /\ Len(buf) < Want
    /\ buf' = Append(buf, UnitOf(url, sent + 1))
    /\ sent' = sent + 1
    /\ UNCHANGED <<request, cut, open, disk, others>>

(* The end of the request; a download's file is closed.                          *)
Finish(h) == Return([h EXCEPT !.pf = IF http.download THEN None ELSE @], h.error_code)

Payload(units) == [i \in 1 .. Len(units) |-> units[i].text[1]]

(* http_read_write returns what it has received.                                 *)
Received ==
    IF buf # << >> /\ ~ Direct
    THEN /\ pc' = "parse"
         /\ UNCHANGED <<http, url, part, buf, sent, open, disk, others>>
    ELSE /\ Finish([http EXCEPT !.body_len = @ + Len(buf),
                                !.bytes = @ \o Payload(buf)])
         /\ buf' = << >>
         /\ UNCHANGED disk

(* All it asked for; a recv() of no bytes, once the body is whole, returns 0.    *)
RecvFull ==
    /\ pc = "recv"
    /\ Len(buf) = Want
    /\ buf = << >> => MayTransfer
    /\ Received
    /\ UNCHANGED cut

(* recv() returns 0: the server has closed the connection.                       *)
RecvClosed ==
    /\ pc = "recv"
    /\ MayTransfer
    /\ Len(buf) < Want
    /\ cut' = (sent < Size(url))
    /\ Received

(* An error or a timeout: what http_read_write has received so far is lost.      *)
RecvFails ==
    /\ pc = "recv"
    /\ Return(http, "READ")
    /\ buf' = << >>
    /\ UNCHANGED <<cut, disk>>

--------------------------------------------------------------------------
(* The callbacks http_parser_execute calls.                                      *)

(* parser_field_value; a header whose value is empty leaves its name in place.   *)
FieldValue(h) ==
    IF h.header_field = << >> \/ h.header_value = << >> THEN h
    ELSE IF IsText(h.header_field, "Location")
    THEN [h EXCEPT !.redirect = TRUE, !.redirect_url =
             IF IsText(h.header_value, h.header_value[1].of) THEN h.header_value[1].of ELSE None]
    ELSE [h EXCEPT !.header_field = << >>, !.header_value = << >>, !.content_length =
             IF IsText(h.header_field, "Content-Length") THEN Number[h.header_value[1].of] ELSE @]

Parsing(cb) == pc = "parse" /\ Head(buf).cb = cb

(* The callback returns 0, or has found where the request is redirected.         *)
Parsed(h) ==
    /\ http' = h
    /\ buf' = IF h.redirect THEN << >> ELSE Tail(buf)
    /\ pc' = IF h.redirect THEN "redirect" ELSE IF Tail(buf) = << >> THEN "recv" ELSE "parse"
    /\ UNCHANGED <<url, part, sent, cut, open, others>>

(* The callback stops the parser, or the parser finds an error.                  *)
ParseFails == /\ Return(http, "PARSE")
              /\ buf' = << >>
              /\ UNCHANGED cut

(* Called only when the status line has a reason phrase.                         *)
OnStatus == /\ Parsing("status")
            /\ Parsed([http EXCEPT !.status_ok = url \in OkUrls])
            /\ UNCHANGED disk

(* on_header_field *)
WithField(h, text) ==
    LET g == IF h.parser_statue = "VALUE" THEN FieldValue(h) ELSE h
    IN  IF g.redirect THEN g
        ELSE [g EXCEPT !.parser_statue = "FIELD", !.header_field = @ \o text]

OnHeaderField == /\ Parsing("field")
                 /\ Parsed(WithField(http, Head(buf).text))
                 /\ UNCHANGED disk

(* Mutant of WithValue: a later piece of a value takes the place of the first.   *)
WithValueReplaced(h, text) ==
    IF h.parser_statue \in {"FIELD", "VALUE"}
    THEN [h EXCEPT !.parser_statue = "VALUE", !.header_value = text]
    ELSE h

(* on_header_value *)
WithValue(h, text) ==
    IF h.parser_statue \in {"FIELD", "VALUE"}
    THEN [h EXCEPT !.parser_statue = "VALUE", !.header_value = @ \o text]
    ELSE h

OnHeaderValue == /\ Parsing("value")
                 /\ Parsed(WithValue(http, Head(buf).text))
                 /\ UNCHANGED disk

(* on_headers_complete_cb *)
BeforeBody(h) ==
    LET g == FieldValue(h)
    IN  IF g.redirect THEN g
        ELSE [g EXCEPT !.header_field = << >>, !.header_value = << >>,
                       !.parser_statue = "BODY"]

OnHeadersComplete == /\ Parsing("headers_complete")
                     /\ Parsed(BeforeBody(http))
                     /\ UNCHANGED disk

(* on_body_cb: the buffer has a byte more than its text; it grows only if its    *)
(* length is not known.                                                          *)
WithBody(h, text) ==
    [h EXCEPT !.body = IF h.content_length <= 0 THEN h.body_len + Len(text) + 1
                       ELSE IF @ = 0 THEN h.content_length + 1 ELSE @,
              !.body_len = @ + Len(text),
              !.bytes = @ \o text]

OnBody == /\ Parsing("body")
          /\ ~ http.download
          /\ Parsed(WithBody(http, Head(buf).text))
          /\ UNCHANGED disk

(* on_download_file_cb; recv_cb may end the download.                            *)
OnDownload ==
    /\ Parsing("body")
    /\ http.download
    /\ \/ /\ ~ http.status_ok
          /\ Parsed(http)
          /\ UNCHANGED disk
       \/ LET f == IF http.pf = None THEN http.filename ELSE http.pf
          IN  /\ http.status_ok
              /\ Parsed([http EXCEPT !.pf = f])
              /\ disk' = [disk EXCEPT ![f] = (IF http.pf = None THEN << >> ELSE @) \o Head(buf).text]
       \/ LET f == IF http.pf = None THEN http.filename ELSE http.pf
          IN  /\ http.status_ok
              /\ Return([http EXCEPT !.pf = f], "PARSE")
              /\ disk' = [disk EXCEPT ![f] = IF http.pf = None THEN << >> ELSE @]
              /\ buf' = << >>
              /\ UNCHANGED cut

Malformed == /\ Parsing("malformed")
             /\ ParseFails
             /\ UNCHANGED disk

(* The recursive call with redirect_url.                                         *)
Redirect ==
    /\ pc = "redirect"
    /\ url' = http.redirect_url
    /\ pc' = "start"
    /\ UNCHANGED <<http, part, net, open, disk, others>>

--------------------------------------------------------------------------
Call == \/ \E u \in Urls : Get(u)
        \/ \E u \in Urls, f \in Files : Download(u, f)
        \/ Destroy

OtherThread == Exit \/ CancelClose \/ CancelForget

Transfer == \/ Start \/ ConnectHost \/ Connected \/ ConnectFails
            \/ SendPart \/ SendFails
            \/ RecvSome \/ RecvFull \/ RecvClosed \/ RecvFails
            \/ Redirect

Parse == \/ OnStatus \/ OnHeaderField \/ OnHeaderValue \/ OnHeadersComplete
         \/ OnBody \/ OnDownload \/ Malformed

Next == Call \/ OtherThread \/ Transfer \/ Parse

Spec == Init /\ [][Next]_vars

(* A request does not wait for ever: connect(), send() and recv() have a timeout. *)
FairSpec == Spec /\ WF_vars(Transfer \/ Parse)

--------------------------------------------------------------------------
Handle ==
    [fd : Socks \cup {None}, body : Nat, body_len : Nat, bytes : Seq(Data), content_length : Nat,
     header_field : Seq(Piece), header_value : Seq(Piece),
     parser_statue : {"NONE", "FIELD", "VALUE", "BODY"}, redirect : BOOLEAN,
     redirect_url : Urls \cup {None}, status_ok : BOOLEAN,
     error_code : {"OK", "URL", "CONNECT", "WRITE", "READ", "PARSE"}, exit : BOOLEAN,
     download : BOOLEAN, pf : Files \cup {None}, filename : Files \cup {None}]

PCs == {"app", "start", "connect", "connecting", "send", "recv", "parse", "redirect", "destroyed"}

(* The handle, the descriptors and the files are what their types say.           *)
TypeOK ==
    /\ http \in Handle
    /\ http.body_len = Len(http.bytes)
    /\ url \in Urls \cup {None}
    /\ pc \in PCs
    /\ part \in 0 .. Parts
    /\ Len(buf) <= BufSize \/ Direct
    /\ sent \in Nat
    /\ cut \in BOOLEAN /\ cancel \in BOOLEAN /\ raced \in BOOLEAN
    /\ open \subseteq Socks
    /\ requests \in Nat

(* The body has room for the zero byte written behind it, and holds a first part *)
(* of the page of this very request: a handle that is used again keeps nothing   *)
(* of an earlier answer that on_body_cb would size its buffer by.                *)
BodyIsOfPage ==
    pc # "start" /\ http.body # 0 =>
        /\ http.body_len < http.body
        /\ http.bytes = SubSeq(BodyOf(url), 1, http.body_len)

(* A request that returns ERR_OK, on a connection the server did not cut, has    *)
(* the whole page, however the page was split between the parser and the reads   *)
(* into the body.                                                                *)
OkIsWhole ==
    pc = "app" /\ requests > 0 /\ ~ http.download /\ http.error_code = "OK" /\ ~ cut =>
        http.bytes = BodyOf(url)

(* Of each header, wherever its name and value are split, parser_field_value     *)
(* gets all: behind the headers content_length is the one the server declared,   *)
(* and no Location was passed over.  A header with an empty value is the         *)
(* exception: its name sticks to the next one.                                   *)
Whole(u) == \A n \in 1 .. Len(HeadOf(u)) :
               UnitOf(u, n).cb = "value" => UnitOf(u, n).text # << >>

(* Of the header that unit n is a piece of the value of. *)
Seen(u, n, h) ==
    UnitOf(u, n).cb = "value" =>
        /\ NameOf(u, n) # "Location"
        /\ NameOf(u, n) = "Content-Length" =>
              h.content_length = Number[UnitOf(u, n).text[1].of]

HeadersSeen ==
    pc # "start" /\ http.parser_statue = "BODY" /\ Whole(url) =>
        \A n \in 1 .. Len(HeadOf(url)) : Seen(url, n, http)

(* What one answer leaves in the handle is of that answer, and all of it when     *)
(* the request says so.                                                          *)
PageInv == TypeOK /\ BodyIsOfPage /\ HeadersSeen /\ OkIsWhole

(* A request is repeated at the URL that the answer's Location names.            *)
FollowsLocation ==
    [][pc = "redirect" /\ pc' = "start" => \E n \in 1 .. Size(url) : Names(url, n, "Location", url')]_vars

(* The page that answers with an error does not end up in a file, unless its     *)
(* status line has no reason: http_parser then calls no on_status, and           *)
(* status_code is still the one of the request before.                           *)
ErrorPageNotSaved ==
    [][disk' # disk /\ HasReason(url) => url \in OkUrls]_vars

(* What the status of an answer decides: where the next request goes, and whether *)
(* the page is saved.                                                            *)
AnswersAreObeyed == FollowsLocation /\ ErrorPageNotSaved

(* The handle loses no descriptor: as long as no other thread cancels, the open  *)
(* one is the handle's, and none is left once the handle is destroyed.           *)
NoSocketLost ==
    raced \/ open = (IF http.fd = None THEN {} ELSE {http.fd})

(* The inductive invariant behind these.  While the answer is read, At is the     *)
(* place of the last unit parsed, and buf has units behind it.                    *)
Reading == pc \in {"recv", "parse"}

At == sent - Len(buf)

BufInv ==
    /\ IF Reading
       THEN /\ buf \in Seq({UnitOf(url, n) : n \in 1 .. Size(url)})
            /\ At \in Nat /\ sent <= Size(url)
            /\ \A i \in 1 .. Len(buf) : buf[i] = UnitOf(url, At + i)
       ELSE buf = << >>
    /\ pc = "recv" => Len(buf) <= Want
    /\ pc = "parse" => Len(buf) \in 1 .. BufSize

(* Before the first unit the handle has nothing of another answer.                *)
FreshInv ==
    /\ pc \in {"connect", "connecting", "send"} =>
          /\ http.bytes = << >> /\ http.header_field = << >> /\ http.header_value = << >>
          /\ http.body = 0 /\ http.content_length = 0 /\ http.parser_statue = "NONE"
    /\ pc = "send" => sent = 0 /\ part < Parts
    /\ pc \notin {"app", "destroyed"} => url \in Urls
    /\ http.redirect => pc \in {"redirect", "start"}
    /\ pc = "redirect" => \E n \in 1 .. Size(url) : Names(url, n, "Location", http.redirect_url)

(* With n units of u parsed: what the last of them was decides the statue.        *)
StatueInv(u, n, h) ==
    LET last == UnitOf(u, n)
    IN  /\ h.parser_statue = "NONE" => n = 0 \/ (n = 1 /\ last.cb = "status")
        /\ h.parser_statue = "FIELD" => n > 0 /\ last.cb = "field"
        /\ h.parser_statue = "VALUE" => n > 0 /\ last.cb = "value"
        /\ h.parser_statue = "BODY" => n > 0 /\ last.cb \in {"headers_complete", "body"}

(* The pieces of a text up to this one.                                           *)
UpTo(p) == [m \in 1 .. p.i |-> [of |-> p.of, i |-> m, k |-> p.k]]

(* The name and value gathered are those of the header at hand; only a name whose *)
(* value was empty may stand before.                                              *)
TextInv(u, n, h) ==
    LET field == h.header_field
        value == h.header_value
        text  == UnitOf(u, n).text
        name  == NameAt(u, n)
    IN  /\ h.parser_statue \in {"NONE", "BODY"} => field = << >> /\ value = << >>
        /\ h.parser_statue = "FIELD" =>
              field # << >> /\ field[Len(field)] = text[1] /\ value = << >>
        /\ h.parser_statue = "VALUE" =>
              /\ field # << >> /\ name \in 1 .. n - 1
              /\ field[Len(field)] = UnitOf(u, name).text[1]
              /\ UnitOf(u, name).cb = "field" /\ IsLast(UnitOf(u, name))
              /\ value = IF text = << >> THEN << >> ELSE UpTo(text[1])
              /\ \A m \in name + 1 .. n : UnitOf(u, m).cb = "value" /\ NameAt(u, m) = name

(* Without empty values the name is whole, and the headers before have been seen. *)
SeenInv(u, n, h) ==
    LET last == UnitOf(u, n)
        name == NameAt(u, n)
    IN  Whole(u) /\ n <= Len(HeadOf(u)) =>
        /\ h.parser_statue = "FIELD" => h.header_field = UpTo(last.text[1])
        /\ h.parser_statue = "VALUE" => h.header_field = UpTo(UnitOf(u, name).text[1])
        /\ \A m \in 1 .. IF h.parser_statue = "VALUE" THEN name ELSE n : Seen(u, m, h)

(* The body is what the parser has passed of it.                                  *)
Passed(u, n) == IF n <= Len(HeadOf(u)) THEN 0
                ELSE IF n - Len(HeadOf(u)) <= Len(BodyOf(u))
                     THEN n - Len(HeadOf(u)) ELSE Len(BodyOf(u))

BodyInv(u, n, h) ==
    /\ h.content_length \in {0, Len(BodyOf(u))}
    /\ h.body_len = IF h.download THEN 0 ELSE Passed(u, n)
    /\ \A i \in 1 .. h.body_len : h.bytes[i] = BodyOf(u)[i]
    /\ IF h.body = 0 THEN h.body_len = 0 ELSE h.body_len < h.body
    /\ n <= Len(HeadOf(u)) => h.body = 0
    /\ h.parser_statue = "BODY" /\ h.content_length > 0 =>
          h.body \in {0, h.content_length + 1}

StatusInv(u, n, h) == n > 0 /\ HasReason(u) => (h.status_ok <=> u \in OkUrls)

ParserInv(u, n, h) ==
    /\ StatueInv(u, n, h) /\ TextInv(u, n, h) /\ SeenInv(u, n, h)
    /\ BodyInv(u, n, h) /\ StatusInv(u, n, h)

SocketInv ==
    /\ cancel => raced
    /\ pc = "connect" => raced \/ http.fd = None
    /\ NoSocketLost

HttpInv ==
    /\ SocketInv /\ BufInv /\ FreshInv
    /\ Reading => ParserInv(url, At, http)
    /\ PageInv

(* ft_http_exit ends a request, in an endless circle of redirections too.        *)
ExitEnds == http.exit ~> pc \in {"app", "destroyed"}

(* A download that returns ERR_OK, of a page sent whole with a good status, has  *)
(* put the page into the file it names.                                          *)
DownloadIsWhole ==
    pc = "app" /\ requests > 0 /\ http.download /\ http.error_code = "OK" /\ ~ cut
               /\ url \in OkUrls /\ HasReason(url) =>
        disk[http.filename] = BodyOf(url)
============================================================================
