----------------------------- MODULE HttpParser -----------------------------
(***************************************************************************)
(* http_parser_execute of httpclient/src/http_parser.c, in its strict      *)
(* build.  Two parsers read the same stream: one is given all of it in one *)
(* call, the other in calls that end anywhere, and its callbacks may pause *)
(* it.  They must see the same messages.                                   *)
(*                                                                         *)
(* A symbol is a character, or a part of a word the parser looks for:      *)
(* "con" then "nection", so that a call may end inside a word.  A record   *)
(* holds the fields of a parser and the locals of the call it is in.       *)
(***************************************************************************)
EXTENDS UrlChars, FiniteSets

CONSTANTS
    Types,          \* of parsers: "request", "response", "both"
    Initials,       \* the letters that methods begin with here
    Names, Values,  \* the symbols headers are made of
    Dec, Hex,       \* 10 and 16
    Most,           \* 999: the greatest version and status
    NoBody,         \* the status codes of messages that have no body
    ULLONG_MAX,     \* no length
    MaxHeader,      \* HTTP_MAX_HEADER_SIZE
    NULL

VARIABLES
    a,      \* the parser that is called once
    b,      \* the parser that is called many times
    held,   \* the symbol b was paused at and is given again
    over,   \* the stream has ended, or is no longer HTTP
    phase   \* how far the message a tells of is: "none", "begun", "headers"

vars == <<a, b, held, over, phase>>

Connecting == <<"C","O","N","N","E","C","T">>
Kinds == {"header_field", "header_value", "url", "body", "status"}

StartState(type) == CASE type = "request" -> "start_req"
                      [] type = "response" -> "start_res"
                      [] OTHER -> "start_req_or_res"

(* http_parser_init, and the locals of a call that begins. *)
Parser(type, skip) ==
    [type |-> type, st |-> StartState(type), hs |-> "general", flags |-> {}, length |-> 0,
     nread |-> 0, major |-> 0, minor |-> 0, status |-> 0, method |-> <<>>, index |-> 0,
     errno |-> "OK", upgrade |-> FALSE,
     skip |-> skip,         \* on_headers_complete returns 1
     marks |-> {},          \* which marks are set
     inner |-> -1,          \* p - start in the loops inside a header, -1 outside
     go |-> "next",         \* the byte is done, or "again", "exit" or an error's "stop"
     called |-> FALSE,      \* a callback was called
     owed |-> 0,            \* what is counted after the callback
     notes |-> <<>>,        \* what has been notified of this byte
     owner |-> {}]          \* the data this byte was told to belong to

Init == /\ \E type \in Types, skip \in BOOLEAN : a = Parser(type, skip)
        /\ b = a /\ held = NULL /\ over = FALSE /\ phase = "none"

--------------------------------------------------------------------------
To(p, s) == [p EXCEPT !.st = s]
Fail(p, e) == [p EXCEPT !.errno = e, !.go = "stop"]
Again(p) == [p EXCEPT !.go = "again"]
Mark(p, kind) == [p EXCEPT !.marks = @ \cup {kind}]

(* CALLBACK_NOTIFY and CALLBACK_DATA; the latter calls only if the mark is set. *)
Tell(p, note) == [p EXCEPT !.notes = Append(@, note), !.called = TRUE]
Give(p, kind) == [p EXCEPT !.marks = @ \ {kind}, !.called = kind \in p.marks]

(* STRICT_CHECK *)
Expect(p, ch, wanted, q) == IF ch = wanted THEN q ELSE Fail(p, "STRICT")

Count(p, n) == LET q == [p EXCEPT !.nread = @ + n]
               IN IF q.nread > MaxHeader THEN Fail(q, "HEADER_OVERFLOW") ELSE q

BodyStates == {"chunk_data", "chunk_data_almost_done", "chunk_data_done",
               "body_identity", "body_identity_eof", "message_done"}

(* http_message_needs_eof and http_should_keep_alive *)
NeedsEof(p) == /\ p.type # "request" /\ p.status \notin NoBody
               /\ p.flags \cap {"SKIPBODY", "CHUNKED"} = {} /\ p.length = ULLONG_MAX

KeepAlive(p) == /\ IF p.major > 0 /\ p.minor > 0 THEN "CLOSE" \notin p.flags
                   ELSE "KEEP_ALIVE" \in p.flags
                /\ ~NeedsEof(p)

NewMessage(p) == IF KeepAlive(p) THEN StartState(p.type) ELSE "dead"
Complete(p) == Tell(To(p, NewMessage(p)), "message_complete")

EndsLine(ch) == ch \in {"CR", "LF"}
Value(ch) == CASE ch = "1" -> 1 [] ch = "a" -> Hex - 1 [] OTHER -> 0

--------------------------------------------------------------------------
(* The start line. *)
(* Mutant of Fresh: the flags of the message before are kept. *)
FreshLength(p) == [p EXCEPT !.length = ULLONG_MAX]

Fresh(p) == [p EXCEPT !.flags = {}, !.length = ULLONG_MAX]

Start(p, ch) ==
    CASE p.st = "dead" -> IF EndsLine(ch) THEN p ELSE Fail(p, "CLOSED_CONNECTION")
      [] p.st = "start_req_or_res" /\ EndsLine(ch) -> p
      [] p.st = "start_req_or_res" /\ ch = "H" ->
             Tell(To(Fresh(p), "res_or_resp_H"), "message_begin")
      [] p.st = "start_req_or_res" ->
             Again(To([Fresh(p) EXCEPT !.type = "request"], "start_req"))
      [] p.st = "res_or_resp_H" /\ ch = "TTP/" ->
             To([p EXCEPT !.type = "response"], "res_first_http_major")
      [] p.st = "res_or_resp_H" /\ ch = "E" ->
             To([p EXCEPT !.type = "request", !.method = <<"H", "E", "A", "D">>, !.index = 2],
                "req_method")
      [] p.st = "res_or_resp_H" -> Fail(p, "INVALID_CONSTANT")
      [] p.st = "start_res" /\ (ch = "H" \/ EndsLine(ch)) ->
             Tell(To(Fresh(p), IF ch = "H" THEN "res_H" ELSE "start_res"), "message_begin")
      [] p.st = "start_res" -> Fail(p, "INVALID_CONSTANT")
      [] p.st = "res_H" -> Expect(p, ch, "TTP/", To(p, "res_first_http_major"))
      [] p.st = "start_req" /\ EndsLine(ch) -> p
      [] p.st = "start_req" /\ FirstLetter(ch) = {} -> Fail(p, "INVALID_METHOD")
      [] p.st = "start_req" ->
             Tell(To([Fresh(p) EXCEPT !.method = CHOOSE m \in FirstLetter(ch) : TRUE,
                                      !.index = 1], "req_method"), "message_begin")
      [] p.st = "req_method" /\ MethodEnds(p.method, p.index, ch) ->
             To([p EXCEPT !.index = 0], "req_spaces_before_url")
      [] p.st = "req_method" /\ NextLetter(p.method, p.index, ch) = {} ->
             Fail(p, "INVALID_METHOD")
      [] p.st = "req_method" ->
             [p EXCEPT !.method = CHOOSE m \in NextLetter(@, p.index, ch) : TRUE,
                       !.index = @ + 1]

(* A number: its first digit, and another, up to Most. *)
First(p, ch, field, next) ==
    IF ch \in Nums THEN To([p EXCEPT ![field] = Value(ch)], next)
    ELSE Fail(p, "INVALID_NUMBER")

More(p, ch, field) ==
    LET n == Dec * p[field] + Value(ch)
    IN IF ch \in Nums /\ n <= Most THEN [p EXCEPT ![field] = n]
       ELSE Fail(p, "INVALID_NUMBER")

ToHeaders(p, ch, almost) == To(p, IF ch = "CR" THEN almost ELSE "header_field_start")

Line(p, ch) ==
    CASE p.st = "res_first_http_major" -> First(p, ch, "major", "res_http_major")
      [] p.st = "req_first_http_major" ->
             IF ch = "0" THEN Fail(p, "INVALID_NUMBER")
             ELSE First(p, ch, "major", "req_http_major")
      [] p.st = "res_http_major" /\ ch = "." -> To(p, "res_first_http_minor")
      [] p.st = "req_http_major" /\ ch = "." -> To(p, "req_first_http_minor")
      [] p.st \in {"res_http_major", "req_http_major"} -> More(p, ch, "major")
      [] p.st = "res_first_http_minor" -> First(p, ch, "minor", "res_http_minor")
      [] p.st = "req_first_http_minor" -> First(p, ch, "minor", "req_http_minor")
      [] p.st = "res_http_minor" /\ ch = " " -> To(p, "res_first_status_code")
      [] p.st = "req_http_minor" /\ EndsLine(ch) -> ToHeaders(p, ch, "req_line_almost_done")
      [] p.st \in {"res_http_minor", "req_http_minor"} -> More(p, ch, "minor")
      [] p.st = "res_first_status_code" ->
             IF ch = " " THEN p ELSE First(p, ch, "status", "res_status_code")
      [] p.st = "res_status_code" /\ ch = " " -> To(p, "res_status_start")
      [] p.st \in {"res_status_code", "res_status_start"} /\ EndsLine(ch) ->
             ToHeaders(p, ch, "res_line_almost_done")
      [] p.st = "res_status_code" -> More(p, ch, "status")
      [] p.st = "res_status_start" -> Mark(To(p, "res_status"), "status")
      [] p.st = "res_status" ->
             IF EndsLine(ch) THEN Give(ToHeaders(p, ch, "res_line_almost_done"), "status") ELSE p
      [] p.st = "res_line_almost_done" -> Expect(p, ch, "LF", To(p, "header_field_start"))
      [] p.st = "req_line_almost_done" ->
             IF ch = "LF" THEN To(p, "header_field_start") ELSE Fail(p, "LF_EXPECTED")

(* The URL of a request, and the protocol after it. *)
UrlStates == {"req_schema", "req_schema_slash", "req_schema_slash_slash", "req_server_start",
              "req_server", "req_server_with_at", "req_path", "req_query_string_start",
              "req_query_string", "req_fragment_start", "req_fragment"}
NoBlanks == {"req_schema", "req_schema_slash", "req_schema_slash_slash", "req_server_start"}

UrlStep(p, s, ch) == LET next == ParseUrlChar(s, ch)
                     IN IF next = Dead THEN Fail(p, "INVALID_URL") ELSE To(p, next)

Url(p, ch) ==
    CASE p.st = "req_spaces_before_url" /\ ch = " " -> p
      [] p.st = "req_spaces_before_url" ->
             UrlStep(Mark(p, "url"),
                     IF p.method = Connecting THEN "req_server_start" ELSE p.st, ch)
      [] p.st \in UrlStates \ NoBlanks /\ ch = " " -> Give(To(p, "req_http_start"), "url")
      [] p.st \in UrlStates \ NoBlanks /\ EndsLine(ch) ->
             Give(ToHeaders([p EXCEPT !.major = 0, !.minor = 9], ch, "req_line_almost_done"),
                  "url")
      [] p.st \in UrlStates -> UrlStep(p, p.st, ch)
      [] p.st = "req_http_start" /\ ch = "H" -> To(p, "req_http_H")
      [] p.st = "req_http_start" -> IF ch = " " THEN p ELSE Fail(p, "INVALID_CONSTANT")
      [] p.st = "req_http_H" -> Expect(p, ch, "TTP/", To(p, "req_first_http_major"))

--------------------------------------------------------------------------
(* Headers.  A table says what the word before and the word now make. *)
FieldWords == {<<"start", "con", "CON">>,
               <<"start", "transfer-", "matching_transfer_encoding">>,
               <<"start", "up", "matching_upgrade">>,
               <<"start", "proxy-", "matching_proxy">>,
               <<"matching_proxy", "con", "matching_proxy_connection">>,
               <<"matching_proxy_connection", "nection", "connection">>,
               <<"CON", "nection", "connection">>,
               <<"CON", "tent-length", "content_length">>,
               <<"matching_transfer_encoding", "encoding", "transfer_encoding">>,
               <<"matching_upgrade", "grade", "upgrade">>}

ListWords == {<<"start", "keep-", "matching_connection_keep_alive">>,
              <<"start", "clo", "matching_connection_close">>,
              <<"start", "up", "matching_connection_upgrade">>,
              <<"matching_connection_keep_alive", "alive", "connection_keep_alive">>,
              <<"matching_connection_close", "se", "connection_close">>,
              <<"matching_connection_upgrade", "grade", "connection_upgrade">>}

CodingWords == {<<"start", "chun", "matching_transfer_encoding_chunked">>,
                <<"matching_transfer_encoding_chunked", "ked", "transfer_encoding_chunked">>}

Becomes(table, before, now, other) ==
    IF \E t \in table : t[1] = before /\ t[2] = now
    THEN (CHOOSE t \in table : t[1] = before /\ t[2] = now)[3]
    ELSE other

NotTokens == {":", ",", "CR", "LF", " ", "TAB", "high"}

FieldStart(p, ch) ==
    CASE ch = "CR" -> To(p, "headers_almost_done")
      [] ch = "LF" -> Again(To(p, "headers_almost_done"))
      [] ch \in NotTokens \ {"CR", "LF"} -> Fail(p, "INVALID_HEADER_TOKEN")
      [] OTHER -> Mark(To([p EXCEPT !.hs = Becomes(FieldWords, "start", ch, "general")],
                          "header_field"), "header_field")

(* The loop that reads the rest of a name counts its bytes when it ends. *)
Counted(p) == [Count(p, p.inner) EXCEPT !.inner = -1]

Field(p, ch) ==
    IF ch \notin NotTokens
    THEN [p EXCEPT !.hs = Becomes(FieldWords, @, ch, "general")]
    ELSE LET q == Counted(p)
         IN IF q.errno # "OK" THEN q
            ELSE IF ch = ":" THEN Give(To(q, "header_value_discard_ws"), "header_field")
            ELSE Fail(q, "INVALID_HEADER_TOKEN")

FlagOf(hs) == CASE hs = "connection_keep_alive" -> {"KEEP_ALIVE"}
                [] hs = "connection_close" -> {"CLOSE"}
                [] hs = "connection_upgrade" -> {"CONNECTION_UPGRADE"}
                [] hs = "transfer_encoding_chunked" -> {"CHUNKED"}
                [] OTHER -> {}

Flagged(p) == [p EXCEPT !.flags = @ \cup FlagOf(p.hs)]

(* The length so far takes one more digit unless that might reach ULLONG_MAX. *)
TooLong(n, base) == (ULLONG_MAX - base) \div base < n

Lengthened(p, ch, base) ==
    IF TooLong(p.length, base) THEN Fail(p, "INVALID_CONTENT_LENGTH")
    ELSE [p EXCEPT !.length = base * @ + Value(ch)]

ValueStart(p, ch) ==
    LET q == Mark(To(p, "header_value"), "header_value")
    IN CASE p.hs = "upgrade" -> [q EXCEPT !.flags = @ \cup {"UPGRADE"}, !.hs = "general"]
         [] p.hs = "transfer_encoding" ->
                [q EXCEPT !.hs = Becomes(CodingWords, "start", ch, "general")]
         [] p.hs = "content_length" ->
                IF ch \in Nums THEN [q EXCEPT !.length = Value(ch)]
                ELSE Fail(q, "INVALID_CONTENT_LENGTH")
         [] p.hs = "connection" ->
                [q EXCEPT !.hs = Becomes(ListWords, "start", ch, "matching_connection_token")]
         [] p.hs = "matching_connection_token_start" -> q
         [] OTHER -> [q EXCEPT !.hs = "general"]

(* The next symbol of a value.  LOWER makes a TAB a parenthesis, which ends a list. *)
InValue(p, ch) ==
    CASE p.hs = "content_length" /\ ch = " " -> p
      [] p.hs = "content_length" /\ ch \in Nums -> Lengthened(p, ch, Dec)
      [] p.hs = "content_length" -> Fail(p, "INVALID_CONTENT_LENGTH")
      [] p.hs = "matching_transfer_encoding_chunked" ->
             [p EXCEPT !.hs = Becomes(CodingWords, @, ch, "general")]
      [] p.hs = "transfer_encoding_chunked" -> IF ch = " " THEN p ELSE [p EXCEPT !.hs = "general"]
      [] p.hs = "matching_connection_token_start" /\ ch = " " -> p
      [] p.hs = "matching_connection_token_start" ->
             [p EXCEPT !.hs = IF ch \in NotTokens THEN "general"
                              ELSE Becomes(ListWords, "start", ch, "matching_connection_token")]
      [] p.hs \in {"matching_connection_keep_alive", "matching_connection_close",
                   "matching_connection_upgrade"} ->
             [p EXCEPT !.hs = Becomes(ListWords, @, ch, "matching_connection_token")]
      [] p.hs = "matching_connection_token" /\ ch = "," ->
             [p EXCEPT !.hs = "matching_connection_token_start"]
      [] FlagOf(p.hs) # {} /\ ch = "," ->
             [Flagged(p) EXCEPT !.hs = "matching_connection_token_start"]
      [] FlagOf(p.hs) # {} /\ ch # " " -> [p EXCEPT !.hs = "matching_connection_token"]
      [] OTHER -> p

(* A line feed that ends a value is counted before the callback, a carriage return *)
(* after it, and so not at all if the callback pauses.                             *)
HeaderValue(p, ch) ==
    LET done == To(p, "header_almost_done")
        counted == Counted(done)
    IN CASE ch = "CR" -> [Give(done, "header_value") EXCEPT !.owed = p.inner, !.inner = -1]
         [] ch = "LF" -> IF counted.errno = "OK" THEN Again(Give(counted, "header_value"))
                         ELSE counted
         [] OTHER -> InValue(p, ch)

Blank(ch) == ch \in {" ", "TAB"}

Header(p, ch) ==
    CASE p.st = "header_field_start" -> FieldStart(p, ch)
      [] p.st = "header_field" -> Field(p, ch)
      [] p.st = "header_value_discard_ws" /\ Blank(ch) -> p
      [] p.st = "header_value_discard_ws" /\ ch = "CR" ->
             To(p, "header_value_discard_ws_almost_done")
      [] p.st = "header_value_discard_ws" /\ ch = "LF" -> To(p, "header_value_discard_lws")
      [] p.st \in {"header_value_discard_ws", "header_value_start"} -> ValueStart(p, ch)
      [] p.st = "header_value" -> HeaderValue(p, ch)
      [] p.st = "header_almost_done" -> Expect(p, ch, "LF", To(p, "header_value_lws"))
      [] p.st = "header_value_lws" ->
             Again(IF Blank(ch) THEN To(p, "header_value_start")
                   ELSE To(Flagged(p), "header_field_start"))
      [] p.st = "header_value_discard_ws_almost_done" ->
             Expect(p, ch, "LF", To(p, "header_value_discard_lws"))
      [] p.st = "header_value_discard_lws" ->
             IF Blank(ch) THEN To(p, "header_value_discard_ws")
             ELSE Again(Give(Mark(To(Flagged(p), "header_field_start"), "header_value"),
                             "header_value"))

--------------------------------------------------------------------------
(* The end of the headers and the body. *)
HeadersComplete(p) ==
    Again(Tell([To(p, "headers_done") EXCEPT
                  !.upgrade = {"UPGRADE", "CONNECTION_UPGRADE"} \subseteq p.flags
                              \/ p.method = Connecting,
                  !.flags = IF p.skip THEN @ \cup {"SKIPBODY"} ELSE @], "headers_complete"))

HasBody(p) == "CHUNKED" \in p.flags \/ p.length \notin {0, ULLONG_MAX}

OtherProtocol(p) ==
    p.upgrade /\ (p.method = Connecting \/ "SKIPBODY" \in p.flags \/ ~HasBody(p))

HeadersDone(p) ==
    LET q == [p EXCEPT !.nread = 0]
    IN CASE OtherProtocol(p) -> [Complete(q) EXCEPT !.go = "exit"]
         [] ~OtherProtocol(p) /\ "SKIPBODY" \in p.flags -> Complete(q)
         [] ~OtherProtocol(p) /\ "SKIPBODY" \notin p.flags /\ "CHUNKED" \in p.flags ->
                To(q, "chunk_size_start")
         [] OTHER -> IF HasBody(p) THEN To(q, "body_identity")
                     ELSE IF NeedsEof(p) THEN To(q, "body_identity_eof") ELSE Complete(q)

(* One byte of a body whose length is known. *)
Shorter(p) == [Mark(p, "body") EXCEPT !.length = @ - 1]
Delivered(p) == [Give(p, "body") EXCEPT !.owner = @ \cup {"body"}]

HexDigits == Nums \cup Hexes \cup {"high"}  \* the table has no more than 128 entries that are set

Body(p, ch) ==
    CASE p.st = "headers_almost_done" ->
             Expect(p, ch, "LF",
                    IF "TRAILING" \in p.flags
                    THEN Again(Tell(To(p, "message_done"), "chunk_complete"))
                    ELSE HeadersComplete(p))
      [] p.st = "headers_done" -> Expect(p, ch, "LF", HeadersDone(p))
      [] p.st = "body_identity" ->
             IF p.length > 1 THEN Shorter(p)
             ELSE Again(Delivered(To(Shorter(p), "message_done")))
      [] p.st = "body_identity_eof" -> Mark(p, "body")
      [] p.st = "message_done" ->
             [Complete(p) EXCEPT !.go = IF p.upgrade THEN "exit" ELSE @]

Chunk(p, ch) ==
    CASE p.st = "chunk_size_start" ->
             IF ch \in HexDigits THEN To([p EXCEPT !.length = Value(ch)], "chunk_size")
             ELSE Fail(p, "INVALID_CHUNK_SIZE")
      [] p.st \in {"chunk_size", "chunk_parameters"} /\ ch = "CR" ->
             To(p, "chunk_size_almost_done")
      [] p.st = "chunk_size" /\ ch \in HexDigits -> Lengthened(p, ch, Hex)
      [] p.st = "chunk_size" /\ ch \in {";", " "} -> To(p, "chunk_parameters")
      [] p.st = "chunk_size" -> Fail(p, "INVALID_CHUNK_SIZE")
      [] p.st = "chunk_parameters" -> p
      [] p.st = "chunk_size_almost_done" ->
             Expect(p, ch, "LF",
                    Tell(IF p.length = 0
                         THEN To([p EXCEPT !.nread = 0, !.flags = @ \cup {"TRAILING"}],
                                 "header_field_start")
                         ELSE To([p EXCEPT !.nread = 0], "chunk_data"), "chunk_header"))
      [] p.st = "chunk_data" ->
             IF p.length > 1 THEN Shorter(p) ELSE To(Shorter(p), "chunk_data_almost_done")
      [] p.st = "chunk_data_almost_done" ->
             Expect(p, ch, "CR", Give(To(p, "chunk_data_done"), "body"))
      [] p.st = "chunk_data_done" ->
             Expect(p, ch, "LF",
                    Tell(To([p EXCEPT !.nread = 0], "chunk_size_start"), "chunk_complete"))

--------------------------------------------------------------------------
(* One case of the switch. *)
StartStates == {"dead", "start_req_or_res", "res_or_resp_H", "start_res", "res_H", "start_req",
                "req_method"}
HeaderStates == {"header_field_start", "header_field", "header_value_discard_ws",
                 "header_value_discard_ws_almost_done", "header_value_discard_lws",
                 "header_value_start", "header_value", "header_value_lws", "header_almost_done"}
ChunkStates == {"chunk_size_start", "chunk_size", "chunk_parameters", "chunk_size_almost_done",
                "chunk_data", "chunk_data_almost_done", "chunk_data_done"}
EndStates == {"headers_almost_done", "headers_done", "body_identity", "body_identity_eof",
              "message_done"}
ToUrlStates == UrlStates \cup {"req_spaces_before_url", "req_http_start", "req_http_H"}

Once(p, ch) == CASE p.st \in StartStates  -> Start(p, ch)
                 [] p.st \in ToUrlStates  -> Url(p, ch)
                 [] p.st \in HeaderStates -> Header(p, ch)
                 [] p.st \in ChunkStates  -> Chunk(p, ch)
                 [] p.st \in EndStates    -> Body(p, ch)
                 [] OTHER                 -> Line(p, ch)

(* The outer loop counts the byte it takes; so does the loop inside a header. *)
Loops == {"header_field", "header_value"}

Counts(p) == CASE p.inner >= 0       -> [p EXCEPT !.inner = @ + 1]
               [] p.st \in Loops     -> [Count(p, 1) EXCEPT !.inner = 0]
               [] p.st \in BodyStates -> p
               [] OTHER              -> Count(p, 1)

(* All that is done with a byte, unless the n-th callback pauses the parser; if it does *)
(* before the byte is consumed, the byte is held and given again.                       *)
Paused(q, n) == q.called /\ n = 1 /\ q.errno = "OK"

WithOwed(q) == Count(q, q.owed)

RECURSIVE Reexecute(_, _, _)
AfterCount(r, ch, n) ==
    IF r.errno = "OK" /\ r.go = "again"
    THEN Reexecute(r, ch, IF r.called THEN n - 1 ELSE n) ELSE r

AfterCase(q, ch, n) ==
    IF Paused(q, n) THEN [q EXCEPT !.go = IF @ = "again" THEN "held" ELSE "paused"]
    ELSE AfterCount(WithOwed(q), ch, n)

Reexecute(p, ch, n) ==
    AfterCase(Once([p EXCEPT !.go = "next", !.called = FALSE, !.owed = 0], ch), ch, n)

(* Mutant of Resumed: a status line that goes on is forgotten. *)
ResumedLoops(s) == IF s \in Loops THEN {s} ELSE IF s \in UrlStates THEN {"url"} ELSE {}

(* The marks that a call begins with, and those it ends with: their data are given. *)
Resumed(s) == CASE s \in Loops -> {s}
                [] s \in UrlStates -> {"url"}
                [] s = "res_status" -> {"status"}
                [] OTHER -> {}

Begin(p) == [p EXCEPT !.marks = Resumed(p.st), !.inner = -1]

EndCall(p) == Begin(IF p.inner >= 0 THEN Count(p, p.inner + 1) ELSE p)

(* After a byte the data of the marks are one longer; after an error nothing more is given. *)
Settled(r) == [r EXCEPT !.owner = IF r.errno = "OK" THEN @ \cup r.marks ELSE @,
                        !.called = FALSE, !.owed = 0]

Left(s) == IF s.go \in {"held", "paused", "exit"} THEN Begin(s) ELSE s

Taken(q, ch, n) == IF q.errno = "OK" THEN Reexecute(q, ch, n) ELSE q

Byte(p, ch, n) == Left(Settled(Taken(Counts(p), ch, n)))

(* A call with no data. *)
AtEof(p) == CASE p.st = "body_identity_eof" -> Tell(p, "message_complete")
              [] p.st \in {"dead", "start_req_or_res", "start_res", "start_req"} -> p
              [] OTHER -> Fail(p, "INVALID_EOF_STATE")

--------------------------------------------------------------------------
(* The symbols worth giving in a state. *)
NextLetters(m, i) == IF i < Len(m) THEN {m[i + 1]} ELSE {" "}

SymbolsIn(p) ==
    CASE p.st \in {"start_req_or_res", "start_res", "start_req", "dead"} ->
             Initials \cup {"CR", "LF"}
      [] p.st \in {"res_or_resp_H", "res_H", "req_http_H"} -> {"TTP/", "E"}
      [] p.st = "req_method" -> NextLetters(p.method, p.index) \cup {"x"}
      [] p.st \in ToUrlStates \ {"req_http_start", "req_http_H"} ->
             {"/", "a", ":", "@", "?", "#", " ", "CR", "LF"}
      [] p.st = "req_http_start" -> {"H", " ", "x"}
      [] p.st \in {"header_field_start", "header_field"} -> Names \cup {":", "CR", "LF"}
      [] p.st \in HeaderStates -> Values \cup {"CR", "LF"}
      [] p.st \in {"chunk_size_start", "chunk_size"} -> HexDigits \cup {"CR", ";", "x"}
      [] p.st \in BodyStates \cup {"chunk_parameters", "chunk_size_almost_done",
                                   "headers_almost_done", "headers_done"} -> {"CR", "LF", "x"}
      [] OTHER -> Nums \cup {".", " ", "CR", "LF"}

(* A name or a value that is longer than all headers may be is not made longer. *)
Symbols(p) == IF p.nread + p.inner <= MaxHeader THEN SymbolsIn(p)
              ELSE IF p.st = "header_field" THEN {":", "CR"} ELSE {"CR", "LF"}

RECURSIVE Phases(_, _)
Phases(f, notes) ==
    IF notes = <<>> THEN f
    ELSE Phases(CASE Head(notes) = "message_begin" /\ f \in {"none", "begun"} -> "begun"
                  [] Head(notes) = "headers_complete" /\ f = "begun" -> "headers"
                  [] Head(notes) \in {"chunk_header", "chunk_complete"} /\ f = "headers" -> f
                  [] Head(notes) = "message_complete" /\ f = "headers" -> "none"
                  [] OTHER -> "wrong", Tail(notes))

NewByte(p) == [p EXCEPT !.notes = <<>>, !.owner = {}]

Feed(ch, n) ==
    /\ held = NULL /\ ~over /\ a.errno = "OK" /\ b.errno = "OK"
    /\ a' = Byte(NewByte(a), ch, 0)
    /\ b' = Byte(NewByte(b), ch, n)
    /\ held' = IF b'.go = "held" THEN ch ELSE NULL
    /\ over' = (a'.go = "exit")
    /\ phase' = Phases(phase, a'.notes)

(* The byte b was paused at. *)
Resume(n) ==
    /\ held # NULL /\ b.errno = "OK"
    /\ b' = Byte(b, held, n)
    /\ held' = IF b'.go = "held" THEN held ELSE NULL
    /\ UNCHANGED <<a, over, phase>>

(* The data of a call of b ends. *)
Cut == /\ held = NULL /\ ~over /\ b.errno = "OK" /\ (b.inner >= 0 \/ b.marks # {})
       /\ b' = EndCall(b)
       /\ UNCHANGED <<a, held, over, phase>>

AtEofIfSound(p) == IF p.errno = "OK" THEN AtEof(p) ELSE p

Ended(p) == AtEofIfSound(EndCall(NewByte(p)))

Eof == /\ held = NULL /\ ~over /\ a.errno = "OK" /\ b.errno = "OK"
       /\ a' = Ended(a) /\ b' = Ended(b)
       /\ over' = TRUE
       /\ phase' = Phases(phase, a'.notes)
       /\ UNCHANGED held

Next == \/ \E n \in 0 .. 3 : (\E ch \in Symbols(a) : Feed(ch, n)) \/ Resume(n)
        \/ Cut \/ Eof

Spec == Init /\ [][Next]_vars

--------------------------------------------------------------------------
(* However the stream is cut into calls and wherever a callback pauses, the parser *)
(* is in the same state after each byte, has told of the same things, and counts   *)
(* the byte to the same name, value, URL, status or body.  Only the limit on the   *)
(* headers may be met at another byte: a byte is counted twice where a call ends   *)
(* inside a name or a value, and not at all where a pause ends a value.            *)
Seen(p) == [st |-> p.st, hs |-> p.hs, flags |-> p.flags, length |-> p.length,
            version |-> <<p.major, p.minor, p.status>>, method |-> p.method,
            upgrade |-> p.upgrade, errno |-> p.errno, notes |-> p.notes, owner |-> p.owner]

SplitInvariant ==
    held = NULL /\ "HEADER_OVERFLOW" \notin {a.errno, b.errno} => Seen(a) = Seen(b)

(* The assertions of the code: a body that is read has a length, and it is not the one *)
(* that stands for none; a chunk is of a chunked message; one mark is set at most; and *)
(* the headers were counted from the start when a chunk begins.                        *)
AssertsHold ==
    \A p \in {a, b} :
        /\ p.st \in {"body_identity", "chunk_data"} /\ p.errno = "OK" =>
               p.length \notin {0, ULLONG_MAX}
        /\ p.st \in ChunkStates => "CHUNKED" \in p.flags
        /\ p.st = "chunk_data_almost_done" => p.length = 0
        /\ p.st = "chunk_size_start" /\ p.go # "stop" => p.nread = 0
        /\ Cardinality(p.marks) <= 1

(* The messages are told of one at a time and each in order: its beginning, its headers *)
(* once, its chunks, its end once.  (A response may begin more than once: a line end    *)
(* before it is told of as a beginning.)                                                *)
ToldInOrder == phase # "wrong"
=============================================================================
