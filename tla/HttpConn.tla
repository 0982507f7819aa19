------------------------------ MODULE HttpConn ------------------------------
(***************************************************************************)
(* HTTP messages on a connection of mongoose.c: how http_cb takes them out *)
(* of c->recv, which arrives cut anywhere and is worked on in place: the   *)
(* length of a body, the walk over its chunks, what a handler is told of   *)
(* and what becomes of the buffer when it deletes what it was told of.     *)
(*                                                                         *)
(* A byte is a pair of a kind and a value.  The headers are the bytes      *)
(* before the one of kind "end", which stands for all that they say.  A    *)
(* size has one digit, so that the last chunk has five bytes as in the     *)
(* code.                                                                   *)
(***************************************************************************)
EXTENDS Integers, Sequences, SequencesExt

CONSTANTS
    Requests,       \* what the headers may say: [method, length, chunked]
    Bodies,         \* sequences of chunks, each a sequence of data
    MaxMessages,
    NULL

VARIABLES
    deletes,    \* the handler deletes the chunks that it is told of
    conn,       \* recv, pfn_data, what was heard, is_closing
    wire,       \* sent and not received
    sent,       \* the bodies as they were meant
    last        \* what the headers of the last message say

vars == <<deletes, conn, wire, sent, last>>

Infinite == 1000    \* (size_t) ~0

Digit(n) == <<"digit", n>>
Datum(x) == <<"data", x>>
CR == <<"cr", 0>>
LF == <<"lf", 0>>
Bad == <<"bad", 0>>     \* a byte that is not ok in headers

--------------------------------------------------------------------------
(* mg_http_get_request_len: 0 when the end is not there yet, and -1 when a byte is bad. *)
Ends(r) == {j \in 1 .. Len(r) : r[j][1] \in {"end", "bad"}}

RequestLen(r) == IF Ends(r) = {} THEN 0
                 ELSE LET j == CHOOSE j \in Ends(r) : \A k \in Ends(r) : j <= k
                      IN IF r[j][1] = "bad" THEN -1 ELSE j

(* mg_http_parse: the length of the body.  Without a Content-Length it ends with the      *)
(* connection, save that of a request that has none and of a 204.                         *)
HasNone(q) == q.method \in {"GET", "204"}

BodyLen(q) == CASE q.length # NULL -> q.length
                [] q.length = NULL /\ HasNone(q) -> 0
                [] OTHER -> Infinite

MessageLen(q, n) == IF BodyLen(q) = Infinite THEN Infinite ELSE n + BodyLen(q)

(* get_chunk_length of what is behind the first at bytes: the bytes of the chunk, and     *)
(* those before its data; none when it is not there as a whole.  (The code stops at the   *)
(* eleventh byte of a size too; no size is as long here.)                                 *)
SizeEnd(r, at) == LET crs == {j \in at + 1 .. Len(r) : r[j][1] = "cr"}
                  IN IF crs = {} THEN Len(r) - at
                     ELSE (CHOOSE j \in crs : \A k \in crs : j <= k) - at - 1

LineEnd(r, at, i) == LET rest == {j \in at + i + 1 .. Len(r) : r[j][1] # "cr"}
                     IN IF rest = {} THEN Len(r) - at
                        ELSE (CHOOSE j \in rest : \A k \in rest : j <= k) - at - 1

Size(r, at, i) == FoldLeft(LAMBDA n, b : 16 * n + b[2], 0, SubSeq(r, at + 1, at + i))

Chunk(n, i, len) ==
    [ll |-> i + 1, cl |-> IF i < len /\ i + n + 2 < len THEN i + n + 3 ELSE 0]

get_chunk_length(r, at) ==
    Chunk(Size(r, at, SizeEnd(r, at)), LineEnd(r, at, SizeEnd(r, at)), Len(r) - at)

DataLen(k) == IF k.cl < k.ll + 2 THEN 0 ELSE k.cl - k.ll - 2

--------------------------------------------------------------------------
(* What the handler hears, as bodies: those that are whole, and the one under way.  When  *)
(* it deletes, a body is the chunks and what is left when it is told of the end.          *)
Heard(h, ev, data) ==
    CASE ev = "msg" -> [whole |-> Append(h.whole, h.part \o data), part |-> <<>>]
      [] ev = "last" -> [whole |-> Append(h.whole, h.part), part |-> <<>>]
      [] OTHER -> [h EXCEPT !.part = IF deletes THEN @ \o data ELSE @]

Tell(c, ev, data) == [c EXCEPT !.heard = Heard(@, ev, data)]

(* mg_http_delete_chunk of the len bytes from the p-th on: with the lines around them     *)
(* when the body is chunked, back to the end of a chunk before it.                        *)
RECURSIVE Back(_, _, _)
Back(r, n, p) == IF p > n + 1 /\ r[p][1] # "lf" THEN Back(r, n, p - 1) ELSE p

Cut(c, from, len) ==
    [c EXCEPT !.recv = SubSeq(@, 1, from - 1) \o SubSeq(@, from + len, Len(@)),
              !.pfn_data = IF @ = 0 THEN 0 ELSE @ - len]

mg_http_delete_chunk(c, n, p, len, chunked) ==
    IF ~chunked THEN Cut(c, p, len)
    ELSE Cut(c, Back(c.recv, n, p - 2), len + 4 + p - 2 - Back(c.recv, n, p - 2))

(* MG_EV_HTTP_CHUNK, and what the handler does. *)
ToldOfChunk(c, n, p, len, chunked) ==
    LET d == Tell(c, "chunk", SubSeq(c.recv, p, p + len - 1))
    IN IF deletes THEN mg_http_delete_chunk(d, n, p, len, chunked) ELSE d

(* The sizes are cut out of the body: memmove of the data of each chunk, up to the last.  *)
Moved(r, to, from, len) == [j \in 1 .. Len(r) |-> IF j \in to + 1 .. to + len THEN r[j - to + from] ELSE r[j]]

RECURSIVE Joined(_, _, _, _)
JoinedChunk(r, n, off, bl, k) ==
    LET s == Moved(r, n + bl, n + off + k.ll, DataLen(k))
    IN IF k.cl <= 5 THEN [recv |-> SubSeq(s, 1, Len(s) - (off + k.cl - bl - DataLen(k))),
                          bl |-> bl + DataLen(k)]
       ELSE Joined(s, n, off + k.cl, bl + DataLen(k))
Joined(r, n, off, bl) ==
    IF n + off < Len(r) THEN JoinedChunk(r, n, off, bl, get_chunk_length(r, n + off))
    ELSE [recv |-> SubSeq(r, 1, Len(r) - (off - bl)), bl |-> bl]

(* walkchunks: the connection, and the length of the message once it is whole. *)
Walk(c, len) == [conn |-> c, len |-> len]

Finished(c, n) == LET j == Joined(c.recv, n, 0, 0)
                  IN Walk([c EXCEPT !.recv = j.recv], n + j.bl)

RECURSIVE walkchunks(_, _, _)
WalkedChunk(c, n, off, k) ==
    LET d == ToldOfChunk(c, n, n + off + k.ll + 1, DataLen(k), TRUE)
    IN CASE k.cl = 0 -> Walk(c, Infinite)
         [] k.cl \in 1 .. 5 -> Finished(d, n)
         [] OTHER -> walkchunks(d, n, IF Len(d.recv) = Len(c.recv) THEN off + k.cl ELSE off)
walkchunks(c, n, off) ==
    IF n + off < Len(c.recv) THEN WalkedChunk(c, n, off, get_chunk_length(c.recv, n + off))
    ELSE Walk(c, Infinite)

(* A part of a body that is not chunked.  What is left of it is kept in pfn_data; when    *)
(* nothing is, the handler is told of an empty chunk and the headers go.                  *)
Streamed(c, n, left) ==
    LET d == ToldOfChunk([c EXCEPT !.pfn_data = IF @ = 0 THEN left ELSE @],
                         n, n + 1, Len(c.recv) - n, FALSE)
    IN IF d.pfn_data # 0 THEN d
       ELSE [Tell(d, "last", <<>>) EXCEPT !.recv = SubSeq(@, n + 1, Len(@))]

(* The loop of http_cb. *)
RECURSIVE http_cb(_, _)
Whole(c, n, len, closes) ==
    http_cb([Tell(c, "msg", SubSeq(c.recv, n + 1, len)) EXCEPT !.recv = SubSeq(@, len + 1, Len(@))], closes)

Message(c, n, q, closes) ==
    CASE closes -> Whole(c, n, Len(c.recv), TRUE)
      [] ~closes /\ q.chunked -> LET w == walkchunks(c, n, 0)
                                 IN IF Len(w.conn.recv) >= w.len
                                    THEN Whole(w.conn, n, w.len, FALSE) ELSE w.conn
      [] ~closes /\ ~q.chunked -> IF Len(c.recv) >= MessageLen(q, n)
                                  THEN Whole(c, n, MessageLen(q, n), FALSE)
                                  ELSE Streamed(c, n, MessageLen(q, n) - n)

http_cb(c, closes) ==
    LET n == RequestLen(c.recv)
    IN CASE n > 0 -> Message(c, n, c.recv[n][2], closes)
         [] n < 0 /\ ~closes -> [c EXCEPT !.is_closing = TRUE]
         [] OTHER -> c

--------------------------------------------------------------------------
(* mg_http_write_chunk and mg_http_printf_chunk; the last chunk is empty. *)
mg_http_write_chunk(data) == <<Digit(Len(data)), CR, LF>> \o data \o <<CR, LF>>

Chunks(body) == FlattenSeq([j \in 1 .. Len(body) |-> mg_http_write_chunk(body[j])])
                \o mg_http_write_chunk(<<>>)

(* mg_http_reply gives the length that the body has. *)
Bytes(q, body) ==
    <<<<"line", 0>>, <<"end", q>>>> \o (IF q.chunked THEN Chunks(body) ELSE FlattenSeq(body))

Init == /\ deletes \in BOOLEAN
        /\ conn = [recv |-> <<>>, pfn_data |-> 0, heard |-> [whole |-> <<>>, part |-> <<>>], is_closing |-> FALSE]
        /\ wire = <<>> /\ sent = <<>> /\ last = NULL

(* A message follows another at once only if the handler keeps the chunks and the one     *)
(* before is not chunked: what is behind a chunked body is lost when its sizes are cut    *)
(* out, and a handler that deletes is told of it as a part of the body.  None follows     *)
(* while pfn_data is left over: it is when a handler that deletes was told of headers     *)
(* alone and then of the message, and the next body would end too early.                  *)
MayFollow == conn.heard.whole = sent /\ (deletes => conn.pfn_data = 0)

(* Its body ends with the connection. *)
Open == last # NULL /\ BodyLen(last) = Infinite /\ ~last.chunked

(* A byte that no headers hold, behind a message; the peer has said all then. *)
Said == [method |-> "none", length |-> 0, chunked |-> FALSE]

Sends(q, body) ==
    /\ Len(sent) < MaxMessages /\ last # Said /\ ~Open /\ ~conn.is_closing
    /\ deletes \/ (last # NULL /\ last.chunked) => MayFollow
    /\ BodyLen(q) = Infinite \/ q.chunked \/ BodyLen(q) = Len(FlattenSeq(body))
    /\ wire' = wire \o Bytes(q, body)
    /\ sent' = Append(sent, FlattenSeq(body))
    /\ last' = q
    /\ UNCHANGED <<deletes, conn>>

Garbage == /\ last # Said /\ ~Open /\ MayFollow
           /\ wire' = wire \o <<Bad>> /\ last' = Said
           /\ UNCHANGED <<deletes, conn, sent>>

Read(n) == /\ n <= Len(wire) /\ ~conn.is_closing
           /\ conn' = http_cb([conn EXCEPT !.recv = @ \o SubSeq(wire, 1, n)], FALSE)
           /\ wire' = SubSeq(wire, n + 1, Len(wire))
           /\ UNCHANGED <<deletes, sent, last>>

(* The connection ends where a body does: MG_EV_CLOSE. *)
Close == /\ wire = <<>> /\ ~conn.is_closing /\ (Open \/ conn.heard.whole = sent)
         /\ conn' = [http_cb(conn, TRUE) EXCEPT !.is_closing = TRUE]
         /\ UNCHANGED <<deletes, wire, sent, last>>

Next == \/ \E q \in Requests, body \in Bodies : Sends(q, body)
        \/ Garbage
        \/ \E n \in 1 .. Len(wire) : Read(n)
        \/ Close

Spec == Init /\ [][Next]_vars

--------------------------------------------------------------------------
(* However the bytes are cut, and whether the handler keeps or deletes what it is told    *)
(* of, it hears the bodies that were sent, without the sizes of their chunks, in order,   *)
(* each once and whole, and all of them once the bytes are there.                         *)
BodiesWhole ==
    /\ IsPrefix(conn.heard.whole, sent)
    /\ conn.heard.part # <<>> => /\ Len(conn.heard.whole) < Len(sent)
                               /\ IsPrefix(conn.heard.part, sent[Len(conn.heard.whole) + 1])
    /\ wire = <<>> => conn.heard.whole = sent \/ (Open /\ ~conn.is_closing)
=============================================================================
