------------------------------- MODULE MgNet -------------------------------
(***************************************************************************)
(* What the connections of mongoose.c are built on: the buffers that their *)
(* bytes are in, the timers, and how URLs, addresses, answers of a name    *)
(* server and the parts of a form are read.                                *)
(*                                                                         *)
(* A character is a string; an octet of a name server's answer is a        *)
(* number.  A place in a string counts the characters before it.           *)
(***************************************************************************)
EXTENDS Integers, Sequences, SequencesExt

CONSTANTS
    Chunk, MaxSize, Data,           \* of buffers: chunk_size, and what is added
    Periods, MaxTimers, MaxTime,    \* of timers: MaxTime bounds the clock
    Urls,           \* the parts of URLs: [scheme, user, pass, host, port, uri], <<>> where none
    V4Texts,        \* sequences of parts, each a sequence of characters
    V6Texts,        \* [before, behind, short]: the groups of digits around "::", if it is short
    Answers,        \* [txnid, name, rrs]: an answer of a name server; an rr is
                    \* [labels, pointed, atype, aclass, data]
    PartNames, Forms    \* what the names of the parts of a form are, and sequences of [name, body]

VARIABLES
    io, content,    \* a buffer: [buf, len, size], and what it must hold
    timers,         \* the list of timers
    call            \* the last call: what was asked, and what came back

vars == <<io, content, timers, call>>

At(s, i) == s[i + 1]

--------------------------------------------------------------------------
(* mg_iobuf_*: allocation may fail, and what was allocated is zero. *)
Zeros(n) == [j \in 1 .. n |-> 0]

Resized(b, n) ==
    [b EXCEPT !.buf = SubSeq(b.buf, 1, b.len) \o Zeros(n - b.len), !.size = n]

(* mg_iobuf_resize; the code keeps len when n is less, which nobody asks. *)
mg_iobuf_resize(b, n, ok) ==
    IF n = 0 THEN [buf |-> <<>>, len |-> 0, size |-> 0]
    ELSE IF n # b.size /\ ok THEN Resized(b, n) ELSE b

Aligned(n) == n + Chunk - ((n + Chunk) % Chunk)

Put(b, ofs, data) ==
    [b EXCEPT !.buf = SubSeq(b.buf, 1, ofs) \o data \o SubSeq(b.buf, ofs + 1, b.len)
                      \o Zeros(b.size - b.len - Len(data)),
              !.len = @ + Len(data)]

Added(old, b, n, ofs, data) == IF n > old.size /\ b.size # n THEN Put(b, ofs, <<>>) ELSE Put(b, ofs, data)

mg_iobuf_add(b, ofs, data, ok) ==
    LET n == IF b.len + Len(data) > b.size THEN Aligned(b.len + Len(data)) ELSE b.size
    IN Added(b, mg_iobuf_resize(b, n, ok), n, ofs, data)

mg_iobuf_del(b, ofs, len) ==
    LET from == IF ofs > b.len THEN b.len ELSE ofs
        n == IF from + len > b.len THEN b.len - from ELSE len
    IN [b EXCEPT !.buf = SubSeq(b.buf, 1, from) \o SubSeq(b.buf, from + n + 1, b.len) \o Zeros(n)
                         \o SubSeq(b.buf, b.len + 1, b.size),
                 !.len = @ - n]

Add(ofs, data, ok) ==
    LET next == mg_iobuf_add(io, ofs, data, ok)
    IN /\ ofs <= io.len /\ io.len + Len(data) <= MaxSize
       /\ io' = next
       /\ content' = IF next.len = io.len THEN content
                     ELSE SubSeq(content, 1, ofs) \o data \o SubSeq(content, ofs + 1, Len(content))
       /\ UNCHANGED <<timers, call>>

Del(ofs, len) == /\ io' = mg_iobuf_del(io, ofs, len)
                 /\ content' = SubSeq(content, 1, IF ofs > Len(content) THEN Len(content) ELSE ofs)
                               \o SubSeq(content, ofs + len + 1, Len(content))
                 /\ UNCHANGED <<timers, call>>

Resize(n, ok) == /\ n = 0 \/ n >= io.len
                 /\ io' = mg_iobuf_resize(io, n, ok)
                 /\ content' = IF n = 0 THEN <<>> ELSE content
                 /\ UNCHANGED <<timers, call>>

Buffers == \/ \E ofs \in 0 .. MaxSize, data \in Data, ok \in BOOLEAN : Add(ofs, data, ok)
           \/ \E ofs, len \in 0 .. MaxSize : Del(ofs, len)
           \/ \E n \in 0 .. MaxSize, ok \in BOOLEAN : Resize(n, ok)

--------------------------------------------------------------------------
(* mg_timer_*.  For the properties only: when a timer was armed, how often it was called   *)
(* since, and whether the polls since were no farther apart than its period.               *)
Timer(period, repeat) ==
    [period |-> period, repeat |-> repeat, expire |-> 0, prev |-> 0, armed |-> 0, fired |-> 0, smooth |-> TRUE]

Armed(t, time) == [t EXCEPT !.prev = time, !.expire = time + t.period, !.armed = time, !.fired = 0, !.smooth = TRUE]
Seen(t, time) == [t EXCEPT !.prev = time, !.smooth = @ /\ time - t.prev <= t.period]

Fired(t, time) ==
    [t EXCEPT !.expire = IF time - @ > t.period THEN time + t.period ELSE @ + t.period, !.fired = @ + 1]

Due(t, time) == t.expire <= time
Current(t, time) == IF t.prev > time \/ t.expire = 0 THEN Armed(t, time) ELSE Seen(t, time)
Polled(t, time) == IF Due(Current(t, time), time) THEN Fired(Current(t, time), time) ELSE Current(t, time)
Stays(t) == t.repeat \/ t.fired = 0

mg_timer_init(period, repeat) ==
    /\ Len(timers) < MaxTimers
    /\ timers' = <<Timer(period, repeat)>> \o timers
    /\ UNCHANGED <<io, content, call>>

mg_timer_free(i) == timers' = RemoveAt(timers, i) /\ UNCHANGED <<io, content, call>>

mg_timer_poll(time) ==
    /\ timers' = SelectSeq([i \in 1 .. Len(timers) |-> Polled(timers[i], time)], Stays)
    /\ UNCHANGED <<io, content, call>>

Timers == \/ \E p \in Periods, repeat \in BOOLEAN : mg_timer_init(p, repeat)
          \/ \E i \in 1 .. Len(timers) : mg_timer_free(i)
          \/ \E time \in 0 .. MaxTime : mg_timer_poll(time)

--------------------------------------------------------------------------
(* urlparse: 0 where a part is not there. *)
NoUrl == [user |-> 0, pass |-> 0, host |-> 0, port |-> 0, uri |-> 0]

UrlChar(u, s, i) ==
    LET c == At(s, i)
    IN IF i > 0 /\ u.host = 0 /\ At(s, i - 1) = "/" /\ c = "/" THEN [u EXCEPT !.host = i + 1, !.port = 0]
       ELSE IF c = "]" THEN [u EXCEPT !.port = 0]
       ELSE IF c = ":" /\ u.port = 0 /\ u.uri = 0 THEN [u EXCEPT !.port = i + 1]
       ELSE IF c = "@" /\ u.user = 0 /\ u.pass = 0
            THEN [u EXCEPT !.user = u.host, !.pass = u.port, !.host = i + 1, !.port = 0]
       ELSE IF u.host # 0 /\ u.uri = 0 /\ c = "/" THEN [u EXCEPT !.uri = i]
       ELSE u

RECURSIVE UrlFrom(_, _, _)
UrlFrom(u, s, i) == IF i = Len(s) THEN u ELSE UrlFrom(UrlChar(u, s, i), s, i + 1)
urlparse(s) == UrlFrom(NoUrl, s, 0)

Cut(s, from, to) == SubSeq(s, from + 1, to)

mg_url_host(s, u) == Cut(s, u.host, IF u.port # 0 THEN u.port - 1 ELSE IF u.uri # 0 THEN u.uri ELSE Len(s))
mg_url_uri(s, u) == IF u.uri # 0 THEN Cut(s, u.uri, Len(s)) ELSE <<"/">>
mg_url_user(s, u) ==
    IF u.user = 0 THEN <<>> ELSE Cut(s, u.user, IF u.pass # 0 THEN u.pass - 1 ELSE u.host - 1)
mg_url_pass(s, u) == IF u.pass # 0 /\ u.host # 0 THEN Cut(s, u.pass, u.host - 1) ELSE <<>>

DigitChars == <<"0", "1", "2", "3", "4", "5", "6", "7", "8", "9">>
HexChars == DigitChars \o <<"a", "b", "c", "d", "e", "f">>
ValueOf(c) == (CHOOSE v \in 1 .. 16 : HexChars[v] = c) - 1

RECURSIVE Atoi(_, _)
Atoi(s, n) == IF s # <<>> /\ Head(s) \in Range(DigitChars) THEN Atoi(Tail(s), (10 * n) + ValueOf(Head(s))) ELSE n

DefaultPort(s) == CASE Len(s) < 2 \/ s[2] # ":" -> 0
                    [] s[1] \in {"http", "ws"} -> 80
                    [] s[1] \in {"https", "wss"} -> 443
                    [] s[1] = "mqtt" -> 1883
                    [] s[1] = "mqtts" -> 8883
                    [] OTHER -> 0
mg_url_port(s, u) == IF u.port # 0 THEN Atoi(Cut(s, u.port, Len(s)), 0) % 65536 ELSE DefaultPort(s)
mg_url_is_ssl(s) == Len(s) > 1 /\ s[2] = ":" /\ s[1] \in {"wss", "https", "mqtts", "ssl", "tls"}

UrlIs(s, u) == [host |-> mg_url_host(s, u), port |-> mg_url_port(s, u), uri |-> mg_url_uri(s, u),
                user |-> mg_url_user(s, u), pass |-> mg_url_pass(s, u), ssl |-> mg_url_is_ssl(s)]

--------------------------------------------------------------------------
(* mg_aton: the octets, or pairs of octets, of an address. *)
NoAddr == <<-1>>

RECURSIVE Aton4From(_, _, _)
Octet(s, i, data, d) ==
    IF (10 * Last(data)) + d > 255 THEN NoAddr ELSE Aton4From(s, i + 1, Append(Front(data), (10 * Last(data)) + d))
DotAt(s, i, data) ==
    IF Len(data) > 3 \/ i = 0 THEN NoAddr
    ELSE IF At(s, i - 1) = "." THEN NoAddr ELSE Aton4From(s, i + 1, Append(data, 0))
Aton4From(s, i, data) ==
    IF i = Len(s) THEN IF Len(data) # 4 THEN NoAddr ELSE IF Last(s) = "." THEN NoAddr ELSE data
    ELSE IF At(s, i) \in Range(DigitChars) THEN Octet(s, i, data, ValueOf(At(s, i)))
    ELSE IF At(s, i) = "." THEN DotAt(s, i, data)
    ELSE NoAddr
mg_aton4(s) == Aton4From(s, 0, <<0>>)

Mapped(a) == IF a = NoAddr THEN NoAddr
             ELSE <<0, 0, 0, 0, 0, 65535, (256 * a[1]) + a[2], (256 * a[3]) + a[4]>>
mg_v4mapped(s) ==
    IF Len(s) < 14 THEN NoAddr
    ELSE IF SubSeq(s, 1, 7) # <<":", ":", "f", "f", "f", "f", ":">> THEN NoAddr ELSE Mapped(mg_aton4(SubSeq(s, 8, Len(s))))

(* n and dc are the numbers of pairs; what was in the address before is junk. *)
Junk == [k \in 1 .. 8 |-> -2]

RECURSIVE HexOf(_, _)
HexOf(s, n) == IF s = <<>> THEN n ELSE HexOf(Tail(s), (16 * n) + ValueOf(Head(s)))

Spread(ip6, n, dc) ==
    [k \in 1 .. 8 |-> IF k <= dc THEN ip6[k] ELSE IF k <= dc + (7 - n) THEN 0 ELSE ip6[k - (7 - n)]]

RECURSIVE Aton6From(_, _, _, _, _, _)
ColonAt(s, i, ip6, n, dc) ==
    IF n > 7 THEN NoAddr ELSE Aton6From(s, i + 1, i + 1, [ip6 EXCEPT ![n + 1] = 0], n, dc)
Colon(s, i, ip6, n, dc) ==
    IF i > 0 /\ At(s, i - 1) = ":"
    THEN IF i > 1 /\ At(s, i - 2) = ":" THEN NoAddr ELSE ColonAt(s, i, ip6, n, n)
    ELSE ColonAt(s, i, ip6, IF i > 0 THEN n + 1 ELSE n, dc)
Aton6From(s, i, j, ip6, n, dc) ==
    IF i = Len(s) THEN IF n < 7 /\ dc = 42 THEN NoAddr ELSE IF n < 7 THEN Spread(ip6, n, dc) ELSE ip6
    ELSE IF At(s, i) \in Range(HexChars)
         THEN IF i > j + 3 THEN NoAddr
              ELSE Aton6From(s, i + 1, j, [ip6 EXCEPT ![n + 1] = HexOf(Cut(s, j, i + 1), 0)], n, dc)
    ELSE IF At(s, i) = ":" THEN Colon(s, i, ip6, n, dc)
    ELSE NoAddr

Bare(s) == IF Len(s) > 2 /\ s[1] = "[" THEN SubSeq(s, 2, Len(s) - 1) ELSE s
First(a, b) == IF a # NoAddr THEN a ELSE b
Aton6(s) == First(mg_v4mapped(s), Aton6From(s, 0, 0, Junk, 0, 42))
mg_aton6(s) == Aton6(Bare(s))

mg_aton(s) == IF s = <<>> THEN <<0, 0, 0, 0>>
              ELSE IF s = <<"localhost">> THEN <<127, 0, 0, 1>>
              ELSE First(mg_aton4(s), mg_aton6(s))

--------------------------------------------------------------------------
(* mg_dns_parse_name_depth: how many octets the name takes, and its labels; none when it   *)
(* is bad.                                                                                 *)
Labels(n, name) == [n |-> n, name |-> name]

RECURSIVE NameFrom(_, _, _, _, _)
Pointed(s, ofs, i, name, depth, ptr) ==
    IF ptr + 1 >= Len(s) THEN Labels(i + 2, name)
    ELSE IF At(s, ptr) >= 64 THEN Labels(i + 2, name)
    ELSE LET to == NameFrom(s, ptr, 0, name, depth + 1)
         IN IF to.n = 0 THEN Labels(0, to.name) ELSE Labels(i + 2, to.name)
NameFrom(s, ofs, i, name, depth) ==
    IF depth > 5 THEN Labels(0, name)
    ELSE IF ofs + i + 1 >= Len(s) THEN Labels(i, name)
    ELSE LET n == At(s, ofs + i)
         IN IF n = 0 THEN Labels(i + 1, name)
            ELSE IF n >= 64 THEN Pointed(s, ofs, i, name, depth, (256 * (n % 64)) + At(s, ofs + i + 1))
            ELSE IF ofs + i + n + 1 >= Len(s) THEN Labels(0, name)
            ELSE NameFrom(s, ofs, i + n + 1, Append(name, Cut(s, ofs + i + 1, ofs + i + n + 1)), depth)
mg_dns_parse_name(s, ofs) == NameFrom(s, ofs, 0, <<>>, 0)

(* mg_dns_parse_rr *)
HEADER == 12
NoRr == [n |-> 0, alen |-> 0, atype |-> 0, aclass |-> 0]
U16(s, at) == (256 * At(s, at)) + At(s, at + 1)

RrData(s, ofs, nlen, at, alen) ==
    IF at + alen > Len(s) THEN NoRr
    ELSE [n |-> nlen + alen + 10, alen |-> alen, atype |-> U16(s, ofs + nlen), aclass |-> U16(s, ofs + nlen + 2)]
RrNamed(s, ofs, is_question, nlen) ==
    IF nlen = 0 \/ ofs + nlen + 4 > Len(s) THEN NoRr
    ELSE IF is_question THEN [NoRr EXCEPT !.n = nlen + 4]
    ELSE IF ofs + nlen + 10 > Len(s) THEN NoRr
    ELSE RrData(s, ofs, nlen, ofs + nlen + 10, U16(s, ofs + nlen + 8))
mg_dns_parse_rr(s, ofs, is_question) ==
    IF Len(s) < HEADER \/ Len(s) > 512 \/ ofs >= Len(s) THEN NoRr
    ELSE RrNamed(s, ofs, is_question, mg_dns_parse_name(s, ofs).n)

(* mg_dns_parse: up to the first answer that has an address. *)
Message(ok, txnid, name, addr) == [ok |-> ok, txnid |-> txnid, name |-> name, addr |-> addr]
Bad(txnid, name) == Message(FALSE, txnid, name, <<>>)

IsAddress(rr) == rr.aclass = 1 /\ ((rr.alen = 4 /\ rr.atype = 1) \/ (rr.alen = 16 /\ rr.atype = 28))

RECURSIVE AnswersFrom(_, _, _, _, _)
AnswerRr(s, ofs, left, txnid, rr, name) ==
    IF IsAddress(rr) THEN Message(TRUE, txnid, name, Cut(s, ofs + rr.n - rr.alen, ofs + rr.n))
    ELSE AnswersFrom(s, ofs + rr.n, left - 1, txnid, name)
AnswerAt(s, ofs, left, txnid, rr, before) ==
    IF rr.n = 0 THEN Bad(txnid, before) ELSE AnswerRr(s, ofs, left, txnid, rr, mg_dns_parse_name(s, ofs).name)
AnswersFrom(s, ofs, left, txnid, name) ==
    IF left = 0 THEN Message(TRUE, txnid, name, <<>>)
    ELSE AnswerAt(s, ofs, left, txnid, mg_dns_parse_rr(s, ofs, FALSE), name)

Question(s, txnid, rr) == IF rr.n = 0 THEN Bad(txnid, <<>>) ELSE AnswersFrom(s, HEADER + rr.n, U16(s, 6), txnid, <<>>)
mg_dns_parse(s) ==
    IF Len(s) < HEADER THEN Bad(0, <<>>)
    ELSE IF U16(s, 4) > 1 \/ U16(s, 6) > 10 THEN Bad(0, <<>>)
    ELSE IF U16(s, 4) = 0 THEN AnswersFrom(s, HEADER, U16(s, 6), U16(s, 0), <<>>)
    ELSE Question(s, U16(s, 0), mg_dns_parse_rr(s, HEADER, TRUE))

--------------------------------------------------------------------------
(* mg_http_next_multipart: the place behind the part, and the part.  The header that names *)
(* the part, and mg_http_get_header_var on it, is one character, the name.                 *)
NoPart == [next |-> 0, name |-> "", body |-> <<>>]

RECURSIVE LineStop(_, _)
LineStop(s, b) == IF b + 2 < Len(s) /\ At(s, b) # "cr" /\ At(s, b + 1) # "lf" THEN LineStop(s, b + 1) ELSE b

RECURSIVE BodyStop(_, _, _)
BodyStop(s, b, n) ==
    IF b + 2 + n + 2 < Len(s) /\ ~(At(s, b) = "cr" /\ At(s, b + 1) = "lf" /\ Cut(s, b + 2, b + 2 + n) = Cut(s, 0, n))
    THEN BodyStop(s, b + 1, n) ELSE b

PartBody(s, name, b1, b2) ==
    IF b2 + 2 >= Len(s) THEN NoPart ELSE [next |-> b2 + 2, name |-> name, body |-> Cut(s, b1, b2)]

RECURSIVE PartHeaders(_, _, _, _)
HeaderEnds(s, h1, h2, n, name) ==
    IF h2 = h1 THEN PartBody(s, name, h2 + 2, BodyStop(s, h2 + 2, n))
    ELSE IF h2 + 2 >= Len(s) THEN NoPart
    ELSE PartHeaders(s, h2 + 2, n, IF At(s, h1) \in PartNames THEN At(s, h1) ELSE name)
PartHeaders(s, h1, n, name) == HeaderEnds(s, h1, LineStop(s, h1), n, name)

Boundary(s, ofs, b) == IF b <= ofs \/ b + 2 >= Len(s) THEN NoPart ELSE PartHeaders(s, b + 2, b - ofs, "")
mg_http_next_multipart(s, ofs) == Boundary(s, ofs, LineStop(s, ofs))

RECURSIVE PartsFrom(_, _)
PartThen(s, p) == IF p.next = 0 THEN <<>> ELSE <<[name |-> p.name, body |-> p.body]>> \o PartsFrom(s, p.next)
PartsFrom(s, ofs) == PartThen(s, mg_http_next_multipart(s, ofs))

--------------------------------------------------------------------------
(* What is asked: texts that are made of their parts. *)
Ask(op, asked, got) == call' = [op |-> op, asked |-> asked, got |-> got] /\ UNCHANGED <<io, content, timers>>

Before(mark, s) == IF s = <<>> THEN <<>> ELSE <<mark>> \o s
UserText(p) == IF p.user = <<>> THEN <<>> ELSE p.user \o Before(":", p.pass) \o <<"@">>
UrlText(p) == <<p.scheme, ":", "/", "/">> \o UserText(p) \o p.host \o Before(":", p.port) \o p.uri
Url(p) == Ask("url", p, UrlIs(UrlText(p), urlparse(UrlText(p))))

RECURSIVE Joined(_, _)
Joined(parts, mark) ==
    IF Len(parts) < 2 THEN FlattenSeq(parts) ELSE Head(parts) \o <<mark>> \o Joined(Tail(parts), mark)

V4(parts) == Ask("v4", parts, mg_aton(Joined(parts, ".")))
V4in6(parts) == Ask("v4in6", parts, mg_aton(<<":", ":", "f", "f", "f", "f", ":">> \o Joined(parts, ".")))

V6Text(p) == Joined(p.before, ":") \o (IF p.short THEN <<":", ":">> ELSE <<>>) \o Joined(p.behind, ":")
V6(p, bare) == Ask("v6", p, mg_aton(IF bare THEN V6Text(p) ELSE <<"[">> \o V6Text(p) \o <<"]">>))

Two(n) == <<n \div 256, n % 256>>
RECURSIVE LabelsOf(_)
LabelsOf(labels) == IF labels = <<>> THEN <<>> ELSE <<Len(Head(labels))>> \o Head(labels) \o LabelsOf(Tail(labels))
NameText(rr) == LabelsOf(rr.labels) \o (IF rr.pointed THEN <<192, HEADER>> ELSE <<0>>)
RrText(rr) == NameText(rr) \o Two(rr.atype) \o Two(rr.aclass) \o <<0, 0, 0, 9>> \o Two(Len(rr.data)) \o rr.data
RECURSIVE RrsText(_)
RrsText(rrs) == IF rrs = <<>> THEN <<>> ELSE RrText(Head(rrs)) \o RrsText(Tail(rrs))
AnswerText(d) == Two(d.txnid) \o <<129, 128, 0, 1>> \o Two(Len(d.rrs)) \o <<0, 0, 0, 0>>
                 \o LabelsOf(d.name) \o <<0, 0, 1, 0, 1>> \o RrsText(d.rrs)
Dns(d, n) == Ask("dns", [answer |-> d, cut |-> n], mg_dns_parse(SubSeq(AnswerText(d), 1, n)))

Line == <<"cr", "lf">>
RECURSIVE FormText(_)
FormText(parts) ==
    IF parts = <<>> THEN <<"-", "x", "-", "-">> \o Line
    ELSE <<"-", "x">> \o Line \o <<Head(parts).name>> \o Line \o <<"t", "y">> \o Line \o Line
         \o Head(parts).body \o Line \o FormText(Tail(parts))
Form(parts) == Ask("form", parts, PartsFrom(FormText(parts), 0))

Reads == /\ call.op = "none"
         /\ \/ \E p \in Urls : Url(p)
            \/ \E parts \in V4Texts : V4(parts) \/ V4in6(parts)
            \/ \E p \in V6Texts, bare \in BOOLEAN : V6(p, bare)
            \/ \E d \in Answers : \E n \in 0 .. Len(AnswerText(d)) : Dns(d, n)
            \/ \E parts \in Forms : Form(parts)

Init == /\ io = [buf |-> <<>>, len |-> 0, size |-> 0] /\ content = <<>> /\ timers = <<>>
        /\ call = [op |-> "none"]

Next == Buffers \/ Timers \/ Reads

Spec == Init /\ [][Next]_vars

--------------------------------------------------------------------------
(* mg_iobuf_*: whatever is added, taken out and resized, and whichever of the allocations  *)
(* fail, a buffer holds what was added and not taken out, in its order, and behind it no   *)
(* octet of what it held.                                                                  *)
BufferKept == /\ SubSeq(io.buf, 1, io.len) = content
              /\ io.len <= io.size /\ Len(io.buf) = io.size
              /\ \A k \in io.len + 1 .. io.size : io.buf[k] = 0

(* mg_timer_poll: a timer is never called more often than once in a period, wherever the   *)
(* polls fall, and exactly that often when they are no more than a period apart.           *)
TimersKeepTime ==
    \A i \in 1 .. Len(timers) :
        LET t == timers[i]
        IN t.expire > 0 => /\ t.fired * t.period <= t.prev - t.armed
                           /\ t.smooth => t.fired = (t.prev - t.armed) \div t.period

Number(digits) == Atoi(digits, 0)
UrlMeant(p) == [host |-> p.host, user |-> p.user, pass |-> p.pass,
                uri |-> IF p.uri = <<>> THEN <<"/">> ELSE p.uri,
                port |-> IF p.port = <<>> THEN DefaultPort(<<p.scheme, ":">>) ELSE Number(p.port),
                ssl |-> p.scheme \in {"https", "wss", "mqtts"}]

V4Meant(parts) ==
    IF /\ Len(parts) = 4
       /\ \A k \in 1 .. 4 : parts[k] # <<>> /\ Range(parts[k]) \subseteq Range(DigitChars) /\ Number(parts[k]) < 256
    THEN [k \in 1 .. 4 |-> Number(parts[k])] ELSE NoAddr

(* "::" for no group at all is taken or not by where it is. *)
Group(digits) == HexOf(digits, 0)
V6IsMeant(p, got) ==
    LET m == Len(p.before)
        n == Len(p.behind)
    IN IF \E k \in 1 .. m : Len(p.before[k]) > 4 THEN got = NoAddr
       ELSE IF ~p.short THEN got = IF m = 8 THEN [k \in 1 .. 8 |-> Group(p.before[k])] ELSE NoAddr
       ELSE IF m + n > 8 THEN got = NoAddr
       ELSE m + n < 8 => got = [k \in 1 .. 8 |-> IF k <= m THEN Group(p.before[k])
                                                  ELSE IF k <= 8 - n THEN 0 ELSE Group(p.behind[k - (8 - n)])]

Resolving(rrs) ==
    {k \in 1 .. Len(rrs) : rrs[k].aclass = 1 /\ <<rrs[k].atype, Len(rrs[k].data)>> \in {<<1, 4>>, <<28, 16>>}}
FullName(d, rr) == rr.labels \o (IF rr.pointed THEN d.name ELSE <<>>)
DnsIsMeant(d, cut, got) ==
    LET first == CHOOSE k \in 1 .. Len(d.rrs) + 1 :
                     /\ k \in Resolving(d.rrs) \/ k = Len(d.rrs) + 1
                     /\ \A h \in 1 .. k - 1 : h \notin Resolving(d.rrs)
        read == IF first > Len(d.rrs) THEN Len(d.rrs) ELSE first
        needs == Len(AnswerText(d)) - Len(RrsText(SubSeq(d.rrs, read + 1, Len(d.rrs))))
    IN /\ got.ok <=> cut >= needs
       /\ got.ok => /\ got.txnid = d.txnid
                    /\ got.addr = IF first = read THEN d.rrs[read].data ELSE <<>>
                    /\ read > 0 => got.name = FullName(d, d.rrs[read])
       /\ ~got.ok => got.addr = <<>>

(* mg_url_*, mg_aton, mg_dns_parse and mg_http_next_multipart give the parts that a text   *)
(* was made of, and of an answer that was cut short nothing.                               *)
NamesAreMeant ==
    /\ call.op = "url" => call.got = UrlMeant(call.asked)
    /\ call.op = "v4" => call.got = V4Meant(call.asked)
    /\ call.op = "v4in6" => call.got = Mapped(V4Meant(call.asked))
    /\ call.op = "v6" => V6IsMeant(call.asked, call.got)
    /\ call.op = "dns" => DnsIsMeant(call.asked.answer, call.asked.cut, call.got)
    /\ call.op = "form" => call.got = call.asked
=============================================================================
