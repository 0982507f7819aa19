------------------------------ MODULE WsFrames ------------------------------
(***************************************************************************)
(* The WebSocket frames of mongoose.c: how mg_ws_cb takes them out of      *)
(* c->recv, which arrives cut anywhere, puts fragments together in place,  *)
(* and answers; and how mg_ws_send and mg_ws_wrap make them in c->send.    *)
(*                                                                         *)
(* A byte is a number; the bytes of a payload and of a mask are 0 or 1.    *)
(* The widths are parameters: the code has Len7 = 126, LenDigits = 2,      *)
(* LongDigits = 8, Base = 256 and MaskLen = 4.                             *)
(***************************************************************************)
EXTENDS Integers, Sequences, SequencesExt

CONSTANTS
    Len7,                   \* the first length that has more than seven bits
    LenDigits, LongDigits, Base,
    MaskLen, Masks,         \* the masks that are drawn: sequences of MaskLen bits
    MaxData,                \* the limit of 1 GB
    Payloads,               \* what is sent: sequences of bits
    MaxFrames, MaxOwn       \* the frames of the peer, and of the handler

VARIABLES
    is_client,  \* the mongoose end is the client
    conn,       \* its connection, with what the handler was told
    wire,       \* what the peer has sent and is not received
    peer,       \* what the peer has sent, as it meant it
    owed        \* the frames that c->send must hold

vars == <<is_client, conn, wire, peer, owed>>

CONTINUE == 0   TEXT == 1   BINARY == 2   CLOSE == 8   PING == 9   PONG == 10
FIN == 128
Opcode(flags) == flags % 16
Final(flags) == flags >= FIN

--------------------------------------------------------------------------
(* mkhdr; the flags are those of the code for a final frame. *)
Digits(n, width) == [j \in 1 .. width |-> (n \div Base ^ (width - j)) % Base]
Number(digits) == FoldLeft(LAMBDA n, d : n * Base + d, 0, digits)

LengthField(len, masked) ==
    LET bit == IF masked THEN 128 ELSE 0
    IN CASE len < Len7 -> <<bit + len>>
         [] len >= Len7 /\ len < Base ^ LenDigits -> <<bit + Len7>> \o Digits(len, LenDigits)
         [] OTHER -> <<bit + Len7 + 1>> \o Digits(len, LongDigits)

(* No mask is the empty one. *)
mkhdr(len, flags, mask) == <<flags>> \o LengthField(len, mask # <<>>) \o mask

(* The last len bytes, with the bytes before them as the mask: mg_ws_mask. *)
Xor(a, b) == (a + b) % 2

mg_ws_mask(buf, len, masked) ==
    IF ~masked THEN buf
    ELSE [j \in 1 .. Len(buf) |->
             LET i == j - 1 - (Len(buf) - len)
             IN IF i < 0 THEN buf[j] ELSE Xor(buf[j], buf[Len(buf) - len - MaskLen + 1 + (i % MaskLen)])]

mg_ws_send(buf, data, op, mask) ==
    mg_ws_mask(buf \o mkhdr(Len(data), FIN + op, mask) \o data, Len(data), mask # <<>>)

(* The data are in the buffer already, and are moved behind the header. *)
mg_ws_wrap(buf, len, op, mask) ==
    LET at == Len(buf) - len
    IN mg_ws_mask(SubSeq(buf, 1, at) \o mkhdr(len, FIN + op, mask) \o SubSeq(buf, at + 1, Len(buf)),
                  len, mask # <<>>)

--------------------------------------------------------------------------
(* ws_process: nothing when the frame is not there as a whole. *)
None == [len |-> 0, header |-> 0, flags |-> 0, data |-> <<>>]

HeaderLen(buf, n, mask) ==
    CASE n < Len7 /\ Len(buf) >= mask -> 2 + mask
      [] n = Len7 /\ Len(buf) >= 2 + LenDigits + mask -> 2 + LenDigits + mask
      [] ~(n < Len7 /\ Len(buf) >= mask) /\ ~(n = Len7 /\ Len(buf) >= 2 + LenDigits + mask)
            /\ Len(buf) >= 2 + LongDigits + mask -> 2 + LongDigits + mask
      [] OTHER -> 0

DataLen(buf, n, header, mask) ==
    IF header = 0 THEN 0 ELSE IF n < Len7 THEN n ELSE Number(SubSeq(buf, 3, header - mask))

Framed(buf, header, len, mask) ==
    IF len > MaxData \/ header + len > Len(buf) \/ header = 0 THEN None
    ELSE [len |-> len, header |-> header, flags |-> buf[1],
          data |-> [i \in 1 .. len |->
                       IF mask = 0 THEN buf[header + i]
                       ELSE Xor(buf[header + i], buf[header - MaskLen + 1 + ((i - 1) % MaskLen)])]]

Headed(buf, n, mask) ==
    Framed(buf, HeaderLen(buf, n, mask), DataLen(buf, n, HeaderLen(buf, n, mask), mask), mask)

ws_process(buf) == IF Len(buf) < 2 THEN None
                   ELSE Headed(buf, buf[2] % 128, IF buf[2] >= 128 THEN MaskLen ELSE 0)

--------------------------------------------------------------------------
(* mg_ws_cb *)
mg_iobuf_del(buf, ofs, len) == SubSeq(buf, 1, ofs) \o SubSeq(buf, ofs + len + 1, Len(buf))

Tell(c, ev, flags, data) == [c EXCEPT !.told = Append(@, [ev |-> ev, flags |-> flags, data |-> data])]

Send(c, data, op, mask) == [c EXCEPT !.send = mg_ws_send(@, data, op, mask)]

(* What the opcode asks for. *)
Answered(c, m, mask) ==
    CASE Opcode(m.flags) \in {CONTINUE, PONG} -> Tell(c, "ctl", m.flags, m.data)
      [] Opcode(m.flags) = PING ->
             Tell(Send(c, m.data, PONG, mask), "ctl", m.flags, m.data)
      [] Opcode(m.flags) \in {TEXT, BINARY} ->
             IF Final(m.flags) THEN Tell(c, "msg", m.flags, m.data) ELSE c
      [] Opcode(m.flags) = CLOSE ->
             [Send(Tell(c, "ctl", m.flags, m.data), <<>>, CLOSE, mask) EXCEPT !.is_draining = TRUE]
      [] OTHER -> [c EXCEPT !.is_closing = TRUE]

(* The data of a fragment stay where they are, unmasked and behind those before them; of *)
(* the first one its first byte stays too, for the flags.                                *)
Unmasked(buf, ofs, m) ==
    [j \in 1 .. Len(buf) |-> IF j > ofs + m.header /\ j <= ofs + m.len + m.header
                             THEN m.data[j - ofs - m.header] ELSE buf[j]]

Stripped(c, m, first) ==
    [c EXCEPT !.recv = mg_iobuf_del(Unmasked(@, c.ofs, m), c.ofs + first, m.header - first),
              !.ofs = @ + first + m.len]

(* The last fragment: the message is told of, and removed. *)
Joined(c) ==
    [Tell(c, "msg", c.recv[1], SubSeq(c.recv, 2, c.ofs))
        EXCEPT !.recv = mg_iobuf_del(@, 0, c.ofs), !.ofs = 0]

(* Of the mutants: the first bytes of the buffer are taken out. *)
RemovedInFront(c, m) ==
    CASE Final(m.flags) /\ Opcode(m.flags) # CONTINUE -> [c EXCEPT !.recv = mg_iobuf_del(@, 0, m.header + m.len)]
      [] Final(m.flags) /\ Opcode(m.flags) = CONTINUE -> Joined(Stripped(c, m, 0))
      [] OTHER -> Stripped(c, m, IF Opcode(m.flags) = CONTINUE THEN 0 ELSE 1)

Removed(c, m) ==
    CASE Final(m.flags) /\ Opcode(m.flags) # CONTINUE ->
             [c EXCEPT !.recv = mg_iobuf_del(@, c.ofs, m.header + m.len)]
      [] Final(m.flags) /\ Opcode(m.flags) = CONTINUE -> Joined(Stripped(c, m, 0))
      [] OTHER -> Stripped(c, m, IF Opcode(m.flags) = CONTINUE THEN 0 ELSE 1)

RECURSIVE Frames(_, _)
Frame(c, m, mask) == IF m = None THEN c ELSE Frames(Removed(Answered(c, m, mask), m), mask)
Frames(c, mask) == Frame(c, ws_process(SubSeq(c.recv, c.ofs + 1, Len(c.recv))), mask)

(* The client's first: the end of the response is a byte of its own, and 101 or not. *)
Switched == 300
Refused == 301
Blank == 302    \* a byte of the response before its end

ResponseLen(buf) == IF \E j \in 1 .. Len(buf) : buf[j] \in {Switched, Refused}
                    THEN CHOOSE j \in 1 .. Len(buf) : buf[j] \in {Switched, Refused} ELSE 0

Opened(c, n) ==
    [IF c.recv[n] = Switched THEN Tell([c EXCEPT !.is_websocket = TRUE], "open", 0, <<>>)
     ELSE [c EXCEPT !.is_closing = TRUE] EXCEPT !.recv = mg_iobuf_del(@, 0, n)]

mg_ws_cb(c, mask) ==
    CASE c.is_websocket \/ ~is_client -> Frames(c, mask)
      [] ~c.is_websocket /\ is_client /\ ResponseLen(c.recv) > 0 ->
             Frames(Opened(c, ResponseLen(c.recv)), mask)
      [] OTHER -> c

--------------------------------------------------------------------------
(* mg_ws_upgrade has opened the server's end; mg_ws_connect waits for the response, with *)
(* which frames may come.                                                                *)
Connection == [recv |-> <<>>, ofs |-> 0, send |-> <<>>, told |-> <<>>, is_websocket |-> ~is_client,
               is_draining |-> FALSE, is_closing |-> FALSE]

Init == /\ is_client \in BOOLEAN
        /\ conn = Connection
        /\ \/ is_client /\ wire \in {<<Blank, Switched>>, <<Refused>>}
           \/ ~is_client /\ wire = <<>>
        /\ peer = [frames |-> 0, msgs |-> <<>>, part |-> <<>>, op |-> CONTINUE,
                   closed |-> wire = <<Refused>>]
        /\ owed = <<>>

OwnMasks == IF is_client THEN Masks ELSE {<<>>}
PeerMasks == IF is_client THEN {<<>>} ELSE Masks

(* A frame of the peer: a control frame may come between fragments, and is final. *)
Data(op, fin, data) ==
    /\ IF peer.op = CONTINUE THEN op \in {TEXT, BINARY} ELSE op = CONTINUE
    /\ LET whole == peer.part \o data
           start == IF op = CONTINUE THEN peer.op ELSE op
       IN peer' = IF fin THEN [peer EXCEPT !.frames = @ + 1, !.part = <<>>, !.op = CONTINUE,
                                           !.msgs = Append(@, [op |-> start, data |-> whole])]
                  ELSE [peer EXCEPT !.frames = @ + 1, !.part = whole, !.op = start]
    /\ UNCHANGED owed

Control(op, data) ==
    /\ Len(data) < Len7
    /\ peer' = [peer EXCEPT !.frames = @ + 1, !.closed = (op = CLOSE)]
    /\ owed' = CASE op = PING -> Append(owed, [flags |-> FIN + PONG, data |-> data])
                 [] op = CLOSE -> Append(owed, [flags |-> FIN + CLOSE, data |-> <<>>])
                 [] OTHER -> owed

PeerSends(op, fin, data, mask) ==
    /\ peer.frames < MaxFrames /\ ~peer.closed
    /\ wire' = wire \o mg_ws_mask(mkhdr(Len(data), (IF fin THEN FIN ELSE 0) + op, mask) \o data,
                                  Len(data), mask # <<>>)
    /\ \/ op \in {CONTINUE, TEXT, BINARY} /\ Data(op, fin, data)
       \/ op \in {CLOSE, PING, PONG} /\ fin /\ Control(op, data)
    /\ UNCHANGED <<is_client, conn>>

(* What is told of stays for the properties only. *)
Read(n, mask) ==
    /\ n <= Len(wire) /\ ~conn.is_closing
    /\ conn' = mg_ws_cb([conn EXCEPT !.recv = @ \o SubSeq(wire, 1, n)], mask)
    /\ wire' = SubSeq(wire, n + 1, Len(wire))
    /\ UNCHANGED <<is_client, peer, owed>>

(* The handler sends a message of its own, or prints it to the buffer and wraps it, when *)
(* nothing that it owes to frames on the wire is before it.                              *)
Own(data, op, wraps, mask) ==
    /\ conn.is_websocket /\ Len(SelectSeq(conn.told, LAMBDA t : t.ev = "own")) < MaxOwn
    /\ wire = <<>>
    /\ conn' = Tell([conn EXCEPT !.send = IF wraps THEN mg_ws_wrap(@ \o data, Len(data), op, mask)
                                          ELSE mg_ws_send(@, data, op, mask)], "own", 0, <<>>)
    /\ owed' = Append(owed, [flags |-> FIN + op, data |-> data])
    /\ UNCHANGED <<is_client, wire, peer>>

Next == \/ \E op \in {CONTINUE, TEXT, CLOSE, PING, PONG}, fin \in BOOLEAN, data \in Payloads,
              mask \in PeerMasks : PeerSends(op, fin, data, mask)
        \/ \E n \in 1 .. Len(wire), mask \in OwnMasks : Read(n, mask)
        \/ \E data \in Payloads, wraps \in BOOLEAN, mask \in OwnMasks : Own(data, TEXT, wraps, mask)

Spec == Init /\ [][Next]_vars

--------------------------------------------------------------------------
(* However the bytes are cut, the handler is told of the messages that the peer has sent, *)
(* in order, whole and unmasked, those in fragments put together whatever control frames  *)
(* came between: no other, and all of them once the bytes are there.                      *)
Told == LET msgs == SelectSeq(conn.told, LAMBDA t : t.ev = "msg")
        IN [j \in 1 .. Len(msgs) |-> [op |-> Opcode(msgs[j].flags), data |-> msgs[j].data]]

MessagesWhole == /\ IsPrefix(Told, peer.msgs)
                 /\ wire = <<>> => Told = peer.msgs
                 /\ Told # <<>> => conn.is_websocket

(* What is in c->send is read by a peer as the pongs, the close and the messages that are *)
(* owed, in order, and nothing is left over.                                              *)
RECURSIVE Decoded(_)
DecodedFrom(buf, m) == IF m = None THEN <<>>
                       ELSE <<[flags |-> m.flags, data |-> m.data]>>
                            \o Decoded(SubSeq(buf, m.header + m.len + 1, Len(buf)))
Decoded(buf) == DecodedFrom(buf, ws_process(buf))

RECURSIVE Rest(_)
RestAfter(buf, m) == IF m = None THEN buf ELSE Rest(SubSeq(buf, m.header + m.len + 1, Len(buf)))
Rest(buf) == RestAfter(buf, ws_process(buf))

AnswersWhole == /\ IsPrefix(Decoded(conn.send), owed) /\ Rest(conn.send) = <<>>
                /\ wire = <<>> => Decoded(conn.send) = owed
=============================================================================
