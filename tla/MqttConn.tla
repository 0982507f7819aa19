------------------------------ MODULE MqttConn ------------------------------
(***************************************************************************)
(* MQTT packets of mongoose.c: how mg_mqtt_login, mg_mqtt_pub, mg_mqtt_sub *)
(* and their like make them, and how mqtt_cb takes them out of c->recv,    *)
(* which arrives cut anywhere.                                             *)
(*                                                                         *)
(* A byte is a number.  More is 0x80, the bit of a length that goes on,    *)
(* and Byte is 256, of a number of two bytes.                              *)
(***************************************************************************)
EXTENDS Integers, Sequences, SequencesExt, FiniteSets

CONSTANTS
    More, Byte,
    Strings,        \* topics, messages and names: sequences of bytes
    MaxPackets

VARIABLES
    conn,       \* recv, what the handler was told, is_closing
    mqtt_id,    \* of the peer's manager
    wire,       \* sent and not received
    sent        \* the packets as they were meant

vars == <<conn, mqtt_id, wire, sent>>

CONNECT == 1   CONNACK == 2   PUBLISH == 3   PUBACK == 4   SUBSCRIBE == 8   PINGREQ == 12

--------------------------------------------------------------------------
(* mg_mqtt_send_header: the length in at most four bytes, the least first. *)
Digits(n) == {k \in 1 .. 4 : k = 1 \/ n \div More ^ (k - 1) > 0}

Length(n) == [k \in 1 .. Cardinality(Digits(n)) |->
                 ((n \div More ^ (k - 1)) % More) + (IF n \div More ^ k > 0 THEN More ELSE 0)]

mg_mqtt_send_header(cmd, flags, len) == <<(16 * cmd) + flags>> \o Length(len)

U16(n) == <<n \div Byte, n % Byte>>
Prefixed(s) == U16(Len(s)) \o s

(* ++mqtt_id, which is never 0. *)
NextId == IF mqtt_id + 1 = Byte ^ 2 THEN 1 ELSE mqtt_id + 1

(* The total length is counted before the parts are sent. *)
mg_mqtt_pub(topic, data, qos, retain) ==
    mg_mqtt_send_header(PUBLISH, (2 * qos) + (IF retain THEN 1 ELSE 0),
                        2 + Len(topic) + Len(data) + (IF qos > 0 THEN 2 ELSE 0))
    \o Prefixed(topic) \o (IF qos > 0 THEN U16(NextId) ELSE <<>>) \o data

mg_mqtt_sub(topic, qos) ==
    mg_mqtt_send_header(SUBSCRIBE, 2, 2 + Len(topic) + 2 + 1)
    \o U16(NextId) \o Prefixed(topic) \o <<qos>>

(* The name of the protocol and its level, the flags and the time to live are ten bytes. *)
Will(o) == o.will_topic # <<>> /\ o.will_message # <<>>

LoginLen(o) == 10 + 2 + (IF o.user # <<>> THEN 2 + Len(o.user) ELSE 0)
               + (IF o.pass # <<>> THEN 2 + Len(o.pass) ELSE 0)
               + (IF Will(o) THEN 4 + Len(o.will_topic) + Len(o.will_message) ELSE 0) + Len(o.id)

mg_mqtt_login(o) ==
    mg_mqtt_send_header(CONNECT, 0, LoginLen(o)) \o [k \in 1 .. 10 |-> 0] \o Prefixed(o.id)
    \o (IF Will(o) THEN Prefixed(o.will_topic) \o Prefixed(o.will_message) ELSE <<>>)
    \o (IF o.user # <<>> THEN Prefixed(o.user) ELSE <<>>)
    \o (IF o.pass # <<>> THEN Prefixed(o.pass) ELSE <<>>)

--------------------------------------------------------------------------
(* mg_mqtt_parse: the length is read as far as it goes, at most four bytes.  The result  *)
(* has the length of the packet, 0 when it is not there as a whole and -1 when it is     *)
(* malformed.                                                                             *)
LengthBytes(buf) ==
    {k \in 1 .. Len(buf) - 1 : k <= 4 /\ \A j \in 1 .. k - 1 : buf[1 + j] >= More}

Remaining(buf, k) == FoldLeft(LAMBDA n, j : n + ((buf[1 + j] % More) * More ^ (j - 1)), 0,
                              [j \in 1 .. k |-> j])

NoPacket(len) == [len |-> len, cmd |-> 0, qos |-> 0, id |-> 0, ack |-> 0, topic |-> <<>>, data |-> <<>>]

ReadU16(buf, p) == (Byte * buf[p]) + buf[p + 1]

(* p is the place of the first byte behind the length, end that of the last. *)
Published(m, buf, p, end) ==
    LET len == ReadU16(buf, p)
        q == p + 2 + len
        data == IF m.qos > 0 THEN q + 2 ELSE q
    IN IF p + 1 > end \/ data > end + 1 THEN NoPacket(-1)
       ELSE [m EXCEPT !.topic = SubSeq(buf, p + 2, q - 1),
                      !.id = IF m.qos > 0 THEN ReadU16(buf, q) ELSE 0,
                      !.data = SubSeq(buf, data, end)]

Fields(m, buf, p, end) ==
    CASE m.cmd = CONNACK -> IF end - p < 1 THEN NoPacket(-1) ELSE [m EXCEPT !.ack = buf[p + 1]]
      [] m.cmd \in {PUBACK, SUBSCRIBE} ->
             IF p + 1 > end THEN NoPacket(-1) ELSE [m EXCEPT !.id = ReadU16(buf, p)]
      [] m.cmd = PUBLISH -> Published(m, buf, p, end)
      [] OTHER -> m

Framed(buf, k) ==
    LET end == 1 + k + Remaining(buf, k)
    IN CASE k = 4 /\ buf[5] >= More -> NoPacket(-1)
         [] ~(k = 4 /\ buf[5] >= More) /\ (buf[1 + k] >= More \/ end > Len(buf)) -> NoPacket(0)
         [] OTHER -> Fields([NoPacket(end) EXCEPT !.cmd = buf[1] \div 16, !.qos = (buf[1] \div 2) % 4],
                            buf, 2 + k, end)

mg_mqtt_parse(buf) == IF Len(buf) < 2 THEN NoPacket(0) ELSE Framed(buf, Cardinality(LengthBytes(buf)))

(* mqtt_cb *)
Tell(c, m) == [c EXCEPT !.told = Append(@, [m EXCEPT !.len = 0]),
                        !.is_closing = @ \/ (m.cmd = CONNACK /\ m.ack # 0)]

RECURSIVE mqtt_cb(_)
Packet(c, m) ==
    CASE m.len = 0 -> c
      [] m.len < 0 -> [c EXCEPT !.is_closing = TRUE]
      [] OTHER -> mqtt_cb([Tell(c, m) EXCEPT !.recv = SubSeq(@, m.len + 1, Len(@))])
mqtt_cb(c) == Packet(c, mg_mqtt_parse(c.recv))

--------------------------------------------------------------------------
Init == /\ conn = [recv |-> <<>>, told |-> <<>>, is_closing |-> FALSE]
        /\ mqtt_id \in {0, Byte ^ 2 - 2}
        /\ wire = <<>> /\ sent = <<>>

Meant(cmd, qos, id, topic, data) ==
    [NoPacket(0) EXCEPT !.cmd = cmd, !.qos = qos, !.id = id, !.topic = topic, !.data = data]

Sends(bytes, packet) == /\ Len(sent) < MaxPackets
                        /\ wire' = wire \o bytes
                        /\ sent' = Append(sent, packet)
                        /\ UNCHANGED conn

Login(o) == Sends(mg_mqtt_login(o), Meant(CONNECT, 0, 0, <<>>, <<>>)) /\ UNCHANGED mqtt_id

Publish(topic, data, qos, retain) ==
    /\ Sends(mg_mqtt_pub(topic, data, qos, retain),
             Meant(PUBLISH, qos, IF qos > 0 THEN NextId ELSE 0, topic, data))
    /\ mqtt_id' = IF qos > 0 THEN NextId ELSE mqtt_id

Subscribe(topic, qos) ==
    Sends(mg_mqtt_sub(topic, qos), Meant(SUBSCRIBE, 1, NextId, <<>>, <<>>)) /\ mqtt_id' = NextId

Ping == /\ Sends(mg_mqtt_send_header(PINGREQ, 0, 0), Meant(PINGREQ, 0, 0, <<>>, <<>>))
        /\ UNCHANGED mqtt_id

(* What a broker answers. *)
Acknowledge(ack) == /\ Sends(<<16 * CONNACK, 2, 0, ack>>, [NoPacket(0) EXCEPT !.cmd = CONNACK, !.ack = ack])
                    /\ UNCHANGED mqtt_id

Read(n) == /\ n <= Len(wire) /\ ~conn.is_closing
           /\ conn' = mqtt_cb([conn EXCEPT !.recv = @ \o SubSeq(wire, 1, n)])
           /\ wire' = SubSeq(wire, n + 1, Len(wire))
           /\ UNCHANGED <<mqtt_id, sent>>

Logins == {[id |-> <<1>>, user |-> u, pass |-> p, will_topic |-> t, will_message |-> <<1>>] :
              u, p, t \in {<<>>, <<1>>}}

Next == \/ \E o \in Logins : Login(o)
        \/ \E topic, data \in Strings, qos \in 0 .. 2, retain \in BOOLEAN : Publish(topic, data, qos, retain)
        \/ \E topic \in Strings, qos \in 0 .. 2 : Subscribe(topic, qos)
        \/ Ping
        \/ \E ack \in {0, 1} : Acknowledge(ack)
        \/ \E n \in 1 .. Len(wire) : Read(n)

Spec == Init /\ [][Next]_vars

--------------------------------------------------------------------------
(* However the bytes are cut, the handler is told of the packets that were sent, in       *)
(* order, each with its topic, its message and its number, and of all of them once the    *)
(* bytes are there, unless the broker refuses; none that wants an answer has number 0.    *)
PacketsWhole == /\ IsPrefix(conn.told, sent)
                /\ wire = <<>> /\ ~conn.is_closing => conn.told = sent
                /\ \A j \in 1 .. Len(conn.told) :
                       conn.told[j].qos > 0 => conn.told[j].id # 0
                /\ conn.is_closing => \E j \in 1 .. Len(conn.told) : conn.told[j].ack # 0
=============================================================================
