----------------------------- MODULE MgrProofs -----------------------------
(***************************************************************************)
(* What is proved of the event manager of mongoose.c, for any number of    *)
(* connections, bytes and sizes of buffers.                                *)
(***************************************************************************)
EXTENDS Mgr, Integers, FiniteSets, FiniteSetTheorems, SequenceTheorems, TLAPS

(***************************************************************************)
(* One connection.  An open one has been told of, but not that it is       *)
(* closed; what a call does to it leaves it open.                          *)
(***************************************************************************)
Open(c) == c \in Conn /\ ToldInv(c) /\ c.told # <<>> /\ ~Within(c.told, "CLOSE")

Follows(c, d) == Open(d) /\ d.kind = c.kind /\ (c.closing => d.closing)

LEMMA WithinAppend ==
    ASSUME NEW S, NEW told \in Seq(S), NEW ev \in S, NEW e
    PROVE  /\ Append(told, ev) \in Seq(S) /\ Append(told, ev) # <<>>
           /\ Append(told, ev)[Len(Append(told, ev))] = ev
           /\ told # <<>> => Append(told, ev)[1] = told[1]
           /\ told = <<>> => Append(told, ev)[1] = ev
           /\ Within(Append(told, ev), e) <=> Within(told, e) \/ e = ev
<1>1. /\ Append(told, ev) \in Seq(S) /\ Len(Append(told, ev)) = Len(told) + 1
      /\ Len(told) \in Nat
      /\ \A k \in 1 .. Len(told) : Append(told, ev)[k] = told[k]
      /\ Append(told, ev)[Len(told) + 1] = ev
  OBVIOUS
<1> DEFINE t == Append(told, ev)
<1> HIDE DEF t
<1>2. t # <<>> /\ t[Len(t)] = ev
  BY <1>1 DEF t
<1>3. told # <<>> => 1 \in 1 .. Len(told)
  BY <1>1
<1>4. told = <<>> => Len(told) = 0
  OBVIOUS
<1>5. Within(t, e) <=> Within(told, e) \/ e = ev
  <2>1. ASSUME Within(t, e) PROVE Within(told, e) \/ e = ev
    <3>1. PICK k \in 1 .. Len(told) + 1 : t[k] = e
      BY <2>1, <1>1 DEF Within, t
    <3>2. CASE k = Len(told) + 1
      BY <3>1, <3>2, <1>1 DEF t
    <3>3. CASE k \in 1 .. Len(told)
      BY <3>1, <3>3, <1>1 DEF t, Within
    <3> QED BY <3>2, <3>3, <1>1
  <2>2. ASSUME Within(told, e) PROVE Within(t, e)
    <3>1. PICK k \in 1 .. Len(told) : told[k] = e
      BY <2>2 DEF Within
    <3>2. t[k] = e /\ k \in 1 .. Len(t)
      BY <3>1, <1>1 DEF t
    <3> QED BY <3>2 DEF Within
  <2>3. ASSUME e = ev PROVE Within(t, e)
    <3>1. Len(t) \in 1 .. Len(t) /\ t[Len(t)] = e
      BY <2>3, <1>1 DEF t
    <3> QED BY <3>1 DEF Within
  <2> QED BY <2>1, <2>2, <2>3
<1> QED BY <1>1, <1>2, <1>3, <1>4, <1>5 DEF t

LEMMA OnceAppend ==
    ASSUME NEW S, NEW told \in Seq(S), NEW ev \in S, Once(told), ev = "ERROR" \/ ~Within(told, ev)
    PROVE  Once(Append(told, ev))
<1>1. /\ Len(Append(told, ev)) = Len(told) + 1 /\ Len(told) \in Nat
      /\ \A k \in 1 .. Len(told) : Append(told, ev)[k] = told[k]
      /\ Append(told, ev)[Len(told) + 1] = ev
  OBVIOUS
<1> DEFINE t == Append(told, ev)
<1> HIDE DEF t
<1> SUFFICES ASSUME NEW j \in 1 .. Len(told) + 1, NEW k \in 1 .. Len(told) + 1,
                    t[j] = t[k], t[j] # "ERROR"
             PROVE  j = k
  BY <1>1 DEF Once, t
<1>2. CASE j \in 1 .. Len(told) /\ k \in 1 .. Len(told)
  <2>1. told[j] = told[k] /\ told[j] # "ERROR"
    BY <1>2, <1>1 DEF t
  <2> QED BY <1>2, <2>1 DEF Once
<1>3. CASE j = Len(told) + 1 /\ k \in 1 .. Len(told)
  <2>1. told[k] = ev /\ ev # "ERROR"
    BY <1>3, <1>1 DEF t
  <2> QED BY <1>3, <2>1 DEF Within
<1>4. CASE k = Len(told) + 1 /\ j \in 1 .. Len(told)
  <2>1. told[j] = ev /\ ev # "ERROR"
    BY <1>4, <1>1 DEF t
  <2> QED BY <1>4, <2>1 DEF Within
<1> QED BY <1>1, <1>2, <1>3, <1>4

(* What mg_call changes of a connection. *)
LEMMA CallFields ==
    ASSUME NEW c \in Conn, NEW ev \in Events
    PROVE  /\ Call(c, ev) \in Conn /\ Call(c, ev).told = Append(c.told, ev)
           /\ Call(c, ev).kind = c.kind /\ Call(c, ev).closing = c.closing
           /\ Call(c, ev).resolving = c.resolving /\ Call(c, ev).connecting = c.connecting
           /\ Call(c, ev).send = c.send /\ Call(c, ev).recv = c.recv
<1>1. c.told \in Seq(Events)
  BY DEF Conn
<1>2. Append(c.told, ev) \in Seq(Events)
  BY <1>1
<1> QED BY <1>2 DEF Conn, Call

LEMMA CallOpen ==
    ASSUME NEW c, Open(c), NEW ev \in Events \ {"CLOSE"},
           ev = "ERROR" \/ ~Within(c.told, ev),
           ev = "CONNECT" => ~c.resolving /\ ~c.connecting,
           ev = "RESOLVE" => ~c.resolving
    PROVE  Follows(c, Call(c, ev))
<1>1. c \in Conn /\ c.told \in Seq(Events) /\ Once(c.told) /\ c.told # <<>>
  BY DEF Open, ToldInv, Conn
<1> DEFINE d == Call(c, ev)
<1>2. /\ d \in Conn /\ d.told = Append(c.told, ev) /\ d.kind = c.kind /\ d.closing = c.closing
      /\ d.resolving = c.resolving /\ d.connecting = c.connecting
  BY <1>1, CallFields
<1> HIDE DEF d
<1>3. Once(d.told)
  BY <1>1, <1>2, OnceAppend
<1>4. \A e : Within(d.told, e) <=> Within(c.told, e) \/ e = ev
  BY <1>1, <1>2, WithinAppend
<1>5. d.told # <<>> /\ d.told[1] = "OPEN"
  <2>1. c.told[1] = "OPEN"
    BY <1>1 DEF Open, ToldInv
  <2> QED BY <2>1, <1>1, <1>2, WithinAppend
<1>6. ToldInv(d)
  <2>1. d.resolving \/ d.connecting => d.kind = "client" /\ ~Within(d.told, "CONNECT")
    BY <1>2, <1>4 DEF Open, ToldInv
  <2>2. d.resolving => ~d.connecting /\ ~Within(d.told, "RESOLVE")
    BY <1>2, <1>4 DEF Open, ToldInv
  <2> QED BY <1>3, <1>5, <2>1, <2>2 DEF ToldInv
<1>7. ~Within(d.told, "CLOSE")
  BY <1>4 DEF Open
<1> QED BY <1>2, <1>5, <1>6, <1>7 DEF Open, Follows, d

(* A change that leaves what was told and what is waited for. *)
LEMMA SameOpen ==
    ASSUME NEW c, Open(c), NEW d \in Conn,
           d.told = c.told, d.kind = c.kind, c.closing => d.closing,
           d.resolving => c.resolving, d.connecting => c.connecting
    PROVE  Follows(c, d)
BY DEF Open, Follows, ToldInv

LEMMA DoomedOpen ==
    ASSUME NEW c \in Conn
    PROVE  /\ Doomed(c) \in Conn /\ Doomed(c).told = c.told /\ Doomed(c).kind = c.kind
           /\ Doomed(c).closing
           /\ Doomed(c).resolving = c.resolving /\ Doomed(c).connecting = c.connecting
           /\ Doomed(c).send = c.send /\ Doomed(c).recv = c.recv
BY DEF Doomed, Conn

LEMMA ErrorOpen ==
    ASSUME NEW c, Open(c)
    PROVE  /\ Follows(c, Error(c)) /\ Error(c).closing /\ Error(c).resolving = c.resolving
           /\ Error(c).connecting = c.connecting
           /\ Error(c).send = c.send /\ Error(c).recv = c.recv
<1> DEFINE d == Doomed(c)
<1>1. /\ d \in Conn /\ d.told = c.told /\ d.kind = c.kind /\ d.closing
      /\ d.resolving = c.resolving /\ d.connecting = c.connecting
      /\ d.send = c.send /\ d.recv = c.recv
  BY DoomedOpen DEF Open
<1> HIDE DEF d
<1>2. Follows(c, d)
  BY <1>1, SameOpen
<1>3. "ERROR" \in Events /\ "ERROR" # "CLOSE" /\ "ERROR" # "CONNECT" /\ "ERROR" # "RESOLVE"
  BY DEF Events
<1>4. Follows(d, Call(d, "ERROR"))
  BY <1>2, <1>3, CallOpen DEF Follows
<1>5. /\ Call(d, "ERROR").closing = d.closing /\ Call(d, "ERROR").resolving = d.resolving
      /\ Call(d, "ERROR").connecting = d.connecting
      /\ Call(d, "ERROR").send = d.send /\ Call(d, "ERROR").recv = d.recv
  BY <1>1, <1>3, CallFields
<1> QED BY <1>1, <1>2, <1>4, <1>5 DEF Error, d, Follows

(* A connection that waits for its address, or was just made. *)
Unconnected(c) == /\ Open(c) /\ c.kind \in {"client", "dns"} /\ ~c.connecting
                  /\ ~Within(c.told, "CONNECT") /\ ~Within(c.told, "RESOLVE")

LEMMA ConnectResolvedOpen ==
    ASSUME NEW c, Unconnected(c), NEW r \in Results,
           c.kind = "client" \/ r \in {"none", "ok"}
    PROVE  /\ Follows(c, ConnectResolved(c, r)) /\ ~ConnectResolved(c, r).resolving
           /\ ConnectResolved(c, r).send = c.send /\ ConnectResolved(c, r).recv = c.recv
<1> DEFINE n == [c EXCEPT !.fd = r # "none", !.resolving = FALSE]
           o == Call(n, "RESOLVE")
<1>1. /\ n \in Conn /\ n.told = c.told /\ n.kind = c.kind /\ n.closing = c.closing /\ ~n.resolving
      /\ n.connecting = c.connecting /\ n.send = c.send /\ n.recv = c.recv
  <2>1. c \in Conn
    BY DEF Unconnected, Open
  <2>2. PICK b \in BOOLEAN : b = (r # "none")
    OBVIOUS
  <2>3. n = [c EXCEPT !.fd = b, !.resolving = FALSE]
    BY <2>2, Zenon
  <2> QED BY <2>1, <2>3 DEF Conn
<1>2. {"RESOLVE", "CONNECT", "ERROR"} \subseteq Events \ {"CLOSE"} /\ "RESOLVE" # "CONNECT"
  BY DEF Events
<1>n. Open(c)
  BY DEF Unconnected
<1> HIDE DEF n
<1>3. Follows(c, n)
  BY <1>n, <1>1, SameOpen
<1>4. Follows(n, o) /\ o.told = Append(n.told, "RESOLVE") /\ o.closing = n.closing
      /\ o.kind = n.kind /\ o.resolving = n.resolving /\ o.connecting = n.connecting
      /\ o.send = n.send /\ o.recv = n.recv
  <2>1. ~Within(n.told, "RESOLVE") /\ ~n.resolving
    BY <1>1 DEF Unconnected
  <2>2. Follows(n, o)
    BY <1>2, <1>3, <2>1, CallOpen DEF Follows
  <2> QED BY <1>1, <1>2, <2>2, CallFields
<1> HIDE DEF o
<1>5. ~Within(o.told, "CONNECT") /\ ~o.resolving /\ ~o.connecting
  <2>1. ~Within(n.told, "CONNECT") /\ n.told \in Seq(Events) /\ "CONNECT" # "RESOLVE"
    BY <1>1 DEF Unconnected, Conn
  <2>2. ~Within(Append(n.told, "RESOLVE"), "CONNECT")
    BY <2>1, <1>2, WithinAppend
  <2>3. ~n.connecting
    BY <1>1 DEF Unconnected
  <2> QED BY <2>2, <2>3, <1>1, <1>4
<1>6. CASE r = "none"
  <2>1. ConnectResolved(c, r) = Error(n)
    BY <1>6 DEF ConnectResolved, n
  <2> QED BY <2>1, <1>1, <1>3, ErrorOpen DEF Follows
<1>7. CASE r = "ok"
  <2>1. ConnectResolved(c, r) = Call(o, "CONNECT")
    BY <1>7 DEF ConnectResolved, n, o
  <2>2. Follows(o, Call(o, "CONNECT"))
    BY <1>2, <1>4, <1>5, CallOpen DEF Follows
  <2>3. Call(o, "CONNECT").resolving = o.resolving /\ Call(o, "CONNECT").closing = o.closing
        /\ Call(o, "CONNECT").send = o.send /\ Call(o, "CONNECT").recv = o.recv
    BY <1>2, <1>4, CallFields DEF Follows, Open
  <2> QED BY <1>1, <1>3, <1>4, <1>5, <2>1, <2>2, <2>3 DEF Follows
<1>8. CASE r = "wait"
  <2> DEFINE d == [o EXCEPT !.connecting = TRUE]
  <2>1. ConnectResolved(c, r) = d
    BY <1>8 DEF ConnectResolved, n, o
  <2>2. d \in Conn /\ d.told = o.told /\ d.kind = o.kind /\ d.closing = o.closing /\ ~d.resolving
        /\ d.send = o.send /\ d.recv = o.recv
    BY <1>4, <1>5 DEF Follows, Open, Conn
  <2>3. d.kind = "client"
    BY <1>8, <1>1, <1>4, <2>2
  <2> HIDE DEF d
  <2>4. Open(d)
    BY <1>4, <1>5, <2>2, <2>3 DEF Follows, Open, ToldInv
  <2> QED BY <1>1, <1>3, <1>4, <2>1, <2>2, <2>4 DEF Follows
<1>9. CASE r = "error"
  <2>1. ConnectResolved(c, r) = Error(o)
    BY <1>9 DEF ConnectResolved, n, o
  <2>2. Follows(o, Error(o)) /\ Error(o).resolving = o.resolving
        /\ Error(o).send = o.send /\ Error(o).recv = o.recv
    BY <1>4, ErrorOpen DEF Follows
  <2> QED BY <1>1, <1>3, <1>4, <1>5, <2>1, <2>2 DEF Follows
<1> QED BY <1>6, <1>7, <1>8, <1>9 DEF Results

LEMMA ReplyOpen ==
    ASSUME NEW c, Open(c), c.resolving, NEW found \in BOOLEAN, NEW r \in Results
    PROVE  /\ Follows(c, Reply(c, found, r))
           /\ Reply(c, found, r).send = c.send /\ Reply(c, found, r).recv = c.recv
           /\ Reply(c, found, r).resolving => Reply(c, found, r).closing
<1>1. Unconnected(c) /\ c.kind = "client"
  BY DEF Unconnected, Open, ToldInv
<1>2. CASE found
  <2>1. Reply(c, found, r) = ConnectResolved(c, r)
    BY <1>2 DEF Reply
  <2> QED BY <1>1, <2>1, ConnectResolvedOpen
<1>3. CASE ~found
  <2>1. Reply(c, found, r) = Error(c)
    BY <1>3 DEF Reply
  <2> QED BY <2>1, ErrorOpen
<1> QED BY <1>2, <1>3

LEMMA MadeFields ==
    ASSUME NEW kind \in Kinds
    PROVE  /\ Made(kind) \in Conn /\ Made(kind).kind = kind /\ Made(kind).told = <<>>
           /\ ~Made(kind).resolving /\ ~Made(kind).connecting /\ ~Made(kind).closing
           /\ Made(kind).send = <<>> /\ Made(kind).recv = <<>>
<1>1. <<>> \in Seq(Nat) /\ <<>> \in Seq(Events)
  OBVIOUS
<1> QED BY <1>1 DEF Made, Conn

(* A connection is told first that it is open. *)
LEMMA OpenedOpen ==
    ASSUME NEW c \in Conn, c.told = <<>>, ~c.resolving, ~c.connecting
    PROVE  /\ Open(Call(c, "OPEN")) /\ Call(c, "OPEN").kind = c.kind
           /\ ~Within(Call(c, "OPEN").told, "CONNECT") /\ ~Within(Call(c, "OPEN").told, "RESOLVE")
           /\ ~Within(Call(c, "OPEN").told, "ACCEPT")
           /\ ~Call(c, "OPEN").resolving /\ ~Call(c, "OPEN").connecting
           /\ Call(c, "OPEN").send = c.send /\ Call(c, "OPEN").recv = c.recv
<1> DEFINE d == Call(c, "OPEN")
<1>1. "OPEN" \in Events
  BY DEF Events
<1>2. /\ d \in Conn /\ d.told = Append(c.told, "OPEN") /\ d.kind = c.kind
      /\ ~d.resolving /\ ~d.connecting /\ d.send = c.send /\ d.recv = c.recv
  BY <1>1, CallFields
<1> HIDE DEF d
<1>3. c.told \in Seq(Events)
  BY DEF Conn
<1>4. \A e : ~Within(c.told, e)
  BY <1>3 DEF Within
<1>5. ASSUME NEW e PROVE Within(d.told, e) <=> e = "OPEN"
  <2>1. PICK ev \in Events : ev = "OPEN"
    BY <1>1
  <2>2. PICK told \in Seq(Events) : told = c.told
    BY <1>3
  <2>3. Within(Append(told, ev), e) <=> Within(told, e) \/ e = ev
    BY WithinAppend
  <2> QED BY <1>2, <1>4, <2>1, <2>2, <2>3
<1>6. Once(d.told)
  <2>1. Once(c.told)
    BY <1>3 DEF Once
  <2> QED BY <1>1, <1>2, <1>3, <1>4, <2>1, OnceAppend
<1>7. d.told # <<>> /\ d.told[1] = "OPEN"
  BY <1>1, <1>2, <1>3, WithinAppend
<1> QED BY <1>2, <1>5, <1>6, <1>7 DEF d, Open, ToldInv

(* A connection that has left the list: that it is closed was told last. *)
Shut(c) == /\ c \in Conn /\ ToldInv(c) /\ c.told # <<>>
           /\ Within(c.told, "CLOSE") /\ c.told[Len(c.told)] = "CLOSE"

LEMMA GoneShut ==
    ASSUME NEW c, Open(c)
    PROVE  Shut(Gone(c)) /\ Gone(c).kind = c.kind
<1> DEFINE n == [Made(c.kind) EXCEPT !.told = c.told]
<1>1. /\ n \in Conn /\ n.told = c.told /\ n.kind = c.kind /\ ~n.resolving /\ ~n.connecting
  <2>1. c.kind \in Kinds /\ c.told \in Seq(Events)
    BY DEF Open, Conn
  <2> QED BY <2>1, MadeFields DEF Conn
<1>2. "CLOSE" \in Events /\ "CLOSE" # "ERROR"
  BY DEF Events
<1> HIDE DEF n
<1> DEFINE d == Call(n, "CLOSE")
<1>3. /\ d \in Conn /\ d.told = Append(c.told, "CLOSE") /\ d.kind = c.kind
      /\ ~d.resolving /\ ~d.connecting
  BY <1>1, <1>2, CallFields
<1>4. Gone(c) = d
  BY DEF Gone, n, d
<1> HIDE DEF d
<1>5. c.told \in Seq(Events) /\ c.told # <<>> /\ c.told[1] = "OPEN" /\ Once(c.told)
      /\ ~Within(c.told, "CLOSE")
  BY DEF Open, ToldInv, Conn
<1>6. /\ d.told # <<>> /\ d.told[1] = "OPEN" /\ d.told[Len(d.told)] = "CLOSE"
      /\ Within(d.told, "CLOSE")
  BY <1>2, <1>3, <1>5, WithinAppend
<1>7. Once(d.told)
  BY <1>2, <1>3, <1>5, OnceAppend
<1> QED BY <1>3, <1>4, <1>6, <1>7 DEF Shut, ToldInv

LEMMA NoLongerOpen ==
    ASSUME NEW c, Open(c)
    PROVE  /\ Follows(c, NoLonger(c)) /\ ~NoLonger(c).connecting
           /\ NoLonger(c).resolving = c.resolving /\ NoLonger(c).told = c.told
           /\ NoLonger(c).send = c.send /\ NoLonger(c).recv = c.recv
<1>1. /\ NoLonger(c) \in Conn /\ NoLonger(c).told = c.told /\ NoLonger(c).kind = c.kind
      /\ NoLonger(c).closing = c.closing /\ NoLonger(c).resolving = c.resolving
      /\ ~NoLonger(c).connecting
      /\ NoLonger(c).send = c.send /\ NoLonger(c).recv = c.recv
  BY DEF NoLonger, Open, Conn
<1> QED BY <1>1, SameOpen

(* What read_conn does, and what is then left in the socket: what the peer wrote is moved,*)
(* none of it lost.                                                                       *)
LEMMA HandledOpen ==
    ASSUME NEW c, Open(c), NEW h \in Replies
    PROVE  /\ Follows(c, Handled(c, h)) /\ Handled(c, h).resolving = c.resolving
           /\ Handled(c, h).send \o Handled(c, h).recv = c.send \o c.recv
<1>1. c \in Conn /\ c.send \in Seq(Nat) /\ c.recv \in Seq(Nat) /\ c.draining \in BOOLEAN
  BY DEF Open, Conn
<1>2. CASE h = "keep"
  <2>1. Handled(c, h) = c
    BY <1>2 DEF Handled
  <2> QED BY <2>1 DEF Follows
<1>3. CASE h # "keep"
  <2>1. PICK b \in BOOLEAN : b = (c.draining \/ h = "drain")
    OBVIOUS
  <2>2. PICK s \in Seq(Nat) : s = c.send \o c.recv
    BY <1>1, ConcatProperties
  <2> DEFINE d == [c EXCEPT !.send = s, !.recv = <<>>, !.draining = b]
  <2>3. Handled(c, h) = d
    BY <1>3, <2>1, <2>2, Zenon DEF Handled
  <2>4. <<>> \in Seq(Nat)
    OBVIOUS
  <2>5. /\ d \in Conn /\ d.told = c.told /\ d.kind = c.kind /\ d.closing = c.closing
        /\ d.resolving = c.resolving /\ d.connecting = c.connecting
        /\ d.send = s /\ d.recv = <<>>
    BY <1>1, <2>4 DEF Conn
  <2> HIDE DEF d
  <2>6. s \o <<>> = s
    BY ConcatProperties
  <2> QED BY <2>2, <2>3, <2>5, <2>6, SameOpen
<1> QED BY <1>2, <1>3

LEMMA SplitAt ==
    ASSUME NEW S, NEW s \in Seq(S), NEW n \in 0 .. Len(s)
    PROVE  /\ SubSeq(s, 1, n) \in Seq(S) /\ SubSeq(s, n + 1, Len(s)) \in Seq(S)
           /\ SubSeq(s, 1, n) \o SubSeq(s, n + 1, Len(s)) = s
<1>1. Len(s) \in Nat /\ n \in Nat /\ n <= Len(s) /\ \A i \in 1 .. Len(s) : s[i] \in S
  OBVIOUS
<1>2. SubSeq(s, 1, n) \in Seq(S)
  <2>1. \A i \in 1 .. n : s[i] \in S
    BY <1>1
  <2> QED BY <1>1, <2>1, SubSeqProperties
<1>3. SubSeq(s, n + 1, Len(s)) \in Seq(S)
  <2>1. \A i \in n + 1 .. Len(s) : s[i] \in S
    BY <1>1
  <2> QED BY <1>1, <2>1, SubSeqProperties
<1>4. SubSeq(s, 1, n) \o SubSeq(s, n + 1, Len(s)) = SubSeq(s, 1, Len(s))
  <2>1. 1 \in 1 .. Len(s) + 1 /\ n \in 1 - 1 .. Len(s) /\ Len(s) \in n .. Len(s)
    BY <1>1
  <2> QED BY <2>1, ConcatAdjacentSubSeq
<1> QED BY <1>2, <1>3, <1>4, SubSeqFull

LEMMA Associative ==
    ASSUME NEW S, NEW p \in Seq(S), NEW q \in Seq(S), NEW r \in Seq(S)
    PROVE  (p \o q) \o r = p \o (q \o r)
BY ConcatAssociative

(* The concatenation under a name of its own: the provers then look at nothing but its   *)
(* associativity.                                                                         *)
Cat(s, t) == s \o t

LEMMA CatAssociative ==
    ASSUME NEW p \in Seq(Nat), NEW q \in Seq(Nat), NEW r \in Seq(Nat)
    PROVE  Cat(p, q) \in Seq(Nat) /\ Cat(Cat(p, q), r) = Cat(p, Cat(q, r))
<1>1. (p \o q) \o r = p \o (q \o r)
  BY Associative
<1>2. p \o q \in Seq(Nat)
  BY ConcatProperties
<1> QED BY <1>1, <1>2 DEF Cat

LEMMA Regroup ==
    ASSUME NEW p \in Seq(Nat), NEW q \in Seq(Nat), NEW r \in Seq(Nat), NEW s \in Seq(Nat)
    PROVE  Cat(Cat(p, Cat(q, r)), s) = Cat(Cat(p, q), Cat(r, s))
BY CatAssociative

LEMMA ReadConnOpen ==
    ASSUME NEW c, Open(c), c.readable, NEW in \in Seq(Nat), NEW h \in Replies
    PROVE  /\ Follows(c, ReadConn(c, in, h)) /\ ReadConn(c, in, h).resolving = c.resolving
           /\ Left(c, in) \in Seq(Nat)
           /\ (ReadConn(c, in, h).send \o ReadConn(c, in, h).recv) \o Left(c, in)
                  = (c.send \o c.recv) \o in
<1>1. /\ c \in Conn /\ c.send \in Seq(Nat) /\ c.recv \in Seq(Nat)
      /\ MaxRecv \in Nat /\ IoSize \in Nat \ {0}
  BY BoundsAssumption DEF Open, Conn
<1>2. CASE Len(c.recv) >= MaxRecv
  <2>1. ReadConn(c, in, h) = Error(c) /\ Left(c, in) = in
    BY <1>1, <1>2 DEF ReadConn, Left
  <2> QED BY <2>1, ErrorOpen
<1>3. CASE Len(c.recv) < MaxRecv /\ in = <<>>
  <2>1. ReadConn(c, in, h) = Doomed(c)
    BY <1>1, <1>3 DEF ReadConn
  <2>2. Left(c, in) = <<>>
    <3>1. Left(c, in) = SubSeq(in, Took(in) + 1, Len(in))
      BY <1>3 DEF Left
    <3>2. Took(in) = 0 /\ Len(in) = 0
      BY <1>1, <1>3 DEF Took
    <3> QED BY <3>1, <3>2, SubSeqEmpty
  <2>3. Follows(c, Doomed(c)) /\ Doomed(c).resolving = c.resolving
        /\ Doomed(c).send = c.send /\ Doomed(c).recv = c.recv
    BY <1>1, DoomedOpen, SameOpen
  <2> QED BY <1>3, <2>1, <2>2, <2>3
<1>4. CASE Len(c.recv) < MaxRecv /\ in # <<>>
  <2>1. Took(in) \in 0 .. Len(in)
    BY <1>1 DEF Took
  <2>2. PICK n \in 0 .. Len(in) : n = Took(in)
    BY <2>1
  <2>3. PICK front \in Seq(Nat), rest \in Seq(Nat) :
            front = SubSeq(in, 1, n) /\ rest = SubSeq(in, n + 1, Len(in)) /\ front \o rest = in
    <3>1. SubSeq(in, 1, n) \in Seq(Nat) /\ SubSeq(in, n + 1, Len(in)) \in Seq(Nat)
          /\ SubSeq(in, 1, n) \o SubSeq(in, n + 1, Len(in)) = in
      BY <2>2, SplitAt
    <3> QED BY <3>1
  <2>4. Left(c, in) = rest
    BY <1>4, <2>2, <2>3 DEF Left
  <2>5. PICK r \in Seq(Nat) : r = c.recv \o front
    BY <1>1, ConcatProperties
  <2> DEFINE b == [c EXCEPT !.recv = r]
  <2>6. /\ b \in Conn /\ b.told = c.told /\ b.kind = c.kind /\ b.closing = c.closing
        /\ b.resolving = c.resolving /\ b.connecting = c.connecting
        /\ b.send = c.send /\ b.recv = r
    BY <1>1 DEF Conn
  <2>7. ReadConn(c, in, h) = Handled(b, h)
    BY <1>1, <1>4, <2>2, <2>3, <2>5 DEF ReadConn, b
  <2> HIDE DEF b
  <2>8. Follows(c, b)
    BY <2>6, SameOpen
  <2>9. PICK d : d = Handled(b, h)
    OBVIOUS
  <2>10. Follows(b, d) /\ d.resolving = b.resolving /\ d.send \o d.recv = b.send \o b.recv
    BY <2>8, <2>9, HandledOpen DEF Follows
  <2>11. (d.send \o d.recv) \o rest = (c.send \o c.recv) \o in
    <3>1. PICK p \in Seq(Nat), q \in Seq(Nat) : p = c.send /\ q = c.recv
      BY <1>1
    <3>2. Cat(d.send, d.recv) = Cat(p, Cat(q, front)) /\ Cat(front, rest) = in
      BY <2>3, <2>5, <2>6, <2>10, <3>1 DEF Cat
    <3>3. Cat(Cat(p, Cat(q, front)), rest) = Cat(Cat(p, q), Cat(front, rest))
      BY Regroup
    <3>4. Cat(Cat(d.send, d.recv), rest) = Cat(Cat(c.send, c.recv), in)
      BY <3>1, <3>2, <3>3
    <3> QED BY <3>4 DEF Cat
  <2> QED BY <2>4, <2>6, <2>7, <2>8, <2>9, <2>10, <2>11 DEF Follows
<1>5. Len(c.recv) \in Nat
  BY <1>1
<1>6. Len(c.recv) >= MaxRecv \/ Len(c.recv) < MaxRecv
  BY <1>1, <1>5
<1> QED BY <1>2, <1>3, <1>4, <1>6

LEMMA WriteConnOpen ==
    ASSUME NEW c, Open(c), NEW n \in 0 .. Len(c.send), NEW fails \in BOOLEAN, fails => n = 0
    PROVE  /\ Follows(c, WriteConn(c, n, fails)) /\ WriteConn(c, n, fails).resolving = c.resolving
           /\ WriteConn(c, n, fails).recv = c.recv
           /\ SubSeq(c.send, 1, n) \in Seq(Nat)
           /\ SubSeq(c.send, 1, n) \o WriteConn(c, n, fails).send = c.send
<1>1. c \in Conn /\ c.send \in Seq(Nat)
  BY DEF Open, Conn
<1>2. PICK s \in Seq(Nat) : s = c.send
  BY <1>1
<1>3. PICK front \in Seq(Nat), rest \in Seq(Nat) :
          front = SubSeq(s, 1, n) /\ rest = SubSeq(s, n + 1, Len(s)) /\ front \o rest = s
  <2>1. n \in 0 .. Len(s)
    BY <1>2
  <2>2. SubSeq(s, 1, n) \in Seq(Nat) /\ SubSeq(s, n + 1, Len(s)) \in Seq(Nat)
        /\ SubSeq(s, 1, n) \o SubSeq(s, n + 1, Len(s)) = s
    BY <1>2, <2>1, SplitAt
  <2> QED BY <2>2
<1>4. CASE fails
  <2>1. front = <<>>
    BY <1>3, <1>4, SubSeqEmpty
  <2>2. <<>> \o s = s
    BY ConcatEmptySeq
  <2>3. WriteConn(c, n, fails) = Doomed(c)
    BY <1>4 DEF WriteConn
  <2>4. Follows(c, Doomed(c)) /\ Doomed(c).resolving = c.resolving
        /\ Doomed(c).send = c.send /\ Doomed(c).recv = c.recv
    BY <1>1, DoomedOpen, SameOpen
  <2> QED BY <1>2, <1>3, <2>1, <2>2, <2>3, <2>4
<1>5. CASE ~fails
  <2> DEFINE d == [c EXCEPT !.send = rest]
  <2>1. /\ d \in Conn /\ d.told = c.told /\ d.kind = c.kind /\ d.closing = c.closing
        /\ d.resolving = c.resolving /\ d.connecting = c.connecting
        /\ d.send = rest /\ d.recv = c.recv
    BY <1>1 DEF Conn
  <2>2. WriteConn(c, n, fails) = d
    BY <1>2, <1>3, <1>5 DEF WriteConn, Deleted, d
  <2> HIDE DEF d
  <2>3. Follows(c, d)
    BY <2>1, SameOpen
  <2> QED BY <1>2, <1>3, <2>1, <2>2, <2>3
<1> QED BY <1>4, <1>5

(***************************************************************************)
(* The manager.  Its connections are open on the list, shut when they have *)
(* left it, and nothing yet beyond the last one made.                      *)
(***************************************************************************)
ConnsShape(m) ==
    /\ m.conns \subseteq 1 .. m.made
    /\ \A i \in m.conns : Open(m.con[i])
    /\ \A i \in (1 .. m.made) \ m.conns : Shut(m.con[i])
    /\ \A i \in Ids : i > m.made => m.con[i] = Made("none")
    /\ \A i \in m.conns : m.con[i].kind = "dns" <=> m.dns = i
    /\ m.dns \in m.conns \cup {NULL}

LEMMA ManagerFields ==
    ASSUME NEW m \in Managers
    PROVE  /\ m.made \in 0 .. MaxConns /\ m.made \in Nat /\ m.conns \subseteq Ids
           /\ m.con \in [Ids -> Conn] /\ m.reqs \subseteq Requests /\ m.dns \in Ids \cup {NULL}
           /\ 1 .. m.made \subseteq Ids /\ MaxConns \in Nat \ {0}
<1>1. /\ m.made \in 0 .. MaxConns /\ m.conns \subseteq Ids
      /\ m.con \in [Ids -> Conn] /\ m.reqs \subseteq Requests /\ m.dns \in Ids \cup {NULL}
  BY DEF Managers
<1>2. MaxConns \in Nat \ {0}
  BY BoundsAssumption
<1> QED BY <1>1, <1>2 DEF Ids

LEMMA ShapeOfConns ==
    ASSUME NEW m \in Managers
    PROVE  ConnsInv(m) <=> ConnsShape(m)
<1>1. m.made \in Nat /\ 1 .. m.made \subseteq Ids /\ \A i \in Ids : m.con[i] \in Conn
  BY ManagerFields
<1>2. ASSUME ConnsInv(m) PROVE ConnsShape(m)
  <2>1. ASSUME NEW i \in m.conns PROVE Open(m.con[i])
    BY <1>1, <1>2 DEF ConnsInv, Open
  <2>2. ASSUME NEW i \in (1 .. m.made) \ m.conns PROVE Shut(m.con[i])
    BY <1>1, <1>2 DEF ConnsInv, Shut
  <2> QED BY <1>2, <2>1, <2>2 DEF ConnsInv, ConnsShape
<1>3. ASSUME ConnsShape(m) PROVE ConnsInv(m)
  <2>1. ASSUME NEW i \in Ids PROVE ToldInv(m.con[i])
    <3>1. CASE i \in m.conns
      BY <1>3, <3>1 DEF ConnsShape, Open
    <3>2. CASE i \in (1 .. m.made) \ m.conns
      BY <1>3, <3>2 DEF ConnsShape, Shut
    <3>3. CASE i > m.made
      <4>1. m.con[i] = Made("none")
        BY <1>3, <3>3 DEF ConnsShape
      <4>2. /\ Made("none").told = <<>> /\ ~Made("none").resolving /\ ~Made("none").connecting
        BY DEF Made
      <4>3. Once(<<>>)
        BY DEF Once
      <4> QED BY <4>1, <4>2, <4>3 DEF ToldInv
    <3>4. i \in Nat /\ i >= 1
      BY DEF Ids
    <3> QED BY <1>1, <3>1, <3>2, <3>3, <3>4
  <2>2. ASSUME NEW i \in 1 .. m.made
        PROVE  /\ m.con[i].told # <<>>
               /\ Within(m.con[i].told, "CLOSE") <=> i \notin m.conns
               /\ Within(m.con[i].told, "CLOSE") => m.con[i].told[Len(m.con[i].told)] = "CLOSE"
    BY <1>3 DEF ConnsShape, Open, Shut
  <2> QED BY <1>3, <2>1, <2>2 DEF ConnsInv, ConnsShape
<1> QED BY <1>2, <1>3

(* Some of the connections on the list take a step. *)
LEMMA ChangedConns ==
    ASSUME NEW m \in Managers, ConnsShape(m), NEW n \in Managers,
           n.made = m.made, n.conns = m.conns, n.dns = m.dns,
           \A i \in Ids : n.con[i] = m.con[i] \/ (i \in m.conns /\ Follows(m.con[i], n.con[i]))
    PROVE  /\ ConnsShape(n)
           /\ \A i \in Ids : n.con[i].kind = m.con[i].kind /\ (m.con[i].closing => n.con[i].closing)
<1>1. m.made \in Nat /\ 1 .. m.made \subseteq Ids /\ m.conns \subseteq Ids
  BY ManagerFields
<1>2. ASSUME NEW i \in Ids
      PROVE  n.con[i].kind = m.con[i].kind /\ (m.con[i].closing => n.con[i].closing)
  BY DEF Follows
<1>3. ASSUME NEW i \in m.conns PROVE Open(n.con[i])
  BY <1>1 DEF Follows, ConnsShape
<1>4. ASSUME NEW i \in Ids, i \notin m.conns PROVE n.con[i] = m.con[i]
  BY <1>4
<1>5. ASSUME NEW i \in (1 .. m.made) \ m.conns PROVE Shut(n.con[i])
  BY <1>1, <1>4 DEF ConnsShape
<1>6. ASSUME NEW i \in Ids, i > m.made PROVE n.con[i] = Made("none")
  <2>1. i \notin m.conns
    BY <1>1, <1>6 DEF ConnsShape
  <2> QED BY <1>4, <1>6, <2>1 DEF ConnsShape
<1> QED BY <1>1, <1>2, <1>3, <1>5, <1>6 DEF ConnsShape

(* The requests stay, and what waits for them. *)
LEMMA ChangedReqs ==
    ASSUME NEW m \in Managers, ReqsInv(m), NEW n \in Managers,
           n.conns = m.conns, n.reqs = m.reqs,
           \A i \in Ids : n.con[i].resolving = m.con[i].resolving
                          /\ (m.con[i].closing => n.con[i].closing)
    PROVE  ReqsInv(n)
<1>1. m.conns \subseteq Ids
  BY ManagerFields
<1> QED BY <1>1 DEF ReqsInv, Owners

(* A connection that is put in front of the list. *)
LEMMA AddedConns ==
    ASSUME NEW m \in Managers, ConnsShape(m), m.made < MaxConns, NEW c, Open(c),
           NEW n \in Managers, n.made = m.made + 1, n.conns = m.conns \cup {m.made + 1},
           n.con = [m.con EXCEPT ![m.made + 1] = c],
           n.dns = IF c.kind = "dns" THEN m.made + 1 ELSE m.dns,
           c.kind = "dns" => m.dns = NULL
    PROVE  ConnsShape(n)
<1> DEFINE k == m.made + 1
<1>1. m.made \in Nat /\ k \in Ids /\ MaxConns \in Nat /\ m.con \in [Ids -> Conn] /\ m.conns \subseteq Ids
  BY ManagerFields DEF Ids
<1>2. m.conns \subseteq 1 .. m.made /\ k \notin m.conns
  BY <1>1 DEF ConnsShape
<1>3. n.con[k] = c /\ \A i \in Ids : i # k => n.con[i] = m.con[i]
  BY <1>1
<1>4. n.conns \subseteq 1 .. n.made
  BY <1>1, <1>2
<1>5. ASSUME NEW i \in n.conns PROVE Open(n.con[i])
  BY <1>1, <1>2, <1>3 DEF ConnsShape
<1>6. ASSUME NEW i \in (1 .. n.made) \ n.conns PROVE Shut(n.con[i])
  <2>1. i \in (1 .. m.made) \ m.conns /\ i \in Ids /\ i # k
    BY <1>1, <1>6, ManagerFields
  <2> QED BY <1>3, <2>1 DEF ConnsShape
<1>7. ASSUME NEW i \in Ids, i > n.made PROVE n.con[i] = Made("none")
  <2>1. i # k /\ i > m.made
    BY <1>1, <1>7 DEF Ids
  <2> QED BY <1>3, <2>1 DEF ConnsShape
<1>8. ASSUME NEW i \in n.conns PROVE n.con[i].kind = "dns" <=> n.dns = i
  <2>1. CASE i = k
    <3>1. m.dns # k
      <4>1. m.dns \in m.conns \cup {NULL} /\ k # NULL
        BY <1>1 DEF ConnsShape, NULL
      <4> QED BY <1>2, <4>1
    <3> QED BY <1>3, <2>1, <3>1
  <2>2. CASE i \in m.conns
    <3>1. n.con[i] = m.con[i] /\ i # k /\ i # NULL
      BY <1>1, <1>2, <1>3, <2>2 DEF NULL, Ids
    <3>2. m.con[i].kind = "dns" <=> m.dns = i
      BY <2>2 DEF ConnsShape
    <3> QED BY <3>1, <3>2
  <2> QED BY <1>8, <2>1, <2>2
<1>9. n.dns \in n.conns \cup {NULL}
  BY DEF ConnsShape
<1> QED BY <1>4, <1>5, <1>6, <1>7, <1>8, <1>9 DEF ConnsShape

(* A connection that leaves it. *)
LEMMA RemovedConns ==
    ASSUME NEW m \in Managers, ConnsShape(m), NEW i \in m.conns, NEW c, Shut(c),
           NEW n \in Managers, n.made = m.made, n.conns = m.conns \ {i},
           n.con = [m.con EXCEPT ![i] = c],
           n.dns = IF m.dns = i THEN NULL ELSE m.dns
    PROVE  ConnsShape(n)
<1>1. m.made \in Nat /\ i \in Ids /\ m.con \in [Ids -> Conn] /\ m.conns \subseteq Ids
      /\ 1 .. m.made \subseteq Ids
  BY ManagerFields
<1>2. n.con[i] = c /\ \A j \in Ids : j # i => n.con[j] = m.con[j]
  BY <1>1
<1>3. i \in 1 .. m.made /\ i # NULL
  BY <1>1 DEF ConnsShape, NULL
<1>4. ASSUME NEW j \in n.conns PROVE Open(n.con[j])
  BY <1>1, <1>2 DEF ConnsShape
<1>5. ASSUME NEW j \in (1 .. n.made) \ n.conns PROVE Shut(n.con[j])
  <2>1. CASE j = i
    BY <1>2, <2>1
  <2>2. CASE j # i
    BY <1>1, <1>2, <1>5, <2>2 DEF ConnsShape
  <2> QED BY <2>1, <2>2
<1>6. ASSUME NEW j \in Ids, j > n.made PROVE n.con[j] = Made("none")
  BY <1>1, <1>2, <1>3, <1>6 DEF ConnsShape
<1>7. ASSUME NEW j \in n.conns PROVE n.con[j].kind = "dns" <=> n.dns = j
  <2>1. n.con[j] = m.con[j] /\ j # i /\ j # NULL /\ j \in m.conns
    BY <1>1, <1>2, <1>7 DEF NULL, Ids
  <2> QED BY <2>1 DEF ConnsShape
<1>8. n.dns \in n.conns \cup {NULL}
  BY DEF ConnsShape
<1>9. n.conns \subseteq 1 .. n.made
  BY DEF ConnsShape
<1> QED BY <1>4, <1>5, <1>6, <1>7, <1>8, <1>9 DEF ConnsShape

Good(m) == m \in Managers /\ ConnsShape(m) /\ ReqsInv(m)

(* What was on the list and still is goes on as it was, but may be told to close. *)
Keeps(m, n) ==
    /\ \A i \in Ids : i <= m.made => n.con[i].kind = m.con[i].kind
    /\ \A i \in m.conns \cap n.conns : m.con[i].closing => n.con[i].closing

(* Nothing is added to what is sent and received, nor taken away, but of those of S. *)
Quiet(m, n, S) == \A i \in (m.conns \cap n.conns) \ S :
                      n.con[i].send = m.con[i].send /\ n.con[i].recv = m.con[i].recv

LEMMA WithGood ==
    ASSUME NEW m, Good(m), NEW i \in m.conns, NEW c, Follows(m.con[i], c),
           c.resolving = m.con[i].resolving
    PROVE  /\ Good(With(m, i, c)) /\ Keeps(m, With(m, i, c)) /\ Quiet(m, With(m, i, c), {i})
           /\ With(m, i, c).conns = m.conns /\ With(m, i, c).con[i] = c
           /\ With(m, i, c).made = m.made
<1> DEFINE n == With(m, i, c)
<1>1. m \in Managers /\ i \in Ids /\ m.con \in [Ids -> Conn] /\ c \in Conn /\ m.conns \subseteq Ids
  BY ManagerFields DEF Good, Follows, Open
<1>2. PICK f \in [Ids -> Conn] : f = [m.con EXCEPT ![i] = c]
  BY <1>1
<1>3. n = [m EXCEPT !.con = f]
  BY <1>2 DEF With
<1>4. /\ n \in Managers /\ n.made = m.made /\ n.conns = m.conns /\ n.reqs = m.reqs /\ n.dns = m.dns
      /\ n.con = f
  BY <1>1, <1>3 DEF Managers
<1> HIDE DEF n
<1>5. n.con[i] = c /\ \A j \in Ids : j # i => n.con[j] = m.con[j]
  BY <1>1, <1>2, <1>4
<1>6. \A j \in Ids : n.con[j] = m.con[j] \/ (j \in m.conns /\ Follows(m.con[j], n.con[j]))
  BY <1>1, <1>5
<1>7. /\ ConnsShape(n)
      /\ \A j \in Ids : n.con[j].kind = m.con[j].kind /\ (m.con[j].closing => n.con[j].closing)
  BY <1>1, <1>4, <1>6, ChangedConns DEF Good
<1>8. ReqsInv(n)
  <2>1. \A j \in Ids : n.con[j].resolving = m.con[j].resolving
    BY <1>1, <1>5
  <2> QED BY <1>1, <1>4, <1>7, <2>1, ChangedReqs DEF Good
<1>9. Keeps(m, n) /\ Quiet(m, n, {i})
  BY <1>1, <1>4, <1>5, <1>7 DEF Keeps, Quiet
<1> QED BY <1>4, <1>5, <1>7, <1>8, <1>9 DEF Good, n

LEMMA FailedFields ==
    ASSUME NEW m, Good(m), NEW D \in SUBSET m.reqs
    PROVE  LET n == Failed(m, D)
           IN /\ Good(n) /\ Keeps(m, n) /\ Quiet(m, n, {})
              /\ n.made = m.made /\ n.conns = m.conns /\ n.reqs = m.reqs /\ n.dns = m.dns
              /\ \A i \in Ids : n.con[i] = IF i \in Owners(D) THEN Error(m.con[i]) ELSE m.con[i]
<1> DEFINE n == Failed(m, D)
<1>1. m \in Managers /\ m.con \in [Ids -> Conn] /\ m.conns \subseteq Ids
  BY ManagerFields DEF Good
<1>2. ASSUME NEW i \in m.conns
      PROVE  /\ Follows(m.con[i], Error(m.con[i])) /\ Error(m.con[i]).closing
             /\ Error(m.con[i]).resolving = m.con[i].resolving
             /\ Error(m.con[i]).send = m.con[i].send /\ Error(m.con[i]).recv = m.con[i].recv
  BY ErrorOpen DEF Good, ConnsShape
<1>3. Owners(D) \subseteq m.conns
  BY DEF Owners, Good, ReqsInv
<1> DEFINE f == [i \in Ids |-> IF i \in Owners(D) THEN Error(m.con[i]) ELSE m.con[i]]
<1>4. f \in [Ids -> Conn]
  BY <1>1, <1>2, <1>3 DEF Follows, Open
<1>5. n = [m EXCEPT !.con = f]
  BY DEF Failed
<1>f. \A i \in Ids : f[i] = IF i \in Owners(D) THEN Error(m.con[i]) ELSE m.con[i]
  OBVIOUS
<1> HIDE DEF f
<1>6. /\ n \in Managers /\ n.made = m.made /\ n.conns = m.conns /\ n.reqs = m.reqs /\ n.dns = m.dns
      /\ n.con = f
  BY <1>1, <1>4, <1>5 DEF Managers
<1> HIDE DEF n
<1>7. \A i \in Ids : n.con[i] = IF i \in Owners(D) THEN Error(m.con[i]) ELSE m.con[i]
  BY <1>6, <1>f
<1>8. \A i \in Ids : n.con[i] = m.con[i] \/ (i \in m.conns /\ Follows(m.con[i], n.con[i]))
  BY <1>2, <1>3, <1>7
<1>9. /\ ConnsShape(n)
      /\ \A i \in Ids : n.con[i].kind = m.con[i].kind /\ (m.con[i].closing => n.con[i].closing)
  BY <1>1, <1>6, <1>8, ChangedConns DEF Good
<1>10. ReqsInv(n)
  <2>1. \A i \in Ids : n.con[i].resolving = m.con[i].resolving
    BY <1>2, <1>3, <1>7
  <2> QED BY <1>1, <1>6, <1>9, <2>1, ChangedReqs DEF Good
<1>11. Keeps(m, n) /\ Quiet(m, n, {})
  <2>1. \A i \in m.conns : n.con[i].send = m.con[i].send /\ n.con[i].recv = m.con[i].recv
    BY <1>1, <1>2, <1>3, <1>7
  <2> QED BY <1>1, <1>9, <2>1 DEF Keeps, Quiet
<1> QED BY <1>6, <1>7, <1>9, <1>10, <1>11 DEF Good, n

(* dns_cb at MG_EV_CLOSE leaves no request, and nobody who would wait for one. *)
LEMMA DnsCloseGood ==
    ASSUME NEW m, Good(m)
    PROVE  /\ Good(DnsClose(m)) /\ Keeps(m, DnsClose(m)) /\ Quiet(m, DnsClose(m), {})
           /\ DnsClose(m).conns = m.conns /\ DnsClose(m).made = m.made
<1> DEFINE f == Failed(m, m.reqs)
           n == DnsClose(m)
<1>1. /\ Good(f) /\ Keeps(m, f) /\ Quiet(m, f, {})
      /\ f.made = m.made /\ f.conns = m.conns /\ f.reqs = m.reqs /\ f.dns = m.dns
      /\ \A i \in Ids : f.con[i] = IF i \in Owners(m.reqs) THEN Error(m.con[i]) ELSE m.con[i]
  BY FailedFields
<1>2. n = [f EXCEPT !.reqs = {}]
  BY DEF DnsClose
<1> HIDE DEF f, n
<1>3. /\ n \in Managers /\ n.made = f.made /\ n.conns = f.conns /\ n.reqs = {} /\ n.dns = f.dns
      /\ n.con = f.con
  BY <1>1, <1>2 DEF Good, Managers
<1>4. ConnsShape(n)
  BY <1>1, <1>3 DEF Good, ConnsShape
<1>5. ASSUME NEW i \in n.conns, n.con[i].resolving PROVE n.con[i].closing
  <2>1. i \in Ids /\ i \in m.conns
    BY <1>1, <1>3, ManagerFields DEF Good
  <2>2. CASE i \in Owners(m.reqs)
    BY <1>1, <1>3, <2>1, <2>2, ErrorOpen DEF Good, ConnsShape
  <2>3. CASE i \notin Owners(m.reqs)
    BY <1>1, <1>3, <1>5, <2>1, <2>3 DEF Good, ReqsInv
  <2> QED BY <2>2, <2>3
<1>6. ReqsInv(n)
  BY <1>3, <1>5 DEF ReqsInv
<1>7. Keeps(m, n) /\ Quiet(m, n, {})
  BY <1>1, <1>3 DEF Keeps, Quiet
<1> QED BY <1>1, <1>3, <1>4, <1>6, <1>7 DEF Good, n

LEMMA ComposeSteps ==
    ASSUME NEW m, NEW n, NEW o, Keeps(m, n), Keeps(n, o), n.made >= m.made, m.made \in Nat,
           n.made \in Nat, m.conns \cap o.conns \subseteq n.conns
    PROVE  /\ Keeps(m, o)
           /\ \A S : Quiet(m, n, S) /\ Quiet(n, o, S) => Quiet(m, o, S)
           /\ \A S : Quiet(m, n, {}) /\ Quiet(n, o, S) => Quiet(m, o, S)
           /\ \A S : Quiet(m, n, S) /\ Quiet(n, o, {}) => Quiet(m, o, S)
<1>1. ASSUME NEW i \in Ids, i <= m.made PROVE o.con[i].kind = m.con[i].kind
  <2>1. i <= n.made
    BY <1>1 DEF Ids
  <2> QED BY <1>1, <2>1 DEF Keeps
<1>2. ASSUME NEW i \in m.conns \cap o.conns, m.con[i].closing PROVE o.con[i].closing
  BY <1>2 DEF Keeps
<1>3. Keeps(m, o)
  BY <1>1, <1>2 DEF Keeps
<1>4. ASSUME NEW S, Quiet(m, n, S), Quiet(n, o, S) PROVE Quiet(m, o, S)
  BY <1>4 DEF Quiet
<1>5. ASSUME NEW S, Quiet(m, n, {}), Quiet(n, o, S) PROVE Quiet(m, o, S)
  BY <1>5 DEF Quiet
<1>6. ASSUME NEW S, Quiet(m, n, S), Quiet(n, o, {}) PROVE Quiet(m, o, S)
  BY <1>6 DEF Quiet
<1> QED BY <1>3, <1>4, <1>5, <1>6

LEMMA ClosedGood ==
    ASSUME NEW m, Good(m), NEW i \in m.conns
    PROVE  /\ Good(Closed(m, i)) /\ Keeps(m, Closed(m, i)) /\ Quiet(m, Closed(m, i), {})
           /\ Closed(m, i).conns = m.conns \ {i} /\ Closed(m, i).made = m.made
<1> DEFINE g == Gone(m.con[i])
           n == With(ListWithout(Cancelled(m, i), i), i, g)
<1>1. m \in Managers /\ i \in Ids /\ m.con \in [Ids -> Conn] /\ m.conns \subseteq Ids
      /\ m.reqs \subseteq Requests /\ m.dns \in Ids \cup {NULL}
  BY ManagerFields DEF Good
<1>2. Shut(g) /\ g.kind = m.con[i].kind /\ g \in Conn
  BY GoneShut DEF Good, ConnsShape, Shut
<1> HIDE DEF g
<1>3. PICK f \in [Ids -> Conn] : f = [m.con EXCEPT ![i] = g]
  BY <1>1, <1>2
<1>4. PICK R \in SUBSET Requests : R = {d \in m.reqs : d.c # i}
  BY <1>1
<1>5. PICK C \in SUBSET Ids : C = m.conns \ {i}
  BY <1>1
<1>6. PICK p \in Ids \cup {NULL} : p = IF m.dns = i THEN NULL ELSE m.dns
  BY <1>1
<1>7. /\ n \in Managers /\ n.made = m.made /\ n.conns = C /\ n.reqs = R /\ n.dns = p /\ n.con = f
  <2>1. PICK a : a = [m EXCEPT !.reqs = R]
    OBVIOUS
  <2>2. Cancelled(m, i) = a
    BY <1>4, <2>1 DEF Cancelled
  <2>3. a \in Managers /\ a.made = m.made /\ a.conns = m.conns /\ a.con = m.con /\ a.reqs = R
        /\ a.dns = m.dns
    BY <1>1, <2>1 DEF Managers
  <2>4. PICK b : b = [a EXCEPT !.conns = C, !.dns = p]
    OBVIOUS
  <2>5. ListWithout(a, i) = b
    BY <1>5, <1>6, <2>3, <2>4 DEF ListWithout
  <2>6. b \in Managers /\ b.made = m.made /\ b.conns = C /\ b.con = m.con /\ b.reqs = R /\ b.dns = p
    BY <2>3, <2>4 DEF Managers
  <2>7. n = [b EXCEPT !.con = f]
    BY <1>3, <2>2, <2>5, <2>6 DEF With
  <2> QED BY <2>6, <2>7 DEF Managers
<1>8. Closed(m, i) = IF m.con[i].kind = "dns" THEN DnsClose(n) ELSE n
  BY DEF Closed, g
<1> HIDE DEF n
<1>9. n.con[i] = g /\ \A j \in Ids : j # i => n.con[j] = m.con[j]
  BY <1>1, <1>3, <1>7
<1>10. ConnsShape(n)
  BY <1>1, <1>2, <1>3, <1>5, <1>6, <1>7, RemovedConns DEF Good
<1>11. ReqsInv(n)
  <2>1. ASSUME NEW d \in n.reqs
        PROVE  d.c \in n.conns /\ n.con[d.c].resolving /\ d.txnid <= d.c
    <3>1. d \in m.reqs /\ d.c # i
      BY <1>4, <1>7
    <3>2. d.c \in m.conns /\ m.con[d.c].resolving /\ d.txnid <= d.c
      BY <3>1 DEF Good, ReqsInv
    <3> QED BY <1>1, <1>5, <1>7, <1>9, <3>1, <3>2
  <2>2. \A d, e \in n.reqs : d.c = e.c \/ d.txnid = e.txnid => d = e
    BY <1>4, <1>7 DEF Good, ReqsInv
  <2>3. ASSUME NEW j \in n.conns, n.con[j].resolving, ~n.con[j].closing
        PROVE  j \in Owners(n.reqs)
    <3>1. j \in m.conns /\ j # i /\ n.con[j] = m.con[j]
      BY <1>1, <1>5, <1>7, <1>9
    <3>2. j \in Owners(m.reqs)
      BY <2>3, <3>1 DEF Good, ReqsInv
    <3> QED BY <1>4, <1>7, <3>1, <3>2 DEF Owners
  <2> QED BY <2>1, <2>2, <2>3 DEF ReqsInv
<1>12. Good(n) /\ Keeps(m, n) /\ Quiet(m, n, {})
  <2>1. \A j \in Ids : n.con[j].kind = m.con[j].kind
    BY <1>2, <1>9
  <2>2. \A j \in m.conns \cap n.conns : n.con[j] = m.con[j]
    BY <1>1, <1>5, <1>7, <1>9
  <2> QED BY <1>7, <1>10, <1>11, <2>1, <2>2 DEF Good, Keeps, Quiet
<1>13. CASE m.con[i].kind # "dns"
  BY <1>5, <1>7, <1>8, <1>12, <1>13
<1>14. CASE m.con[i].kind = "dns"
  <2> DEFINE o == DnsClose(n)
  <2>1. /\ Good(o) /\ Keeps(n, o) /\ Quiet(n, o, {}) /\ o.conns = n.conns /\ o.made = n.made
    BY <1>12, DnsCloseGood
  <2>2. m.made \in Nat
    BY <1>1, ManagerFields
  <2>3. Closed(m, i) = o
    BY <1>8, <1>14
  <2> HIDE DEF o
  <2>4. Keeps(m, o) /\ Quiet(m, o, {})
    BY <1>7, <1>12, <2>1, <2>2, ComposeSteps
  <2> QED BY <1>5, <1>7, <2>1, <2>3, <2>4
<1> QED BY <1>13, <1>14

LEMMA EndedGood ==
    ASSUME NEW m, Good(m), NEW i \in m.conns
    PROVE  /\ Good(Ended(m, i)) /\ Keeps(m, Ended(m, i)) /\ Quiet(m, Ended(m, i), {})
           /\ Ended(m, i).made = m.made
           /\ Ended(m, i).conns \in {m.conns, m.conns \ {i}}
           /\ m.con[i].closing => Ended(m, i).conns = m.conns \ {i}
<1>1. CASE m.con[i].closing \/ (m.con[i].draining /\ m.con[i].send = <<>>)
  <2>1. Ended(m, i) = Closed(m, i)
    BY <1>1 DEF Ended
  <2> QED BY <2>1, ClosedGood
<1>2. CASE ~(m.con[i].closing \/ (m.con[i].draining /\ m.con[i].send = <<>>))
  <2>1. Ended(m, i) = m
    BY <1>2 DEF Ended
  <2>2. Keeps(m, m) /\ Quiet(m, m, {})
    BY DEF Keeps, Quiet
  <2> QED BY <1>2, <2>1, <2>2
<1> QED BY <1>1, <1>2

LEMMA AnsweredGood ==
    ASSUME NEW m, Good(m), NEW p \in Answers, NEW r \in Results
    PROVE  LET n == Answered(m, p, r)
           IN /\ Good(n) /\ Keeps(m, n) /\ Quiet(m, n, {})
              /\ n.made = m.made /\ n.conns = m.conns
<1> DEFINE n == Answered(m, p, r)
           own == {d \in m.reqs : d.txnid = p.txnid}
           f == [i \in Ids |-> IF i \in Owners(own) THEN Reply(m.con[i], p.found, r) ELSE m.con[i]]
           R == m.reqs \ own
<1>1. m \in Managers /\ m.con \in [Ids -> Conn] /\ m.conns \subseteq Ids /\ m.reqs \subseteq Requests
  BY ManagerFields DEF Good
<1>2. Owners(own) \subseteq m.conns
  BY DEF Owners, Good, ReqsInv
<1>3. ASSUME NEW i \in Owners(own)
      PROVE  /\ Follows(m.con[i], Reply(m.con[i], p.found, r))
             /\ Reply(m.con[i], p.found, r).send = m.con[i].send
             /\ Reply(m.con[i], p.found, r).recv = m.con[i].recv
             /\ Reply(m.con[i], p.found, r).resolving => Reply(m.con[i], p.found, r).closing
  <2>1. Open(m.con[i]) /\ m.con[i].resolving
    BY <1>2, <1>3 DEF Owners, Good, ReqsInv, ConnsShape
  <2>2. p.found \in BOOLEAN
    BY DEF Answers
  <2> QED BY <2>1, <2>2, ReplyOpen
<1>4. f \in [Ids -> Conn]
  BY <1>1, <1>3 DEF Follows, Open
<1>5. n = [m EXCEPT !.reqs = R, !.con = f]
  BY DEF Answered
<1>6. \A i \in Ids : f[i] = IF i \in Owners(own) THEN Reply(m.con[i], p.found, r) ELSE m.con[i]
  OBVIOUS
<1>7. R \subseteq m.reqs /\ \A d \in R : d \notin own
  OBVIOUS
<1>8. \A d \in m.reqs : d \in R \/ d \in own
  OBVIOUS
<1>o. own \subseteq m.reqs
  OBVIOUS
<1> HIDE DEF f, n, R, own
<1>9. /\ n \in Managers /\ n.made = m.made /\ n.conns = m.conns /\ n.reqs = R /\ n.dns = m.dns
      /\ n.con = f
  BY <1>1, <1>4, <1>5, <1>7 DEF Managers
<1>10. \A i \in Ids : n.con[i] = m.con[i] \/ (i \in m.conns /\ Follows(m.con[i], n.con[i]))
  BY <1>2, <1>3, <1>6, <1>9
<1>11. /\ ConnsShape(n)
       /\ \A i \in Ids : n.con[i].kind = m.con[i].kind /\ (m.con[i].closing => n.con[i].closing)
  BY <1>1, <1>9, <1>10, ChangedConns DEF Good
<1>12. ReqsInv(n)
  <2>1. ASSUME NEW d \in n.reqs
        PROVE  d.c \in n.conns /\ n.con[d.c].resolving /\ d.txnid <= d.c
    <3>1. d \in m.reqs /\ d \notin own
      BY <1>7, <1>9
    <3>2. d.c \in m.conns /\ m.con[d.c].resolving /\ d.txnid <= d.c
      BY <3>1 DEF Good, ReqsInv
    <3>3. d.c \notin Owners(own)
      BY <1>o, <3>1 DEF Good, ReqsInv, Owners
    <3> QED BY <1>1, <1>6, <1>9, <3>2, <3>3
  <2>2. \A d, e \in n.reqs : d.c = e.c \/ d.txnid = e.txnid => d = e
    BY <1>7, <1>9 DEF Good, ReqsInv
  <2>3. ASSUME NEW j \in n.conns, n.con[j].resolving, ~n.con[j].closing
        PROVE  j \in Owners(n.reqs)
    <3>1. j \in m.conns /\ j \in Ids
      BY <1>1, <1>9
    <3>2. j \notin Owners(own)
      BY <1>3, <1>6, <1>9, <2>3, <3>1
    <3>3. j \in Owners(m.reqs)
      BY <1>6, <1>9, <2>3, <3>1, <3>2 DEF Good, ReqsInv
    <3> QED BY <1>8, <1>9, <3>2, <3>3 DEF Owners
  <2> QED BY <2>1, <2>2, <2>3 DEF ReqsInv
<1>13. Keeps(m, n) /\ Quiet(m, n, {})
  <2>1. \A i \in m.conns : n.con[i].send = m.con[i].send /\ n.con[i].recv = m.con[i].recv
    BY <1>1, <1>3, <1>6, <1>9
  <2> QED BY <1>1, <1>9, <1>11, <2>1 DEF Keeps, Quiet
<1> QED BY <1>9, <1>11, <1>12, <1>13 DEF Good, n

(* A set of numbers that has a bound has a greatest one: otherwise adding one would map the *)
(* numbers up to it into themselves, all but one of them.                                    *)
LEMMA GreatestOf ==
    ASSUME NEW N \in Nat, NEW T \in SUBSET (0 .. N), T # {}
    PROVE  \E x \in T : \A y \in T : y <= x
<1> SUFFICES ASSUME \A x \in T : \E y \in T : y > x
             PROVE  FALSE
  OBVIOUS
<1> DEFINE P == {m \in 0 .. N : \E t \in T : m <= t}
           f == [m \in P |-> m + 1]
<1>1. 0 \in P
  <2>1. PICK t \in T : TRUE
    OBVIOUS
  <2> QED BY <2>1
<1>2. IsFiniteSet(P) /\ Cardinality(P) \in Nat
  <2>1. IsFiniteSet(0 .. N)
    BY FS_Interval
  <2> QED BY <2>1, FS_Subset, FS_CardinalityType
<1>3. IsFiniteSet(P \ {0}) /\ Cardinality(P \ {0}) < Cardinality(P)
  <2>1. IsFiniteSet(P \ {0}) /\ Cardinality(P \ {0}) = Cardinality(P) - 1
    <3> HIDE DEF P
    <3> QED BY <1>1, <1>2, FS_RemoveElement
  <2> QED BY <1>2, <2>1
<1>4. f \in [P -> P \ {0}]
  <2> SUFFICES ASSUME NEW m \in P PROVE m + 1 \in P \ {0}
    OBVIOUS
  <2>1. PICK t \in T : m <= t
    OBVIOUS
  <2>2. PICK y \in T : y > t
    OBVIOUS
  <2> QED BY <2>1, <2>2
<1> HIDE DEF f
<1>5. PICK x, y \in P : x # y /\ f[x] = f[y]
  BY <1>2, <1>3, <1>4, FS_PigeonHole
<1>6. f[x] = x + 1 /\ f[y] = y + 1
  BY DEF f
<1>7. x \in Nat /\ y \in Nat
  OBVIOUS
<1>8. x # y
  BY <1>5
<1>9. x + 1 = y + 1
  BY <1>5, <1>6
<1> QED BY <1>7, <1>8, <1>9

LEMMA HeadOfReqs ==
    ASSUME NEW m, Good(m), m.reqs # {}
    PROVE  /\ HeadOf(m.reqs) \in m.reqs
           /\ \A e \in m.reqs : e.txnid <= HeadOf(m.reqs).txnid
<1> DEFINE T == {d.txnid : d \in m.reqs}
<1>1. m.reqs \subseteq Requests /\ m.made \in Nat /\ \A d \in m.reqs : d.txnid \in Nat /\ d.c \in Ids
  BY ManagerFields DEF Good, Requests
<1>2. ASSUME NEW d \in m.reqs PROVE d.txnid \in 0 .. m.made
  <2>1. d.c \in m.conns /\ d.txnid <= d.c
    BY DEF Good, ReqsInv
  <2>2. d.c \in 1 .. m.made
    BY <2>1 DEF Good, ConnsShape
  <2> QED BY <1>1, <2>1, <2>2
<1>3. T \in SUBSET (0 .. m.made) /\ T # {}
  BY <1>2
<1> HIDE DEF T
<1>4. PICK x \in T : \A y \in T : y <= x
  BY <1>1, <1>3, GreatestOf
<1>5. \E d \in m.reqs : \A e \in m.reqs : e.txnid <= d.txnid
  BY <1>4 DEF T
<1> QED BY <1>5 DEF HeadOf

LEMMA BehindIs ==
    ASSUME NEW C \in SUBSET Ids, NEW n, NEW t,
           t = LET rest == {j \in C : j < n}
               IN IF rest = {} THEN NULL ELSE CHOOSE j \in rest : \A k \in rest : k <= j
    PROVE  /\ t \in {j \in C : j < n} \cup {NULL}
           /\ \A j \in C : j < n => j <= t /\ t # NULL
<1> DEFINE rest == {j \in C : j < n}
<1>1. MaxConns \in Nat /\ rest \in SUBSET (0 .. MaxConns) /\ \A j \in C : j \in Nat /\ j # NULL
  <2>1. MaxConns \in Nat
    BY BoundsAssumption
  <2>2. \A j \in C : j \in 1 .. MaxConns
    BY DEF Ids
  <2> QED BY <2>1, <2>2 DEF NULL
<1>2. CASE rest = {}
  BY <1>2
<1>3. CASE rest # {}
  <2> HIDE DEF rest
  <2>1. \E j \in rest : \A k \in rest : k <= j
    BY <1>1, <1>3, GreatestOf
  <2>2. t \in rest /\ \A k \in rest : k <= t
    BY <1>3, <2>1 DEF rest
  <2> QED BY <1>1, <2>2 DEF rest
<1> QED BY <1>2, <1>3

LEMMA BehindNow ==
    ASSUME mgr.conns \in SUBSET Ids, NEW n
    PROVE  /\ Behind(n) \in {j \in mgr.conns : j < n} \cup {NULL}
           /\ \A j \in mgr.conns : j < n => j <= Behind(n) /\ Behind(n) # NULL
<1>1. PICK C \in SUBSET Ids : C = mgr.conns
  OBVIOUS
<1>t. Behind(n) = LET rest == {j \in C : j < n}
                  IN IF rest = {} THEN NULL ELSE CHOOSE j \in rest : \A k \in rest : k <= j
  BY <1>1 DEF Behind
<1>2. PICK t : t = Behind(n)
  OBVIOUS
<1>3. t = LET rest == {j \in C : j < n}
          IN IF rest = {} THEN NULL ELSE CHOOSE j \in rest : \A k \in rest : k <= j
  BY <1>2, <1>t
<1>4. /\ t \in {j \in C : j < n} \cup {NULL}
      /\ \A j \in C : j < n => j <= t /\ t # NULL
  BY <1>3, BehindIs
<1> QED BY <1>1, <1>2, <1>4

(***************************************************************************)
(* A step of the manager that may put connections on the list, and takes   *)
(* nothing off it.                                                         *)
(***************************************************************************)
Grown(m, n, S) ==
    /\ Good(n) /\ Keeps(m, n) /\ Quiet(m, n, S)
    /\ m.conns \subseteq n.conns /\ m.made <= n.made
    /\ \A i \in n.conns \ m.conns : i > m.made /\ n.con[i].send = <<>> /\ n.con[i].recv = <<>>

LEMMA GrownTwice ==
    ASSUME NEW m, NEW n, NEW o, Good(m), Grown(m, n, {}), NEW S, S \subseteq m.conns, Grown(n, o, S)
    PROVE  Grown(m, o, S)
<1>1. m.made \in Nat /\ n.made \in Nat /\ o.made \in Nat /\ n.conns \subseteq Ids /\ o.conns \subseteq Ids
  BY ManagerFields DEF Good, Grown
<1>2. m.made <= n.made /\ n.made <= o.made /\ m.conns \subseteq n.conns /\ n.conns \subseteq o.conns
  BY DEF Grown
<1>3. Keeps(m, o)
  <2>1. n.made >= m.made /\ m.conns \cap o.conns \subseteq n.conns
    BY <1>1, <1>2
  <2> QED BY <1>1, <2>1, ComposeSteps DEF Grown
<1>4. Quiet(m, o, S)
  BY <1>2 DEF Grown, Quiet
<1>5. ASSUME NEW i \in o.conns \ m.conns
      PROVE  i > m.made /\ o.con[i].send = <<>> /\ o.con[i].recv = <<>>
  <2>1. CASE i \in n.conns
    BY <1>2, <1>5, <2>1 DEF Grown, Quiet
  <2>2. CASE i \notin n.conns
    <3>1. i > n.made /\ o.con[i].send = <<>> /\ o.con[i].recv = <<>>
      BY <2>2 DEF Grown
    <3>2. i \in Nat
      BY <1>1 DEF Ids
    <3> QED BY <1>1, <1>2, <3>1, <3>2
  <2> QED BY <2>1, <2>2
<1> QED BY <1>1, <1>2, <1>3, <1>4, <1>5 DEF Grown

(* mg_alloc_conn: what is put in front of the list, the name server's noted by the manager. *)
Added(m, c) == IF c.kind = "dns" THEN [Alloc(m, c) EXCEPT !.dns = m.made + 1] ELSE Alloc(m, c)

LEMMA AddedGood ==
    ASSUME NEW m, Good(m), m.made < MaxConns, NEW c, Open(c), ~c.resolving,
           c.send = <<>>, c.recv = <<>>, c.kind = "dns" => m.dns = NULL,
           NEW n, n = Added(m, c)
    PROVE  /\ Grown(m, n, {}) /\ n.made = m.made + 1 /\ n.conns = m.conns \cup {m.made + 1}
           /\ n.reqs = m.reqs /\ n.dns = IF c.kind = "dns" THEN m.made + 1 ELSE m.dns
           /\ n.con[m.made + 1] = c
           /\ \A i \in Ids : i <= m.made => n.con[i] = m.con[i]
<1> DEFINE k == m.made + 1
<1>1. /\ m \in Managers /\ m.made \in 0 .. MaxConns /\ MaxConns \in Nat /\ m.conns \subseteq Ids
      /\ m.con \in [Ids -> Conn] /\ m.reqs \subseteq Requests /\ m.dns \in Ids \cup {NULL}
      /\ c \in Conn /\ m.conns \subseteq 1 .. m.made
  BY ManagerFields DEF Good, Open, ConnsShape
<1>2. k \in Ids /\ k \in 0 .. MaxConns /\ k \notin m.conns
  BY <1>1 DEF Ids
<1>3. PICK f \in [Ids -> Conn] : f = [m.con EXCEPT ![k] = c]
  BY <1>1, <1>2
<1>4. PICK C \in SUBSET Ids : C = m.conns \cup {k}
  BY <1>1, <1>2
<1>5. PICK p \in Ids \cup {NULL} : p = IF c.kind = "dns" THEN k ELSE m.dns
  BY <1>1, <1>2
<1>6. PICK a : a = [m EXCEPT !.made = k, !.conns = C, !.con = f]
  OBVIOUS
<1>7. Alloc(m, c) = a
  BY <1>3, <1>4, <1>6 DEF Alloc
<1>8. a \in Managers /\ a.made = k /\ a.conns = C /\ a.con = f /\ a.reqs = m.reqs /\ a.dns = m.dns
  BY <1>1, <1>2, <1>6 DEF Managers
<1>9. n \in Managers /\ n.made = k /\ n.conns = C /\ n.con = f /\ n.reqs = m.reqs /\ n.dns = p
  <2>1. CASE c.kind = "dns"
    <3>1. n = [a EXCEPT !.dns = p]
      BY <1>5, <1>7, <2>1 DEF Added
    <3> QED BY <1>8, <3>1 DEF Managers
  <2>2. CASE c.kind # "dns"
    BY <1>5, <1>7, <1>8, <2>2 DEF Added
  <2> QED BY <2>1, <2>2
<1>10. n.con[k] = c /\ \A i \in Ids : i # k => n.con[i] = m.con[i]
  BY <1>1, <1>2, <1>3, <1>9
<1> HIDE DEF k
<1>11. ConnsShape(n)
  <2>1. /\ n.made = m.made + 1 /\ n.conns = m.conns \cup {m.made + 1}
        /\ n.con = [m.con EXCEPT ![m.made + 1] = c]
        /\ n.dns = IF c.kind = "dns" THEN m.made + 1 ELSE m.dns
    BY <1>3, <1>4, <1>5, <1>9 DEF k
  <2>2. m \in Managers /\ ConnsShape(m) /\ n \in Managers
    BY <1>9 DEF Good
  <2> QED BY <2>1, <2>2, AddedConns
<1>12. ReqsInv(n)
  <2>1. ASSUME NEW i \in m.conns PROVE n.con[i] = m.con[i] /\ i \in n.conns
    BY <1>1, <1>2, <1>4, <1>9, <1>10
  <2>2. ~n.con[k].resolving
    BY <1>10
  <2>3. \A i \in n.conns : i = k \/ i \in m.conns
    BY <1>4, <1>9
  <2> QED BY <1>9, <2>1, <2>2, <2>3 DEF ReqsInv, Good
<1>13. \A i \in Ids : i <= m.made => n.con[i] = m.con[i]
  BY <1>1, <1>10 DEF k, Ids
<1>14. Grown(m, n, {})
  <2>1. Keeps(m, n)
    BY <1>1, <1>2, <1>10, <1>13 DEF Keeps
  <2>2. Quiet(m, n, {})
    BY <1>1, <1>2, <1>10 DEF Quiet
  <2>3. ASSUME NEW i \in n.conns \ m.conns
        PROVE  i > m.made /\ n.con[i].send = <<>> /\ n.con[i].recv = <<>>
    <3>1. i = k
      BY <1>4, <1>9, <2>3
    <3> QED BY <1>1, <1>10, <3>1 DEF k
  <2>4. m.made <= n.made
    BY <1>1, <1>9 DEF k
  <2> QED BY <1>4, <1>9, <1>11, <1>12, <2>1, <2>2, <2>3, <2>4 DEF Grown, Good
<1> QED BY <1>4, <1>5, <1>9, <1>10, <1>13, <1>14 DEF k

LEMMA IdsAre == MaxConns \in Nat /\ NULL \notin Ids /\ NULL = 0 /\ \A i \in Ids : i \in Nat /\ i > 0
<1>1. MaxConns \in Nat
  BY BoundsAssumption
<1> QED BY <1>1 DEF Ids, NULL

(***************************************************************************)
(* The whole state: the manager, the connection to be visited, whether it  *)
(* is being freed, the sockets and the queries.                            *)
(***************************************************************************)
FreedFits(m, t, f) == /\ f # "no" => \A i \in m.conns : m.con[i].closing
                      /\ f = "asked" => t = NULL
                      /\ f = "done" => \A i \in m.conns : i <= t

Data(m, i) == IF m.con[i].kind = "dns" THEN Answers ELSE Nat

NetFits(m, x, a) == /\ \A i \in Ids \ m.conns : x[i] = Unused
                    /\ \A i \in Ids : x[i] \in Socket(Data(m, i))
                    /\ \A q \in a : q.to \in m.conns /\ m.con[q.to].kind = "dns"

Fits(m, t, f, x, a) ==
    /\ Good(m)
    /\ t \in Ids \cup {NULL} /\ f \in {"no", "asked", "done"}
    /\ x = [i \in Ids |-> x[i]] /\ a \subseteq Queries
    /\ t # NULL => t \in m.conns
    /\ FreedFits(m, t, f) /\ NetFits(m, x, a)

LEMMA FitsIsMgrInv == MgrInv <=> Fits(mgr, tmp, freed, net, asked)
<1>1. mgr \in Managers => (ConnsInv(mgr) <=> ConnsShape(mgr))
  BY ShapeOfConns
<1> QED BY <1>1 DEF MgrInv, TypeOK, VisitsListed, Polls, FreedInv, NetInv,
                    Fits, Good, FreedFits, NetFits, Data

EchoFor(c, x) == c.kind = "accepted" =>
                     x.out \o c.send \o c.recv \o x.in = [k \in 1 .. x.wrote |-> k]

EchoesFor(m, x) == \A i \in m.conns : EchoFor(m.con[i], x[i])

LEMMA EchoesForIsEchoesAll == EchoesAll <=> EchoesFor(mgr, net)
BY DEF EchoesAll, EchoesFor, EchoFor

LEMMA UnusedFits ==
    /\ \A S : Unused \in Socket(S)
    /\ \A c : c.send = <<>> /\ c.recv = <<>> => EchoFor(c, Unused)
<1>1. \A S : <<>> \in Seq(S)
  OBVIOUS
<1>2. \A S : Unused \in Socket(S)
  BY <1>1 DEF Unused, Socket
<1>3. [k \in 1 .. 0 |-> k] = <<>>
  OBVIOUS
<1>4. <<>> \o <<>> \o <<>> \o <<>> = <<>>
  OBVIOUS
<1>5. Unused.out = <<>> /\ Unused.in = <<>> /\ Unused.wrote = 0
  BY DEF Unused
<1> QED BY <1>2, <1>3, <1>4, <1>5 DEF EchoFor

(* The sockets fit what has been put on the list; they keep fitting when that of i alone  *)
(* has changed, and what its connection has with it.                                      *)
LEMMA SocketsKept ==
    ASSUME NEW m, NEW n, NEW x, NEW y, NEW a, NEW b, NEW S \in SUBSET m.conns, Good(m),
           NetFits(m, x, a), Grown(m, n, S),
           \A i \in Ids \ S : y[i] = x[i],
           \A i \in S : y[i] \in Socket(Data(m, i)),
           \A q \in b : q \in a \/ (q.to \in n.conns /\ n.con[q.to].kind = "dns")
    PROVE  /\ NetFits(n, y, b)
           /\ EchoesFor(m, x) /\ (\A i \in S : EchoFor(n.con[i], y[i])) => EchoesFor(n, y)
<1>1. m.conns \subseteq Ids /\ n.conns \subseteq Ids /\ m.made \in Nat /\ m.conns \subseteq 1 .. m.made
      /\ m.conns \subseteq n.conns
  BY ManagerFields DEF Good, Grown, ConnsShape
<1>2. ASSUME NEW i \in m.conns PROVE n.con[i].kind = m.con[i].kind
  BY <1>1 DEF Grown, Keeps
<1>3. ASSUME NEW i \in Ids \ n.conns PROVE y[i] = Unused
  BY <1>1, <1>3 DEF NetFits
<1>4. ASSUME NEW i \in Ids PROVE y[i] \in Socket(Data(n, i))
  <2>1. CASE i \in m.conns
    <3>1. Data(n, i) = Data(m, i)
      BY <1>2, <2>1 DEF Data
    <3> QED BY <2>1, <3>1 DEF NetFits
  <2>2. CASE i \notin m.conns
    <3>1. y[i] = Unused
      BY <2>2 DEF NetFits
    <3> QED BY <3>1, UnusedFits
  <2> QED BY <2>1, <2>2
<1>5. ASSUME NEW q \in b PROVE q.to \in n.conns /\ n.con[q.to].kind = "dns"
  BY <1>1, <1>2 DEF NetFits
<1>6. ASSUME EchoesFor(m, x), \A i \in S : EchoFor(n.con[i], y[i]), NEW i \in n.conns
      PROVE  EchoFor(n.con[i], y[i])
  <2>1. CASE i \in S
    BY <1>6, <2>1
  <2>2. CASE i \in m.conns \ S
    <3>1. y[i] = x[i] /\ n.con[i].send = m.con[i].send /\ n.con[i].recv = m.con[i].recv
          /\ n.con[i].kind = m.con[i].kind
      BY <1>1, <1>2, <2>2 DEF Grown, Quiet
    <3>2. EchoFor(m.con[i], x[i])
      BY <1>6, <2>2 DEF EchoesFor
    <3> QED BY <3>1, <3>2 DEF EchoFor
  <2>3. CASE i \notin m.conns
    <3>1. y[i] = Unused /\ n.con[i].send = <<>> /\ n.con[i].recv = <<>>
      BY <1>1, <2>3 DEF Grown, NetFits
    <3> QED BY <3>1, UnusedFits
  <2> QED BY <2>1, <2>2, <2>3
<1> QED BY <1>3, <1>4, <1>5, <1>6 DEF NetFits, EchoesFor

(* What the program does between two polls. *)
LEMMA GrownFits ==
    ASSUME NEW m, NEW x, NEW a, Fits(m, NULL, "no", x, a), NEW n, Grown(m, n, {}),
           NEW b \in SUBSET Queries,
           \A q \in b : q \in a \/ (q.to \in n.conns /\ n.con[q.to].kind = "dns")
    PROVE  /\ Fits(n, NULL, "no", x, b)
           /\ EchoesFor(m, x) => EchoesFor(n, x)
<1>1. NetFits(n, x, b) /\ (EchoesFor(m, x) => EchoesFor(n, x))
  BY SocketsKept DEF Fits
<1> QED BY <1>1 DEF Fits, Grown, FreedFits

(* The end of a visit. *)
VisitOf(m, i, f, x, a, n, y, o, t, z, b) ==
    /\ i \in Ids /\ Fits(m, i, f, x, a)
    /\ Grown(m, n, {i}) /\ (f # "no" => n.conns = m.conns)
    /\ y = [j \in Ids |-> y[j]] /\ \A j \in Ids \ {i} : y[j] = x[j]
    /\ y[i] \in Socket(Data(m, i))
    /\ o = Ended(n, i)
    /\ t \in {j \in m.conns : j < i} \cup {NULL} /\ \A j \in m.conns : j < i => j <= t
    /\ z = [j \in Ids |-> z[j]]
    /\ \A j \in Ids : z[j] = IF j \in {i} \ o.conns THEN Unused ELSE y[j]
    /\ b \subseteq a /\ \A q \in b : q.to \in o.conns

LEMMA VisitFits ==
    ASSUME NEW m, NEW i, NEW f, NEW x, NEW a, NEW n, NEW y, NEW o, NEW t, NEW z, NEW b,
           VisitOf(m, i, f, x, a, n, y, o, t, z, b)
    PROVE  /\ Fits(o, t, f, z, b)
           /\ (EchoesFor(m, x) /\ EchoFor(n.con[i], y[i]) => EchoesFor(o, z))
<1> i \in Ids
  BY DEF VisitOf
<1>0. /\ Fits(m, i, f, x, a) /\ Grown(m, n, {i}) /\ (f # "no" => n.conns = m.conns)
      /\ (\A j \in Ids \ {i} : y[j] = x[j]) /\ y[i] \in Socket(Data(m, i))
      /\ o = Ended(n, i) /\ b \subseteq a /\ \A q \in b : q.to \in o.conns
  BY DEF VisitOf
<1>1. /\ m.conns \subseteq Ids /\ n.conns \subseteq Ids /\ i \in m.conns /\ m.conns \subseteq n.conns
      /\ m.made \in Nat /\ n.made \in Nat /\ n.conns \subseteq 1 .. n.made /\ i # NULL
      /\ Good(m) /\ Good(n) /\ Keeps(m, n)
  <2>1. i # NULL
    BY IdsAre
  <2> QED BY <1>0, <2>1, ManagerFields DEF Fits, Good, Grown, ConnsShape
<1>2. /\ Good(o) /\ Keeps(n, o) /\ Quiet(n, o, {}) /\ o.made = n.made
      /\ o.conns \in {n.conns, n.conns \ {i}}
      /\ n.con[i].closing => o.conns = n.conns \ {i}
  BY <1>0, <1>1, EndedGood
<1>3. NetFits(n, y, a) /\ (EchoesFor(m, x) /\ EchoFor(n.con[i], y[i]) => EchoesFor(n, y))
  <2>1. {i} \in SUBSET m.conns /\ NetFits(m, x, a)
    BY <1>0, <1>1 DEF Fits
  <2>2. \A j \in {i} : y[j] \in Socket(Data(m, j))
    BY <1>0
  <2>3. PICK S \in SUBSET m.conns : S = {i}
    BY <2>1
  <2>4. /\ Good(m) /\ Grown(m, n, S) /\ (\A j \in Ids \ S : y[j] = x[j])
        /\ (\A j \in S : y[j] \in Socket(Data(m, j)))
        /\ (\A q \in a : q \in a \/ (q.to \in n.conns /\ n.con[q.to].kind = "dns"))
    BY <1>0, <1>1, <2>2, <2>3
  <2>5. /\ NetFits(n, y, a)
        /\ (EchoesFor(m, x) /\ (\A j \in S : EchoFor(n.con[j], y[j])) => EchoesFor(n, y))
    BY <2>1, <2>4, SocketsKept
  <2> QED BY <2>3, <2>5
<1>4. t \in {j \in m.conns : j < i} \cup {NULL} /\ \A j \in m.conns : j < i => j <= t
  BY DEF VisitOf
<1>5. t \in Ids \cup {NULL} /\ (t # NULL => t \in o.conns)
  <2>1. CASE t = NULL
    BY <2>1
  <2>2. CASE t \in {j \in m.conns : j < i}
    <3>1. t \in m.conns /\ t # i
      <4>1. t \in m.conns /\ t < i
        BY <2>2
      <4>2. i \in Nat /\ t \in Nat
        BY <1>1, <4>1, IdsAre
      <4>3. \A j, k \in Nat : j < k => j # k
        OBVIOUS
      <4> QED BY <4>1, <4>2, <4>3
    <3> QED BY <1>1, <1>2, <3>1
  <2> QED BY <1>4, <2>1, <2>2
<1>6. z = [j \in Ids |-> z[j]] /\ \A j \in Ids : z[j] = IF j \in {i} \ o.conns THEN Unused ELSE y[j]
  BY DEF VisitOf
<1>7. \A j \in o.conns : o.con[j].kind = n.con[j].kind /\ o.con[j].send = n.con[j].send
                         /\ o.con[j].recv = n.con[j].recv /\ (n.con[j].closing => o.con[j].closing)
  BY <1>1, <1>2 DEF Keeps, Quiet
<1>8. NetFits(o, z, b)
  <2>1. ASSUME NEW j \in Ids \ o.conns PROVE z[j] = Unused
    BY <1>1, <1>2, <1>3, <1>6 DEF NetFits
  <2>2. ASSUME NEW j \in Ids PROVE z[j] \in Socket(Data(o, j))
    <3>1. CASE j \in o.conns
      BY <1>2, <1>3, <1>6, <1>7, <3>1 DEF NetFits, Data
    <3>2. CASE j \notin o.conns
      BY <2>1, <3>2, UnusedFits
    <3> QED BY <3>1, <3>2
  <2>3. ASSUME NEW q \in b PROVE q.to \in o.conns /\ o.con[q.to].kind = "dns"
    BY <1>0, <1>3, <1>7 DEF NetFits
  <2> QED BY <2>1, <2>2, <2>3 DEF NetFits
<1>9. FreedFits(o, t, f)
  <2>1. CASE f = "no"
    BY <2>1 DEF FreedFits
  <2>2. CASE f # "no"
    <3>1. f = "done" /\ \A j \in m.conns : m.con[j].closing /\ j <= i
      BY <1>0, <1>1, <2>2 DEF Fits, FreedFits
    <3>2. n.con[i].closing /\ o.conns = m.conns \ {i}
      BY <1>0, <1>1, <1>2, <2>2, <3>1 DEF Keeps
    <3>3. ASSUME NEW j \in o.conns PROVE o.con[j].closing /\ j <= t
      <4>1. j \in m.conns /\ j # i /\ j <= i /\ j \in Nat /\ i \in Nat
        BY <1>1, <3>1, <3>2, IdsAre
      <4>2. j < i
        BY <4>1
      <4> QED BY <1>1, <1>4, <1>7, <3>1, <4>1, <4>2 DEF Keeps
    <3> QED BY <3>1, <3>3 DEF FreedFits
  <2> QED BY <2>1, <2>2
<1>10. ASSUME EchoesFor(n, y), NEW j \in o.conns PROVE EchoFor(o.con[j], z[j])
  <2>1. j \in n.conns /\ j \in Ids /\ z[j] = y[j]
    BY <1>1, <1>2, <1>6
  <2> QED BY <1>7, <1>10, <2>1 DEF EchoesFor, EchoFor
<1>11. f \in {"no", "asked", "done"} /\ b \subseteq Queries
  BY <1>0 DEF Fits
<1>12. EchoesFor(n, y) => EchoesFor(o, z)
  BY <1>10 DEF EchoesFor
<1> QED BY <1>2, <1>3, <1>5, <1>6, <1>8, <1>9, <1>11, <1>12 DEF Fits

(***************************************************************************)
(* The steps.                                                              *)
(***************************************************************************)
Now == Fits(mgr, tmp, freed, net, asked)

Stays == /\ Fits(mgr', tmp', freed', net', asked')
         /\ EchoesFor(mgr, net) => EchoesFor(mgr', net')

LEMMA NewConn ==
    ASSUME NEW kind \in {"client", "dns"}, NEW c, c = Call(Made(kind), "OPEN")
    PROVE  Unconnected(c) /\ c.kind = kind /\ ~c.resolving /\ c.send = <<>> /\ c.recv = <<>>
<1>1. kind \in Kinds
  BY DEF Kinds
<1> DEFINE d == Made(kind)
<1>2. /\ d \in Conn /\ d.kind = kind /\ d.told = <<>> /\ ~d.resolving /\ ~d.connecting
      /\ d.send = <<>> /\ d.recv = <<>>
  BY <1>1, MadeFields
<1> HIDE DEF d
<1>3. /\ Open(c) /\ c.kind = d.kind /\ ~Within(c.told, "CONNECT") /\ ~Within(c.told, "RESOLVE")
      /\ ~c.resolving /\ ~c.connecting /\ c.send = d.send /\ c.recv = d.recv
  BY <1>2, OpenedOpen DEF d
<1> QED BY <1>2, <1>3 DEF Unconnected

LEMMA ConnectToStays ==
    ASSUME Now, NEW r \in Results, ConnectTo(r), ~Polls, freed = "no", UNCHANGED <<tmp, freed, net>>
    PROVE  Stays
<1>1. PICK c : c = Call(Made("client"), "OPEN")
  OBVIOUS
<1>2. PICK d : d = ConnectResolved(c, r)
  OBVIOUS
<1>3. Unconnected(c) /\ c.kind = "client" /\ c.send = <<>> /\ c.recv = <<>>
  BY <1>1, NewConn
<1>4. Open(d) /\ ~d.resolving /\ d.kind = "client" /\ d.send = <<>> /\ d.recv = <<>>
  BY <1>2, <1>3, ConnectResolvedOpen DEF Follows
<1>5. PICK m : m = mgr
  OBVIOUS
<1>6. PICK n : n = mgr'
  OBVIOUS
<1>7. Fits(m, NULL, "no", net, asked)
  BY <1>5 DEF Now, Polls
<1>8. n = Alloc(m, d) /\ m.made < MaxConns
  <2>1. m.made + 1 <= MaxConns /\ n = Alloc(m, d)
    BY <1>1, <1>2, <1>5, <1>6 DEF ConnectTo, MayMake
  <2>2. m.made \in Nat
    BY <1>7, ManagerFields DEF Fits, Good
  <2> QED BY <2>1, <2>2, IdsAre
<1>9. Grown(m, n, {})
  <2>1. n = Added(m, d)
    BY <1>4, <1>8 DEF Added
  <2>2. Good(m)
    BY <1>7 DEF Fits
  <2> QED BY <1>4, <1>8, <2>1, <2>2, AddedGood
<1>10. asked \subseteq Queries
  BY <1>7 DEF Fits
<1>11. Fits(n, NULL, "no", net, asked) /\ (EchoesFor(m, net) => EchoesFor(n, net))
  BY <1>7, <1>9, <1>10, GrownFits
<1> QED BY <1>5, <1>6, <1>11 DEF Stays, Polls, ConnectTo

(* The connection to the name server: that which there is, or a new one. *)
LEMMA WithDnsGood ==
    ASSUME NEW m, Good(m), NEW u \in {"none", "ok"}, m.dns = NULL => m.made < MaxConns,
           NEW n, n = WithDns(m, u)
    PROVE  /\ Grown(m, n, {}) /\ n.reqs = m.reqs
           /\ n.dns \in n.conns /\ n.con[n.dns].kind = "dns"
           /\ \A i \in m.conns : n.con[i] = m.con[i]
<1>1. CASE m.dns # NULL
  <2>1. n = m
    BY <1>1 DEF WithDns
  <2>2. m.dns \in m.conns /\ m.con[m.dns].kind = "dns"
    BY <1>1 DEF Good, ConnsShape
  <2>3. m.made <= m.made
    BY ManagerFields DEF Good
  <2> QED BY <2>1, <2>2, <2>3 DEF Grown, Keeps, Quiet
<1>2. CASE m.dns = NULL
  <2>1. PICK c : c = Call(Made("dns"), "OPEN")
    OBVIOUS
  <2>2. PICK d : d = ConnectResolved(c, u)
    OBVIOUS
  <2>3. Unconnected(c) /\ c.kind = "dns" /\ c.send = <<>> /\ c.recv = <<>>
    BY <2>1, NewConn
  <2>4. u \in Results
    BY DEF Results
  <2>5. Open(d) /\ ~d.resolving /\ d.kind = "dns" /\ d.send = <<>> /\ d.recv = <<>>
    BY <2>2, <2>3, <2>4, ConnectResolvedOpen DEF Follows
  <2>6. n = [Alloc(m, d) EXCEPT !.dns = m.made + 1]
    BY <1>2, <2>1, <2>2 DEF WithDns
  <2>7. n = Added(m, d)
    BY <2>5, <2>6 DEF Added
  <2>8. /\ Grown(m, n, {}) /\ n.conns = m.conns \cup {m.made + 1}
        /\ n.reqs = m.reqs /\ n.dns = m.made + 1 /\ n.con[m.made + 1] = d
        /\ \A i \in Ids : i <= m.made => n.con[i] = m.con[i]
    <3>1. m.made < MaxConns /\ (d.kind = "dns" => m.dns = NULL)
      BY <1>2
    <3>2. /\ Grown(m, n, {}) /\ n.conns = m.conns \cup {m.made + 1}
          /\ n.reqs = m.reqs /\ n.dns = IF d.kind = "dns" THEN m.made + 1 ELSE m.dns
          /\ n.con[m.made + 1] = d
          /\ \A i \in Ids : i <= m.made => n.con[i] = m.con[i]
      BY <2>5, <2>7, <3>1, AddedGood
    <3> QED BY <2>5, <3>2
  <2>9. \A i \in m.conns : i \in Ids /\ i <= m.made
    BY ManagerFields DEF Good, ConnsShape
  <2> QED BY <2>5, <2>8, <2>9
<1> QED BY <1>1, <1>2

(* mg_sendnsreq: one more request, for a connection that has just been made. *)
LEMMA SendNsReqGood ==
    ASSUME NEW m, Good(m), NEW i \in m.conns, Unconnected(m.con[i]), m.con[i].kind = "client",
           ~m.con[i].resolving, m.dns \in m.conns, m.con[m.dns].kind = "dns",
           \A d \in m.reqs : d.c < i,
           NEW sent \in BOOLEAN, NEW n, n = SendNsReq(m, i, sent)
    PROVE  /\ Grown(m, n, {}) /\ n.conns = m.conns
           /\ Request(m, i).txnid \in Nat
<1>1. /\ m \in Managers /\ m.conns \subseteq Ids /\ m.con \in [Ids -> Conn] /\ i \in Ids /\ i \in Nat
      /\ m.reqs \subseteq Requests /\ m.made \in Nat /\ i > 0
  BY ManagerFields, IdsAre DEF Good
<1>2. PICK q : q = Request(m, i)
  OBVIOUS
<1>3. q \in Requests /\ q.c = i /\ q.txnid <= i /\ q.txnid \in Nat /\ \A d \in m.reqs : d.txnid < q.txnid
  <2>0. PICK x : x = IF m.reqs = {} THEN 1 ELSE HeadOf(m.reqs).txnid + 1
    OBVIOUS
  <2>1. q = [c |-> i, late |-> FALSE, txnid |-> x] /\ q.c = i /\ q.txnid = x
    BY <1>2, <2>0 DEF Request
  <2>2. CASE m.reqs = {}
    <3>1. x = 1
      BY <2>0, <2>2
    <3>2. x \in Nat /\ x <= i
      BY <1>1, <3>1
    <3>3. q \in Requests
      BY <1>1, <2>1, <3>2 DEF Requests
    <3> QED BY <2>1, <2>2, <3>2, <3>3
  <2>3. CASE m.reqs # {}
    <3>1. PICK h \in m.reqs : h = HeadOf(m.reqs) /\ \A e \in m.reqs : e.txnid <= h.txnid
      BY <2>3, HeadOfReqs
    <3>2. h.txnid \in Nat /\ h.c \in Nat /\ h.txnid <= h.c /\ h.c < i
      BY <1>1, IdsAre DEF Requests, Good, ReqsInv
    <3>3. x = h.txnid + 1
      BY <2>0, <2>3, <3>1
    <3>4. \A e \in m.reqs : e.txnid \in Nat
      BY <1>1 DEF Requests
    <3>5. x \in Nat /\ x <= i /\ \A d \in m.reqs : d.txnid < x
      BY <1>1, <3>1, <3>2, <3>3, <3>4
    <3>6. q \in Requests
      BY <1>1, <2>1, <3>5 DEF Requests
    <3> QED BY <2>1, <3>5, <3>6
  <2> QED BY <2>2, <2>3
<1>4. PICK c : c = [m.con[i] EXCEPT !.resolving = TRUE]
  OBVIOUS
<1>5. /\ c \in Conn /\ c.resolving /\ c.told = m.con[i].told /\ c.kind = m.con[i].kind
      /\ c.closing = m.con[i].closing /\ c.connecting = m.con[i].connecting
      /\ c.send = m.con[i].send /\ c.recv = m.con[i].recv
  BY <1>1, <1>4 DEF Conn
<1>6. Follows(m.con[i], c)
  BY <1>5 DEF Follows, Open, Unconnected, ToldInv
<1>7. PICK f \in [Ids -> Conn] : f = [m.con EXCEPT ![i] = c]
  BY <1>1, <1>5
<1>8. PICK R \in SUBSET Requests : R = m.reqs \cup {q}
  BY <1>1, <1>3
<1>9. PICK o : o = [m EXCEPT !.reqs = R, !.con = f]
  OBVIOUS
<1>10. o = [m EXCEPT !.reqs = @ \cup {Request(m, i)}, !.con[i].resolving = TRUE]
  BY <1>2, <1>4, <1>7, <1>8, <1>9
<1>11. /\ o \in Managers /\ o.made = m.made /\ o.conns = m.conns /\ o.dns = m.dns
       /\ o.reqs = R /\ o.con = f
  BY <1>1, <1>9 DEF Managers
<1>12. o.con[i] = c /\ \A j \in Ids : j # i => o.con[j] = m.con[j]
  BY <1>1, <1>7, <1>11
<1>13. \A j \in Ids : o.con[j] = m.con[j] \/ (j \in m.conns /\ Follows(m.con[j], o.con[j]))
  BY <1>6, <1>12
<1>14. /\ ConnsShape(o)
       /\ \A j \in Ids : o.con[j].kind = m.con[j].kind /\ (m.con[j].closing => o.con[j].closing)
  BY <1>1, <1>11, <1>13, ChangedConns DEF Good
<1>15. ReqsInv(o)
  <2>1. ASSUME NEW d \in o.reqs
        PROVE  d.c \in o.conns /\ o.con[d.c].resolving /\ d.txnid <= d.c
    <3>1. CASE d = q
      BY <1>3, <1>5, <1>11, <1>12, <3>1
    <3>2. CASE d \in m.reqs
      <4>1. d.c \in m.conns /\ m.con[d.c].resolving /\ d.txnid <= d.c
        BY <3>2 DEF Good, ReqsInv
      <4>2. d.c # i /\ d.c \in Ids
        BY <1>1, <4>1
      <4> QED BY <1>11, <1>12, <4>1, <4>2
    <3> QED BY <1>8, <1>11, <2>1, <3>1, <3>2
  <2>2. ASSUME NEW d \in o.reqs, NEW e \in o.reqs, d.c = e.c \/ d.txnid = e.txnid PROVE d = e
    <3>1. CASE d \in m.reqs /\ e \in m.reqs
      BY <2>2, <3>1 DEF Good, ReqsInv
    <3>2. ASSUME NEW g \in m.reqs PROVE g.c # q.c /\ g.txnid # q.txnid
      <4>1. g.c < i /\ g.c \in Nat /\ g.txnid < q.txnid /\ g.txnid \in Nat
        BY <1>1, <1>3, IdsAre DEF Requests
      <4> QED BY <1>1, <1>3, <4>1
    <3>3. (d \in m.reqs \/ d = q) /\ (e \in m.reqs \/ e = q)
      BY <1>8, <1>11
    <3> QED BY <2>2, <3>1, <3>2, <3>3
  <2>3. ASSUME NEW j \in o.conns, o.con[j].resolving, ~o.con[j].closing
        PROVE  j \in Owners(o.reqs)
    <3>1. CASE j = i
      BY <1>3, <1>8, <1>11, <3>1 DEF Owners
    <3>2. CASE j # i
      <4>1. j \in Owners(m.reqs)
        BY <1>1, <1>11, <1>12, <2>3, <3>2 DEF Good, ReqsInv
      <4> QED BY <1>8, <1>11, <4>1 DEF Owners
    <3> QED BY <3>1, <3>2
  <2> QED BY <2>1, <2>2, <2>3 DEF ReqsInv
<1>16. Good(o) /\ \A j \in m.conns : o.con[j].send = m.con[j].send /\ o.con[j].recv = m.con[j].recv
  BY <1>1, <1>5, <1>11, <1>12, <1>14, <1>15 DEF Good
<1>17. CASE sent
  <2>1. n = o
    BY <1>10, <1>17 DEF SendNsReq
  <2>2. Keeps(m, o) /\ Quiet(m, o, {})
    BY <1>1, <1>14, <1>16 DEF Keeps, Quiet
  <2>3. m.made <= o.made
    BY <1>1, <1>11
  <2> QED BY <1>2, <1>3, <1>11, <1>16, <2>1, <2>2, <2>3 DEF Grown
<1>18. CASE ~sent
  <2>1. o.dns \in o.conns /\ Open(o.con[o.dns])
    BY <1>11, <1>16 DEF Good, ConnsShape
  <2>2. PICK k \in o.conns : k = o.dns
    BY <2>1
  <2>3. PICK d : d = Error(o.con[k])
    OBVIOUS
  <2>4. Follows(o.con[k], d) /\ d.resolving = o.con[k].resolving
        /\ d.send = o.con[k].send /\ d.recv = o.con[k].recv
    BY <2>1, <2>2, <2>3, ErrorOpen
  <2>5. n = With(o, k, d)
    BY <1>10, <1>18, <2>2, <2>3 DEF SendNsReq
  <2>6. Good(n) /\ Keeps(o, n) /\ Quiet(o, n, {k}) /\ n.conns = o.conns /\ n.con[k] = d
        /\ n.made = o.made
    <3>1. Good(o)
      BY <1>16
    <3>2. /\ Good(With(o, k, d)) /\ Keeps(o, With(o, k, d)) /\ Quiet(o, With(o, k, d), {k})
          /\ With(o, k, d).conns = o.conns /\ With(o, k, d).con[k] = d
          /\ With(o, k, d).made = o.made
      BY <2>4, <3>1, WithGood
    <3> QED BY <2>5, <3>2
  <2>7. \A j \in m.conns : n.con[j].send = m.con[j].send /\ n.con[j].recv = m.con[j].recv
    BY <1>11, <1>16, <2>4, <2>6 DEF Quiet
  <2>8. Keeps(m, n)
    BY <1>1, <1>11, <1>14, <2>6 DEF Keeps
  <2>9. m.made <= n.made
    BY <1>1, <1>11, <2>6
  <2> QED BY <1>2, <1>3, <1>11, <2>6, <2>7, <2>8, <2>9 DEF Grown, Quiet
<1> QED BY <1>17, <1>18

LEMMA LookUpStays ==
    ASSUME Now, NEW r \in {"none", "ok"}, NEW sent \in BOOLEAN, LookUp(r, sent),
           ~Polls, freed = "no", UNCHANGED <<tmp, freed, net>>
    PROVE  Stays
<1>1. PICK c : c = Call(Made("client"), "OPEN")
  OBVIOUS
<1>2. PICK m : m = mgr
  OBVIOUS
<1>3. PICK n : n = mgr'
  OBVIOUS
<1>4. PICK k : k = m.made + 1
  OBVIOUS
<1>5. PICK a : a = Alloc(m, c)
  OBVIOUS
<1>6. PICK w : w = WithDns(a, r)
  OBVIOUS
<1>7. /\ MayMake(IF m.dns = NULL THEN 2 ELSE 1) /\ n = SendNsReq(w, k, sent)
      /\ asked' = IF sent THEN asked \cup {[txnid |-> Request(w, k).txnid, to |-> w.dns]} ELSE asked
  BY <1>1, <1>2, <1>3, <1>4, <1>5, <1>6 DEF LookUp
<1>8. Fits(m, NULL, "no", net, asked) /\ Good(m) /\ m.made \in Nat /\ asked \subseteq Queries
  BY <1>2, ManagerFields DEF Now, Polls, Fits, Good
<1>9. m.made < MaxConns /\ (m.dns = NULL => m.made + 1 < MaxConns)
  <2>1. m.made + (IF m.dns = NULL THEN 2 ELSE 1) <= MaxConns
    BY <1>2, <1>7 DEF MayMake
  <2> QED BY <1>8, <2>1, IdsAre
<1>10. Unconnected(c) /\ c.kind = "client" /\ ~c.resolving /\ c.send = <<>> /\ c.recv = <<>>
  BY <1>1, NewConn
<1>11. /\ Grown(m, a, {}) /\ a.made = k /\ a.conns = m.conns \cup {k}
       /\ a.reqs = m.reqs /\ a.dns = m.dns /\ a.con[k] = c
  <2>1. a = Added(m, c)
    BY <1>5, <1>10 DEF Added
  <2>2. Open(c) /\ c.kind # "dns"
    BY <1>10 DEF Unconnected
  <2>3. /\ Grown(m, a, {}) /\ a.made = m.made + 1 /\ a.conns = m.conns \cup {m.made + 1}
        /\ a.reqs = m.reqs /\ a.dns = IF c.kind = "dns" THEN m.made + 1 ELSE m.dns
        /\ a.con[m.made + 1] = c
    BY <1>8, <1>9, <1>10, <2>1, <2>2, AddedGood
  <2> QED BY <1>4, <2>2, <2>3
<1>12. /\ Grown(a, w, {}) /\ w.reqs = a.reqs
       /\ w.dns \in w.conns /\ w.con[w.dns].kind = "dns"
       /\ \A i \in a.conns : w.con[i] = a.con[i]
  <2>1. Good(a) /\ (a.dns = NULL => a.made < MaxConns)
    BY <1>4, <1>9, <1>11 DEF Grown
  <2> QED BY <1>6, <2>1, WithDnsGood
<1>13. /\ Good(w) /\ k \in w.conns /\ w.con[k] = c
  BY <1>11, <1>12 DEF Grown
<1>14. \A d \in w.reqs : d.c < k
  <2>1. ASSUME NEW d \in m.reqs PROVE d.c < k
    <3>1. d.c \in m.conns
      BY <1>8 DEF Good, ReqsInv
    <3>2. d.c \in 1 .. m.made
      BY <1>8, <3>1 DEF Good, ConnsShape
    <3> QED BY <1>4, <1>8, <3>2
  <2> QED BY <1>11, <1>12, <2>1
<1>15. Grown(w, n, {}) /\ n.conns = w.conns /\ Request(w, k).txnid \in Nat
  BY <1>7, <1>10, <1>12, <1>13, <1>14, SendNsReqGood
<1>16. Grown(m, n, {})
  <2>1. Grown(m, w, {})
    BY <1>8, <1>11, <1>12, GrownTwice
  <2> QED BY <1>8, <1>15, <2>1, GrownTwice
<1>17. PICK q : q = [txnid |-> Request(w, k).txnid, to |-> w.dns]
  OBVIOUS
<1>18. q \in Queries /\ q.to \in n.conns /\ n.con[q.to].kind = "dns"
  <2>1. w.dns \in Ids /\ w.dns <= w.made
    <3>1. w.conns \subseteq Ids /\ w.conns \subseteq 1 .. w.made
      BY <1>13, ManagerFields DEF Good, ConnsShape
    <3> QED BY <1>12, <3>1
  <2>2. q.to = w.dns /\ q \in Queries
    BY <1>15, <1>17, <2>1 DEF Queries
  <2> QED BY <1>12, <1>15, <2>1, <2>2 DEF Grown, Keeps
<1>19. PICK b \in SUBSET Queries : b = asked'
  BY <1>7, <1>8, <1>17, <1>18
<1>20. \A e \in b : e \in asked \/ (e.to \in n.conns /\ n.con[e.to].kind = "dns")
  BY <1>7, <1>17, <1>18, <1>19
<1>21. Fits(n, NULL, "no", net, b) /\ (EchoesFor(m, net) => EchoesFor(n, net))
  BY <1>8, <1>16, <1>20, GrownFits
<1> QED BY <1>2, <1>3, <1>19, <1>21 DEF Stays, Polls

LEMMA ConnectStays ==
    ASSUME Now, NEW r \in Results, NEW sent \in BOOLEAN, NEW named \in BOOLEAN, Connect(r, sent, named)
    PROVE  Stays
<1>1. CASE named
  BY <1>1, LookUpStays DEF Connect
<1>2. CASE ~named
  BY <1>2, ConnectToStays DEF Connect
<1> QED BY <1>1, <1>2

LEMMA ListenStays ==
    ASSUME Now, Listen
    PROVE  Stays
<1>1. PICK l : l = [Made("listener") EXCEPT !.fd = TRUE]
  OBVIOUS
<1>2. PICK c : c = Call(l, "OPEN")
  OBVIOUS
<1>3. PICK m : m = mgr
  OBVIOUS
<1>4. PICK n : n = mgr'
  OBVIOUS
<1>5. Fits(m, NULL, "no", net, asked) /\ Good(m) /\ m.made \in Nat /\ asked \subseteq Queries
  BY <1>3, ManagerFields DEF Now, Polls, Fits, Good, Listen
<1>6. n = Alloc(m, c) /\ m.made < MaxConns
  <2>1. m.made + 1 <= MaxConns /\ n = Alloc(m, c)
    BY <1>1, <1>2, <1>3, <1>4 DEF Listen, MayMake
  <2> QED BY <1>5, <2>1, IdsAre
<1>7. /\ l \in Conn /\ l.kind = "listener" /\ l.told = <<>> /\ ~l.resolving /\ ~l.connecting
      /\ l.send = <<>> /\ l.recv = <<>>
  BY <1>1, MadeFields DEF Conn, Kinds
<1>8. Open(c) /\ ~c.resolving /\ c.kind = "listener" /\ c.send = <<>> /\ c.recv = <<>>
  BY <1>2, <1>7, OpenedOpen
<1>9. Grown(m, n, {})
  <2>1. n = Added(m, c)
    BY <1>6, <1>8 DEF Added
  <2> QED BY <1>5, <1>6, <1>8, <2>1, AddedGood
<1>10. Fits(n, NULL, "no", net, asked) /\ (EchoesFor(m, net) => EchoesFor(n, net))
  BY <1>5, <1>9, GrownFits
<1> QED BY <1>3, <1>4, <1>10 DEF Stays, Polls, Listen

LEMMA WithGrown ==
    ASSUME NEW m, Good(m), NEW i \in m.conns, NEW c, Follows(m.con[i], c),
           c.resolving = m.con[i].resolving
    PROVE  /\ Grown(m, With(m, i, c), {i}) /\ With(m, i, c).conns = m.conns
           /\ With(m, i, c).con[i] = c
           /\ (c.send = m.con[i].send /\ c.recv = m.con[i].recv => Grown(m, With(m, i, c), {}))
<1>1. PICK n : n = With(m, i, c)
  OBVIOUS
<1>2. /\ Good(n) /\ Keeps(m, n) /\ Quiet(m, n, {i}) /\ n.conns = m.conns /\ n.con[i] = c
      /\ n.made = m.made
  BY <1>1, WithGood
<1>3. m.made <= n.made
  BY <1>2, ManagerFields DEF Good
<1>4. c.send = m.con[i].send /\ c.recv = m.con[i].recv => Quiet(m, n, {})
  BY <1>2 DEF Quiet
<1> QED BY <1>1, <1>2, <1>3, <1>4 DEF Grown

LEMMA EndStays ==
    ASSUME Now, NEW i \in Ids, NEW drain \in BOOLEAN, End(i, drain)
    PROVE  Stays
<1>1. PICK m : m = mgr
  OBVIOUS
<1>2. PICK n : n = mgr'
  OBVIOUS
<1>3. Fits(m, NULL, "no", net, asked) /\ Good(m) /\ asked \subseteq Queries
  BY <1>1 DEF Now, Polls, Fits, End
<1>4. PICK c : c = IF drain THEN [m.con[i] EXCEPT !.draining = TRUE] ELSE Doomed(m.con[i])
  OBVIOUS
<1>5. n = With(m, i, c) /\ i \in m.conns
  BY <1>1, <1>2, <1>4 DEF End
<1>6. Open(m.con[i]) /\ m.con[i] \in Conn
  BY <1>3, <1>5 DEF Good, ConnsShape, Open
<1>7. /\ c \in Conn /\ c.told = m.con[i].told /\ c.kind = m.con[i].kind
      /\ (m.con[i].closing => c.closing) /\ c.resolving = m.con[i].resolving
      /\ c.connecting = m.con[i].connecting
      /\ c.send = m.con[i].send /\ c.recv = m.con[i].recv
  <2>1. CASE drain
    BY <1>4, <1>6, <2>1 DEF Conn
  <2>2. CASE ~drain
    BY <1>4, <1>6, <2>2, DoomedOpen
  <2> QED BY <2>1, <2>2
<1>8. Follows(m.con[i], c)
  BY <1>6, <1>7, SameOpen
<1>9. Grown(m, n, {})
  BY <1>3, <1>5, <1>7, <1>8, WithGrown
<1>10. Fits(n, NULL, "no", net, asked) /\ (EchoesFor(m, net) => EchoesFor(n, net))
  BY <1>3, <1>9, GrownFits
<1> QED BY <1>1, <1>2, <1>10 DEF Stays, Polls, End

(* A step that changes every connection, but none in what waits, was sent or received. *)
LEMMA AllChanged ==
    ASSUME NEW m, Good(m), NEW n \in Managers,
           n.made = m.made, n.conns = m.conns, n.dns = m.dns, n.reqs = m.reqs,
           \A i \in m.conns : /\ Follows(m.con[i], n.con[i])
                              /\ n.con[i].resolving = m.con[i].resolving
                              /\ n.con[i].send = m.con[i].send /\ n.con[i].recv = m.con[i].recv,
           \A i \in (1 .. m.made) \ m.conns : Shut(n.con[i]) /\ n.con[i].kind = m.con[i].kind,
           \A i \in Ids : i > m.made => n.con[i] = Made("none")
    PROVE  Grown(m, n, {})
<1>1. /\ m \in Managers /\ m.made \in Nat /\ m.conns \subseteq Ids /\ m.conns \subseteq 1 .. m.made
      /\ 1 .. m.made \subseteq Ids
  BY ManagerFields DEF Good, ConnsShape
<1>2. ConnsShape(n)
  <2>1. ASSUME NEW i \in n.conns PROVE Open(n.con[i]) /\ (n.con[i].kind = "dns" <=> n.dns = i)
    BY DEF Follows, Good, ConnsShape
  <2>2. n.conns \subseteq 1 .. n.made /\ n.dns \in n.conns \cup {NULL}
    BY DEF Good, ConnsShape
  <2> QED BY <2>1, <2>2 DEF ConnsShape
<1>3. ReqsInv(n)
  <2>1. ASSUME NEW d \in n.reqs PROVE d.c \in n.conns /\ n.con[d.c].resolving /\ d.txnid <= d.c
    BY DEF Good, ReqsInv
  <2>2. \A d, e \in n.reqs : d.c = e.c \/ d.txnid = e.txnid => d = e
    BY DEF Good, ReqsInv
  <2>3. ASSUME NEW i \in n.conns, n.con[i].resolving, ~n.con[i].closing PROVE i \in Owners(n.reqs)
    BY <2>3 DEF Good, ReqsInv, Follows
  <2> QED BY <2>1, <2>2, <2>3 DEF ReqsInv
<1>4. Keeps(m, n)
  <2>1. ASSUME NEW i \in Ids, i <= m.made PROVE n.con[i].kind = m.con[i].kind
    <3>1. i \in 1 .. m.made
      BY <1>1, <2>1, IdsAre
    <3> QED BY <3>1 DEF Follows
  <2> QED BY <2>1 DEF Keeps, Follows
<1>5. Quiet(m, n, {}) /\ m.made <= n.made
  BY <1>1 DEF Quiet
<1> QED BY <1>2, <1>3, <1>4, <1>5 DEF Grown, Good

LEMMA FreeStays ==
    ASSUME Now, Free
    PROVE  Stays
<1>1. PICK m : m = mgr
  OBVIOUS
<1>2. PICK n : n = mgr'
  OBVIOUS
<1>3. Fits(m, NULL, "no", net, asked) /\ Good(m) /\ asked \subseteq Queries
  BY <1>1 DEF Now, Polls, Fits, Free
<1>4. PICK f : f = [i \in Ids |-> IF i \in m.conns THEN Doomed(m.con[i]) ELSE m.con[i]]
  OBVIOUS
<1>5. /\ m \in Managers /\ m.made \in Nat /\ m.conns \subseteq Ids /\ m.con \in [Ids -> Conn]
      /\ 1 .. m.made \subseteq Ids
  BY <1>3, ManagerFields DEF Good
<1>6. \A i \in Ids : f[i] = IF i \in m.conns THEN Doomed(m.con[i]) ELSE m.con[i]
  BY <1>4
<1>7. f \in [Ids -> Conn]
  BY <1>4, <1>5, DoomedOpen
<1>8. n = [m EXCEPT !.con = f]
  BY <1>1, <1>2, <1>4 DEF Free
<1>9. /\ n \in Managers /\ n.made = m.made /\ n.conns = m.conns /\ n.dns = m.dns /\ n.reqs = m.reqs
      /\ n.con = f
  BY <1>5, <1>7, <1>8 DEF Managers
<1>10. ASSUME NEW i \in m.conns
       PROVE  /\ Follows(m.con[i], n.con[i]) /\ n.con[i].resolving = m.con[i].resolving
              /\ n.con[i].send = m.con[i].send /\ n.con[i].recv = m.con[i].recv
              /\ n.con[i].closing
  <2>1. n.con[i] = Doomed(m.con[i]) /\ Open(m.con[i]) /\ m.con[i] \in Conn
    BY <1>3, <1>5, <1>6, <1>9 DEF Good, ConnsShape, Open
  <2> QED BY <2>1, DoomedOpen, SameOpen
<1>11. \A i \in Ids : i \notin m.conns => n.con[i] = m.con[i]
  BY <1>6, <1>9
<1>12. Grown(m, n, {})
  <2>1. \A i \in (1 .. m.made) \ m.conns : Shut(n.con[i]) /\ n.con[i].kind = m.con[i].kind
    BY <1>3, <1>5, <1>11 DEF Good, ConnsShape
  <2>2. \A i \in Ids : i > m.made => n.con[i] = Made("none")
    <3>1. \A i \in Ids : i > m.made => i \notin m.conns
      BY <1>3, <1>5 DEF Good, ConnsShape
    <3> QED BY <1>3, <1>11, <3>1 DEF Good, ConnsShape
  <2> QED BY <1>3, <1>9, <1>10, <2>1, <2>2, AllChanged
<1>13. Fits(n, NULL, "no", net, asked) /\ (EchoesFor(m, net) => EchoesFor(n, net))
  BY <1>3, <1>12, GrownFits
<1>14. Fits(n, NULL, "asked", net, asked)
  BY <1>9, <1>10, <1>13 DEF Fits, FreedFits
<1> QED BY <1>1, <1>2, <1>13, <1>14 DEF Stays, Polls, Free

(* What select() tells of a connection. *)
Told(c, r, w) == [c EXCEPT !.readable = r, !.writable = w]

LEMMA ToldFields ==
    ASSUME NEW c \in Conn, NEW r \in BOOLEAN, NEW w \in BOOLEAN
    PROVE  /\ Told(c, r, w) \in Conn /\ Told(c, r, w).told = c.told /\ Told(c, r, w).kind = c.kind
           /\ Told(c, r, w).closing = c.closing /\ Told(c, r, w).resolving = c.resolving
           /\ Told(c, r, w).connecting = c.connecting
           /\ Told(c, r, w).send = c.send /\ Told(c, r, w).recv = c.recv
           /\ c = Made("none") /\ ~r /\ ~w => Told(c, r, w) = c
<1>1. /\ Told(c, r, w) \in Conn /\ Told(c, r, w).told = c.told /\ Told(c, r, w).kind = c.kind
      /\ Told(c, r, w).closing = c.closing /\ Told(c, r, w).resolving = c.resolving
      /\ Told(c, r, w).connecting = c.connecting
      /\ Told(c, r, w).send = c.send /\ Told(c, r, w).recv = c.recv
  BY DEF Told, Conn
<1>2. c = Made("none") /\ ~r /\ ~w => Told(c, r, w) = c
  <2> SUFFICES ASSUME c = Made("none"), ~r, ~w PROVE Told(c, r, w) = c
    OBVIOUS
  <2>1. r = FALSE /\ w = FALSE
    OBVIOUS
  <2>2. c.readable = FALSE /\ c.writable = FALSE
    BY DEF Made
  <2>3. [c EXCEPT !.readable = FALSE, !.writable = FALSE] = c
    BY <2>2 DEF Conn
  <2> QED BY <2>1, <2>3 DEF Told
<1> QED BY <1>1, <1>2

LEMMA SelectStays ==
    ASSUME Now, NEW peer \in BOOLEAN, NEW W \in SUBSET Ids, Select(peer, W)
    PROVE  Stays
<1>1. PICK m : m = mgr
  OBVIOUS
<1>2. PICK n : n = mgr'
  OBVIOUS
<1>3. PICK t : t = tmp'
  OBVIOUS
<1>4. /\ Fits(m, NULL, freed, net, asked) /\ Good(m) /\ freed \in {"no", "asked"}
      /\ tmp = NULL /\ asked \subseteq Queries
  BY <1>1 DEF Now, Polls, Fits, Select
<1>5. /\ m \in Managers /\ m.made \in Nat /\ m.conns \subseteq Ids /\ m.con \in [Ids -> Conn]
      /\ 1 .. m.made \subseteq Ids /\ m.conns \subseteq 1 .. m.made
  BY <1>4, ManagerFields DEF Good, ConnsShape
<1>6. PICK R \in SUBSET m.conns :
          R = {i \in m.conns : Watched(m.con[i]) /\ ReadReady(i, peer)}
  OBVIOUS
<1>7. PICK f : f = [i \in Ids |-> Told(m.con[i], i \in R, i \in W)]
  OBVIOUS
<1>8. n = [m EXCEPT !.con = f] /\ W \subseteq m.conns
  <2>1. \A i \in Ids : (i \in m.conns /\ Watched(m.con[i]) /\ ReadReady(i, peer)) <=> i \in R
    BY <1>6
  <2>2. n = [m EXCEPT !.con = [i \in Ids |->
                [m.con[i] EXCEPT !.readable = i \in m.conns /\ Watched(m.con[i]) /\ ReadReady(i, peer),
                                 !.writable = i \in W]]]
    BY <1>1, <1>2 DEF Select
  <2>3. \A i \in Ids : (i \in m.conns /\ Watched(m.con[i]) /\ ReadReady(i, peer)) = (i \in R)
    BY <2>1
  <2>4. n = [m EXCEPT !.con = f]
    BY <1>7, <2>2, <2>3 DEF Told
  <2>5. W \subseteq m.conns
    BY <1>1 DEF Select
  <2> QED BY <2>4, <2>5
<1>9. ASSUME NEW i \in Ids
      PROVE  /\ f[i] \in Conn /\ f[i].told = m.con[i].told /\ f[i].kind = m.con[i].kind
             /\ f[i].closing = m.con[i].closing /\ f[i].resolving = m.con[i].resolving
             /\ f[i].connecting = m.con[i].connecting
             /\ f[i].send = m.con[i].send /\ f[i].recv = m.con[i].recv
             /\ m.con[i] = Made("none") /\ i \notin m.conns => f[i] = m.con[i]
  <2>b. (i \in R) \in BOOLEAN /\ (i \in W) \in BOOLEAN
    OBVIOUS
  <2>1. PICK r \in BOOLEAN : r = (i \in R)
    BY <2>b, Zenon
  <2>w. PICK w \in BOOLEAN : w = (i \in W)
    BY <2>b, Zenon
  <2>2. f[i] = Told(m.con[i], r, w)
    BY <1>7, <2>1, <2>w
  <2>3. i \notin m.conns => ~r /\ ~w
    BY <1>8, <2>1, <2>w
  <2>4. PICK c \in Conn : c = m.con[i]
    BY <1>5
  <2>5. /\ Told(c, r, w) \in Conn /\ Told(c, r, w).told = c.told /\ Told(c, r, w).kind = c.kind
        /\ Told(c, r, w).closing = c.closing /\ Told(c, r, w).resolving = c.resolving
        /\ Told(c, r, w).connecting = c.connecting
        /\ Told(c, r, w).send = c.send /\ Told(c, r, w).recv = c.recv
        /\ (c = Made("none") /\ ~r /\ ~w => Told(c, r, w) = c)
    BY ToldFields
  <2> QED BY <2>2, <2>3, <2>4, <2>5
<1>10. f \in [Ids -> Conn]
  BY <1>7, <1>9
<1>11. /\ n \in Managers /\ n.made = m.made /\ n.conns = m.conns /\ n.dns = m.dns /\ n.reqs = m.reqs
       /\ n.con = f
  BY <1>5, <1>8, <1>10 DEF Managers
<1>12. Grown(m, n, {})
  <2>1. ASSUME NEW i \in m.conns
        PROVE  /\ Follows(m.con[i], n.con[i]) /\ n.con[i].resolving = m.con[i].resolving
               /\ n.con[i].send = m.con[i].send /\ n.con[i].recv = m.con[i].recv
    <3>1. Open(m.con[i]) /\ i \in Ids
      BY <1>4, <1>5 DEF Good, ConnsShape
    <3> QED BY <1>9, <1>11, <3>1, SameOpen
  <2>2. ASSUME NEW i \in (1 .. m.made) \ m.conns
        PROVE  Shut(n.con[i]) /\ n.con[i].kind = m.con[i].kind
    <3>1. Shut(m.con[i]) /\ i \in Ids
      BY <1>4, <1>5 DEF Good, ConnsShape
    <3> QED BY <1>9, <1>11, <3>1 DEF Shut, ToldInv
  <2>3. ASSUME NEW i \in Ids, i > m.made PROVE n.con[i] = Made("none")
    <3>1. m.con[i] = Made("none") /\ i \notin m.conns
      BY <1>4, <1>5, <2>3 DEF Good, ConnsShape
    <3> QED BY <1>9, <1>11, <3>1
  <2> QED BY <1>4, <1>11, <2>1, <2>2, <2>3, AllChanged
<1>13. NetFits(n, net, asked) /\ (EchoesFor(m, net) => EchoesFor(n, net))
  <2>1. {} \in SUBSET m.conns /\ NetFits(m, net, asked)
    BY <1>4 DEF Fits
  <2>2. /\ NetFits(n, net, asked)
        /\ EchoesFor(m, net) /\ (\A i \in {} : EchoFor(n.con[i], net[i])) => EchoesFor(n, net)
    BY <1>4, <1>12, <2>1, SocketsKept
  <2> QED BY <2>2
<1>14. /\ t \in m.conns \cup {NULL} /\ \A j \in m.conns : j <= t
  <2>1. mgr.conns \in SUBSET Ids
    BY <1>1, <1>5
  <2>2. /\ Behind(mgr.made + 1) \in {j \in mgr.conns : j < mgr.made + 1} \cup {NULL}
        /\ \A j \in mgr.conns : j < mgr.made + 1 => j <= Behind(mgr.made + 1)
    BY <2>1, BehindNow
  <2>3. /\ t \in {j \in m.conns : j < m.made + 1} \cup {NULL}
        /\ \A j \in m.conns : j < m.made + 1 => j <= t
    BY <1>1, <1>3, <2>2 DEF Select
  <2>4. \A j \in m.conns : j < m.made + 1
    BY <1>5
  <2> QED BY <2>3, <2>4
<1>15. FreedFits(n, t, freed')
  <2>1. freed' = IF freed = "asked" THEN "done" ELSE freed
    BY DEF Select
  <2>2. CASE freed = "no"
    BY <2>1, <2>2 DEF FreedFits
  <2>3. CASE freed = "asked"
    <3>1. \A i \in n.conns : n.con[i].closing
      BY <1>4, <1>5, <1>9, <1>11, <2>3 DEF Fits, FreedFits
    <3> QED BY <1>11, <1>14, <2>1, <2>3, <3>1 DEF FreedFits
  <2> QED BY <1>4, <2>2, <2>3
<1>16. Fits(n, t, freed', net, asked)
  <2>1. freed' \in {"no", "asked", "done"}
    BY <1>4 DEF Select
  <2>2. t \in Ids \cup {NULL} /\ (t # NULL => t \in n.conns)
    BY <1>5, <1>11, <1>14
  <2> QED BY <1>4, <1>12, <1>13, <1>15, <2>1, <2>2 DEF Fits, Grown
<1> QED BY <1>1, <1>2, <1>3, <1>13, <1>16 DEF Stays, Select

LEMMA ElapseStays ==
    ASSUME Now, Elapse
    PROVE  Stays
<1>1. PICK m : m = mgr
  OBVIOUS
<1>2. PICK n : n = mgr'
  OBVIOUS
<1>3. /\ Fits(m, NULL, freed, net, asked) /\ Good(m) /\ m \in Managers /\ m.made \in Nat
      /\ m.reqs \subseteq Requests /\ m.conns \subseteq Ids
  BY <1>1, ManagerFields DEF Now, Polls, Fits, Good, Elapse
<1>4. PICK d \in m.reqs : n = [m EXCEPT !.reqs = (m.reqs \ {d}) \cup {[d EXCEPT !.late = TRUE]}]
  BY <1>1, <1>2 DEF Elapse
<1>5. PICK e \in Requests : e = [d EXCEPT !.late = TRUE] /\ e.c = d.c /\ e.txnid = d.txnid
  <2>1. PICK e : e = [d EXCEPT !.late = TRUE]
    OBVIOUS
  <2>2. e \in Requests /\ e.c = d.c /\ e.txnid = d.txnid
    BY <1>3, <2>1 DEF Requests
  <2> QED BY <2>1, <2>2
<1>6. PICK R \in SUBSET Requests : R = (m.reqs \ {d}) \cup {e}
  BY <1>3, <1>5
<1>7. /\ n \in Managers /\ n.made = m.made /\ n.conns = m.conns /\ n.dns = m.dns /\ n.con = m.con
      /\ n.reqs = R
  <2>1. n = [m EXCEPT !.reqs = R]
    BY <1>4, <1>5, <1>6
  <2> QED BY <1>3, <2>1 DEF Managers
<1>8. \A q \in R : \E p \in m.reqs : p.c = q.c /\ p.txnid = q.txnid /\ (q = e <=> p = d)
  BY <1>5, <1>6 DEF Good, ReqsInv
<1>9. ConnsShape(n)
  BY <1>3, <1>7 DEF Good, ConnsShape
<1>10. ReqsInv(n)
  <2>1. ASSUME NEW q \in n.reqs PROVE q.c \in n.conns /\ n.con[q.c].resolving /\ q.txnid <= q.c
    BY <1>3, <1>7, <1>8 DEF Good, ReqsInv
  <2>2. ASSUME NEW p \in n.reqs, NEW q \in n.reqs, p.c = q.c \/ p.txnid = q.txnid PROVE p = q
    <3>1. \A g, h \in m.reqs : g.c = h.c \/ g.txnid = h.txnid => g = h
      BY <1>3 DEF Good, ReqsInv
    <3>2. CASE p = e /\ q \in m.reqs \ {d}
      BY <1>5, <2>2, <3>1, <3>2
    <3>3. CASE q = e /\ p \in m.reqs \ {d}
      BY <1>5, <2>2, <3>1, <3>3
    <3>4. CASE p \in m.reqs \ {d} /\ q \in m.reqs \ {d}
      BY <2>2, <3>1, <3>4
    <3> QED BY <1>6, <1>7, <3>2, <3>3, <3>4
  <2>3. ASSUME NEW i \in n.conns, n.con[i].resolving, ~n.con[i].closing PROVE i \in Owners(n.reqs)
    <3>1. PICK p \in m.reqs : p.c = i
      BY <1>3, <1>7, <2>3 DEF Good, ReqsInv, Owners
    <3>2. \E q \in R : q.c = i
      BY <1>5, <1>6, <3>1
    <3> QED BY <1>7, <3>2 DEF Owners
  <2> QED BY <2>1, <2>2, <2>3 DEF ReqsInv
<1>11. Grown(m, n, {})
  BY <1>3, <1>7, <1>9, <1>10 DEF Grown, Good, Keeps, Quiet
<1>12. NetFits(n, net, asked) /\ (EchoesFor(m, net) => EchoesFor(n, net))
  BY <1>3, <1>7 DEF Fits, NetFits, Data, EchoesFor
<1>13. FreedFits(n, NULL, freed)
  BY <1>3, <1>7 DEF Fits, FreedFits
<1>14. Fits(n, NULL, freed, net, asked)
  BY <1>3, <1>11, <1>12, <1>13 DEF Fits, Grown
<1> QED BY <1>1, <1>2, <1>12, <1>14 DEF Stays, Polls, Elapse

(* Something happens at the socket of i. *)
LEMMA SocketStays ==
    ASSUME Now, NEW i \in mgr.conns, UNCHANGED <<mgr, tmp, freed, asked>>,
           NEW s, net' = [net EXCEPT ![i] = s], s \in Socket(Data(mgr, i)),
           EchoFor(mgr.con[i], net[i]) => EchoFor(mgr.con[i], s)
    PROVE  Stays
<1>1. /\ Good(mgr) /\ mgr.conns \subseteq Ids /\ net = [j \in Ids |-> net[j]]
  BY ManagerFields DEF Now, Fits, Good
<1>2. PICK y : y = net'
  OBVIOUS
<1>3. /\ y = [j \in Ids |-> y[j]] /\ y[i] = s /\ \A j \in Ids \ {i} : y[j] = net[j]
  BY <1>1, <1>2
<1>4. NetFits(mgr, y, asked)
  <2>1. ASSUME NEW j \in Ids \ mgr.conns PROVE y[j] = Unused
    BY <1>3 DEF Now, Fits, NetFits
  <2>2. ASSUME NEW j \in Ids PROVE y[j] \in Socket(Data(mgr, j))
    BY <1>3 DEF Now, Fits, NetFits
  <2> QED BY <2>1, <2>2 DEF Now, Fits, NetFits
<1>5. EchoesFor(mgr, net) => EchoesFor(mgr, y)
  BY <1>1, <1>3 DEF EchoesFor
<1>6. Fits(mgr, tmp, freed, y, asked)
  BY <1>3, <1>4 DEF Now, Fits
<1> QED BY <1>2, <1>5, <1>6 DEF Stays

LEMMA NatAssociative ==
    \A p, q, r \in Seq(Nat) : (p \o q) \o r = p \o (q \o r)
BY ConcatAssociative

(* One more is written, and waits behind what was there. *)
LEMMA OneMore ==
    ASSUME NEW p \in Seq(Nat), NEW q \in Seq(Nat), NEW w \in Nat, p \o q = [k \in 1 .. w |-> k]
    PROVE  p \o Append(q, w + 1) = [k \in 1 .. w + 1 |-> k]
<1>1. PICK r \in Seq(Nat) : r = <<w + 1>>
  <2>1. w + 1 \in Nat
    OBVIOUS
  <2>2. <<w + 1>> \in Seq(Nat)
    BY <2>1
  <2> QED BY <2>2, Zenon
<1>2. Append(q, w + 1) = q \o r
  BY <1>1
<1>a. (p \o q) \o r = p \o (q \o r)
  BY NatAssociative, Zenon
<1>3. p \o Append(q, w + 1) = (p \o q) \o <<w + 1>>
  BY <1>1, <1>2, <1>a
<1>4. [k \in 1 .. w |-> k] \o <<w + 1>> = [k \in 1 .. w + 1 |-> k]
  OBVIOUS
<1> QED BY <1>3, <1>4

LEMMA PeerWritesStays ==
    ASSUME Now, NEW i \in Ids, PeerWrites(i)
    PROVE  Stays
<1>1. i \in mgr.conns /\ mgr.con[i].kind = "accepted" /\ Open(mgr.con[i])
  BY DEF PeerWrites, Now, Fits, Good, ConnsShape
<1>2. PICK x : x = net[i]
  OBVIOUS
<1>3. Data(mgr, i) = Nat
  BY <1>1 DEF Data
<1>4. x \in Socket(Nat)
  BY <1>2, <1>3 DEF Now, Fits, NetFits
<1>5. x.in \in Seq(Nat) /\ x.out \in Seq(Nat) /\ x.wrote \in Nat
  BY <1>4 DEF Socket
<1>6. PICK s : s = [x EXCEPT !.in = Append(@, x.wrote + 1), !.wrote = @ + 1]
  OBVIOUS
<1>7. /\ s \in Socket(Nat) /\ s.in = Append(x.in, x.wrote + 1) /\ s.wrote = x.wrote + 1 /\ s.out = x.out
  <2>1. PICK in \in Seq(Nat), w \in Nat : in = Append(x.in, x.wrote + 1) /\ w = x.wrote + 1
    <3>1. x.wrote + 1 \in Nat
      BY <1>5
    <3>2. Append(x.in, x.wrote + 1) \in Seq(Nat)
      BY <1>5, <3>1, AppendProperties
    <3> QED BY <3>1, <3>2
  <2>2. s = [x EXCEPT !.in = in, !.wrote = w]
    BY <1>6, <2>1
  <2> QED BY <1>4, <2>1, <2>2 DEF Socket
<1>8. net' = [net EXCEPT ![i] = s]
  <2>1. net = [j \in Ids |-> net[j]]
    BY DEF Now, Fits
  <2>2. net' = [net EXCEPT ![i].in = Append(@, net[i].wrote + 1), ![i].wrote = @ + 1]
    BY DEF PeerWrites
  <2> QED BY <1>2, <1>4, <1>6, <2>1, <2>2 DEF Socket
<1>9. EchoFor(mgr.con[i], x) => EchoFor(mgr.con[i], s)
  <2>1. PICK p \in Seq(Nat) : p = x.out \o mgr.con[i].send \o mgr.con[i].recv
    <3>1. mgr.con[i].send \in Seq(Nat) /\ mgr.con[i].recv \in Seq(Nat)
      BY <1>1 DEF Open, Conn
    <3>2. x.out \o mgr.con[i].send \in Seq(Nat)
      BY <1>5, <3>1, ConcatProperties
    <3> QED BY <3>1, <3>2, ConcatProperties
  <2>2. SUFFICES ASSUME EchoFor(mgr.con[i], x) PROVE EchoFor(mgr.con[i], s)
    OBVIOUS
  <2>3. p \o x.in = [k \in 1 .. x.wrote |-> k]
    BY <1>1, <2>1, <2>2 DEF EchoFor
  <2>4. p \o Append(x.in, x.wrote + 1) = [k \in 1 .. x.wrote + 1 |-> k]
    BY <1>5, <2>3, OneMore, Zenon
  <2> QED BY <1>7, <2>1, <2>4 DEF EchoFor
<1> QED BY <1>1, <1>2, <1>3, <1>7, <1>8, <1>9, SocketStays DEF PeerWrites

LEMMA PeerClosesStays ==
    ASSUME Now, NEW i \in Ids, PeerCloses(i)
    PROVE  Stays
<1>1. i \in mgr.conns
  BY DEF PeerCloses
<1>2. PICK x : x = net[i]
  OBVIOUS
<1>3. PICK D : D = Data(mgr, i)
  OBVIOUS
<1>4. x \in Socket(D)
  BY <1>2, <1>3 DEF Now, Fits, NetFits
<1>5. PICK s : s = [x EXCEPT !.shut = TRUE]
  OBVIOUS
<1>6. s \in Socket(D) /\ s.in = x.in /\ s.wrote = x.wrote /\ s.out = x.out
  BY <1>4, <1>5 DEF Socket
<1>7. net' = [net EXCEPT ![i] = s]
  <2>1. net = [j \in Ids |-> net[j]]
    BY DEF Now, Fits
  <2>2. net' = [net EXCEPT ![i].shut = TRUE]
    BY DEF PeerCloses
  <2> QED BY <1>2, <1>5, <2>1, <2>2
<1>8. EchoFor(mgr.con[i], x) => EchoFor(mgr.con[i], s)
  BY <1>6 DEF EchoFor
<1> QED BY <1>1, <1>2, <1>3, <1>6, <1>7, <1>8, SocketStays DEF PeerCloses

LEMMA AnswerStays ==
    ASSUME Now, NEW q \in asked, NEW found \in BOOLEAN, Answer(q, found)
    PROVE  Stays
<1>1. PICK i : i = q.to
  OBVIOUS
<1>2. i \in mgr.conns /\ mgr.con[i].kind = "dns" /\ q.txnid \in Nat
  BY <1>1 DEF Now, Fits, NetFits, Queries
<1>3. PICK x : x = net[i]
  OBVIOUS
<1>4. Data(mgr, i) = Answers /\ i \in Ids
  BY <1>2, ManagerFields DEF Data, Now, Fits, Good
<1>5. x \in Socket(Answers)
  BY <1>3, <1>4 DEF Now, Fits, NetFits
<1>6. PICK p \in Answers : p = [txnid |-> q.txnid, found |-> found]
  BY <1>2 DEF Answers
<1>7. PICK s : s = [x EXCEPT !.in = Append(@, p)]
  OBVIOUS
<1>8. s \in Socket(Answers)
  <2>1. PICK in \in Seq(Answers) : in = Append(x.in, p)
    <3>1. x.in \in Seq(Answers)
      BY <1>5 DEF Socket
    <3>2. Append(x.in, p) \in Seq(Answers)
      BY <3>1, AppendProperties
    <3> QED BY <3>2
  <2>2. s = [x EXCEPT !.in = in]
    BY <1>7, <2>1
  <2> QED BY <1>5, <2>2 DEF Socket
<1>9. net' = [net EXCEPT ![i] = s]
  <2>1. net = [j \in Ids |-> net[j]]
    BY DEF Now, Fits
  <2>2. net' = [net EXCEPT ![i].in = Append(@, p)]
    BY <1>1, <1>6 DEF Answer
  <2> QED BY <1>3, <1>7, <2>1, <2>2
<1>10. EchoFor(mgr.con[i], s)
  BY <1>2 DEF EchoFor
<1> QED BY <1>2, <1>4, <1>8, <1>9, <1>10, SocketStays DEF Answer

(***************************************************************************)
(* The visits of mg_mgr_poll.                                              *)
(***************************************************************************)
LEMMA VisitsStay ==
    ASSUME Now, NEW i \in Ids, i = tmp, NEW n, NEW y, Visits(i, n, y), Grown(mgr, n, {i}),
           freed # "no" => n.conns = mgr.conns,
           y = [j \in Ids |-> y[j]], \A j \in Ids \ {i} : y[j] = net[j],
           y[i] \in Socket(Data(mgr, i)),
           EchoFor(mgr.con[i], net[i]) => EchoFor(n.con[i], y[i])
    PROVE  Stays
<1>1. PICK m : m = mgr
  OBVIOUS
<1>2. PICK o : o = mgr' /\ o = Ended(n, i)
  BY DEF Visits
<1>3. PICK t : t = tmp' /\ t = Behind(i)
  BY DEF Visits
<1>4. PICK z : z = net' /\ z = IF i \in o.conns THEN y ELSE [y EXCEPT ![i] = Unused]
  BY <1>2 DEF Visits
<1>5. PICK b : b = asked' /\ b = {q \in asked : q.to \in o.conns}
  BY <1>2 DEF Visits
<1>6. freed' = freed
  BY DEF Visits
<1>7. t \in {j \in m.conns : j < i} \cup {NULL} /\ \A j \in m.conns : j < i => j <= t
  <2>1. mgr.conns \in SUBSET Ids
    BY ManagerFields DEF Now, Fits, Good
  <2> QED BY <1>1, <1>3, <2>1, BehindNow
<1>8. Fits(m, i, freed, net, asked) /\ i \in m.conns
  <2>1. i # NULL
    BY IdsAre
  <2> QED BY <1>1, <2>1 DEF Now, Fits
<1>9. /\ Fits(o, t, freed, z, b)
      /\ EchoesFor(m, net) /\ EchoFor(n.con[i], y[i]) => EchoesFor(o, z)
  <2>1. PICK x : x = net
    OBVIOUS
  <2>2. PICK f : f = freed
    OBVIOUS
  <2>3. PICK a : a = asked
    OBVIOUS
  <2>4. /\ Fits(m, i, f, x, a) /\ Grown(m, n, {i}) /\ (f # "no" => n.conns = m.conns)
        /\ (\A j \in Ids \ {i} : y[j] = x[j]) /\ y[i] \in Socket(Data(m, i))
        /\ b \subseteq a /\ (\A q \in b : q.to \in o.conns)
    BY <1>1, <1>5, <1>8, <2>1, <2>2, <2>3
  <2>z. /\ z = [j \in Ids |-> z[j]]
        /\ \A j \in Ids : z[j] = IF j \in {i} \ o.conns THEN Unused ELSE y[j]
    BY <1>4
  <2>5. /\ Fits(o, t, f, z, b)
        /\ (EchoesFor(m, x) /\ EchoFor(n.con[i], y[i]) => EchoesFor(o, z))
    <3>1. VisitOf(m, i, f, x, a, n, y, o, t, z, b)
      BY <1>2, <1>7, <2>4, <2>z DEF VisitOf
    <3> QED BY <3>1, VisitFits
  <2> QED BY <2>1, <2>2, <2>5
<1>10. EchoesFor(m, net) => EchoFor(n.con[i], y[i])
  BY <1>1, <1>8 DEF EchoesFor
<1> QED BY <1>1, <1>2, <1>3, <1>4, <1>5, <1>6, <1>9, <1>10 DEF Stays

(* When the program frees the manager, nothing is left to do in a visit but its end. *)
LEMMA Visited ==
    ASSUME Now, NEW i \in Ids, i = tmp
    PROVE  /\ i \in mgr.conns /\ Good(mgr) /\ Open(mgr.con[i])
           /\ net = [j \in Ids |-> net[j]] /\ net[i] \in Socket(Data(mgr, i))
           /\ freed # "no" => mgr.con[i].closing
           /\ \A c : c.closing => Idle(c)
<1>1. i # NULL
  BY IdsAre
<1>2. i \in mgr.conns /\ Good(mgr) /\ (freed # "no" => mgr.con[i].closing)
  BY <1>1 DEF Now, Fits, FreedFits
<1>3. Open(mgr.con[i])
  BY <1>2 DEF Good, ConnsShape
<1>4. net = [j \in Ids |-> net[j]] /\ net[i] \in Socket(Data(mgr, i))
  BY DEF Now, Fits, NetFits
<1> QED BY <1>2, <1>3, <1>4 DEF Idle

LEMMA PolledGood ==
    ASSUME Now, NEW i \in Ids
    PROVE  Grown(mgr, Polled(i), {}) /\ Polled(i).conns = mgr.conns
<1>1. PICK m : m = mgr
  OBVIOUS
<1>2. PICK n : n = Polled(i)
  OBVIOUS
<1>3. Good(m)
  BY <1>1 DEF Now, Fits
<1>4. CASE m.con[i].kind = "dns"
  <2>1. PICK D \in SUBSET m.reqs : D = {d \in m.reqs : d.late}
    OBVIOUS
  <2>2. n = Failed(m, D)
    BY <1>1, <1>2, <1>4, <2>1 DEF Polled, DnsPoll
  <2>3. /\ Good(n) /\ Keeps(m, n) /\ Quiet(m, n, {}) /\ n.made = m.made /\ n.conns = m.conns
    BY <1>3, <2>2, FailedFields
  <2>4. m.made <= n.made
    BY <1>3, <2>3, ManagerFields DEF Good
  <2> QED BY <1>1, <1>2, <2>3, <2>4 DEF Grown
<1>5. CASE m.con[i].kind # "dns"
  <2>1. n = m
    BY <1>1, <1>2, <1>5 DEF Polled
  <2>2. m.made <= m.made
    BY <1>3, ManagerFields DEF Good
  <2> QED BY <1>1, <1>2, <1>3, <2>1, <2>2 DEF Grown, Keeps, Quiet
<1> QED BY <1>4, <1>5

LEMMA GrownMore ==
    ASSUME NEW m, NEW n, Grown(m, n, {}), NEW S
    PROVE  Grown(m, n, S)
BY DEF Grown, Quiet

LEMMA SameEcho ==
    ASSUME NEW m, NEW n, NEW i \in m.conns, NEW x, m.conns \subseteq Ids, i <= m.made, Grown(m, n, {})
    PROVE  EchoFor(m.con[i], x) => EchoFor(n.con[i], x)
<1>1. n.con[i].kind = m.con[i].kind /\ n.con[i].send = m.con[i].send /\ n.con[i].recv = m.con[i].recv
  BY DEF Grown, Keeps, Quiet
<1> QED BY <1>1 DEF EchoFor

(* A visit that leaves the sockets as they are. *)
LEMMA QuietVisitStays ==
    ASSUME Now, NEW i \in Ids, i = tmp, NEW n, Visits(i, n, net), Grown(mgr, n, {}),
           freed # "no" => n.conns = mgr.conns
    PROVE  Stays
<1>1. i \in mgr.conns /\ net = [j \in Ids |-> net[j]] /\ net[i] \in Socket(Data(mgr, i)) /\ Good(mgr)
  BY Visited
<1>2. mgr.conns \subseteq Ids /\ i <= mgr.made
  <2>1. mgr.conns \subseteq Ids /\ mgr.conns \subseteq 1 .. mgr.made /\ mgr.made \in Nat
    BY <1>1, ManagerFields DEF Good, ConnsShape
  <2> QED BY <1>1, <2>1
<1>3. Grown(mgr, n, {i})
  BY GrownMore
<1>4. EchoFor(mgr.con[i], net[i]) => EchoFor(n.con[i], net[i])
  BY <1>1, <1>2, SameEcho
<1> QED BY <1>1, <1>3, <1>4, VisitsStay

LEMMA VisitIdleStays ==
    ASSUME Now, NEW i \in Ids, VisitIdle(i)
    PROVE  Stays
<1>1. Grown(mgr, Polled(i), {}) /\ Polled(i).conns = mgr.conns
  BY PolledGood
<1>2. i = tmp /\ Visits(i, Polled(i), net)
  BY DEF VisitIdle
<1> QED BY <1>1, <1>2, QuietVisitStays

LEMMA AcceptStays ==
    ASSUME Now, NEW i \in Ids, NEW ok \in BOOLEAN, Accept(i, ok)
    PROVE  Stays
<1>1. PICK l : l = [Made("accepted") EXCEPT !.fd = TRUE]
  OBVIOUS
<1>2. PICK d : d = Call(l, "OPEN")
  OBVIOUS
<1>3. PICK c : c = Call(d, "ACCEPT")
  OBVIOUS
<1>4. PICK n : n = IF ok THEN Alloc(mgr, c) ELSE mgr
  OBVIOUS
<1>5. /\ i = tmp /\ ~Idle(mgr.con[i]) /\ (ok => MayMake(1)) /\ Visits(i, n, net)
  BY <1>1, <1>2, <1>3, <1>4, Zenon DEF Accept
<1>6. Good(mgr) /\ freed = "no" /\ mgr.made \in Nat
  BY <1>5, Visited, ManagerFields DEF Good
<1>7. CASE ~ok
  <2>1. n = mgr
    BY <1>4, <1>7
  <2>2. Grown(mgr, n, {})
    BY <1>6, <2>1 DEF Grown, Keeps, Quiet
  <2> QED BY <1>5, <1>6, <2>2, QuietVisitStays
<1>8. CASE ok
  <2>1. /\ l \in Conn /\ l.kind = "accepted" /\ l.told = <<>> /\ ~l.resolving /\ ~l.connecting
        /\ l.send = <<>> /\ l.recv = <<>>
    BY <1>1, MadeFields DEF Conn, Kinds
  <2>2. /\ Open(d) /\ ~d.resolving /\ ~d.connecting /\ d.kind = "accepted"
        /\ d.send = <<>> /\ d.recv = <<>> /\ ~Within(d.told, "ACCEPT")
    BY <1>2, <2>1, OpenedOpen
  <2>3. "ACCEPT" \in Events \ {"CLOSE"} /\ "ACCEPT" \in Events
    BY DEF Events
  <2>4. Open(c) /\ c.kind = "accepted" /\ ~c.resolving /\ c.send = <<>> /\ c.recv = <<>>
    <3>1. Follows(d, c)
      BY <1>3, <2>2, <2>3, CallOpen
    <3>2. d \in Conn
      BY <2>2 DEF Open
    <3> QED BY <1>3, <2>2, <2>3, <3>1, <3>2, CallFields DEF Follows
  <2>5. mgr.made < MaxConns
    BY <1>5, <1>6, <1>8, IdsAre DEF MayMake
  <2>6. n = Added(mgr, c)
    BY <1>4, <1>8, <2>4 DEF Added
  <2>7. Grown(mgr, n, {})
    BY <1>6, <2>4, <2>5, <2>6, AddedGood
  <2> QED BY <1>5, <1>6, <2>7, QuietVisitStays
<1> QED BY <1>7, <1>8

LEMMA ConnectedStays ==
    ASSUME Now, NEW i \in Ids, NEW ok \in BOOLEAN, Connected(i, ok)
    PROVE  Stays
<1>1. PICK c : c = NoLonger(mgr.con[i])
  OBVIOUS
<1>2. PICK d : d = IF ok THEN Call(c, "CONNECT") ELSE Error(c)
  OBVIOUS
<1>3. PICK n : n = With(mgr, i, d)
  OBVIOUS
<1>4. i = tmp /\ mgr.con[i].connecting /\ Visits(i, n, net)
  BY <1>1, <1>2, <1>3 DEF Connected
<1>5. i \in mgr.conns /\ Good(mgr) /\ Open(mgr.con[i])
  BY <1>4, Visited
<1>6. /\ Follows(mgr.con[i], c) /\ ~c.connecting
      /\ c.resolving = mgr.con[i].resolving /\ c.told = mgr.con[i].told
      /\ c.send = mgr.con[i].send /\ c.recv = mgr.con[i].recv
  BY <1>1, <1>5, NoLongerOpen
<1>7. ~c.resolving /\ ~Within(c.told, "CONNECT")
  BY <1>4, <1>5, <1>6 DEF Open, ToldInv
<1>8. /\ Follows(c, d) /\ d.resolving = c.resolving /\ d.send = c.send /\ d.recv = c.recv
  <2>1. "CONNECT" \in Events \ {"CLOSE"} /\ "CONNECT" # "RESOLVE" /\ "CONNECT" \in Events
    BY DEF Events
  <2>2. Open(c) /\ c \in Conn
    BY <1>6 DEF Follows, Open
  <2>3. CASE ok
    <3>1. d = Call(c, "CONNECT")
      BY <1>2, <2>3
    <3>2. Follows(c, Call(c, "CONNECT"))
      BY <1>6, <1>7, <2>1, <2>2, CallOpen
    <3> QED BY <2>1, <2>2, <3>1, <3>2, CallFields
  <2>4. CASE ~ok
    BY <1>2, <2>2, <2>4, ErrorOpen
  <2> QED BY <2>3, <2>4
<1>9. Follows(mgr.con[i], d) /\ d.resolving = mgr.con[i].resolving
      /\ d.send = mgr.con[i].send /\ d.recv = mgr.con[i].recv
  BY <1>6, <1>8 DEF Follows
<1>10. Grown(mgr, n, {}) /\ n.conns = mgr.conns
  <2>1. PICK m : m = mgr
    OBVIOUS
  <2>2. Good(m) /\ i \in m.conns /\ Follows(m.con[i], d) /\ d.resolving = m.con[i].resolving
        /\ n = With(m, i, d) /\ d.send = m.con[i].send /\ d.recv = m.con[i].recv
    BY <1>3, <1>5, <1>9, <2>1
  <2>3. Grown(m, n, {}) /\ n.conns = m.conns
    <3>1. /\ n.conns = m.conns
          /\ (d.send = m.con[i].send /\ d.recv = m.con[i].recv => Grown(m, n, {}))
      BY <2>2, WithGrown
    <3> QED BY <2>2, <3>1
  <2> QED BY <2>1, <2>3
<1> QED BY <1>4, <1>10, QuietVisitStays

(* What is sent goes out of the connection, what is read comes into it, and the rest     *)
(* stays in its order.                                                                    *)
Moves(out, s, r, in, s1, r1, left, front, s2) ==
    /\ {out, s, r, in, s1, r1, left, front, s2} \subseteq Seq(Nat)
    /\ Cat(Cat(s1, r1), left) = Cat(Cat(s, r), in) /\ Cat(front, s2) = s1

LEMMA MovedAlong ==
    ASSUME NEW out, NEW s, NEW r, NEW in, NEW s1, NEW r1, NEW left, NEW front, NEW s2,
           Moves(out, s, r, in, s1, r1, left, front, s2)
    PROVE  Cat(Cat(Cat(Cat(out, front), s2), r1), left) = Cat(Cat(Cat(out, s), r), in)
<1> /\ out \in Seq(Nat) /\ s \in Seq(Nat) /\ r \in Seq(Nat) /\ in \in Seq(Nat) /\ s1 \in Seq(Nat)
    /\ r1 \in Seq(Nat) /\ left \in Seq(Nat) /\ front \in Seq(Nat) /\ s2 \in Seq(Nat)
    /\ Cat(Cat(s1, r1), left) = Cat(Cat(s, r), in) /\ Cat(front, s2) = s1
  BY DEF Moves
<1>1. Cat(Cat(Cat(Cat(out, front), s2), r1), left) = Cat(out, Cat(Cat(s1, r1), left))
  <2>1. Cat(Cat(out, front), s2) = Cat(out, s1)
    BY CatAssociative
  <2>2. Cat(Cat(out, s1), r1) = Cat(out, Cat(s1, r1))
    BY CatAssociative
  <2>3. Cat(s1, r1) \in Seq(Nat)
    BY CatAssociative
  <2>4. Cat(Cat(out, Cat(s1, r1)), left) = Cat(out, Cat(Cat(s1, r1), left))
    BY <2>3, CatAssociative
  <2> QED BY <2>1, <2>2, <2>4
<1>2. Cat(Cat(Cat(out, s), r), in) = Cat(out, Cat(Cat(s, r), in))
  <2>2. Cat(Cat(out, s), r) = Cat(out, Cat(s, r))
    BY CatAssociative
  <2>3. Cat(s, r) \in Seq(Nat)
    BY CatAssociative
  <2>4. Cat(Cat(out, Cat(s, r)), in) = Cat(out, Cat(Cat(s, r), in))
    BY <2>3, CatAssociative
  <2> QED BY <2>2, <2>4
<1> QED BY <1>1, <1>2

LEMMA VisitStays ==
    ASSUME Now, NEW i \in Ids, NEW h \in Replies, NEW k \in 0 .. MaxBytes, NEW fails \in BOOLEAN,
           Visit(i, h, k, fails)
    PROVE  Stays
<1>1. PICK o : o = mgr.con[i]
  OBVIOUS
<1>2. PICK x : x = net[i]
  OBVIOUS
<1>3. PICK c : c = IF o.readable THEN ReadConn(o, x.in, h) ELSE o
  OBVIOUS
<1>4. PICK d : d = WriteConn(c, k, fails)
  OBVIOUS
<1>5. PICK left : left = Left(o, x.in)
  OBVIOUS
<1>6. PICK front : front = SubSeq(c.send, 1, k)
  OBVIOUS
<1>7. PICK n : n = With(mgr, i, d)
  OBVIOUS
<1>8. PICK y : y = [net EXCEPT ![i].in = left, ![i].out = @ \o front]
  OBVIOUS
<1>9. /\ i = tmp /\ o.kind \in {"accepted", "client"}
      /\ IF o.writable /\ ~fails THEN k \in 1 .. Len(c.send) ELSE k = 0
      /\ Visits(i, n, y)
  BY <1>1, <1>2, <1>3, <1>4, <1>5, <1>6, <1>7, <1>8 DEF Visit
<1>10. /\ i \in mgr.conns /\ Good(mgr) /\ Open(o) /\ net = [j \in Ids |-> net[j]]
       /\ Data(mgr, i) = Nat /\ x \in Socket(Nat)
  BY <1>1, <1>2, <1>9, Visited DEF Data
<1>11. x.in \in Seq(Nat) /\ x.out \in Seq(Nat) /\ o.send \in Seq(Nat) /\ o.recv \in Seq(Nat)
       /\ o.readable \in BOOLEAN
  BY <1>10 DEF Socket, Open, Conn
<1>12. /\ Follows(o, c) /\ c.resolving = o.resolving /\ left \in Seq(Nat)
       /\ (c.send \o c.recv) \o left = (o.send \o o.recv) \o x.in
  <2>1. CASE o.readable
    BY <1>3, <1>5, <1>10, <1>11, <2>1, ReadConnOpen
  <2>2. CASE ~o.readable
    <3>1. c = o /\ left = x.in
      BY <1>3, <1>5, <2>2 DEF Left
    <3> QED BY <1>10, <1>11, <3>1 DEF Follows
  <2> QED BY <1>11, <2>1, <2>2
<1>13. Open(c) /\ c.send \in Seq(Nat) /\ c.recv \in Seq(Nat)
  BY <1>12 DEF Follows, Open, Conn
<1>14. k \in 0 .. Len(c.send) /\ (fails => k = 0)
  <2>1. Len(c.send) \in Nat
    BY <1>13
  <2> QED BY <1>9, <2>1
<1>15. /\ Follows(c, d) /\ d.resolving = c.resolving /\ d.recv = c.recv
       /\ front \in Seq(Nat) /\ front \o d.send = c.send
  BY <1>4, <1>6, <1>13, <1>14, WriteConnOpen
<1>16. d.send \in Seq(Nat) /\ d.kind = o.kind
  BY <1>12, <1>15 DEF Follows, Open, Conn
<1>17. Grown(mgr, n, {i}) /\ n.conns = mgr.conns /\ n.con[i] = d
  <2>1. PICK m : m = mgr
    OBVIOUS
  <2>2. Good(m) /\ i \in m.conns /\ Follows(m.con[i], d) /\ d.resolving = m.con[i].resolving
    BY <1>1, <1>10, <1>12, <1>15, <2>1 DEF Follows
  <2>3. Grown(m, With(m, i, d), {i}) /\ With(m, i, d).conns = m.conns /\ With(m, i, d).con[i] = d
    BY <2>2, WithGrown
  <2> QED BY <1>7, <2>1, <2>3
<1>18. PICK out \in Seq(Nat) : out = x.out \o front
  BY <1>11, <1>15, ConcatProperties
<1>19. PICK s : s = [x EXCEPT !.in = left, !.out = out]
  OBVIOUS
<1>20. s \in Socket(Nat) /\ s.in = left /\ s.out = out /\ s.wrote = x.wrote
  BY <1>10, <1>12, <1>19 DEF Socket
<1>21. y = [net EXCEPT ![i] = s]
  BY <1>2, <1>8, <1>10, <1>18, <1>19
<1>22. y = [j \in Ids |-> y[j]] /\ y[i] = s /\ \A j \in Ids \ {i} : y[j] = net[j]
  BY <1>10, <1>21
<1>23. EchoFor(o, x) => EchoFor(d, s)
  <2> SUFFICES ASSUME EchoFor(o, x), d.kind = "accepted"
               PROVE  s.out \o d.send \o d.recv \o s.in = [j \in 1 .. s.wrote |-> j]
    BY DEF EchoFor
  <2>1. Cat(Cat(Cat(x.out, o.send), o.recv), x.in) = [j \in 1 .. x.wrote |-> j]
    BY <1>16 DEF EchoFor, Cat
  <2>2. Cat(Cat(c.send, c.recv), left) = Cat(Cat(o.send, o.recv), x.in)
    BY <1>12 DEF Cat
  <2>3. Cat(front, d.send) = c.send
    BY <1>15 DEF Cat
  <2>4. Cat(Cat(Cat(Cat(x.out, front), d.send), c.recv), left)
            = Cat(Cat(Cat(x.out, o.send), o.recv), x.in)
    <3>1. /\ x.out \in Seq(Nat) /\ o.send \in Seq(Nat) /\ o.recv \in Seq(Nat) /\ x.in \in Seq(Nat)
          /\ c.send \in Seq(Nat) /\ c.recv \in Seq(Nat) /\ left \in Seq(Nat) /\ front \in Seq(Nat)
          /\ d.send \in Seq(Nat)
      BY <1>11, <1>12, <1>13, <1>15, <1>16
    <3>2. Moves(x.out, o.send, o.recv, x.in, c.send, c.recv, left, front, d.send)
      BY <2>2, <2>3, <3>1 DEF Moves
    <3> QED BY <3>2, MovedAlong
  <2>5. s.out = Cat(x.out, front) /\ d.recv = c.recv /\ s.in = left /\ s.wrote = x.wrote
    BY <1>15, <1>18, <1>20 DEF Cat
  <2>6. Cat(Cat(Cat(s.out, d.send), d.recv), s.in) = [j \in 1 .. s.wrote |-> j]
    BY <2>1, <2>4, <2>5
  <2> QED BY <2>6 DEF Cat
<1>24. EchoFor(mgr.con[i], net[i]) => EchoFor(n.con[i], y[i])
  BY <1>1, <1>2, <1>17, <1>22, <1>23
<1>25. y[i] \in Socket(Data(mgr, i))
  BY <1>10, <1>20, <1>22
<1> QED BY <1>9, <1>17, <1>22, <1>24, <1>25, VisitsStay

LEMMA VisitDnsStays ==
    ASSUME Now, NEW i \in Ids, NEW r \in Results, VisitDns(i, r)
    PROVE  Stays
<1>1. PICK m : m = Polled(i)
  OBVIOUS
<1>2. PICK x : x = net[i]
  OBVIOUS
<1>3. PICK n : n = IF x.in = <<>> THEN With(m, i, Doomed(m.con[i])) ELSE Answered(m, Head(x.in), r)
  OBVIOUS
<1>4. PICK y : y = [net EXCEPT ![i].in = IF @ = <<>> THEN @ ELSE Tail(@)]
  OBVIOUS
<1>5. i = tmp /\ mgr.con[i].kind = "dns" /\ ~Idle(m.con[i]) /\ Visits(i, n, y)
  BY <1>1, <1>2, <1>3, <1>4 DEF VisitDns
<1>6. /\ i \in mgr.conns /\ Good(mgr) /\ net = [j \in Ids |-> net[j]]
      /\ Data(mgr, i) = Answers /\ x \in Socket(Answers)
      /\ (freed # "no" => mgr.con[i].closing)
  BY <1>2, <1>5, Visited DEF Data
<1>7. Grown(mgr, m, {}) /\ m.conns = mgr.conns /\ Good(m)
  BY <1>1, PolledGood DEF Grown
<1>8. m.con[i].kind = "dns"
  <2>1. i <= mgr.made
    <3>1. i \in 1 .. mgr.made
      BY <1>6 DEF Good, ConnsShape
    <3> QED BY <3>1
  <2> QED BY <1>5, <1>7, <2>1 DEF Grown, Keeps
<1>9. x.in \in Seq(Answers)
  BY <1>6 DEF Socket
<1>10. Grown(m, n, {}) /\ n.conns = m.conns
  <2>1. CASE x.in = <<>>
    <3>1. PICK d : d = Doomed(m.con[i])
      OBVIOUS
    <3>2. Open(m.con[i]) /\ m.con[i] \in Conn /\ i \in m.conns
      BY <1>6, <1>7 DEF Good, ConnsShape, Open
    <3>3. Follows(m.con[i], d) /\ d.resolving = m.con[i].resolving
          /\ d.send = m.con[i].send /\ d.recv = m.con[i].recv
      BY <3>1, <3>2, DoomedOpen, SameOpen
    <3>4. n = With(m, i, d)
      BY <1>3, <2>1, <3>1
    <3>5. Grown(m, With(m, i, d), {}) /\ With(m, i, d).conns = m.conns
      BY <1>7, <3>2, <3>3, WithGrown
    <3> QED BY <3>4, <3>5
  <2>2. CASE x.in # <<>>
    <3>1. PICK p \in Answers : p = Head(x.in)
      BY <1>9, <2>2
    <3>2. n = Answered(m, p, r)
      BY <1>3, <2>2, <3>1
    <3>3. /\ Good(n) /\ Keeps(m, n) /\ Quiet(m, n, {}) /\ n.made = m.made /\ n.conns = m.conns
      BY <1>7, <3>2, AnsweredGood
    <3>4. m.made <= n.made
      BY <1>7, <3>3, ManagerFields DEF Good
    <3> QED BY <3>3, <3>4 DEF Grown
  <2> QED BY <2>1, <2>2
<1>11. Grown(mgr, n, {i}) /\ n.conns = mgr.conns
  <2>1. Grown(mgr, n, {})
    BY <1>6, <1>7, <1>10, GrownTwice
  <2> QED BY <1>7, <1>10, <2>1, GrownMore
<1>12. PICK in \in Seq(Answers) : in = IF x.in = <<>> THEN x.in ELSE Tail(x.in)
  <2>1. CASE x.in = <<>>
    BY <1>9, <2>1
  <2>2. CASE x.in # <<>>
    <3>1. Tail(x.in) \in Seq(Answers)
      BY <1>9, <2>2, HeadTailProperties
    <3> QED BY <2>2, <3>1
  <2> QED BY <2>1, <2>2
<1>13. PICK s : s = [x EXCEPT !.in = in]
  OBVIOUS
<1>14. s \in Socket(Answers)
  BY <1>6, <1>13 DEF Socket
<1>15. y = [net EXCEPT ![i] = s]
  BY <1>2, <1>4, <1>6, <1>12, <1>13
<1>16. y = [j \in Ids |-> y[j]] /\ y[i] = s /\ \A j \in Ids \ {i} : y[j] = net[j]
  BY <1>6, <1>15
<1>17. EchoFor(n.con[i], y[i])
  <2>1. n.con[i].kind = "dns"
    <3>1. i <= m.made
      <4>1. i \in 1 .. m.made
        BY <1>6, <1>7 DEF Good, ConnsShape
      <4> QED BY <4>1
    <3> QED BY <1>8, <1>10, <3>1 DEF Grown, Keeps
  <2> QED BY <2>1 DEF EchoFor
<1>18. y[i] \in Socket(Data(mgr, i))
  BY <1>6, <1>14, <1>16
<1> QED BY <1>5, <1>11, <1>16, <1>17, <1>18, VisitsStay

(***************************************************************************)
(* The specification.                                                      *)
(***************************************************************************)
LEMMA NextStays ==
    ASSUME Now, Next
    PROVE  Stays
<1>1. CASE Poll
  <2>1. CASE \E peer \in BOOLEAN, W \in SUBSET Ids : Select(peer, W)
    BY <2>1, SelectStays
  <2>2. CASE \E i \in Ids : VisitIdle(i)
    BY <2>2, VisitIdleStays
  <2>3. CASE \E i \in Ids, ok \in BOOLEAN : Accept(i, ok) \/ Connected(i, ok)
    BY <2>3, AcceptStays, ConnectedStays
  <2>4. CASE \E i \in Ids, h \in Replies, n \in 0 .. MaxBytes, fails \in BOOLEAN : Visit(i, h, n, fails)
    BY <2>4, VisitStays
  <2>5. CASE \E i \in Ids, r \in Results : VisitDns(i, r)
    BY <2>5, VisitDnsStays
  <2> QED BY <1>1, <2>1, <2>2, <2>3, <2>4, <2>5 DEF Poll
<1>2. CASE \E r \in Results, sent \in BOOLEAN, named \in BOOLEAN : Connect(r, sent, named)
  BY <1>2, ConnectStays
<1>3. CASE Listen \/ Free \/ Elapse
  BY <1>3, ListenStays, FreeStays, ElapseStays
<1>4. CASE \E i \in Ids, drain \in BOOLEAN : End(i, drain)
  BY <1>4, EndStays
<1>5. CASE \E i \in Ids : PeerWrites(i) \/ PeerCloses(i)
  BY <1>5, PeerWritesStays, PeerClosesStays
<1>6. CASE \E q \in asked, found \in BOOLEAN : Answer(q, found)
  BY <1>6, AnswerStays
<1> QED BY <1>1, <1>2, <1>3, <1>4, <1>5, <1>6 DEF Next

LEMMA StutterStays ==
    ASSUME Now, UNCHANGED vars
    PROVE  Stays
BY DEF Now, Stays, vars

LEMMA InitFits == Init => Now /\ EchoesFor(mgr, net)
<1> SUFFICES ASSUME Init PROVE Now /\ EchoesFor(mgr, net)
  OBVIOUS
<1>1. PICK m : m = mgr
  OBVIOUS
<1>2. PICK f : f = [i \in Ids |-> Made("none")]
  OBVIOUS
<1>3. m = [made |-> 0, conns |-> {}, con |-> f, reqs |-> {}, dns |-> NULL]
  BY <1>1, <1>2 DEF Init
<1>4. "none" \in Kinds
  BY DEF Kinds
<1>5. f \in [Ids -> Conn] /\ \A i \in Ids : f[i] = Made("none")
  BY <1>2, <1>4, MadeFields
<1>6. m \in Managers
  <2>1. 0 \in 0 .. MaxConns
    BY IdsAre
  <2> QED BY <1>3, <1>5, <2>1 DEF Managers
<1>7. ConnsShape(m)
  <2>1. m.conns = {} /\ m.made = 0 /\ m.con = f /\ m.dns = NULL
    BY <1>3
  <2>2. 1 .. 0 = {}
    OBVIOUS
  <2> QED BY <1>5, <2>1, <2>2 DEF ConnsShape
<1>8. ReqsInv(m)
  BY <1>3 DEF ReqsInv
<1>9. /\ net = [i \in Ids |-> net[i]] /\ \A i \in Ids : net[i] = Unused
  BY DEF Init
<1>10. NetFits(m, net, asked)
  <2>1. \A i \in Ids : net[i] \in Socket(Data(m, i))
    BY <1>9, UnusedFits
  <2>2. asked = {}
    BY DEF Init
  <2> QED BY <1>9, <2>1, <2>2 DEF NetFits
<1>11. FreedFits(m, tmp, freed)
  BY DEF FreedFits, Init
<1>12. Fits(m, tmp, freed, net, asked)
  <2>1. tmp = NULL /\ freed = "no" /\ asked = {}
    BY DEF Init
  <2> QED BY <1>6, <1>7, <1>8, <1>9, <1>10, <1>11, <2>1 DEF Fits, Good
<1>13. EchoesFor(m, net)
  BY <1>3 DEF EchoesFor
<1> QED BY <1>1, <1>12, <1>13 DEF Now

(* mg_mgr_poll, its handlers and the calls between the polls keep what the manager       *)
(* relies on: the list has the connections that are open and no other, the pointer to    *)
(* the name server's and the one that the loop visits next never dangle, every request   *)
(* for a name is of a connection that waits for it, which no other request is for, and    *)
(* freeing leaves nothing behind.                                                        *)
THEOREM MgrHolds == Spec => []MgrInv
<1>1. Init => MgrInv
  BY InitFits, FitsIsMgrInv DEF Now
<1>2. MgrInv /\ [Next]_vars => MgrInv'
  <2> SUFFICES ASSUME MgrInv, [Next]_vars PROVE MgrInv'
    OBVIOUS
  <2>1. Now
    BY FitsIsMgrInv DEF Now
  <2>2. Stays
    BY <2>1, NextStays, StutterStays
  <2>3. Fits(mgr', tmp', freed', net', asked')
    BY <2>2 DEF Stays
  <2>4. (MgrInv <=> Fits(mgr, tmp, freed, net, asked))'
    BY FitsIsMgrInv, PTL
  <2> QED BY <2>3, <2>4
<1> QED BY <1>1, <1>2, PTL DEF Spec

(* A handler is told of its connection in order: first that it is open, last that it is  *)
(* closed, which is exactly when it leaves the list, and of nothing but errors twice.    *)
THEOREM EventsInOrder == Spec => []EventsOrdered
<1>1. MgrInv => EventsOrdered
  <2> SUFFICES ASSUME MgrInv, NEW i \in 1 .. mgr.made
               PROVE  LET told == mgr.con[i].told IN
                      /\ told # <<>> /\ told[1] = "OPEN" /\ Once(told)
                      /\ Within(told, "CLOSE") <=> i \notin mgr.conns
                      /\ Within(told, "CLOSE") => told[Len(told)] = "CLOSE"
    BY DEF EventsOrdered
  <2>1. i \in Ids /\ ConnsInv(mgr)
    BY ManagerFields DEF MgrInv, TypeOK
  <2>2. ToldInv(mgr.con[i]) /\ mgr.con[i].told # <<>>
    BY <2>1 DEF ConnsInv
  <2> QED BY <2>1, <2>2 DEF ConnsInv, ToldInv
<1> QED BY <1>1, MgrHolds, PTL

(* Nothing that a peer wrote is lost, sent twice or sent out of order, whatever select,  *)
(* recv and send do and however the visits of the connections are mixed with the         *)
(* others: what was sent back, what waits to be, what was read and what waits to be read *)
(* are together what the peer wrote.                                                     *)
THEOREM EchoesHold == Spec => []EchoesAll
<1>1. Init => EchoesAll
  BY InitFits, EchoesForIsEchoesAll
<1>2. MgrInv /\ EchoesAll /\ [Next]_vars => EchoesAll'
  <2> SUFFICES ASSUME MgrInv, EchoesAll, [Next]_vars PROVE EchoesAll'
    OBVIOUS
  <2>1. Now /\ EchoesFor(mgr, net)
    BY FitsIsMgrInv, EchoesForIsEchoesAll DEF Now
  <2>2. Stays
    BY <2>1, NextStays, StutterStays
  <2>3. EchoesFor(mgr', net')
    BY <2>1, <2>2 DEF Stays
  <2>4. (EchoesAll <=> EchoesFor(mgr, net))'
    BY EchoesForIsEchoesAll, PTL
  <2> QED BY <2>3, <2>4
<1> QED BY <1>1, <1>2, MgrHolds, PTL DEF Spec
=============================================================================
