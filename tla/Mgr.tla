-------------------------------- MODULE Mgr --------------------------------
(***************************************************************************)
(* The event manager of mongoose_user/src/mongoose.c: a list of            *)
(* connections that mg_mgr_poll visits one after another, listening,       *)
(* accepted, connecting and resolving ones, with the DNS client that       *)
(* resolves names over a connection of the same list.                      *)
(*                                                                         *)
(* Connections are numbered as they are made and put in front of the list, *)
(* which is thus the set of those that are open, in descending order; so   *)
(* is the list of DNS requests, whose numbers ascend with each put in      *)
(* front.  Time is only in the requests: one that is late has waited       *)
(* longer than dnstimeout.  The kernel's answers are chosen by the steps;  *)
(* peers write, connect and close between the steps, and the name server   *)
(* answers late, more than once, or never.                                 *)
(***************************************************************************)
EXTENDS Naturals, Sequences

CONSTANTS
    MaxConns,   \* bound of the model: connections ever made
    MaxBytes,   \* bound of the model: what a peer writes
    MaxQueue,   \* bound of the model: what waits in a socket
    IoSize,     \* MG_IO_SIZE
    MaxRecv     \* MG_MAX_RECV_BUF_SIZE

ASSUME BoundsAssumption == {MaxConns, MaxBytes, MaxQueue, IoSize, MaxRecv} \subseteq Nat \ {0}

VARIABLES
    mgr,    \* struct mg_mgr: the list conns, its connections, the DNS requests
    tmp,    \* the connection that mg_mgr_poll visits next, NULL when it has ended
    freed,  \* mg_mgr_free: "no", "asked" before its poll, "done" after it began
    net,    \* of each socket: what waits to be read, what was sent, and the peer
    asked   \* the queries the name server has

vars == <<mgr, tmp, freed, net, asked>>

NULL == 0
Ids == 1 .. MaxConns

Made(kind) ==
    [kind |-> kind, fd |-> FALSE, resolving |-> FALSE, connecting |-> FALSE, closing |-> FALSE,
     draining |-> FALSE, readable |-> FALSE, writable |-> FALSE,
     recv |-> <<>>, send |-> <<>>, told |-> <<>>]

Unused == [in |-> <<>>, out |-> <<>>, wrote |-> 0, shut |-> FALSE]

Init == /\ mgr = [made |-> 0, conns |-> {}, con |-> [i \in Ids |-> Made("none")],
                  reqs |-> {}, dns |-> NULL]
        /\ tmp = NULL /\ freed = "no"
        /\ net = [i \in Ids |-> Unused]
        /\ asked = {}

(* mg_call: POLL, READ and WRITE are not recorded. *)
Call(c, ev) == [c EXCEPT !.told = Append(@, ev)]

Doomed(c) == [c EXCEPT !.closing = TRUE]

Error(c) == Call(Doomed(c), "ERROR")

(* mg_alloc_conn, and LIST_ADD_HEAD *)
Alloc(m, c) == [m EXCEPT !.made = m.made + 1, !.conns = @ \cup {m.made + 1},
                         !.con[m.made + 1] = c]

With(m, i, c) == [m EXCEPT !.con[i] = c]

--------------------------------------------------------------------------
(* mg_connect_resolved.  r is what socket() and connect() return. *)
Results == {"none", "ok", "wait", "error"}

ConnectResolved(c, r) ==
    LET n == [c EXCEPT !.fd = r # "none", !.resolving = FALSE]
    IN CASE r = "none"  -> Error(n)
         [] r = "ok"    -> Call(Call(n, "RESOLVE"), "CONNECT")
         [] r = "wait"  -> [Call(n, "RESOLVE") EXCEPT !.connecting = TRUE]
         [] r = "error" -> Error(Call(n, "RESOLVE"))

Owners(D) == {d.c : d \in D}

(* The head of the list active_dns_requests. *)
HeadOf(D) == CHOOSE d \in D : \A e \in D : e.txnid <= d.txnid

Request(m, i) == [c |-> i, late |-> FALSE,
                  txnid |-> IF m.reqs = {} THEN 1 ELSE HeadOf(m.reqs).txnid + 1]

(* mg_sendnsreq: the connection to the name server is made when there is none.  It is  *)
(* over UDP, so it is ready at once; u tells whether there is a socket, and sent       *)
(* whether it has taken the query.                                                     *)
WithDns(m, u) == IF m.dns # NULL THEN m
                 ELSE [Alloc(m, ConnectResolved(Call(Made("dns"), "OPEN"), u))
                          EXCEPT !.dns = m.made + 1]

DnsSocket(m) == m.dns # NULL /\ m.con[m.dns].fd

SendNsReq(m, i, sent) ==
    LET n == [m EXCEPT !.reqs = @ \cup {Request(m, i)}, !.con[i].resolving = TRUE]
    IN IF sent THEN n ELSE With(n, n.dns, Error(n.con[n.dns]))

(* mg_dns_free, mg_resolve_cancel *)
(* Mutant of Cancelled: the requests of a connection outlive it. *)
CancelledNot(m, i) == m

Cancelled(m, i) == [m EXCEPT !.reqs = {d \in @ : d.c # i}]

--------------------------------------------------------------------------
(* dns_cb, at MG_EV_POLL, MG_EV_READ and MG_EV_CLOSE *)

(* Mutant of Failed: the connections are left as they are. *)
FailedSilently(m, D) == m

Failed(m, D) ==
    [m EXCEPT !.con = [i \in Ids |-> IF i \in Owners(D) THEN Error(m.con[i]) ELSE m.con[i]]]

DnsPoll(m) == Failed(m, {d \in m.reqs : d.late})

Reply(c, found, r) == CASE ~c.resolving            -> c
                        [] c.resolving /\ found    -> ConnectResolved(c, r)
                        [] c.resolving /\ ~found   -> Error(c)

Answered(m, p, r) ==
    LET own == {d \in m.reqs : d.txnid = p.txnid}
    IN [m EXCEPT !.reqs = @ \ own,
                 !.con = [i \in Ids |-> IF i \in Owners(own) THEN Reply(m.con[i], p.found, r)
                                        ELSE m.con[i]]]

DnsClose(m) == [Failed(m, m.reqs) EXCEPT !.reqs = {}]

--------------------------------------------------------------------------
(* close_conn and mg_close_conn *)
Gone(c) == Call([Made(c.kind) EXCEPT !.told = c.told], "CLOSE")

ListWithout(m, i) == [m EXCEPT !.conns = @ \ {i}, !.dns = IF @ = i THEN NULL ELSE @]

Closed(m, i) ==
    LET n == With(ListWithout(Cancelled(m, i), i), i, Gone(m.con[i]))
    IN IF m.con[i].kind = "dns" THEN DnsClose(n) ELSE n

(* mg_connect: a name is looked up, an address is connected to. *)
MayMake(n) == mgr.made + n <= MaxConns
Polls == tmp # NULL

ConnectTo(r) ==
    /\ MayMake(1)
    /\ mgr' = Alloc(mgr, ConnectResolved(Call(Made("client"), "OPEN"), r))
    /\ UNCHANGED asked

LookUp(u, sent) ==
    LET i == mgr.made + 1
        m == WithDns(Alloc(mgr, Call(Made("client"), "OPEN")), u)
    IN /\ MayMake(IF mgr.dns = NULL THEN 2 ELSE 1)
       /\ sent => DnsSocket(m)
       /\ mgr' = SendNsReq(m, i, sent)
       /\ asked' = IF sent THEN asked \cup {[txnid |-> Request(m, i).txnid, to |-> m.dns]} ELSE asked

Connect(r, sent, named) ==
    /\ ~Polls /\ freed = "no"
    /\ IF named THEN r \in {"none", "ok"} /\ LookUp(r, sent) ELSE ~sent /\ ConnectTo(r)
    /\ UNCHANGED <<tmp, freed, net>>

(* mg_listen *)
Listen == /\ ~Polls /\ freed = "no" /\ MayMake(1)
          /\ \A i \in mgr.conns : mgr.con[i].kind # "listener"
          /\ mgr' = Alloc(mgr, Call([Made("listener") EXCEPT !.fd = TRUE], "OPEN"))
          /\ UNCHANGED <<tmp, freed, net, asked>>

(* The program ends a connection: at once, or when what is to be sent has been. *)
End(i, drain) ==
    /\ ~Polls /\ freed = "no" /\ i \in mgr.conns /\ mgr.con[i].kind \in {"client", "accepted"}
    /\ ~mgr.con[i].closing /\ ~mgr.con[i].draining
    /\ mgr' = With(mgr, i, IF drain THEN [mgr.con[i] EXCEPT !.draining = TRUE]
                           ELSE Doomed(mgr.con[i]))
    /\ UNCHANGED <<tmp, freed, net, asked>>

(* mg_mgr_free: every connection is to be closed by one more poll. *)
Free == /\ ~Polls /\ freed = "no"
        /\ freed' = "asked"
        /\ mgr' = [mgr EXCEPT !.con = [i \in Ids |-> IF i \in mgr.conns THEN Doomed(mgr.con[i])
                                                    ELSE mgr.con[i]]]
        /\ UNCHANGED <<tmp, net, asked>>

--------------------------------------------------------------------------
(* mg_iotest, and the start of the loop of mg_mgr_poll *)
Watched(c) == ~c.closing /\ ~c.resolving /\ c.fd

(* A listening socket is readable when a peer wants to connect. *)
ReadReady(i, peer) == IF mgr.con[i].kind = "listener" THEN peer
                      ELSE net[i].in # <<>> \/ net[i].shut

WantsWrite(c) == c.connecting \/ c.send # <<>>

(* The connection behind number n in the list. *)
Behind(n) == LET rest == {j \in mgr.conns : j < n}
             IN IF rest = {} THEN NULL ELSE CHOOSE j \in rest : \A k \in rest : k <= j

Select(peer, W) ==
    /\ ~Polls /\ mgr.conns # {} /\ freed # "done"
    /\ W \subseteq {i \in mgr.conns : Watched(mgr.con[i]) /\ WantsWrite(mgr.con[i])}
    /\ mgr' = [mgr EXCEPT !.con = [i \in Ids |->
                  [@[i] EXCEPT !.readable = i \in mgr.conns /\ Watched(mgr.con[i]) /\ ReadReady(i, peer),
                               !.writable = i \in W]]]
    /\ tmp' = Behind(mgr.made + 1)
    /\ freed' = IF freed = "asked" THEN "done" ELSE freed
    /\ UNCHANGED <<net, asked>>

(* A visit: MG_EV_POLL first, what the connection is ready for, then its end. *)
Polled(i) == IF mgr.con[i].kind = "dns" THEN DnsPoll(mgr) ELSE mgr

Ended(m, i) == LET c == m.con[i]
               IN IF c.closing \/ (c.draining /\ c.send = <<>>) THEN Closed(m, i) ELSE m

(* What waits in a socket that is closed, or is on its way to it, is lost. *)
Visits(i, m, n) == /\ mgr' = Ended(m, i)
                   /\ tmp' = Behind(i)
                   /\ net' = IF i \in mgr'.conns THEN n ELSE [n EXCEPT ![i] = Unused]
                   /\ asked' = {q \in asked : q.to \in mgr'.conns}
                   /\ UNCHANGED freed

Idle(c) == \/ c.resolving \/ c.closing
           \/ c.kind = "listener" /\ ~c.readable
           \/ c.connecting /\ ~c.readable /\ ~c.writable
           \/ ~c.readable /\ ~c.writable

VisitIdle(i) == /\ i = tmp
                /\ Idle(Polled(i).con[i])
                /\ Visits(i, Polled(i), net)

(* accept_conn.  ok: accept() has a socket, and one that FD_SET can hold. *)
Accept(i, ok) ==
    LET c == Call(Call([Made("accepted") EXCEPT !.fd = TRUE], "OPEN"), "ACCEPT")
    IN /\ i = tmp /\ mgr.con[i].kind = "listener" /\ ~Idle(mgr.con[i])
       /\ ok => MayMake(1)
       /\ Visits(i, IF ok THEN Alloc(mgr, c) ELSE mgr, net)

(* connect_conn *)
(* Mutant of NoLonger: the flag stays set. *)
NoLongerAtAll(c) == c

NoLonger(c) == [c EXCEPT !.connecting = FALSE]

Connected(i, ok) ==
    LET c == NoLonger(mgr.con[i])
    IN /\ i = tmp /\ mgr.con[i].connecting /\ ~Idle(mgr.con[i])
       /\ Visits(i, With(mgr, i, IF ok THEN Call(c, "CONNECT") ELSE Error(c)), net)

(* The program's handler at MG_EV_READ: it sends back what it was sent (main.c), leaves *)
(* it for later, or sends it back and says that this was all.                          *)
Replies == {"echo", "keep", "drain"}

Handled(c, h) ==
    IF h = "keep" THEN c
    ELSE [c EXCEPT !.send = @ \o c.recv, !.recv = <<>>, !.draining = @ \/ h = "drain"]

(* read_conn: recv returns at most MG_IO_SIZE, and -1 when the peer has closed. *)
Took(in) == IF Len(in) < IoSize THEN Len(in) ELSE IoSize

ReadConn(c, in, h) ==
    CASE Len(c.recv) >= MaxRecv                  -> Error(c)
      [] Len(c.recv) < MaxRecv /\ in = <<>>      -> Doomed(c)
      [] Len(c.recv) < MaxRecv /\ in # <<>>      ->
             Handled([c EXCEPT !.recv = @ \o SubSeq(in, 1, Took(in))], h)

Left(c, in) == IF Len(c.recv) < MaxRecv /\ c.readable THEN SubSeq(in, Took(in) + 1, Len(in)) ELSE in

(* write_conn: send takes the first n of them, or fails when the peer has closed. *)
(* Mutant of Deleted: all of the buffer is taken to be sent. *)
DeletedAll(send, n) == <<>>

Deleted(send, n) == SubSeq(send, n + 1, Len(send))

WriteConn(c, n, fails) == IF fails THEN Doomed(c) ELSE [c EXCEPT !.send = Deleted(@, n)]

Visit(i, h, n, fails) ==
    LET c == IF mgr.con[i].readable THEN ReadConn(mgr.con[i], net[i].in, h) ELSE mgr.con[i]
    IN /\ i = tmp /\ mgr.con[i].kind \in {"accepted", "client"}
       /\ ~mgr.con[i].connecting /\ ~Idle(mgr.con[i])
       /\ fails => mgr.con[i].writable /\ net[i].shut
       /\ IF mgr.con[i].writable /\ ~fails THEN n \in 1 .. Len(c.send) ELSE n = 0
       /\ Visits(i, With(mgr, i, WriteConn(c, n, fails)),
                 [net EXCEPT ![i].in = Left(mgr.con[i], @), ![i].out = @ \o SubSeq(c.send, 1, n)])

(* The connection to the name server reads one reply, or that there is no server. *)
VisitDns(i, r) ==
    LET m == Polled(i)
    IN /\ i = tmp /\ mgr.con[i].kind = "dns" /\ ~Idle(m.con[i])
       /\ Visits(i, IF net[i].in = <<>> THEN With(m, i, Doomed(m.con[i]))
                    ELSE Answered(m, Head(net[i].in), r),
                 [net EXCEPT ![i].in = IF @ = <<>> THEN @ ELSE Tail(@)])

--------------------------------------------------------------------------
(* The peers, the name server and the time.  What arrives between select() and the visit *)
(* is as if it had arrived before, or after the visits, so these steps are then.         *)
PeerWrites(i) == /\ ~Polls /\ i \in mgr.conns /\ mgr.con[i].kind = "accepted" /\ ~net[i].shut
                 /\ net[i].wrote < MaxBytes /\ Len(net[i].in) < MaxQueue
                 /\ net' = [net EXCEPT ![i].in = Append(@, net[i].wrote + 1), ![i].wrote = @ + 1]
                 /\ UNCHANGED <<mgr, tmp, freed, asked>>

PeerCloses(i) == /\ ~Polls /\ i \in mgr.conns /\ mgr.con[i].kind # "listener"
                 /\ mgr.con[i].fd /\ ~mgr.con[i].connecting /\ ~net[i].shut
                 /\ net' = [net EXCEPT ![i].shut = TRUE]
                 /\ UNCHANGED <<mgr, tmp, freed, asked>>

(* found: the server knows the name. *)
Answer(q, found) ==
    /\ ~Polls /\ q.to \in mgr.conns /\ Len(net[q.to].in) < MaxQueue
    /\ net' = [net EXCEPT ![q.to].in =
                   Append(@, [txnid |-> q.txnid, found |-> found])]
    /\ UNCHANGED <<mgr, tmp, freed, asked>>

Elapse == /\ ~Polls
          /\ \E d \in mgr.reqs :
                /\ ~d.late
                /\ \A e \in mgr.reqs : e.txnid < d.txnid => e.late
                /\ mgr' = [mgr EXCEPT !.reqs = (@ \ {d}) \cup {[d EXCEPT !.late = TRUE]}]
          /\ UNCHANGED <<tmp, freed, net, asked>>

Poll == \/ \E peer \in BOOLEAN, W \in SUBSET Ids : Select(peer, W)
        \/ \E i \in Ids : VisitIdle(i)
        \/ \E i \in Ids, ok \in BOOLEAN : Accept(i, ok) \/ Connected(i, ok)
        \/ \E i \in Ids, h \in Replies, n \in 0 .. MaxBytes, fails \in BOOLEAN : Visit(i, h, n, fails)
        \/ \E i \in Ids, r \in Results : VisitDns(i, r)

Next == \/ Poll
        \/ \E r \in Results, sent \in BOOLEAN, named \in BOOLEAN : Connect(r, sent, named)
        \/ Listen \/ Free \/ Elapse
        \/ \E i \in Ids, drain \in BOOLEAN : End(i, drain)
        \/ \E i \in Ids : PeerWrites(i) \/ PeerCloses(i)
        \/ \E q \in asked, found \in BOOLEAN : Answer(q, found)

(* The program calls mg_mgr_poll for ever, and time passes. *)
Spec == Init /\ [][Next]_vars /\ WF_vars(Poll) /\ SF_vars(Elapse)
--------------------------------------------------------------------------
(* What the data are. *)
Kinds == {"none", "listener", "accepted", "client", "dns"}
Events == {"OPEN", "RESOLVE", "CONNECT", "ACCEPT", "ERROR", "CLOSE"}

Conn == [kind : Kinds, fd : BOOLEAN, resolving : BOOLEAN, connecting : BOOLEAN, closing : BOOLEAN,
         draining : BOOLEAN, readable : BOOLEAN, writable : BOOLEAN,
         recv : Seq(Nat), send : Seq(Nat), told : Seq(Events)]

Requests == [c : Ids, late : BOOLEAN, txnid : Nat]
Answers == [txnid : Nat, found : BOOLEAN]
Queries == [txnid : Nat, to : Ids]

Managers == [made : 0 .. MaxConns, conns : SUBSET Ids, con : [Ids -> Conn],
             reqs : SUBSET Requests, dns : Ids \cup {NULL}]

Socket(S) == [in : Seq(S), out : Seq(Nat), wrote : Nat, shut : BOOLEAN]

TypeOK == /\ mgr \in Managers /\ tmp \in Ids \cup {NULL} /\ freed \in {"no", "asked", "done"}
          /\ net = [i \in Ids |-> net[i]] /\ asked \subseteq Queries

Within(told, ev) == \E k \in 1 .. Len(told) : told[k] = ev

Once(told) == \A j, k \in 1 .. Len(told) : told[j] = told[k] /\ told[j] # "ERROR" => j = k

(* What a connection was told fits what it still waits for. *)
ToldInv(c) ==
    /\ c.told # <<>> => c.told[1] = "OPEN"
    /\ Once(c.told)
    /\ c.resolving \/ c.connecting => c.kind = "client" /\ ~Within(c.told, "CONNECT")
    /\ c.resolving => ~c.connecting /\ ~Within(c.told, "RESOLVE")

(* The connections made, those on the list, and the manager's pointer to the name         *)
(* server's, which never dangles.                                                         *)
ConnsInv(m) ==
    /\ m.conns \subseteq 1 .. m.made
    /\ \A i \in Ids : ToldInv(m.con[i])
    /\ \A i \in Ids : i > m.made => m.con[i] = Made("none")
    /\ \A i \in 1 .. m.made : m.con[i].told # <<>>
    /\ \A i \in 1 .. m.made : Within(m.con[i].told, "CLOSE") <=> i \notin m.conns
    /\ \A i \in 1 .. m.made : Within(m.con[i].told, "CLOSE")
                              => m.con[i].told[Len(m.con[i].told)] = "CLOSE"
    /\ \A i \in m.conns : m.con[i].kind = "dns" <=> m.dns = i
    /\ m.dns \in m.conns \cup {NULL}

(* Every request is of a connection on the list, which waits for it, and no two are of    *)
(* one connection or have one number; and a connection that is resolving has a request,   *)
(* so that it is answered or comes to an end.                                             *)
ReqsInv(m) ==
    /\ \A d \in m.reqs : d.c \in m.conns /\ m.con[d.c].resolving /\ d.txnid <= d.c
    /\ \A d, e \in m.reqs : d.c = e.c \/ d.txnid = e.txnid => d = e
    /\ \A i \in m.conns : m.con[i].resolving /\ ~m.con[i].closing => i \in Owners(m.reqs)

(* The connection that the loop visits next is on the list: no handler that ran since tmp *)
(* was read has removed it.                                                               *)
VisitsListed == Polls => tmp \in mgr.conns

(* mg_mgr_free: what is on the list is to be closed, and in its poll the list has nothing *)
(* but what is still to be visited: none is left when it returns.                         *)
FreedInv == /\ freed # "no" => \A i \in mgr.conns : mgr.con[i].closing
            /\ freed = "asked" => ~Polls
            /\ freed = "done" => \A i \in mgr.conns : i <= tmp

(* A socket that is closed has nothing, that of the name server has answers only, and     *)
(* only it has queries.                                                                   *)
NetInv == /\ \A i \in Ids \ mgr.conns : net[i] = Unused
          /\ \A i \in Ids : net[i] \in Socket(IF mgr.con[i].kind = "dns" THEN Answers ELSE Nat)
          /\ \A q \in asked : q.to \in mgr.conns /\ mgr.con[q.to].kind = "dns"

(* Nothing that a peer wrote is lost, sent twice or sent out of order while its            *)
(* connection is on the list, however little each call of send and recv takes.            *)
EchoesAll == \A i \in mgr.conns : mgr.con[i].kind = "accepted" =>
    net[i].out \o mgr.con[i].send \o mgr.con[i].recv \o net[i].in = [k \in 1 .. net[i].wrote |-> k]

(* What the manager keeps: its list is that of the connections that are open, with what   *)
(* waits for them, and empty when it has been freed.                                      *)
MgrInv == /\ TypeOK /\ ConnsInv(mgr) /\ ReqsInv(mgr)
          /\ VisitsListed /\ FreedInv /\ NetInv

(* A handler is told of a connection in order: that it is open first, that it is closed   *)
(* last, exactly when it leaves the list, and of nothing but errors twice.                *)
EventsOrdered == \A i \in 1 .. mgr.made : LET told == mgr.con[i].told IN
    /\ told # <<>> /\ told[1] = "OPEN" /\ Once(told)
    /\ Within(told, "CLOSE") <=> i \notin mgr.conns
    /\ Within(told, "CLOSE") => told[Len(told)] = "CLOSE"

(* A name that is looked up is found, or the connection fails. *)
Resolves == \A i \in Ids :
    [](i \in mgr.conns /\ mgr.con[i].resolving => <>(i \notin mgr.conns \/ ~mgr.con[i].resolving))
=============================================================================
