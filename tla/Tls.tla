-------------------------------- MODULE Tls --------------------------------
(***************************************************************************)
(* The TLS of httpclient/src/krypton.c: two ends with non-blocking         *)
(* sockets, the records between them, the handshake, data, and the end of  *)
(* the connection.  A call of the library is taken apart where it calls    *)
(* the kernel: each do_send and each do_recv is a step of its own, between *)
(* which the other end runs.                                               *)
(*                                                                         *)
(* A record travels as two units, its head and its tail, so that it may    *)
(* be sent and received in pieces.  What is encrypted is opened with the   *)
(* number of the record, once; a Finished holds the handshake messages its *)
(* sender has hashed.                                                      *)
(***************************************************************************)
EXTENDS Integers, Sequences, SequencesExt

CONSTANTS
    Capacity,       \* units that a socket takes before send would block
    MaxRecord,      \* data a record holds, 2^14 less what the cipher adds
    Writers,        \* the ends that write; the other reads
    Writes, Reads,  \* the lengths that SSL_write and SSL_read are called with
    MaxData,        \* bound of the model: data an end writes
    Duplex,         \* between a write and its repetition an end may call others
    NULL

VARIABLES
    ssl,    \* of each end
    net,    \* the units on the way to each end
    shut,   \* the ends that have closed their socket
    call,   \* the call each end is in: [f, n, at]
    acked,  \* how much data SSL_write said it took
    again,  \* the length of a write that is to be called again, 0 if none
    got,    \* the data SSL_read returned
    ended,  \* a call has found the end of the connection
    connected, \* the ends whose SSL_connect or SSL_accept has succeeded
    trusted \* the certificate of the server verifies

vars == <<ssl, net, shut, call, acked, again, got, ended, connected, trusted>>

Ends == {"client", "server"}
Other(e) == IF e = "client" THEN "server" ELSE "client"

Idle == [f |-> "none", n |-> 0, at |-> "none"]

(* The security parameters are being negotiated (nxt) or in use (cur). *)
New == [state |-> "INITIAL", sec |-> "none", keys |-> FALSE, hash |-> <<>>,
        rx |-> <<>>, tx |-> <<>>, tx_enc |-> FALSE, rx_enc |-> FALSE,
        tx_seq |-> 0, rx_seq |-> 0, extra |-> <<>>, stashed |-> FALSE, eom |-> 0,
        copied |-> <<>>, got_appdata |-> FALSE, write_pending |-> FALSE,
        close_notify |-> FALSE, fatal |-> FALSE, ok |-> TRUE]

Init == /\ ssl = [e \in Ends |-> New]
        /\ net = [e \in Ends |-> <<>>]
        /\ shut = {}
        /\ call = [e \in Ends |-> Idle]
        /\ acked = [e \in Ends |-> 0]
        /\ again = [e \in Ends |-> 0]
        /\ got = [e \in Ends |-> <<>>]
        /\ ended = [e \in Ends |-> FALSE]
        /\ connected = {}
        /\ trusted \in BOOLEAN

--------------------------------------------------------------------------
(* Sending: a record is appended to tx; a handshake message is hashed too. *)
Handshake == {"client_hello", "server_hello", "certificate", "hello_done", "key_exch", "finished"}

Units(rec) == <<[rec |-> rec, part |-> 1], [rec |-> rec, part |-> 2]>>

Hashed(s, type) == [s EXCEPT !.hash = Append(@, type)]

TlsSend(s, type, data) ==
    LET rec == [type |-> type, data |-> data, seq |-> IF s.tx_enc THEN s.tx_seq ELSE NULL]
        t == IF type \in Handshake THEN Hashed(s, type) ELSE s
    IN [t EXCEPT !.tx = @ \o Units(rec), !.tx_seq = IF s.tx_enc THEN @ + 1 ELSE @]

(* tls_alert: a fatal one replaces what has not been sent. *)
FatalAlert(s) ==
    IF s.fatal THEN s
    ELSE TlsSend([s EXCEPT !.fatal = TRUE, !.tx = <<>>], "alert", "fatal")

CloseAlert(s) == IF s.fatal THEN s ELSE TlsSend(s, "alert", "close_notify")

(* tls_cl_hello and tls_cl_finish, tls_sv_hello and tls_sv_finish *)
ClientHello(s) == TlsSend([s EXCEPT !.sec = "nxt"], "client_hello", NULL)

ServerHello(s) ==
    TlsSend(TlsSend(TlsSend(s, "server_hello", NULL), "certificate", NULL), "hello_done", NULL)

Finish(s) ==
    LET t == TlsSend(s, "change_cipher_spec", NULL)
        u == [t EXCEPT !.sec = "cur", !.tx_enc = TRUE]
    IN TlsSend(u, "finished", u.hash)

ClientFinish(s) == Finish(TlsSend([s EXCEPT !.keys = TRUE], "key_exch", NULL))

--------------------------------------------------------------------------
(* Receiving: the handlers of tls_handle_recv.  ok is what they return. *)
To(s, state) == [s EXCEPT !.state = state]
Refuse(s) == [FatalAlert(s) EXCEPT !.ok = FALSE]

Certificate(s) == IF trusted THEN To(s, "SV_CERT_RCVD") ELSE Refuse(To(s, "SV_CERT_RCVD"))

(* The state is advanced whether the message is right or not. *)
Finished(s, data, state) ==
    CASE s.sec # "cur"                      -> Refuse(s)
      [] s.sec = "cur" /\ data = s.hash     -> To(s, state)
      [] OTHER                              -> Refuse(To(s, state))

ClientHandshake(s, rec) ==
    CASE rec.type = "server_hello" -> To(s, "SV_HELLO_RCVD")
      [] rec.type = "certificate"  -> Certificate(s)
      [] rec.type = "hello_done"   -> To(s, "SV_DONE_RCVD")
      [] rec.type = "finished"     -> Finished(s, rec.data, "ESTABLISHED")
      [] OTHER                     -> Refuse(s)

ServerHandshake(s, rec) ==
    CASE rec.type = "client_hello" /\ s.state = "CL_HELLO_WAIT" ->
             To([s EXCEPT !.sec = "nxt", !.hash = <<>>], "CL_HELLO_RCVD")
      [] rec.type = "client_hello" /\ s.state # "CL_HELLO_WAIT" ->
             TlsSend(s, "alert", "no_renegotiation")
      [] rec.type = "key_exch"     -> s
      [] rec.type = "finished"     -> Finished(s, rec.data, "CLIENT_FINISHED")
      [] OTHER                     -> Refuse(s)

HandleHandshake(e, s, rec) ==
    Hashed(IF e = "client" THEN ClientHandshake(s, rec) ELSE ServerHandshake(s, rec), rec.type)

ChangeCipher(e, s) ==
    IF e = "client" THEN [s EXCEPT !.rx_enc = TRUE]
    ELSE [s EXCEPT !.rx_enc = TRUE, !.keys = TRUE, !.sec = IF @ = "nxt" THEN "cur" ELSE @]

(* Mutant of AppData: what arrives before SSL_read asks for it is dropped. *)
AppDataDropped(s, data, n, eom) ==
    IF n = 0 THEN [s EXCEPT !.eom = eom]
    ELSE [s EXCEPT !.copied = data, !.stashed = TRUE, !.got_appdata = TRUE, !.eom = eom]

(* n is the room in the caller's buffer, 0 if it has none: then the data are put aside, *)
(* once, and after that dropped.  eom is the unit after the record.                     *)
AppData(s, data, n, eom) ==
    CASE n = 0 /\ ~s.stashed -> [s EXCEPT !.extra = data, !.stashed = TRUE, !.eom = eom]
      [] n = 0 /\ s.stashed  -> [s EXCEPT !.eom = eom]
      [] OTHER -> LET r == IF Len(data) < n THEN Len(data) ELSE n
                  IN [s EXCEPT !.copied = SubSeq(data, 1, r), !.stashed = TRUE,
                               !.extra = SubSeq(data, r + 1, Len(data)),
                               !.got_appdata = TRUE, !.eom = eom]

Alert(s, data) ==
    IF data = "close_notify"
    THEN [IF s.close_notify \/ s.state = "CLOSING" THEN s ELSE CloseAlert(s)
              EXCEPT !.close_notify = TRUE]
    ELSE [s EXCEPT !.ok = data # "fatal"]

(* decrypt_and_vrfy works in place: the record is not opened twice. *)
Opens(s, at) == /\ s.rx[at + 1].rec = s.rx[at + 2].rec
                /\ s.sec = "cur" /\ s.rx_enc => s.rx[at + 1].rec.seq = s.rx_seq

Opened(s, at) ==
    IF ~(s.sec = "cur" /\ s.rx_enc) THEN s
    ELSE LET clear(u) == [u EXCEPT !.rec.seq = NULL]
         IN [s EXCEPT !.rx_seq = @ + 1, !.rx[at + 1] = clear(@), !.rx[at + 2] = clear(@)]

Handled(e, s, rec, n, eom) ==
    CASE rec.type \in Handshake            -> HandleHandshake(e, s, rec)
      [] rec.type = "change_cipher_spec"   -> ChangeCipher(e, s)
      [] rec.type = "alert"                -> Alert(s, rec.data)
      [] OTHER                             -> AppData(s, rec.data, n, eom)

(* What is left of rx when the records before at are done with.  Data that were put *)
(* aside or are not all read yet stay where they are, and all before them.          *)
Shuffled(s, at) == IF s.extra # <<>> THEN s
                   ELSE [s EXCEPT !.rx = SubSeq(@, at + 1, Len(@))]

(* A turn of the loop of tls_handle_recv: the record at place r.at of rx. *)
Turn(e, r, n) ==
    LET s == r.s
        rec == s.rx[r.at + 1].rec
        t == Handled(e, Opened(s, r.at), rec, n, r.at + 2)
        Stop(u) == [s |-> u, at |-> r.at, over |-> TRUE]
    IN IF r.over THEN r
       ELSE IF Len(s.rx) < r.at + 2 \/ s.close_notify \/ s.fatal THEN Stop(Shuffled(s, r.at))
       ELSE IF ~Opens(s, r.at) THEN Stop(Shuffled(FatalAlert([s EXCEPT !.rx_seq = @ + 1]), r.at))
       ELSE CASE ~t.ok -> Stop([t EXCEPT !.rx = <<>>])
              [] t.ok /\ rec.type = "data" -> Stop(Shuffled(t, r.at + 2))
              [] OTHER -> [r EXCEPT !.s = t, !.at = @ + 2]

(* tls_handle_recv: the whole records of rx, of two units each, up to one of data;  *)
(* the set holds the one place the loop is at after k turns.                        *)
HandleRecv(e, s, n) ==
    LET turns == Len(s.rx) \div 2 + 1
        after[k \in 0 .. turns] ==
            IF k = 0 THEN {[s |-> [s EXCEPT !.ok = TRUE], at |-> 0, over |-> FALSE]}
            ELSE {Turn(e, r, n) : r \in after[k - 1]}
    IN (CHOOSE r \in after[turns] : TRUE).s

--------------------------------------------------------------------------
(* The calls.  Before the step "send", do_send is to be called; before "recv", do_recv *)
(* in a loop; and before "done" nothing but the return.                                *)
Known(e) == <<ssl[e].state, ssl[e].close_notify, ssl[e].fatal>>

Closed(s) == s.close_notify \/ s.state = "CLOSING"

At(e, step) == call' = [call EXCEPT ![e].at = step]
Returns(e) == call' = [call EXCEPT ![e] = Idle]

Begins(e, f, n, step, s) ==
    /\ call' = [call EXCEPT ![e] = [f |-> f, n |-> n, at |-> step]]
    /\ ssl' = [ssl EXCEPT ![e] = s]

Ready(e) == call[e] = Idle /\ e \notin shut

(* SSL_connect and SSL_accept, until they succeed. *)
Connect(e) ==
    /\ Ready(e) /\ e \notin connected /\ ~ended[e] /\ ~Closed(ssl[e]) /\ ~ssl[e].fatal
    /\ Begins(e, "connect", 0, "send", ssl[e])
    /\ UNCHANGED <<net, shut, acked, again, got, ended, connected, trusted>>

(* The states that are passed through without waiting. *)
Advance(e, s) ==
    CASE e = "client" /\ s.state = "INITIAL"        -> To(ClientHello(s), "CL_HELLO_SENT")
      [] e = "client" /\ s.state = "SV_DONE_RCVD"   -> To(ClientFinish(s), "CLIENT_FINISHED")
      [] e = "server" /\ s.state = "INITIAL"        -> To(s, "CL_HELLO_WAIT")
      [] e = "server" /\ s.state = "CL_HELLO_RCVD"  -> To(ServerHello(s), "SV_HELLO_SENT")
      [] e = "server" /\ s.state = "CLIENT_FINISHED" -> To(Finish(s), "ESTABLISHED")
      [] OTHER -> s

(* One turn of SSL_connect or SSL_accept after all has been sent. *)
ConnectStep(e) ==
    LET s == Advance(e, ssl[e])
    IN /\ call[e].f = "connect" /\ call[e].at = "step"
       /\ ssl' = [ssl EXCEPT ![e] = s]
       /\ CASE s # ssl[e]                -> At(e, "send")
            [] s = ssl[e] /\ s.state = "ESTABLISHED" -> Returns(e)
            [] OTHER                     -> At(e, "recv")
       /\ connected' = IF s = ssl[e] /\ s.state = "ESTABLISHED" THEN connected \cup {e}
                       ELSE connected
       /\ UNCHANGED <<net, shut, acked, again, got, ended, trusted>>

(* SSL_write: a record that is still to be sent is not built again. *)
Data(e, n) == [i \in 1 .. n |-> acked[e] + i]
Record(n) == IF n < MaxRecord THEN n ELSE MaxRecord

(* Mutant of Rewrites: the record is built again. *)
RewritesAlways(e) == TRUE

Rewrites(e) == ~ssl[e].write_pending

Write(e, n) ==
    /\ e \in Writers
    /\ Ready(e) /\ e \in connected /\ ~ssl[e].fatal /\ ~Closed(ssl[e])
    /\ again[e] \in {0, n} /\ acked[e] + n <= MaxData
    /\ IF Rewrites(e)
       THEN Begins(e, "write", Record(n), "send",
                   [TlsSend(ssl[e], "data", Data(e, Record(n))) EXCEPT !.write_pending = TRUE])
       ELSE Begins(e, "write", n, "send", ssl[e])
    /\ again' = [again EXCEPT ![e] = n]
    /\ UNCHANGED <<net, shut, acked, got, ended, connected, trusted>>

(* SSL_write with no data sends what there is to send. *)
Flush(e) == /\ Ready(e) /\ ssl[e].tx # <<>> /\ (ssl[e].fatal \/ Duplex)
            /\ Begins(e, "flush", 0, "send", ssl[e])
            /\ UNCHANGED <<net, shut, acked, again, got, ended, connected, trusted>>

(* SSL_read: first the data that were put aside, then what is in rx, then do_recv. *)
GiveExtra(s, n) ==
    LET r == IF n < Len(s.extra) THEN n ELSE Len(s.extra)
        rest == SubSeq(s.extra, r + 1, Len(s.extra))
    IN [s EXCEPT !.extra = rest,
                 !.rx = IF rest = <<>> THEN SubSeq(@, s.eom + 1, Len(@)) ELSE @,
                 !.copied = SubSeq(s.extra, 1, r)]

Gives(e, s) == got' = [got EXCEPT ![e] = @ \o s.copied]

ReadExtra(e, n) ==
    /\ ssl[e].extra # <<>>
    /\ LET s == GiveExtra(ssl[e], n)
       IN /\ ssl' = [ssl EXCEPT ![e] = [s EXCEPT !.copied = <<>>]]
          /\ Gives(e, s)
    /\ UNCHANGED <<call, ended>>

ReadRecords(e, n) ==
    /\ ssl[e].extra = <<>> /\ ~Closed(ssl[e])
    /\ LET s == HandleRecv(e, [ssl[e] EXCEPT !.got_appdata = FALSE, !.copied = <<>>], n)
       IN IF s.got_appdata \/ ~s.ok
          THEN /\ ssl' = [ssl EXCEPT ![e] = [s EXCEPT !.copied = <<>>]]
               /\ Gives(e, s)
               /\ UNCHANGED call
          ELSE Begins(e, "read", n, "recv", s) /\ UNCHANGED got
    /\ UNCHANGED ended

ReadEnd(e) == /\ ssl[e].extra = <<>> /\ Closed(ssl[e])
              /\ ended' = [ended EXCEPT ![e] = TRUE]
              /\ UNCHANGED <<ssl, call, got>>

Read(e, n) ==
    /\ Ready(e) /\ e \in connected /\ ~ssl[e].fatal /\ ~ended[e]
    /\ again[e] = 0 \/ Duplex
    /\ ReadExtra(e, n) \/ ReadRecords(e, n) \/ ReadEnd(e)
    /\ UNCHANGED <<net, shut, acked, again, connected, trusted>>

(* SSL_shutdown: it tells the other end, once, and waits to be told. *)
Shutdown(e) ==
    /\ Ready(e) /\ e \in connected /\ again[e] = 0 /\ ~ended[e] /\ ~ssl[e].fatal
    /\ ~ssl[e].close_notify
    /\ IF ssl[e].state = "CLOSING" THEN Begins(e, "shutdown", 0, "recv", ssl[e])
       ELSE Begins(e, "shutdown", 0, "send", To(CloseAlert(ssl[e]), "CLOSING"))
    /\ UNCHANGED <<net, shut, acked, again, got, ended, connected, trusted>>

(* The program closes the socket when it is done with the connection. *)
Close(e) == /\ Ready(e)
            /\ ssl[e].fatal \/ Closed(ssl[e]) \/ ended[e]
            /\ shut' = shut \cup {e}
            /\ UNCHANGED <<ssl, net, call, acked, again, got, ended, connected, trusted>>

(* do_send: as much as the socket takes; a call that has more to send returns. *)
Room(e) == Capacity - Len(net[Other(e)])

AfterSend(e) ==
    CASE call[e].f = "connect"  -> At(e, "step") /\ UNCHANGED <<acked, again>>
      [] call[e].f = "write"    -> /\ Returns(e)
                                   /\ acked' = [acked EXCEPT ![e] = @ + call[e].n]
                                   /\ again' = [again EXCEPT ![e] = 0]
      [] call[e].f \in {"read", "shutdown"} -> At(e, "recv") /\ UNCHANGED <<acked, again>>
      [] call[e].f = "flush"    -> Returns(e) /\ UNCHANGED <<acked, again>>

Unsent(tx, k) == SubSeq(tx, k + 1, Len(tx))

DoSend(e) ==
    LET tx == ssl[e].tx
        k == IF Room(e) < Len(tx) THEN Room(e) ELSE Len(tx)
        o == Other(e)
    IN /\ call[e].at = "send"
       /\ net' = [net EXCEPT ![o] = IF o \in shut THEN @ ELSE @ \o SubSeq(tx, 1, k)]
       /\ IF k = Len(tx) \/ o \in shut
          THEN /\ ssl' = [ssl EXCEPT ![e].tx = <<>>, ![e].write_pending = FALSE]
               /\ AfterSend(e)
          ELSE /\ ssl' = [ssl EXCEPT ![e].tx = Unsent(@, k)]
               /\ Returns(e) /\ UNCHANGED <<acked, again>>
       /\ UNCHANGED <<shut, got, ended, connected, trusted>>

(* do_recv: some of what has arrived, and what it holds; then do_send. *)
Received(e, s, n) ==
    /\ ssl' = [ssl EXCEPT ![e] = [s EXCEPT !.copied = <<>>]]
    /\ Gives(e, s)
    /\ IF s.ok THEN At(e, "send") ELSE Returns(e)

DoRecv(e, k) ==
    LET s == ssl[e]
    IN /\ call[e].at = "recv"
       /\ k \in 1 .. Len(net[e])
       /\ net' = [net EXCEPT ![e] = SubSeq(@, k + 1, Len(@))]
       /\ Received(e, HandleRecv(e, [s EXCEPT !.rx = @ \o SubSeq(net[e], 1, k)], call[e].n),
                   call[e].n)
       /\ UNCHANGED <<shut, acked, again, ended, connected, trusted>>

(* The loops around do_recv end when there is what they wait for. *)
HasRead(e) == /\ call[e].f = "read" /\ call[e].at = "recv" /\ ssl[e].got_appdata
              /\ Returns(e)
              /\ UNCHANGED <<ssl, net, shut, acked, again, got, ended, connected, trusted>>

HasClosed(e) == /\ call[e].f = "shutdown" /\ call[e].at = "recv" /\ ssl[e].close_notify
                /\ Returns(e)
                /\ UNCHANGED <<ssl, net, shut, acked, again, got, ended, connected, trusted>>

Waits(e) == /\ call[e].at = "recv"
            /\ ~(call[e].f = "read" /\ ssl[e].got_appdata)
            /\ ~(call[e].f = "shutdown" /\ ssl[e].close_notify)

(* recv would block, or the other end has closed: to SSL_read that is the end. *)
NothingToRecv(e) ==
    /\ Waits(e) /\ net[e] = <<>>
    /\ Returns(e)
    /\ ended' = [ended EXCEPT ![e] = @ \/ Other(e) \in shut]
    /\ UNCHANGED <<ssl, net, shut, acked, again, got, connected, trusted>>

Recv(e) == Waits(e) /\ \E k \in 1 .. Capacity : DoRecv(e, k)

Step(e) == ConnectStep(e) \/ DoSend(e) \/ Recv(e) \/ HasRead(e) \/ HasClosed(e)
           \/ NothingToRecv(e)

Next == \E e \in Ends :
          \/ Connect(e)
          \/ \E n \in Writes : Write(e, n)
          \/ \E n \in Reads : Read(e, n)
          \/ Flush(e) \/ Shutdown(e) \/ Close(e) \/ Step(e)

(* A program calls SSL_connect and SSL_accept until they succeed, SSL_write until it has *)
(* taken the data, and SSL_read; one that is closing comes to an end of it; a call goes  *)
(* on until it returns.                                                                  *)
Ending(e) == ssl[e].state = "CLOSING" /\ (Shutdown(e) \/ Close(e))

Fairness ==
    \A e \in Ends : /\ WF_vars(Connect(e)) /\ WF_vars(Step(e))
                    /\ WF_vars(\E n \in Writes : Write(e, n))
                    /\ WF_vars(\E n \in Reads : Read(e, n)) /\ WF_vars(Ending(e))

Spec == Init /\ [][Next]_vars /\ Fairness
--------------------------------------------------------------------------
(* The properties.                                                       *)

(* What SSL_read returns is what the other end wrote, in order, nothing twice and nothing *)
(* left out, however the records are cut and whatever do_send and do_recv return.         *)
StreamIntact == \A e \in Ends : got[e] = [i \in 1 .. Len(got[e]) |-> i]

(* The end of the connection comes after all the data that SSL_write said it took, unless *)
(* this end was closing too.                                                              *)
EndIsWhole ==
    \A e \in Ends : ended[e] /\ ssl[e].state = "ESTABLISHED" => Len(got[e]) >= acked[Other(e)]

(* Two ends that mean well do not fail, unless one of them was in SSL_shutdown: it puts   *)
(* the data on their way aside, and then opens the record that holds them a second time.  *)
OnlyShutdownFails ==
    trusted /\ (\E e \in Ends : ssl[e].fatal)
        => \E e \in Ends : ssl[e].fatal /\ ssl[e].state = "CLOSING"

(* No connection is made to a server whose certificate does not verify. *)
TrustedOnly == ~trusted => connected = {}

(* SSL_connect and SSL_accept succeed when they are called again and again, whatever the  *)
(* other end does once it has succeeded.                                                  *)
Established == trusted ~> connected = Ends

(* Data that were taken are read, unless the reader closes. *)
AllRead == \A e \in Ends, i \in 1 .. MaxData :
    trusted /\ acked[Other(e)] >= i ~> Len(got[e]) >= i \/ ssl[e].state = "CLOSING" \/ e \in shut
=============================================================================
