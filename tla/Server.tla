------------------------------- MODULE Server -------------------------------
(***************************************************************************)
(* websocket/myapp/server5.c: an echo server.  Its sessions hang in a list *)
(* of the virtual host, by a pointer in each; a session keeps the last     *)
(* frame it received until the connection can be written.                  *)
(***************************************************************************)
EXTENDS Integers, FiniteSets

CONSTANTS
    Clients,            \* the memory of sessions, which libwebsockets uses again
    MaxFrames,          \* how many frames a client sends: a bound of the model
    NULL

VARIABLES
    first,      \* vhd->pss_list
    next,       \* pss->pss_list of each session
    open,       \* the sessions libwebsockets has a connection for
    writable,   \* those that asked for a writable callback
    buf,        \* pss->buf: the number of the frame, 0 in a new session
    sent,       \* how many frames each client has sent on this connection
    got         \* the number of the frame it was sent last

(* What a run is told. *)
Parameters == IsFiniteSet(Clients) /\ NULL \notin Clients

vars == <<first, next, open, writable, buf, sent, got>>

Init == /\ first = NULL
        /\ next = [c \in Clients |-> NULL]
        /\ open = {} /\ writable = {}
        /\ buf = [c \in Clients |-> 0]
        /\ sent = [c \in Clients |-> 0]
        /\ got = [c \in Clients |-> 0]

--------------------------------------------------------------------------
(* LWS_CALLBACK_ESTABLISHED: the new session goes first. *)
Established(c) ==
    /\ c \notin open
    /\ open' = open \cup {c}
    /\ next' = [next EXCEPT ![c] = first]
    /\ first' = c
    /\ buf' = [buf EXCEPT ![c] = 0]
    /\ sent' = [sent EXCEPT ![c] = 0]
    /\ got' = [got EXCEPT ![c] = 0]
    /\ UNCHANGED writable

(* lws_ll_fwd_remove: the pointer to c points to the session after it. *)
Unlink(c) ==
    IF first = c THEN first' = next[c] /\ UNCHANGED next
    ELSE /\ next' = [p \in Clients |-> IF p \in open /\ next[p] = c THEN next[c] ELSE next[p]]
         /\ UNCHANGED first

(* LWS_CALLBACK_CLOSED, of the client's doing or after a callback returned -1. *)
Closed(c) ==
    /\ c \in open
    /\ Unlink(c)
    /\ open' = open \ {c}
    /\ writable' = writable \ {c}
    /\ UNCHANGED <<buf, sent, got>>

(* LWS_CALLBACK_RECEIVE: the frame takes the place of one not yet written. *)
Received(c) ==
    /\ sent' = [sent EXCEPT ![c] = @ + 1]
    /\ buf' = [buf EXCEPT ![c] = sent'[c]]
    /\ writable' = writable \cup {c}
    /\ UNCHANGED <<first, next, open, got>>

Receive(c) ==
    /\ c \in open
    /\ sent[c] < MaxFrames
    /\ Received(c)

(* LWS_CALLBACK_SERVER_WRITEABLE; the callback is asked for once only. *)
Writeable(c) ==
    /\ c \in writable
    /\ writable' = writable \ {c}
    /\ got' = [got EXCEPT ![c] = buf[c]]
    /\ UNCHANGED <<first, next, open, buf, sent>>

(* A write that fails closes the connection, in the same service of the socket. *)
WriteFails(c) ==
    /\ c \in writable
    /\ Closed(c)

(* The sessions of the list. *)
Listed ==
    LET most == Cardinality(Clients)
        at[k \in 0 .. most] == IF k = 0 THEN first
                               ELSE IF at[k - 1] = NULL THEN NULL ELSE next[at[k - 1]]
    IN {at[k] : k \in 0 .. most} \ {NULL}

(* LWS_CALLBACK_EVENT_WAIT_CANCELLED: every session of the list is to be written. *)
EventWaitCancelled ==
    /\ writable' = writable \cup Listed
    /\ UNCHANGED <<first, next, open, buf, sent, got>>

Next ==
    \/ \E c \in Clients : \/ Established(c) \/ Receive(c) \/ Writeable(c)
                          \/ Closed(c) \/ WriteFails(c)
    \/ EventWaitCancelled

(* libwebsockets goes on serving the sockets that can be written. *)
Fairness == \A c \in Clients : WF_vars(Writeable(c))

Spec == Init /\ [][Next]_vars /\ Fairness

--------------------------------------------------------------------------
(* The list holds the sessions that are open, and no memory that is free:       *)
(* connections that close in any order leave no pointer behind.                 *)
ListIsOpen == Listed = open

(* The last frame a client sent is echoed, or its connection closes. *)
LastIsEchoed ==
    \A c \in Clients :
        (c \in open /\ sent[c] # 0) ~> (c \notin open \/ got[c] = sent[c])
=============================================================================
