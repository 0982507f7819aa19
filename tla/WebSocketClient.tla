-------------------------- MODULE WebSocketClient --------------------------
(***************************************************************************)
(* The websocket publisher (websocket/myapp/client.c).  Producer threads   *)
(* put messages into a ring; the service thread, in the callbacks of       *)
(* libwebsockets, sends them to a broker, connects again when the          *)
(* connection fails, and at the end stops the threads.  libwebsockets is   *)
(* external: the module has the order in which it may call the callbacks.  *)
(* "established", "finished" and "client_wsi" are read without the lock.   *)
(***************************************************************************)
EXTENDS Integers, Sequences, FiniteSets

CONSTANTS
    Producers,     \* the threads of pthread_spam
    RingSize,      \* messages that fit in the ring
    Wrap,          \* bound: a thread numbers its messages modulo Wrap
    None           \* no thread, or no ring

ASSUME WebSocketAssumption ==
    /\ IsFiniteSet(Producers)
    /\ RingSize \in Nat \ {0}
    /\ Wrap \in Nat /\ Wrap > RingSize
    /\ "service" \notin Producers
    /\ None \notin Producers \cup {"service"}

VARIABLES
    thread,       \* where each producer is; "none" before pthread_create
    index,        \* the number of its next message
    svc,          \* where the service thread is
    ring,         \* the messages in the ring
    lock,         \* the owner of lock_ring
    established,
    client_wsi,   \* whether it is not NULL
    finished,
    interrupted,
    timers,       \* callbacks LWS_CALLBACK_USER that are due
    cancelled,    \* lws_cancel_service was called
    writable,     \* lws_callback_on_writable was called
    written       \* the number of the last message of each thread lws_write took

threads == <<thread, index>>
connection == <<established, client_wsi, timers>>
ends == <<finished, interrupted>>
vars == <<thread, index, svc, ring, lock, established, client_wsi, finished,
          interrupted, timers, cancelled, writable, written>>

Message == [tid : Producers, n : 0 .. Wrap - 1]
After(n) == (n + 1) % Wrap

Init == /\ thread = [p \in Producers |-> "none"]
        /\ index = [p \in Producers |-> 1]
        /\ svc = "init"
        /\ ring = None
        /\ lock = None
        /\ established = FALSE
        /\ client_wsi = FALSE
        /\ finished = FALSE
        /\ interrupted = FALSE
        /\ timers = 0
        /\ cancelled = FALSE
        /\ writable = FALSE
        /\ written = [p \in Producers |-> 0]

--------------------------------------------------------------------------
(* thread_spam.                                                                *)

Goto(p, from, to) == thread[p] = from /\ thread' = [thread EXCEPT ![p] = to]

LookAtEstablished(p) ==
    /\ Goto(p, "top", IF established THEN "lock" ELSE "sleep")
    /\ UNCHANGED <<index, svc, ring, lock, connection, ends, cancelled, writable, written>>

LockRing(p) ==
    /\ lock = None
    /\ Goto(p, "lock", "locked")
    /\ lock' = p
    /\ UNCHANGED <<index, svc, ring, connection, ends, cancelled, writable, written>>

(* The ring is full, or malloc() fails, as it always may.                      *)
Drop(p) ==
    /\ Goto(p, "locked", "sleep")
    /\ lock' = None
    /\ UNCHANGED <<index, svc, ring, connection, ends, cancelled, writable, written>>

(* Mutant of Insert: the service thread is not woken.                          *)
InsertSilently(p) ==
    /\ Goto(p, "locked", "sleep")
    /\ Len(ring) < RingSize
    /\ ring' = Append(ring, [tid |-> p, n |-> index[p]])
    /\ index' = [index EXCEPT ![p] = After(@)]
    /\ lock' = None
    /\ UNCHANGED <<svc, connection, ends, cancelled, writable, written>>

Insert(p) ==
    /\ Goto(p, "locked", "sleep")
    /\ Len(ring) < RingSize
    /\ ring' = Append(ring, [tid |-> p, n |-> index[p]])
    /\ index' = [index EXCEPT ![p] = After(@)]
    /\ cancelled' = TRUE
    /\ lock' = None
    /\ UNCHANGED <<svc, connection, ends, writable, written>>

WakeUp(p) ==
    /\ Goto(p, "sleep", IF finished THEN "done" ELSE "top")
    /\ UNCHANGED <<index, svc, ring, lock, connection, ends, cancelled, writable, written>>

--------------------------------------------------------------------------
(* PROTOCOL_INIT and PROTOCOL_DESTROY.                                         *)

Service(from, to) == svc = from /\ svc' = to

CreateRing ==
    \/ /\ Service("init", "create")
       /\ ring' = << >>
       /\ UNCHANGED <<threads, lock, connection, ends, cancelled, writable, written>>
    \/ /\ Service("init", "ended")
       /\ UNCHANGED <<threads, ring, lock, connection, ends, cancelled, writable, written>>

CreateThread(p) ==
    /\ svc = "create"
    /\ Goto(p, "none", "top")
    /\ UNCHANGED <<index, svc, ring, lock, connection, ends, cancelled, writable, written>>

CreateFails ==
    /\ \E p \in Producers : thread[p] = "none"
    /\ Service("create", "join")
    /\ finished' = TRUE
    /\ UNCHANGED <<threads, ring, lock, connection, interrupted, cancelled, writable, written>>

(* Mutant of Connect: a failure to connect is not tried again.                 *)
ConnectOnce(left) ==
    \/ client_wsi' = TRUE /\ timers' = left
    \/ client_wsi' = FALSE /\ timers' = left

(* connect_client, which fails at once or later; "left" timers are due.        *)
Connect(left) ==
    \/ client_wsi' = TRUE /\ timers' = left
    \/ client_wsi' = FALSE /\ timers' = left + 1

FirstConnect ==
    /\ \A p \in Producers : thread[p] # "none"
    /\ Service("create", "serve")
    /\ Connect(timers)
    /\ UNCHANGED <<threads, ring, lock, established, ends, cancelled, writable, written>>

Joined == \A p \in Producers : thread[p] \in {"none", "done"}

JoinAndDestroy ==
    /\ Joined
    /\ Service("join", "ended")
    /\ ring' = None
    /\ UNCHANGED <<threads, lock, connection, ends, cancelled, writable, written>>

--------------------------------------------------------------------------
(* The callbacks of a connection.                                              *)

ConnectionError ==
    /\ Service("serve", "serve")
    /\ client_wsi /\ ~ established
    /\ client_wsi' = FALSE
    /\ timers' = timers + 1
    /\ UNCHANGED <<threads, ring, lock, established, ends, cancelled, writable, written>>

Established ==
    /\ Service("serve", "serve")
    /\ client_wsi /\ ~ established
    /\ established' = TRUE
    /\ UNCHANGED <<threads, ring, lock, client_wsi, timers, ends, cancelled, writable, written>>

(* The connection breaks, or a callback returned -1 ("closing").               *)
Closed ==
    /\ Service("serve", "serve") \/ Service("closing", "serve")
    /\ established
    /\ client_wsi' = FALSE
    /\ established' = FALSE
    /\ timers' = timers + 1
    /\ writable' = FALSE
    /\ UNCHANGED <<threads, ring, lock, ends, cancelled, written>>

EventWaitCancelled ==
    /\ Service("serve", "serve")
    /\ cancelled
    /\ cancelled' = FALSE
    /\ writable' = (writable \/ (client_wsi /\ established))
    /\ UNCHANGED <<threads, ring, lock, connection, ends, written>>

User ==
    /\ Service("serve", "serve")
    /\ timers > 0
    /\ Connect(timers - 1)
    /\ UNCHANGED <<threads, ring, lock, established, ends, cancelled, writable, written>>

(* CLIENT_WRITEABLE, in two steps.                                             *)
Writeable ==
    /\ Service("serve", "writeable")
    /\ writable /\ established
    /\ writable' = FALSE
    /\ UNCHANGED <<threads, ring, lock, connection, ends, cancelled, written>>

WriteLocks ==
    /\ lock = None
    /\ Service("writeable", "write")
    /\ lock' = "service"
    /\ UNCHANGED <<threads, ring, connection, ends, cancelled, writable, written>>

Write ==
    /\ Service("write", "serve")
    /\ lock' = None
    /\ IF ring = << >> THEN UNCHANGED <<ring, written, writable>>
       ELSE /\ ring' = Tail(ring)
            /\ written' = [written EXCEPT ![Head(ring).tid] = Head(ring).n]
            /\ writable' = (Tail(ring) # << >>)
    /\ UNCHANGED <<threads, connection, ends, cancelled>>

(* Mutant of WriteFails: the message is consumed all the same.                 *)
WriteFailsConsuming ==
    /\ Service("write", "closing")
    /\ ring # << >>
    /\ lock' = None
    /\ ring' = Tail(ring)
    /\ UNCHANGED <<threads, connection, ends, cancelled, writable, written>>

(* Mutant of WriteFails: the lock is not released.                             *)
WriteFailsLocked ==
    /\ Service("write", "closing")
    /\ ring # << >>
    /\ UNCHANGED <<threads, ring, lock, connection, ends, cancelled, writable, written>>

WriteFails ==
    /\ Service("write", "closing")
    /\ ring # << >>
    /\ lock' = None
    /\ UNCHANGED <<threads, ring, connection, ends, cancelled, writable, written>>

--------------------------------------------------------------------------
(* main.  SIGINT, or an error of lws_service().                                *)
Interrupt ==
    /\ svc # "ended" /\ ~ interrupted
    /\ interrupted' = TRUE
    /\ UNCHANGED <<threads, svc, ring, lock, connection, finished, cancelled, writable, written>>

(* lws_context_destroy closes the connection first; PROTOCOL_DESTROY follows.  *)
DestroyContext ==
    /\ interrupted
    /\ Service("serve", "join")
    /\ client_wsi' = FALSE
    /\ established' = FALSE
    /\ timers' = timers + (IF client_wsi THEN 1 ELSE 0)
    /\ writable' = FALSE
    /\ finished' = TRUE
    /\ UNCHANGED <<threads, ring, lock, interrupted, cancelled, written>>

Producer(p) == LookAtEstablished(p) \/ LockRing(p) \/ Drop(p) \/ Insert(p) \/ WakeUp(p)

Next == \/ \E p \in Producers : Producer(p) \/ CreateThread(p)
        \/ CreateRing \/ CreateFails \/ FirstConnect
        \/ ConnectionError \/ Established \/ Closed
        \/ EventWaitCancelled \/ User
        \/ Writeable \/ WriteLocks \/ Write \/ WriteFails
        \/ Interrupt \/ DestroyContext \/ JoinAndDestroy

Spec == Init /\ [][Next]_vars

(* Threads run, and get a lock that is free again and again, as every holder     *)
(* sleeps 0.1 s or returns to lws_service; malloc() does not fail for ever;      *)
(* lws_service delivers what is due, and returns; the broker reads, so that the  *)
(* socket becomes writable.  Nothing says that a connection succeeds, breaks, or *)
(* that SIGINT comes.                                                            *)
Fairness ==
    /\ \A p \in Producers :
          /\ WF_vars(LookAtEstablished(p) \/ Insert(p) \/ Drop(p) \/ WakeUp(p))
          /\ SF_vars(LockRing(p))
          /\ SF_vars(Insert(p))
    /\ WF_vars(CreateRing \/ FirstConnect \/ CreateFails \/ \E p \in Producers : CreateThread(p))
    /\ SF_vars(EventWaitCancelled)
    /\ SF_vars(Writeable)
    /\ SF_vars(WriteLocks)
    /\ WF_vars(Write \/ WriteFails)
    /\ WF_vars(svc = "closing" /\ Closed)
    /\ SF_vars(DestroyContext)
    /\ WF_vars(JoinAndDestroy)

FairSpec == Spec /\ Fairness

--------------------------------------------------------------------------
(* Every variable has its type, the ring is not over its size, and the lock is   *)
(* held exactly where the code has it.                                           *)
TypeOK ==
    /\ thread \in [Producers -> {"none", "top", "lock", "locked", "sleep", "done"}]
    /\ index \in [Producers -> 0 .. Wrap - 1]
    /\ written \in [Producers -> 0 .. Wrap - 1]
    /\ svc \in {"init", "create", "serve", "writeable", "write", "closing", "join", "ended"}
    /\ svc \notin {"init", "ended"} => ring \in Seq(Message) /\ Len(ring) <= RingSize
    /\ \A p \in Producers : lock = p <=> thread[p] = "locked"
    /\ lock = "service" <=> svc = "write"
    /\ established \in BOOLEAN /\ client_wsi \in BOOLEAN
    /\ finished \in BOOLEAN /\ interrupted \in BOOLEAN
    /\ cancelled \in BOOLEAN /\ writable \in BOOLEAN
    /\ timers \in Nat

(* n is the number that follows the last message of thread p before place i of   *)
(* the ring, or, where the ring has none of p there, the last one written.        *)
Follows(p, i, n) ==
    \/ /\ \A k \in 1 .. i - 1 : ring[k].tid # p
       /\ n = After(written[p])
    \/ \E j \in 1 .. i - 1 :
          /\ ring[j].tid = p
          /\ n = After(ring[j].n)
          /\ \A k \in j + 1 .. i - 1 : ring[k].tid # p

Kept(p) ==
    /\ \A i \in 1 .. Len(ring) : ring[i].tid = p => Follows(p, i, ring[i].n)
    /\ Follows(p, Len(ring) + 1, index[p])

(* Between the last message of a thread that lws_write took and the next one it  *)
(* will produce, the ring has all messages of that thread, once and in order:    *)
(* no failed write, full ring, reconnection or race of the threads loses, repeats *)
(* or swaps one.                                                                 *)
Conserved == ring # None => \A p \in Producers : Kept(p)

(* While the service thread serves, there is one connection, attempt or timer    *)
(* for the next attempt: the program neither gives up nor connects twice.        *)
OneAttempt ==
    svc \in {"serve", "writeable", "write", "closing"} =>
        timers + (IF client_wsi THEN 1 ELSE 0) = 1

(* The ring is destroyed when no thread can use it any more.                     *)
RingOutlivesThreads ==
    svc = "ended" => \A p \in Producers : thread[p] \in {"none", "done"}

(* What makes the two inductive: a connection is established only while there is *)
(* one, a write is made only on such a connection, and nothing is there before   *)
(* the ring and the threads are.                                                 *)
AttemptInv ==
    /\ TypeOK /\ OneAttempt /\ RingOutlivesThreads
    /\ established => client_wsi
    /\ svc \in {"writeable", "write", "closing"} => established
    /\ svc \in {"init", "create"} => timers = 0 /\ ~ client_wsi
    /\ svc = "init" => \A p \in Producers : thread[p] = "none"

(* What makes Conserved inductive: the ring is there while the threads are, and   *)
(* the threads begin with the message after the last one written.                 *)
ConservedInv ==
    /\ AttemptInv
    /\ svc \notin {"init", "ended"} => \A p \in Producers : Kept(p)
    /\ svc \in {"init", "ended"} => ring = None
    /\ svc = "init" => \A p \in Producers : index[p] = After(written[p])

(* A program that is interrupted ends, wherever its threads are: none waits for  *)
(* a lock for ever.                                                              *)
InterruptEnds == interrupted ~> svc = "ended"

(* The first message of a ring that is not full is sent, or the connection ends. *)
Sent(m) == ring = None \/ ring = << >> \/ Head(ring) # m \/ ~ established \/ finished

RoomIsSent ==
    \A m \in Message :
        (established /\ ring # None /\ ring # << >> /\ Head(ring) = m /\ Len(ring) < RingSize)
            ~> Sent(m)

(* When the connection is established the ring is sent to the broker.            *)
RingIsSent ==
    \A m \in Message :
        (established /\ ring # None /\ ring # << >> /\ Head(ring) = m) ~> Sent(m)
============================================================================
