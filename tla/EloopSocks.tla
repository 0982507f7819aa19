---------------------------- MODULE EloopSocks ----------------------------
(***************************************************************************)
(* eloop's socket tables (eloop/src/eloop.c, the select() build).  There   *)
(* is a table per type of event.  eloop_run copies the tables to fd_sets,  *)
(* select() leaves the ready descriptors in them, and the three tables are *)
(* dispatched one after the other.  Signal and timeout callbacks run       *)
(* between select() and the dispatch, socket callbacks during it, and each *)
(* may register and unregister sockets.                                    *)
(***************************************************************************)
EXTENDS Integers, Sequences, FiniteSets

CONSTANTS
    Socks,            \* descriptor numbers
    Types,            \* the types of event in use, of "read", "write", "exception"
    Duplicates,       \* whether the program registers a descriptor twice in a table
    CallsInHandlers,  \* whether socket callbacks register and unregister
    SockAllocMayFail, \* whether the realloc of a table may fail
    MaxTable          \* bound: entries of a table

ASSUME SockAssumption ==
    /\ Socks \subseteq Nat
    /\ Types \subseteq {"read", "write", "exception"}
    /\ Types # {}
    /\ {Duplicates, CallsInHandlers, SockAllocMayFail} \subseteq BOOLEAN
    /\ MaxTable \in Nat

VARIABLES
    table,     \* the descriptors of eloop.readers, eloop.writers, eloop.exceptions
    changed,   \* the "changed" field of each
    max_sock,  \* eloop.max_sock
    count,     \* eloop.count
    fds,       \* rfds, wfds, efds
    place,     \* where eloop_run is: the table t and the index i of the dispatch
    data,      \* events that wait in the kernel: data to read, room to write, ...
    called     \* callbacks called since select() returned

vars == <<table, changed, max_sock, count, fds, place, data, called>>

Event == Types \X Socks

At(where) == place.at = where

(* The order in which eloop_run dispatches the tables. *)
InUse(t) == IF t \in Types THEN <<t>> ELSE << >>
Order == InUse("read") \o InUse("write") \o InUse("exception")

InTable(t) == {table[t][i] : i \in DOMAIN table[t]}

Init == /\ table = [t \in Types |-> << >>]
        /\ changed = [t \in Types |-> FALSE]
        /\ max_sock = 0
        /\ count = 0
        /\ fds = [t \in Types |-> {}]
        /\ place = [at |-> "away", t |-> 1, i |-> 1]
        /\ data = {}
        /\ called = {}

--------------------------------------------------------------------------
(* Calls of the program: in set-up code, in signal and timeout callbacks       *)
(* ("away" and "between") and in socket callbacks ("handler").                 *)

MayCall == \/ place.at \in {"away", "between"}
           \/ At("handler") /\ CallsInHandlers

(* Mutant of RegisterSock: max_sock is the last descriptor, not the largest. *)
RegisterSockLast(t, s) ==
    /\ MayCall
    /\ Len(table[t]) < MaxTable
    /\ Duplicates \/ s \notin InTable(t)
    /\ table' = [table EXCEPT ![t] = Append(@, s)]
    /\ max_sock' = s
    /\ count' = count + 1
    /\ changed' = [changed EXCEPT ![t] = TRUE]
    /\ UNCHANGED <<fds, place, data, called>>

(* eloop_sock_table_add_sock; a failed realloc changes nothing. *)
RegisterSock(t, s) ==
    /\ MayCall
    /\ Len(table[t]) < MaxTable
    /\ Duplicates \/ s \notin InTable(t)
    /\ \/ /\ table' = [table EXCEPT ![t] = Append(@, s)]
          /\ max_sock' = IF s > max_sock THEN s ELSE max_sock
          /\ count' = count + 1
          /\ changed' = [changed EXCEPT ![t] = TRUE]
       \/ SockAllocMayFail /\ UNCHANGED <<table, max_sock, count, changed>>
    /\ UNCHANGED <<fds, place, data, called>>

(* Mutant of UnregisterSock: the table is not marked as changed. *)
UnregisterSockUnmarked(t, s) ==
    /\ MayCall
    /\ \E i \in DOMAIN table[t] :
          /\ table[t][i] = s
          /\ \A j \in 1 .. i - 1 : table[t][j] # s
          /\ table' = [table EXCEPT ![t] =
                          SubSeq(@, 1, i - 1) \o SubSeq(@, i + 1, Len(@))]
    /\ count' = count - 1
    /\ UNCHANGED <<changed, max_sock, fds, place, data, called>>

(* eloop_sock_table_remove_sock: the first entry for s goes, the later ones     *)
(* move up.                                                                    *)
UnregisterSock(t, s) ==
    /\ MayCall
    /\ \E i \in DOMAIN table[t] :
          /\ table[t][i] = s
          /\ \A j \in 1 .. i - 1 : table[t][j] # s
          /\ table' = [table EXCEPT ![t] =
                          SubSeq(@, 1, i - 1) \o SubSeq(@, i + 1, Len(@))]
    /\ count' = count - 1
    /\ changed' = [changed EXCEPT ![t] = TRUE]
    /\ UNCHANGED <<max_sock, fds, place, data, called>>

(* The program closes an unregistered descriptor; the next one it opens has the *)
(* same number, and nothing waits on it.                                       *)
Reopen(s) ==
    /\ MayCall
    /\ \A t \in Types : s \notin InTable(t)
    /\ data' = {e \in data : e[2] # s}
    /\ UNCHANGED <<table, changed, max_sock, count, fds, place, called>>

(* Something happens on a descriptor.                                           *)
Arrive(e) ==
    /\ data' = data \cup {e}
    /\ UNCHANGED <<table, changed, max_sock, count, fds, place, called>>

--------------------------------------------------------------------------
(* eloop_run. *)

(* eloop_sock_table_set_fds for the three tables.                               *)
PrepareSelect ==
    /\ At("away")
    /\ fds' = [t \in Types |-> InTable(t)]
    /\ place' = [place EXCEPT !.at = "select"]
    /\ UNCHANGED <<table, changed, max_sock, count, data, called>>

(* What select(max_sock + 1, ...) reports. *)
Ready(t) == {s \in fds[t] : s <= max_sock /\ <<t, s>> \in data}

SelectReady ==
    /\ At("select")
    /\ \E t \in Types : Ready(t) # {}
    /\ fds' = [t \in Types |-> Ready(t)]
    /\ called' = {}
    /\ place' = [place EXCEPT !.at = "between"]
    /\ UNCHANGED <<table, changed, max_sock, count, data>>

(* res = 0: nothing is ready when the timeout runs out.                          *)
SelectTimesOut ==
    /\ At("select")
    /\ \A t \in Types : Ready(t) = {}
    /\ place' = [place EXCEPT !.at = "away"]
    /\ UNCHANGED <<table, changed, max_sock, count, fds, data, called>>

(* res < 0: a signal arrives first.                                             *)
SelectInterrupted ==
    /\ At("select")
    /\ place' = [place EXCEPT !.at = "away"]
    /\ UNCHANGED <<table, changed, max_sock, count, fds, data, called>>

(* The start of eloop_sock_table_dispatch for table number n of the order, or    *)
(* the end of the iteration.                                                   *)
Dispatch(n) ==
    IF n > Len(Order)
    THEN place' = [at |-> "away", t |-> 1, i |-> 1] /\ UNCHANGED changed
    ELSE /\ place' = [at |-> "dispatch", t |-> n, i |-> 1]
         /\ changed' = [changed EXCEPT ![Order[n]] = FALSE]

BeginDispatch ==
    /\ At("between")
    /\ Dispatch(1)
    /\ UNCHANGED <<table, max_sock, count, fds, data, called>>

Current == table[Order[place.t]]
CurrentEvent == <<Order[place.t], Current[place.i]>>

(* FD_ISSET fails, or the table ends.                                           *)
SkipEntry ==
    /\ At("dispatch")
    /\ place.i <= Len(Current)
    /\ Current[place.i] \notin fds[Order[place.t]]
    /\ place' = [place EXCEPT !.i = @ + 1]
    /\ UNCHANGED <<table, changed, max_sock, count, fds, data, called>>

EndTable ==
    /\ At("dispatch")
    /\ place.i > Len(Current)
    /\ Dispatch(place.t + 1)
    /\ UNCHANGED <<table, max_sock, count, fds, data, called>>

(* The callback, which clears the event as eloop.h asks it to.                  *)
CallHandler ==
    /\ At("dispatch")
    /\ place.i <= Len(Current)
    /\ Current[place.i] \in fds[Order[place.t]]
    /\ place' = [place EXCEPT !.at = "handler"]
    /\ data' = data \ {CurrentEvent}
    /\ called' = called \cup {CurrentEvent}
    /\ UNCHANGED <<table, changed, max_sock, count, fds>>

(* A callback that changed its own table ends the dispatch of the table.         *)
HandlerReturns ==
    /\ At("handler")
    /\ IF changed[Order[place.t]]
       THEN Dispatch(place.t + 1)
       ELSE /\ place' = [place EXCEPT !.at = "dispatch", !.i = @ + 1]
            /\ UNCHANGED changed
    /\ UNCHANGED <<table, max_sock, count, fds, data, called>>

Loop == \/ PrepareSelect \/ SelectReady \/ SelectTimesOut \/ SelectInterrupted
        \/ BeginDispatch \/ SkipEntry \/ EndTable \/ CallHandler \/ HandlerReturns

Next == \/ \E t \in Types, s \in Socks : RegisterSock(t, s) \/ UnregisterSock(t, s)
        \/ \E s \in Socks : Reopen(s)
        \/ \E e \in Event : Arrive(e)
        \/ Loop

Spec == Init /\ [][Next]_vars

(* eloop_run goes on, callbacks return, and signals do not interrupt every       *)
(* select() that has something to report.  A select() that has nothing to       *)
(* report need not return.                                                     *)
Fairness == /\ WF_vars(PrepareSelect) /\ SF_vars(SelectReady)
            /\ WF_vars(BeginDispatch) /\ WF_vars(SkipEntry) /\ WF_vars(EndTable)
            /\ WF_vars(CallHandler) /\ WF_vars(HandlerReturns)

FairSpec == Spec /\ Fairness

--------------------------------------------------------------------------
(* The places of the tables that are in use, which eloop.count counts.            *)
Entries == {p \in Types \X (1 .. MaxTable) : p[2] <= Len(table[p[1]])}

TypeOK ==
    /\ table \in [Types -> Seq(Socks)]
    /\ changed \in [Types -> BOOLEAN]
    /\ max_sock \in Nat
    /\ count = Cardinality(Entries)
    /\ fds \in [Types -> SUBSET Socks]
    /\ place \in [at : {"away", "select", "between", "dispatch", "handler"},
                  t : 1 .. Len(Order), i : Nat \ {0}]
    /\ data \subseteq Event
    /\ called \subseteq Event

(* No event is missed by the arguments of select(): every registered socket is  *)
(* below max_sock + 1 and in its fd_set, whatever was registered and            *)
(* unregistered before.                                                        *)
SelectWatchesAll ==
    At("select") => \A t \in Types : \A s \in InTable(t) : s <= max_sock /\ s \in fds[t]

(* What the calls and the loop keep, between them and at select().               *)
TablesInv == TypeOK /\ SelectWatchesAll

(* What makes TablesInv inductive: max_sock is never below a registered socket,  *)
(* and the fd_sets of select() are the tables.                                   *)
WatchInv ==
    /\ TypeOK
    /\ \A t \in Types : Len(table[t]) <= MaxTable
    /\ \A t \in Types : \A s \in InTable(t) : s <= max_sock
    /\ At("select") => \A t \in Types : fds[t] = InTable(t)

(* The callbacks of the ready sockets up to place n of the table have been called. *)
Passed(n) ==
    \A i \in DOMAIN Current :
        i <= n /\ Current[i] \in fds[Order[place.t]] => <<Order[place.t], Current[i]>> \in called

(* What the dispatch has done with the table it is at, while nobody changes it.   *)
WalkInv ==
    /\ WatchInv
    /\ At("dispatch") => ~ changed[Order[place.t]] /\ Passed(place.i - 1)
    /\ At("handler") /\ ~ changed[Order[place.t]] => Passed(place.i)

(* No socket behind place n of the table has been called.                          *)
CalledUpTo(n) ==
    \A i \in DOMAIN Current : <<Order[place.t], Current[i]>> \in called => i <= n

(* The same when every descriptor is in a table once: nothing of what is still to  *)
(* be dispatched has been called.                                                *)
OnceInv ==
    /\ WalkInv
    /\ \A t \in Types : \A i, j \in DOMAIN table[t] : table[t][i] = table[t][j] => i = j
    /\ At("between") => called = {}
    /\ place.at \in {"dispatch", "handler"} =>
          \A e \in called : \E u \in 1 .. place.t : e[1] = Order[u]
    /\ At("dispatch") => CalledUpTo(place.i - 1)
    /\ At("handler") /\ ~ changed[Order[place.t]] => CalledUpTo(place.i)

(* A dispatch that reaches the end of a table has passed no ready socket over:    *)
(* every one that is registered has been called.  A callback that unregisters a  *)
(* socket moves the later entries up under the loop's index; "changed" is what   *)
(* keeps the loop from going on then.                                          *)
NothingSkipped ==
    [][EndTable =>
         \A s \in InTable(Order[place.t]) \cap fds[Order[place.t]] :
            <<Order[place.t], s>> \in called]_vars

(* When no descriptor is registered twice, one return of select() calls no       *)
(* callback twice, even when callbacks move entries.                           *)
OncePerRound == [][CallHandler => CurrentEvent \notin called]_vars

(* What one return of select() has the dispatch do: every callback that is still  *)
(* registered when its table has been walked has been called, and none twice.     *)
DispatchIsExact == NothingSkipped /\ OncePerRound

(* An event on a registered socket is handled at last, or the socket             *)
(* unregistered, whatever the other sockets do, unless the tables change again   *)
(* and again: a busy socket whose callback always changes its own table keeps    *)
(* the ones behind it waiting for ever, because the next dispatch begins at the  *)
(* first entry again.                                                           *)
Settles == <>[][UNCHANGED table]_vars

EventServed ==
    Settles => \A e \in Event : (e \in data /\ e[2] \in InTable(e[1]))
                                   ~> (e \notin data \/ e[2] \notin InTable(e[1]))
==========================================================================
