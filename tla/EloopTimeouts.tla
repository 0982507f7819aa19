-------------------------- MODULE EloopTimeouts --------------------------
(***************************************************************************)
(* eloop's list of timeouts (eloop/src/eloop.c): the calls that register,  *)
(* cancel, shorten and lengthen a timeout, the clock they read, and the    *)
(* step of eloop_run that takes the first timeout off the list when it is  *)
(* due.  The list is the value of the doubly-linked list eloop.timeout,    *)
(* first element first.                                                    *)
(***************************************************************************)
EXTENDS EloopTime, Sequences, FiniteSets

CONSTANTS
    Handlers,      \* timeout callbacks
    EloopData,     \* first context argument of a callback
    UserData,      \* second context argument of a callback
    AllCtx,        \* ELOOP_ALL_CTX, the wildcard of eloop_cancel_timeout
    Delays,        \* the delays <<secs, usecs>> the program asks for
    AllocMayFail,  \* whether os_zalloc may return NULL
    MaxRegs,       \* bound: calls that register a timeout
    MaxSec         \* bound: the clock and the deadlines end with this second

ASSUME TimeoutAssumption ==
    /\ AllCtx \notin EloopData \cup UserData
    /\ Delays \subseteq (0 .. UIntMax) \X (0 .. UIntMax)
    /\ AllocMayFail \in BOOLEAN
    /\ MaxRegs \in Nat
    /\ MaxSec \in Nat

VARIABLES
    timeout,   \* eloop.timeout
    now,       \* the clock os_get_reltime reads
    nreg       \* registrations so far; numbers the timeouts in that order

vars == <<timeout, now, nreg>>

Key == [h : Handlers, e : EloopData, u : UserData]

(* struct eloop_timeout.  "id" tells timeouts apart and "due" is the instant   *)
(* the caller asked for; the code stores neither.                             *)
Timer == [key : Key, time : RelTime, id : Nat, due : Int]

--------------------------------------------------------------------------
(* Operations on the list.  Each denotes the set of its possible results.     *)

(* Mutant of InsertPositions: the loop stops at the first timeout that is not    *)
(* earlier than t.                                                            *)
InsertPositionsBeforeEquals(s, t) ==
    {p \in 1 .. Len(s) + 1 :
        /\ \A i \in 1 .. p - 1 : Before(s[i].time, t)
        /\ p <= Len(s) => ~ Before(s[p].time, t)}

(* Where the loop of eloop_register_timeout stops: at the first timeout that   *)
(* is strictly later than t, or at the end.                                   *)
InsertPositions(s, t) ==
    {p \in 1 .. Len(s) + 1 :
        /\ \A i \in 1 .. p - 1 : ~ Before(t, s[i].time)
        /\ p <= Len(s) => Before(t, s[p].time)}

PutAt(s, p, x) ==
    [i \in 1 .. Len(s) + 1 |->
        IF i < p THEN s[i] ELSE IF i = p THEN x ELSE s[i - 1]]

Inserted(s, x) == {PutAt(s, p, x) : p \in InsertPositions(s, x.time)}

DropAt(s, p) == [i \in 1 .. Len(s) - 1 |-> IF i < p THEN s[i] ELSE s[i + 1]]

(* The enumerations of a set of positions from first to last. *)
Ascending(K) ==
    {f \in [1 .. Cardinality(K) -> K] :
        \A i, j \in 1 .. Cardinality(K) : i < j => f[i] < f[j]}

(* s without the elements at the positions D, the others in their order. *)
Without(s, D) ==
    LET K == DOMAIN s \ D
    IN  {[i \in 1 .. Cardinality(K) |-> s[f[i]]] : f \in Ascending(K)}

Matching(s, h, e, u) ==
    {i \in DOMAIN s : /\ s[i].key.h = h
                      /\ e \in {AllCtx, s[i].key.e}
                      /\ u \in {AllCtx, s[i].key.u}}

FirstMatch(s, k) ==
    {i \in DOMAIN s : /\ s[i].key = k
                      /\ \A j \in 1 .. i - 1 : s[j].key # k}

(* time.sec += (int)secs, time.usec += (int)usecs and the carry, at clock c. *)
Deadline(c, d) == Carry([sec |-> c.sec + CInt(d[1]), usec |-> c.usec + CInt(d[2])])

NewTimer(k, c, d) ==
    [key  |-> k, time |-> Deadline(c, d), id |-> nreg,
     due  |-> Instant(c) + d[1] * USEC + d[2]]

(* eloop_register_timeout on list s at clock c: no timeout when the allocation *)
(* fails, nor when the addition of the seconds seems to overflow.             *)
Registered(s, k, c, d) ==
    (IF c.sec + CInt(d[1]) < c.sec THEN {s} ELSE Inserted(s, NewTimer(k, c, d)))
        \cup (IF AllocMayFail THEN {s} ELSE {})

(* The bounds on what a run registers. *)
Bounded(c, d) == nreg < MaxRegs /\ Deadline(c, d).sec <= MaxSec

--------------------------------------------------------------------------
Init == /\ timeout = << >>
        /\ now = Zero
        /\ nreg = 0

RegisterTimeout(k, d) ==
    /\ Bounded(now, d)
    /\ timeout' \in Registered(timeout, k, now, d)
    /\ nreg' = nreg + 1
    /\ UNCHANGED now

CancelTimeout(h, e, u) ==
    /\ timeout' \in Without(timeout, Matching(timeout, h, e, u))
    /\ UNCHANGED <<now, nreg>>

CancelTimeoutOne(k) ==
    /\ \E i \in FirstMatch(timeout, k) : timeout' = DropAt(timeout, i)
    /\ UNCHANGED <<now, nreg>>

(* The common end of the two calls below.  It cancels every timeout with the   *)
(* key and registers one; the second clock reading may be later.              *)
Reregister(k, d) ==
    \E c \in {now, NextInstant(now)} :
        /\ c.sec <= MaxSec
        /\ Bounded(c, d)
        /\ \E rest \in Without(timeout, Matching(timeout, k.h, k.e, k.u)) :
               timeout' \in Registered(rest, k, c, d)
        /\ nreg' = nreg + 1
        /\ now' = c

Requested(d) == [sec |-> CInt(d[1]), usec |-> CInt(d[2])]

(* Both calls leave everything as it is when the comparison fails, or when no  *)
(* timeout has the key.                                                       *)
DepleteTimeout(k, d) ==
    /\ \E i \in FirstMatch(timeout, k) :
           Before(Requested(d), Sub(timeout[i].time, now))
    /\ Reregister(k, d)

ReplenishTimeout(k, d) ==
    /\ \E i \in FirstMatch(timeout, k) :
           Before(Sub(timeout[i].time, now), Requested(d))
    /\ Reregister(k, d)

(* eloop_run looks at the first timeout only, and takes it off the list before *)
(* it calls the handler.                                                      *)
Expire ==
    /\ timeout # << >>
    /\ ~ Before(now, timeout[1].time)
    /\ timeout' = DropAt(timeout, 1)
    /\ UNCHANGED <<now, nreg>>

(* eloop_destroy frees every timeout that is left. *)
DestroyTimeouts ==
    /\ timeout' = << >>
    /\ UNCHANGED <<now, nreg>>

Tick ==
    /\ NextInstant(now).sec <= MaxSec
    /\ now' = NextInstant(now)
    /\ UNCHANGED <<timeout, nreg>>

Call ==
    \/ \E k \in Key, d \in Delays : \/ RegisterTimeout(k, d)
                                    \/ DepleteTimeout(k, d)
                                    \/ ReplenishTimeout(k, d)
    \/ \E h \in Handlers, e \in EloopData \cup {AllCtx}, u \in UserData \cup {AllCtx} :
           CancelTimeout(h, e, u)
    \/ \E k \in Key : CancelTimeoutOne(k)

Next == Expire \/ Call \/ DestroyTimeouts \/ Tick

Spec == Init /\ [][Next]_vars

--------------------------------------------------------------------------
TypeOK == /\ timeout \in Seq(Timer)
          /\ now \in ClockTime
          /\ nreg \in Nat

Precedes(a, b) == \/ Before(a.time, b.time)
                  \/ a.time = b.time /\ a.id < b.id

Sorted(s) == \A i, j \in DOMAIN s : i < j => Precedes(s[i], s[j])

(* The list stays sorted by deadline, and timeouts with one deadline stay in   *)
(* the order they were registered: the loop of eloop_register_timeout passes   *)
(* every timeout that is not strictly later, whatever was cancelled or moved   *)
(* before.                                                                     *)
TimeoutsOrdered == Sorted(timeout)

(* Numbers not given out yet are not on the list. *)
Numbered(s, n) == \A i \in DOMAIN s : s[i].id < n

(* The inductive invariant of the calls: a new timeout goes behind the ones    *)
(* with its deadline, so the order by number needs it to have the largest one. *)
OrderInv == TypeOK /\ TimeoutsOrdered /\ Numbered(timeout, nreg)

(* A deadline the casts to int may have made earlier than the one asked for,   *)
(* but not later, and not in a later second either.                           *)
NotLate(t) == /\ t.time.usec < USEC
              /\ Instant(t.time) <= t.due
              /\ t.time.sec * USEC <= t.due

(* Because of it the head of the list tells how long select() may sleep.       *)
DatedInv == OrderInv /\ \A i \in DOMAIN timeout : NotLate(timeout[i])

(* Delays no (int) cast changes, and among them those with fewer than a        *)
(* second's worth of microseconds.                                            *)
FitsInt(d)    == d[1] <= IntMax /\ d[2] <= IntMax
Normalised(d) == d[1] <= IntMax /\ d[2] < USEC

DueBefore(a, b) == a.due < b.due \/ (a.due = b.due /\ a.id < b.id)

(* eloop_run looks at the head of the list only.  When every delay fits an int *)
(* that is enough: the timeout it fires is due at the instant its caller asked *)
(* for or later, and no other registered timeout was asked for earlier, nor    *)
(* for the same instant by an earlier call.                                    *)
FiresEarliestDue ==
    [][Expire => /\ timeout[1].due <= Instant(now)
                 /\ \A i \in 2 .. Len(timeout) : DueBefore(timeout[1], timeout[i])]_vars

(* The timeouts on a list.  They determine it, since Sorted is a strict order. *)
Timers(s) == {s[i] : i \in DOMAIN s}

(* The timeouts with key k that are on the list; the ones without.             *)
WithKey(s, k)   == {t \in Timers(s) : t.key = k}
OtherKeys(s, k) == {t \in Timers(s) : t.key # k}

(* eloop_cancel_timeout_one stops at the first match in the list; that is the  *)
(* matching timeout with the nearest deadline, and no other timeout leaves.    *)
CancelOneTakesNearest ==
    [][\A k \in Key : CancelTimeoutOne(k) =>
         \E i \in DOMAIN timeout :
            /\ timeout[i].key = k
            /\ \A j \in DOMAIN timeout \ {i} :
                  timeout[j].key = k => DueBefore(timeout[i], timeout[j])
            /\ Timers(timeout') = Timers(timeout) \ {timeout[i]}]_vars

Elapsed == Instant(now') - Instant(now)

(* A call of eloop_deplete_timeout with a normalised delay that changes        *)
(* anything leaves one timeout with the key, due before all the ones it        *)
(* replaces (by no more than the time the call itself takes), and leaves the   *)
(* timeouts with other keys alone.                                             *)
DepleteOnlyShortens ==
    [][\A k \in Key, d \in {x \in Delays : Normalised(x)} : DepleteTimeout(k, d) =>
         /\ OtherKeys(timeout', k) = OtherKeys(timeout, k)
         /\ \E t \in WithKey(timeout', k) :
               /\ WithKey(timeout', k) = {t}
               /\ \A old \in WithKey(timeout, k) : t.due < old.due + Elapsed]_vars

(* A call of eloop_replenish_timeout with a normalised delay that changes      *)
(* anything leaves one timeout with the key, due later than the one that was   *)
(* due first, and leaves the timeouts with other keys alone.                   *)
ReplenishOnlyLengthens ==
    [][\A k \in Key, d \in {x \in Delays : Normalised(x)} : ReplenishTimeout(k, d) =>
         /\ OtherKeys(timeout', k) = OtherKeys(timeout, k)
         /\ \E t \in WithKey(timeout', k) :
               /\ WithKey(timeout', k) = {t}
               /\ \E old \in WithKey(timeout, k) : t.due > old.due
               /\ \A id \in {x.id : x \in WithKey(timeout, k)} : t.id > id]_vars

(* The calls that look for a timeout under a key do what eloop.h says of them.  *)
CallsAsDocumented ==
    CancelOneTakesNearest /\ DepleteOnlyShortens /\ ReplenishOnlyLengthens
==========================================================================
