------------------------------ MODULE Eloop ------------------------------
(***************************************************************************)
(* eloop_run (eloop/src/eloop.c): the loop that composes the list of       *)
(* timeouts, the signals and the socket tables.  Each of the three is a    *)
(* module of its own, and a step of the loop is a step of one or more of   *)
(* them.  Callbacks may make any call of eloop.h.                          *)
(***************************************************************************)
EXTENDS Integers, Sequences, FiniteSets

CONSTANTS
    USEC, IntMax, Handlers, EloopData, UserData, AllCtx, Delays, AllocMayFail,
    MaxRegs, MaxSec,                                          \* EloopTimeouts
    Sigs, TermSigs, ReallocMoves, MaxEntries, MaxRaise,       \* EloopSignals
    Socks, Types, Duplicates, CallsInHandlers, SockAllocMayFail, MaxTable,
                                                              \* EloopSocks
    MaxRuns    \* bound: calls of eloop_run

ASSUME LoopAssumption ==
    /\ USEC \in Nat \ {0} /\ IntMax \in Nat \ {0}
    /\ AllCtx \notin EloopData \cup UserData
    /\ Delays \subseteq (0 .. 2 * IntMax + 1) \X (0 .. 2 * IntMax + 1)
    /\ {AllocMayFail, Duplicates, CallsInHandlers, SockAllocMayFail} \subseteq BOOLEAN
    /\ TermSigs \subseteq Sigs
    /\ ReallocMoves \subseteq BOOLEAN
    /\ Socks \subseteq Nat
    /\ Types \subseteq {"read", "write", "exception"}
    /\ Types # {}
    /\ {MaxRegs, MaxSec, MaxEntries, MaxRaise, MaxTable, MaxRuns} \subseteq Nat

VARIABLES
    timeout, now, nreg,
    signals, installed, growing, signaled, pending_terminate, alarm, proc, killed,
    owed, raised,
    table, changed, max_sock, count, fds, place, data, called,
    pc,         \* where eloop_run is
    terminate,  \* eloop.terminate
    wake,       \* the instant select() times out
    runs        \* calls of eloop_run

T == INSTANCE EloopTimeouts
G == INSTANCE EloopSignals
S == INSTANCE EloopSocks

timerVars  == <<timeout, now, nreg>>
signalVars == <<signals, installed, growing, signaled, pending_terminate, alarm, proc,
                killed, owed, raised>>
sockVars   == <<table, changed, max_sock, count, fds, place, data, called>>
loopVars   == <<pc, terminate, wake, runs>>
vars       == <<timerVars, signalVars, sockVars, loopVars>>

Never == -1

(* "app" is the program outside eloop_run. *)
PCs == {"app", "top", "select", "signals", "timers", "timercb", "dispatch", "destroyed"}

Init == /\ T!Init /\ G!Init /\ S!Init
        /\ pc = "app"
        /\ terminate = FALSE
        /\ wake = Never
        /\ runs = 0

(* The main thread can take a step of its own: it is not dead, and not in the   *)
(* middle of eloop_register_signal.                                            *)
Running == ~ killed /\ ~ growing.on

--------------------------------------------------------------------------
(* Calls of eloop.h, from the program's own code and from callbacks.           *)

InCallback == \/ pc = "timercb"
              \/ pc = "signals" /\ G!At("callback")
              \/ pc = "dispatch" /\ S!At("handler")

TimeoutCall ==
    /\ Running /\ (pc = "app" \/ InCallback)
    /\ T!Call
    /\ UNCHANGED <<signalVars, sockVars, loopVars>>

SocketCall ==
    /\ Running /\ (pc = "app" \/ InCallback)
    /\ \/ \E t \in Types, s \in Socks : S!RegisterSock(t, s) \/ S!UnregisterSock(t, s)
       \/ \E s \in Socks : S!Reopen(s)
    /\ UNCHANGED <<timerVars, signalVars, loopVars>>

SignalCall ==
    /\ Running /\ (pc = "app" \/ InCallback)
    /\ \E sig \in Sigs : G!RegisterBegin(sig)
    /\ UNCHANGED <<timerVars, sockVars, loopVars>>

SignalCallEnds ==
    /\ G!RegisterEnd
    /\ UNCHANGED <<timerVars, sockVars, loopVars>>

(* eloop_terminate *)
Terminate ==
    /\ Running /\ (pc = "app" \/ InCallback)
    /\ terminate' = TRUE
    /\ UNCHANGED <<timerVars, signalVars, sockVars, pc, wake, runs>>

--------------------------------------------------------------------------
(* The world outside. *)

(* A signal ends the select() it arrives in: res < 0 and errno is EINTR.        *)
Signal(sig) ==
    /\ G!Raise(sig)
    /\ IF pc = "select"
       THEN S!SelectInterrupted /\ pc' = "signals" /\ UNCHANGED <<terminate, wake, runs>>
       ELSE UNCHANGED <<sockVars, loopVars>>
    /\ UNCHANGED timerVars

AlarmRings ==
    /\ G!AlarmRings
    /\ UNCHANGED <<timerVars, sockVars, loopVars>>

Arrive(e) ==
    /\ S!Arrive(e)
    /\ UNCHANGED <<timerVars, signalVars, loopVars>>

Tick ==
    /\ T!Tick
    /\ UNCHANGED <<signalVars, sockVars, loopVars>>

--------------------------------------------------------------------------
(* eloop_run. *)

Run ==
    /\ Running /\ pc = "app" /\ runs < MaxRuns
    /\ pc' = "top"
    /\ runs' = runs + 1
    /\ UNCHANGED <<timerVars, signalVars, sockVars, terminate, wake>>

Registered == timeout # << >> \/ \E t \in Types : table[t] # << >>

(* Mutant of Continues: eloop.terminate is not looked at. *)
ContinuesRegardless == Registered

(* The condition of the while loop. *)
Continues == ~ terminate /\ Registered

EndRun ==
    /\ Running /\ pc = "top"
    /\ ~ Continues
    /\ pc' = "app"
    /\ terminate' = FALSE
    /\ UNCHANGED <<timerVars, signalVars, sockVars, wake, runs>>

(* Mutant of Tv: the last timeout is asked. *)
TvOfLast == T!Remaining(timeout[Len(timeout)].time, now)

(* The timeout argument of select(). *)
Tv == T!Remaining(timeout[1].time, now)

Sleep ==
    /\ Running /\ pc = "top"
    /\ Continues
    /\ timeout # << >> => Tv.sec >= 0 /\ Tv.usec >= 0
    /\ wake' = IF timeout = << >> THEN Never ELSE T!Instant(now) + T!Instant(Tv)
    /\ pc' = "select"
    /\ S!PrepareSelect
    /\ G!EnterSelect
    /\ UNCHANGED <<timerVars, terminate, runs>>

(* select() fails with EINVAL for a negative timeout: "goto out".              *)
SelectFails ==
    /\ Running /\ pc = "top"
    /\ Continues /\ timeout # << >>
    /\ Tv.sec < 0 \/ Tv.usec < 0
    /\ pc' = "app"
    /\ UNCHANGED <<timerVars, signalVars, sockVars, terminate, wake, runs>>

SelectReady ==
    /\ pc = "select"
    /\ S!SelectReady
    /\ G!SelectReturns
    /\ pc' = "signals"
    /\ UNCHANGED <<timerVars, terminate, wake, runs>>

SelectTimesOut ==
    /\ pc = "select"
    /\ wake # Never /\ T!Instant(now) >= wake
    /\ S!SelectTimesOut
    /\ G!SelectReturns
    /\ pc' = "signals"
    /\ UNCHANGED <<timerVars, terminate, wake, runs>>

(* eloop_process_pending_signals and its callbacks. *)
ProcessSignals ==
    /\ Running /\ pc = "signals"
    /\ G!Process \/ G!CallbackReturns
    /\ pc' = IF proc'.at = "away" THEN "timers" ELSE "signals"
    /\ UNCHANGED <<timerVars, sockVars, terminate, wake, runs>>

(* "if (res <= 0) continue", or the dispatch of the tables.                    *)
AfterTimeout ==
    \/ S!At("away") /\ pc' = "top" /\ UNCHANGED sockVars
    \/ S!BeginDispatch /\ pc' = "dispatch"

(* Mutant of Due: timeouts are looked at only when no socket is ready. *)
DueWhenIdle == timeout # << >> /\ ~ T!Before(now, timeout[1].time) /\ S!At("away")

Due == timeout # << >> /\ ~ T!Before(now, timeout[1].time)

(* Mutant of FireTimeout: the last timeout of the list is taken. *)
FireTimeoutLast ==
    /\ Running /\ pc = "timers"
    /\ Due
    /\ timeout' = T!DropAt(timeout, Len(timeout))
    /\ pc' = "timercb"
    /\ UNCHANGED <<now, nreg, signalVars, sockVars, terminate, wake, runs>>

FireTimeout ==
    /\ Running /\ pc = "timers"
    /\ Due
    /\ T!Expire
    /\ pc' = "timercb"
    /\ UNCHANGED <<signalVars, sockVars, terminate, wake, runs>>

NoTimeout ==
    /\ Running /\ pc = "timers"
    /\ ~ Due
    /\ AfterTimeout
    /\ UNCHANGED <<timerVars, signalVars, terminate, wake, runs>>

TimeoutReturns ==
    /\ Running /\ pc = "timercb"
    /\ AfterTimeout
    /\ UNCHANGED <<timerVars, signalVars, terminate, wake, runs>>

DispatchSocks ==
    /\ Running /\ pc = "dispatch"
    /\ S!SkipEntry \/ S!EndTable \/ S!CallHandler \/ S!HandlerReturns
    /\ pc' = IF place'.at = "away" THEN "top" ELSE "dispatch"
    /\ UNCHANGED <<timerVars, signalVars, terminate, wake, runs>>

(* eloop_destroy frees the timeouts, and then the tables, which nothing reads    *)
(* again before the next eloop_init.                                           *)
Destroy ==
    /\ Running /\ pc = "app" /\ runs > 0
    /\ T!DestroyTimeouts
    /\ pc' = "destroyed"
    /\ UNCHANGED <<signalVars, sockVars, terminate, wake, runs>>

Loop == \/ EndRun \/ Sleep \/ SelectFails \/ SelectReady \/ SelectTimesOut
        \/ ProcessSignals \/ FireTimeout \/ NoTimeout \/ TimeoutReturns \/ DispatchSocks

Next == \/ TimeoutCall \/ SocketCall \/ SignalCall \/ SignalCallEnds \/ Terminate
        \/ \E sig \in Sigs : Signal(sig)
        \/ AlarmRings
        \/ \E e \in S!Event : Arrive(e)
        \/ Tick
        \/ Run \/ Loop \/ Destroy

Spec == Init /\ [][Next]_vars

(* The clock runs, callbacks return and the process is scheduled.               *)
Fairness == WF_vars(Tick) /\ WF_vars(SignalCallEnds) /\ WF_vars(Loop)

FairSpec == Spec /\ Fairness

--------------------------------------------------------------------------
(* The loop, the signals and the tables agree on where the main thread is.     *)
TypeOK ==
    /\ pc \in PCs
    /\ terminate \in BOOLEAN
    /\ wake \in Nat \cup {Never}
    /\ runs \in Nat
    /\ place \in [at : {"away", "select", "between", "dispatch", "handler"}, t : Nat, i : Nat]
    /\ proc \in [at : G!Places, i : Nat]
    /\ pc = "select" <=> S!At("select")
    /\ pc = "select" <=> G!At("select")
    /\ pc = "signals" <=> proc.at \notin {"away", "select"}
    /\ pc = "dispatch" <=> place.at \in {"dispatch", "handler"}
    /\ S!At("between") => pc \in {"signals", "timers", "timercb"}

(* select() never sleeps past the deadline of any registered timeout, though     *)
(* only the head of the list is looked at: it was told to return by then, or     *)
(* at once.                                                                    *)
WakesForEarliest ==
    pc = "select" =>
        \A i \in DOMAIN timeout :
            wake # Never /\ (wake <= timeout[i].due \/ wake <= T!Instant(now))

(* The invariant of the loop: its place, and what select() was told to wait for.  *)
LoopInv == TypeOK /\ WakesForEarliest

(* eloop_run returns only when it was told to or has nothing left to wait for    *)
(* (eloop.h: "continue running as long as there are any registered event         *)
(* handlers"), but for one case: a timeout whose microseconds the cast to int    *)
(* made negative is first in the list, and select() rejects it.                 *)
RunsWhileRegistered ==
    [][pc \notin {"app", "destroyed"} /\ pc' = "app" =>
         \/ terminate
         \/ timeout = << >> /\ \A t \in Types : table[t] = << >>
         \/ timeout # << >> /\ timeout[1].time.usec < 0]_vars

(* Once eloop_terminate has been called in the loop, the loop sleeps no more:     *)
(* it returns, whatever is registered, ready or due.                           *)
TerminateEnds == (terminate /\ pc # "app" /\ pc # "destroyed") ~> (pc = "app" \/ killed)

(* eloop_run returns when it was told to, and not before there is a reason.       *)
EndsWhenItMay == RunsWhileRegistered /\ TerminateEnds

(* Every timeout that is registered while the loop runs leaves the list at last: *)
(* it fires or is cancelled, however many sockets are ready and signals arrive,  *)
(* unless the loop ends.                                                       *)
TimeoutServed ==
    \A n \in 0 .. MaxRegs - 1 :
        (\E i \in DOMAIN timeout : timeout[i].id = n)
            ~> (\/ \A i \in DOMAIN timeout : timeout[i].id # n
                \/ pc \in {"app", "destroyed"} \/ killed)

(* The loop takes only steps its three parts allow.                            *)
TimeoutsImplemented == T!Spec
SignalsImplemented  == G!Spec
SocksImplemented    == S!Spec

(* eloop_run is at once a use of the timeouts, of the signals and of the tables. *)
PartsImplemented == TimeoutsImplemented /\ SignalsImplemented /\ SocksImplemented
==========================================================================
