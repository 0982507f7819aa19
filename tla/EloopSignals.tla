--------------------------- MODULE EloopSignals ---------------------------
(***************************************************************************)
(* Signals in eloop (eloop/src/eloop.c).  eloop_handle_signal is installed *)
(* with signal() and runs between any two steps of the main thread; it     *)
(* only leaves marks, and the callbacks run later, from                    *)
(* eloop_process_pending_signals, after the select() of eloop_run returns. *)
(* The main thread is seen as far as signals go: it is in select(), in a   *)
(* step of eloop_process_pending_signals, in a signal callback, or         *)
(* elsewhere ("away": set-up code, timeout and socket callbacks, the rest  *)
(* of the loop).                                                           *)
(***************************************************************************)
EXTENDS Integers, Sequences

CONSTANTS
    Sigs,          \* signals the program handles
    TermSigs,      \* SIGINT and SIGTERM, those of them in Sigs
    ReallocMoves,  \* what realloc may do to the signal table: FALSE, TRUE or both
    MaxEntries,    \* bound: entries of the signal table
    MaxRaise       \* bound: signals that arrive

ASSUME SignalAssumption ==
    /\ TermSigs \subseteq Sigs
    /\ ReallocMoves \subseteq BOOLEAN
    /\ MaxEntries \in Nat
    /\ MaxRaise \in Nat

VARIABLES
    signals,            \* eloop.signals[0 .. signal_count - 1]
    installed,          \* signals whose handler is eloop_handle_signal
    growing,            \* eloop_register_signal between realloc and assignment
    signaled,           \* eloop.signaled
    pending_terminate,  \* eloop.pending_terminate
    alarm,              \* whether alarm(2) is running
    proc,               \* where the main thread is, and the index i of its loop
    killed,             \* eloop_handle_alarm has called exit(1)
    owed,               \* signals that arrived and whose callback has not begun
    raised              \* signals so far

vars == <<signals, installed, growing, signaled, pending_terminate, alarm, proc,
          killed, owed, raised>>

(* struct eloop_signal; the callback is known by the position in the table.    *)
Entry == [sig : Sigs, signaled : Nat]

NotGrowing == [on |-> FALSE]

Places == {"away", "select", "check", "clear", "alarm", "term",
           "scan", "reset", "call", "callback"}

At(place) == proc.at = place

(* The entry eloop_handle_signal finds for a signal: the first one.            *)
Slot(s, sig) == {i \in DOMAIN s : /\ s[i].sig = sig
                                  /\ \A j \in 1 .. i - 1 : s[j].sig # sig}

Init == /\ signals = << >>
        /\ installed = {}
        /\ growing = NotGrowing
        /\ signaled = 0
        /\ pending_terminate = FALSE
        /\ alarm = FALSE
        /\ proc = [at |-> "away", i |-> 1]
        /\ killed = FALSE
        /\ owed = {}
        /\ raised = 0

--------------------------------------------------------------------------
(* eloop_register_signal, called from anywhere but eloop itself.  The table    *)
(* grows in two steps.  When realloc moves the block, tmp is a copy of the     *)
(* table and eloop.signals still points to the old block: what a signal marks  *)
(* there between the two steps is not in the copy.                            *)
RegisterBegin(sig) ==
    /\ ~ killed
    /\ At("away") \/ At("callback")
    /\ ~ growing.on
    /\ Len(signals) < MaxEntries
    /\ \E moves \in ReallocMoves :
           growing' = [on |-> TRUE, moved |-> moves, sig |-> sig, tmp |-> signals]
    /\ UNCHANGED <<signals, installed, signaled, pending_terminate, alarm, proc,
                   killed, owed, raised>>

RegisterEnd ==
    /\ ~ killed
    /\ growing.on
    /\ signals' = Append(IF growing.moved THEN growing.tmp ELSE signals,
                         [sig |-> growing.sig, signaled |-> 0])
    /\ installed' = installed \cup {growing.sig}
    /\ growing' = NotGrowing
    /\ UNCHANGED <<signaled, pending_terminate, alarm, proc, killed, owed, raised>>

(* eloop_handle_signal.  A signal that arrives in select() ends it with EINTR.  *)
Raise(sig) ==
    /\ ~ killed
    /\ sig \in installed
    /\ raised < MaxRaise
    /\ raised' = raised + 1
    /\ IF sig \in TermSigs /\ ~ pending_terminate
       THEN pending_terminate' = TRUE /\ alarm' = TRUE
       ELSE UNCHANGED <<pending_terminate, alarm>>
    /\ signaled' = signaled + 1
    /\ signals' = [i \in DOMAIN signals |->
                      IF i \in Slot(signals, sig)
                      THEN [signals[i] EXCEPT !.signaled = @ + 1] ELSE signals[i]]
    /\ owed' = owed \cup {sig}
    /\ proc' = IF At("select") THEN [proc EXCEPT !.at = "check"] ELSE proc
    /\ UNCHANGED <<installed, growing, killed>>

(* eloop_handle_alarm, two seconds after alarm(2).                              *)
AlarmRings ==
    /\ ~ killed
    /\ alarm
    /\ killed' = TRUE
    /\ alarm' = FALSE
    /\ UNCHANGED <<signals, installed, growing, signaled, pending_terminate, proc,
                   owed, raised>>

--------------------------------------------------------------------------
(* The main thread.                                                            *)

Goto(place) == proc' = [proc EXCEPT !.at = place]

(* eloop_run calls select() without a look at eloop.signaled.                   *)
EnterSelect ==
    /\ ~ killed
    /\ At("away")
    /\ ~ growing.on
    /\ Goto("select")
    /\ UNCHANGED <<signals, installed, growing, signaled, pending_terminate, alarm,
                   killed, owed, raised>>

(* A descriptor is ready or the timeout has run out.                            *)
SelectReturns ==
    /\ ~ killed
    /\ At("select")
    /\ Goto("check")
    /\ UNCHANGED <<signals, installed, growing, signaled, pending_terminate, alarm,
                   killed, owed, raised>>

(* Mutant of Check: the early return is one signal too late. *)
CheckOffByOne ==
    /\ ~ killed
    /\ At("check")
    /\ Goto(IF signaled <= 1 THEN "away" ELSE "clear")
    /\ UNCHANGED <<signals, installed, growing, signaled, pending_terminate, alarm,
                   killed, owed, raised>>

(* eloop_process_pending_signals: the early return.                             *)
Check ==
    /\ ~ killed
    /\ At("check")
    /\ Goto(IF signaled = 0 THEN "away" ELSE "clear")
    /\ UNCHANGED <<signals, installed, growing, signaled, pending_terminate, alarm,
                   killed, owed, raised>>

Clear ==
    /\ ~ killed
    /\ At("clear")
    /\ signaled' = 0
    /\ proc' = [at |-> "alarm", i |-> 1]
    /\ UNCHANGED <<signals, installed, growing, pending_terminate, alarm, killed,
                   owed, raised>>

StopAlarm ==
    /\ ~ killed
    /\ At("alarm")
    /\ IF pending_terminate THEN alarm' = FALSE /\ Goto("term")
                            ELSE Goto("scan") /\ UNCHANGED alarm
    /\ UNCHANGED <<signals, installed, growing, signaled, pending_terminate, killed,
                   owed, raised>>

ClearTerminate ==
    /\ ~ killed
    /\ At("term")
    /\ pending_terminate' = FALSE
    /\ Goto("scan")
    /\ UNCHANGED <<signals, installed, growing, signaled, alarm, killed, owed, raised>>

(* Mutant of Scan: eloop.signaled is cleared after the loop, and not only before *)
(* it.                                                                         *)
ScanThenClear ==
    /\ ~ killed
    /\ At("scan")
    /\ proc' = IF proc.i > Len(signals) THEN [at |-> "away", i |-> 1]
               ELSE IF signals[proc.i].signaled > 0 THEN [proc EXCEPT !.at = "reset"]
               ELSE [proc EXCEPT !.i = @ + 1]
    /\ signaled' = IF proc.i > Len(signals) THEN 0 ELSE signaled
    /\ UNCHANGED <<signals, installed, growing, pending_terminate, alarm, killed,
                   owed, raised>>

(* Mutant of Scan: the alarm is stopped after the loop too. *)
ScanThenStopAlarm ==
    /\ ~ killed
    /\ At("scan")
    /\ proc' = IF proc.i > Len(signals) THEN [at |-> "away", i |-> 1]
               ELSE IF signals[proc.i].signaled > 0 THEN [proc EXCEPT !.at = "reset"]
               ELSE [proc EXCEPT !.i = @ + 1]
    /\ IF proc.i > Len(signals) THEN alarm' = FALSE /\ pending_terminate' = FALSE
                                ELSE UNCHANGED <<alarm, pending_terminate>>
    /\ UNCHANGED <<signals, installed, growing, signaled, killed, owed, raised>>

(* One test of the loop over the table.                                         *)
Scan ==
    /\ ~ killed
    /\ At("scan")
    /\ proc' = IF proc.i > Len(signals) THEN [at |-> "away", i |-> 1]
               ELSE IF signals[proc.i].signaled > 0 THEN [proc EXCEPT !.at = "reset"]
               ELSE [proc EXCEPT !.i = @ + 1]
    /\ UNCHANGED <<signals, installed, growing, signaled, pending_terminate, alarm,
                   killed, owed, raised>>

Reset ==
    /\ ~ killed
    /\ At("reset")
    /\ signals' = [signals EXCEPT ![proc.i].signaled = 0]
    /\ Goto("call")
    /\ UNCHANGED <<installed, growing, signaled, pending_terminate, alarm, killed,
                   owed, raised>>

CallCallback ==
    /\ ~ killed
    /\ At("call")
    /\ owed' = owed \ {signals[proc.i].sig}
    /\ Goto("callback")
    /\ UNCHANGED <<signals, installed, growing, signaled, pending_terminate, alarm,
                   killed, raised>>

CallbackReturns ==
    /\ ~ killed
    /\ At("callback")
    /\ ~ growing.on
    /\ proc' = [at |-> "scan", i |-> proc.i + 1]
    /\ UNCHANGED <<signals, installed, growing, signaled, pending_terminate, alarm,
                   killed, owed, raised>>

Process == \/ Check \/ Clear \/ StopAlarm \/ ClearTerminate
           \/ Scan \/ Reset \/ CallCallback

Next == \/ \E sig \in Sigs : RegisterBegin(sig) \/ Raise(sig)
        \/ RegisterEnd
        \/ AlarmRings
        \/ EnterSelect \/ SelectReturns
        \/ Process
        \/ CallbackReturns

Spec == Init /\ [][Next]_vars

(* The main thread does not stop: callbacks return, eloop_run keeps going back *)
(* to select(), and select() returns from time to time, as it does in          *)
(* eloop/src/main.c, whose timer runs every second.                           *)
Fairness == /\ WF_vars(RegisterEnd)
            /\ WF_vars(EnterSelect)
            /\ WF_vars(SelectReturns)
            /\ WF_vars(Process)
            /\ WF_vars(CallbackReturns)

FairSpec == Spec /\ Fairness

--------------------------------------------------------------------------
Growing == [on : {TRUE}, moved : BOOLEAN, sig : Sigs, tmp : Seq(Entry)]

TypeOK ==
    /\ signals \in Seq(Entry)
    /\ installed \subseteq Sigs
    /\ growing \in Growing \cup {NotGrowing}
    /\ signaled \in Nat
    /\ {pending_terminate, alarm, killed} \subseteq BOOLEAN
    /\ proc \in [at : Places, i : Nat \ {0}]
    /\ proc.at \in {"reset", "call", "callback"} => proc.i \in DOMAIN signals
    /\ owed \subseteq Sigs
    /\ raised \in Nat

(* The entries the loop of eloop_process_pending_signals is still to test.     *)
StillToTest(i) == \/ proc.at \in {"alarm", "term"}
                  \/ proc.at \in {"scan", "reset"} /\ i >= proc.i
                  \/ proc.at \in {"call", "callback"} /\ i > proc.i

(* A mark that will be seen: by this round of the loop, or by the next one,     *)
(* because eloop.signaled is set.                                             *)
MarkedForGood(i) == signals[i].signaled > 0 /\ (signaled > 0 \/ StillToTest(i))

(* No signal is forgotten, whenever it arrives: until its callback begins, its  *)
(* first entry holds a mark that will be seen, or the loop has just seen it.    *)
(* eloop.signaled is cleared before the marks are read, and each mark before    *)
(* its callback is called.                                                     *)
NoSignalForgotten ==
    \A sig \in owed : \E i \in Slot(signals, sig) :
        \/ MarkedForGood(i)
        \/ proc.at \in {"reset", "call"} /\ proc.i = i

(* pending_terminate keeps eloop_handle_signal from starting the alarm, so it   *)
(* is never left set without one running.                                      *)
TerminateIsTimed == pending_terminate => alarm \/ killed \/ At("term")

(* Whenever the main thread is in select(), or back in the code around it, and  *)
(* the callback of a terminate signal has not begun, the alarm is running, even *)
(* if the signal came while the last alarm was being stopped: the test of the   *)
(* marks comes after that, and finds the signal.                               *)
OwedTerminateIsTimed ==
    proc.at \in {"away", "select", "check"} /\ owed \cap TermSigs # {} => alarm \/ killed

(* The callback of every signal that arrives begins at last, unless the alarm   *)
(* kills the program.                                                          *)
CallbackEventuallyRuns ==
    \A sig \in Sigs : (sig \in owed) ~> (sig \notin owed \/ killed)

(* The inductive invariant behind the three.  A signal finds its entry, an owed *)
(* terminate signal is timed unless this round of the loop will call its        *)
(* callback, and the loop starts at the first entry.                           *)
EntriesFound == /\ \A i \in DOMAIN signals : Slot(signals, signals[i].sig) # {}
                /\ \A sig \in installed : Slot(signals, sig) # {}

CalledThisRound(i) == \/ signals[i].signaled > 0 /\ StillToTest(i)
                      \/ proc.at \in {"reset", "call"} /\ proc.i = i

OwedIsTimedOrCalled ==
    \A sig \in owed \cap TermSigs :
        alarm \/ killed \/ \E i \in Slot(signals, sig) : CalledThisRound(i)

SignalInv == /\ TypeOK
             /\ EntriesFound
             /\ NoSignalForgotten
             /\ TerminateIsTimed
             /\ OwedIsTimedOrCalled
             /\ proc.at \in {"alarm", "term"} => proc.i = 1
             /\ growing.on => ~ growing.moved
===========================================================================
