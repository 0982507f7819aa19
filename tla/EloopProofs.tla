--------------------------- MODULE EloopProofs ---------------------------
(***************************************************************************)
(* eloop_run takes only steps that its three parts allow, whatever the     *)
(* callbacks call and whatever happens outside; so what is proved of a     *)
(* part holds of the loop, and is used here for the loop's own invariant.  *)
(***************************************************************************)
EXTENDS Eloop, TLAPS

TP == INSTANCE EloopTimeoutsProofs
GP == INSTANCE EloopSignalsProofs
SP == INSTANCE EloopSocksProofs

(* The loop implements the list of timeouts: every step of it is a call on the  *)
(* list, the firing of its head, the clock, or leaves list and clock alone.     *)
THEOREM ImplementsTimeouts == Spec => TimeoutsImplemented
<1>1. Init => T!Init
  BY DEF Init
<1>2. [Next]_vars => [T!Next]_(T!vars)
  <2> USE DEF T!vars, timerVars
  <2> SUFFICES ASSUME [Next]_vars PROVE [T!Next]_(T!vars)
    OBVIOUS
  <2>1. CASE TimeoutCall
    BY <2>1 DEF TimeoutCall, T!Next
  <2>2. CASE FireTimeout
    BY <2>2 DEF FireTimeout, T!Next
  <2>3. CASE Destroy
    BY <2>3 DEF Destroy, T!Next
  <2>4. CASE Tick
    BY <2>4 DEF Tick, T!Next
  <2>5. CASE SocketCall \/ SignalCall \/ SignalCallEnds \/ Terminate
    BY <2>5 DEF SocketCall, SignalCall, SignalCallEnds, Terminate
  <2>6. CASE AlarmRings \/ (\E sig \in Sigs : Signal(sig)) \/ \E e \in S!Event : Arrive(e)
    BY <2>6 DEF AlarmRings, Signal, Arrive
  <2>7. CASE Run \/ EndRun \/ Sleep \/ SelectFails \/ SelectReady \/ SelectTimesOut
    BY <2>7 DEF Run, EndRun, Sleep, SelectFails, SelectReady, SelectTimesOut
  <2>8. CASE ProcessSignals \/ NoTimeout \/ TimeoutReturns \/ DispatchSocks
    BY <2>8 DEF ProcessSignals, NoTimeout, TimeoutReturns, DispatchSocks
  <2>9. CASE UNCHANGED vars
    BY <2>9 DEF vars
  <2> QED
    BY <2>1, <2>2, <2>3, <2>4, <2>5, <2>6, <2>7, <2>8, <2>9 DEF Next, Loop
<1> QED
  BY <1>1, <1>2, PTL DEF Spec, TimeoutsImplemented, T!Spec

(* The loop implements the signal machinery: select() and                      *)
(* eloop_process_pending_signals are where the signals' model says.            *)
THEOREM ImplementsSignals == Spec => SignalsImplemented
<1>1. Init => G!Init
  BY DEF Init
<1>2. [Next]_vars => [G!Next]_(G!vars)
  <2> USE DEF G!vars, signalVars
  <2> SUFFICES ASSUME [Next]_vars PROVE [G!Next]_(G!vars)
    OBVIOUS
  <2>1. CASE SignalCall
    BY <2>1 DEF SignalCall, G!Next
  <2>2. CASE SignalCallEnds \/ AlarmRings
    BY <2>2 DEF SignalCallEnds, AlarmRings, G!Next
  <2>3. CASE \E sig \in Sigs : Signal(sig)
    BY <2>3 DEF Signal, G!Next
  <2>4. CASE Sleep \/ SelectReady \/ SelectTimesOut
    BY <2>4 DEF Sleep, SelectReady, SelectTimesOut, G!Next
  <2>5. CASE ProcessSignals
    BY <2>5 DEF ProcessSignals, G!Next
  <2>6. CASE TimeoutCall \/ SocketCall \/ Terminate
    BY <2>6 DEF TimeoutCall, SocketCall, Terminate
  <2>7. CASE Tick \/ \E e \in S!Event : Arrive(e)
    BY <2>7 DEF Tick, Arrive
  <2>8. CASE Run \/ EndRun \/ SelectFails \/ Destroy
    BY <2>8 DEF Run, EndRun, SelectFails, Destroy
  <2>9. CASE FireTimeout \/ NoTimeout \/ TimeoutReturns \/ DispatchSocks
    BY <2>9 DEF FireTimeout, NoTimeout, TimeoutReturns, DispatchSocks
  <2>10. CASE UNCHANGED vars
    BY <2>10 DEF vars
  <2> QED
    BY <2>1, <2>2, <2>3, <2>4, <2>5, <2>6, <2>7, <2>8, <2>9, <2>10 DEF Next, Loop
<1> QED
  BY <1>1, <1>2, PTL DEF Spec, SignalsImplemented, G!Spec

(* The loop implements the socket tables: it dispatches only what a select()    *)
(* that reported something has left in the fd_sets.                            *)
THEOREM ImplementsSocks == Spec => SocksImplemented
<1>1. Init => S!Init
  BY DEF Init
<1>2. [Next]_vars => [S!Next]_(S!vars)
  <2> USE DEF S!vars, sockVars
  <2> SUFFICES ASSUME [Next]_vars PROVE [S!Next]_(S!vars)
    OBVIOUS
  <2>1. CASE SocketCall
    BY <2>1 DEF SocketCall, S!Next
  <2>2. CASE \E sig \in Sigs : Signal(sig)
    BY <2>2 DEF Signal, S!Next, S!Loop
  <2>3. CASE \E e \in S!Event : Arrive(e)
    BY <2>3 DEF Arrive, S!Next
  <2>4. CASE Sleep \/ SelectReady \/ SelectTimesOut
    BY <2>4 DEF Sleep, SelectReady, SelectTimesOut, S!Next, S!Loop
  <2>5. CASE NoTimeout \/ TimeoutReturns
    BY <2>5 DEF NoTimeout, TimeoutReturns, AfterTimeout, S!Next, S!Loop
  <2>6. CASE DispatchSocks
    BY <2>6 DEF DispatchSocks, S!Next, S!Loop
  <2>7. CASE TimeoutCall \/ SignalCall \/ SignalCallEnds \/ Terminate
    BY <2>7 DEF TimeoutCall, SignalCall, SignalCallEnds, Terminate
  <2>8. CASE AlarmRings \/ Tick \/ Run \/ EndRun \/ SelectFails \/ Destroy
    BY <2>8 DEF AlarmRings, Tick, Run, EndRun, SelectFails, Destroy, loopVars
  <2>9. CASE ProcessSignals \/ FireTimeout
    BY <2>9 DEF ProcessSignals, FireTimeout
  <2>10. CASE UNCHANGED vars
    BY <2>10 DEF vars
  <2> QED
    BY <2>1, <2>2, <2>3, <2>4, <2>5, <2>6, <2>7, <2>8, <2>9, <2>10 DEF Next, Loop
<1> QED
  BY <1>1, <1>2, PTL DEF Spec, SocksImplemented, S!Spec

(* The loop implements its three parts at once.                                *)
THEOREM ImplementsParts == Spec => PartsImplemented
  BY ImplementsTimeouts, ImplementsSignals, ImplementsSocks DEF PartsImplemented

--------------------------------------------------------------------------
(* The list of timeouts of the loop and that of EloopTimeoutsProofs are two     *)
(* instances of one module: what is proved of the one holds of the other.       *)

LEMMA SameList ==
    ASSUME NEW s, NEW k, NEW c, NEW d, NEW h, NEW e, NEW u
    PROVE  /\ T!Registered(s, k, c, d) = TP!Registered(s, k, c, d)
           /\ T!Bounded(c, d) <=> TP!Bounded(c, d)
           /\ T!NextInstant(c) = TP!NextInstant(c)
           /\ T!FirstMatch(s, k) = TP!FirstMatch(s, k)
           /\ T!DropAt(s, k) = TP!DropAt(s, k)
           /\ T!Before(c, d) <=> TP!Before(c, d)
           /\ T!Without(s, T!Matching(s, h, e, u)) = TP!Without(s, TP!Matching(s, h, e, u))
<1>1. T!Registered(s, k, c, d) = TP!Registered(s, k, c, d)
  BY DEF T!Registered, TP!Registered, T!Inserted, TP!Inserted, T!NewTimer, TP!NewTimer, T!InsertPositions, TP!InsertPositions, T!PutAt, TP!PutAt,
         T!Deadline, TP!Deadline, T!Carry, TP!Carry, T!CInt, TP!CInt, T!UIntMax, TP!UIntMax, T!Instant, TP!Instant,
         T!Before, TP!Before
<1>2. T!Bounded(c, d) <=> TP!Bounded(c, d)
  BY DEF T!Bounded, TP!Bounded, T!Deadline, TP!Deadline, T!Carry, TP!Carry, T!CInt, TP!CInt, T!UIntMax, TP!UIntMax
<1>3. T!NextInstant(c) = TP!NextInstant(c) /\ T!FirstMatch(s, k) = TP!FirstMatch(s, k)
  BY DEF T!NextInstant, TP!NextInstant, T!FirstMatch, TP!FirstMatch
<1>4. T!DropAt(s, k) = TP!DropAt(s, k) /\ (T!Before(c, d) <=> TP!Before(c, d))
  BY DEF T!Before, TP!Before, T!DropAt, TP!DropAt
<1>5. T!Without(s, T!Matching(s, h, e, u)) = TP!Without(s, TP!Matching(s, h, e, u))
  <2> DEFINE M == T!Matching(s, h, e, u)
             K == DOMAIN s \ M
  <2>1. M = TP!Matching(s, h, e, u)
    BY DEF T!Matching, TP!Matching
  <2> HIDE DEF M
  <2>2. T!Ascending(K) = TP!Ascending(K)
    BY DEF T!Ascending, TP!Ascending, T!Cardinality, TP!Cardinality
  <2>3. T!Without(s, M) = TP!Without(s, M)
    BY <2>2 DEF T!Without, TP!Without, T!Cardinality, TP!Cardinality
  <2> QED
    BY <2>1, <2>3 DEF M
<1> QED
  BY <1>1, <1>2, <1>3, <1>4, <1>5

LEMMA SameSpec == T!Spec <=> TP!Spec
<1>1. T!Init <=> TP!Init
  BY DEF T!Init, TP!Init, T!Zero, TP!Zero
<1>2. ASSUME NEW k, NEW d
      PROVE  /\ T!RegisterTimeout(k, d) <=> TP!RegisterTimeout(k, d)
             /\ T!DepleteTimeout(k, d) <=> TP!DepleteTimeout(k, d)
             /\ T!ReplenishTimeout(k, d) <=> TP!ReplenishTimeout(k, d)
  <2>1. T!RegisterTimeout(k, d) <=> TP!RegisterTimeout(k, d)
    BY SameList DEF T!RegisterTimeout, TP!RegisterTimeout
  <2>2. T!Reregister(k, d) <=> TP!Reregister(k, d)
    BY SameList DEF T!Reregister, TP!Reregister
  <2>3. T!DepleteTimeout(k, d) <=> TP!DepleteTimeout(k, d)
    BY <2>2 DEF T!DepleteTimeout, TP!DepleteTimeout, T!FirstMatch, TP!FirstMatch,
                T!Before, TP!Before, T!Requested, TP!Requested, T!CInt, TP!CInt, T!UIntMax, TP!UIntMax, T!Sub, TP!Sub
  <2>4. T!ReplenishTimeout(k, d) <=> TP!ReplenishTimeout(k, d)
    BY <2>2 DEF T!ReplenishTimeout, TP!ReplenishTimeout, T!FirstMatch, TP!FirstMatch,
                T!Before, TP!Before, T!Requested, TP!Requested, T!CInt, TP!CInt, T!UIntMax, TP!UIntMax, T!Sub, TP!Sub
  <2> QED
    BY <2>1, <2>3, <2>4
<1>3. ASSUME NEW h, NEW e, NEW u
      PROVE  T!CancelTimeout(h, e, u) <=> TP!CancelTimeout(h, e, u)
  BY SameList DEF T!CancelTimeout, TP!CancelTimeout
<1>4. ASSUME NEW k
      PROVE  T!CancelTimeoutOne(k) <=> TP!CancelTimeoutOne(k)
  BY SameList DEF T!CancelTimeoutOne, TP!CancelTimeoutOne
<1>5. /\ T!Expire <=> TP!Expire
      /\ T!DestroyTimeouts <=> TP!DestroyTimeouts
      /\ T!Tick <=> TP!Tick
  BY SameList
     DEF T!Expire, TP!Expire, T!DestroyTimeouts, TP!DestroyTimeouts, T!Tick, TP!Tick
<1>6. T!Key = TP!Key
  BY DEF T!Key, TP!Key
<1>7. T!Next <=> TP!Next
  BY <1>2, <1>3, <1>4, <1>5, <1>6 DEF T!Next, TP!Next, T!Call, TP!Call
<1>8. [T!Next]_(T!vars) <=> [TP!Next]_(TP!vars)
  BY <1>7 DEF T!vars, TP!vars
<1> QED
  BY <1>1, <1>8, PTL DEF T!Spec, TP!Spec

(* The same of the signals and of the socket tables.                            *)
LEMMA SameSignals == G!Spec <=> GP!Spec
<1>1. G!Init <=> GP!Init
  BY DEF G!Init, GP!Init, G!NotGrowing, GP!NotGrowing
<1>2. ASSUME NEW sig
      PROVE  /\ G!RegisterBegin(sig) <=> GP!RegisterBegin(sig)
             /\ G!Raise(sig) <=> GP!Raise(sig)
  BY DEF G!RegisterBegin, GP!RegisterBegin, G!Raise, GP!Raise, G!Slot, GP!Slot, G!At, GP!At
<1>3. /\ G!RegisterEnd <=> GP!RegisterEnd
      /\ G!AlarmRings <=> GP!AlarmRings
      /\ G!EnterSelect <=> GP!EnterSelect
      /\ G!SelectReturns <=> GP!SelectReturns
      /\ G!CallbackReturns <=> GP!CallbackReturns
  BY DEF G!RegisterEnd, GP!RegisterEnd, G!AlarmRings, GP!AlarmRings, G!EnterSelect, GP!EnterSelect, G!SelectReturns, GP!SelectReturns,
         G!CallbackReturns, GP!CallbackReturns, G!Goto, GP!Goto, G!At, GP!At, G!NotGrowing, GP!NotGrowing
<1>4. G!Process <=> GP!Process
  BY DEF G!Process, GP!Process, G!Check, GP!Check, G!Clear, GP!Clear, G!StopAlarm, GP!StopAlarm,
         G!ClearTerminate, GP!ClearTerminate, G!Scan, GP!Scan, G!Reset, GP!Reset, G!CallCallback, GP!CallCallback,
         G!Goto, GP!Goto, G!At, GP!At
<1>5. G!Next <=> GP!Next
  BY <1>2, <1>3, <1>4 DEF G!Next, GP!Next
<1>6. [G!Next]_(G!vars) <=> [GP!Next]_(GP!vars)
  BY <1>5 DEF G!vars, GP!vars
<1> QED
  BY <1>1, <1>6, PTL DEF G!Spec, GP!Spec

LEMMA SameTables == S!Spec <=> SP!Spec
<1>1. S!Init <=> SP!Init
  BY DEF S!Init, SP!Init
<1>2. ASSUME NEW t, NEW s
      PROVE  /\ S!RegisterSock(t, s) <=> SP!RegisterSock(t, s)
             /\ S!UnregisterSock(t, s) <=> SP!UnregisterSock(t, s)
             /\ S!Reopen(s) <=> SP!Reopen(s)
             /\ S!Arrive(s) <=> SP!Arrive(s)
  BY DEF S!RegisterSock, SP!RegisterSock, S!UnregisterSock, SP!UnregisterSock, S!Reopen, SP!Reopen, S!Arrive, SP!Arrive,
         S!MayCall, SP!MayCall, S!At, SP!At, S!InTable, SP!InTable
<1>3. /\ S!PrepareSelect <=> SP!PrepareSelect
      /\ S!SelectReady <=> SP!SelectReady
      /\ S!SelectTimesOut <=> SP!SelectTimesOut
      /\ S!SelectInterrupted <=> SP!SelectInterrupted
  BY DEF S!PrepareSelect, SP!PrepareSelect, S!SelectReady, SP!SelectReady, S!SelectTimesOut, SP!SelectTimesOut, S!SelectInterrupted, SP!SelectInterrupted,
         S!Ready, SP!Ready, S!At, SP!At, S!InTable, SP!InTable
<1>4. /\ S!BeginDispatch <=> SP!BeginDispatch
      /\ S!SkipEntry <=> SP!SkipEntry
      /\ S!EndTable <=> SP!EndTable
      /\ S!CallHandler <=> SP!CallHandler
      /\ S!HandlerReturns <=> SP!HandlerReturns
  BY DEF S!BeginDispatch, SP!BeginDispatch, S!SkipEntry, SP!SkipEntry, S!EndTable, SP!EndTable, S!CallHandler, SP!CallHandler,
         S!HandlerReturns, SP!HandlerReturns, S!Dispatch, SP!Dispatch, S!Current, SP!Current, S!CurrentEvent, SP!CurrentEvent,
         S!Order, SP!Order, S!InUse, SP!InUse, S!At, SP!At
<1>5. S!Next <=> SP!Next
  BY <1>2, <1>3, <1>4 DEF S!Next, SP!Next, S!Loop, SP!Loop, S!Event, SP!Event
<1>6. [S!Next]_(S!vars) <=> [SP!Next]_(SP!vars)
  BY <1>5 DEF S!vars, SP!vars
<1> QED
  BY <1>1, <1>6, PTL DEF S!Spec, SP!Spec

(* The assumptions of the parts are among the loop's own.                      *)
LEMMA ListAssumptions ==
    /\ USEC \in Nat \ {0} /\ IntMax \in Nat \ {0}
    /\ AllCtx \notin EloopData \cup UserData
    /\ Delays \subseteq (0 .. TP!UIntMax) \X (0 .. TP!UIntMax)
    /\ AllocMayFail \in BOOLEAN
    /\ MaxRegs \in Nat /\ MaxSec \in Nat
BY LoopAssumption DEF TP!UIntMax

LEMMA SignalAssumptions ==
    /\ TermSigs \subseteq Sigs /\ ReallocMoves \subseteq BOOLEAN
    /\ MaxEntries \in Nat /\ MaxRaise \in Nat
BY LoopAssumption

LEMMA TableAssumptions ==
    /\ Socks \subseteq Nat
    /\ Types \subseteq {"read", "write", "exception"} /\ Types # {}
    /\ {Duplicates, CallsInHandlers, SockAllocMayFail} \subseteq BOOLEAN
    /\ MaxTable \in Nat
BY LoopAssumption

(* The loop keeps the list in order, and no deadline late.                     *)
LEMMA KeepsDated == Spec => []TP!DatedInv
<1>1. TP!Spec => []TP!DatedInv
  BY ListAssumptions, TP!NeverLate
<1> QED
  BY <1>1, ImplementsTimeouts, SameSpec, PTL DEF TimeoutsImplemented

--------------------------------------------------------------------------
(* What the loop's invariant says, step by step. *)

LEMMA OrderNonempty == S!Order \in Seq({"read", "write", "exception"}) /\ Len(S!Order) > 0
<1>1. \/ "read" \in Types \/ "write" \in Types \/ "exception" \in Types
  BY LoopAssumption
<1>2. \A t \in {"read", "write", "exception"} :
         /\ S!InUse(t) \in Seq({"read", "write", "exception"})
         /\ Len(S!InUse(t)) \in Nat
         /\ t \in Types => Len(S!InUse(t)) = 1
  BY DEF S!InUse
<1> QED
  BY <1>1, <1>2 DEF S!Order

(* What select() is told in Sleep, in the loop's own instance of the list.      *)
LEMMA SleepArgument ==
    ASSUME TP!DatedInv, NEW i \in DOMAIN timeout
    PROVE  /\ Tv.sec \in Int /\ Tv.usec \in Int
           /\ T!Instant(Tv) \in Int /\ T!Instant(now) \in Nat
           /\ Tv.sec >= 0 /\ Tv.usec >= 0 => T!Instant(Tv) >= 0
           /\ \/ T!Instant(now) + T!Instant(Tv) <= timeout[i].due
              \/ T!Instant(now) + T!Instant(Tv) = T!Instant(now)
<1>1. LET r == TP!Remaining(timeout[1].time, now)
      IN  /\ r.sec \in Int /\ r.usec \in Int /\ TP!Instant(r) \in Int /\ TP!Instant(now) \in Nat
          /\ r.sec >= 0 /\ r.usec >= 0 => TP!Instant(r) >= 0
          /\ \/ TP!Instant(now) + TP!Instant(r) <= timeout[i].due
             \/ TP!Instant(now) + TP!Instant(r) = TP!Instant(now)
  BY ListAssumptions, TP!SleepEndsInTime
<1>2. Tv = TP!Remaining(timeout[1].time, now)
  BY DEF Tv, T!Remaining, TP!Remaining, T!Before, TP!Before, T!Sub, TP!Sub, T!Zero, TP!Zero
<1>3. \A t : T!Instant(t) = TP!Instant(t)
  BY DEF T!Instant, TP!Instant
<1> HIDE DEF Tv
<1> QED
  BY <1>1, <1>2, <1>3

LEMMA SleepKeeps ==
    ASSUME LoopInv, TP!DatedInv, Sleep
    PROVE  LoopInv'
<1>1. /\ proc \in [at : G!Places, i : Nat] /\ proc' = [proc EXCEPT !.at = "select"]
      /\ place \in [at : {"away", "select", "between", "dispatch", "handler"}, t : Nat, i : Nat]
      /\ place' = [place EXCEPT !.at = "select"]
      /\ pc' = "select" /\ timeout' = timeout /\ now' = now
  BY DEF LoopInv, TypeOK, Sleep, S!PrepareSelect, G!EnterSelect, G!Goto, timerVars
<1>2. CASE timeout = << >>
  <2>1. wake' = Never /\ DOMAIN timeout' = {}
    BY <1>1, <1>2 DEF Sleep
  <2> QED
    BY <1>1, <2>1 DEF Sleep, LoopInv, TypeOK, WakesForEarliest, PCs, S!At, G!At, G!Places
<1>3. CASE timeout # << >>
  <2>1. wake' = T!Instant(now) + T!Instant(Tv) /\ Tv.sec >= 0 /\ Tv.usec >= 0
    BY <1>3 DEF Sleep
  <2>2. 1 \in DOMAIN timeout
    BY <1>3 DEF TP!DatedInv, TP!OrderInv, TP!TypeOK
  <2>3. wake' \in Nat
    BY <2>1, <2>2, SleepArgument
  <2>4. ASSUME NEW i \in DOMAIN timeout
        PROVE  wake' # Never /\ (wake' <= timeout[i].due \/ wake' <= T!Instant(now))
    BY <2>1, <2>3, SleepArgument DEF Never
  <2>5. WakesForEarliest'
    BY <1>1, <2>4 DEF WakesForEarliest, T!Instant
  <2> QED
    BY <1>1, <2>3, <2>5 DEF Sleep, LoopInv, TypeOK, PCs, S!At, G!At, G!Places
<1> QED
  BY <1>2, <1>3

(* Time only makes a sleep that ends in time more so.                          *)
LEMMA TickKeeps ==
    ASSUME LoopInv, TP!DatedInv, Tick
    PROVE  LoopInv'
<1>1. UNCHANGED <<timeout, pc, terminate, wake, runs, proc, place>>
  BY DEF Tick, T!Tick, signalVars, sockVars, loopVars
<1>2. T!Instant(now) \in Int /\ T!Instant(now)' \in Int /\ T!Instant(now) <= T!Instant(now)'
  <2>1. now.sec \in Nat /\ now.usec \in 0 .. USEC - 1 /\ USEC \in Nat \ {0}
    BY LoopAssumption DEF TP!DatedInv, TP!OrderInv, TP!TypeOK, TP!ClockTime
  <2>2. now' = T!NextInstant(now)
    BY DEF Tick, T!Tick
  <2>3. CASE now.usec = USEC - 1
    <3>1. now'.sec = now.sec + 1 /\ now'.usec = 0
      BY <2>2, <2>3 DEF T!NextInstant
    <3>2. (now.sec + 1) * USEC = now.sec * USEC + USEC /\ now.sec * USEC \in Int
      BY <2>1
    <3> QED
      BY <2>1, <2>3, <3>1, <3>2 DEF T!Instant
  <2>4. CASE now.usec # USEC - 1
    <3>1. now'.sec = now.sec /\ now'.usec = now.usec + 1
      BY <2>1, <2>2, <2>4 DEF T!NextInstant, TP!DatedInv, TP!OrderInv, TP!TypeOK, TP!ClockTime
    <3>2. now.sec * USEC \in Int
      BY <2>1
    <3> QED
      BY <2>1, <3>1, <3>2 DEF T!Instant
  <2> QED
    BY <2>3, <2>4
<1>3. TypeOK'
  BY <1>1 DEF LoopInv, TypeOK, S!At, G!At
<1>4. ASSUME NEW i \in DOMAIN timeout, pc = "select"
      PROVE  wake # Never /\ (wake <= timeout[i].due \/ wake <= T!Instant(now)')
  <2>1. wake # Never /\ wake \in Int /\ (wake <= timeout[i].due \/ wake <= T!Instant(now))
    BY <1>4 DEF LoopInv, TypeOK, WakesForEarliest, Never
  <2> QED
    BY <1>2, <2>1
<1> QED
  BY <1>1, <1>3, <1>4 DEF LoopInv, WakesForEarliest

(* A step that ends outside select() has only the places to keep.               *)
LEMMA OutsideSelect ==
    ASSUME TypeOK', pc' # "select"
    PROVE  LoopInv'
BY DEF LoopInv, WakesForEarliest

(* A step that leaves list, clock and wake alone in select().                   *)
LEMMA InSelect ==
    ASSUME LoopInv, TypeOK', pc' = pc, UNCHANGED <<timeout, now, wake>>
    PROVE  LoopInv'
BY DEF LoopInv, WakesForEarliest, T!Instant

(* The calls of eloop.h do not move eloop_run.                                 *)
LEMMA CallsKeep ==
    ASSUME LoopInv,
           TimeoutCall \/ SocketCall \/ SignalCall \/ SignalCallEnds \/ Terminate
    PROVE  LoopInv'
<1>1. UNCHANGED <<pc, wake, runs>> /\ place' = place /\ proc' = proc
  BY DEF TimeoutCall, SocketCall, SignalCall, SignalCallEnds, Terminate, signalVars, sockVars,
         loopVars, S!RegisterSock, S!UnregisterSock, S!Reopen, G!RegisterBegin, G!RegisterEnd
<1>2. terminate' = terminate \/ terminate' = TRUE
  BY DEF TimeoutCall, SocketCall, SignalCall, SignalCallEnds, Terminate, loopVars
<1>3. TypeOK'
  BY <1>1, <1>2 DEF LoopInv, TypeOK, S!At, G!At
<1>4. CASE pc = "select"
  <2>1. UNCHANGED <<timeout, now>>
    BY <1>4 DEF TimeoutCall, SocketCall, SignalCall, SignalCallEnds, Terminate, InCallback, timerVars
  <2> QED
    BY <1>1, <1>3, <2>1, InSelect
<1>5. CASE pc # "select"
  BY <1>1, <1>3, <1>5, OutsideSelect
<1> QED
  BY <1>4, <1>5

LEMMA SignalKeeps ==
    ASSUME LoopInv, NEW sig \in Sigs, Signal(sig)
    PROVE  LoopInv'
<1>1. proc \in [at : G!Places, i : Nat] /\ G!Raise(sig)
  BY DEF LoopInv, TypeOK, Signal
<1>2. CASE pc = "select"
  <2>1. proc' = [proc EXCEPT !.at = "check"]
    BY <1>1, <1>2 DEF LoopInv, TypeOK, G!Raise
  <2>2. /\ place' = [place EXCEPT !.at = "away"] /\ pc' = "signals"
        /\ UNCHANGED <<terminate, wake, runs>>
    BY <1>2 DEF Signal, S!SelectInterrupted
  <2>3. TypeOK'
    BY <1>1, <2>1, <2>2 DEF LoopInv, TypeOK, PCs, S!At, G!At, G!Places
  <2> QED
    BY <2>2, <2>3, OutsideSelect
<1>3. CASE pc # "select"
  <2>1. UNCHANGED <<proc, place, pc, terminate, wake, runs>>
    BY <1>1, <1>3 DEF LoopInv, TypeOK, G!Raise, Signal, sockVars, loopVars
  <2>2. TypeOK'
    BY <2>1 DEF LoopInv, TypeOK, S!At, G!At
  <2> QED
    BY <1>3, <2>1, <2>2, OutsideSelect
<1> QED
  BY <1>2, <1>3

(* The steps of eloop_run outside select().                                    *)
LEMMA RunKeeps ==
    ASSUME LoopInv, Run \/ EndRun \/ SelectFails \/ FireTimeout \/ Destroy
    PROVE  LoopInv'
<1>1. /\ UNCHANGED <<proc, place, wake>> /\ runs' \in Nat /\ terminate' \in BOOLEAN
      /\ pc \in {"app", "top", "timers"}
      /\ pc' \in {"app", "top", "timercb", "destroyed"}
      /\ pc' = "timercb" <=> pc = "timers"
  <2>1. runs \in Nat /\ terminate \in BOOLEAN
    BY DEF LoopInv, TypeOK
  <2>2. CASE Run
    BY <2>1, <2>2 DEF Run, signalVars, sockVars
  <2>3. CASE EndRun \/ SelectFails
    BY <2>1, <2>3 DEF EndRun, SelectFails, signalVars, sockVars
  <2>4. CASE FireTimeout \/ Destroy
    BY <2>1, <2>4 DEF FireTimeout, Destroy, signalVars, sockVars
  <2> QED
    BY <2>2, <2>3, <2>4
<1>2. TypeOK'
  BY <1>1 DEF LoopInv, TypeOK, PCs, S!At, G!At
<1> QED
  BY <1>1, <1>2, OutsideSelect

LEMMA SelectEnds ==
    ASSUME LoopInv, SelectReady \/ SelectTimesOut
    PROVE  LoopInv'
<1>1. /\ proc \in [at : G!Places, i : Nat] /\ proc' = [proc EXCEPT !.at = "check"]
      /\ place \in [at : {"away", "select", "between", "dispatch", "handler"}, t : Nat, i : Nat]
      /\ place' = [place EXCEPT !.at = "between"] \/ place' = [place EXCEPT !.at = "away"]
      /\ pc' = "signals" /\ UNCHANGED <<terminate, wake, runs>>
  BY DEF LoopInv, TypeOK, SelectReady, SelectTimesOut, S!SelectReady, S!SelectTimesOut,
         G!SelectReturns, G!Goto
<1>2. TypeOK'
  BY <1>1 DEF LoopInv, TypeOK, PCs, S!At, G!At, G!Places
<1> QED
  BY <1>1, <1>2, OutsideSelect

LEMMA ProcessKeeps ==
    ASSUME LoopInv, ProcessSignals
    PROVE  LoopInv'
<1>1. /\ proc \in [at : G!Places, i : Nat] /\ pc = "signals" /\ UNCHANGED <<place, terminate, wake, runs>>
      /\ pc' = IF proc'.at = "away" THEN "timers" ELSE "signals"
  BY DEF LoopInv, TypeOK, ProcessSignals, sockVars
<1>2. proc' \in [at : G!Places \ {"select"}, i : Nat]
  <2>1. CASE G!Check \/ G!Clear \/ G!StopAlarm \/ G!ClearTerminate
    BY <1>1, <2>1 DEF G!Check, G!Clear, G!StopAlarm, G!ClearTerminate, G!Goto, G!Places
  <2>2. CASE G!Reset \/ G!CallCallback
    BY <1>1, <2>2 DEF G!Reset, G!CallCallback, G!Goto, G!Places
  <2>3. CASE G!Scan
    <3>1. proc.at = "scan"
      BY <2>3 DEF G!Scan, G!At
    <3> QED
      BY <1>1, <2>3, <3>1 DEF G!Scan, G!Places
  <2>4. CASE G!CallbackReturns
    BY <1>1, <2>4 DEF G!CallbackReturns, G!Places
  <2> QED
    BY <2>1, <2>2, <2>3, <2>4 DEF ProcessSignals, G!Process
<1>3. TypeOK'
  BY <1>1, <1>2 DEF LoopInv, TypeOK, PCs, S!At, G!At, G!Places
<1> QED
  BY <1>1, <1>3, OutsideSelect

(* The start of a dispatch finds a table, since there is one.                   *)
LEMMA AfterTimeoutKeeps ==
    ASSUME LoopInv, NoTimeout \/ TimeoutReturns
    PROVE  LoopInv'
<1>1. /\ UNCHANGED <<proc, terminate, wake, runs>> /\ AfterTimeout /\ pc \in {"timers", "timercb"}
  BY DEF NoTimeout, TimeoutReturns, signalVars
<1>2. CASE S!At("away") /\ pc' = "top" /\ UNCHANGED sockVars
  <2>1. TypeOK'
    BY <1>1, <1>2 DEF LoopInv, TypeOK, PCs, S!At, G!At, sockVars
  <2> QED
    BY <1>2, <2>1, OutsideSelect
<1>3. CASE S!BeginDispatch /\ pc' = "dispatch"
  <2>1. place' = [at |-> "dispatch", t |-> 1, i |-> 1]
    BY <1>3, OrderNonempty DEF S!BeginDispatch, S!Dispatch
  <2>2. TypeOK'
    BY <1>1, <1>3, <2>1 DEF LoopInv, TypeOK, PCs, S!At, G!At
  <2> QED
    BY <1>3, <2>2, OutsideSelect
<1> QED
  BY <1>1, <1>2, <1>3 DEF AfterTimeout

LEMMA DispatchKeeps ==
    ASSUME LoopInv, DispatchSocks
    PROVE  LoopInv'
<1>1. /\ UNCHANGED <<proc, terminate, wake, runs>> /\ pc = "dispatch"
      /\ pc' = IF place'.at = "away" THEN "top" ELSE "dispatch"
      /\ place \in [at : {"away", "select", "between", "dispatch", "handler"}, t : Nat, i : Nat]
      /\ place.at \in {"dispatch", "handler"}
  BY DEF LoopInv, TypeOK, DispatchSocks, signalVars
<1>2. place' \in [at : {"away", "dispatch", "handler"}, t : Nat, i : Nat]
  <2>1. CASE S!SkipEntry \/ S!CallHandler
    BY <1>1, <2>1 DEF S!SkipEntry, S!CallHandler
  <2>2. ASSUME S!Dispatch(place.t + 1)
        PROVE  place' \in [at : {"away", "dispatch", "handler"}, t : Nat, i : Nat]
    BY <1>1, <2>2 DEF S!Dispatch
  <2>3. CASE S!EndTable
    BY <2>2, <2>3 DEF S!EndTable
  <2>4. CASE S!HandlerReturns
    <3>1. S!Dispatch(place.t + 1) \/ place' = [place EXCEPT !.at = "dispatch", !.i = @ + 1]
      BY <2>4 DEF S!HandlerReturns
    <3>2. CASE place' = [place EXCEPT !.at = "dispatch", !.i = @ + 1]
      <4>1. place' = [at |-> "dispatch", t |-> place.t, i |-> place.i + 1]
        BY <1>1, <3>2
      <4>2. place.t \in Nat /\ place.i + 1 \in Nat
        BY <1>1
      <4> QED
        BY <4>1, <4>2
    <3> QED
      BY <2>2, <3>1, <3>2
  <2> QED
    BY <2>1, <2>3, <2>4 DEF DispatchSocks
<1>3. TypeOK'
  BY <1>1, <1>2 DEF LoopInv, TypeOK, PCs, S!At, G!At
<1> QED
  BY <1>1, <1>3, OutsideSelect

LEMMA LoopInit == Init => LoopInv
<1> SUFFICES ASSUME Init
             PROVE  LoopInv
  OBVIOUS
<1>1. pc = "app" /\ terminate = FALSE /\ wake = Never /\ runs = 0
  BY DEF Init
<1>2. proc = [at |-> "away", i |-> 1] /\ place = [at |-> "away", t |-> 1, i |-> 1]
  BY DEF Init, G!Init, S!Init
<1> QED
  BY <1>1, <1>2 DEF LoopInv, TypeOK, WakesForEarliest, PCs, S!At, G!At, G!Places

LEMMA LoopNext == LoopInv /\ TP!DatedInv /\ [Next]_vars => LoopInv'
<1> SUFFICES ASSUME LoopInv, TP!DatedInv, [Next]_vars
             PROVE  LoopInv'
  OBVIOUS
<1>1. CASE AlarmRings \/ \E e \in S!Event : Arrive(e)
  <2>1. UNCHANGED <<timeout, now, proc, place, pc, terminate, wake, runs>>
    BY <1>1 DEF AlarmRings, Arrive, G!AlarmRings, S!Arrive, timerVars, signalVars, sockVars, loopVars
  <2>2. TypeOK'
    BY <2>1 DEF LoopInv, TypeOK, S!At, G!At
  <2> QED
    BY <2>1, <2>2, InSelect
<1>2. CASE UNCHANGED vars
  <2>1. UNCHANGED <<timeout, now, proc, place, pc, terminate, wake, runs>>
    BY <1>2 DEF vars, timerVars, signalVars, sockVars, loopVars
  <2>2. TypeOK'
    BY <2>1 DEF LoopInv, TypeOK, S!At, G!At
  <2> QED
    BY <2>1, <2>2, InSelect
<1> QED
  BY <1>1, <1>2, CallsKeep, SignalKeeps, TickKeeps, RunKeeps, SleepKeeps, SelectEnds, ProcessKeeps,
     AfterTimeoutKeeps, DispatchKeeps DEF Next, Loop

(* select() is never told to sleep past a deadline, though eloop_run looks only  *)
(* at the head of the list, whatever the delays: those that casts to int spoil   *)
(* are sorted by what the casts made of them, which is never later.              *)
THEOREM LoopHolds == Spec => []LoopInv
  BY LoopInit, LoopNext, KeepsDated, PTL DEF Spec

(* eloop_run does not return on its own while something is registered, but when  *)
(* the microseconds of the first timeout are negative.                          *)
THEOREM RunsOn == Spec => RunsWhileRegistered
<1> DEFINE Ends == pc \notin {"app", "destroyed"} /\ pc' = "app" =>
                      \/ terminate
                      \/ timeout = << >> /\ \A t \in Types : table[t] = << >>
                      \/ timeout # << >> /\ timeout[1].time.usec < 0
<1>1. LoopInv /\ TP!DatedInv /\ [Next]_vars => [Ends]_vars
  <2> SUFFICES ASSUME LoopInv, TP!DatedInv, Next, pc \notin {"app", "destroyed"}, pc' = "app"
               PROVE  \/ terminate
                      \/ timeout = << >> /\ \A t \in Types : table[t] = << >>
                      \/ timeout # << >> /\ timeout[1].time.usec < 0
    OBVIOUS
  <2>1. EndRun \/ SelectFails
    BY DEF Next, Loop, TimeoutCall, SocketCall, SignalCall, SignalCallEnds, Terminate, Signal,
           AlarmRings, Arrive, Tick, Run, Destroy, Sleep, SelectReady, SelectTimesOut,
           ProcessSignals, FireTimeout, NoTimeout, TimeoutReturns, AfterTimeout, DispatchSocks,
           loopVars
  <2>2. CASE EndRun
    BY <2>2 DEF EndRun, Continues, Registered
  <2>3. CASE SelectFails
    <3>1. timeout # << >> /\ (Tv.sec < 0 \/ Tv.usec < 0)
      BY <2>3 DEF SelectFails
    <3>2. timeout[1].time \in TP!RelTime /\ now \in TP!ClockTime
      <4>1. timeout \in Seq(TP!Timer) /\ now \in TP!ClockTime
        BY DEF TP!DatedInv, TP!OrderInv, TP!TypeOK
      <4>2. timeout[1] \in TP!Timer
        BY <3>1, <4>1
      <4> QED
        BY <4>1, <4>2 DEF TP!Timer
    <3>3. Tv = TP!Remaining(timeout[1].time, now)
      BY DEF Tv, T!Remaining, TP!Remaining, T!Before, TP!Before, T!Sub, TP!Sub, T!Zero, TP!Zero
    <3> HIDE DEF Tv
    <3> QED
      BY <3>1, <3>2, <3>3, ListAssumptions, TP!NegativeSleep
  <2> QED
    BY <2>1, <2>2, <2>3
<1> QED
  BY <1>1, LoopHolds, KeepsDated, PTL DEF Spec, RunsWhileRegistered

(* What is proved of the parts on their own, the loop keeps all at once: the     *)
(* list in order, no signal forgotten and no owed terminate signal without the   *)
(* alarm, every registered socket in the arguments of select().                 *)
THEOREM KeepsParts ==
    ASSUME TRUE \notin ReallocMoves
    PROVE  Spec => [](TP!OrderInv /\ GP!SignalInv /\ GP!OwedTerminateIsTimed /\ SP!TablesInv)
<1>1. TP!Spec => []TP!OrderInv
  BY ListAssumptions, TP!OrderHolds
<1>2. GP!Spec => []GP!SignalInv
  BY SignalAssumptions, GP!SignalInvHolds
<1>3. GP!Spec => []GP!OwedTerminateIsTimed
  BY SignalAssumptions, GP!TerminateSignalsAreTimed
<1>4. SP!Spec => []SP!TablesInv
  BY TableAssumptions, SP!SelectWatches
<1> QED
  BY <1>1, <1>2, <1>3, <1>4, ImplementsParts, SameSpec, SameSignals, SameTables, PTL
     DEF PartsImplemented, TimeoutsImplemented, SignalsImplemented, SocksImplemented

(* The loop fires the timeouts in the order they are due, and none too early, if  *)
(* the delays fit an int; and one return of select() calls each callback of a     *)
(* ready socket, and none twice, if no descriptor is registered twice.           *)
THEOREM ServesInOrder ==
    ASSUME \A d \in Delays : TP!FitsInt(d), ~ Duplicates
    PROVE  Spec => TP!FiresEarliestDue /\ SP!DispatchIsExact
<1>1. TP!Spec => TP!FiresEarliestDue
  BY ListAssumptions, TP!FiresInOrder
<1>2. SP!Spec => SP!DispatchIsExact
  BY TableAssumptions, SP!DispatchExact
<1> QED
  BY <1>1, <1>2, ImplementsTimeouts, ImplementsSocks, SameSpec, SameTables, PTL
     DEF TimeoutsImplemented, SocksImplemented
==========================================================================
