----------------------- MODULE EloopSignalsProofs -----------------------
(***************************************************************************)
(* Proofs about EloopSignals, for every set of signals, any number of      *)
(* entries and any number of signals, when realloc extends the table in    *)
(* place (TRUE \notin ReallocMoves; with a move the invariant fails).      *)
(***************************************************************************)
EXTENDS EloopSignals, TLAPS

LEMMA SignalInit == Init => SignalInv
<1> SUFFICES ASSUME Init
             PROVE  SignalInv
  OBVIOUS
<1>1. TypeOK
  <2>1. signals \in Seq(Entry) /\ installed \subseteq Sigs /\ owed \subseteq Sigs
    BY DEF Init
  <2>2. growing \in Growing \cup {NotGrowing}
    BY DEF Init
  <2>3. {pending_terminate, alarm, killed} \subseteq BOOLEAN
    BY DEF Init
  <2>4. /\ proc \in [at : Places, i : Nat \ {0}]
        /\ proc.at \notin {"reset", "call", "callback"}
    BY DEF Init, Places
  <2>5. signaled \in Nat /\ raised \in Nat
    BY DEF Init
  <2> QED
    BY <2>1, <2>2, <2>3, <2>4, <2>5 DEF TypeOK
<1>2. EntriesFound /\ NoSignalForgotten /\ TerminateIsTimed /\ OwedIsTimedOrCalled
  BY DEF Init, EntriesFound, NoSignalForgotten, TerminateIsTimed, OwedIsTimedOrCalled
<1> QED
  BY <1>1, <1>2 DEF Init, SignalInv, NotGrowing

(* Steps of the main thread that change only its place.                        *)
LEMMA MoveKeepsSignalInv ==
    ASSUME SignalInv,
           EnterSelect \/ SelectReturns \/ Check \/ Scan \/ CallbackReturns
    PROVE  SignalInv'
<1>1. UNCHANGED <<signals, installed, growing, signaled, pending_terminate, alarm,
                  killed, owed, raised>>
  BY DEF EnterSelect, SelectReturns, Check, Scan, CallbackReturns
<1>2. TypeOK'
  BY <1>1 DEF SignalInv, TypeOK, EnterSelect, SelectReturns, Check, Scan,
              CallbackReturns, Goto, At, Places
<1>3. EntriesFound'
  BY <1>1 DEF SignalInv, EntriesFound, Slot
<1>4. \A sig : \A i \in Slot(signals, sig) : i \in DOMAIN signals /\ i \in 1 .. Len(signals)
  BY DEF Slot, SignalInv, TypeOK
<1>5. ASSUME NEW sig \in owed
      PROVE  \E i \in Slot(signals, sig) :
                \/ MarkedForGood(i)'
                \/ (proc.at \in {"reset", "call"} /\ proc.i = i)'
  <2>1. PICK i \in Slot(signals, sig) :
            \/ MarkedForGood(i)
            \/ proc.at \in {"reset", "call"} /\ proc.i = i
    BY DEF SignalInv, NoSignalForgotten
  <2>2. i \in 1 .. Len(signals) /\ signals[i] \in Entry
    BY <1>4, <2>1 DEF SignalInv, TypeOK
  <2> QED
    BY <1>1, <2>1, <2>2
       DEF MarkedForGood, StillToTest, SignalInv, TypeOK, EnterSelect, SelectReturns,
           Check, Scan, CallbackReturns, Goto, At, Entry
<1>6. NoSignalForgotten'
  BY <1>1, <1>5 DEF NoSignalForgotten, Slot
<1>7. TerminateIsTimed'
  BY <1>1 DEF SignalInv, TerminateIsTimed, EnterSelect, SelectReturns, Check, Scan,
              CallbackReturns, Goto, At
<1>8. ASSUME NEW sig \in owed \cap TermSigs
      PROVE  alarm \/ killed \/ \E i \in Slot(signals, sig) : CalledThisRound(i)'
  <2>1. CASE alarm \/ killed
    BY <2>1
  <2>2. CASE \E i \in Slot(signals, sig) : CalledThisRound(i)
    <3>1. PICK i \in Slot(signals, sig) : CalledThisRound(i)
      BY <2>2
    <3>2. i \in 1 .. Len(signals) /\ signals[i] \in Entry
      BY <1>4, <3>1 DEF SignalInv, TypeOK
    <3> QED
      BY <1>1, <3>1, <3>2
         DEF CalledThisRound, StillToTest, SignalInv, TypeOK, EnterSelect,
             SelectReturns, Check, Scan, CallbackReturns, Goto, At, Entry
  <2> QED
    BY <2>1, <2>2 DEF SignalInv, OwedIsTimedOrCalled
<1>9. OwedIsTimedOrCalled'
  BY <1>1, <1>8 DEF OwedIsTimedOrCalled, Slot
<1>10. (proc.at \in {"alarm", "term"} => proc.i = 1)'
  BY DEF SignalInv, TypeOK, EnterSelect, SelectReturns, Check, Scan,
         CallbackReturns, Goto, At
<1> QED
  BY <1>1, <1>2, <1>3, <1>6, <1>7, <1>9, <1>10 DEF SignalInv

(* A step that only grows the table, by an entry at its end.                   *)
LEMMA RegisterBeginKeeps ==
    ASSUME TRUE \notin ReallocMoves, SignalInv, NEW sig \in Sigs, RegisterBegin(sig)
    PROVE  SignalInv'
<1>1. UNCHANGED <<signals, installed, signaled, pending_terminate, alarm, proc,
                  killed, owed, raised>>
  BY DEF RegisterBegin
<1>2. PICK moves \in ReallocMoves :
        growing' = [on |-> TRUE, moved |-> moves, sig |-> sig, tmp |-> signals]
  BY DEF RegisterBegin
<1>3. moves = FALSE
  BY SignalAssumption
<1>4. growing' \in Growing
  BY <1>2, <1>3 DEF Growing, SignalInv, TypeOK
<1>5. TypeOK'
  BY <1>1, <1>4 DEF SignalInv, TypeOK
<1> QED
  BY <1>1, <1>2, <1>3, <1>5
     DEF SignalInv, EntriesFound, Slot, NoSignalForgotten, MarkedForGood, StillToTest,
         TerminateIsTimed, At, OwedIsTimedOrCalled, CalledThisRound

LEMMA RegisterEndKeeps ==
    ASSUME SignalInv, RegisterEnd
    PROVE  SignalInv'
<1> DEFINE e == [sig |-> growing.sig, signaled |-> 0]
           n == Len(signals)
<1>1. /\ UNCHANGED <<signaled, pending_terminate, alarm, proc, killed, owed, raised>>
      /\ signals' = Append(signals, e)
      /\ installed' = installed \cup {growing.sig}
      /\ growing' = NotGrowing
      /\ growing.on
  BY DEF RegisterEnd, SignalInv
<1>2. signals \in Seq(Entry) /\ e \in Entry /\ growing.sig \in Sigs
  <2>1. growing # NotGrowing
    BY <1>1 DEF NotGrowing
  <2>2. growing \in Growing
    BY <2>1 DEF SignalInv, TypeOK
  <2>3. growing.sig \in Sigs
    BY <2>2 DEF Growing
  <2> QED
    BY <2>3 DEF SignalInv, TypeOK, Entry
<1> HIDE DEF e
<1>3. /\ signals' \in Seq(Entry)
      /\ DOMAIN signals' = 1 .. n + 1
      /\ DOMAIN signals = 1 .. n
      /\ n \in Nat
      /\ \A i \in 1 .. n : signals'[i] = signals[i]
      /\ signals'[n + 1] = e
  BY <1>1, <1>2
<1>4. e.sig = growing.sig
  BY DEF e
<1>5. TypeOK'
  BY <1>1, <1>2, <1>3 DEF SignalInv, TypeOK
<1>6. \A s : Slot(signals, s) \subseteq Slot(signals', s)
  BY <1>3 DEF Slot
<1>7. ASSUME NEW s \in Sigs, s = growing.sig
      PROVE  Slot(signals', s) # {}
  <2>1. CASE \E i \in 1 .. n : signals[i].sig = s
    BY <2>1, <1>3, <1>6 DEF SignalInv, EntriesFound
  <2>2. CASE ~ \E i \in 1 .. n : signals[i].sig = s
    <3>1. n + 1 \in Slot(signals', s)
      BY <2>2, <1>3, <1>4, <1>7 DEF Slot
    <3> QED
      BY <3>1
  <2> QED
    BY <2>1, <2>2
<1>8. EntriesFound'
  <2>1. ASSUME NEW i \in 1 .. n + 1
        PROVE  Slot(signals', signals'[i].sig) # {}
    <3>1. CASE i \in 1 .. n
      BY <3>1, <1>3, <1>6 DEF SignalInv, EntriesFound
    <3>2. CASE i = n + 1
      BY <3>2, <1>2, <1>3, <1>4, <1>7
    <3> QED
      BY <3>1, <3>2, <1>3
  <2>2. \A s \in installed' : Slot(signals', s) # {}
    BY <1>1, <1>2, <1>6, <1>7 DEF SignalInv, EntriesFound
  <2> QED
    BY <2>1, <2>2, <1>3 DEF EntriesFound
<1>9. \A s : \A i \in Slot(signals, s) : i \in 1 .. n
  BY <1>3 DEF Slot
<1>10. NoSignalForgotten'
  <2>1. \A i \in 1 .. n : MarkedForGood(i) => MarkedForGood(i)'
    BY <1>1, <1>3 DEF MarkedForGood, StillToTest
  <2> QED
    BY <2>1, <1>1, <1>6, <1>9 DEF SignalInv, NoSignalForgotten
<1>11. OwedIsTimedOrCalled'
  <2>1. \A i \in 1 .. n : CalledThisRound(i) => CalledThisRound(i)'
    BY <1>1, <1>3 DEF CalledThisRound, StillToTest
  <2> QED
    BY <2>1, <1>1, <1>6, <1>9 DEF SignalInv, OwedIsTimedOrCalled
<1>12. TerminateIsTimed'
  BY <1>1 DEF SignalInv, TerminateIsTimed, At
<1> QED
  BY <1>1, <1>5, <1>8, <1>10, <1>11, <1>12 DEF SignalInv, NotGrowing

(* A signal finds its first entry and marks it; the other marks stay.          *)
LEMMA RaiseKeeps ==
    ASSUME SignalInv, NEW sig \in Sigs, Raise(sig)
    PROVE  SignalInv'
<1>1. /\ sig \in installed
      /\ signaled' = signaled + 1
      /\ owed' = owed \cup {sig}
      /\ raised' = raised + 1
      /\ proc' = IF At("select") THEN [proc EXCEPT !.at = "check"] ELSE proc
      /\ UNCHANGED <<installed, growing, killed>>
      /\ signals' = [i \in DOMAIN signals |->
                        IF i \in Slot(signals, sig)
                        THEN [signals[i] EXCEPT !.signaled = @ + 1] ELSE signals[i]]
  BY DEF Raise
<1>2. IF sig \in TermSigs /\ ~ pending_terminate
      THEN pending_terminate' = TRUE /\ alarm' = TRUE
      ELSE UNCHANGED <<pending_terminate, alarm>>
  BY DEF Raise
<1>3. signals \in Seq(Entry) /\ DOMAIN signals = 1 .. Len(signals) /\ Len(signals) \in Nat
  BY DEF SignalInv, TypeOK
<1>4. ASSUME NEW i \in 1 .. Len(signals)
      PROVE  /\ signals'[i] \in Entry
             /\ signals'[i].sig = signals[i].sig
             /\ signals[i].signaled > 0 => signals'[i].signaled > 0
             /\ i \in Slot(signals, sig) => signals'[i].signaled > 0
  <2>1. signals[i] \in Entry
    BY <1>3
  <2> QED
    BY <2>1, <1>1, <1>3 DEF Entry
<1>5. signals' \in Seq(Entry) /\ DOMAIN signals' = DOMAIN signals
  <2>1. signals' \in [1 .. Len(signals) -> Entry]
    BY <1>1, <1>3, <1>4
  <2> QED
    BY <2>1, <1>3
<1>6. \A s : Slot(signals', s) = Slot(signals, s)
  BY <1>3, <1>4, <1>5 DEF Slot
<1>7. \A s : \A i \in Slot(signals, s) : i \in 1 .. Len(signals)
  BY <1>3 DEF Slot
<1>8. TypeOK'
  <2>1. {pending_terminate', alarm', killed'} \subseteq BOOLEAN
    BY <1>1, <1>2 DEF SignalInv, TypeOK
  <2>2. /\ proc' \in [at : Places, i : Nat \ {0}]
        /\ proc'.at \in {"reset", "call", "callback"} => proc'.i \in DOMAIN signals
    BY <1>1 DEF SignalInv, TypeOK, At, Places
  <2>3. signaled' \in Nat /\ raised' \in Nat /\ owed' \subseteq Sigs
    BY <1>1 DEF SignalInv, TypeOK
  <2>4. installed' \subseteq Sigs /\ growing' \in Growing \cup {NotGrowing}
    BY <1>1 DEF SignalInv, TypeOK
  <2> QED
    BY <1>5, <2>1, <2>2, <2>3, <2>4 DEF TypeOK
<1>9. EntriesFound'
  BY <1>1, <1>3, <1>4, <1>5, <1>6 DEF SignalInv, EntriesFound
<1>10. signaled' > 0
  BY <1>1 DEF SignalInv, TypeOK
<1>11. PICK j \in Slot(signals, sig) : TRUE
  BY <1>1 DEF SignalInv, EntriesFound
<1>12. MarkedForGood(j)'
  BY <1>4, <1>7, <1>10, <1>11 DEF MarkedForGood
<1>13. NoSignalForgotten'
  <2>1. ASSUME NEW s \in owed
        PROVE  \E i \in Slot(signals, s) :
                  \/ MarkedForGood(i)'
                  \/ (proc.at \in {"reset", "call"} /\ proc.i = i)'
    <3>1. PICK i \in Slot(signals, s) :
              \/ MarkedForGood(i)
              \/ proc.at \in {"reset", "call"} /\ proc.i = i
      BY DEF SignalInv, NoSignalForgotten
    <3>2. MarkedForGood(i) => MarkedForGood(i)'
      BY <1>4, <1>7, <1>10, <3>1 DEF MarkedForGood
    <3> QED
      BY <3>1, <3>2, <1>1 DEF At
  <2> QED
    BY <2>1, <1>1, <1>6, <1>11, <1>12 DEF NoSignalForgotten
<1>14. TerminateIsTimed'
  BY <1>1, <1>2 DEF SignalInv, TypeOK, TerminateIsTimed, At
<1>15. OwedIsTimedOrCalled'
  <2>1. alarm => alarm'
    BY <1>2
  <2>2. ASSUME NEW s \in owed \cap TermSigs
        PROVE  alarm' \/ killed' \/ \E i \in Slot(signals, s) : CalledThisRound(i)'
    <3>1. CASE alarm \/ killed
      BY <3>1, <2>1, <1>1
    <3>2. CASE \E i \in Slot(signals, s) : CalledThisRound(i)
      <4>1. PICK i \in Slot(signals, s) : CalledThisRound(i)
        BY <3>2
      <4>2. CalledThisRound(i)'
        BY <4>1, <1>1, <1>4, <1>7 DEF CalledThisRound, StillToTest, At
      <4> QED
        BY <4>1, <4>2
    <3> QED
      BY <3>1, <3>2 DEF SignalInv, OwedIsTimedOrCalled
  <2>3. ASSUME sig \in TermSigs
        PROVE  alarm' \/ killed' \/ \E i \in Slot(signals, sig) : CalledThisRound(i)'
    <3>1. CASE ~ pending_terminate
      BY <3>1, <2>3, <1>2
    <3>2. CASE pending_terminate /\ (alarm \/ killed)
      BY <3>2, <2>1, <1>1
    <3>3. CASE At("term")
      <4>1. CalledThisRound(j)'
        BY <3>3, <1>1, <1>4, <1>7, <1>11 DEF CalledThisRound, StillToTest, At
      <4> QED
        BY <4>1, <1>11
    <3> QED
      BY <3>1, <3>2, <3>3 DEF SignalInv, TerminateIsTimed
  <2> QED
    BY <2>2, <2>3, <1>1, <1>6 DEF OwedIsTimedOrCalled
<1>16. (proc.at \in {"alarm", "term"} => proc.i = 1)'
  BY <1>1 DEF SignalInv, At
<1> QED
  BY <1>1, <1>8, <1>9, <1>13, <1>14, <1>15, <1>16 DEF SignalInv

(* eloop.signaled is cleared while every mark is still to be tested.           *)
LEMMA ClearKeeps ==
    ASSUME SignalInv, Clear
    PROVE  SignalInv'
<1>1. /\ UNCHANGED <<signals, installed, growing, pending_terminate, alarm, killed,
                     owed, raised>>
      /\ signaled' = 0
      /\ proc' = [at |-> "alarm", i |-> 1]
      /\ proc.at = "clear"
  BY DEF Clear, At
<1>2. TypeOK'
  BY <1>1 DEF SignalInv, TypeOK, Places
<1>3. EntriesFound'
  BY <1>1 DEF SignalInv, EntriesFound, Slot
<1>4. NoSignalForgotten'
  BY <1>1 DEF SignalInv, NoSignalForgotten, MarkedForGood, StillToTest, Slot
<1>5. OwedIsTimedOrCalled'
  BY <1>1 DEF SignalInv, OwedIsTimedOrCalled, CalledThisRound, StillToTest, Slot
<1>6. TerminateIsTimed'
  BY <1>1 DEF SignalInv, TerminateIsTimed, At
<1> QED
  BY <1>1, <1>2, <1>3, <1>4, <1>5, <1>6 DEF SignalInv

(* The alarm is stopped while every mark is still to be tested.                *)
LEMMA StopAlarmKeeps ==
    ASSUME SignalInv, StopAlarm
    PROVE  SignalInv'
<1>1. /\ UNCHANGED <<signals, installed, growing, signaled, pending_terminate, killed,
                     owed, raised>>
      /\ proc.at = "alarm"
      /\ proc.i = 1
  BY DEF StopAlarm, At, SignalInv
<1>2. \/ pending_terminate /\ alarm' = FALSE /\ proc' = [proc EXCEPT !.at = "term"]
      \/ ~ pending_terminate /\ alarm' = alarm /\ proc' = [proc EXCEPT !.at = "scan"]
  BY DEF StopAlarm, Goto
<1>3. proc' \in [at : {"term", "scan"}, i : {1}]
  BY <1>1, <1>2 DEF SignalInv, TypeOK
<1>4. TypeOK'
  <2>1. {pending_terminate', alarm', killed'} \subseteq BOOLEAN
    BY <1>1, <1>2 DEF SignalInv, TypeOK
  <2> QED
    BY <1>1, <1>3, <2>1 DEF SignalInv, TypeOK, Places
<1>5. EntriesFound'
  BY <1>1 DEF SignalInv, EntriesFound, Slot
<1>6. ASSUME NEW sig \in owed
      PROVE  \E i \in Slot(signals, sig) : MarkedForGood(i)' /\ CalledThisRound(i)'
  <2>1. PICK i \in Slot(signals, sig) : MarkedForGood(i)
    BY <1>1 DEF SignalInv, NoSignalForgotten
  <2>2. i \in 1 .. Len(signals) /\ signals[i].signaled > 0
    BY <2>1 DEF Slot, MarkedForGood, SignalInv, TypeOK
  <2>3. StillToTest(i)'
    BY <1>3, <2>2 DEF StillToTest
  <2> QED
    BY <1>1, <2>1, <2>2, <2>3 DEF MarkedForGood, CalledThisRound
<1>7. NoSignalForgotten' /\ OwedIsTimedOrCalled'
  BY <1>1, <1>6 DEF NoSignalForgotten, OwedIsTimedOrCalled, Slot
<1>8. TerminateIsTimed'
  BY <1>1, <1>2, <1>3 DEF SignalInv, TypeOK, TerminateIsTimed, At
<1> QED
  BY <1>1, <1>3, <1>4, <1>5, <1>7, <1>8 DEF SignalInv

LEMMA ClearTerminateKeeps ==
    ASSUME SignalInv, ClearTerminate
    PROVE  SignalInv'
<1>1. /\ UNCHANGED <<signals, installed, growing, signaled, alarm, killed, owed, raised>>
      /\ pending_terminate' = FALSE
      /\ proc' = [proc EXCEPT !.at = "scan"]
      /\ proc.at = "term"
      /\ proc.i = 1
  BY DEF ClearTerminate, At, Goto, SignalInv
<1>2. proc' \in [at : {"scan"}, i : {1}]
  BY <1>1 DEF SignalInv, TypeOK
<1>3. TypeOK'
  <2>1. {pending_terminate', alarm', killed'} \subseteq BOOLEAN
    BY <1>1 DEF SignalInv, TypeOK
  <2> QED
    BY <1>1, <1>2, <2>1 DEF SignalInv, TypeOK, Places
<1>4. EntriesFound'
  BY <1>1 DEF SignalInv, EntriesFound, Slot
<1>5. \A s : \A i \in Slot(signals, s) : i \in 1 .. Len(signals)
  BY DEF Slot, SignalInv, TypeOK
<1>6. \A i \in 1 .. Len(signals) : StillToTest(i) => StillToTest(i)'
  BY <1>1, <1>2 DEF StillToTest
<1>7. NoSignalForgotten'
  BY <1>1, <1>2, <1>5, <1>6 DEF SignalInv, NoSignalForgotten, MarkedForGood, Slot
<1>8. OwedIsTimedOrCalled'
  BY <1>1, <1>2, <1>5, <1>6 DEF SignalInv, OwedIsTimedOrCalled, CalledThisRound, Slot
<1>9. TerminateIsTimed'
  BY <1>1 DEF TerminateIsTimed
<1> QED
  BY <1>1, <1>2, <1>3, <1>4, <1>7, <1>8, <1>9 DEF SignalInv

(* The loop clears one mark, and is about to call its callback.                *)
LEMMA ResetKeeps ==
    ASSUME SignalInv, Reset
    PROVE  SignalInv'
<1> DEFINE n == proc.i
<1>1. /\ UNCHANGED <<installed, growing, signaled, pending_terminate, alarm, killed,
                     owed, raised>>
      /\ signals' = [signals EXCEPT ![n].signaled = 0]
      /\ proc' = [proc EXCEPT !.at = "call"]
      /\ proc.at = "reset"
  BY DEF Reset, At, Goto
<1>2. /\ signals \in Seq(Entry) /\ n \in DOMAIN signals /\ n \in Nat
      /\ DOMAIN signals = 1 .. Len(signals)
  BY <1>1 DEF SignalInv, TypeOK
<1>3. proc' \in [at : {"call"}, i : {n}]
  BY <1>1 DEF SignalInv, TypeOK
<1>4. \A i \in DOMAIN signals : /\ signals'[i] \in Entry
                                /\ signals'[i].sig = signals[i].sig
                                /\ i # n => signals'[i] = signals[i]
  <2> SUFFICES ASSUME NEW i \in DOMAIN signals
               PROVE  /\ signals'[i] \in Entry
                      /\ signals'[i].sig = signals[i].sig
                      /\ i # n => signals'[i] = signals[i]
    OBVIOUS
  <2>1. signals[i] \in Entry
    BY <1>2
  <2>2. signals'[i] = IF i = n THEN [signals[i] EXCEPT !.signaled = 0] ELSE signals[i]
    BY <1>1, <1>2
  <2> QED
    BY <2>1, <2>2 DEF Entry
<1>5. DOMAIN signals' = DOMAIN signals /\ signals' \in Seq(Entry)
  <2>1. signals' \in [1 .. Len(signals) -> Entry]
    BY <1>1, <1>2, <1>4
  <2> QED
    BY <2>1, <1>2
<1>6. \A s : Slot(signals', s) = Slot(signals, s)
  BY <1>2, <1>4, <1>5 DEF Slot
<1>7. TypeOK'
  BY <1>1, <1>2, <1>3, <1>5 DEF SignalInv, TypeOK, Places
<1>8. EntriesFound'
  BY <1>1, <1>4, <1>5, <1>6 DEF SignalInv, EntriesFound
<1>9. \A s : \A i \in Slot(signals, s) : i \in DOMAIN signals /\ i \in Nat
  BY <1>2 DEF Slot
<1>10. ASSUME NEW i \in DOMAIN signals, i # n
       PROVE  /\ MarkedForGood(i) => MarkedForGood(i)'
              /\ CalledThisRound(i) => CalledThisRound(i)'
  BY <1>1, <1>2, <1>3, <1>4, <1>10 DEF MarkedForGood, CalledThisRound, StillToTest
<1>11. NoSignalForgotten'
  BY <1>1, <1>3, <1>6, <1>9, <1>10 DEF SignalInv, NoSignalForgotten
<1>12. OwedIsTimedOrCalled'
  <2>1. \A i \in DOMAIN signals : CalledThisRound(i) => CalledThisRound(i)'
    BY <1>3, <1>10 DEF CalledThisRound
  <2> QED
    BY <2>1, <1>1, <1>6, <1>9 DEF SignalInv, OwedIsTimedOrCalled
<1>13. TerminateIsTimed'
  BY <1>1, <1>3 DEF SignalInv, TerminateIsTimed, At
<1> QED
  BY <1>1, <1>3, <1>7, <1>8, <1>11, <1>12, <1>13 DEF SignalInv

(* The callback that begins is that of the first entry of its signal, or of a  *)
(* later one, whose signal may still be owed: then its first entry is marked.   *)
LEMMA CallCallbackKeeps ==
    ASSUME SignalInv, CallCallback
    PROVE  SignalInv'
<1> DEFINE n == proc.i
<1>1. /\ UNCHANGED <<signals, installed, growing, signaled, pending_terminate, alarm,
                     killed, raised>>
      /\ owed' = owed \ {signals[n].sig}
      /\ proc' = [proc EXCEPT !.at = "callback"]
      /\ proc.at = "call"
  BY DEF CallCallback, At, Goto
<1>2. /\ signals \in Seq(Entry) /\ n \in DOMAIN signals /\ n \in Nat
      /\ DOMAIN signals = 1 .. Len(signals)
  BY <1>1 DEF SignalInv, TypeOK
<1>3. proc' \in [at : {"callback"}, i : {n}]
  BY <1>1 DEF SignalInv, TypeOK
<1>4. TypeOK'
  BY <1>1, <1>2, <1>3 DEF SignalInv, TypeOK, Places
<1>5. EntriesFound'
  BY <1>1 DEF SignalInv, EntriesFound, Slot
<1>6. ASSUME NEW sig \in owed', NEW i \in Slot(signals, sig)
      PROVE  i # n /\ i \in DOMAIN signals
  BY <1>1, <1>6 DEF Slot
<1>7. ASSUME NEW i \in DOMAIN signals, i # n
      PROVE  /\ MarkedForGood(i) => MarkedForGood(i)'
             /\ CalledThisRound(i) => CalledThisRound(i)'
  BY <1>1, <1>2, <1>3, <1>7 DEF MarkedForGood, CalledThisRound, StillToTest
<1>8. NoSignalForgotten'
  <2> SUFFICES ASSUME NEW sig \in owed'
               PROVE  \E i \in Slot(signals, sig) : MarkedForGood(i)'
    BY <1>1 DEF NoSignalForgotten, Slot
  <2>1. sig \in owed
    BY <1>1
  <2>2. PICK i \in Slot(signals, sig) :
            \/ MarkedForGood(i)
            \/ proc.at \in {"reset", "call"} /\ proc.i = i
    BY <2>1 DEF SignalInv, NoSignalForgotten
  <2> QED
    BY <2>2, <1>6, <1>7
<1>9. OwedIsTimedOrCalled'
  <2> SUFFICES ASSUME NEW sig \in owed' \cap TermSigs
               PROVE  alarm \/ killed \/ \E i \in Slot(signals, sig) : CalledThisRound(i)'
    BY <1>1 DEF OwedIsTimedOrCalled, Slot
  <2>1. sig \in owed \cap TermSigs
    BY <1>1
  <2>2. alarm \/ killed \/ \E i \in Slot(signals, sig) : CalledThisRound(i)
    BY <2>1 DEF SignalInv, OwedIsTimedOrCalled
  <2> QED
    BY <2>2, <1>6, <1>7
<1>10. TerminateIsTimed'
  BY <1>1, <1>3 DEF SignalInv, TerminateIsTimed, At
<1> QED
  BY <1>1, <1>3, <1>4, <1>5, <1>8, <1>9, <1>10 DEF SignalInv

LEMMA AlarmRingsKeeps ==
    ASSUME SignalInv, AlarmRings
    PROVE  SignalInv'
<1>1. /\ UNCHANGED <<signals, installed, growing, signaled, pending_terminate, proc,
                     owed, raised>>
      /\ killed' = TRUE /\ alarm' = FALSE
  BY DEF AlarmRings
<1>2. TypeOK'
  <2>1. {pending_terminate', alarm', killed'} \subseteq BOOLEAN
    BY <1>1 DEF SignalInv, TypeOK
  <2> QED
    BY <1>1, <2>1 DEF SignalInv, TypeOK
<1>3. EntriesFound' /\ NoSignalForgotten'
  BY <1>1 DEF SignalInv, EntriesFound, NoSignalForgotten, Slot, MarkedForGood, StillToTest
<1>4. TerminateIsTimed' /\ OwedIsTimedOrCalled'
  BY <1>1 DEF TerminateIsTimed, OwedIsTimedOrCalled
<1> QED
  BY <1>1, <1>2, <1>3, <1>4 DEF SignalInv

LEMMA SignalNext ==
    ASSUME TRUE \notin ReallocMoves, SignalInv, [Next]_vars
    PROVE  SignalInv'
<1>1. CASE UNCHANGED vars
  BY <1>1 DEF vars, SignalInv, TypeOK, EntriesFound, NoSignalForgotten, MarkedForGood,
              StillToTest, TerminateIsTimed, At, OwedIsTimedOrCalled, CalledThisRound, Slot
<1>2. CASE Next
  BY <1>2, MoveKeepsSignalInv, RegisterBeginKeeps, RegisterEndKeeps, RaiseKeeps, ClearKeeps,
     StopAlarmKeeps, ClearTerminateKeeps, ResetKeeps, CallCallbackKeeps, AlarmRingsKeeps
     DEF Next, Process
<1> QED
  BY <1>1, <1>2

(* What eloop_process_pending_signals and the handler keep between any two of   *)
(* their steps, if realloc extends the table in place.                         *)
THEOREM SignalInvHolds ==
    ASSUME TRUE \notin ReallocMoves
    PROVE  Spec => []SignalInv
<1>1. SignalInv /\ [Next]_vars => SignalInv'
  BY SignalNext
<1> QED
  BY <1>1, SignalInit, PTL DEF Spec

(* The variables keep their types, and the loop's index stays in the table.    *)
THEOREM TypeCorrect ==
    ASSUME TRUE \notin ReallocMoves
    PROVE  Spec => []TypeOK
<1>1. SignalInv => TypeOK
  BY DEF SignalInv
<1>2. SignalInv /\ [Next]_vars => SignalInv'
  BY SignalNext
<1> QED
  BY <1>1, <1>2, SignalInit, PTL DEF Spec

(* However signals interleave with registration, with the loop and with each   *)
(* other, none is forgotten before its callback begins, if realloc extends     *)
(* the table in place.                                                         *)
THEOREM SignalsAreKept ==
    ASSUME TRUE \notin ReallocMoves
    PROVE  Spec => []NoSignalForgotten
<1>1. SignalInv => NoSignalForgotten
  BY DEF SignalInv
<1>2. SignalInv /\ [Next]_vars => SignalInv'
  BY SignalNext
<1> QED
  BY <1>1, <1>2, SignalInit, PTL DEF Spec

(* Outside eloop_process_pending_signals, a terminate signal whose callback    *)
(* has not begun always has the alarm running.                                 *)
THEOREM TerminateSignalsAreTimed ==
    ASSUME TRUE \notin ReallocMoves
    PROVE  Spec => []OwedTerminateIsTimed
<1>1. SignalInv => OwedTerminateIsTimed
  BY DEF SignalInv, OwedIsTimedOrCalled, OwedTerminateIsTimed, CalledThisRound, StillToTest
<1>2. SignalInv /\ [Next]_vars => SignalInv'
  BY SignalNext
<1> QED
  BY <1>1, <1>2, SignalInit, PTL DEF Spec
==========================================================================
