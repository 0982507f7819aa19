----------------------- MODULE EloopTimeoutsProofs -----------------------
(***************************************************************************)
(* Proofs about EloopTimeouts, for every set of handlers, contexts and     *)
(* delays, every length of a second and every width of int.                *)
(***************************************************************************)
EXTENDS EloopTimeouts, FiniteSetTheorems, TLAPS

--------------------------------------------------------------------------
(* Time: what the operators of EloopTime return. *)

LEMMA CIntType ==
    ASSUME NEW u \in 0 .. UIntMax
    PROVE  CInt(u) \in Int
BY TimeAssumption DEF CInt, UIntMax

LEMMA CarryType ==
    ASSUME NEW t \in RelTime
    PROVE  Carry(t) \in RelTime
BY TimeAssumption DEF Carry, RelTime

LEMMA DeadlineType ==
    ASSUME NEW c \in ClockTime, NEW d \in Delays
    PROVE  Deadline(c, d) \in RelTime
<1>1. /\ d[1] \in 0 .. UIntMax
      /\ d[2] \in 0 .. UIntMax
  BY TimeoutAssumption
<1>2. CInt(d[1]) \in Int /\ CInt(d[2]) \in Int
  BY <1>1, CIntType
<1>3. [sec |-> c.sec + CInt(d[1]), usec |-> c.usec + CInt(d[2])] \in RelTime
  BY <1>2, TimeAssumption DEF RelTime, ClockTime
<1> QED
  BY <1>3, CarryType DEF Deadline

LEMMA NextInstantType ==
    ASSUME NEW c \in ClockTime
    PROVE  NextInstant(c) \in ClockTime
BY TimeAssumption DEF NextInstant, ClockTime

LEMMA BeforeTotal ==
    ASSUME NEW a \in RelTime, NEW b \in RelTime
    PROVE  Before(a, b) \/ a = b \/ Before(b, a)
<1>1. CASE a.sec = b.sec /\ a.usec = b.usec
  <2>1. /\ a = [sec |-> a.sec, usec |-> a.usec]
        /\ b = [sec |-> b.sec, usec |-> b.usec]
    BY DEF RelTime
  <2> QED
    BY <1>1, <2>1
<1>2. CASE a.sec # b.sec \/ a.usec # b.usec
  BY <1>2 DEF Before, RelTime
<1> QED
  BY <1>1, <1>2

LEMMA NewTimerType ==
    ASSUME NEW k \in Key, NEW c \in ClockTime, NEW d \in Delays, nreg \in Nat
    PROVE  NewTimer(k, c, d) \in Timer
<1>1. Deadline(c, d) \in RelTime
  BY DeadlineType
<1>2. d[1] \in Int /\ d[2] \in Int
  BY TimeoutAssumption
<1>3. USEC \in Int /\ c.sec \in Int /\ c.usec \in Int
  BY TimeAssumption DEF ClockTime
<1>4. Instant(c) + d[1] * USEC + d[2] \in Int
  BY <1>2, <1>3 DEF Instant
<1> QED
  BY <1>1, <1>4 DEF NewTimer, Timer

--------------------------------------------------------------------------
(* Lists: what insertion and removal keep. *)

LEMMA PrecedesTransitive ==
    ASSUME NEW a \in Timer, NEW b \in Timer, NEW c \in Timer,
           Precedes(a, b), Precedes(b, c)
    PROVE  Precedes(a, c)
BY DEF Precedes, Before, Timer, RelTime

LEMMA FunctionIsSeq ==
    ASSUME NEW S, NEW n \in Nat, NEW f \in [1 .. n -> S]
    PROVE  /\ f \in Seq(S)
           /\ Len(f) = n
           /\ DOMAIN f = 1 .. n
OBVIOUS

LEMMA PutAtType ==
    ASSUME NEW s \in Seq(Timer), NEW p \in 1 .. Len(s) + 1, NEW x \in Timer
    PROVE  /\ PutAt(s, p, x) \in Seq(Timer)
           /\ DOMAIN PutAt(s, p, x) = 1 .. Len(s) + 1
<1>1. PutAt(s, p, x) \in [1 .. Len(s) + 1 -> Timer]
  BY DEF PutAt
<1> QED
  BY <1>1, FunctionIsSeq

LEMMA DropAtType ==
    ASSUME NEW s \in Seq(Timer), NEW p \in 1 .. Len(s)
    PROVE  /\ DropAt(s, p) \in Seq(Timer)
           /\ DOMAIN DropAt(s, p) = 1 .. Len(s) - 1
<1>1. DropAt(s, p) \in [1 .. Len(s) - 1 -> Timer]
  BY DEF DropAt
<1>2. Len(s) - 1 \in Nat
  OBVIOUS
<1> QED
  BY <1>1, <1>2, FunctionIsSeq

(* Insertion where the loop of eloop_register_timeout stops keeps the order.   *)
LEMMA InsertedSorted ==
    ASSUME NEW s \in Seq(Timer), NEW x \in Timer, Sorted(s), Numbered(s, x.id),
           NEW r \in Inserted(s, x)
    PROVE  r \in Seq(Timer) /\ Sorted(r) /\ Numbered(r, x.id + 1)
<1>1. PICK p \in InsertPositions(s, x.time) : r = PutAt(s, p, x)
  BY DEF Inserted
<1>2. /\ p \in 1 .. Len(s) + 1
      /\ \A i \in 1 .. p - 1 : ~ Before(x.time, s[i].time)
      /\ p <= Len(s) => Before(x.time, s[p].time)
  BY DEF InsertPositions
<1>3. r \in Seq(Timer) /\ DOMAIN r = 1 .. Len(s) + 1
  BY <1>1, <1>2, PutAtType
<1>4. \A i \in 1 .. Len(s) : s[i] \in Timer
  OBVIOUS
<1>5. \A i \in 1 .. Len(s) + 1 :
         r[i] = IF i < p THEN s[i] ELSE IF i = p THEN x ELSE s[i - 1]
  BY <1>1 DEF PutAt
<1>6. ASSUME NEW i \in 1 .. Len(s), i < p
      PROVE  Precedes(s[i], x)
  <2>1. ~ Before(x.time, s[i].time) /\ s[i].id < x.id
    BY <1>2, <1>6 DEF Numbered
  <2>2. s[i].time \in RelTime /\ x.time \in RelTime
    BY <1>4 DEF Timer
  <2> QED
    BY <2>1, <2>2, BeforeTotal DEF Precedes
<1>7. ASSUME NEW i \in 1 .. Len(s), p <= i
      PROVE  Precedes(x, s[i])
  <2>1. Precedes(x, s[p])
    BY <1>2, <1>7 DEF Precedes
  <2>2. p = i \/ Precedes(s[p], s[i])
    BY <1>2, <1>7 DEF Sorted
  <2> QED
    BY <2>1, <2>2, <1>2, <1>4, <1>7, PrecedesTransitive
<1>8. Sorted(r)
  <2> SUFFICES ASSUME NEW i \in 1 .. Len(s) + 1, NEW j \in 1 .. Len(s) + 1, i < j
               PROVE  Precedes(r[i], r[j])
    BY <1>3 DEF Sorted
  <2>1. CASE j < p
    BY <2>1, <1>2, <1>5 DEF Sorted
  <2>2. CASE j = p
    <3>1. r[i] = s[i] /\ r[j] = x /\ i \in 1 .. Len(s)
      BY <2>2, <1>2, <1>5
    <3> QED
      BY <3>1, <2>2, <1>6
  <2>3. CASE j > p /\ i = p
    <3>1. r[i] = x /\ r[j] = s[j - 1] /\ j - 1 \in 1 .. Len(s) /\ p <= j - 1
      BY <2>3, <1>2, <1>5
    <3> QED
      BY <3>1, <1>7
  <2>4. CASE j > p /\ i < p
    <3>1. r[i] = s[i] /\ r[j] = s[j - 1] /\ i \in 1 .. Len(s) /\ j - 1 \in 1 .. Len(s) /\ i < j - 1
      BY <2>4, <1>2, <1>5
    <3> QED
      BY <3>1 DEF Sorted
  <2>5. CASE j > p /\ i > p
    <3>1. r[i] = s[i - 1] /\ r[j] = s[j - 1] /\ i - 1 \in 1 .. Len(s) /\ j - 1 \in 1 .. Len(s)
      BY <2>5, <1>2, <1>5
    <3> QED
      BY <3>1 DEF Sorted
  <2> QED
    BY <2>1, <2>2, <2>3, <2>4, <2>5, <1>2
<1>9. Numbered(r, x.id + 1)
  <2> SUFFICES ASSUME NEW i \in 1 .. Len(s) + 1
               PROVE  r[i].id < x.id + 1
    BY <1>3 DEF Numbered
  <2>1. x.id \in Nat /\ \A j \in 1 .. Len(s) : s[j].id \in Nat /\ s[j].id < x.id
    BY <1>4 DEF Numbered, Timer
  <2>2. CASE i < p
    BY <2>1, <2>2, <1>2, <1>5
  <2>3. CASE i = p
    BY <2>1, <2>3, <1>5
  <2>4. CASE i > p
    <3>1. r[i] = s[i - 1] /\ i - 1 \in 1 .. Len(s)
      BY <2>4, <1>2, <1>5
    <3> QED
      BY <3>1, <2>1
  <2> QED
    BY <2>2, <2>3, <2>4, <1>2
<1> QED
  BY <1>3, <1>8, <1>9

(* Removing one element, as the calls that stop at the first match do.         *)
LEMMA DropAtSorted ==
    ASSUME NEW s \in Seq(Timer), NEW n \in Nat, Sorted(s), Numbered(s, n),
           NEW p \in 1 .. Len(s)
    PROVE  DropAt(s, p) \in Seq(Timer) /\ Sorted(DropAt(s, p)) /\ Numbered(DropAt(s, p), n)
<1> DEFINE r == DropAt(s, p)
<1>1. r \in Seq(Timer) /\ DOMAIN r = 1 .. Len(s) - 1
  BY DropAtType
<1>2. \A i \in 1 .. Len(s) - 1 :
         r[i] = IF i < p THEN s[i] ELSE s[i + 1]
  BY DEF DropAt
<1> HIDE DEF r
<1>3. Sorted(r)
  <2> SUFFICES ASSUME NEW i \in 1 .. Len(s) - 1, NEW j \in 1 .. Len(s) - 1, i < j
               PROVE  Precedes(r[i], r[j])
    BY <1>1 DEF Sorted
  <2>1. CASE j < p
    BY <2>1, <1>2 DEF Sorted
  <2>2. CASE i < p /\ j >= p
    <3>1. r[i] = s[i] /\ r[j] = s[j + 1] /\ i \in 1 .. Len(s) /\ j + 1 \in 1 .. Len(s) /\ i < j + 1
      BY <2>2, <1>2
    <3> QED
      BY <3>1 DEF Sorted
  <2>3. CASE i >= p
    <3>1. r[i] = s[i + 1] /\ r[j] = s[j + 1] /\ i + 1 \in 1 .. Len(s) /\ j + 1 \in 1 .. Len(s)
      BY <2>3, <1>2
    <3> QED
      BY <3>1 DEF Sorted
  <2> QED
    BY <2>1, <2>2, <2>3
<1>4. Numbered(r, n)
  <2> SUFFICES ASSUME NEW i \in 1 .. Len(s) - 1
               PROVE  r[i].id < n
    BY <1>1 DEF Numbered
  <2>1. r[i] = s[i] \/ r[i] = s[i + 1]
    BY <1>2
  <2>2. i \in 1 .. Len(s) /\ i + 1 \in 1 .. Len(s)
    OBVIOUS
  <2> QED
    BY <2>1, <2>2 DEF Numbered
<1> QED
  BY <1>1, <1>3, <1>4 DEF r

(* Removing any set of positions, as eloop_cancel_timeout does.                *)
LEMMA WithoutSorted ==
    ASSUME NEW s \in Seq(Timer), NEW n \in Nat, Sorted(s), Numbered(s, n),
           NEW D, NEW r \in Without(s, D)
    PROVE  r \in Seq(Timer) /\ Sorted(r) /\ Numbered(r, n)
<1> DEFINE K == DOMAIN s \ D
<1>1. PICK f \in Ascending(K) : r = [i \in 1 .. Cardinality(K) |-> s[f[i]]]
  BY DEF Without
<1>2. DOMAIN s = 1 .. Len(s)
  OBVIOUS
<1>3. IsFiniteSet(K)
  BY <1>2, FS_Interval, FS_Subset
<1>4. Cardinality(K) \in Nat
  BY <1>3, FS_CardinalityType
<1>5. /\ \A i \in 1 .. Cardinality(K) : f[i] \in 1 .. Len(s)
      /\ \A i, j \in 1 .. Cardinality(K) : i < j => f[i] < f[j]
  BY <1>1, <1>2 DEF Ascending
<1> HIDE DEF K
<1>6. r \in [1 .. Cardinality(K) -> Timer]
  BY <1>1, <1>5
<1>7. r \in Seq(Timer) /\ DOMAIN r = 1 .. Cardinality(K)
  BY <1>4, <1>6, FunctionIsSeq
<1>8. \A i \in 1 .. Cardinality(K) : r[i] = s[f[i]]
  BY <1>1
<1>9. Sorted(r)
  BY <1>2, <1>5, <1>7, <1>8 DEF Sorted
<1>10. Numbered(r, n)
  BY <1>2, <1>5, <1>7, <1>8 DEF Numbered
<1> QED
  BY <1>7, <1>9, <1>10

(* eloop_register_timeout, whether or not it adds the timeout.                 *)
LEMMA RegisteredSorted ==
    ASSUME NEW s \in Seq(Timer), nreg \in Nat, Sorted(s), Numbered(s, nreg),
           NEW k \in Key, NEW c \in ClockTime, NEW d \in Delays,
           NEW r \in Registered(s, k, c, d)
    PROVE  r \in Seq(Timer) /\ Sorted(r) /\ Numbered(r, nreg + 1)
<1>1. CASE r = s
  <2>1. \A i \in DOMAIN s : s[i] \in Timer /\ s[i].id < nreg
    BY DEF Numbered
  <2>2. Numbered(s, nreg + 1)
    BY <2>1 DEF Numbered, Timer
  <2> QED
    BY <1>1, <2>2
<1>2. CASE r \in Inserted(s, NewTimer(k, c, d))
  <2>1. NewTimer(k, c, d) \in Timer
    BY NewTimerType
  <2>2. NewTimer(k, c, d).id = nreg
    BY DEF NewTimer
  <2> QED
    BY <1>2, <2>1, <2>2, InsertedSorted
<1> QED
  BY <1>1, <1>2 DEF Registered

--------------------------------------------------------------------------
(* The order of the list. *)

LEMMA OrderInit == Init => OrderInv
BY TimeAssumption DEF Init, OrderInv, TypeOK, TimeoutsOrdered, Sorted, Numbered, Zero, ClockTime

LEMMA ReregisterOrder ==
    ASSUME OrderInv, NEW k \in Key, NEW d \in Delays, Reregister(k, d)
    PROVE  OrderInv'
<1> USE DEF OrderInv, TypeOK, TimeoutsOrdered
<1>1. PICK c \in {now, NextInstant(now)} :
        /\ \E rest \in Without(timeout, Matching(timeout, k.h, k.e, k.u)) :
               timeout' \in Registered(rest, k, c, d)
        /\ nreg' = nreg + 1
        /\ now' = c
  BY DEF Reregister
<1>2. c \in ClockTime
  BY NextInstantType
<1>3. PICK rest \in Without(timeout, Matching(timeout, k.h, k.e, k.u)) :
        timeout' \in Registered(rest, k, c, d)
  BY <1>1
<1>4. rest \in Seq(Timer) /\ Sorted(rest) /\ Numbered(rest, nreg)
  BY <1>3, WithoutSorted
<1>5. timeout' \in Seq(Timer) /\ Sorted(timeout') /\ Numbered(timeout', nreg + 1)
  BY <1>2, <1>3, <1>4, RegisteredSorted
<1> QED
  BY <1>1, <1>2, <1>5 DEF Sorted, Numbered

LEMMA OrderNext == OrderInv /\ [Next]_vars => OrderInv'
<1> SUFFICES ASSUME OrderInv, [Next]_vars
             PROVE  OrderInv'
  OBVIOUS
<1> USE DEF OrderInv, TypeOK, TimeoutsOrdered
<1>1. ASSUME NEW k \in Key, NEW d \in Delays, RegisterTimeout(k, d)
      PROVE  OrderInv'
  <2>1. timeout' \in Seq(Timer) /\ Sorted(timeout') /\ Numbered(timeout', nreg + 1)
    BY <1>1, RegisteredSorted DEF RegisterTimeout
  <2> QED
    BY <1>1, <2>1 DEF RegisterTimeout, Sorted, Numbered
<1>2. ASSUME NEW k \in Key, NEW d \in Delays, DepleteTimeout(k, d)
      PROVE  OrderInv'
  BY <1>2, ReregisterOrder DEF DepleteTimeout
<1>3. ASSUME NEW k \in Key, NEW d \in Delays, ReplenishTimeout(k, d)
      PROVE  OrderInv'
  BY <1>3, ReregisterOrder DEF ReplenishTimeout
<1>4. ASSUME NEW h, NEW e, NEW u, CancelTimeout(h, e, u)
      PROVE  OrderInv'
  <2>1. timeout' \in Seq(Timer) /\ Sorted(timeout') /\ Numbered(timeout', nreg)
    BY <1>4, WithoutSorted DEF CancelTimeout
  <2> QED
    BY <1>4, <2>1 DEF CancelTimeout, Sorted, Numbered
<1>5. ASSUME NEW k \in Key, CancelTimeoutOne(k)
      PROVE  OrderInv'
  <2>1. PICK i \in FirstMatch(timeout, k) : timeout' = DropAt(timeout, i)
    BY <1>5 DEF CancelTimeoutOne
  <2>2. i \in 1 .. Len(timeout)
    BY DEF FirstMatch
  <2>3. timeout' \in Seq(Timer) /\ Sorted(timeout') /\ Numbered(timeout', nreg)
    BY <2>1, <2>2, DropAtSorted
  <2> QED
    BY <1>5, <2>3 DEF CancelTimeoutOne, Sorted, Numbered
<1>6. CASE Expire
  <2>1. 1 \in 1 .. Len(timeout)
    BY <1>6 DEF Expire
  <2>2. timeout' \in Seq(Timer) /\ Sorted(timeout') /\ Numbered(timeout', nreg)
    BY <1>6, <2>1, DropAtSorted DEF Expire
  <2> QED
    BY <1>6, <2>2 DEF Expire, Sorted, Numbered
<1>7. CASE DestroyTimeouts
  BY <1>7 DEF DestroyTimeouts, Sorted, Numbered
<1>8. CASE Tick
  BY <1>8, NextInstantType DEF Tick, Sorted, Numbered
<1>9. CASE UNCHANGED vars
  BY <1>9 DEF vars, Sorted, Numbered
<1> QED
  BY <1>1, <1>2, <1>3, <1>4, <1>5, <1>6, <1>7, <1>8, <1>9 DEF Next, Call

(* The list keeps its order, its numbers and its types in every state, whatever *)
(* the calls of eloop.c are made with.                                         *)
THEOREM OrderHolds == Spec => []OrderInv
  BY OrderInit, OrderNext, PTL DEF Spec

(* The variables of the list keep their types.                                 *)
THEOREM TypeCorrect == Spec => []TypeOK
<1>1. OrderInv => TypeOK
  BY DEF OrderInv
<1> QED
  BY <1>1, OrderInit, OrderNext, PTL DEF Spec

(* The list of timeouts is sorted in every state: by deadline, and among equal *)
(* deadlines by the order of registration.                                    *)
THEOREM AlwaysOrdered == Spec => []TimeoutsOrdered
<1>1. OrderInv => TimeoutsOrdered
  BY DEF OrderInv
<1> QED
  BY <1>1, OrderInit, OrderNext, PTL DEF Spec

--------------------------------------------------------------------------
(* Deadlines as numbers of microseconds. *)

(* The order of the two fields is the order of the instants they stand for.    *)
LEMMA BeforeIsEarlier ==
    ASSUME NEW a \in RelTime, NEW b \in RelTime,
           a.usec \in 0 .. USEC - 1, b.usec \in 0 .. USEC - 1
    PROVE  Before(a, b) <=> Instant(a) < Instant(b)
<1>1. /\ a.sec \in Int /\ b.sec \in Int /\ USEC \in Nat
      /\ a.usec \in Int /\ b.usec \in Int
  BY TimeAssumption DEF RelTime
<1>2. ASSUME NEW m \in Int, NEW n \in Int, m < n
      PROVE  m * USEC + USEC <= n * USEC
  <2>1. (n - m - 1) * USEC >= 0
    BY <1>1, <1>2
  <2>2. (n - m - 1) * USEC = n * USEC - m * USEC - USEC
    BY <1>1
  <2>3. m * USEC \in Int /\ n * USEC \in Int
    BY <1>1
  <2> QED
    BY <1>1, <2>1, <2>2, <2>3
<1>3. a.sec * USEC \in Int /\ b.sec * USEC \in Int
  BY <1>1
<1>4. CASE a.sec < b.sec
  <2>1. a.sec * USEC + USEC <= b.sec * USEC
    BY <1>1, <1>2, <1>4
  <2> QED
    BY <1>1, <1>3, <1>4, <2>1 DEF Before, Instant
<1>5. CASE a.sec = b.sec
  BY <1>1, <1>3, <1>5 DEF Before, Instant
<1>6. CASE a.sec > b.sec
  <2>1. b.sec * USEC + USEC <= a.sec * USEC
    BY <1>1, <1>2, <1>6
  <2> QED
    BY <1>1, <1>3, <1>6, <2>1 DEF Before, Instant
<1> QED
  BY <1>1, <1>4, <1>5, <1>6

LEMMA DivisionWithRemainder ==
    ASSUME NEW a \in Nat, NEW b \in Nat, b > 0
    PROVE  a = b * (a \div b) + (a % b)
OBVIOUS

(* The carry loop keeps the instant and leaves less than a second's worth of   *)
(* microseconds.                                                              *)
LEMMA CarryKeepsInstant ==
    ASSUME NEW t \in RelTime, t.usec >= 0
    PROVE  /\ Instant(Carry(t)) = Instant(t)
           /\ Carry(t).usec \in 0 .. USEC - 1
<1> DEFINE q == t.usec \div USEC
           r == (t.usec % USEC)
<1>1. /\ t.sec \in Int /\ t.usec \in Nat
      /\ USEC \in Nat /\ USEC > 0
  BY TimeAssumption DEF RelTime
<1>2. q \in Int /\ r \in 0 .. USEC - 1 /\ t.usec = USEC * q + r
  <2>1. q \in Int
    BY <1>1
  <2>2. r \in 0 .. USEC - 1
    BY <1>1
  <2>3. t.usec = USEC * q + r
    BY <1>1, DivisionWithRemainder
  <2> QED
    BY <2>1, <2>2, <2>3
<1>3. Carry(t) = [sec |-> t.sec + q, usec |-> r]
  BY <1>1 DEF Carry
<1> HIDE DEF q, r
<1>4. (t.sec + q) * USEC = t.sec * USEC + USEC * q
  BY <1>1, <1>2
<1>5. t.sec * USEC \in Int /\ USEC * q \in Int
  BY <1>1, <1>2
<1> QED
  BY <1>1, <1>2, <1>3, <1>4, <1>5 DEF Instant

--------------------------------------------------------------------------
(* What a step puts on the list. *)

LEMMA WithoutMembers ==
    ASSUME NEW s \in Seq(Timer), NEW D, NEW r \in Without(s, D), NEW i \in DOMAIN r
    PROVE  \E j \in DOMAIN s : r[i] = s[j]
<1> DEFINE K == DOMAIN s \ D
<1>1. PICK f \in Ascending(K) : r = [n \in 1 .. Cardinality(K) |-> s[f[n]]]
  BY DEF Without
<1>2. \A n \in 1 .. Cardinality(K) : f[n] \in DOMAIN s
  BY <1>1 DEF Ascending
<1> HIDE DEF K
<1> QED
  BY <1>1, <1>2

LEMMA DropAtMembers ==
    ASSUME NEW s \in Seq(Timer), NEW p \in 1 .. Len(s), NEW i \in DOMAIN DropAt(s, p)
    PROVE  \E j \in DOMAIN s : DropAt(s, p)[i] = s[j]
<1>1. i \in 1 .. Len(s) - 1
  BY DropAtType
<1>2. i \in DOMAIN s /\ i + 1 \in DOMAIN s
  BY <1>1
<1>3. DropAt(s, p)[i] = s[i] \/ DropAt(s, p)[i] = s[i + 1]
  BY <1>1 DEF DropAt
<1> QED
  BY <1>2, <1>3

(* A timeout is registered only when adding the seconds does not make the clock *)
(* go back.                                                                   *)
LEMMA RegisteredMembers ==
    ASSUME NEW s \in Seq(Timer), nreg \in Nat,
           NEW k \in Key, NEW c \in ClockTime, NEW d \in Delays,
           NEW r \in Registered(s, k, c, d), NEW i \in DOMAIN r
    PROVE  \/ \E j \in DOMAIN s : r[i] = s[j]
           \/ r[i] = NewTimer(k, c, d) /\ ~ (c.sec + CInt(d[1]) < c.sec)
<1> DEFINE x == NewTimer(k, c, d)
<1>1. CASE r = s
  BY <1>1
<1>2. CASE r # s
  <2>1. PICK p \in 1 .. Len(s) + 1 : r = PutAt(s, p, x)
    BY <1>2 DEF Registered, Inserted, InsertPositions
  <2>2. ~ (c.sec + CInt(d[1]) < c.sec)
    BY <1>2 DEF Registered
  <2>3. x \in Timer
    BY NewTimerType
  <2> HIDE DEF x
  <2>4. i \in 1 .. Len(s) + 1
    BY <2>1, <2>3, PutAtType
  <2>5. CASE i < p
    <3>1. i \in DOMAIN s /\ r[i] = s[i]
      BY <2>1, <2>4, <2>5 DEF PutAt
    <3> QED
      BY <3>1
  <2>6. CASE i = p
    <3>1. r[i] = x
      BY <2>1, <2>4, <2>6 DEF PutAt
    <3> QED
      BY <2>2, <3>1 DEF x
  <2>7. CASE i > p
    <3>1. i - 1 \in DOMAIN s /\ r[i] = s[i - 1]
      BY <2>1, <2>4, <2>7 DEF PutAt
    <3> QED
      BY <3>1
  <2> QED
    BY <2>1, <2>4, <2>5, <2>6, <2>7
<1> QED
  BY <1>1, <1>2

IsOld(t) == \E j \in DOMAIN timeout : t = timeout[j]

IsNew(t) == \E k \in Key, c \in ClockTime, d \in Delays :
               t = NewTimer(k, c, d) /\ ~ (c.sec + CInt(d[1]) < c.sec)

(* Every timeout of the list was there before the step, or is a new one.       *)
LEMMA OldOrNew ==
    ASSUME OrderInv, [Next]_vars, NEW i \in DOMAIN timeout'
    PROVE  IsOld(timeout'[i]) \/ IsNew(timeout'[i])
<1>1. timeout \in Seq(Timer) /\ now \in ClockTime /\ nreg \in Nat
  BY DEF OrderInv, TypeOK
<1>2. ASSUME NEW k \in Key, NEW d \in Delays, RegisterTimeout(k, d)
      PROVE  IsOld(timeout'[i]) \/ IsNew(timeout'[i])
  <2>1. timeout' \in Registered(timeout, k, now, d)
    BY <1>2 DEF RegisterTimeout
  <2> QED
    BY <1>1, <2>1, RegisteredMembers DEF IsOld, IsNew
<1>3. ASSUME NEW k \in Key, NEW d \in Delays, Reregister(k, d)
      PROVE  IsOld(timeout'[i]) \/ IsNew(timeout'[i])
  <2>1. PICK c \in {now, NextInstant(now)} :
          \E rest \in Without(timeout, Matching(timeout, k.h, k.e, k.u)) :
              timeout' \in Registered(rest, k, c, d)
    BY <1>3 DEF Reregister
  <2>2. PICK rest \in Without(timeout, Matching(timeout, k.h, k.e, k.u)) :
          timeout' \in Registered(rest, k, c, d)
    BY <2>1
  <2>3. c \in ClockTime /\ rest \in Seq(Timer)
    BY <1>1, <2>1, <2>2, NextInstantType, WithoutSorted DEF OrderInv, TimeoutsOrdered
  <2>4. \A j \in DOMAIN rest : IsOld(rest[j])
    BY <1>1, <2>2, WithoutMembers DEF IsOld
  <2>5. \/ \E j \in DOMAIN rest : timeout'[i] = rest[j]
        \/ timeout'[i] = NewTimer(k, c, d) /\ ~ (c.sec + CInt(d[1]) < c.sec)
    BY <1>1, <2>2, <2>3, RegisteredMembers
  <2> QED
    BY <2>3, <2>4, <2>5 DEF IsNew
<1>4. ASSUME NEW h, NEW e, NEW u, CancelTimeout(h, e, u)
      PROVE  IsOld(timeout'[i])
  BY <1>1, <1>4, WithoutMembers DEF CancelTimeout, IsOld
<1>5. ASSUME NEW k \in Key, CancelTimeoutOne(k)
      PROVE  IsOld(timeout'[i])
  <2>1. PICK p \in FirstMatch(timeout, k) : timeout' = DropAt(timeout, p)
    BY <1>5 DEF CancelTimeoutOne
  <2>2. p \in 1 .. Len(timeout)
    BY <1>1, <2>1 DEF FirstMatch
  <2> QED
    BY <1>1, <2>1, <2>2, DropAtMembers DEF IsOld
<1>6. ASSUME Expire
      PROVE  IsOld(timeout'[i])
  <2>1. 1 \in 1 .. Len(timeout)
    BY <1>1, <1>6 DEF Expire
  <2> QED
    BY <1>1, <1>6, <2>1, DropAtMembers DEF Expire, IsOld
<1>7. ~ DestroyTimeouts
  BY DEF DestroyTimeouts
<1>8. ASSUME Tick \/ UNCHANGED vars
      PROVE  IsOld(timeout'[i])
  BY <1>8 DEF Tick, vars, IsOld
<1> QED
  BY <1>2, <1>3, <1>4, <1>5, <1>6, <1>7, <1>8
     DEF Next, Call, DepleteTimeout, ReplenishTimeout

--------------------------------------------------------------------------
(* What holds of a list of timeouts when every delay fits an int: the deadline *)
(* the code computed is the instant the caller asked for, and it is            *)
(* normalised, so that the order of the two fields is the order of instants.   *)
IsOnTime(t) == t.time.usec \in 0 .. USEC - 1 /\ Instant(t.time) = t.due

FireInv == OrderInv /\ \A i \in DOMAIN timeout : IsOnTime(timeout[i])

(* The parts of a deadline: the seconds asked for are added as they are, and    *)
(* the instant is the one asked for, but for the cast of the microseconds.      *)
LEMMA NewTimerInstant ==
    ASSUME NEW k \in Key, NEW c \in ClockTime, NEW d \in Delays,
           ~ (c.sec + CInt(d[1]) < c.sec)
    PROVE  LET t == NewTimer(k, c, d).time
           IN  /\ t \in RelTime
               /\ d[1] \in Nat /\ d[2] \in Nat /\ CInt(d[2]) \in Int /\ CInt(d[2]) <= d[2]
               /\ Instant(t) = Instant(c) + d[1] * USEC + CInt(d[2])
               /\ \/ t.usec \in 0 .. USEC - 1
                  \/ t.usec < 0 /\ t.sec = c.sec + d[1]
<1> DEFINE t == [sec |-> c.sec + d[1], usec |-> c.usec + CInt(d[2])]
<1>1. /\ d[1] \in 0 .. UIntMax /\ d[2] \in 0 .. UIntMax
      /\ c.sec \in Nat /\ c.usec \in Nat
      /\ USEC \in Nat
  BY TimeAssumption, TimeoutAssumption DEF ClockTime
<1>2. CInt(d[1]) = d[1] /\ CInt(d[2]) \in Int /\ CInt(d[2]) <= d[2]
  BY <1>1, TimeAssumption DEF CInt, UIntMax
<1>3. Deadline(c, d) = Carry(t) /\ t \in RelTime
  BY <1>1, <1>2, TimeAssumption DEF Deadline, RelTime, UIntMax
<1>4. Instant(Carry(t)) = Instant(t) /\ (\/ Carry(t).usec \in 0 .. USEC - 1
                                         \/ Carry(t).usec < 0 /\ Carry(t).sec = c.sec + d[1])
  <2>1. CASE t.usec >= 0
    BY <1>3, <2>1, CarryKeepsInstant
  <2>2. CASE t.usec < 0
    BY <1>3, <2>2 DEF Carry
  <2> QED
    BY <1>3, <2>1, <2>2 DEF RelTime
<1>5. Instant(t) = (c.sec + d[1]) * USEC + (c.usec + CInt(d[2]))
  BY DEF Instant
<1>6. d[1] \in Nat /\ d[2] \in Nat
  BY <1>1, TimeAssumption DEF UIntMax
<1>7. /\ (c.sec + d[1]) * USEC = c.sec * USEC + d[1] * USEC
      /\ c.sec * USEC \in Int /\ d[1] * USEC \in Int
  BY <1>1, <1>6
<1>8. Instant(t) = Instant(c) + d[1] * USEC + CInt(d[2])
  BY <1>1, <1>2, <1>5, <1>7 DEF Instant
<1> QED
  BY <1>2, <1>3, <1>4, <1>6, <1>8, CarryType DEF NewTimer

LEMMA FireNext ==
    ASSUME \A d \in Delays : FitsInt(d), FireInv, [Next]_vars
    PROVE  FireInv'
<1>1. OrderInv /\ OrderInv'
  BY OrderNext DEF FireInv
<1>2. ASSUME NEW t, IsNew(t)
      PROVE  IsOnTime(t)
  <2>1. PICK k \in Key, c \in ClockTime, d \in Delays :
          t = NewTimer(k, c, d) /\ ~ (c.sec + CInt(d[1]) < c.sec)
    BY <1>2 DEF IsNew
  <2>2. CInt(d[2]) = d[2] /\ d[1] \in Nat /\ d[2] \in Nat
    <3>1. d[1] \in Nat /\ d[2] \in Nat
      BY <2>1, NewTimerInstant
    <3>2. ~ (d[2] > IntMax)
      BY <3>1, TimeAssumption DEF FitsInt
    <3> QED
      BY <3>1, <3>2 DEF CInt
  <2>3. t.time.usec \in 0 .. USEC - 1 \/ t.time.usec < 0
    BY <2>1, NewTimerInstant
  <2>4. Instant(t.time) = t.due
    BY <2>1, <2>2, NewTimerInstant DEF NewTimer
  <2>5. ~ t.time.usec < 0
    <3>1. t.time = Carry([sec |-> c.sec + CInt(d[1]), usec |-> c.usec + d[2]])
      BY <2>1, <2>2 DEF NewTimer, Deadline
    <3>2. CInt(d[1]) \in Int /\ c.sec \in Nat /\ c.usec \in Nat /\ d[1] \in 0 .. UIntMax
      BY CIntType, TimeoutAssumption, TimeAssumption DEF ClockTime
    <3> QED
      BY <2>2, <3>1, <3>2, CarryKeepsInstant, TimeAssumption DEF RelTime
  <2> QED
    BY <2>3, <2>4, <2>5 DEF IsOnTime
<1>3. ASSUME NEW i \in DOMAIN timeout'
      PROVE  IsOnTime(timeout'[i])
  <2>1. IsOld(timeout'[i]) \/ IsNew(timeout'[i])
    BY <1>1, OldOrNew
  <2> QED
    BY <1>2, <2>1 DEF IsOld, FireInv
<1> QED
  BY <1>1, <1>3 DEF FireInv, IsOnTime

(* Whatever the delays are, no deadline is later than the instant asked for.    *)
LEMMA DatedNext == DatedInv /\ [Next]_vars => DatedInv'
<1> SUFFICES ASSUME DatedInv, [Next]_vars
             PROVE  DatedInv'
  OBVIOUS
<1>1. OrderInv /\ OrderInv'
  BY OrderNext DEF DatedInv
<1>2. ASSUME NEW t, IsNew(t)
      PROVE  NotLate(t)
  <2>1. PICK k \in Key, c \in ClockTime, d \in Delays :
          t = NewTimer(k, c, d) /\ ~ (c.sec + CInt(d[1]) < c.sec)
    BY <1>2 DEF IsNew
  <2> DEFINE tm == NewTimer(k, c, d).time
  <2>2. /\ tm \in RelTime
        /\ d[1] \in Nat /\ d[2] \in Nat /\ CInt(d[2]) \in Int /\ CInt(d[2]) <= d[2]
        /\ Instant(tm) = Instant(c) + d[1] * USEC + CInt(d[2])
        /\ \/ tm.usec \in 0 .. USEC - 1
           \/ tm.usec < 0 /\ tm.sec = c.sec + d[1]
    BY <2>1, NewTimerInstant
  <2>3. t.time = tm /\ t.due = Instant(c) + d[1] * USEC + d[2]
    BY <2>1 DEF NewTimer
  <2> HIDE DEF tm
  <2>4. /\ USEC \in Nat \ {0} /\ c.sec \in Nat /\ c.usec \in Nat
        /\ tm.sec \in Int /\ tm.usec \in Int
    BY <2>2, TimeAssumption DEF RelTime, ClockTime
  <2>5. /\ c.sec * USEC \in Int /\ d[1] * USEC \in Int /\ tm.sec * USEC \in Int
        /\ (c.sec + d[1]) * USEC = c.sec * USEC + d[1] * USEC
    BY <2>2, <2>4
  <2>6. tm.usec < USEC /\ Instant(tm) <= t.due
    BY <2>2, <2>3, <2>4, <2>5 DEF Instant
  <2>7. tm.sec * USEC <= t.due
    <3>1. CASE tm.usec \in 0 .. USEC - 1
      BY <2>3, <2>4, <2>5, <2>6, <2>2, <3>1 DEF Instant
    <3>2. CASE tm.usec < 0 /\ tm.sec = c.sec + d[1]
      BY <2>2, <2>3, <2>4, <2>5, <3>2 DEF Instant
    <3> QED
      BY <2>2, <3>1, <3>2
  <2> QED
    BY <2>3, <2>6, <2>7 DEF NotLate
<1>3. ASSUME NEW i \in DOMAIN timeout'
      PROVE  NotLate(timeout'[i])
  <2>1. IsOld(timeout'[i]) \/ IsNew(timeout'[i])
    BY <1>1, OldOrNew
  <2> QED
    BY <1>2, <2>1 DEF IsOld, DatedInv
<1> QED
  BY <1>1, <1>3 DEF DatedInv, NotLate

(* Casts may make a deadline earlier than the one asked for, never later.       *)
THEOREM NeverLate == Spec => []DatedInv
<1>1. Init => DatedInv
  BY OrderInit DEF DatedInv, Init
<1> QED
  BY <1>1, DatedNext, PTL DEF Spec

(* How long eloop_run asks select() to sleep.                                  *)
LEMMA SubInstant ==
    ASSUME NEW a \in RelTime, NEW b \in RelTime
    PROVE  Sub(a, b) \in RelTime /\ Instant(Sub(a, b)) = Instant(a) - Instant(b)
<1>1. /\ a.sec \in Int /\ a.usec \in Int /\ b.sec \in Int /\ b.usec \in Int
      /\ USEC \in Nat
  BY TimeAssumption DEF RelTime
<1>2. /\ (a.sec - b.sec) * USEC = a.sec * USEC - b.sec * USEC
      /\ (a.sec - b.sec - 1) * USEC = a.sec * USEC - b.sec * USEC - USEC
      /\ a.sec * USEC \in Int /\ b.sec * USEC \in Int
  BY <1>1
<1> QED
  BY <1>1, <1>2 DEF Sub, Instant, RelTime

(* The head of the list is due no later than any other timeout is, even behind  *)
(* one whose microseconds a cast made negative.                               *)
LEMMA HeadIsEarliest ==
    ASSUME DatedInv, NEW i \in DOMAIN timeout
    PROVE  Instant(timeout[1].time) <= timeout[i].due
<1> DEFINE a == timeout[1].time
           b == timeout[i].time
           due == timeout[i].due
<1>1. /\ timeout \in Seq(Timer) /\ 1 \in DOMAIN timeout /\ i \in 1 .. Len(timeout)
      /\ NotLate(timeout[1]) /\ NotLate(timeout[i])
  BY DEF DatedInv, OrderInv, TypeOK
<1>2. timeout[1] \in Timer /\ timeout[i] \in Timer
  BY <1>1
<1>3. /\ a.sec \in Int /\ a.usec \in Int /\ b.sec \in Int /\ b.usec \in Int
      /\ due \in Int /\ USEC \in Nat \ {0}
  BY <1>2, TimeAssumption DEF Timer, RelTime
<1>4. /\ a.usec < USEC /\ b.sec * USEC + b.usec <= due /\ b.sec * USEC <= due
  BY <1>1 DEF NotLate, Instant
<1>5. a = b \/ Before(a, b)
  BY <1>1 DEF DatedInv, OrderInv, TimeoutsOrdered, Sorted, Precedes
<1> HIDE DEF a, b, due
<1>6. Instant(a) <= due
  <2>1. CASE a.sec < b.sec
    <3>1. /\ (b.sec - a.sec - 1) * USEC >= 0
          /\ (b.sec - a.sec - 1) * USEC = b.sec * USEC - a.sec * USEC - USEC
          /\ a.sec * USEC \in Int /\ b.sec * USEC \in Int
      BY <1>3, <2>1
    <3> QED
      BY <1>3, <1>4, <3>1 DEF Instant
  <2>2. CASE a.sec = b.sec /\ a.usec <= b.usec
    <3>1. a.sec * USEC = b.sec * USEC /\ a.sec * USEC \in Int
      BY <1>3, <2>2
    <3> QED
      BY <1>3, <1>4, <2>2, <3>1 DEF Instant
  <2> QED
    BY <1>3, <1>5, <2>1, <2>2 DEF Before
<1> QED
  BY <1>6 DEF a, due

LEMMA SleepEndsInTime ==
    ASSUME DatedInv, NEW i \in DOMAIN timeout
    PROVE  LET r == Remaining(timeout[1].time, now)
           IN  /\ r.sec \in Int /\ r.usec \in Int /\ Instant(r) \in Int /\ Instant(now) \in Nat
               /\ r.sec >= 0 /\ r.usec >= 0 => Instant(r) >= 0
               /\ \/ Instant(now) + Instant(r) <= timeout[i].due
                  \/ Instant(now) + Instant(r) = Instant(now)
<1> DEFINE a == timeout[1].time
           r == Remaining(a, now)
<1>1. timeout \in Seq(Timer) /\ 1 \in DOMAIN timeout /\ now \in ClockTime
  BY DEF DatedInv, OrderInv, TypeOK
<1>2. /\ a \in RelTime /\ now \in RelTime /\ now.sec \in Nat /\ now.usec \in Nat /\ USEC \in Nat
      /\ timeout[i].due \in Int
  <2>1. timeout[1] \in Timer /\ timeout[i] \in Timer
    BY <1>1
  <2>2. a \in RelTime /\ timeout[i].due \in Int
    BY <2>1 DEF Timer
  <2> QED
    BY <1>1, <2>2, TimeAssumption DEF RelTime, ClockTime
<1>3. Instant(now) \in Nat
  BY <1>2 DEF Instant
<1>4. Instant(a) \in Int /\ Instant(a) <= timeout[i].due
  BY <1>2, HeadIsEarliest DEF Instant, RelTime
<1>5. /\ r \in RelTime /\ r.sec \in Int /\ r.usec \in Int
      /\ \/ Instant(r) = Instant(a) - Instant(now)
         \/ Instant(r) = 0
  <2>1. CASE Before(now, a)
    BY <1>2, <2>1, SubInstant DEF Remaining, RelTime
  <2>2. CASE ~ Before(now, a)
    BY <1>2, <2>2 DEF Remaining, Zero, Instant, RelTime
  <2> QED
    BY <2>1, <2>2
<1>6. Instant(r) = r.sec * USEC + r.usec
  BY DEF Instant
<1> HIDE DEF a, r
<1>7. r.sec >= 0 /\ r.usec >= 0 => Instant(r) >= 0
  <2> HAVE r.sec >= 0 /\ r.usec >= 0
  <2>1. r.sec * USEC >= 0 /\ r.sec * USEC \in Int
    BY <1>2, <1>5
  <2> QED
    BY <1>5, <1>6, <2>1
<1> QED
  BY <1>2, <1>3, <1>4, <1>5, <1>7 DEF a, r

(* Only a deadline with negative microseconds gives select() a negative time.   *)
LEMMA NegativeSleep ==
    ASSUME NEW t \in RelTime, NEW c \in ClockTime,
           Remaining(t, c).sec < 0 \/ Remaining(t, c).usec < 0
    PROVE  t.usec < 0
BY TimeAssumption DEF Remaining, Before, Sub, Zero, RelTime, ClockTime

LEMMA PrecedesIsDueBefore ==
    ASSUME FireInv, NEW i \in DOMAIN timeout, NEW j \in DOMAIN timeout,
           Precedes(timeout[i], timeout[j])
    PROVE  DueBefore(timeout[i], timeout[j])
<1>1. timeout[i] \in Timer /\ timeout[j] \in Timer
  BY DEF FireInv, OrderInv, TypeOK
<1>2. timeout[i].time \in RelTime /\ timeout[j].time \in RelTime
  BY <1>1 DEF Timer
<1> QED
  BY <1>2, BeforeIsEarlier DEF FireInv, IsOnTime, Precedes, DueBefore

(* When every delay the program asks for fits an int, eloop_run never fires a  *)
(* timeout before the instant its caller asked for, and it fires the           *)
(* registered timeouts in the order of those instants, ties in the order of    *)
(* the calls.                                                                  *)
THEOREM FiresInOrder ==
    ASSUME \A d \in Delays : FitsInt(d)
    PROVE  Spec => FiresEarliestDue
<1> DEFINE Fires == Expire =>
               /\ timeout[1].due <= Instant(now)
               /\ \A i \in 2 .. Len(timeout) : DueBefore(timeout[1], timeout[i])
<1>1. Init => FireInv
  BY OrderInit DEF FireInv, Init
<1>2. FireInv /\ [Next]_vars => FireInv'
  BY FireNext
<1>3. FireInv /\ [Next]_vars => [Fires]_vars
  <2> SUFFICES ASSUME FireInv, Expire
               PROVE  /\ timeout[1].due <= Instant(now)
                      /\ \A i \in 2 .. Len(timeout) : DueBefore(timeout[1], timeout[i])
    OBVIOUS
  <2>1. /\ timeout \in Seq(Timer) /\ now \in ClockTime
        /\ 1 \in 1 .. Len(timeout) /\ timeout[1] \in Timer
    BY DEF FireInv, OrderInv, TypeOK, Expire
  <2>2. timeout[1].due <= Instant(now)
    <3>1. /\ timeout[1].time \in RelTime /\ timeout[1].time.usec \in 0 .. USEC - 1
          /\ now \in RelTime /\ now.usec \in 0 .. USEC - 1
      BY <2>1, TimeAssumption DEF FireInv, IsOnTime, Timer, ClockTime, RelTime
    <3>2. ~ (Instant(now) < Instant(timeout[1].time))
      BY <3>1, BeforeIsEarlier DEF Expire
    <3>3. Instant(now) \in Int /\ Instant(timeout[1].time) \in Int
      BY <3>1, TimeAssumption DEF Instant, RelTime
    <3>4. Instant(timeout[1].time) = timeout[1].due
      BY <2>1 DEF FireInv, IsOnTime
    <3> QED
      BY <3>2, <3>3, <3>4
  <2>3. ASSUME NEW i \in 2 .. Len(timeout)
        PROVE  DueBefore(timeout[1], timeout[i])
    <3>1. /\ 1 \in DOMAIN timeout /\ i \in DOMAIN timeout /\ 1 < i
      BY <2>1
    <3>2. Precedes(timeout[1], timeout[i])
      BY <3>1 DEF FireInv, OrderInv, TimeoutsOrdered, Sorted
    <3> QED
      BY <3>1, <3>2, PrecedesIsDueBefore
  <2> QED
    BY <2>2, <2>3
<1> QED
  BY <1>1, <1>2, <1>3, PTL DEF Spec, FiresEarliestDue

--------------------------------------------------------------------------
(* The calls that look for a timeout under a key. *)

LEMMA NoneTwice ==
    ASSUME NEW s \in Seq(Timer), Sorted(s), NEW i \in DOMAIN s, NEW j \in DOMAIN s, i # j
    PROVE  s[i] # s[j]
<1>1. /\ s[i] \in Timer /\ s[j] \in Timer /\ DOMAIN s = 1 .. Len(s)
      /\ Precedes(s[i], s[j]) \/ Precedes(s[j], s[i])
  BY DEF Sorted
<1>2. ~ Precedes(s[i], s[i])
  BY <1>1 DEF Precedes, Before, Timer, RelTime
<1> QED
  BY <1>1, <1>2

LEMMA SameImage ==
    ASSUME NEW A, NEW B, NEW f, NEW g,
           \A a \in A : \E b \in B : f[a] = g[b],
           \A b \in B : \E a \in A : f[a] = g[b]
    PROVE  {f[a] : a \in A} = {g[b] : b \in B}
OBVIOUS

LEMMA DropAtTimers ==
    ASSUME NEW s \in Seq(Timer), Sorted(s), NEW p \in DOMAIN s
    PROVE  Timers(DropAt(s, p)) = Timers(s) \ {s[p]}
<1>1. /\ DOMAIN s = 1 .. Len(s) /\ Len(s) \in Nat /\ p \in 1 .. Len(s)
      /\ DOMAIN DropAt(s, p) = 1 .. Len(s) - 1
      /\ \A n \in 1 .. Len(s) - 1 : DropAt(s, p)[n] = IF n < p THEN s[n] ELSE s[n + 1]
  BY DEF DropAt
<1>2. ASSUME NEW n \in 1 .. Len(s) - 1
      PROVE  \E i \in DOMAIN s : i # p /\ DropAt(s, p)[n] = s[i]
  <2>1. CASE n < p
    BY <1>1, <2>1
  <2>2. CASE n >= p
    <3>1. n + 1 \in DOMAIN s /\ n + 1 # p /\ DropAt(s, p)[n] = s[n + 1]
      BY <1>1, <2>2
    <3> QED
      BY <3>1
  <2> QED
    BY <1>1, <2>1, <2>2
<1>3. ASSUME NEW i \in DOMAIN s, i # p
      PROVE  \E n \in 1 .. Len(s) - 1 : DropAt(s, p)[n] = s[i]
  <2>1. CASE i < p
    BY <1>1, <2>1
  <2>2. CASE i > p
    <3>1. i - 1 \in 1 .. Len(s) - 1 /\ DropAt(s, p)[i - 1] = s[i]
      BY <1>1, <2>2
    <3> QED
      BY <3>1
  <2> QED
    BY <1>1, <1>3, <2>1, <2>2
<1>4. \A i \in DOMAIN s : i # p => s[i] # s[p]
  BY NoneTwice
<1>5. Timers(s) \ {s[p]} = {s[i] : i \in DOMAIN s \ {p}}
  BY <1>4 DEF Timers
<1>6. Timers(DropAt(s, p)) = {DropAt(s, p)[n] : n \in 1 .. Len(s) - 1}
  BY <1>1 DEF Timers
<1>7. {DropAt(s, p)[n] : n \in 1 .. Len(s) - 1} = {s[i] : i \in DOMAIN s \ {p}}
  <2> DEFINE A == 1 .. Len(s) - 1
             B == DOMAIN s \ {p}
             r == DropAt(s, p)
  <2>1. \A n \in A : \E i \in B : r[n] = s[i]
    BY <1>2
  <2>2. \A i \in B : \E n \in A : r[n] = s[i]
    BY <1>3
  <2> HIDE DEF A, B, r
  <2>3. {r[n] : n \in A} = {s[i] : i \in B}
    BY <2>1, <2>2, SameImage
  <2> QED
    BY <2>3 DEF A, B, r
<1> QED
  BY <1>5, <1>6, <1>7

LEMMA PutAtTimers ==
    ASSUME NEW s \in Seq(Timer), NEW p \in 1 .. Len(s) + 1, NEW x
    PROVE  Timers(PutAt(s, p, x)) = Timers(s) \cup {x}
<1>1. /\ DOMAIN s = 1 .. Len(s) /\ Len(s) \in Nat
      /\ DOMAIN PutAt(s, p, x) = 1 .. Len(s) + 1
      /\ \A n \in 1 .. Len(s) + 1 :
            PutAt(s, p, x)[n] = IF n < p THEN s[n] ELSE IF n = p THEN x ELSE s[n - 1]
  BY DEF PutAt
<1>2. ASSUME NEW n \in 1 .. Len(s) + 1
      PROVE  PutAt(s, p, x)[n] = x \/ \E i \in DOMAIN s : PutAt(s, p, x)[n] = s[i]
  <2>1. CASE n < p
    BY <1>1, <2>1
  <2>2. CASE n = p
    BY <1>1, <2>2
  <2>3. CASE n > p
    <3>1. n - 1 \in DOMAIN s /\ PutAt(s, p, x)[n] = s[n - 1]
      BY <1>1, <2>3
    <3> QED
      BY <3>1
  <2> QED
    BY <1>1, <2>1, <2>2, <2>3
<1>3. ASSUME NEW i \in DOMAIN s
      PROVE  \E n \in 1 .. Len(s) + 1 : PutAt(s, p, x)[n] = s[i]
  <2>1. CASE i < p
    BY <1>1, <2>1
  <2>2. CASE i >= p
    <3>1. i + 1 \in 1 .. Len(s) + 1 /\ PutAt(s, p, x)[i + 1] = s[i]
      BY <1>1, <2>2
    <3> QED
      BY <3>1
  <2> QED
    BY <1>1, <2>1, <2>2
<1>4. PutAt(s, p, x)[p] = x
  BY <1>1
<1>5. Timers(PutAt(s, p, x)) = {PutAt(s, p, x)[n] : n \in 1 .. Len(s) + 1}
  BY <1>1 DEF Timers
<1>6. {PutAt(s, p, x)[n] : n \in 1 .. Len(s) + 1} = {s[i] : i \in DOMAIN s} \cup {x}
  BY <1>2, <1>3, <1>4
<1> QED
  BY <1>5, <1>6 DEF Timers

(* Without takes out the positions it is given, and no other: an enumeration *)
(* of the others from first to last misses none.                            *)
LEMMA WithoutTimers ==
    ASSUME NEW s \in Seq(Timer), NEW D, NEW r \in Without(s, D)
    PROVE  Timers(r) = {s[i] : i \in DOMAIN s \ D}
<1> DEFINE K == DOMAIN s \ D
           n == Cardinality(K)
<1>1. PICK f \in Ascending(K) : r = [i \in 1 .. n |-> s[f[i]]]
  BY DEF Without
<1>2. IsFiniteSet(K) /\ n \in Nat
  <2>1. DOMAIN s = 1 .. Len(s) /\ Len(s) \in Nat
    OBVIOUS
  <2>2. IsFiniteSet(1 .. Len(s))
    BY <2>1, FS_Interval
  <2> QED
    BY <2>1, <2>2, FS_Subset, FS_CardinalityType
<1>3. /\ f \in [1 .. n -> K]
      /\ \A i, j \in 1 .. n : i < j => f[i] < f[j]
  BY <1>1 DEF Ascending
<1>4. K \subseteq Nat
  OBVIOUS
<1> HIDE DEF K
<1>5. \A i, j \in 1 .. n : f[i] = f[j] => i = j
  <2> SUFFICES ASSUME NEW i \in 1 .. n, NEW j \in 1 .. n, i # j PROVE f[i] # f[j]
    OBVIOUS
  <2>1. f[i] \in K /\ f[j] \in K
    BY <1>3
  <2>2. f[i] \in Nat /\ f[j] \in Nat
    BY <1>4, <2>1
  <2>3. i < j \/ j < i
    BY <1>2
  <2> QED
    BY <1>3, <2>2, <2>3
<1>6. f \in Injection(1 .. n, K)
  BY <1>3, <1>5 DEF Injection, IsInjective
<1>7. Cardinality(1 .. n) = n
  BY <1>2, FS_Interval
<1>8. f \in Surjection(1 .. n, K)
  BY <1>2, <1>6, <1>7, FS_Injection
<1>9. \A k \in K : \E i \in 1 .. n : f[i] = k
  BY <1>8 DEF Surjection
<1>10. DOMAIN r = 1 .. n /\ \A i \in 1 .. n : r[i] = s[f[i]]
  BY <1>1
<1>11. Timers(r) = {s[k] : k \in K}
  BY <1>3, <1>9, <1>10 DEF Timers
<1> QED
  BY <1>11 DEF K

(* A context of a timeout is not the wildcard, so a key names itself only. *)
LEMMA MatchingIsKey ==
    ASSUME NEW s \in Seq(Timer), NEW k \in Key
    PROVE  Matching(s, k.h, k.e, k.u) = {i \in DOMAIN s : s[i].key = k}
<1>1. ASSUME NEW i \in DOMAIN s
      PROVE  s[i].key \in Key
  <2>1. s[i] \in Timer
    OBVIOUS
  <2> QED
    BY <2>1 DEF Timer
<1>2. ASSUME NEW q \in Key
      PROVE  q = k <=> q.h = k.h /\ k.e \in {AllCtx, q.e} /\ k.u \in {AllCtx, q.u}
  <2>1. k.e # AllCtx /\ k.u # AllCtx
    BY TimeoutAssumption DEF Key
  <2> QED
    BY <2>1 DEF Key
<1> QED
  BY <1>1, <1>2 DEF Matching

(* What is left of a list, and the new timeout: the call has one timeout     *)
(* under its key and leaves the others alone.                               *)
LEMMA ReregisterTimers ==
    ASSUME \A x \in Delays : FitsInt(x), AllocMayFail = FALSE,
           FireInv, NEW k \in Key, NEW d \in Delays, Reregister(k, d)
    PROVE  \E c \in {now, NextInstant(now)} :
              /\ now' = c
              /\ OtherKeys(timeout', k) = OtherKeys(timeout, k)
              /\ WithKey(timeout', k) = {NewTimer(k, c, d)}
<1>1. PICK c \in {now, NextInstant(now)} :
         /\ now' = c
         /\ \E rest \in Without(timeout, Matching(timeout, k.h, k.e, k.u)) :
               timeout' \in Registered(rest, k, c, d)
  BY DEF Reregister
<1>2. PICK rest \in Without(timeout, Matching(timeout, k.h, k.e, k.u)) :
         timeout' \in Registered(rest, k, c, d)
  BY <1>1
<1>3. /\ timeout \in Seq(Timer) /\ now \in ClockTime /\ nreg \in Nat
      /\ Sorted(timeout) /\ Numbered(timeout, nreg)
  BY DEF FireInv, OrderInv, TypeOK, TimeoutsOrdered
<1>4. rest \in Seq(Timer)
  BY <1>3, WithoutSorted
<1>5. c \in ClockTime
  BY <1>3, NextInstantType
<1>6. ~ (c.sec + CInt(d[1]) < c.sec)
  <2>1. d[1] <= IntMax /\ d[1] \in 0 .. UIntMax
    BY TimeoutAssumption DEF FitsInt
  <2>2. CInt(d[1]) = d[1] /\ d[1] \in Nat
    BY <2>1, TimeAssumption DEF CInt, UIntMax
  <2> QED
    BY <1>5, <2>2 DEF ClockTime
<1> DEFINE x == NewTimer(k, c, d)
<1>7. timeout' \in Inserted(rest, x)
  BY <1>2, <1>6 DEF Registered
<1>8. PICK p \in 1 .. Len(rest) + 1 : timeout' = PutAt(rest, p, x)
  BY <1>7 DEF Inserted, InsertPositions
<1>9. Timers(timeout') = Timers(rest) \cup {x}
  BY <1>4, <1>8, PutAtTimers
<1>10. Timers(rest) = {timeout[i] : i \in DOMAIN timeout \ {j \in DOMAIN timeout : timeout[j].key = k}}
  BY <1>3, WithoutTimers, MatchingIsKey
<1>11. Timers(rest) = OtherKeys(timeout, k)
  BY <1>10 DEF OtherKeys, Timers
<1>12. x.key = k
  BY DEF NewTimer
<1> HIDE DEF x
<1>13. OtherKeys(timeout', k) = OtherKeys(timeout, k) /\ WithKey(timeout', k) = {x}
  BY <1>9, <1>11, <1>12 DEF OtherKeys, WithKey
<1> QED
  BY <1>1, <1>13 DEF x

(* The first timeout under a key is the one of them that is due first.        *)
LEMMA FirstIsNearest ==
    ASSUME FireInv, NEW k \in Key, NEW i \in FirstMatch(timeout, k),
           NEW j \in DOMAIN timeout, j # i, timeout[j].key = k
    PROVE  DueBefore(timeout[i], timeout[j])
<1>1. timeout \in Seq(Timer) /\ Sorted(timeout)
  BY DEF FireInv, OrderInv, TypeOK, TimeoutsOrdered
<1>2. i \in DOMAIN timeout /\ i < j
  BY <1>1 DEF FirstMatch
<1>3. Precedes(timeout[i], timeout[j])
  BY <1>2, <1>1 DEF Sorted
<1> QED
  BY <1>2, <1>3, PrecedesIsDueBefore

(* The comparison of the two calls, as instants. *)
LEMMA LeftIsDue ==
    ASSUME FireInv, NEW i \in DOMAIN timeout, NEW d \in Delays, Normalised(d), FitsInt(d)
    PROVE  LET left == Sub(timeout[i].time, now)
               want == d[1] * USEC + d[2]
           IN  /\ Before(Requested(d), left) <=> want < timeout[i].due - Instant(now)
               /\ Before(left, Requested(d)) <=> timeout[i].due - Instant(now) < want
               /\ want \in Nat /\ timeout[i].due \in Int /\ Instant(now) \in Int
<1> DEFINE left == Sub(timeout[i].time, now)
           want == Requested(d)
<1>1. /\ timeout[i] \in Timer /\ now \in ClockTime
      /\ timeout[i].time.usec \in 0 .. USEC - 1 /\ Instant(timeout[i].time) = timeout[i].due
  BY DEF FireInv, OrderInv, TypeOK, IsOnTime
<1>2. /\ timeout[i].time \in RelTime /\ timeout[i].due \in Int
      /\ now \in RelTime /\ now.usec \in 0 .. USEC - 1
  BY <1>1, TimeAssumption DEF Timer, ClockTime, RelTime
<1>3. left \in RelTime /\ Instant(left) = timeout[i].due - Instant(now)
  BY <1>1, <1>2, SubInstant
<1>4. left.usec \in 0 .. USEC - 1
  BY <1>1, <1>2, TimeAssumption DEF Sub, RelTime
<1>5. d[1] \in 0 .. UIntMax /\ d[2] \in 0 .. UIntMax
  BY TimeoutAssumption
<1>6. d[1] \in Nat /\ d[2] \in Nat /\ CInt(d[1]) = d[1] /\ CInt(d[2]) = d[2] /\ d[2] < USEC
  BY <1>5, TimeAssumption DEF Normalised, FitsInt, CInt, UIntMax
<1>7. want \in RelTime /\ want.usec \in 0 .. USEC - 1 /\ Instant(want) = d[1] * USEC + d[2]
  BY <1>6, TimeAssumption DEF Requested, RelTime, Instant
<1>8. d[1] * USEC + d[2] \in Nat
  BY <1>6, TimeAssumption
<1>9. Instant(now) \in Int
  <2>1. now.sec \in Int /\ now.usec \in Int /\ USEC \in Int
    BY <1>2, TimeAssumption DEF RelTime
  <2> QED
    BY <2>1 DEF Instant
<1> HIDE DEF left, want
<1>10. /\ Before(want, left) <=> Instant(want) < Instant(left)
       /\ Before(left, want) <=> Instant(left) < Instant(want)
  BY <1>3, <1>4, <1>7, BeforeIsEarlier
<1> QED
  BY <1>2, <1>3, <1>7, <1>8, <1>9, <1>10 DEF left, want

(* When no delay of the program is changed by a cast and memory lasts, the calls  *)
(* do what eloop.h says: eloop_cancel_timeout_one takes the matching timeout that *)
(* is due first, eloop_deplete_timeout only shortens and eloop_replenish_timeout  *)
(* only lengthens, and each leaves the timeouts under other keys alone.           *)
THEOREM CallsKept ==
    ASSUME \A d \in Delays : FitsInt(d), AllocMayFail = FALSE
    PROVE  Spec => CallsAsDocumented
<1> DEFINE Cancels == \A k \in Key : CancelTimeoutOne(k) =>
               \E i \in DOMAIN timeout :
                  /\ timeout[i].key = k
                  /\ \A j \in DOMAIN timeout \ {i} :
                        timeout[j].key = k => DueBefore(timeout[i], timeout[j])
                  /\ Timers(timeout') = Timers(timeout) \ {timeout[i]}
           Depletes == \A k \in Key, d \in {x \in Delays : Normalised(x)} : DepleteTimeout(k, d) =>
               /\ OtherKeys(timeout', k) = OtherKeys(timeout, k)
               /\ \E t \in WithKey(timeout', k) :
                     /\ WithKey(timeout', k) = {t}
                     /\ \A old \in WithKey(timeout, k) : t.due < old.due + Elapsed
           Replenishes == \A k \in Key, d \in {x \in Delays : Normalised(x)} : ReplenishTimeout(k, d) =>
               /\ OtherKeys(timeout', k) = OtherKeys(timeout, k)
               /\ \E t \in WithKey(timeout', k) :
                     /\ WithKey(timeout', k) = {t}
                     /\ \E old \in WithKey(timeout, k) : t.due > old.due
                     /\ \A id \in {x.id : x \in WithKey(timeout, k)} : t.id > id
<1>1. Init => FireInv
  BY OrderInit DEF FireInv, Init
<1>2. FireInv /\ [Next]_vars => FireInv'
  BY FireNext
<1>3. FireInv => Cancels
  <2> SUFFICES ASSUME FireInv, NEW k \in Key, CancelTimeoutOne(k)
               PROVE  \E i \in DOMAIN timeout :
                         /\ timeout[i].key = k
                         /\ \A j \in DOMAIN timeout \ {i} :
                               timeout[j].key = k => DueBefore(timeout[i], timeout[j])
                         /\ Timers(timeout') = Timers(timeout) \ {timeout[i]}
    OBVIOUS
  <2>1. PICK i \in FirstMatch(timeout, k) : timeout' = DropAt(timeout, i)
    BY DEF CancelTimeoutOne
  <2>2. i \in DOMAIN timeout /\ timeout[i].key = k
    BY DEF FirstMatch
  <2>3. timeout \in Seq(Timer) /\ Sorted(timeout)
    BY DEF FireInv, OrderInv, TypeOK, TimeoutsOrdered
  <2>4. Timers(timeout') = Timers(timeout) \ {timeout[i]}
    BY <2>1, <2>2, <2>3, DropAtTimers
  <2> QED
    BY <2>2, <2>4, FirstIsNearest
<1>4. ASSUME FireInv, NEW k \in Key, NEW i \in FirstMatch(timeout, k), NEW old \in WithKey(timeout, k)
      PROVE  timeout[i].due <= old.due /\ timeout[i].due \in Int /\ old.due \in Int /\ old.id < nreg
  <2>1. PICK j \in DOMAIN timeout : old = timeout[j] /\ old.key = k
    BY DEF WithKey, Timers
  <2>2. i \in DOMAIN timeout
    BY DEF FirstMatch
  <2>3. timeout[i] \in Timer /\ timeout[j] \in Timer
    BY <1>4, <2>1, <2>2 DEF FireInv, OrderInv, TypeOK
  <2>4. timeout[i].due \in Int /\ timeout[j].due \in Int
    BY <2>3 DEF Timer
  <2>5. j = i \/ DueBefore(timeout[i], timeout[j])
    BY <1>4, <2>1, FirstIsNearest
  <2>6. timeout[j].id < nreg
    BY <1>4, <2>1 DEF FireInv, OrderInv, Numbered
  <2> QED
    BY <2>1, <2>4, <2>5, <2>6 DEF DueBefore
<1>5. ASSUME FireInv, NEW c \in {now, NextInstant(now)}
      PROVE  Instant(now) <= Instant(c) /\ Instant(c) \in Int /\ Instant(now) \in Int
  <2>1. now \in ClockTime /\ USEC \in Nat /\ USEC > 0
    BY <1>5, TimeAssumption DEF FireInv, OrderInv, TypeOK
  <2>2. (now.sec + 1) * USEC = now.sec * USEC + USEC /\ now.sec * USEC \in Int
    BY <2>1 DEF ClockTime
  <2>3. CASE now.usec = USEC - 1
    <3>1. NextInstant(now) = [sec |-> now.sec + 1, usec |-> 0]
      BY <2>3 DEF NextInstant
    <3>2. Instant(NextInstant(now)) = Instant(now) + 1
      BY <2>1, <2>2, <2>3, <3>1 DEF Instant, ClockTime
    <3>3. Instant(now) \in Int
      BY <2>1, <2>2 DEF Instant, ClockTime
    <3> QED
      BY <1>5, <3>2, <3>3
  <2>4. CASE now.usec # USEC - 1
    <3>1. NextInstant(now).sec = now.sec /\ NextInstant(now).usec = now.usec + 1
      BY <2>1, <2>4 DEF NextInstant, ClockTime
    <3>2. Instant(NextInstant(now)) = Instant(now) + 1 /\ Instant(now) \in Int
      BY <2>1, <2>2, <3>1 DEF Instant, ClockTime
    <3> QED
      BY <1>5, <3>2
  <2> QED
    BY <2>3, <2>4
<1>6. FireInv => Depletes
  <2> SUFFICES ASSUME FireInv, NEW k \in Key, NEW d \in Delays, Normalised(d), DepleteTimeout(k, d)
               PROVE  /\ OtherKeys(timeout', k) = OtherKeys(timeout, k)
                      /\ \E t \in WithKey(timeout', k) :
                            /\ WithKey(timeout', k) = {t}
                            /\ \A old \in WithKey(timeout, k) : t.due < old.due + Elapsed
    OBVIOUS
  <2>1. PICK i \in FirstMatch(timeout, k) : Before(Requested(d), Sub(timeout[i].time, now))
    BY DEF DepleteTimeout
  <2>2. PICK c \in {now, NextInstant(now)} :
           /\ now' = c
           /\ OtherKeys(timeout', k) = OtherKeys(timeout, k)
           /\ WithKey(timeout', k) = {NewTimer(k, c, d)}
    BY ReregisterTimers DEF DepleteTimeout
  <2> DEFINE want == d[1] * USEC + d[2]
  <2>3. want < timeout[i].due - Instant(now) /\ want \in Nat /\ timeout[i].due \in Int
    BY <2>1, LeftIsDue DEF FirstMatch
  <2>4. NewTimer(k, c, d).due = Instant(c) + d[1] * USEC + d[2]
    BY DEF NewTimer
  <2>5. d[1] * USEC \in Int /\ d[2] \in Int
    BY TimeAssumption, TimeoutAssumption DEF UIntMax
  <2>6. ASSUME NEW old \in WithKey(timeout, k)
        PROVE  NewTimer(k, c, d).due < old.due + Elapsed
    <3>1. timeout[i].due <= old.due /\ old.due \in Int
      BY <1>4
    <3>2. Elapsed = Instant(c) - Instant(now) /\ Instant(c) \in Int /\ Instant(now) \in Int
      BY <1>5, <2>2 DEF Elapsed
    <3> QED
      BY <2>3, <2>4, <2>5, <3>1, <3>2
  <2> QED
    BY <2>2, <2>6
<1>7. FireInv => Replenishes
  <2> SUFFICES ASSUME FireInv, NEW k \in Key, NEW d \in Delays, Normalised(d), ReplenishTimeout(k, d)
               PROVE  /\ OtherKeys(timeout', k) = OtherKeys(timeout, k)
                      /\ \E t \in WithKey(timeout', k) :
                            /\ WithKey(timeout', k) = {t}
                            /\ \E old \in WithKey(timeout, k) : t.due > old.due
                            /\ \A id \in {x.id : x \in WithKey(timeout, k)} : t.id > id
    OBVIOUS
  <2>1. PICK i \in FirstMatch(timeout, k) : Before(Sub(timeout[i].time, now), Requested(d))
    BY DEF ReplenishTimeout
  <2>2. PICK c \in {now, NextInstant(now)} :
           /\ now' = c
           /\ OtherKeys(timeout', k) = OtherKeys(timeout, k)
           /\ WithKey(timeout', k) = {NewTimer(k, c, d)}
    BY ReregisterTimers DEF ReplenishTimeout
  <2> DEFINE want == d[1] * USEC + d[2]
  <2>3. timeout[i].due - Instant(now) < want /\ want \in Nat /\ timeout[i].due \in Int
    BY <2>1, LeftIsDue DEF FirstMatch
  <2>4. NewTimer(k, c, d).due = Instant(c) + d[1] * USEC + d[2] /\ NewTimer(k, c, d).id = nreg
    BY DEF NewTimer
  <2>5. d[1] * USEC \in Int /\ d[2] \in Int
    BY TimeAssumption, TimeoutAssumption DEF UIntMax
  <2>6. Instant(now) <= Instant(c) /\ Instant(c) \in Int /\ Instant(now) \in Int
    BY <1>5
  <2>7. NewTimer(k, c, d).due > timeout[i].due
    BY <2>3, <2>4, <2>5, <2>6
  <2>8. timeout[i] \in WithKey(timeout, k)
    BY DEF WithKey, Timers, FirstMatch
  <2>9. \A id \in {x.id : x \in WithKey(timeout, k)} : NewTimer(k, c, d).id > id
    <3>1. \A old \in WithKey(timeout, k) : old.id < nreg
      BY <1>4, <2>1
    <3>2. \A id \in {x.id : x \in WithKey(timeout, k)} : id < nreg
      BY <3>1
    <3> QED
      BY <2>4, <3>2
  <2> QED
    BY <2>2, <2>7, <2>8, <2>9
<1>8. FireInv /\ [Next]_vars => [Cancels]_vars /\ [Depletes]_vars /\ [Replenishes]_vars
  BY <1>3, <1>6, <1>7
<1> QED
  BY <1>1, <1>2, <1>8, PTL
     DEF Spec, CallsAsDocumented, CancelOneTakesNearest, DepleteOnlyShortens, ReplenishOnlyLengthens
==========================================================================
