-------------------------- MODULE EloopSocksProofs --------------------------
(***************************************************************************)
(* Theorems about EloopSocks, for any descriptors, types of event and size *)
(* of the tables: select() watches every registered socket, a dispatch     *)
(* passes no ready one over, and calls none twice if none is registered    *)
(* twice.                                                                  *)
(***************************************************************************)
EXTENDS EloopSocks, FiniteSetTheorems, SequenceTheorems, TLAPS

USE DEF At

LEMMA OrderFacts ==
    /\ Len(Order) \in Nat \ {0}
    /\ \A i \in 1 .. Len(Order) : Order[i] \in Types
    /\ \A i, j \in 1 .. Len(Order) : Order[i] = Order[j] => i = j
<1> USE SockAssumption DEF Order, InUse
<1>1. CASE "read" \in Types /\ "write" \in Types
  <2>1. CASE "exception" \in Types
    BY <1>1, <2>1, SMT
  <2>2. CASE "exception" \notin Types
    BY <1>1, <2>2, SMT
  <2> QED
    BY <2>1, <2>2
<1>2. CASE "read" \in Types /\ "write" \notin Types
  <2>1. CASE "exception" \in Types
    BY <1>2, <2>1, SMT
  <2>2. CASE "exception" \notin Types
    BY <1>2, <2>2, SMT
  <2> QED
    BY <2>1, <2>2
<1>3. CASE "read" \notin Types /\ "write" \in Types
  <2>1. CASE "exception" \in Types
    BY <1>3, <2>1, SMT
  <2>2. CASE "exception" \notin Types
    BY <1>3, <2>2, SMT
  <2> QED
    BY <2>1, <2>2
<1>4. CASE "read" \notin Types /\ "write" \notin Types
  <2>1. "exception" \in Types
    BY <1>4, Zenon
  <2> QED
    BY <1>4, <2>1, SMT
<1> QED
  BY <1>1, <1>2, <1>3, <1>4

LEMMA EntriesFinite == IsFiniteSet(Entries)
<1>1. IsFiniteSet({"read", "write", "exception"})
  <2>1. IsFiniteSet({} \cup {"read"})
    BY FS_EmptySet, FS_AddElement
  <2>2. IsFiniteSet(({} \cup {"read"}) \cup {"write"})
    BY <2>1, FS_AddElement
  <2>3. IsFiniteSet((({} \cup {"read"}) \cup {"write"}) \cup {"exception"})
    BY <2>2, FS_AddElement
  <2>4. (({} \cup {"read"}) \cup {"write"}) \cup {"exception"} = {"read", "write", "exception"}
    OBVIOUS
  <2> QED
    BY <2>3, <2>4
<1>2. IsFiniteSet(Types)
  BY <1>1, FS_Subset, SockAssumption
<1>3. IsFiniteSet(1 .. MaxTable)
  BY FS_Interval, SockAssumption, SMT
<1>4. IsFiniteSet(Types \X (1 .. MaxTable))
  BY <1>2, <1>3, FS_Product
<1>5. Entries \in SUBSET (Types \X (1 .. MaxTable))
  BY DEF Entries
<1> QED
  BY <1>4, <1>5, FS_Subset

(* What the removal of an entry leaves: the later ones have moved up.           *)
LEMMA Removal ==
    ASSUME NEW q \in Seq(Socks), NEW i \in DOMAIN q
    PROVE  LET r == SubSeq(q, 1, i - 1) \o SubSeq(q, i + 1, Len(q))
           IN  /\ r \in Seq(Socks)
               /\ Len(r) = Len(q) - 1
               /\ \A j \in 1 .. i - 1 : r[j] = q[j]
               /\ \A j \in i .. Len(q) - 1 : r[j] = q[j + 1]
<1> DEFINE front == SubSeq(q, 1, i - 1)
           rear == SubSeq(q, i + 1, Len(q))
<1>1. Len(q) \in Nat /\ i \in 1 .. Len(q)
  BY SMT
<1>2. front \in Seq(Socks) /\ Len(front) = i - 1 /\ \A j \in 1 .. i - 1 : front[j] = q[j]
  BY <1>1, SMT
<1>3. rear \in Seq(Socks) /\ Len(rear) = Len(q) - i /\ \A j \in 1 .. Len(q) - i : rear[j] = q[j + i]
  BY <1>1, SMT
<1> HIDE DEF front, rear
<1>4. /\ front \o rear \in Seq(Socks)
      /\ Len(front \o rear) = Len(front) + Len(rear)
      /\ \A j \in 1 .. Len(front) + Len(rear) :
            (front \o rear)[j] = IF j <= Len(front) THEN front[j] ELSE rear[j - Len(front)]
  BY <1>2, <1>3, ConcatProperties
<1>5. ASSUME NEW j \in i .. Len(q) - 1
      PROVE  (front \o rear)[j] = q[j + 1]
  <2>1. (front \o rear)[j] = rear[j - (i - 1)]
    <3>1. j \in 1 .. Len(front) + Len(rear) /\ ~ j <= Len(front) /\ Len(front) = i - 1
      BY <1>1, <1>2, <1>3, SMT
    <3> QED
      BY <1>4, <3>1
  <2>2. j - (i - 1) \in 1 .. Len(q) - i /\ (j - (i - 1)) + i = j + 1
    BY <1>1, SMT
  <2> QED
    BY <1>3, <2>1, <2>2
<1>6. \A j \in 1 .. i - 1 : (front \o rear)[j] = q[j]
  BY <1>1, <1>2, <1>3, <1>4, SMT
<1>7. Len(front \o rear) = Len(q) - 1
  BY <1>1, <1>2, <1>3, <1>4, SMT
<1> QED
  BY <1>4, <1>5, <1>6, <1>7 DEF front, rear

--------------------------------------------------------------------------
(* Calls of the program, and what they do to one table.                         *)

LEMMA RegisterGrows ==
    ASSUME WatchInv, NEW t \in Types, NEW s \in Socks, RegisterSock(t, s), table' # table
    PROVE  /\ table' = [table EXCEPT ![t] = Append(@, s)]
           /\ Append(table[t], s) \in Seq(Socks)
           /\ Len(table'[t]) = Len(table[t]) + 1 /\ Len(table'[t]) <= MaxTable
           /\ \A j \in 1 .. Len(table[t]) : table'[t][j] = table[t][j]
           /\ table'[t][Len(table[t]) + 1] = s
           /\ Entries' = Entries \cup {<<t, Len(table[t]) + 1>>}
           /\ <<t, Len(table[t]) + 1>> \notin Entries
           /\ count' = count + 1
           /\ changed' = [changed EXCEPT ![t] = TRUE]
           /\ max_sock' = IF s > max_sock THEN s ELSE max_sock
<1>1. /\ table' = [table EXCEPT ![t] = Append(@, s)]
      /\ count' = count + 1 /\ changed' = [changed EXCEPT ![t] = TRUE]
      /\ max_sock' = IF s > max_sock THEN s ELSE max_sock
      /\ Len(table[t]) < MaxTable
  BY DEF RegisterSock
<1>2. table \in [Types -> Seq(Socks)] /\ table[t] \in Seq(Socks)
  BY DEF WatchInv, TypeOK
<1>3. /\ Append(table[t], s) \in Seq(Socks)
      /\ table'[t] = Append(table[t], s)
      /\ \A u \in Types \ {t} : table'[u] = table[u]
  BY <1>1, <1>2, SMT
<1>4. /\ Len(table'[t]) = Len(table[t]) + 1 /\ Len(table'[t]) <= MaxTable
      /\ \A j \in 1 .. Len(table[t]) : table'[t][j] = table[t][j]
      /\ table'[t][Len(table[t]) + 1] = s
      /\ Len(table[t]) \in Nat
  BY <1>1, <1>2, <1>3, SockAssumption, SMT
<1>5. \A u \in Types, j \in 1 .. MaxTable :
         j <= Len(table'[u]) <=> j <= Len(table[u]) \/ (u = t /\ j = Len(table[t]) + 1)
  BY <1>3, <1>4, SockAssumption, SMT
<1>6. Entries' = Entries \cup {<<t, Len(table[t]) + 1>>}
  <2>1. Len(table[t]) + 1 \in 1 .. MaxTable
    BY <1>4, SockAssumption, SMT
  <2>2. \A u \in Types, j \in 1 .. MaxTable :
           <<u, j>> \in Entries' <=> <<u, j>> \in Entries \/ <<u, j>> = <<t, Len(table[t]) + 1>>
    BY <1>5, SMT DEF Entries
  <2>3. \A p \in Types \X (1 .. MaxTable) :
           p \in Entries' <=> p \in Entries \cup {<<t, Len(table[t]) + 1>>}
    BY <2>2, SMT
  <2>4. Entries' \subseteq Types \X (1 .. MaxTable) /\ Entries \subseteq Types \X (1 .. MaxTable)
    BY DEF Entries
  <2>5. <<t, Len(table[t]) + 1>> \in Types \X (1 .. MaxTable)
    BY <2>1
  <2> QED
    BY <2>3, <2>4, <2>5
<1>7. <<t, Len(table[t]) + 1>> \notin Entries
  BY <1>4, SMT DEF Entries
<1> QED
  BY <1>1, <1>3, <1>4, <1>6, <1>7

LEMMA UnregisterShrinks ==
    ASSUME WatchInv, NEW t \in Types, NEW s \in Socks, UnregisterSock(t, s)
    PROVE  \E i \in 1 .. Len(table[t]) :
             /\ table' \in [Types -> Seq(Socks)]
             /\ \A u \in Types \ {t} : table'[u] = table[u]
             /\ Len(table'[t]) = Len(table[t]) - 1
             /\ \A j \in 1 .. i - 1 : table'[t][j] = table[t][j]
             /\ \A j \in i .. Len(table[t]) - 1 : table'[t][j] = table[t][j + 1]
             /\ Entries' = Entries \ {<<t, Len(table[t])>>}
             /\ <<t, Len(table[t])>> \in Entries
             /\ count' = count - 1
             /\ changed' = [changed EXCEPT ![t] = TRUE]
<1>1. table \in [Types -> Seq(Socks)] /\ table[t] \in Seq(Socks) /\ Len(table[t]) <= MaxTable
  BY DEF WatchInv, TypeOK
<1>2. PICK i \in DOMAIN table[t] :
         table' = [table EXCEPT ![t] = SubSeq(@, 1, i - 1) \o SubSeq(@, i + 1, Len(@))]
  BY DEF UnregisterSock
<1>3. table'[t] = SubSeq(table[t], 1, i - 1) \o SubSeq(table[t], i + 1, Len(table[t]))
      /\ \A u \in Types \ {t} : table'[u] = table[u]
  BY <1>1, <1>2
<1>4. /\ table'[t] \in Seq(Socks)
      /\ Len(table'[t]) = Len(table[t]) - 1
      /\ \A j \in 1 .. i - 1 : table'[t][j] = table[t][j]
      /\ \A j \in i .. Len(table[t]) - 1 : table'[t][j] = table[t][j + 1]
  BY <1>1, <1>3, Removal
<1>5. table' \in [Types -> Seq(Socks)]
  BY <1>1, <1>2, <1>3, <1>4
<1>6. i \in 1 .. Len(table[t]) /\ Len(table[t]) \in Nat
  BY <1>1, SMT
<1>7. \A u \in Types, j \in 1 .. MaxTable :
         j <= Len(table'[u]) <=> j <= Len(table[u]) /\ ~ (u = t /\ j = Len(table[t]))
  <2>1. \A j \in 1 .. MaxTable : j <= Len(table[t]) - 1 <=> j <= Len(table[t]) /\ j # Len(table[t])
    BY <1>6, SockAssumption, SMT
  <2> QED
    BY <1>3, <1>4, <2>1
<1>8. Entries' = Entries \ {<<t, Len(table[t])>>}
  BY <1>7, SMT DEF Entries
<1>9. <<t, Len(table[t])>> \in Entries
  BY <1>1, <1>6, SMT DEF Entries
<1>10. count' = count - 1 /\ changed' = [changed EXCEPT ![t] = TRUE]
  BY DEF UnregisterSock
<1> QED
  BY <1>3, <1>4, <1>5, <1>6, <1>8, <1>9, <1>10

--------------------------------------------------------------------------
(* What select() is given.                                                      *)

LEMMA WatchInit == Init => WatchInv
<1> SUFFICES ASSUME Init
             PROVE  WatchInv
  OBVIOUS
<1>1. count = Cardinality(Entries)
  <2>1. Entries = {}
    BY SMT DEF Init, Entries
  <2> QED
    BY <2>1, FS_EmptySet DEF Init
<1>2. place \in [at : {"away", "select", "between", "dispatch", "handler"},
                t : 1 .. Len(Order), i : Nat \ {0}]
  BY OrderFacts, SMT DEF Init
<1>3. \A t \in Types : Len(table[t]) <= MaxTable
  BY SockAssumption, SMT DEF Init
<1>4. /\ table \in [Types -> Seq(Socks)] /\ changed \in [Types -> BOOLEAN]
      /\ max_sock \in Nat /\ fds \in [Types -> SUBSET Socks]
      /\ data \subseteq Event /\ called \subseteq Event
  BY DEF Init
<1>5. \A t \in Types : InTable(t) = {}
  BY SMT DEF Init, InTable
<1> QED
  BY <1>1, <1>2, <1>3, <1>4, <1>5, SMT DEF WatchInv, TypeOK, Init

LEMMA TableFacts ==
    ASSUME WatchInv, NEW t \in Types
    PROVE  /\ table[t] \in Seq(Socks) /\ Len(table[t]) \in Nat
           /\ DOMAIN table[t] = 1 .. Len(table[t])
           /\ InTable(t) = {table[t][i] : i \in 1 .. Len(table[t])}
           /\ InTable(t) \subseteq Socks /\ InTable(t) \subseteq Nat
<1>1. table[t] \in Seq(Socks)
  BY DEF WatchInv, TypeOK
<1>2. Len(table[t]) \in Nat /\ DOMAIN table[t] = 1 .. Len(table[t])
  BY <1>1
<1>3. \A i \in 1 .. Len(table[t]) : table[t][i] \in Socks
  BY <1>1
<1> QED
  BY <1>1, <1>2, <1>3, SockAssumption DEF InTable

(* place.i goes up.                                                             *)
LEMMA PlaceTypes ==
    ASSUME WatchInv, NEW at \in {"away", "select", "between", "dispatch", "handler"}
    PROVE  /\ [place EXCEPT !.at = at] \in
                 [at : {"away", "select", "between", "dispatch", "handler"}, t : 1 .. Len(Order), i : Nat \ {0}]
           /\ [place EXCEPT !.at = at, !.i = @ + 1] \in
                 [at : {"away", "select", "between", "dispatch", "handler"}, t : 1 .. Len(Order), i : Nat \ {0}]
           /\ [place EXCEPT !.at = at].at = at /\ [place EXCEPT !.at = at, !.i = @ + 1].at = at
           /\ [place EXCEPT !.i = @ + 1] \in
                 [at : {place.at}, t : 1 .. Len(Order), i : Nat \ {0}]
<1>1. /\ place = [at |-> place.at, t |-> place.t, i |-> place.i]
      /\ place.t \in 1 .. Len(Order) /\ place.i \in Nat \ {0}
  BY SMT DEF WatchInv, TypeOK
<1>2. place.i + 1 \in Nat \ {0}
  BY <1>1, SMT
<1> QED
  BY <1>1, <1>2

LEMMA RegisterWatches ==
    ASSUME WatchInv, NEW t \in Types, NEW s \in Socks, RegisterSock(t, s)
    PROVE  WatchInv'
<1>1. UNCHANGED <<fds, place, data, called>> /\ place.at # "select"
  BY DEF RegisterSock, MayCall
<1>2. CASE table' = table
  BY <1>1, <1>2, SMT DEF RegisterSock, WatchInv, TypeOK, InTable, Entries, Event
<1>3. CASE table' # table
  <2>1. /\ table' = [table EXCEPT ![t] = Append(@, s)]
        /\ Append(table[t], s) \in Seq(Socks)
        /\ Len(table'[t]) <= MaxTable
        /\ changed' = [changed EXCEPT ![t] = TRUE]
        /\ max_sock' = IF s > max_sock THEN s ELSE max_sock
    BY <1>3, RegisterGrows
  <2>2. count' = Cardinality(Entries')
    <3> DEFINE p == <<t, Len(table[t]) + 1>>
    <3>1. Entries' = Entries \cup {p} /\ p \notin Entries /\ count' = count + 1
      BY <1>3, RegisterGrows
    <3>2. Cardinality(Entries \cup {p}) = Cardinality(Entries) + 1
      BY <3>1, EntriesFinite, FS_AddElement
    <3> QED
      BY <3>1, <3>2 DEF WatchInv, TypeOK
  <2>3. table' \in [Types -> Seq(Socks)] /\ changed' \in [Types -> BOOLEAN]
    BY <2>1 DEF WatchInv, TypeOK
  <2>4. max_sock' \in Nat /\ s <= max_sock' /\ max_sock <= max_sock'
    BY <2>1, SockAssumption, SMT DEF WatchInv, TypeOK
  <2>5. \A u \in Types : \A x \in InTable(u)' : x = s \/ x \in InTable(u)
    <3>1. \A u \in Types \ {t} : InTable(u)' = InTable(u)
      BY <2>1 DEF InTable, WatchInv, TypeOK
    <3>2. /\ DOMAIN table[t] = 1 .. Len(table[t]) /\ Len(table[t]) \in Nat
          /\ Len(table'[t]) = Len(table[t]) + 1
          /\ \A j \in 1 .. Len(table[t]) : table'[t][j] = table[t][j]
          /\ table'[t][Len(table[t]) + 1] = s
      BY <1>3, RegisterGrows, TableFacts
    <3>3. DOMAIN table'[t] = 1 .. Len(table[t]) + 1
      <4>1. table'[t] \in Seq(Socks)
        BY <2>1 DEF WatchInv, TypeOK
      <4> QED
        BY <3>2, <4>1
    <3>4. \A i \in DOMAIN table'[t] : table'[t][i] = s \/ (i \in DOMAIN table[t] /\ table'[t][i] = table[t][i])
      <4> SUFFICES ASSUME NEW i \in DOMAIN table'[t]
                   PROVE  table'[t][i] = s \/ (i \in DOMAIN table[t] /\ table'[t][i] = table[t][i])
        OBVIOUS
      <4>1. i \in 1 .. Len(table[t]) \/ i = Len(table[t]) + 1
        BY <3>2, <3>3, SMT
      <4>2. CASE i \in 1 .. Len(table[t])
        BY <3>2, <4>2
      <4>3. CASE i = Len(table[t]) + 1
        BY <3>2, <4>3, SMT
      <4> QED
        BY <4>1, <4>2, <4>3
    <3> QED
      BY <3>1, <3>4 DEF InTable
  <2>6. \A u \in Types : \A x \in InTable(u) : x \in Nat
    BY TableFacts
  <2>7. \A u \in Types : \A x \in InTable(u)' : x <= max_sock'
    BY <2>4, <2>5, <2>6, SMT DEF WatchInv, TypeOK
  <2>8. \A u \in Types : Len(table'[u]) <= MaxTable
    BY <2>1 DEF WatchInv, TypeOK
  <2> QED
    BY <1>1, <2>2, <2>3, <2>4, <2>7, <2>8 DEF WatchInv, TypeOK, Event
<1> QED
  BY <1>2, <1>3

LEMMA UnregisterWatches ==
    ASSUME WatchInv, NEW t \in Types, NEW s \in Socks, UnregisterSock(t, s)
    PROVE  WatchInv'
<1>1. UNCHANGED <<max_sock, fds, place, data, called>> /\ place.at # "select"
  BY DEF UnregisterSock, MayCall
<1>2. /\ table' \in [Types -> Seq(Socks)]
      /\ \A u \in Types \ {t} : table'[u] = table[u]
      /\ Len(table'[t]) = Len(table[t]) - 1
      /\ changed' = [changed EXCEPT ![t] = TRUE]
  BY UnregisterShrinks
<1>3. count' = Cardinality(Entries')
  <2>1. /\ Entries' = Entries \ {<<t, Len(table[t])>>}
        /\ <<t, Len(table[t])>> \in Entries
        /\ count' = count - 1
    BY UnregisterShrinks
  <2>2. Cardinality(Entries \ {<<t, Len(table[t])>>}) = Cardinality(Entries) - 1
    BY <2>1, EntriesFinite, FS_RemoveElement
  <2> QED
    BY <2>1, <2>2 DEF WatchInv, TypeOK
<1>4. \A u \in Types : Len(table'[u]) <= MaxTable
  BY <1>2, SockAssumption, SMT DEF WatchInv, TypeOK
<1>5. \A u \in Types : InTable(u)' \subseteq InTable(u)
  <2>1. InTable(t)' \subseteq InTable(t)
    <3>1. PICK i \in 1 .. Len(table[t]) :
             /\ \A j \in 1 .. i - 1 : table'[t][j] = table[t][j]
             /\ \A j \in i .. Len(table[t]) - 1 : table'[t][j] = table[t][j + 1]
      BY UnregisterShrinks
    <3>2. DOMAIN table[t] = 1 .. Len(table[t]) /\ Len(table[t]) \in Nat
      BY TableFacts
    <3>3. DOMAIN table'[t] = 1 .. Len(table[t]) - 1
      BY <1>2, <3>2, SMT
    <3>4. \A j \in 1 .. Len(table[t]) - 1 : \E k \in 1 .. Len(table[t]) : table'[t][j] = table[t][k]
      <4> SUFFICES ASSUME NEW j \in 1 .. Len(table[t]) - 1
                   PROVE  \E k \in 1 .. Len(table[t]) : table'[t][j] = table[t][k]
        OBVIOUS
      <4>1. j \in 1 .. Len(table[t]) /\ j + 1 \in 1 .. Len(table[t])
            /\ (j \in 1 .. i - 1 \/ j \in i .. Len(table[t]) - 1)
        BY <3>2, SMT
      <4> QED
        BY <3>1, <4>1
    <3> QED
      BY <3>2, <3>3, <3>4 DEF InTable
  <2> QED
    BY <1>2, <2>1 DEF InTable
<1> QED
  BY <1>1, <1>2, <1>3, <1>4, <1>5, SMT DEF WatchInv, TypeOK, Event

(* Where a dispatch goes next.                                                  *)
LEMMA DispatchTypes ==
    ASSUME WatchInv, NEW n \in Nat \ {0}, Dispatch(n)
    PROVE  /\ place' \in [at : {"away", "dispatch"}, t : 1 .. Len(Order), i : Nat \ {0}]
           /\ changed' \in [Types -> BOOLEAN]
           /\ place'.at = "dispatch" =>
                 n <= Len(Order) /\ place'.t = n /\ place'.i = 1 /\ ~ changed'[Order[n]]
<1>1. CASE n > Len(Order)
  BY <1>1, OrderFacts, SMT DEF Dispatch, WatchInv, TypeOK
<1>2. CASE ~ n > Len(Order)
  <2>1. n \in 1 .. Len(Order) /\ Order[n] \in Types
    BY <1>2, OrderFacts, SMT
  <2>2. /\ place' = [at |-> "dispatch", t |-> n, i |-> 1]
        /\ changed' = [changed EXCEPT ![Order[n]] = FALSE]
    BY <1>2 DEF Dispatch
  <2>3. changed' \in [Types -> BOOLEAN] /\ ~ changed'[Order[n]]
    BY <2>1, <2>2 DEF WatchInv, TypeOK
  <2> QED
    BY <2>1, <2>2, <2>3, SMT
<1> QED
  BY <1>1, <1>2

LEMMA LoopWatches ==
    ASSUME WatchInv, Loop \/ (\E s \in Socks : Reopen(s)) \/ (\E e \in Event : Arrive(e))
    PROVE  WatchInv'
<1>1. UNCHANGED <<table, max_sock, count>>
  BY DEF Loop, Reopen, Arrive, PrepareSelect, SelectReady, SelectTimesOut, SelectInterrupted,
         BeginDispatch, SkipEntry, EndTable, CallHandler, HandlerReturns
<1>2. /\ \A t \in Types : InTable(t)' = InTable(t)
      /\ Entries' = Entries
  BY <1>1 DEF InTable, Entries
<1>3. \A t \in Types : InTable(t) \subseteq Socks
  BY SMT DEF InTable, WatchInv, TypeOK
<1>4. SUFFICES /\ place' \in [at : {"away", "select", "between", "dispatch", "handler"},
                              t : 1 .. Len(Order), i : Nat \ {0}]
               /\ changed' \in [Types -> BOOLEAN]
               /\ fds' \in [Types -> SUBSET Socks]
               /\ data' \subseteq Event /\ called' \subseteq Event
               /\ place'.at = "select" => \A t \in Types : fds'[t] = InTable(t)
  BY <1>1, <1>2 DEF WatchInv, TypeOK
<1> USE <1>3, OrderFacts DEF WatchInv, TypeOK
<1>5. CASE (\E s \in Socks : Reopen(s)) \/ (\E e \in Event : Arrive(e))
  BY <1>5, SMT DEF Reopen, Arrive
<1>6. CASE PrepareSelect
  BY <1>6, SMT DEF PrepareSelect
<1>7. CASE SelectReady
  BY <1>7, SMT DEF SelectReady, Ready
<1>8. CASE SelectTimesOut \/ SelectInterrupted
  BY <1>8, SMT DEF SelectTimesOut, SelectInterrupted
<1>9. CASE BeginDispatch
  BY <1>9, DispatchTypes, SMT DEF BeginDispatch
<1>10. CASE SkipEntry
  <2>1. place' \in [at : {"dispatch"}, t : 1 .. Len(Order), i : Nat \ {0}]
    BY <1>10, PlaceTypes DEF SkipEntry
  <2> QED
    BY <1>10, <2>1, SMT DEF SkipEntry
<1>11. CASE EndTable
  <2>1. place.t + 1 \in Nat \ {0}
    BY SMT
  <2> QED
    BY <1>11, <2>1, DispatchTypes, SMT DEF EndTable
<1>12. CASE CallHandler
  <2>1. CurrentEvent \in Event
    BY <1>12, SMT DEF CallHandler, CurrentEvent, Current, Event
  <2> QED
    <3>1. place' = [place EXCEPT !.at = "handler"] /\ fds' = fds /\ changed' = changed
          /\ data' = data \ {CurrentEvent} /\ called' = called \cup {CurrentEvent}
      BY <1>12 DEF CallHandler
    <3>2. place'.at # "select"
          /\ place' \in [at : {"away", "select", "between", "dispatch", "handler"},
                         t : 1 .. Len(Order), i : Nat \ {0}]
      BY <3>1, PlaceTypes
    <3> QED
      BY <2>1, <3>1, <3>2
<1>13. CASE HandlerReturns
  <2>1. CASE changed[Order[place.t]]
    <3>1. place.t + 1 \in Nat \ {0}
      BY SMT
    <3> QED
      BY <1>13, <2>1, <3>1, DispatchTypes, SMT DEF HandlerReturns
  <2>2. CASE ~ changed[Order[place.t]]
    <3>1. place' = [place EXCEPT !.at = "dispatch", !.i = @ + 1] /\ fds' = fds /\ changed' = changed
          /\ data' = data /\ called' = called
      BY <1>13, <2>2 DEF HandlerReturns
    <3>2. place'.at # "select"
          /\ place' \in [at : {"away", "select", "between", "dispatch", "handler"},
                         t : 1 .. Len(Order), i : Nat \ {0}]
      BY <3>1, PlaceTypes
    <3> QED
      BY <3>1, <3>2
  <2> QED
    BY <2>1, <2>2
<1> QED
  BY <1>5, <1>6, <1>7, <1>8, <1>9, <1>10, <1>11, <1>12, <1>13 DEF Loop

LEMMA WatchNext == WatchInv /\ [Next]_vars => WatchInv'
<1> SUFFICES ASSUME WatchInv, [Next]_vars
             PROVE  WatchInv'
  OBVIOUS
<1>1. CASE Next
  BY <1>1, RegisterWatches, UnregisterWatches, LoopWatches DEF Next
<1>2. CASE UNCHANGED vars
  BY <1>2 DEF vars, WatchInv, TypeOK, InTable, Entries, Event
<1> QED
  BY <1>1, <1>2

(* Whatever is registered and unregistered, in set-up code or in callbacks, the *)
(* arguments of select() have every registered socket, and eloop.count is the    *)
(* number of entries.                                                           *)
THEOREM SelectWatches == Spec => []TablesInv
<1>1. WatchInv => TablesInv
  BY DEF WatchInv, TablesInv, SelectWatchesAll
<1> QED
  BY WatchInit, WatchNext, <1>1, PTL DEF Spec

--------------------------------------------------------------------------
(* The dispatch passes nothing over.                                            *)

LEMMA CurrentFacts ==
    ASSUME WatchInv
    PROVE  /\ place.t \in 1 .. Len(Order) /\ Order[place.t] \in Types
           /\ place.i \in Nat \ {0}
           /\ DOMAIN Current = 1 .. Len(Current) /\ Len(Current) \in Nat
           /\ InTable(Order[place.t]) = {Current[i] : i \in DOMAIN Current}
<1>1. place.t \in 1 .. Len(Order) /\ place.i \in Nat \ {0}
  BY SMT DEF WatchInv, TypeOK
<1>2. Order[place.t] \in Types
  BY <1>1, OrderFacts
<1> QED
  BY <1>1, <1>2, TableFacts DEF Current, InTable

(* A call that leaves the table of the dispatch unmarked leaves it alone.       *)
LEMMA CallsMark ==
    ASSUME WatchInv, NEW t \in Types, NEW s \in Socks,
           RegisterSock(t, s) \/ UnregisterSock(t, s)
    PROVE  /\ UNCHANGED <<fds, place, called>> /\ place.at \in {"away", "between", "handler"}
           /\ ~ changed'[Order[place.t]] =>
                 table'[Order[place.t]] = table[Order[place.t]] /\ ~ changed[Order[place.t]]
<1>1. UNCHANGED <<fds, place, called>> /\ place.at \in {"away", "between", "handler"}
  BY DEF RegisterSock, UnregisterSock, MayCall
<1>2. Order[place.t] \in Types
  BY CurrentFacts
<1>3. CASE table' = table /\ changed' = changed
  BY <1>1, <1>3
<1>4. CASE /\ changed' = [changed EXCEPT ![t] = TRUE]
           /\ \A u \in Types \ {t} : table'[u] = table[u]
  BY <1>1, <1>2, <1>4 DEF WatchInv, TypeOK
<1>5. CASE RegisterSock(t, s)
  <2>1. \/ table' = table /\ changed' = changed
        \/ table' = [table EXCEPT ![t] = Append(@, s)] /\ changed' = [changed EXCEPT ![t] = TRUE]
    BY <1>5 DEF RegisterSock
  <2> QED
    BY <1>3, <1>4, <2>1 DEF WatchInv, TypeOK
<1>6. CASE UnregisterSock(t, s)
  BY <1>4, <1>6, UnregisterShrinks
<1> QED
  BY <1>5, <1>6

LEMMA WalkInit == Init => WalkInv
<1> SUFFICES ASSUME Init
             PROVE  WalkInv
  OBVIOUS
<1>1. place.at = "away"
  BY DEF Init
<1> QED
  BY <1>1, WatchInit DEF WalkInv

(* A dispatch begins with nothing passed.                                       *)
LEMMA DispatchWalks ==
    ASSUME WatchInv, WatchInv', NEW n \in Nat \ {0}, Dispatch(n)
    PROVE  WalkInv'
<1>1. place'.at \in {"away", "dispatch"}
  BY DispatchTypes, SMT
<1>2. CASE place'.at = "dispatch"
  <2>1. place'.t = n /\ place'.i = 1 /\ ~ changed'[Order[n]]
    BY <1>2, DispatchTypes
  <2>2. DOMAIN Current' = 1 .. Len(Current')
    <3>1. Current' \in Seq(Socks)
      BY OrderFacts, SMT DEF WatchInv, TypeOK, Current
    <3> QED
      BY <3>1
  <2>3. Passed(place.i - 1)'
    BY <2>1, <2>2, SMT DEF Passed
  <2> QED
    BY <1>2, <2>1, <2>3 DEF WalkInv
<1> QED
  BY <1>1, <1>2 DEF WalkInv

LEMMA WalkNext == WalkInv /\ [Next]_vars => WalkInv'
<1> SUFFICES ASSUME WalkInv, [Next]_vars
             PROVE  WalkInv'
  OBVIOUS
<1>1. WatchInv /\ WatchInv'
  BY WatchNext DEF WalkInv
<1>2. /\ place.t \in 1 .. Len(Order) /\ Order[place.t] \in Types /\ place.i \in Nat \ {0}
      /\ DOMAIN Current = 1 .. Len(Current) /\ Len(Current) \in Nat
  BY <1>1, CurrentFacts
<1>3. ASSUME NEW t \in Types, NEW s \in Socks, RegisterSock(t, s) \/ UnregisterSock(t, s)
      PROVE  WalkInv'
  <2>1. /\ UNCHANGED <<fds, place, called>> /\ place.at \in {"away", "between", "handler"}
        /\ ~ changed'[Order[place.t]] =>
              table'[Order[place.t]] = table[Order[place.t]] /\ ~ changed[Order[place.t]]
    BY <1>1, <1>3, CallsMark
  <2> QED
    BY <1>1, <2>1 DEF WalkInv, Passed, Current
<1>4. CASE (\E s \in Socks : Reopen(s)) \/ (\E e \in Event : Arrive(e)) \/ UNCHANGED vars
  BY <1>1, <1>4 DEF Reopen, Arrive, vars, WalkInv, Passed, Current
<1>5. CASE PrepareSelect \/ SelectReady \/ SelectTimesOut \/ SelectInterrupted
  <2>1. place'.at \in {"select", "between", "away"}
    BY <1>1, <1>5, PlaceTypes DEF PrepareSelect, SelectReady, SelectTimesOut, SelectInterrupted
  <2> QED
    BY <1>1, <2>1 DEF WalkInv
<1>6. CASE BeginDispatch
  BY <1>1, <1>6, DispatchWalks DEF BeginDispatch
<1>7. place.t + 1 \in Nat \ {0}
  BY <1>2, OrderFacts, SMT
<1>8. CASE EndTable
  BY <1>1, <1>7, <1>8, DispatchWalks DEF EndTable
<1>9. CASE SkipEntry
  <2>1. /\ place' = [place EXCEPT !.i = @ + 1] /\ UNCHANGED <<table, changed, fds, called>>
        /\ place.at = "dispatch" /\ Current[place.i] \notin fds[Order[place.t]]
    BY <1>9 DEF SkipEntry
  <2>2. place'.at = "dispatch" /\ place'.t = place.t /\ place'.i = place.i + 1
    BY <1>1, <2>1, SMT DEF WatchInv, TypeOK
  <2>3. ~ changed[Order[place.t]] /\ Passed(place.i - 1)
    BY <2>1 DEF WalkInv
  <2>4. Passed(place.i)
    BY <1>2, <2>1, <2>3, SMT DEF Passed
  <2>5. Passed(place.i - 1)'
    <3>1. place'.i - 1 = place.i
      BY <1>2, <2>2, SMT
    <3> QED
      BY <2>1, <2>2, <2>4, <3>1 DEF Passed, Current
  <2> QED
    BY <1>1, <2>1, <2>2, <2>3, <2>5 DEF WalkInv
<1>10. CASE CallHandler
  <2>1. /\ place' = [place EXCEPT !.at = "handler"] /\ UNCHANGED <<table, changed, fds>>
        /\ place.at = "dispatch" /\ called' = called \cup {CurrentEvent}
    BY <1>10 DEF CallHandler
  <2>2. place'.at = "handler" /\ place'.t = place.t /\ place'.i = place.i
    BY <1>1, <2>1, SMT DEF WatchInv, TypeOK
  <2>3. Passed(place.i - 1)
    BY <2>1 DEF WalkInv
  <2>4. Passed(place.i)'
    <3>1. \A i \in DOMAIN Current : i <= place.i => i <= place.i - 1 \/ i = place.i
      BY <1>2, SMT
    <3>2. \A i \in DOMAIN Current :
             i <= place.i /\ Current[i] \in fds[Order[place.t]] => <<Order[place.t], Current[i]>> \in called'
      BY <2>1, <2>3, <3>1 DEF Passed, CurrentEvent
    <3> QED
      BY <2>1, <2>2, <3>2 DEF Passed, Current
  <2> QED
    BY <1>1, <2>2, <2>4 DEF WalkInv
<1>11. CASE HandlerReturns
  <2>1. CASE changed[Order[place.t]]
    BY <1>1, <1>7, <1>11, <2>1, DispatchWalks DEF HandlerReturns
  <2>2. CASE ~ changed[Order[place.t]]
    <3>1. /\ place' = [place EXCEPT !.at = "dispatch", !.i = @ + 1]
          /\ place.at = "handler" /\ UNCHANGED <<table, changed, fds, called>>
      BY <1>11, <2>2 DEF HandlerReturns
    <3>2. place'.at = "dispatch" /\ place'.t = place.t /\ place'.i = place.i + 1
      BY <1>1, <3>1, SMT DEF WatchInv, TypeOK
    <3>3. Passed(place.i)
      BY <2>2, <3>1 DEF WalkInv
    <3>4. Passed(place.i - 1)'
      BY <1>2, <3>1, <3>2, <3>3, SMT DEF Passed, Current
    <3> QED
      BY <1>1, <2>2, <3>1, <3>2, <3>4 DEF WalkInv
  <2> QED
    BY <2>1, <2>2
<1> QED
  BY <1>3, <1>4, <1>5, <1>6, <1>8, <1>9, <1>10, <1>11 DEF Next, Loop

(* When the dispatch of a table ends because the table does, every callback of  *)
(* a ready socket that is registered has been called, whatever the callbacks    *)
(* registered and unregistered.                                                 *)
THEOREM NothingIsSkipped == Spec => NothingSkipped
<1>1. ASSUME WalkInv, EndTable
      PROVE  \A s \in InTable(Order[place.t]) \cap fds[Order[place.t]] : <<Order[place.t], s>> \in called
  <2>1. place.at = "dispatch" /\ place.i > Len(Current) /\ WatchInv /\ Passed(place.i - 1)
    BY <1>1 DEF EndTable, WalkInv
  <2>2. /\ DOMAIN Current = 1 .. Len(Current) /\ Len(Current) \in Nat /\ place.i \in Nat
        /\ InTable(Order[place.t]) = {Current[i] : i \in DOMAIN Current}
    BY <2>1, CurrentFacts
  <2>3. \A i \in DOMAIN Current : i <= place.i - 1
    BY <2>1, <2>2, SMT
  <2> QED
    BY <2>1, <2>2, <2>3 DEF Passed
<1> QED
  BY <1>1, WalkInit, WalkNext, PTL DEF Spec, NothingSkipped

--------------------------------------------------------------------------
(* The dispatch calls nothing twice.                                            *)

LEMMA OnceInit == Init => OnceInv
<1> SUFFICES ASSUME Init
             PROVE  OnceInv
  OBVIOUS
<1>1. place.at = "away"
  BY DEF Init
<1>2. \A t \in Types : DOMAIN table[t] = {}
  BY SMT DEF Init
<1> QED
  BY <1>1, <1>2, WalkInit DEF OnceInv

(* A descriptor that is registered while it is not in the table is in it once.  *)
LEMMA RegisterOnce ==
    ASSUME WatchInv, ~ Duplicates, NEW t \in Types, NEW s \in Socks, RegisterSock(t, s),
           \A u \in Types : \A i, j \in DOMAIN table[u] : table[u][i] = table[u][j] => i = j
    PROVE  \A u \in Types : \A i, j \in DOMAIN table'[u] : table'[u][i] = table'[u][j] => i = j
<1>1. CASE table' = table
  BY <1>1
<1>2. CASE table' # table
  <2>1. /\ table' = [table EXCEPT ![t] = Append(@, s)] /\ Append(table[t], s) \in Seq(Socks)
        /\ Len(table'[t]) = Len(table[t]) + 1
        /\ \A j \in 1 .. Len(table[t]) : table'[t][j] = table[t][j]
        /\ table'[t][Len(table[t]) + 1] = s
    BY <1>2, RegisterGrows
  <2>2. \A u \in Types \ {t} : table'[u] = table[u]
    BY <2>1 DEF WatchInv, TypeOK
  <2>3. DOMAIN table[t] = 1 .. Len(table[t]) /\ Len(table[t]) \in Nat
    BY TableFacts
  <2>4. DOMAIN table'[t] = 1 .. Len(table[t]) + 1
    <3>1. table'[t] \in Seq(Socks)
      BY <2>1 DEF WatchInv, TypeOK
    <3> QED
      BY <2>1, <3>1
  <2>5. \A j \in 1 .. Len(table[t]) : table[t][j] # s
    BY <2>3 DEF RegisterSock, InTable
  <2>6. ASSUME NEW i \in DOMAIN table'[t], NEW j \in DOMAIN table'[t], table'[t][i] = table'[t][j]
        PROVE  i = j
    <3>1. /\ i \in 1 .. Len(table[t]) \/ i = Len(table[t]) + 1
          /\ j \in 1 .. Len(table[t]) \/ j = Len(table[t]) + 1
      BY <2>3, <2>4, SMT
    <3>2. CASE i \in 1 .. Len(table[t]) /\ j \in 1 .. Len(table[t])
      BY <2>1, <2>3, <2>6, <3>2
    <3>3. CASE i = Len(table[t]) + 1 /\ j \in 1 .. Len(table[t])
      BY <2>1, <2>5, <2>6, <3>3
    <3>4. CASE i \in 1 .. Len(table[t]) /\ j = Len(table[t]) + 1
      BY <2>1, <2>5, <2>6, <3>4
    <3> QED
      BY <3>1, <3>2, <3>3, <3>4
  <2> QED
    BY <2>2, <2>6
<1> QED
  BY <1>1, <1>2

LEMMA UnregisterOnce ==
    ASSUME WatchInv, NEW t \in Types, NEW s \in Socks, UnregisterSock(t, s),
           \A u \in Types : \A i, j \in DOMAIN table[u] : table[u][i] = table[u][j] => i = j
    PROVE  \A u \in Types : \A i, j \in DOMAIN table'[u] : table'[u][i] = table'[u][j] => i = j
<1>1. PICK n \in 1 .. Len(table[t]) :
         /\ table' \in [Types -> Seq(Socks)]
         /\ \A u \in Types \ {t} : table'[u] = table[u]
         /\ Len(table'[t]) = Len(table[t]) - 1
         /\ \A j \in 1 .. n - 1 : table'[t][j] = table[t][j]
         /\ \A j \in n .. Len(table[t]) - 1 : table'[t][j] = table[t][j + 1]
  BY UnregisterShrinks
<1>2. DOMAIN table[t] = 1 .. Len(table[t]) /\ Len(table[t]) \in Nat
  BY TableFacts
<1>3. DOMAIN table'[t] = 1 .. Len(table[t]) - 1
  BY <1>1
<1> DEFINE was(j) == IF j < n THEN j ELSE j + 1
<1>4. \A j \in 1 .. Len(table[t]) - 1 :
         was(j) \in 1 .. Len(table[t]) /\ table'[t][j] = table[t][was(j)]
  <2> SUFFICES ASSUME NEW j \in 1 .. Len(table[t]) - 1
               PROVE  was(j) \in 1 .. Len(table[t]) /\ table'[t][j] = table[t][was(j)]
    OBVIOUS
  <2>1. CASE j < n
    <3>1. j \in 1 .. n - 1 /\ j \in 1 .. Len(table[t])
      BY <1>2, <2>1, SMT
    <3> QED
      BY <1>1, <2>1, <3>1
  <2>2. CASE ~ j < n
    <3>1. j \in n .. Len(table[t]) - 1 /\ j + 1 \in 1 .. Len(table[t])
      BY <1>2, <2>2, SMT
    <3> QED
      BY <1>1, <2>2, <3>1
  <2> QED
    BY <2>1, <2>2
<1>5. \A i, j \in 1 .. Len(table[t]) - 1 : was(i) = was(j) => i = j
  BY <1>2, SMT
<1> HIDE DEF was
<1>6. \A i, j \in DOMAIN table'[t] : table'[t][i] = table'[t][j] => i = j
  BY <1>2, <1>3, <1>4, <1>5
<1> QED
  BY <1>1, <1>6

(* The next table of a dispatch: nothing of it has been called.                 *)
LEMMA DispatchOnce ==
    ASSUME OnceInv, WalkInv', NEW n \in 1 .. Len(Order) + 1, Dispatch(n), UNCHANGED <<table, called>>,
           \A e \in called : \E u \in 1 .. n - 1 : e[1] = Order[u]
    PROVE  OnceInv'
<1>1. WatchInv /\ WatchInv' /\ n \in Nat \ {0}
  BY OrderFacts, SMT DEF OnceInv, WalkInv
<1>2. /\ place'.at \in {"away", "dispatch"}
      /\ place'.at = "dispatch" => n <= Len(Order) /\ place'.t = n /\ place'.i = 1
  BY <1>1, DispatchTypes, SMT
<1>3. CASE place'.at = "dispatch"
  <2>1. n \in 1 .. Len(Order) /\ place'.t = n /\ place'.i = 1
    BY <1>2, <1>3, OrderFacts, SMT
  <2>2. \A u \in 1 .. n - 1 : u \in 1 .. n /\ u \in 1 .. Len(Order) /\ Order[u] # Order[n]
    <3> SUFFICES ASSUME NEW u \in 1 .. n - 1
                 PROVE  u \in 1 .. n /\ u \in 1 .. Len(Order) /\ Order[u] # Order[n]
      OBVIOUS
    <3>1. u \in 1 .. n /\ u \in 1 .. Len(Order) /\ u # n
      BY <2>1, OrderFacts, SMT
    <3> QED
      BY <2>1, <3>1, OrderFacts
  <2>3. \A x : <<Order[n], x>> \notin called
    BY <2>2, SMT
  <2>4. CalledUpTo(place.i - 1)'
    BY <2>1, <2>3 DEF CalledUpTo
  <2>5. \A e \in called' : \E u \in 1 .. place'.t : e[1] = Order[u]
    BY <2>1, <2>2
  <2> QED
    BY <1>3, <2>4, <2>5 DEF OnceInv
<1> QED
  BY <1>2, <1>3 DEF OnceInv

LEMMA OnceNext == ASSUME ~ Duplicates PROVE OnceInv /\ [Next]_vars => OnceInv'
<1> SUFFICES ASSUME OnceInv, [Next]_vars
             PROVE  OnceInv'
  OBVIOUS
<1>1. WalkInv /\ WalkInv' /\ WatchInv /\ WatchInv'
  BY WalkNext DEF OnceInv, WalkInv
<1>2. /\ place.t \in 1 .. Len(Order) /\ Order[place.t] \in Types /\ place.i \in Nat \ {0}
      /\ DOMAIN Current = 1 .. Len(Current) /\ Len(Current) \in Nat
  BY <1>1, CurrentFacts
<1>3. \A u \in Types : \A i, j \in DOMAIN table[u] : table[u][i] = table[u][j] => i = j
  BY DEF OnceInv
<1>4. ASSUME NEW t \in Types, NEW s \in Socks, RegisterSock(t, s) \/ UnregisterSock(t, s)
      PROVE  OnceInv'
  <2>1. /\ UNCHANGED <<fds, place, called>> /\ place.at \in {"away", "between", "handler"}
        /\ ~ changed'[Order[place.t]] =>
              table'[Order[place.t]] = table[Order[place.t]] /\ ~ changed[Order[place.t]]
    BY <1>1, <1>4, CallsMark
  <2>2. \A u \in Types : \A i, j \in DOMAIN table'[u] : table'[u][i] = table'[u][j] => i = j
    BY <1>1, <1>3, <1>4, RegisterOnce, UnregisterOnce
  <2> QED
    BY <1>1, <2>1, <2>2 DEF OnceInv, CalledUpTo, Current
<1>5. CASE (\E s \in Socks : Reopen(s)) \/ (\E e \in Event : Arrive(e)) \/ UNCHANGED vars
  BY <1>1, <1>5 DEF Reopen, Arrive, vars, OnceInv, CalledUpTo, Current
<1>6. CASE PrepareSelect \/ SelectTimesOut \/ SelectInterrupted
  <2>1. place'.at \in {"select", "away"} /\ table' = table
    BY <1>1, <1>6, PlaceTypes DEF PrepareSelect, SelectTimesOut, SelectInterrupted
  <2> QED
    BY <1>1, <1>3, <2>1 DEF OnceInv
<1>7. CASE SelectReady
  <2>1. place'.at = "between" /\ table' = table /\ called' = {}
    BY <1>1, <1>7, PlaceTypes DEF SelectReady
  <2> QED
    BY <1>1, <1>3, <2>1 DEF OnceInv
<1>8. CASE BeginDispatch
  <2>1. called = {} /\ Dispatch(1) /\ UNCHANGED <<table, called>>
    BY <1>8 DEF BeginDispatch, OnceInv
  <2>2. 1 \in 1 .. Len(Order) + 1
    BY OrderFacts, SMT
  <2> QED
    BY <1>1, <2>1, <2>2, DispatchOnce
<1>9. ASSUME Dispatch(place.t + 1), place.at \in {"dispatch", "handler"}, UNCHANGED <<table, called>>
      PROVE  OnceInv'
  <2>1. PICK n : n = place.t + 1
    OBVIOUS
  <2>2. n \in 1 .. Len(Order) + 1 /\ n - 1 = place.t
    BY <1>2, <2>1, OrderFacts, SMT
  <2>3. \A e \in called : \E u \in 1 .. n - 1 : e[1] = Order[u]
    BY <1>9, <2>2 DEF OnceInv
  <2> QED
    BY <1>1, <1>9, <2>1, <2>2, <2>3, DispatchOnce
<1>10. CASE EndTable
  BY <1>9, <1>10 DEF EndTable
<1>11. CASE SkipEntry
  <2>1. /\ place' = [place EXCEPT !.i = @ + 1] /\ UNCHANGED <<table, changed, called>>
        /\ place.at = "dispatch"
    BY <1>11 DEF SkipEntry
  <2>2. place'.at = "dispatch" /\ place'.t = place.t /\ place'.i = place.i + 1
    BY <1>1, <2>1, SMT DEF WatchInv, TypeOK
  <2>3. CalledUpTo(place.i - 1)
    BY <2>1 DEF OnceInv
  <2>4. CalledUpTo(place.i - 1)'
    <3>1. \A i \in DOMAIN Current : i <= place.i - 1 => i <= place'.i - 1
      BY <1>2, <2>2, SMT
    <3> QED
      BY <2>1, <2>2, <2>3, <3>1 DEF CalledUpTo, Current
  <2> QED
    BY <1>1, <1>3, <2>1, <2>2, <2>4 DEF OnceInv
<1>12. CASE CallHandler
  <2>1. /\ place' = [place EXCEPT !.at = "handler"] /\ UNCHANGED <<table, changed>>
        /\ place.at = "dispatch" /\ place.i <= Len(Current)
        /\ called' = called \cup {CurrentEvent}
    BY <1>12 DEF CallHandler
  <2>2. place'.at = "handler" /\ place'.t = place.t /\ place'.i = place.i
    BY <1>1, <2>1, SMT DEF WatchInv, TypeOK
  <2>3. CalledUpTo(place.i - 1) /\ \A e \in called : \E u \in 1 .. place.t : e[1] = Order[u]
    BY <2>1 DEF OnceInv
  <2>4. place.i \in DOMAIN Current
    BY <1>2, <2>1, SMT
  <2>5. \A i \in DOMAIN Current : i <= place.i - 1 \/ i = place.i => i <= place.i
    BY <1>2, SMT
  <2>6. \A i \in DOMAIN Current :
           <<Order[place.t], Current[i]>> = CurrentEvent => i = place.i
    BY <1>2, <1>3, <2>4, SMT DEF CurrentEvent, Current
  <2>7. CalledUpTo(place.i)'
    BY <2>1, <2>2, <2>3, <2>5, <2>6 DEF CalledUpTo, Current
  <2>8. \A e \in called' : \E u \in 1 .. place'.t : e[1] = Order[u]
    <3>1. CurrentEvent[1] = Order[place.t] /\ place.t \in 1 .. place.t
      BY <1>2, OrderFacts, SMT DEF CurrentEvent
    <3> QED
      BY <2>1, <2>2, <2>3, <3>1
  <2> QED
    BY <1>1, <1>3, <2>1, <2>2, <2>7, <2>8 DEF OnceInv
<1>13. CASE HandlerReturns
  <2>1. CASE changed[Order[place.t]]
    BY <1>9, <1>13, <2>1 DEF HandlerReturns
  <2>2. CASE ~ changed[Order[place.t]]
    <3>1. /\ place' = [place EXCEPT !.at = "dispatch", !.i = @ + 1]
          /\ place.at = "handler" /\ UNCHANGED <<table, changed, called>>
      BY <1>13, <2>2 DEF HandlerReturns
    <3>2. place'.at = "dispatch" /\ place'.t = place.t /\ place'.i - 1 = place.i
      BY <1>1, <1>2, <3>1, SMT DEF WatchInv, TypeOK
    <3>3. CalledUpTo(place.i) /\ \A e \in called : \E u \in 1 .. place.t : e[1] = Order[u]
      BY <2>2, <3>1 DEF OnceInv
    <3>4. CalledUpTo(place.i - 1)'
      BY <3>1, <3>2, <3>3 DEF CalledUpTo, Current
    <3> QED
      BY <1>1, <1>3, <3>1, <3>2, <3>3, <3>4 DEF OnceInv
  <2> QED
    BY <2>1, <2>2
<1> QED
  BY <1>4, <1>5, <1>6, <1>7, <1>8, <1>10, <1>11, <1>12, <1>13 DEF Next, Loop

(* If no descriptor is registered twice in a table, what one select() reported   *)
(* is dispatched exactly: every ready socket that is still registered is called, *)
(* and none twice, though callbacks move the entries under the loop's index.     *)
THEOREM DispatchExact == ASSUME ~ Duplicates PROVE Spec => DispatchIsExact
<1>1. ASSUME OnceInv, CallHandler
      PROVE  CurrentEvent \notin called
  <2>1. place.at = "dispatch" /\ place.i <= Len(Current) /\ WatchInv /\ CalledUpTo(place.i - 1)
    BY <1>1 DEF CallHandler, OnceInv, WalkInv
  <2>2. DOMAIN Current = 1 .. Len(Current) /\ Len(Current) \in Nat /\ place.i \in Nat \ {0}
    BY <2>1, CurrentFacts
  <2>3. place.i \in DOMAIN Current /\ ~ place.i <= place.i - 1
    BY <2>1, <2>2, SMT
  <2> QED
    BY <2>1, <2>3 DEF CalledUpTo, CurrentEvent
<1>2. Spec => OncePerRound
  BY <1>1, OnceInit, OnceNext, PTL DEF Spec, OncePerRound
<1> QED
  BY <1>2, NothingIsSkipped DEF DispatchIsExact
=============================================================================
