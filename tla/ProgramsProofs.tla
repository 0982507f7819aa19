--------------------------- MODULE ProgramsProofs ---------------------------
(***************************************************************************)
(* Theorems about the programs WebSocketClient, Log, Uci and Server, for   *)
(* any number of threads, producers, sections and clients, any size of the *)
(* ring and of the log's files.                                            *)
(*                                                                         *)
(* AttemptInv and ConservedInv of WebSocketClient, and LogInv, UciInv and  *)
(* ServerInv below, are inductive.                                         *)
(***************************************************************************)
EXTENDS WebSocketClient, MCPrograms, SequenceTheorems, FiniteSetTheorems, TLAPS

(* Induction for a set of numbers up to N: if it missed one, adding one would map the *)
(* numbers below that into themselves, all but 0.                                     *)
LEMMA SetInduction ==
    ASSUME NEW N \in Nat, NEW T, 0 \in T, \A n \in 0 .. N - 1 : n \in T => n + 1 \in T
    PROVE  \A n \in 0 .. N : n \in T
<1> SUFFICES ASSUME NEW m \in 0 .. N, m \notin T
             PROVE  FALSE
  OBVIOUS
<1> DEFINE B == {n \in 0 .. N : \A k \in 0 .. n : k \in T}
           succ == [n \in B |-> n + 1]
<1>1. 0 \in B
  OBVIOUS
<1>2. IsFiniteSet(B) /\ Cardinality(B) \in Nat
  <2>1. IsFiniteSet(0 .. N)
    BY FS_Interval
  <2> QED BY <2>1, FS_Subset, FS_CardinalityType
<1>3. IsFiniteSet(B \ {0}) /\ Cardinality(B \ {0}) < Cardinality(B)
  <2>1. IsFiniteSet(B \ {0}) /\ Cardinality(B \ {0}) = Cardinality(B) - 1
    <3> HIDE DEF B
    <3> QED BY <1>1, <1>2, FS_RemoveElement
  <2> QED BY <1>2, <2>1
<1>4. succ \in [B -> B \ {0}]
  <2> SUFFICES ASSUME NEW n \in B PROVE n + 1 \in B \ {0}
    OBVIOUS
  <2>1. n < m /\ n \in 0 .. N - 1
    OBVIOUS
  <2>2. n \in T /\ n + 1 \in T
    BY <2>1
  <2>3. \A k \in 0 .. n + 1 : k \in 0 .. n \/ k = n + 1
    BY <2>1
  <2> QED BY <2>1, <2>2, <2>3
<1> HIDE DEF succ
<1>5. PICK x, y \in B : x # y /\ succ[x] = succ[y]
  BY <1>2, <1>3, <1>4, FS_PigeonHole
<1>6. succ[x] = x + 1 /\ succ[y] = y + 1
  BY DEF succ
<1>7. x \in Nat /\ y \in Nat
  OBVIOUS
<1>8. x # y /\ x + 1 = y + 1
  BY <1>5, <1>6
<1> QED BY <1>7, <1>8

--------------------------------------------------------------------------
(* Log: lf_log.c *)
LogLine == [id : Nat, size : Sizes]

LEMMA SizesPositive == ASSUME L!Parameters PROVE Sizes \subseteq Nat /\ \A n \in Sizes : n > 0
<1>1. Sizes \subseteq Nat \ {0}
  BY Zenon DEF L!Parameters
<1> QED BY <1>1

(* f is the recursive function of Length, over the first n lines of s. *)
IsSums(f, s, n) ==
    f = [m \in 0 .. n |-> IF m = 0 THEN 0 ELSE f[m - 1] + s[m].size]

LEMMA SumsExist ==
    ASSUME L!Parameters, NEW s \in Seq(LogLine)
    PROVE  \E f : IsSums(f, s, Len(s))
<1> DEFINE N == Len(s)
           T == {n \in 0 .. N : \E f \in [0 .. n -> Nat] : IsSums(f, s, n)}
<1>1. N \in Nat
  OBVIOUS
<1>2. 0 \in T
  <2> DEFINE f == [m \in 0 .. 0 |-> 0]
  <2>1. f \in [0 .. 0 -> Nat] /\ IsSums(f, s, 0)
    BY DEF IsSums
  <2> QED BY <1>1, <2>1
<1>3. ASSUME NEW n \in 0 .. N - 1, n \in T
      PROVE  n + 1 \in T
  <2>1. PICK f \in [0 .. n -> Nat] : IsSums(f, s, n)
    BY <1>3
  <2>2. s[n + 1].size \in Nat
    <3>1. s[n + 1] \in LogLine
      OBVIOUS
    <3> QED BY <3>1, SizesPositive DEF LogLine
  <2> DEFINE g == [m \in 0 .. n + 1 |-> IF m \in 0 .. n THEN f[m] ELSE f[n] + s[n + 1].size]
  <2>3. g \in [0 .. n + 1 -> Nat]
    BY <2>2
  <2>4. ASSUME NEW m \in 0 .. n + 1
        PROVE  g[m] = IF m = 0 THEN 0 ELSE g[m - 1] + s[m].size
    BY <2>1 DEF IsSums
  <2>5. IsSums(g, s, n + 1)
    BY <2>4 DEF IsSums
  <2> QED BY <2>3, <2>5
<1> HIDE DEF T
<1>4. N \in T
  <2>1. \A n \in 0 .. N : n \in T
    BY <1>1, <1>2, <1>3, SetInduction
  <2> QED BY <1>1, <2>1
<1> QED BY <1>4 DEF T

LEMMA LengthPositive ==
    ASSUME L!Parameters, NEW s \in Seq(LogLine)
    PROVE  L!Length(s) \in Nat /\ (s # << >> => L!Length(s) > 0) /\ L!Length(<< >>) = 0
<1> DEFINE g(t) == CHOOSE f : IsSums(f, t, Len(t))
<1>1. ASSUME NEW t \in Seq(LogLine)
      PROVE  L!Length(t) = g(t)[Len(t)] /\ IsSums(g(t), t, Len(t))
  <2>1. IsSums(g(t), t, Len(t))
    BY SumsExist
  <2>2. L!Length(t) = g(t)[Len(t)]
    BY DEF L!Length, IsSums
  <2> QED BY <2>1, <2>2
<1> DEFINE f == g(s)
           N == Len(s)
           T == {n \in 0 .. N : f[n] \in Nat /\ (n > 0 => f[n] > 0)}
<1>2. N \in Nat /\ IsSums(f, s, N)
  BY <1>1
<1> HIDE DEF g, f
<1>3. 0 \in T
  BY <1>2 DEF IsSums
<1>4. ASSUME NEW n \in 0 .. N - 1, n \in T
      PROVE  n + 1 \in T
  <2>1. s[n + 1].size \in Nat /\ s[n + 1].size > 0
    <3>1. s[n + 1] \in LogLine
      OBVIOUS
    <3>2. s[n + 1].size \in Sizes
      BY <3>1 DEF LogLine
    <3> QED BY <3>2, SizesPositive
  <2>2. f[n + 1] = f[n] + s[n + 1].size
    BY <1>2 DEF IsSums
  <2> QED BY <1>2, <1>4, <2>1, <2>2
<1> HIDE DEF T
<1>5. \A n \in 0 .. N : n \in T
  BY <1>2, <1>3, <1>4, SetInduction
<1>6. N \in T
  BY <1>2, <1>5
<1>7. L!Length(s) \in Nat /\ (s # << >> => L!Length(s) > 0)
  BY <1>1, <1>6 DEF T, f
<1>8. L!Length(<< >>) = 0
  <2>1. << >> \in Seq(LogLine) /\ Len(<< >>) = 0
    OBVIOUS
  <2> QED BY <1>1, <2>1 DEF IsSums
<1> QED BY <1>7, <1>8

--------------------------------------------------------------------------
(* A file in order, all of whose lines are among the first n; it was full with no  *)
(* line but the last, and is not full at all if it is open.                        *)
FileOK(s, n, opened) ==
    /\ s \in Seq(LogLine)
    /\ \A i, j \in 1 .. Len(s) : i < j => s[i].id < s[j].id
    /\ \A i \in 1 .. Len(s) : s[i].id <= n
    /\ \A k \in 0 .. Len(s) : k < Len(s) => L!Length(SubSeq(s, 1, k)) < FileSize
    /\ opened => L!Length(s) < FileSize

LEMMA FileEmpty ==
    ASSUME L!Parameters, NEW n, NEW opened
    PROVE  FileOK(<< >>, n, opened)
<1>1. FileSize \in Nat /\ FileSize > 0
  <2>1. FileSize \in Nat \ {0}
    BY Zenon DEF L!Parameters
  <2> QED BY <2>1
<1>2. << >> \in Seq(LogLine) /\ Len(<< >>) = 0
  OBVIOUS
<1>3. L!Length(<< >>) = 0
  BY <1>2, LengthPositive
<1> QED BY <1>1, <1>2, <1>3 DEF FileOK

LEMMA FilePrefix ==
    ASSUME NEW s, NEW n, NEW opened, FileOK(s, n, opened), NEW m \in 0 .. Len(s)
    PROVE  FileOK(SubSeq(s, 1, m), n, FALSE)
<1> DEFINE t == SubSeq(s, 1, m)
<1>1. s \in Seq(LogLine) /\ Len(s) \in Nat
  BY DEF FileOK
<1>2. t \in Seq(LogLine) /\ Len(t) = m /\ \A i \in 1 .. m : t[i] = s[i]
  BY <1>1
<1>3. ASSUME NEW k \in 0 .. m
      PROVE  SubSeq(t, 1, k) = SubSeq(s, 1, k)
  <2>1. SubSeq(t, 1, k) \in Seq(LogLine) /\ SubSeq(s, 1, k) \in Seq(LogLine)
    BY <1>1, <1>2
  <2>2. Len(SubSeq(t, 1, k)) = k /\ Len(SubSeq(s, 1, k)) = k
    BY <1>1, <1>2
  <2>3. \A i \in 1 .. k : SubSeq(t, 1, k)[i] = SubSeq(s, 1, k)[i]
    BY <1>1, <1>2
  <2> QED BY <2>1, <2>2, <2>3, SeqEqual
<1> HIDE DEF t
<1>4. \A i, j \in 1 .. Len(t) : i < j => t[i].id < t[j].id
  <2>1. \A i, j \in 1 .. Len(s) : i < j => s[i].id < s[j].id
    BY DEF FileOK
  <2>2. 1 .. m \subseteq 1 .. Len(s)
    BY <1>1
  <2> QED BY <1>2, <2>1, <2>2
<1>5. \A i \in 1 .. Len(t) : t[i].id <= n
  <2>1. \A i \in 1 .. Len(s) : s[i].id <= n
    BY DEF FileOK
  <2>2. 1 .. m \subseteq 1 .. Len(s)
    BY <1>1
  <2> QED BY <1>2, <2>1, <2>2
<1>6. \A k \in 0 .. Len(t) : k < Len(t) => L!Length(SubSeq(t, 1, k)) < FileSize
  <2>1. \A k \in 0 .. Len(s) : k < Len(s) => L!Length(SubSeq(s, 1, k)) < FileSize
    BY DEF FileOK
  <2>2. \A k \in 0 .. m : k < m => k \in 0 .. Len(s) /\ k < Len(s)
    BY <1>1
  <2> QED BY <1>2, <1>3, <2>1, <2>2
<1> QED BY <1>2, <1>4, <1>5, <1>6 DEF FileOK, t

LEMMA FileAppend ==
    ASSUME NEW n \in Nat, NEW s, FileOK(s, n, TRUE), NEW l \in LogLine, l.id = n + 1,
           NEW opened, opened => L!Length(Append(s, l)) < FileSize
    PROVE  FileOK(Append(s, l), n + 1, opened)
<1> DEFINE t == Append(s, l)
<1>1. s \in Seq(LogLine) /\ Len(s) \in Nat
  BY DEF FileOK
<1>2. /\ t \in Seq(LogLine) /\ Len(t) = Len(s) + 1
      /\ t[Len(s) + 1] = l /\ \A i \in 1 .. Len(s) : t[i] = s[i]
  BY <1>1
<1>3. ASSUME NEW k \in 0 .. Len(s)
      PROVE  SubSeq(t, 1, k) = SubSeq(s, 1, k)
  <2>1. SubSeq(t, 1, k) \in Seq(LogLine) /\ SubSeq(s, 1, k) \in Seq(LogLine)
    BY <1>1, <1>2
  <2>2. Len(SubSeq(t, 1, k)) = k /\ Len(SubSeq(s, 1, k)) = k
    BY <1>1, <1>2
  <2>3. \A i \in 1 .. k : SubSeq(t, 1, k)[i] = SubSeq(s, 1, k)[i]
    BY <1>1, <1>2
  <2> QED BY <2>1, <2>2, <2>3, SeqEqual
<1>4. SubSeq(s, 1, Len(s)) = s
  BY <1>1, SubSeqFull
<1>5. \A i \in 1 .. Len(s) : s[i].id \in Nat
  <2> SUFFICES ASSUME NEW i \in 1 .. Len(s) PROVE s[i].id \in Nat
    OBVIOUS
  <2>1. s[i] \in LogLine
    BY <1>1
  <2> QED BY <2>1 DEF LogLine
<1> HIDE DEF t
<1>6. ASSUME NEW i \in 1 .. Len(t), NEW j \in 1 .. Len(t), i < j
      PROVE  t[i].id < t[j].id
  <2>1. i \in 1 .. Len(s) /\ t[i] = s[i] /\ s[i].id <= n
    BY <1>1, <1>2, <1>6 DEF FileOK
  <2>2. CASE j \in 1 .. Len(s)
    <3>1. s[i].id < s[j].id /\ t[j] = s[j]
      BY <1>2, <1>6, <2>1, <2>2 DEF FileOK
    <3> QED BY <2>1, <3>1
  <2>3. CASE j = Len(s) + 1
    <3>1. t[j].id = n + 1 /\ s[i].id \in Nat
      BY <1>2, <1>5, <2>1, <2>3
    <3> QED BY <2>1, <3>1
  <2> QED BY <1>1, <1>2, <2>2, <2>3
<1>7. \A i \in 1 .. Len(t) : t[i].id <= n + 1
  BY <1>1, <1>2, <1>5 DEF FileOK
<1>8. \A k \in 0 .. Len(t) : k < Len(t) => L!Length(SubSeq(t, 1, k)) < FileSize
  <2>1. \A k \in 0 .. Len(s) : k < Len(s) => L!Length(SubSeq(s, 1, k)) < FileSize
    BY DEF FileOK
  <2>2. L!Length(SubSeq(s, 1, Len(s))) < FileSize
    BY <1>4 DEF FileOK
  <2>3. \A k \in 0 .. Len(t) : k < Len(t) => k \in 0 .. Len(s) /\ (k < Len(s) \/ k = Len(s))
    BY <1>1, <1>2
  <2> QED BY <1>3, <2>1, <2>2, <2>3
<1> QED BY <1>2, <1>6, <1>7, <1>8 DEF FileOK, t

LEMMA FileLater ==
    ASSUME NEW n \in Nat, NEW s, NEW opened, FileOK(s, n, opened)
    PROVE  FileOK(s, n + 1, FALSE)
<1>1. ASSUME NEW i \in 1 .. Len(s)
      PROVE  s[i].id <= n + 1
  <2>1. s[i] \in LogLine /\ s[i].id <= n
    BY DEF FileOK
  <2> QED BY <2>1 DEF LogLine
<1> QED BY <1>1 DEF FileOK

--------------------------------------------------------------------------
LogTypes ==
    /\ disk \in [L!FileNos -> Seq(LogLine) \cup {NULL}]
    /\ buffered \in Seq(LogLine) /\ lines \in Seq(LogLine)
    /\ no \in L!FileNos /\ pFile \in {no, NULL}
    /\ pFile = NULL => buffered = << >>
    /\ pFile # NULL => ready /\ disk[pFile] # NULL
    /\ ready => size = FileSize
    /\ since \in Nat \ {0}
    /\ mutex \in Threads \cup {NULL}
    /\ pc \in [Threads -> {"idle", "lock", "open", "write", "unlock"}]
    /\ line \in [Threads -> Sizes \cup {NULL}]
    /\ \A t \in Threads : /\ pc[t] # "idle" => line[t] \in Sizes
                          /\ L!Inside(t) => mutex = t

Files == \A f \in L!FileNos : FileOK(L!File(f), Len(lines), f = pFile)

(* The file left before file f. *)
Before(f) == IF f = 0 THEN 2 ELSE f - 1

Holds(f, n) == \E k \in 1 .. Len(L!File(f)) : L!File(f)[k] = lines[n]

(* Line n is in the file that is open, or will be opened to append. *)
Current(n) == Holds(no, n) /\ (pFile = NULL => L!Length(L!File(no)) < FileSize)

Newest ==
    /\ Len(lines) >= since => Current(Len(lines)) \/ Holds(Before(no), Len(lines))
    /\ Len(lines) - 1 >= since =>
          \/ Current(Len(lines) - 1)
          \/ Holds(Before(no), Len(lines) - 1)
          \/ Holds(Before(Before(no)), Len(lines) - 1)

LogInv == LogTypes /\ Files /\ Newest

LEMMA FileType ==
    ASSUME L!Parameters, LogTypes, NEW f \in L!FileNos
    PROVE  /\ L!File(f) \in Seq(LogLine)
           /\ f # pFile /\ disk[f] # NULL => L!File(f) = disk[f]
           /\ f # pFile /\ disk[f] = NULL => L!File(f) = << >>
           /\ f = pFile => L!File(f) = disk[f] \o buffered /\ disk[f] \in Seq(LogLine)
<1>1. disk[f] # NULL => disk[f] \in Seq(LogLine)
  BY Zenon DEF LogTypes
<1>2. << >> \in Seq(LogLine) /\ buffered \in Seq(LogLine)
  BY DEF LogTypes
<1>3. f = pFile => disk[f] # NULL /\ disk[f] \in Seq(LogLine)
  <2>1. NULL \notin L!FileNos
    BY Zenon DEF L!Parameters
  <2> QED BY <1>1, <2>1, Zenon DEF LogTypes
<1>4. CASE f = pFile
  <2>1. L!File(f) = disk[f] \o buffered
    BY <1>3, <1>4, Zenon DEF L!File
  <2> QED BY <1>2, <1>3, <1>4, <2>1, ConcatProperties, Zenon
<1>5. CASE f # pFile /\ disk[f] # NULL
  <2>1. L!File(f) = disk[f] \o << >>
    BY <1>5, Zenon DEF L!File
  <2> QED BY <1>1, <1>5, <2>1, ConcatEmptySeq
<1>6. CASE f # pFile /\ disk[f] = NULL
  <2>1. L!File(f) = << >> \o << >>
    BY <1>6, Zenon DEF L!File
  <2> QED BY <1>2, <1>6, <2>1, ConcatEmptySeq
<1> QED BY <1>4, <1>5, <1>6

LEMMA LogInitial == ASSUME L!Parameters, L!Init PROVE LogInv
<1> USE DEF L!Init
<1>1. LogTypes
  <2>1. disk \in [L!FileNos -> Seq(LogLine) \cup {NULL}]
    BY Zenon
  <2>2. << >> \in Seq(LogLine)
    OBVIOUS
  <2>3. 0 \in L!FileNos
    BY DEF L!FileNos, L!MAX_LOG_FILE_NUM
  <2>4. line \in [Threads -> Sizes \cup {NULL}] /\ pc \in [Threads -> {"idle", "lock", "open", "write", "unlock"}]
    OBVIOUS
  <2> QED BY <2>1, <2>2, <2>3, <2>4 DEF LogTypes, L!Inside
<1>2. Files
  <2> SUFFICES ASSUME NEW f \in L!FileNos
               PROVE  FileOK(L!File(f), Len(lines), f = pFile)
    BY DEF Files
  <2>1. disk[f] = NULL /\ pFile = NULL /\ NULL \notin L!FileNos
    BY Zenon DEF L!Parameters
  <2>2. L!File(f) = << >>
    BY <1>1, <2>1, FileType
  <2> QED BY <2>2, FileEmpty
<1>3. Newest
  BY DEF Newest
<1> QED BY <1>1, <1>2, <1>3 DEF LogInv

(* A step that leaves the files, the open one and the history alone.          *)
LEMMA LogQuiet ==
    ASSUME LogInv, LogTypes', UNCHANGED <<disk, pFile, buffered, no, lines, since>>
    PROVE  LogInv'
<1>1. \A f : L!File(f)' = L!File(f)
  BY DEF L!File
<1>2. Files'
  BY <1>1 DEF LogInv, Files
<1>3. Newest'
  BY <1>1 DEF LogInv, Newest, Current, Holds
<1> QED BY <1>2, <1>3 DEF LogInv

(* A step that leaves the files, as a reader will find them.                 *)
LEMMA LogSame ==
    ASSUME L!Parameters, LogInv, LogTypes', \A f \in L!FileNos : L!File(f)' = L!File(f),
           UNCHANGED <<no, lines, since>>, pFile' \in {pFile, NULL}
    PROVE  LogInv'
<1>1. NULL \notin L!FileNos
  BY Zenon DEF L!Parameters
<1>2. no \in L!FileNos /\ Before(no) \in L!FileNos /\ Before(Before(no)) \in L!FileNos
  BY DEF LogInv, LogTypes, Before, L!FileNos, L!MAX_LOG_FILE_NUM
<1>3. ASSUME NEW f \in L!FileNos
      PROVE  FileOK(L!File(f)', Len(lines)', (f = pFile)')
  <2>1. FileOK(L!File(f), Len(lines), f = pFile) /\ L!File(f)' = L!File(f)
    BY DEF LogInv, Files
  <2>2. (f = pFile') => f = pFile
    BY <1>1
  <2> QED BY <2>1, <2>2 DEF FileOK
<1>4. Files'
  BY <1>3 DEF Files
<1>5. \A f \in L!FileNos : \A n : Holds(f, n)' <=> Holds(f, n)
  BY DEF Holds
<1>6. ASSUME NEW n, Current(n)
      PROVE  Current(n)'
  <2>1. Holds(no, n)'
    BY <1>2, <1>5, <1>6 DEF Current
  <2>2. pFile = no => L!Length(L!File(no)) < FileSize
    <3>1. FileOK(L!File(no), Len(lines), no = pFile)
      BY <1>2 DEF LogInv, Files
    <3> QED BY <3>1 DEF FileOK
  <2>3. L!Length(L!File(no)) < FileSize
    BY <1>6, <2>2 DEF LogInv, LogTypes, Current
  <2> QED BY <1>2, <2>1, <2>3 DEF Current
<1>7. Newest'
  BY <1>2, <1>5, <1>6 DEF LogInv, Newest
<1> QED BY <1>4, <1>7 DEF LogInv

LEMMA LogQuietly ==
    ASSUME LogInv,
           \/ \E where \in {"terminal", "file"} : L!LOG_SetPrintLogPlaceFlag(where)
           \/ L!LOG_Init
           \/ UNCHANGED L!vars
    PROVE  LogInv' /\ UNCHANGED disk
<1> USE DEF L!stream, L!setup, L!past, L!Inside
<1>1. UNCHANGED <<disk, pFile, buffered, no, lines, since>>
  BY Zenon DEF L!LOG_SetPrintLogPlaceFlag, L!LOG_Init, L!vars
<1>2. LogTypes
  BY DEF LogInv
<1>3. CASE \E where \in {"terminal", "file"} : L!LOG_SetPrintLogPlaceFlag(where)
  BY <1>1, <1>2, <1>3, LogQuiet DEF LogTypes, L!LOG_SetPrintLogPlaceFlag
<1>4. CASE L!LOG_Init
  BY <1>1, <1>2, <1>4, LogQuiet DEF LogTypes, L!LOG_Init
<1>5. CASE UNCHANGED L!vars
  BY <1>1, <1>2, <1>5, LogQuiet DEF LogTypes, L!vars
<1> QED BY <1>1, <1>3, <1>4, <1>5

(* LOG_PrintLog but for its file.                                             *)
LEMMA LogThreads ==
    ASSUME L!Parameters, LogInv, NEW t \in Threads,
           \/ \E n \in Sizes : L!LOG_PrintLog(t, n)
           \/ L!Lock(t) \/ L!OpenFails(t) \/ L!Unlock(t)
    PROVE  LogInv' /\ UNCHANGED disk
<1> USE DEF L!stream, L!setup, L!past, L!Inside
<1>1. UNCHANGED <<disk, pFile, buffered, no, lines, since>>
  BY Zenon DEF L!LOG_PrintLog, L!Lock, L!OpenFails, L!Unlock
<1>2. NULL \notin Threads
  BY Zenon DEF L!Parameters
<1>3. LogTypes
  BY DEF LogInv
<1>4. CASE \E n \in Sizes : L!LOG_PrintLog(t, n)
  BY <1>1, <1>3, <1>4, LogQuiet DEF LogTypes, L!LOG_PrintLog
<1>5. CASE L!Lock(t)
  BY <1>1, <1>2, <1>3, <1>5, LogQuiet DEF LogTypes, L!Lock
<1>6. CASE L!OpenFails(t)
  BY <1>1, <1>3, <1>6, LogQuiet DEF LogTypes, L!OpenFails
<1>7. CASE L!Unlock(t)
  BY <1>1, <1>2, <1>3, <1>7, LogQuiet DEF LogTypes, L!Unlock
<1> QED BY <1>1, <1>4, <1>5, <1>6, <1>7

OnlyFull ==
    \A f \in L!FileNos : disk[f] # NULL /\ ~ L!IsPrefix(disk[f], disk'[f])
        => L!Length(disk[f]) >= FileSize /\ pFile' = f

LEMMA PrefixFacts ==
    ASSUME NEW s \in Seq(LogLine), NEW t \in Seq(LogLine)
    PROVE  L!IsPrefix(s, s) /\ L!IsPrefix(s, s \o t) /\ L!IsPrefix(<< >>, t)
<1>1. Len(s) \in Nat /\ Len(t) \in Nat /\ Len(s \o t) = Len(s) + Len(t) /\ s \o t \in Seq(LogLine)
  OBVIOUS
<1>2. SubSeq(s \o t, 1, Len(s)) = SubSeq(s, 1, Len(s))
  <2> DEFINE a == SubSeq(s \o t, 1, Len(s))
             b == SubSeq(s, 1, Len(s))
  <2>1. a \in Seq(LogLine) /\ b \in Seq(LogLine) /\ Len(a) = Len(s) /\ Len(b) = Len(s)
    BY <1>1
  <2>2. \A i \in 1 .. Len(s) : a[i] = b[i]
    BY <1>1
  <2> HIDE DEF a, b
  <2>3. a = b
    BY <2>1, <2>2, SeqEqual
  <2> QED BY <2>3 DEF a, b
<1>3. SubSeq(<< >>, 1, 0) = SubSeq(t, 1, 0) /\ Len(<< >>) = 0
  BY SubSeqEmpty
<1> QED BY <1>1, <1>2, <1>3 DEF L!IsPrefix

(* One file changes, and keeps what it had. *)
LEMMA OneGrows ==
    ASSUME L!Parameters, LogTypes, NEW e \in L!FileNos, disk[e] \in Seq(LogLine),
           NEW more \in Seq(LogLine), disk' = [disk EXCEPT ![e] = disk[e] \o more]
    PROVE  OnlyFull /\ disk' \in [L!FileNos -> Seq(LogLine) \cup {NULL}] /\ disk'[e] # NULL
<1>1. NULL \notin Seq(LogLine) /\ disk[e] \o more \in Seq(LogLine)
  <2>1. NULL \notin Seq(LogLine)
    BY Zenon DEF L!Parameters, LogLine
  <2> QED BY <2>1, ConcatProperties
<1>2. disk \in [L!FileNos -> Seq(LogLine) \cup {NULL}]
  BY DEF LogTypes
<1>3. /\ disk' \in [L!FileNos -> Seq(LogLine) \cup {NULL}]
      /\ disk'[e] = disk[e] \o more
      /\ \A f \in L!FileNos : f # e => disk'[f] = disk[f]
  BY <1>1, <1>2, Zenon
<1>4. ASSUME NEW f \in L!FileNos, disk[f] # NULL
      PROVE  L!IsPrefix(disk[f], disk'[f])
  BY <1>2, <1>3, <1>4, PrefixFacts, Zenon
<1> QED BY <1>1, <1>3, <1>4 DEF OnlyFull

LEMMA LogFlush ==
    ASSUME L!Parameters, LogInv, L!Flush
    PROVE  LogInv' /\ OnlyFull
<1> USE DEF L!Inside, L!setup, L!past
<1>1. LogTypes /\ pFile # NULL /\ pFile \in L!FileNos /\ buffered \in Seq(LogLine)
  BY DEF LogInv, LogTypes, L!Flush
<1>2. disk[pFile] \in Seq(LogLine)
  BY <1>1, FileType
<1>3. PICK k \in 1 .. Len(buffered) :
          /\ disk' = [disk EXCEPT ![pFile] = disk[pFile] \o SubSeq(buffered, 1, k)]
          /\ buffered' = SubSeq(buffered, k + 1, Len(buffered))
  BY DEF L!Flush
<1> DEFINE a == SubSeq(buffered, 1, k)
           b == SubSeq(buffered, k + 1, Len(buffered))
<1>4. a \in Seq(LogLine) /\ b \in Seq(LogLine)
  BY <1>1
<1>5. a \o b = buffered
  <2>1. /\ 1 \in 1 .. Len(buffered) + 1 /\ k \in 0 .. Len(buffered)
        /\ Len(buffered) \in k .. Len(buffered)
    BY <1>1
  <2>2. a \o b = SubSeq(buffered, 1, Len(buffered))
    BY <1>1, <2>1, ConcatAdjacentSubSeq
  <2> QED BY <1>1, <2>2, SubSeqFull
<1> HIDE DEF a, b
<1>6. disk' = [disk EXCEPT ![pFile] = disk[pFile] \o a] /\ buffered' = b
  BY <1>3 DEF a, b
<1>7. UNCHANGED <<pFile, no, size, place, ready, mutex, pc, line, lines, since, kills>>
  BY DEF L!Flush
<1>8. OnlyFull /\ disk' \in [L!FileNos -> Seq(LogLine) \cup {NULL}] /\ disk'[pFile] # NULL
  BY <1>1, <1>2, <1>4, <1>6, OneGrows
<1>9. LogTypes'
  BY <1>1, <1>4, <1>6, <1>7, <1>8 DEF LogTypes
<1>10. ASSUME NEW f \in L!FileNos
       PROVE  L!File(f)' = L!File(f)
  <2>1. disk \in [L!FileNos -> Seq(LogLine) \cup {NULL}]
    BY <1>1 DEF LogTypes
  <2>2. CASE f # pFile
    <3>1. disk'[f] = disk[f]
      BY <1>6, <2>1, <2>2
    <3> QED BY <1>7, <2>2, <3>1 DEF L!File
  <2>3. CASE f = pFile
    <3>1. disk'[f] = disk[f] \o a
      BY <1>6, <2>1, <2>3
    <3>2. L!File(f)' = (disk[f] \o a) \o b
      BY <1>6, <1>7, <1>8, <2>3, <3>1, Zenon DEF L!File
    <3>3. L!File(f) = disk[f] \o (a \o b)
      BY <1>1, <1>5, <2>3, FileType, Zenon
    <3>4. (disk[f] \o a) \o b = disk[f] \o (a \o b)
      <4>1. disk[f] \in Seq(LogLine)
        BY <1>2, <2>3
      <4>2. \A x, y, z \in Seq(LogLine) : (x \o y) \o z = x \o (y \o z)
        BY ConcatAssociative
      <4> HIDE DEF LogLine
      <4> QED BY <1>4, <4>1, <4>2, Zenon
    <3> QED BY <3>2, <3>3, <3>4, Zenon
  <2> QED BY <2>2, <2>3
<1> QED BY <1>7, <1>8, <1>9, <1>10, LogSame

LEMMA LogDestroyed ==
    ASSUME L!Parameters, LogInv, L!LOG_Destroy
    PROVE  LogInv' /\ OnlyFull
<1> USE DEF L!Inside, L!setup, L!past
<1>1. LogTypes /\ pFile # NULL /\ pFile \in L!FileNos /\ buffered \in Seq(LogLine)
  BY DEF LogInv, LogTypes, L!LOG_Destroy
<1>2. disk[pFile] \in Seq(LogLine)
  BY <1>1, FileType
<1>3. /\ disk' = [disk EXCEPT ![pFile] = disk[pFile] \o buffered]
      /\ pFile' = NULL /\ buffered' = << >>
      /\ UNCHANGED <<no, size, place, ready, mutex, pc, line, lines, since, kills>>
  BY DEF L!LOG_Destroy
<1>4. OnlyFull /\ disk' \in [L!FileNos -> Seq(LogLine) \cup {NULL}] /\ disk'[pFile] # NULL
  BY <1>1, <1>2, <1>3, OneGrows
<1>5. LogTypes'
  <2>1. << >> \in Seq(LogLine)
    OBVIOUS
  <2> QED BY <1>1, <1>3, <1>4, <2>1 DEF LogTypes
<1>6. ASSUME NEW f \in L!FileNos
      PROVE  L!File(f)' = L!File(f)
  <2>1. disk \in [L!FileNos -> Seq(LogLine) \cup {NULL}] /\ NULL \notin L!FileNos
    BY <1>1, Zenon DEF LogTypes, L!Parameters
  <2>2. CASE f # pFile
    <3>1. disk'[f] = disk[f]
      BY <1>3, <2>1, <2>2
    <3> QED BY <1>3, <2>1, <2>2, <3>1 DEF L!File
  <2>3. CASE f = pFile
    <3>1. disk'[f] = disk[f] \o buffered
      BY <1>3, <2>1, <2>3
    <3>2. L!File(f)' = (disk[f] \o buffered) \o << >>
      BY <1>3, <1>4, <2>1, <2>3, <3>1, Zenon DEF L!File
    <3>3. L!File(f) = disk[f] \o buffered /\ L!File(f) \in Seq(LogLine)
      BY <1>1, <2>3, FileType, Zenon
    <3> QED BY <3>2, <3>3, ConcatEmptySeq
  <2> QED BY <2>2, <2>3
<1> QED BY <1>3, <1>4, <1>5, <1>6, LogSame

LEMMA LogOpened ==
    ASSUME L!Parameters, LogInv, NEW t \in Threads, L!LOG_OpenLogFile(t)
    PROVE  LogInv' /\ OnlyFull
<1> USE DEF L!Inside, L!setup, L!stream, L!past
<1>1. LogTypes /\ no \in L!FileNos /\ NULL \notin L!FileNos
  <2>1. NULL \notin L!FileNos
    BY Zenon DEF L!Parameters
  <2> QED BY <2>1 DEF LogInv, LogTypes
<1>2. /\ UNCHANGED <<buffered, no, size, place, ready, mutex, line, lines, since, kills>>
      /\ pc' = [pc EXCEPT ![t] = "write"] /\ pc[t] = "open"
  BY DEF L!LOG_OpenLogFile
<1>3. CASE pFile = NULL /\ ready
  <2>1. pFile' = no /\ disk' = [disk EXCEPT ![no] = IF L!Appends(no) THEN disk[no] ELSE << >>]
    BY <1>3 DEF L!LOG_OpenLogFile
  <2>2. size = FileSize /\ buffered = << >> /\ disk \in [L!FileNos -> Seq(LogLine) \cup {NULL}]
    BY <1>1, <1>3 DEF LogTypes
  <2>3. << >> \in Seq(LogLine) /\ NULL \notin Seq(LogLine)
    <3>1. NULL \notin Seq(LogLine)
      BY Zenon DEF L!Parameters, LogLine
    <3> QED BY <3>1
  <2>4. \A f \in L!FileNos : f # no => L!File(f)' = L!File(f)
    <3> SUFFICES ASSUME NEW f \in L!FileNos, f # no
                 PROVE  L!File(f)' = L!File(f)
      OBVIOUS
    <3>1. disk'[f] = disk[f] /\ f # pFile /\ f # pFile'
      BY <1>1, <1>3, <2>1, <2>2
    <3> QED BY <3>1, Zenon DEF L!File
  <2>5. CASE L!Appends(no)
    <3>1. disk' = disk /\ disk[no] # NULL /\ disk[no] \in Seq(LogLine)
      BY <1>1, <2>1, <2>2, <2>5 DEF L!Appends
    <3>2. L!Length(disk[no]) < FileSize
      BY <2>2, <2>5 DEF L!Appends
    <3>3. ASSUME NEW f \in L!FileNos, f = no
          PROVE  L!File(f)' = L!File(f) /\ L!File(f) = disk[no]
      <4>1. L!File(f) = disk[f]
        BY <1>1, <1>3, <3>1, <3>3, FileType
      <4>2. L!File(f)' = disk[f] \o << >>
        BY <1>2, <2>1, <2>2, <3>1, <3>3, Zenon DEF L!File
      <4>3. disk[f] \in Seq(LogLine)
        BY <3>1, <3>3
      <4> QED BY <3>3, <4>1, <4>2, <4>3, ConcatEmptySeq
    <3>4. LogTypes'
      BY <1>1, <1>2, <1>3, <2>1, <3>1 DEF LogTypes
    <3>5. Files'
      <4> SUFFICES ASSUME NEW f \in L!FileNos
                   PROVE  FileOK(L!File(f)', Len(lines)', (f = pFile)')
        BY DEF Files
      <4>1. FileOK(L!File(f), Len(lines), f = pFile) /\ L!File(f)' = L!File(f)
        <5>1. L!File(f)' = L!File(f)
          BY <2>4, <3>3
        <5> QED BY <5>1 DEF LogInv, Files
      <4>2. (f = pFile') => L!Length(L!File(f)) < FileSize
        BY <2>1, <3>2, <3>3
      <4> QED BY <1>2, <4>1, <4>2 DEF FileOK
    <3>6. Newest'
      <4>1. \A f \in L!FileNos : \A n : Holds(f, n)' <=> Holds(f, n)
        BY <1>2, <2>4, <3>3 DEF Holds
      <4>2. \A n : Current(n) => Current(n)'
        BY <1>1, <1>2, <2>1, <4>1 DEF Current
      <4>3. Before(no) \in L!FileNos /\ Before(Before(no)) \in L!FileNos
        BY <1>1 DEF Before, L!FileNos, L!MAX_LOG_FILE_NUM
      <4> QED BY <1>2, <4>1, <4>2, <4>3 DEF LogInv, Newest
    <3>7. OnlyFull
      <4>1. \A f \in L!FileNos : disk[f] # NULL => L!IsPrefix(disk[f], disk'[f])
        BY <2>2, <3>1, PrefixFacts, Zenon
      <4> QED BY <4>1 DEF OnlyFull
    <3> QED BY <3>4, <3>5, <3>6, <3>7 DEF LogInv
  <2>6. CASE ~ L!Appends(no)
    <3>1. /\ disk'[no] = << >>
          /\ disk' \in [L!FileNos -> Seq(LogLine) \cup {NULL}]
          /\ \A f \in L!FileNos : f # no => disk'[f] = disk[f]
      BY <1>1, <2>1, <2>2, <2>3, <2>6
    <3>2. ASSUME NEW f \in L!FileNos, f = no
          PROVE  L!File(f)' = << >>
      <4>1. disk'[f] = << >>
        BY <3>1, <3>2
      <4>2. L!File(f)' = << >> \o << >>
        BY <1>2, <2>1, <2>2, <2>3, <3>2, <4>1, Zenon DEF L!File
      <4> QED BY <2>3, <4>2, ConcatEmptySeq
    <3>3. LogTypes'
      BY <1>1, <1>2, <1>3, <2>1, <2>3, <3>1 DEF LogTypes
    <3>4. Files'
      <4> SUFFICES ASSUME NEW f \in L!FileNos
                   PROVE  FileOK(L!File(f)', Len(lines)', (f = pFile)')
        BY DEF Files
      <4>1. CASE f = no
        <5>1. FileOK(<< >>, Len(lines)', (f = pFile)')
          BY FileEmpty
        <5> QED BY <3>2, <4>1, <5>1
      <4>2. CASE f # no
        <5>1. FileOK(L!File(f), Len(lines), f = pFile) /\ L!File(f)' = L!File(f) /\ f # pFile'
          BY <2>1, <2>4, <4>2 DEF LogInv, Files
        <5> QED BY <1>2, <5>1 DEF FileOK
      <4> QED BY <4>1, <4>2
    <3>5. Newest'
      <4>1. \A f \in L!FileNos : \A n : f # no => (Holds(f, n)' <=> Holds(f, n))
        BY <1>2, <2>4 DEF Holds
      <4>2. \A n : ~ Current(n)
        <5> SUFFICES ASSUME NEW n, Current(n)
                     PROVE  FALSE
          OBVIOUS
        <5>1. Len(L!File(no)) > 0 /\ L!Length(L!File(no)) < FileSize
          <6>1. PICK k \in 1 .. Len(L!File(no)) : TRUE
            BY DEF Current, Holds
          <6>2. L!File(no) \in Seq(LogLine)
            BY <1>1, FileType
          <6> QED BY <1>3, <6>1, <6>2 DEF Current
        <5>2. disk[no] # NULL
          <6>1. Len(<< >>) = 0
            OBVIOUS
          <6> QED BY <1>1, <1>3, <5>1, <6>1, FileType
        <5>3. L!File(no) = disk[no] /\ disk[no] \in Seq(LogLine) /\ disk[no] # << >>
          <6>1. L!File(no) = disk[no]
            BY <1>1, <1>3, <5>2, FileType
          <6>2. disk[no] \in Seq(LogLine)
            BY <1>1, <2>2, <5>2
          <6> QED BY <5>1, <6>1, <6>2
        <5>4. L!Length(disk[no]) > 0
          BY <5>3, LengthPositive
        <5> QED BY <2>2, <2>6, <5>1, <5>2, <5>3, <5>4 DEF L!Appends
      <4>3. /\ Before(no) \in L!FileNos /\ Before(Before(no)) \in L!FileNos
            /\ Before(no) # no /\ Before(Before(no)) # no
        BY <1>1 DEF Before, L!FileNos, L!MAX_LOG_FILE_NUM
      <4> QED BY <1>2, <4>1, <4>2, <4>3 DEF LogInv, Newest
    <3>6. OnlyFull
      <4> SUFFICES ASSUME NEW f \in L!FileNos, disk[f] # NULL, ~ L!IsPrefix(disk[f], disk'[f])
                   PROVE  L!Length(disk[f]) >= FileSize /\ pFile' = f
        BY DEF OnlyFull
      <4>1. disk[f] \in Seq(LogLine)
        BY <2>2
      <4>2. f = no
        BY <3>1, <4>1, PrefixFacts
      <4>3. disk[f] # << >>
        BY <2>3, <3>1, <4>2, PrefixFacts
      <4>4. L!Length(disk[f]) \in Nat /\ L!Length(disk[f]) > 0
        BY <4>1, <4>3, LengthPositive
      <4>5. FileSize \in Nat
        <5>1. FileSize \in Nat \ {0}
          BY Zenon DEF L!Parameters
        <5> QED BY <5>1
      <4> QED BY <2>1, <2>2, <2>6, <4>2, <4>4, <4>5 DEF L!Appends
    <3> QED BY <3>3, <3>4, <3>5, <3>6 DEF LogInv
  <2> QED BY <2>5, <2>6
<1>4. CASE ~(pFile = NULL /\ ready)
  <2>1. UNCHANGED <<disk, pFile, buffered, no, lines, since>>
    BY <1>2, <1>4 DEF L!LOG_OpenLogFile
  <2>2. LogTypes'
    BY <1>1, <1>2, <2>1 DEF LogTypes
  <2>3. OnlyFull
    <3>1. disk \in [L!FileNos -> Seq(LogLine) \cup {NULL}]
      BY <1>1 DEF LogTypes
    <3>2. \A f \in L!FileNos : disk[f] # NULL => L!IsPrefix(disk[f], disk'[f])
      BY <2>1, <3>1, PrefixFacts, Zenon
    <3> QED BY <3>2 DEF OnlyFull
  <2> QED BY <2>1, <2>2, <2>3, LogQuiet
<1> QED BY <1>3, <1>4

LEMMA LogUnchanged == ASSUME LogTypes, UNCHANGED disk PROVE OnlyFull
<1>1. disk \in [L!FileNos -> Seq(LogLine) \cup {NULL}]
  BY DEF LogTypes
<1>2. << >> \in Seq(LogLine)
  OBVIOUS
<1>3. \A f \in L!FileNos : disk[f] # NULL => L!IsPrefix(disk[f], disk'[f])
  BY <1>1, <1>2, PrefixFacts, Zenon
<1> QED BY <1>3 DEF OnlyFull

LEMMA LogKilled ==
    ASSUME L!Parameters, LogInv, L!Kill
    PROVE  LogInv' /\ OnlyFull
<1> USE DEF L!Inside
<1>1. LogTypes /\ Len(lines) \in Nat /\ NULL \notin L!FileNos
  <2>1. NULL \notin L!FileNos
    BY Zenon DEF L!Parameters
  <2> QED BY <2>1 DEF LogInv, LogTypes
<1>2. /\ buffered' = << >> /\ pFile' = NULL /\ no' = 0 /\ size' = 0 /\ ~ready' /\ mutex' = NULL
      /\ pc' = [t \in Threads |-> "idle"] /\ line' = [t \in Threads |-> NULL]
      /\ since' = Len(lines) + 1 /\ UNCHANGED <<disk, lines>>
  BY DEF L!Kill
<1>3. LogTypes'
  <2>1. << >> \in Seq(LogLine)
    OBVIOUS
  <2>2. 0 \in L!FileNos
    BY DEF L!FileNos, L!MAX_LOG_FILE_NUM
  <2> QED BY <1>1, <1>2, <2>1, <2>2 DEF LogTypes
<1>4. ASSUME NEW f \in L!FileNos
      PROVE  FileOK(L!File(f)', Len(lines)', (f = pFile)')
  <2>1. FileOK(L!File(f), Len(lines), f = pFile)
    BY DEF LogInv, Files
  <2>2. CASE f # pFile
    <3>1. L!File(f)' = L!File(f)
      BY <1>1, <1>2, <2>2, Zenon DEF L!File
    <3> QED BY <1>1, <1>2, <2>1, <3>1 DEF FileOK
  <2>3. CASE f = pFile
    <3> DEFINE s == L!File(f)
               d == disk[f]
    <3>1. s = d \o buffered /\ d \in Seq(LogLine) /\ buffered \in Seq(LogLine) /\ d # NULL
      BY <1>1, <2>3, FileType DEF LogTypes
    <3>2. L!File(f)' = d
      <4>1. L!File(f)' = d \o << >>
        BY <1>1, <1>2, <3>1, Zenon DEF L!File
      <4> QED BY <3>1, <4>1, ConcatEmptySeq
    <3> HIDE DEF s, d
    <3>3. d = SubSeq(s, 1, Len(d)) /\ Len(d) \in 0 .. Len(s)
      <4>1. s \in Seq(LogLine) /\ Len(d) \in Nat /\ Len(s) \in Nat /\ Len(d) <= Len(s)
        BY <3>1
      <4>2. SubSeq(s, 1, Len(d)) \in Seq(LogLine) /\ Len(SubSeq(s, 1, Len(d))) = Len(d)
        BY <4>1
      <4>3. \A i \in 1 .. Len(d) : SubSeq(s, 1, Len(d))[i] = d[i]
        BY <3>1, <4>1
      <4>4. d = SubSeq(s, 1, Len(d))
        BY <3>1, <4>2, <4>3, SeqEqual
      <4> QED BY <4>1, <4>4
    <3>4. FileOK(SubSeq(s, 1, Len(d)), Len(lines), FALSE)
      BY <2>1, <3>3, FilePrefix DEF s
    <3>5. (f = pFile)' = FALSE
      BY <1>1, <1>2
    <3> QED BY <1>2, <3>2, <3>3, <3>4, <3>5
  <2> QED BY <2>2, <2>3
<1>5. Newest'
  BY <1>1, <1>2 DEF Newest
<1> QED BY <1>1, <1>2, <1>3, <1>4, <1>5, LogUnchanged DEF LogInv, Files

(* fputs: the file that is open gets one line more.                           *)
LEMMA LogLineAdded ==
    ASSUME L!Parameters, LogInv, NEW t \in Threads, L!Write(t), pFile # NULL,
           NEW l, l = [id |-> Len(lines) + 1, size |-> line[t]],
           NEW file, file = Append(L!File(pFile), l)
    PROVE  /\ l \in LogLine /\ file \in Seq(LogLine)
           /\ lines' = Append(lines, l)
           /\ UNCHANGED <<size, place, ready, mutex, line, since, kills>>
           /\ pc' = [pc EXCEPT ![t] = "unlock"]
           /\ \/ /\ L!Length(file) >= FileSize
                 /\ disk' = [disk EXCEPT ![pFile] = file]
                 /\ pFile' = NULL /\ buffered' = << >> /\ no' = L!Rotated
              \/ /\ ~(L!Length(file) >= FileSize)
                 /\ buffered' = Append(buffered, l) /\ UNCHANGED <<disk, pFile, no>>
           /\ file = disk[pFile] \o Append(buffered, l)
<1>1. LogTypes /\ pFile = no /\ pFile \in L!FileNos /\ size = FileSize
  BY DEF LogInv, LogTypes
<1>2. pc[t] = "write" /\ line[t] \in Sizes /\ Len(lines) \in Nat
  BY <1>1 DEF L!Write, LogTypes
<1>3. l \in LogLine
  BY <1>2 DEF LogLine
<1>4. buffered \in Seq(LogLine) /\ disk[pFile] \in Seq(LogLine) /\ L!File(pFile) = disk[pFile] \o buffered
  BY <1>1, FileType DEF LogTypes
<1> DEFINE new == Append(buffered, l)
<1>5. L!Last(new) = l /\ new \in Seq(LogLine)
  BY <1>3, <1>4 DEF L!Last
<1>6. disk[pFile] \o new = file
  <2>1. new = buffered \o <<l>>
    BY <1>3, <1>4, AppendIsConcat
  <2>2. file = (disk[pFile] \o buffered) \o <<l>>
    <3>1. disk[pFile] \o buffered \in Seq(LogLine)
      BY <1>4
    <3> QED BY <1>3, <1>4, <3>1, AppendIsConcat
  <2>3. \A x, y, z \in Seq(LogLine) : (x \o y) \o z = x \o (y \o z)
    BY ConcatAssociative
  <2>4. <<l>> \in Seq(LogLine)
    BY <1>3
  <2> HIDE DEF LogLine, new
  <2> QED BY <1>4, <2>1, <2>2, <2>3, <2>4, Zenon
<1>7. file \in Seq(LogLine)
  BY <1>4, <1>5, <1>6
<1>8. /\ lines' = Append(lines, L!Last(new))
      /\ IF L!Length(disk[pFile] \o new) >= size
         THEN /\ disk' = [disk EXCEPT ![pFile] = disk[pFile] \o new]
              /\ pFile' = NULL /\ buffered' = << >>
              /\ no' = L!Rotated
         ELSE buffered' = new /\ UNCHANGED <<disk, pFile, no>>
      /\ UNCHANGED <<size, place, ready, mutex, line, since, kills>>
      /\ pc' = [pc EXCEPT ![t] = "unlock"]
  BY Zenon DEF L!Write, L!setup
<1> HIDE DEF new
<1> QED BY <1>1, <1>3, <1>5, <1>6, <1>7, <1>8, Zenon DEF new

LEMMA LogWritten ==
    ASSUME L!Parameters, LogInv, NEW t \in Threads, L!Write(t)
    PROVE  LogInv' /\ OnlyFull
<1> USE DEF L!Inside
<1>1. LogTypes /\ Len(lines) \in Nat /\ NULL \notin L!FileNos /\ no \in L!FileNos
  <2>1. NULL \notin L!FileNos
    BY Zenon DEF L!Parameters
  <2> QED BY <2>1 DEF LogInv, LogTypes
<1>2. CASE pFile = NULL
  <2>1. /\ UNCHANGED <<disk, pFile, buffered, no, lines, since, size, place, ready, mutex, line>>
        /\ pc[t] = "write" /\ pc' = [pc EXCEPT ![t] = "unlock"]
    BY <1>2 DEF L!Write, L!setup, L!stream
  <2>2. LogTypes'
    BY <1>1, <2>1 DEF LogTypes
  <2> QED BY <1>1, <2>1, <2>2, LogQuiet, LogUnchanged
<1>3. CASE pFile # NULL
  <2> DEFINE l == [id |-> Len(lines) + 1, size |-> line[t]]
             file == Append(L!File(pFile), l)
             full == L!Length(file) >= FileSize
  <2>1. /\ l \in LogLine /\ file \in Seq(LogLine)
        /\ lines' = Append(lines, l)
        /\ UNCHANGED <<size, place, ready, mutex, line, since, kills>>
        /\ pc' = [pc EXCEPT ![t] = "unlock"]
        /\ \/ /\ full
              /\ disk' = [disk EXCEPT ![pFile] = file]
              /\ pFile' = NULL /\ buffered' = << >> /\ no' = L!Rotated
           \/ /\ ~full
              /\ buffered' = Append(buffered, l) /\ UNCHANGED <<disk, pFile, no>>
        /\ file = disk[pFile] \o Append(buffered, l)
    BY <1>3, LogLineAdded
  <2>2. /\ pFile = no /\ pFile \in L!FileNos /\ ready /\ buffered \in Seq(LogLine)
        /\ disk \in [L!FileNos -> Seq(LogLine) \cup {NULL}] /\ lines \in Seq(LogLine)
    BY <1>1, <1>3 DEF LogTypes
  <2>3. L!File(pFile) \in Seq(LogLine) /\ disk[pFile] \in Seq(LogLine)
    BY <1>1, <2>2, FileType
  <2>4. pc[t] = "write" /\ l.id = Len(lines) + 1
    BY DEF L!Write
  <2>5. /\ Len(file) = Len(L!File(pFile)) + 1 /\ Len(L!File(pFile)) \in Nat
        /\ file[Len(file)] = l
        /\ \A k \in 1 .. Len(L!File(pFile)) : file[k] = L!File(pFile)[k]
    BY <2>1, <2>3
  <2>6. FileOK(file, Len(lines) + 1, ~full)
    <3>1. FileOK(L!File(pFile), Len(lines), TRUE)
      BY <2>2 DEF LogInv, Files
    <3>2. ~full => L!Length(file) < FileSize
      <4>1. L!Length(file) \in Nat /\ FileSize \in Nat
        <5>1. FileSize \in Nat \ {0}
          BY Zenon DEF L!Parameters
        <5> QED BY <2>1, <5>1, LengthPositive
      <4> QED BY <4>1
    <3> QED BY <1>1, <2>1, <2>4, <3>1, <3>2, FileAppend
  <2> HIDE DEF file, full, l
  <2>7. Len(lines') = Len(lines) + 1 /\ lines' \in Seq(LogLine) /\ lines'[Len(lines) + 1] = l
        /\ \A k \in 1 .. Len(lines) : lines'[k] = lines[k]
    BY <2>1, <2>2
  <2>8. LogTypes'
    <3>1. CASE full
      <4>1. NULL \notin Seq(LogLine) /\ << >> \in Seq(LogLine)
        <5>1. NULL \notin Seq(LogLine)
          BY Zenon DEF L!Parameters, LogLine
        <5> QED BY <5>1
      <4>2. disk' \in [L!FileNos -> Seq(LogLine) \cup {NULL}]
        BY <2>1, <2>2, <3>1
      <4>3. no' \in L!FileNos
        BY <1>1, <2>1, <3>1 DEF L!Rotated, L!FileNos, L!MAX_LOG_FILE_NUM
      <4> QED BY <1>1, <2>1, <2>4, <2>7, <3>1, <4>1, <4>2, <4>3 DEF LogTypes
    <3>2. CASE ~full
      <4>1. buffered' = Append(buffered, l) /\ UNCHANGED <<disk, pFile, no>>
        BY <2>1, <3>2, Zenon
      <4>2. buffered' \in Seq(LogLine)
        BY <2>1, <2>2, <4>1
      <4>3. /\ UNCHANGED <<size, place, ready, mutex, line, since, kills>>
            /\ pc' = [pc EXCEPT ![t] = "unlock"] /\ lines' \in Seq(LogLine)
        BY <2>1, <2>7
      <4> QED BY <1>1, <1>3, <2>4, <4>1, <4>2, <4>3 DEF LogTypes
    <3> QED BY <3>1, <3>2
  <2>9. ASSUME NEW f \in L!FileNos, f # pFile
        PROVE  L!File(f)' = L!File(f)
    <3>1. disk'[f] = disk[f] /\ f # pFile'
      BY <1>1, <2>1, <2>2, <2>9
    <3> QED BY <2>9, <3>1, Zenon DEF L!File
  <2>10. ASSUME NEW f \in L!FileNos, f = pFile
         PROVE  L!File(f)' = file
    <3>1. NULL \notin Seq(LogLine)
      BY Zenon DEF L!Parameters, LogLine
    <3>2. CASE full
      <4>1. disk'[f] = file /\ f # pFile'
        BY <1>1, <2>1, <2>2, <2>10, <3>2
      <4>2. L!File(f)' = file \o << >>
        BY <2>1, <3>1, <4>1, Zenon DEF L!File
      <4> QED BY <2>1, <4>2, ConcatEmptySeq
    <3>3. CASE ~full
      <4>1. disk'[f] = disk[pFile] /\ f = pFile' /\ buffered' = Append(buffered, l)
        BY <2>1, <2>10, <3>3
      <4>2. L!File(f)' = disk[pFile] \o Append(buffered, l)
        BY <2>3, <3>1, <4>1, Zenon DEF L!File
      <4> QED BY <2>1, <4>2
    <3> QED BY <3>2, <3>3
  <2>11. Files'
    <3> SUFFICES ASSUME NEW f \in L!FileNos
                 PROVE  FileOK(L!File(f)', Len(lines)', (f = pFile)')
      BY DEF Files
    <3>1. CASE f = pFile
      <4>1. (f = pFile') => ~full
        BY <1>1, <2>1
      <4>2. L!File(f)' = file
        BY <2>10, <3>1
      <4> QED BY <2>6, <2>7, <4>1, <4>2 DEF FileOK
    <3>2. CASE f # pFile
      <4>1. FileOK(L!File(f), Len(lines) + 1, FALSE)
        <5>1. FileOK(L!File(f), Len(lines), f = pFile)
          BY DEF LogInv, Files
        <5> QED BY <1>1, <5>1, FileLater
      <4>2. f # pFile'
        BY <1>1, <2>1, <3>2
      <4> QED BY <2>7, <2>9, <3>2, <4>1, <4>2 DEF FileOK
    <3> QED BY <3>1, <3>2
  <2>12. \A f \in L!FileNos : \A n : f = pFile /\ n = Len(lines) + 1 => Holds(f, n)'
    <3> SUFFICES ASSUME NEW f \in L!FileNos, NEW n, f = pFile, n = Len(lines) + 1
                 PROVE  Holds(f, n)'
      OBVIOUS
    <3>1. L!File(f)' = file /\ Len(file) \in 1 .. Len(file)
      BY <2>5, <2>10
    <3> QED BY <2>5, <2>7, <3>1 DEF Holds
  <2>13. \A f \in L!FileNos, n \in 1 .. Len(lines) : Holds(f, n) => Holds(f, n)'
    <3> SUFFICES ASSUME NEW f \in L!FileNos, NEW n \in 1 .. Len(lines), Holds(f, n)
                 PROVE  Holds(f, n)'
      OBVIOUS
    <3>1. PICK k \in 1 .. Len(L!File(f)) : L!File(f)[k] = lines[n]
      BY DEF Holds
    <3>2. k \in 1 .. Len(L!File(f)') /\ L!File(f)'[k] = L!File(f)[k]
      <4>1. CASE f = pFile
        BY <2>5, <2>10, <4>1
      <4>2. CASE f # pFile
        BY <2>9, <4>2
      <4> QED BY <4>1, <4>2
    <3> QED BY <2>7, <3>1, <3>2 DEF Holds
  <2>14. /\ Before(no) \in L!FileNos /\ since' = since /\ since \in Nat \ {0}
         /\ Len(lines)' = Len(lines) + 1 /\ Len(lines)' - 1 = Len(lines)
    BY <1>1, <2>1, <2>7 DEF Before, L!FileNos, L!MAX_LOG_FILE_NUM, LogTypes
  <2>15. Len(lines) >= since =>
            /\ Len(lines) \in 1 .. Len(lines)
            /\ Holds(no, Len(lines)) \/ Holds(Before(no), Len(lines))
    BY <1>1, <2>14 DEF LogInv, Newest, Current
  <2>16. ASSUME full PROVE Newest'
    <3>1. no' \in L!FileNos /\ Before(no') = no
      <4>1. no \in {0, 1, 2} /\ no' = (no + 1) % 3
        BY <1>1, <2>1, <2>16 DEF L!Rotated, L!FileNos, L!MAX_LOG_FILE_NUM
      <4> QED BY <4>1 DEF Before, L!FileNos, L!MAX_LOG_FILE_NUM
    <3>2. Holds(Before(no), Len(lines))'
      BY <1>1, <2>2, <2>12, <2>14, <3>1
    <3>3. Len(lines) >= since => \/ Holds(Before(no), Len(lines) - 1)'
                                 \/ Holds(Before(Before(no)), Len(lines) - 1)'
      BY <1>1, <2>13, <2>14, <2>15, <3>1
    <3> QED BY <2>14, <3>2, <3>3 DEF Newest
  <2>17. ASSUME ~full PROVE Newest'
    <3>1. pFile' # NULL /\ no' = no
      BY <1>3, <2>1, <2>17
    <3>2. Current(Len(lines))'
      <4>1. Holds(no, Len(lines))'
        BY <1>1, <2>2, <2>12, <2>14, <3>1
      <4> QED BY <3>1, <4>1 DEF Current
    <3>3. Len(lines) >= since => \/ Current(Len(lines) - 1)'
                                 \/ Holds(Before(no), Len(lines) - 1)'
      <4>1. Len(lines) >= since => \/ Holds(no, Len(lines) - 1)'
                                   \/ Holds(Before(no), Len(lines) - 1)'
        BY <1>1, <2>13, <2>14, <2>15, <3>1
      <4> QED BY <3>1, <4>1 DEF Current
    <3> QED BY <2>14, <3>2, <3>3 DEF Newest
  <2>18. Newest'
    BY <2>16, <2>17
  <2>19. OnlyFull
    <3>1. CASE full
      <4>1. disk' = [disk EXCEPT ![pFile] = file] /\ file = disk[pFile] \o Append(buffered, l)
        BY <2>1, <3>1, Zenon
      <4>2. Append(buffered, l) \in Seq(LogLine)
        BY <2>1, <2>2, AppendProperties
      <4>3. disk' = [disk EXCEPT ![pFile] = disk[pFile] \o Append(buffered, l)]
        BY <4>1
      <4> QED BY <1>1, <2>2, <2>3, <4>2, <4>3, OneGrows
    <3>2. CASE ~full
      BY <1>1, <2>1, <3>2, LogUnchanged
    <3> QED BY <3>1, <3>2
  <2> QED BY <2>8, <2>11, <2>18, <2>19 DEF LogInv
<1> QED BY <1>2, <1>3

LEMMA LogStep ==
    ASSUME L!Parameters, LogInv, [L!Next]_L!vars
    PROVE  LogInv' /\ OnlyFull
<1>1. LogTypes
  BY DEF LogInv
<1>2. CASE L!Flush
  BY <1>2, LogFlush
<1>3. CASE L!LOG_Destroy
  BY <1>3, LogDestroyed
<1>4. CASE L!Kill
  BY <1>4, LogKilled
<1>5. CASE \E t \in Threads : L!LOG_OpenLogFile(t) \/ L!Write(t)
  BY <1>5, LogOpened, LogWritten
<1>6. CASE \/ \E where \in {"terminal", "file"} : L!LOG_SetPrintLogPlaceFlag(where)
           \/ L!LOG_Init \/ UNCHANGED L!vars
  BY <1>1, <1>6, LogQuietly, LogUnchanged
<1>7. CASE \E t \in Threads : \/ \E n \in Sizes : L!LOG_PrintLog(t, n)
                              \/ L!Lock(t) \/ L!OpenFails(t) \/ L!Unlock(t)
  BY <1>1, <1>7, LogThreads, LogUnchanged
<1> QED BY <1>2, <1>3, <1>4, <1>5, <1>6, <1>7 DEF L!Next, L!LineStep

LEMMA LogPromises ==
    ASSUME L!Parameters, LogInv
    PROVE  L!TypeOK /\ L!FilesInOrder /\ L!NewestKept
<1>1. L!TypeOK
  BY DEF LogInv, LogTypes, L!TypeOK
<1>2. L!FilesInOrder
  <2> SUFFICES ASSUME NEW f \in L!FileNos
               PROVE  /\ \A i, j \in 1 .. Len(L!File(f)) : i < j => L!File(f)[i].id < L!File(f)[j].id
                      /\ L!File(f) = << >> \/ L!Length(L!Front(L!File(f))) < FileSize
    BY DEF L!FilesInOrder
  <2> DEFINE s == L!File(f)
  <2>1. FileOK(s, Len(lines), f = pFile)
    BY DEF LogInv, Files
  <2> HIDE DEF s
  <2>2. \A i, j \in 1 .. Len(s) : i < j => s[i].id < s[j].id
    BY <2>1 DEF FileOK
  <2>3. s = << >> \/ L!Length(L!Front(s)) < FileSize
    <3>1. s \in Seq(LogLine)
      BY <2>1 DEF FileOK
    <3>2. CASE s # << >>
      <4>1. Len(s) - 1 \in 0 .. Len(s) /\ Len(s) - 1 < Len(s)
        BY <3>1, <3>2
      <4>2. L!Length(SubSeq(s, 1, Len(s) - 1)) < FileSize
        BY <2>1, <4>1 DEF FileOK
      <4> QED BY <4>2 DEF L!Front
    <3> QED BY <3>2
  <2> QED BY <2>2, <2>3 DEF s
<1>3. L!NewestKept
  <2> SUFFICES ASSUME NEW i \in since .. Len(lines), i > Len(lines) - 2
               PROVE  \E f \in L!FileNos : lines[i] \in L!Range(L!File(f))
    BY DEF L!NewestKept, L!MAX_LOG_FILE_NUM
  <2>1. /\ Len(lines) \in Nat /\ since \in Nat \ {0} /\ no \in L!FileNos
        /\ Before(no) \in L!FileNos /\ Before(Before(no)) \in L!FileNos
    BY DEF LogInv, LogTypes, Before, L!FileNos, L!MAX_LOG_FILE_NUM
  <2>2. i = Len(lines) \/ i = Len(lines) - 1
    BY <2>1
  <2>3. \E f \in L!FileNos : Holds(f, i)
    BY <2>1, <2>2 DEF LogInv, Newest, Current
  <2>4. PICK f \in L!FileNos : Holds(f, i)
    BY <2>3
  <2>5. L!File(f) \in Seq(LogLine)
    BY <2>4, FileType DEF LogInv
  <2>6. lines[i] \in L!Range(L!File(f))
    BY <2>4, <2>5 DEF Holds, L!Range
  <2> QED BY <2>6
<1> QED BY <1>1, <1>2, <1>3

(* lf_log.c, for any number of threads and sizes: however the threads interleave   *)
(* and wherever the process is killed, no file is out of order or too long, the     *)
(* latest two lines of a process can be read, and only a full file is emptied.      *)
THEOREM LogKeeps == ASSUME L!Parameters PROVE L!Spec => LogKept
<1>1. L!Init => LogInv
  BY LogInitial
<1>2. LogInv /\ [L!Next]_L!vars => LogInv' /\ OnlyFull
  BY LogStep
<1>3. LogInv => L!TypeOK /\ L!FilesInOrder /\ L!NewestKept
  BY LogPromises
<1>4. OnlyFull => [OnlyFull]_L!vars
  OBVIOUS
<1> QED BY <1>1, <1>2, <1>3, <1>4, PTL DEF L!Spec, LogKept, L!OnlyFullEmptied, OnlyFull

--------------------------------------------------------------------------
(* Uci: uci_c *)
LEMMA LeastOf ==
    ASSUME NEW N \in Nat, NEW T \in SUBSET (1 .. N), T # {}
    PROVE  U!Min(T) \in T /\ \A y \in T : U!Min(T) <= y
<1>1. \E x \in T : \A y \in T : x <= y
  <2> SUFFICES ASSUME \A x \in T : \E y \in T : ~(x <= y)
               PROVE  FALSE
    OBVIOUS
  <2> DEFINE Missed == {n \in 0 .. N : \A k \in 1 .. n : k \notin T}
  <2>1. 0 \in Missed
    OBVIOUS
  <2>2. ASSUME NEW n \in 0 .. N - 1, n \in Missed
        PROVE  n + 1 \in Missed
    <3>1. n + 1 \notin T
      <4> SUFFICES ASSUME n + 1 \in T PROVE FALSE
        OBVIOUS
      <4>1. PICK y \in T : ~(n + 1 <= y)
        OBVIOUS
      <4>2. y \in 1 .. n
        BY <4>1
      <4> QED BY <2>2, <4>2
    <3> QED BY <2>2, <3>1
  <2> HIDE DEF Missed
  <2>3. \A n \in 0 .. N : n \in Missed
    BY <2>1, <2>2, SetInduction
  <2>4. N \in Missed
    BY <2>3
  <2> QED BY <2>4 DEF Missed
<1> QED BY <1>1 DEF U!Min

(* No two sections of the package have one name. *)
UciInv ==
    /\ package \in Seq(U!Section)
    /\ \A i, j \in 1 .. Len(package) : package[i].name = package[j].name => i = j

LEMMA RemovedAt ==
    ASSUME NEW T, NEW s \in Seq(T), NEW i \in 1 .. Len(s)
    PROVE  /\ U!RemoveAt(s, i) \in Seq(T) /\ Len(U!RemoveAt(s, i)) = Len(s) - 1
           /\ \A k \in 1 .. Len(s) - 1 :
                 U!RemoveAt(s, i)[k] = IF k < i THEN s[k] ELSE s[k + 1]
<1> DEFINE a == SubSeq(s, 1, i - 1)
           b == SubSeq(s, i + 1, Len(s))
<1>1. /\ a \in Seq(T) /\ Len(a) = i - 1 /\ \A k \in 1 .. i - 1 : a[k] = s[k]
      /\ b \in Seq(T) /\ Len(b) = Len(s) - i
      /\ \A k \in 1 .. Len(s) - i : b[k] = s[k + i]
  OBVIOUS
<1>2. U!RemoveAt(s, i) = a \o b
  BY DEF U!RemoveAt
<1> HIDE DEF a, b
<1>3. /\ a \o b \in Seq(T) /\ Len(a \o b) = Len(s) - 1
      /\ \A k \in 1 .. Len(s) - 1 : (a \o b)[k] = IF k <= i - 1 THEN a[k] ELSE b[k - (i - 1)]
  <2>1. /\ a \o b \in Seq(T) /\ Len(a \o b) = Len(a) + Len(b)
        /\ \A k \in 1 .. Len(a) + Len(b) : (a \o b)[k] = IF k <= Len(a) THEN a[k] ELSE b[k - Len(a)]
    BY <1>1, ConcatProperties
  <2>2. Len(a) = i - 1 /\ Len(a) + Len(b) = Len(s) - 1
    BY <1>1
  <2> QED BY <2>1, <2>2
<1>4. ASSUME NEW k \in 1 .. Len(s) - 1
      PROVE  (a \o b)[k] = IF k < i THEN s[k] ELSE s[k + 1]
  <2>1. CASE k < i
    BY <1>1, <1>3, <2>1
  <2>2. CASE ~(k < i)
    <3>1. k - (i - 1) \in 1 .. Len(s) - i /\ k - (i - 1) + i = k + 1 /\ ~(k <= i - 1)
      BY <2>2
    <3> QED BY <1>1, <1>3, <2>2, <3>1
  <2> QED BY <2>1, <2>2
<1> QED BY <1>2, <1>3, <1>4

(* What a call may do to the package, and what it returns. *)
Touched ==
    \E i \in 1 .. Len(package) + 1 :
        \/ package' = package
        \/ i \in DOMAIN package /\ package' = U!RemoveAt(package, i)
        \/ i = Len(package) + 1 /\ Len(package') = i /\ U!Front(package') = package
        \/ /\ Len(package') = Len(package)
           /\ \A j \in DOMAIN package : j # i => package'[j] = package[j]

LEMMA Spares ==
    ASSUME UciInv, package' = package
    PROVE  UciInv' /\ Touched
<1>1. 1 \in 1 .. Len(package) + 1
  BY DEF UciInv
<1> QED BY <1>1 DEF UciInv, Touched

LEMMA Deleted ==
    ASSUME UciInv, NEW m \in SUBSET DOMAIN package, m # {}, package' = U!DeletedFirst(m)
    PROVE  UciInv' /\ Touched
<1> DEFINE i == U!Min(m)
           N == Len(package)
<1>1. N \in Nat /\ DOMAIN package = 1 .. N
  BY DEF UciInv
<1>2. i \in 1 .. N
  BY <1>1, LeastOf
<1>3. package' = U!RemoveAt(package, i)
  BY DEF U!DeletedFirst
<1> HIDE DEF i
<1>4. /\ package' \in Seq(U!Section) /\ Len(package') = N - 1
      /\ \A k \in 1 .. N - 1 : package'[k] = IF k < i THEN package[k] ELSE package[k + 1]
  <2>1. package \in Seq(U!Section)
    BY DEF UciInv
  <2> QED BY <1>2, <1>3, <2>1, RemovedAt
<1>5. ASSUME NEW j \in 1 .. Len(package'), NEW k \in 1 .. Len(package'),
             package'[j].name = package'[k].name
      PROVE  j = k
  <2>1. j \in 1 .. N - 1 /\ k \in 1 .. N - 1
    BY <1>4
  <2>2. (IF j < i THEN j ELSE j + 1) \in 1 .. N /\ (IF k < i THEN k ELSE k + 1) \in 1 .. N
    BY <1>1, <2>1
  <2>3. (IF j < i THEN j ELSE j + 1) = (IF k < i THEN k ELSE k + 1)
    BY <1>4, <1>5, <2>1, <2>2 DEF UciInv
  <2> QED BY <1>2, <2>1, <2>3
<1>6. UciInv'
  BY <1>4, <1>5 DEF UciInv
<1>7. i \in 1 .. N + 1 /\ i \in DOMAIN package
  BY <1>1, <1>2
<1> QED BY <1>3, <1>6, <1>7, Zenon DEF Touched

LEMMA Added ==
    ASSUME UciInv, NEW s \in U!Section, U!Find(s.name) = {}, package' = Append(package, s)
    PROVE  UciInv' /\ Touched
<1> DEFINE N == Len(package)
<1>1. N \in Nat /\ DOMAIN package = 1 .. N /\ package \in Seq(U!Section)
  BY DEF UciInv
<1>2. /\ package' \in Seq(U!Section) /\ Len(package') = N + 1 /\ package'[N + 1] = s
      /\ \A k \in 1 .. N : package'[k] = package[k]
  BY <1>1
<1>3. \A k \in 1 .. N : package[k].name # s.name
  BY <1>1 DEF U!Find
<1>4. \A j, k \in 1 .. Len(package') : package'[j].name = package'[k].name => j = k
  BY <1>1, <1>2, <1>3 DEF UciInv
<1>5. U!Front(package') = package
  <2>1. SubSeq(package', 1, N) \in Seq(U!Section) /\ Len(SubSeq(package', 1, N)) = N
    BY <1>1, <1>2
  <2>2. \A k \in 1 .. N : SubSeq(package', 1, N)[k] = package[k]
    BY <1>1, <1>2
  <2>3. SubSeq(package', 1, N) = package
    BY <1>1, <2>1, <2>2, SeqEqual
  <2> QED BY <1>1, <1>2, <2>3 DEF U!Front
<1>6. UciInv'
  BY <1>2, <1>4 DEF UciInv
<1>7. N + 1 \in 1 .. N + 1
  BY <1>1
<1> QED BY <1>2, <1>5, <1>6, <1>7, Zenon DEF Touched

LEMMA Changed ==
    ASSUME UciInv, NEW name, NEW option \in Options, NEW v \in Values \cup {NULL},
           package' = U!WithOption(name, option, v)
    PROVE  UciInv' /\ Touched
<1> DEFINE N == Len(package)
           P == [i \in 1 .. N |->
                    IF i \in U!Find(name) THEN [package[i] EXCEPT !.opts[option] = v] ELSE package[i]]
<1>1. N \in Nat /\ DOMAIN package = 1 .. N /\ \A i \in 1 .. N : package[i] \in U!Section
  BY DEF UciInv
<1>2. package' = P
  BY <1>1 DEF U!WithOption
<1>3. \A i \in 1 .. N : P[i] \in U!Section /\ P[i].name = package[i].name
  BY <1>1 DEF U!Section
<1>4. P \in [1 .. N -> U!Section]
  BY <1>3
<1>5. \A i \in 1 .. N : i \notin U!Find(name) => P[i] = package[i]
  OBVIOUS
<1> HIDE DEF P
<1>6. P \in Seq(U!Section) /\ Len(P) = N
  BY <1>1, <1>4, SeqDef
<1>7. UciInv'
  BY <1>2, <1>3, <1>6 DEF UciInv
<1>8. \A i, j \in U!Find(name) : i = j
  BY <1>1 DEF UciInv, U!Find
<1>9. \E i \in 1 .. N + 1 : \A j \in 1 .. N : j # i => P[j] = package[j]
  <2>1. CASE U!Find(name) = {}
    <3>1. N + 1 \in 1 .. N + 1
      BY <1>1
    <3> QED BY <1>5, <2>1, <3>1
  <2>2. CASE U!Find(name) # {}
    <3>1. PICK i \in U!Find(name) : TRUE
      BY <2>2
    <3>2. i \in 1 .. N + 1
      BY <1>1, <3>1 DEF U!Find
    <3> QED BY <1>5, <1>8, <3>1, <3>2
  <2> QED BY <2>1, <2>2
<1> QED BY <1>1, <1>2, <1>6, <1>7, <1>9 DEF Touched

(* The first section of a type with the option is what FirstByType begins with. *)
Answered ==
    last'.call = "first" /\ last'.fails = "none" =>
        LET typed  == {i \in DOMAIN package : package[i].type = last'.arg[1]}
            having == {i \in typed : package[i].opts[last'.arg[2]] # NULL}
        IN IF typed = {} THEN last'.result = -2
           ELSE IF having = {} THEN last'.result = -3
           ELSE /\ last'.result = 0
                /\ \E i \in having : /\ \A j \in having : i <= j
                                     /\ last'.value = package[i].opts[last'.arg[2]]

CallKeeps == UciInv' /\ Touched /\ (last'.result # 0 => package' = package) /\ Answered

(* A call that changes nothing, under any name but one. *)
LEMMA Failed ==
    ASSUME UciInv, NEW asks, asks # "first", NEW arg, NEW fails, NEW result, NEW context,
           U!Fails(asks, arg, fails, result, context)
    PROVE  CallKeeps
<1>1. package' = package /\ last'.call = asks
  BY DEF U!Fails, U!Returns
<1> QED BY <1>1, Spares DEF CallKeeps, Answered

LEMMA Succeeded ==
    ASSUME UciInv, NEW asks, asks # "first", NEW arg, NEW fails, NEW value, NEW context,
           U!Returns(asks, arg, fails, 0, value, context), UciInv', Touched
    PROVE  CallKeeps
<1>1. last'.result = 0 /\ last'.call = asks
  BY DEF U!Returns
<1> QED BY <1>1 DEF CallKeeps, Answered

LEMMA DelectKeeps ==
    ASSUME UciInv, NEW type, NEW agent \in Options, NEW v, NEW fails,
           U!delect_one_anonsection(type, agent, v, fails)
    PROVE  CallKeeps
<1> DEFINE match == {i \in DOMAIN package : package[i].type = type /\ package[i].opts[agent] = v}
           null  == {i \in DOMAIN package : package[i].type = type /\ package[i].opts[agent] = NULL}
           met   == match \cup null
<1>1. \/ \E result, context : U!Fails("delect", v, fails, result, context)
      \/ /\ met # {} /\ U!Min(met) \notin null
         /\ U!Returns("delect", v, fails, 0, NULL, "freed")
         /\ U!Commit(fails, U!DeletedFirst(match))
  BY Zenon DEF U!delect_one_anonsection
<1> HIDE DEF match, null
<1>2. CASE \E result, context : U!Fails("delect", v, fails, result, context)
  BY <1>2, Failed
<1>3. CASE /\ met # {} /\ U!Min(met) \notin null
           /\ U!Returns("delect", v, fails, 0, NULL, "freed")
           /\ U!Commit(fails, U!DeletedFirst(match))
  <2>1. met \in SUBSET (1 .. Len(package)) /\ Len(package) \in Nat /\ match \subseteq DOMAIN package
    BY DEF UciInv, match, null
  <2>2. match # {}
    <3>1. U!Min(met) \in met
      BY <1>3, <2>1, LeastOf
    <3> QED BY <1>3, <3>1
  <2>3. UciInv' /\ Touched
    BY <1>3, <2>1, <2>2, Spares, Deleted DEF U!Commit
  <2> QED BY <1>3, <2>3, Succeeded
<1> QED BY <1>1, <1>2, <1>3

LEMMA AddKeeps ==
    ASSUME UciInv, U!Parameters, NEW type \in Types, NEW fails,
           U!add_new_section(type, fails)
    PROVE  CallKeeps
<1>1. CASE fails = "load"
  BY <1>1, Failed DEF U!add_new_section
<1>2. CASE fails # "load"
  <2>1. PICK n \in Anonymous : /\ U!Find(n) = {}
                               /\ LET s == [name |-> n, type |-> type, opts |-> [o \in Options |-> NewValue]]
                                  IN U!Commit(fails, Append(package, s))
    BY <1>2 DEF U!add_new_section
  <2> DEFINE s == [name |-> n, type |-> type, opts |-> [o \in Options |-> NewValue]]
  <2>2. s \in U!Section /\ s.name = n
    BY DEF U!Section, U!Parameters
  <2>3. U!Commit(fails, Append(package, s)) /\ U!Find(s.name) = {}
    BY <2>1
  <2> HIDE DEF s
  <2>4. UciInv' /\ Touched
    BY <2>2, <2>3, Spares, Added DEF U!Commit
  <2>5. U!Returns("add", type, fails, 0, NULL, "freed")
    BY <1>2 DEF U!add_new_section
  <2> QED BY <2>4, <2>5, Succeeded
<1> QED BY <1>1, <1>2

LEMMA DeleteKeeps ==
    ASSUME UciInv, NEW name, NEW fails, U!delete_section(name, fails)
    PROVE  CallKeeps
<1>1. \/ \E context : U!Fails("delete", name, fails, -1, context)
      \/ /\ U!Find(name) # {} /\ U!Returns("delete", name, fails, 0, NULL, "freed")
         /\ U!Commit(fails, U!DeletedFirst(U!Find(name)))
  BY Zenon DEF U!delete_section
<1>2. CASE \E context : U!Fails("delete", name, fails, -1, context)
  BY <1>2, Failed
<1>3. CASE /\ U!Find(name) # {} /\ U!Returns("delete", name, fails, 0, NULL, "freed")
           /\ U!Commit(fails, U!DeletedFirst(U!Find(name)))
  <2>1. U!Find(name) \subseteq DOMAIN package
    BY DEF U!Find
  <2>2. UciInv' /\ Touched
    BY <1>3, <2>1, Spares, Deleted DEF U!Commit
  <2> QED BY <1>3, <2>2, Succeeded
<1> QED BY <1>1, <1>2, <1>3

LEMMA OptionKeeps ==
    ASSUME UciInv, NEW name, NEW option \in Options, NEW v \in Values, NEW fails,
           U!uci_delete_option(name, option, fails) \/ U!uci_set_option_string(name, option, v, fails)
    PROVE  CallKeeps
<1>1. CASE \E asks \in {"unset", "set"} : \E result, context : U!Fails(asks, name, fails, result, context)
  BY <1>1, Failed
<1>2. CASE \E asks \in {"unset", "set"}, w \in Values \cup {NULL} :
              /\ U!Returns(asks, name, fails, 0, NULL, "freed")
              /\ U!Commit(fails, U!WithOption(name, option, w))
  <2>1. PICK asks \in {"unset", "set"}, w \in Values \cup {NULL} :
              /\ U!Returns(asks, name, fails, 0, NULL, "freed")
              /\ U!Commit(fails, U!WithOption(name, option, w))
    BY <1>2
  <2>2. UciInv' /\ Touched
    BY <2>1, Spares, Changed DEF U!Commit
  <2> QED BY <2>1, <2>2, Succeeded
<1> QED BY <1>1, <1>2, Zenon DEF U!uci_delete_option, U!uci_set_option_string

LEMMA GetKeeps ==
    ASSUME UciInv, NEW name, NEW option, NEW fails,
           U!lfuci_get_option(name, option, fails) \/ U!list_all_section(fails)
    PROVE  CallKeeps
<1>1. package' = package /\ last'.call \in {"get", "list"}
  BY DEF U!lfuci_get_option, U!list_all_section, U!Fails, U!Returns
<1> QED BY <1>1, Spares DEF CallKeeps, Answered

LEMMA FirstKeeps ==
    ASSUME UciInv, NEW type, NEW option, NEW fails,
           U!lfuci_get_first_option_by_stype(type, option, fails)
    PROVE  CallKeeps
<1> DEFINE typed  == {i \in DOMAIN package : package[i].type = type}
           having == {i \in typed : package[i].opts[option] # NULL}
<1>1. package' = package /\ last'.arg = <<type, option>> /\ last'.fails = fails
  BY DEF U!lfuci_get_first_option_by_stype, U!Returns
<1>2. having = U!FirstByType(type, option)
  BY DEF U!FirstByType
<1>3. fails # "load" =>
         IF typed = {} THEN last'.result = -2
         ELSE IF having = {} THEN last'.result = -3
         ELSE last'.result = 0 /\ last'.value = package[U!Min(having)].opts[option]
  <2>1. typed = {} <=> \A i \in DOMAIN package : package[i].type # type
    OBVIOUS
  <2> HIDE DEF typed, having
  <2> QED BY <1>2, <2>1 DEF U!lfuci_get_first_option_by_stype, U!Returns
<1>4. having # {} => U!Min(having) \in having /\ \A j \in having : U!Min(having) <= j
  <2>1. having \in SUBSET (1 .. Len(package)) /\ Len(package) \in Nat
    BY DEF UciInv
  <2> QED BY <2>1, LeastOf
<1>5. Answered
  <2>1. typed = {i \in DOMAIN package : package[i].type = last'.arg[1]}
    BY <1>1
  <2>2. having = {i \in typed : package[i].opts[last'.arg[2]] # NULL}
    BY <1>1
  <2> HIDE DEF typed, having
  <2> QED BY <1>1, <1>3, <1>4, <2>1, <2>2 DEF Answered
<1> QED BY <1>1, <1>5, Spares DEF CallKeeps

LEMMA UciStep ==
    ASSUME U!Parameters, UciInv, U!Next
    PROVE  CallKeeps
<1>1. PICK fails \in U!Failures :
        \/ \E type \in Types, agent \in Options, v \in Values :
              U!delect_one_anonsection(type, agent, v, fails)
        \/ \E type \in Types : U!add_new_section(type, fails)
        \/ \E name \in Names \cup Anonymous :
              \/ U!delete_section(name, fails)
              \/ \E option \in Options :
                    \/ U!uci_delete_option(name, option, fails)
                    \/ U!lfuci_get_option(name, option, fails)
                    \/ \E v \in Values : U!uci_set_option_string(name, option, v, fails)
        \/ U!list_all_section(fails)
        \/ \E type \in Types, option \in Options :
              U!lfuci_get_first_option_by_stype(type, option, fails)
  BY Zenon DEF U!Next
<1>2. NewValue \in Values
  BY DEF U!Parameters
<1> QED BY <1>1, <1>2, DelectKeeps, AddKeeps, DeleteKeeps, OptionKeeps, GetKeeps, FirstKeeps, Zenon

LEMMA UciInitial == U!Init => UciInv
<1> SUFFICES ASSUME U!Init PROVE UciInv
  OBVIOUS
<1>1. PICK n \in 0 .. 2 : package \in [1 .. n -> {s \in U!Section : s.name \in Names}]
  BY DEF U!Init
<1>2. package \in [1 .. n -> U!Section] /\ DOMAIN package = 1 .. n
  BY <1>1
<1>3. package \in Seq(U!Section) /\ Len(package) = n
  BY <1>2, SeqDef
<1> QED BY <1>2, <1>3 DEF U!Init, UciInv

(* uci_c, for any names, types, options and values: a call changes one section at most, *)
(* none when it fails, and returns what its comment says; no two sections share a name.  *)
THEOREM CallsKeepConfiguration == ASSUME U!Parameters PROVE U!Spec => ConfigurationKept
<1>1. U!Init => UciInv
  BY UciInitial
<1>2. UciInv /\ [U!Next]_U!vars => UciInv'
  <2> SUFFICES ASSUME UciInv, [U!Next]_U!vars PROVE UciInv'
    OBVIOUS
  <2>1. CASE UNCHANGED U!vars
    BY <2>1 DEF UciInv, U!vars
  <2> QED BY <2>1, UciStep DEF CallKeeps
<1>3. UciInv /\ [U!Next]_U!vars =>
         /\ [(last'.result # 0 => package' = package) /\ Touched]_U!vars
         /\ [Answered]_U!vars
  BY UciStep DEF CallKeeps
<1> QED BY <1>1, <1>2, <1>3, PTL
        DEF U!Spec, ConfigurationKept, U!TouchesOne, U!ReturnsAsDocumented, Touched, Answered

--------------------------------------------------------------------------
(* Server: the list of sessions of protocol_lws_minimal.c *)
(* The open sessions as the list has them: the one at i points to that at i + 1. *)
InOrder(s, n) ==
    /\ \A i, j \in 1 .. n : s[i] = s[j] => i = j
    /\ \A c \in open : \E i \in 1 .. n : s[i] = c
    /\ first = IF n = 0 THEN NULL ELSE s[1]
    /\ \A i \in 1 .. n : next[s[i]] = IF i = n THEN NULL ELSE s[i + 1]

ServerInv ==
    /\ open \subseteq Clients /\ asked \subseteq Clients
    /\ next \in [Clients -> Clients \cup {NULL}]
    /\ \E n \in Nat : \E s \in [1 .. n -> open] : InOrder(s, n)

LEMMA ServerQuiet ==
    ASSUME ServerInv, UNCHANGED <<first, next, open>>, asked' \subseteq Clients
    PROVE  ServerInv'
<1>1. PICK n \in Nat : \E s \in [1 .. n -> open] : InOrder(s, n)
  BY DEF ServerInv
<1>2. PICK s \in [1 .. n -> open] : InOrder(s, n)
  BY <1>1
<1>3. InOrder(s, n)' /\ s \in [1 .. n -> open']
  BY <1>2 DEF InOrder
<1>4. \E m \in Nat : \E t \in [1 .. m -> open'] : InOrder(t, m)'
  BY <1>3
<1> QED BY <1>4 DEF ServerInv

LEMMA SessionFirst ==
    ASSUME S!Parameters, ServerInv, NEW c \in Clients, S!Established(c)
    PROVE  ServerInv'
<1>1. PICK n \in Nat : \E s \in [1 .. n -> open] : InOrder(s, n)
  BY DEF ServerInv
<1>2. PICK s \in [1 .. n -> open] : InOrder(s, n)
  BY <1>1
<1>3. /\ c \notin open /\ open' = open \cup {c} /\ first' = c /\ asked' = asked
      /\ next' = [next EXCEPT ![c] = first]
  BY DEF S!Established
<1>4. /\ open \subseteq Clients /\ next \in [Clients -> Clients \cup {NULL}]
      /\ first \in open \cup {NULL} /\ asked \subseteq Clients
  BY <1>2 DEF ServerInv, InOrder
<1>5. next' \in [Clients -> Clients \cup {NULL}] /\ next'[c] = first
      /\ \A p \in open : next'[p] = next[p]
  BY <1>3, <1>4
<1> DEFINE m == n + 1
           t == [i \in 1 .. m |-> IF i = 1 THEN c ELSE s[i - 1]]
<1>6. t \in [1 .. m -> open'] /\ m \in Nat /\ t[1] = c /\ \A i \in 2 .. m : t[i] = s[i - 1] /\ i - 1 \in 1 .. n
  BY <1>3
<1> HIDE DEF m, t
<1>7. \A i, j \in 1 .. m : t[i] = t[j] => i = j
  <2> SUFFICES ASSUME NEW i \in 1 .. m, NEW j \in 1 .. m, t[i] = t[j]
               PROVE  i = j
    OBVIOUS
  <2>1. \A k \in 1 .. n : s[k] # c
    BY <1>3
  <2>2. CASE i = 1 \/ j = 1
    BY <1>6, <2>1, <2>2
  <2>3. CASE i \in 2 .. m /\ j \in 2 .. m
    <3>1. i - 1 = j - 1
      BY <1>2, <1>6, <2>3 DEF InOrder
    <3> QED BY <1>6, <2>3, <3>1
  <2> QED BY <1>6, <2>2, <2>3
<1>8. \A d \in open' : \E i \in 1 .. m : t[i] = d
  <2> SUFFICES ASSUME NEW d \in open'
               PROVE  \E i \in 1 .. m : t[i] = d
    OBVIOUS
  <2>1. CASE d = c
    BY <1>6, <2>1 DEF m
  <2>2. CASE d \in open
    <3>1. PICK k \in 1 .. n : s[k] = d
      BY <1>2, <2>2 DEF InOrder
    <3>2. k + 1 \in 2 .. m /\ k + 1 - 1 = k
      BY DEF m
    <3>3. t[k + 1] = d /\ k + 1 \in 1 .. m
      BY <1>6, <3>1, <3>2
    <3> QED BY <3>3
  <2> QED BY <1>3, <2>1, <2>2
<1>9. \A i \in 1 .. m : next'[t[i]] = IF i = m THEN NULL ELSE t[i + 1]
  <2> SUFFICES ASSUME NEW i \in 1 .. m
               PROVE  next'[t[i]] = IF i = m THEN NULL ELSE t[i + 1]
    OBVIOUS
  <2>1. CASE i = 1
    <3>1. next'[t[i]] = first
      BY <1>5, <1>6, <2>1
    <3>2. n # 0 => t[2] = s[1] /\ m # 1
      BY <1>6 DEF m
    <3>3. n = 0 => m = 1
      BY DEF m
    <3> QED BY <1>2, <2>1, <3>1, <3>2, <3>3 DEF InOrder
  <2>2. CASE i # 1
    <3>1. i \in 2 .. m /\ t[i] = s[i - 1] /\ i - 1 \in 1 .. n /\ s[i - 1] \in open
      BY <1>6, <2>2
    <3>2. next'[t[i]] = IF i - 1 = n THEN NULL ELSE s[i - 1 + 1]
      BY <1>2, <1>5, <3>1 DEF InOrder
    <3>3. i # m => i + 1 \in 2 .. m /\ t[i + 1] = s[i]
      BY <1>6, <3>1
    <3>4. i - 1 = n <=> i = m
      BY <3>1 DEF m
    <3> QED BY <3>1, <3>2, <3>3, <3>4
  <2> QED BY <2>1, <2>2
<1>10. InOrder(t, m)'
  BY <1>3, <1>6, <1>7, <1>8, <1>9 DEF InOrder
<1>11. \E k \in Nat : \E u \in [1 .. k -> open'] : InOrder(u, k)'
  BY <1>6, <1>10
<1>12. open' \subseteq Clients /\ asked' \subseteq Clients
  BY <1>3, <1>4
<1> QED BY <1>5, <1>11, <1>12 DEF ServerInv

LEMMA SessionClosed ==
    ASSUME S!Parameters, ServerInv, NEW c \in Clients, S!Closed(c)
    PROVE  ServerInv'
<1>1. PICK n \in Nat : \E s \in [1 .. n -> open] : InOrder(s, n)
  BY DEF ServerInv
<1>2. PICK s \in [1 .. n -> open] : InOrder(s, n)
  BY <1>1
<1>3. c \in open /\ open' = open \ {c} /\ asked' = asked \ {c} /\ S!Unlink(c)
  BY DEF S!Closed
<1>4. /\ open \subseteq Clients /\ next \in [Clients -> Clients \cup {NULL}]
      /\ asked \subseteq Clients
  BY DEF ServerInv
<1>5. PICK j \in 1 .. n : s[j] = c
  BY <1>2, <1>3 DEF InOrder
<1>6. /\ \A i, k \in 1 .. n : s[i] = s[k] => i = k
      /\ \A i \in 1 .. n : next[s[i]] = IF i = n THEN NULL ELSE s[i + 1]
      /\ NULL \notin Clients /\ n # 0 /\ first = s[1]
  <2>1. n # 0
    BY <1>5
  <2> QED BY <1>2, <2>1 DEF InOrder, S!Parameters
<1>7. next' \in [Clients -> Clients \cup {NULL}]
  <2>1. next[c] \in Clients \cup {NULL}
    BY <1>4
  <2> QED BY <1>3, <1>4, <2>1 DEF S!Unlink
<1>8. ASSUME NEW i \in 1 .. n, i # j
      PROVE  next'[s[i]] = IF i + 1 = j THEN next[c] ELSE next[s[i]]
  <2>1. s[i] \in open /\ s[i] \in Clients
    BY <1>4
  <2>2. next[s[i]] = c <=> i + 1 = j
    <3>1. CASE i = n
      BY <1>3, <1>4, <1>5, <1>6, <3>1
    <3>2. CASE i # n
      <4>1. i + 1 \in 1 .. n /\ next[s[i]] = s[i + 1]
        BY <1>6, <3>2
      <4> QED BY <1>5, <1>6, <4>1
    <3> QED BY <3>1, <3>2
  <2>3. CASE first = c
    <3>1. j = 1
      <4>1. 1 \in 1 .. n /\ s[1] = s[j]
        BY <1>5, <1>6, <2>3
      <4> QED BY <1>6, <4>1
    <3> QED BY <1>3, <1>8, <2>3, <3>1 DEF S!Unlink
  <2>4. CASE first # c
    BY <1>3, <2>1, <2>2, <2>4 DEF S!Unlink
  <2> QED BY <2>3, <2>4
<1> DEFINE m == n - 1
           t == [i \in 1 .. m |-> IF i < j THEN s[i] ELSE s[i + 1]]
<1>9. /\ m \in Nat /\ m + 1 = n
      /\ \A i \in 1 .. m : /\ i \in 1 .. n /\ i + 1 \in 1 .. n
                           /\ i < j => t[i] = s[i]
                           /\ ~(i < j) => t[i] = s[i + 1]
  BY <1>6
<1>10. t \in [1 .. m -> open']
  <2> SUFFICES ASSUME NEW i \in 1 .. m
               PROVE  (IF i < j THEN s[i] ELSE s[i + 1]) \in open'
    OBVIOUS
  <2>1. i < j => s[i] \in open /\ s[i] # c
    BY <1>5, <1>6, <1>9
  <2>2. ~(i < j) => s[i + 1] \in open /\ s[i + 1] # c
    BY <1>5, <1>6, <1>9
  <2> QED BY <1>3, <2>1, <2>2
<1> HIDE DEF m, t
<1>11. \A i, k \in 1 .. m : t[i] = t[k] => i = k
  <2> SUFFICES ASSUME NEW i \in 1 .. m, NEW k \in 1 .. m, t[i] = t[k]
               PROVE  i = k
    OBVIOUS
  <2>1. (IF i < j THEN i ELSE i + 1) = (IF k < j THEN k ELSE k + 1)
    BY <1>6, <1>9
  <2> QED BY <2>1
<1>12. \A d \in open' : \E i \in 1 .. m : t[i] = d
  <2> SUFFICES ASSUME NEW d \in open'
               PROVE  \E i \in 1 .. m : t[i] = d
    OBVIOUS
  <2>1. PICK k \in 1 .. n : s[k] = d
    BY <1>2, <1>3 DEF InOrder
  <2>2. k # j
    BY <1>3, <1>5, <2>1
  <2>3. CASE k < j
    <3>1. k \in 1 .. m
      BY <1>9, <2>3
    <3> QED BY <1>9, <2>1, <2>3, <3>1
  <2>4. CASE k > j
    <3>1. k - 1 \in 1 .. m /\ ~(k - 1 < j) /\ k - 1 + 1 = k
      BY <1>9, <2>4
    <3>2. t[k - 1] = d
      BY <1>9, <2>1, <3>1
    <3> QED BY <3>1, <3>2
  <2> QED BY <2>2, <2>3, <2>4
<1>13. first' = IF m = 0 THEN NULL ELSE t[1]
  <2>1. CASE first = c
    <3>1. j = 1 /\ first' = next[s[1]]
      <4>1. 1 \in 1 .. n /\ s[1] = s[j] /\ s[1] = c
        BY <1>5, <1>6, <2>1
      <4>2. first' = next[c]
        BY <1>3, <2>1 DEF S!Unlink
      <4> QED BY <1>6, <4>1, <4>2
    <3>2. first' = IF n = 1 THEN NULL ELSE s[2]
      BY <1>6, <3>1
    <3>3. m # 0 => t[1] = s[2] /\ n # 1
      BY <1>9, <3>1
    <3> QED BY <1>9, <3>2, <3>3
  <2>2. CASE first # c
    <3>1. first' = s[1] /\ j # 1
      BY <1>3, <1>5, <1>6, <2>2 DEF S!Unlink
    <3>2. m # 0 /\ t[1] = s[1]
      BY <1>9, <3>1
    <3> QED BY <3>1, <3>2
  <2> QED BY <2>1, <2>2
<1>14. \A i \in 1 .. m : next'[t[i]] = IF i = m THEN NULL ELSE t[i + 1]
  <2> SUFFICES ASSUME NEW i \in 1 .. m
               PROVE  next'[t[i]] = IF i = m THEN NULL ELSE t[i + 1]
    OBVIOUS
  <2>1. i # m => i + 1 \in 1 .. m
    BY <1>9
  <2>2. CASE i + 1 < j
    <3>1. next'[t[i]] = s[i + 1]
      BY <1>6, <1>8, <1>9, <2>2
    <3>2. i # m
      BY <1>9, <2>2
    <3> QED BY <1>9, <2>1, <2>2, <3>1, <3>2
  <2>3. CASE i + 1 = j
    <3>1. next'[t[i]] = next[s[j]]
      BY <1>5, <1>8, <1>9, <2>3
    <3>2. next[s[j]] = IF j = n THEN NULL ELSE s[j + 1]
      BY <1>6
    <3>3. i # m => t[i + 1] = s[i + 2] /\ i + 2 = j + 1
      BY <1>9, <2>1, <2>3
    <3>4. i = m <=> j = n
      BY <1>9, <2>3
    <3> QED BY <3>1, <3>2, <3>3, <3>4
  <2>4. CASE i + 1 > j
    <3>1. t[i] = s[i + 1] /\ i + 1 # j /\ i + 1 + 1 # j /\ i + 1 \in 1 .. n
      BY <1>9, <2>4
    <3>2. next'[t[i]] = IF i + 1 = n THEN NULL ELSE s[i + 1 + 1]
      BY <1>6, <1>8, <3>1
    <3>3. i # m => t[i + 1] = s[i + 1 + 1]
      BY <1>9, <2>1, <2>4
    <3>4. i = m <=> i + 1 = n
      BY <1>9
    <3> QED BY <3>2, <3>3, <3>4
  <2> QED BY <1>9, <2>2, <2>3, <2>4
<1>15. InOrder(t, m)'
  BY <1>11, <1>12, <1>13, <1>14 DEF InOrder
<1>16. \E k \in Nat : \E u \in [1 .. k -> open'] : InOrder(u, k)'
  BY <1>9, <1>10, <1>15
<1>17. open' \subseteq Clients /\ asked' \subseteq Clients
  BY <1>3, <1>4
<1> QED BY <1>7, <1>16, <1>17 DEF ServerInv

(* w is the recursive function of Listed. *)
IsWalk(w, most) ==
    w = [k \in 0 .. most |-> IF k = 0 THEN first
                             ELSE IF w[k - 1] = NULL THEN NULL ELSE next[w[k - 1]]]

LEMMA WalkGoesOn ==
    ASSUME NEW most \in Nat, NEW w, IsWalk(w, most), NEW k \in 0 .. most - 1
    PROVE  w[k + 1] = IF w[k] = NULL THEN NULL ELSE next[w[k]]
<1>1. k + 1 \in 0 .. most /\ k + 1 # 0 /\ k + 1 - 1 = k
  OBVIOUS
<1> DEFINE body == [j \in 0 .. most |-> IF j = 0 THEN first
                                        ELSE IF w[j - 1] = NULL THEN NULL ELSE next[w[j - 1]]]
<1>2. w = body
  BY Zenon DEF IsWalk
<1>3. body[k + 1] = IF w[k + 1 - 1] = NULL THEN NULL ELSE next[w[k + 1 - 1]]
  BY <1>1
<1> HIDE DEF body
<1>4. w[k + 1] = body[k + 1]
  BY <1>2
<1> QED BY <1>1, <1>3, <1>4

(* The walk of lws_start_foreach_llp goes through the sessions in order, and ends.  *)
LEMMA WalkIsOpen ==
    ASSUME S!Parameters, ServerInv
    PROVE  S!ListIsOpen
<1>1. PICK n \in Nat : \E s \in [1 .. n -> open] : InOrder(s, n)
  BY DEF ServerInv
<1>2. PICK s \in [1 .. n -> open] : InOrder(s, n)
  BY <1>1
<1>3. /\ \A i, k \in 1 .. n : s[i] = s[k] => i = k
      /\ \A c \in open : \E i \in 1 .. n : s[i] = c
      /\ \A i \in 1 .. n : next[s[i]] = IF i = n THEN NULL ELSE s[i + 1]
      /\ first = IF n = 0 THEN NULL ELSE s[1]
  BY <1>2 DEF InOrder
<1>4. /\ open \subseteq Clients /\ NULL \notin Clients /\ IsFiniteSet(Clients)
      /\ \A i \in 1 .. n : s[i] # NULL
  <2>1. open \subseteq Clients /\ NULL \notin Clients /\ IsFiniteSet(Clients)
    BY Zenon DEF ServerInv, S!Parameters, S!IsFiniteSet, IsFiniteSet
  <2> QED BY <2>1
<1> DEFINE most == Cardinality(Clients)
<1>5. most \in Nat /\ n <= most
  <2>1. most \in Nat
    BY <1>4, FS_CardinalityType
  <2>2. IsFiniteSet(1 .. n) /\ Cardinality(1 .. n) = n
    BY FS_Interval
  <2>3. s \in [1 .. n -> Clients]
    BY <1>4
  <2>4. ~(most < Cardinality(1 .. n))
    BY <1>3, <1>4, <2>2, <2>3, FS_PigeonHole
  <2> QED BY <2>1, <2>2, <2>4
<1> DEFINE g == [k \in 0 .. most |-> IF k < n THEN s[k + 1] ELSE NULL]
<1> HIDE DEF most
<1>6. IsWalk(g, most)
  <2> SUFFICES ASSUME NEW k \in 0 .. most
               PROVE  g[k] = IF k = 0 THEN first
                             ELSE IF g[k - 1] = NULL THEN NULL ELSE next[g[k - 1]]
    BY DEF IsWalk
  <2>1. CASE k = 0
    BY <1>3, <1>5, <2>1
  <2>2. CASE k # 0
    <3>1. k - 1 \in 0 .. most /\ k \in 1 .. most
      BY <1>5, <2>2
    <3>2. CASE k - 1 < n
      <4>1. k \in 1 .. n /\ g[k - 1] = s[k]
        BY <3>1, <3>2
      <4> QED BY <1>3, <1>4, <2>2, <3>1, <4>1
    <3>3. CASE ~(k - 1 < n)
      BY <2>2, <3>1, <3>3
    <3> QED BY <3>2, <3>3
  <2> QED BY <2>1, <2>2
<1> HIDE DEF g
<1> DEFINE f == CHOOSE h : IsWalk(h, most)
<1>7. IsWalk(f, most)
  BY <1>6
<1> HIDE DEF f
<1>8. S!Listed = {f[k] : k \in 0 .. most} \ {NULL}
  BY Zenon DEF S!Listed, S!Cardinality, Cardinality, IsWalk, most, f
<1>9. \A k \in 0 .. most : f[k] = g[k]
  <2> DEFINE T == {k \in 0 .. most : f[k] = g[k]}
  <2>1. 0 \in T
    BY <1>5, <1>6, <1>7 DEF IsWalk
  <2>2. ASSUME NEW k \in 0 .. most - 1, k \in T
        PROVE  k + 1 \in T
    <3>1. k + 1 \in 0 .. most /\ k + 1 # 0 /\ k + 1 - 1 = k /\ f[k] = g[k]
      BY <1>5, <2>2
    <3>2. f[k + 1] = IF f[k] = NULL THEN NULL ELSE next[f[k]]
      BY <1>5, <1>7, <3>1, WalkGoesOn
    <3>3. g[k + 1] = IF g[k] = NULL THEN NULL ELSE next[g[k]]
      BY <1>5, <1>6, <3>1, WalkGoesOn
    <3> QED BY <3>1, <3>2, <3>3
  <2> HIDE DEF T
  <2>3. \A k \in 0 .. most : k \in T
    BY <1>5, <2>1, <2>2, SetInduction
  <2> QED BY <2>3 DEF T
<1>10. S!Listed = open
  <2>1. ASSUME NEW c \in S!Listed
        PROVE  c \in open
    <3>1. PICK k \in 0 .. most : c = g[k] /\ c # NULL
      BY <1>8, <1>9
    <3>2. k < n /\ c = s[k + 1]
      BY <3>1 DEF g
    <3> QED BY <1>5, <3>1, <3>2
  <2>2. ASSUME NEW c \in open
        PROVE  c \in S!Listed
    <3>1. PICK i \in 1 .. n : s[i] = c
      BY <1>3
    <3>2. i - 1 \in 0 .. most /\ g[i - 1] = s[i] /\ c # NULL
      BY <1>4, <1>5, <3>1 DEF g
    <3> QED BY <1>8, <1>9, <3>1, <3>2
  <2> QED BY <2>1, <2>2
<1> QED BY <1>4, <1>10 DEF S!ListIsOpen

(* server5.c, for any number of sessions: connections that open and close in any  *)
(* order leave the list of the virtual host with the open sessions, and no other.  *)
THEOREM ListHoldsOpen == ASSUME S!Parameters PROVE S!Spec => []S!ListIsOpen
<1>1. S!Init => ServerInv
  <2> SUFFICES ASSUME S!Init PROVE ServerInv
    OBVIOUS
  <2> DEFINE s == [i \in 1 .. 0 |-> NULL]
  <2>1. s \in [1 .. 0 -> open] /\ InOrder(s, 0)
    BY DEF S!Init, InOrder
  <2>2. \E n \in Nat : \E t \in [1 .. n -> open] : InOrder(t, n)
    BY <2>1
  <2> QED BY <2>2 DEF S!Init, ServerInv
<1>2. ServerInv /\ [S!Next]_S!vars => ServerInv'
  <2> SUFFICES ASSUME ServerInv, [S!Next]_S!vars
               PROVE  ServerInv'
    OBVIOUS
  <2>1. CASE \E c \in Clients : S!Established(c)
    BY <2>1, SessionFirst
  <2>2. CASE \E c \in Clients : S!Closed(c) \/ S!WriteFails(c)
    BY <2>2, SessionClosed DEF S!WriteFails
  <2>3. CASE \E c \in Clients : S!Receive(c) \/ S!Writeable(c)
    BY <2>3, ServerQuiet DEF S!Receive, S!Received, S!Writeable, ServerInv
  <2>4. CASE S!EventWaitCancelled
    <3>1. asked' \subseteq Clients
      BY <2>4, WalkIsOpen DEF S!EventWaitCancelled, S!ListIsOpen, ServerInv
    <3> QED BY <2>4, <3>1, ServerQuiet DEF S!EventWaitCancelled
  <2>5. CASE UNCHANGED S!vars
    BY <2>5, ServerQuiet DEF S!vars, ServerInv
  <2> QED BY <2>1, <2>2, <2>3, <2>4, <2>5 DEF S!Next
<1>3. ServerInv => S!ListIsOpen
  BY WalkIsOpen
<1> QED BY <1>1, <1>2, <1>3, PTL DEF S!Spec

--------------------------------------------------------------------------
(* WebSocketClient *)
USE DEF Goto, Service, threads, connection, ends

LEMMA AfterType == \A n \in 0 .. Wrap - 1 : After(n) \in 0 .. Wrap - 1
BY WebSocketAssumption, SMT DEF After

LEMMA AttemptInit == Init => AttemptInv
<1> SUFFICES ASSUME Init
             PROVE  AttemptInv
  OBVIOUS
<1>1. /\ established \in BOOLEAN /\ client_wsi \in BOOLEAN
      /\ finished \in BOOLEAN /\ interrupted \in BOOLEAN
      /\ cancelled \in BOOLEAN /\ writable \in BOOLEAN
  BY Zenon DEF Init
<1>2. index \in [Producers -> 0 .. Wrap - 1] /\ written \in [Producers -> 0 .. Wrap - 1]
  BY WebSocketAssumption, SMT DEF Init
<1> QED
  BY <1>1, <1>2, WebSocketAssumption, SMT
     DEF Init, AttemptInv, TypeOK, OneAttempt, RingOutlivesThreads

(* thread_spam: the steps of a producer.                                    *)
LEMMA ProducerKeeps ==
    ASSUME AttemptInv, NEW p \in Producers, Producer(p)
    PROVE  AttemptInv'
<1> USE WebSocketAssumption DEF AttemptInv, TypeOK, OneAttempt, RingOutlivesThreads
<1>1. CASE LookAtEstablished(p)
  BY <1>1, SMT DEF LookAtEstablished
<1>2. CASE LockRing(p)
  BY <1>2, SMT DEF LockRing
<1>3. CASE Drop(p)
  BY <1>3, SMT DEF Drop
<1>4. CASE Insert(p)
  <2>1. svc \notin {"init", "ended"}
    <3>1. thread[p] = "locked"
      BY <1>4 DEF Insert
    <3> QED
      BY <3>1, SMT
  <2>2. ring' \in Seq(Message) /\ Len(ring') <= RingSize
    <3>1. [tid |-> p, n |-> index[p]] \in Message
      BY SMT DEF Message
    <3> QED
      BY <1>4, <2>1, <3>1, SMT DEF Insert
  <2>3. index' \in [Producers -> 0 .. Wrap - 1]
    BY <1>4, AfterType, SMT DEF Insert
  <2>4. cancelled' \in BOOLEAN
    BY <1>4, Zenon DEF Insert
  <2> QED
    BY <1>4, <2>1, <2>2, <2>3, <2>4, SMT DEF Insert
<1>5. CASE WakeUp(p)
  BY <1>5, SMT DEF WakeUp
<1> QED
  BY <1>1, <1>2, <1>3, <1>4, <1>5 DEF Producer

(* PROTOCOL_INIT, PROTOCOL_DESTROY and the end of main.                     *)
LEMMA LifeCycleKeeps ==
    ASSUME AttemptInv,
           \/ CreateRing \/ CreateFails \/ FirstConnect
           \/ Interrupt \/ DestroyContext \/ JoinAndDestroy
           \/ \E p \in Producers : CreateThread(p)
    PROVE  AttemptInv'
<1> USE WebSocketAssumption DEF AttemptInv, TypeOK, OneAttempt, RingOutlivesThreads
<1>1. CASE CreateRing
  <2>1. << >> \in Seq(Message) /\ Len(<< >>) <= RingSize
    BY SMT
  <2>2. CASE svc' = "create"
    <3>1. ring' = << >>
      BY <1>1, <2>2, SMT DEF CreateRing
    <3>2. ring' \in Seq(Message) /\ Len(ring') <= RingSize
      BY <2>1, <3>1
    <3> QED
      BY <1>1, <2>2, <3>2, SMT DEF CreateRing
  <2>3. CASE svc' = "ended"
    BY <1>1, <2>3, SMT DEF CreateRing
  <2> QED
    BY <1>1, <2>2, <2>3, SMT DEF CreateRing
<1>2. CASE CreateFails
  BY <1>2, SMT DEF CreateFails
<1>3. CASE FirstConnect
  <2>1. client_wsi' \in BOOLEAN
    BY <1>3, Zenon DEF FirstConnect, Connect
  <2> QED
    BY <1>3, <2>1, SMT DEF FirstConnect, Connect
<1>4. CASE Interrupt
  BY <1>4, SMT DEF Interrupt
<1>5. CASE DestroyContext
  <2>1. client_wsi' \in BOOLEAN /\ established' \in BOOLEAN /\ writable' \in BOOLEAN
    BY <1>5, Zenon DEF DestroyContext
  <2> QED
    BY <1>5, <2>1, SMT DEF DestroyContext
<1>6. CASE JoinAndDestroy
  BY <1>6, SMT DEF JoinAndDestroy, Joined
<1>7. CASE \E p \in Producers : CreateThread(p)
  BY <1>7, SMT DEF CreateThread
<1> QED
  BY <1>1, <1>2, <1>3, <1>4, <1>5, <1>6, <1>7

(* The callbacks of the connection.                                         *)
LEMMA CallbackKeeps ==
    ASSUME AttemptInv,
           \/ ConnectionError \/ Established \/ Closed \/ EventWaitCancelled \/ User
           \/ Writeable \/ WriteLocks \/ Write \/ WriteFails
    PROVE  AttemptInv'
<1> USE WebSocketAssumption DEF AttemptInv, TypeOK, OneAttempt, RingOutlivesThreads
<1>1. CASE ConnectionError
  <2>1. client_wsi' \in BOOLEAN
    BY <1>1, Zenon DEF ConnectionError
  <2> QED
    BY <1>1, <2>1, SMT DEF ConnectionError
<1>2. CASE Established
  BY <1>2, SMT DEF Established
<1>3. CASE Closed
  <2>1. client_wsi' \in BOOLEAN /\ established' \in BOOLEAN /\ writable' \in BOOLEAN
    BY <1>3, Zenon DEF Closed
  <2> QED
    BY <1>3, <2>1, SMT DEF Closed
<1>4. CASE EventWaitCancelled
  <2>1. cancelled' \in BOOLEAN /\ writable' \in BOOLEAN
    BY <1>4, Zenon DEF EventWaitCancelled
  <2> QED
    BY <1>4, <2>1, SMT DEF EventWaitCancelled
<1>5. CASE User
  <2>1. client_wsi' \in BOOLEAN
    BY <1>5, Zenon DEF User, Connect
  <2> QED
    BY <1>5, <2>1, SMT DEF User, Connect
<1>6. CASE Writeable
  <2>1. writable' \in BOOLEAN
    BY <1>6, Zenon DEF Writeable
  <2> QED
    BY <1>6, <2>1, SMT DEF Writeable
<1>7. CASE WriteLocks
  BY <1>7, SMT DEF WriteLocks
<1>8. CASE Write
  <2>1. CASE ring = << >>
    BY <1>8, <2>1, SMT DEF Write
  <2>2. CASE ring # << >>
    <3>1. writable' \in BOOLEAN
      BY <1>8, <2>2, Zenon DEF Write
    <3>2. ring' \in Seq(Message) /\ Len(ring') <= RingSize
      <4>1. ring \in Seq(Message) /\ Len(ring) <= RingSize /\ ring' = Tail(ring)
        BY <1>8, <2>2, SMT DEF Write
      <4> QED
        BY <2>2, <4>1, SMT
    <3>3. written' \in [Producers -> 0 .. Wrap - 1]
      <4>1. Head(ring) \in Message
        BY <1>8, <2>2, SMT DEF Write
      <4> QED
        BY <1>8, <2>2, <4>1, SMT DEF Write, Message
    <3> QED
      BY <1>8, <2>2, <3>1, <3>2, <3>3, SMT DEF Write
  <2> QED
    BY <2>1, <2>2
<1>9. CASE WriteFails
  BY <1>9, SMT DEF WriteFails
<1> QED
  BY <1>1, <1>2, <1>3, <1>4, <1>5, <1>6, <1>7, <1>8, <1>9

LEMMA AttemptNext == AttemptInv /\ [Next]_vars => AttemptInv'
<1> SUFFICES ASSUME AttemptInv, [Next]_vars
             PROVE  AttemptInv'
  OBVIOUS
<1>1. CASE Next
  BY <1>1, ProducerKeeps, LifeCycleKeeps, CallbackKeeps DEF Next
<1>2. CASE UNCHANGED vars
  BY <1>2, SMT DEF vars, AttemptInv, TypeOK, OneAttempt, RingOutlivesThreads
<1> QED
  BY <1>1, <1>2

(* What the callbacks of the service thread and the producers keep.             *)
THEOREM AttemptHolds == Spec => []AttemptInv
  BY AttemptInit, AttemptNext, PTL DEF Spec

(* The variables of the client keep their types, and the lock is held exactly   *)
(* where the code holds it.                                                     *)
THEOREM TypeCorrect == Spec => []TypeOK
<1>1. AttemptInv => TypeOK
  BY DEF AttemptInv
<1> QED
  BY AttemptInit, AttemptNext, <1>1, PTL DEF Spec

(* The service thread has exactly one connection, attempt or timer going.       *)
THEOREM ConnectsOnce == Spec => []OneAttempt
<1>1. AttemptInv => OneAttempt
  BY DEF AttemptInv
<1> QED
  BY AttemptInit, AttemptNext, <1>1, PTL DEF Spec

(* No thread is left that could use the ring once it is destroyed.              *)
THEOREM RingIsNotUsedAfter == Spec => []RingOutlivesThreads
<1>1. AttemptInv => RingOutlivesThreads
  BY DEF AttemptInv
<1> QED
  BY AttemptInit, AttemptNext, <1>1, PTL DEF Spec

--------------------------------------------------------------------------
(* Conserved: what happens to the messages.                                 *)

LEMMA ConservedInit == Init => ConservedInv
<1> SUFFICES ASSUME Init
             PROVE  ConservedInv
  OBVIOUS
<1>1. AttemptInv
  BY AttemptInit
<1>2. \A p \in Producers : index[p] = After(written[p])
  BY WebSocketAssumption, SMT DEF Init, After
<1> QED
  BY <1>1, <1>2, SMT DEF ConservedInv, Init

(* Steps that leave the messages alone, which are nearly all.               *)
LEMMA QuietKeeps ==
    ASSUME ConservedInv, AttemptInv', UNCHANGED <<ring, index, written>>,
           svc' \in {"init", "ended"} <=> svc \in {"init", "ended"},
           svc' = "init" => svc = "init"
    PROVE  ConservedInv'
<1>1. \A p \in Producers : Kept(p) => Kept(p)'
  BY SMTT(30) DEF Kept, Follows, After
<1> QED
  BY <1>1, SMT DEF ConservedInv, After

(* A new message is the next one of its thread, and the last of the ring.   *)
LEMMA InsertConserves ==
    ASSUME ConservedInv, AttemptInv', NEW p \in Producers, Insert(p)
    PROVE  ConservedInv'
<1> DEFINE new == [tid |-> p, n |-> index[p]]
<1>end. PICK end : end = Len(ring) + 1
  OBVIOUS
<1>1. svc \notin {"init", "ended"}
  <2>1. thread[p] = "locked"
    BY DEF Insert
  <2> QED
    BY <2>1, SMT DEF ConservedInv, AttemptInv, RingOutlivesThreads
<1>2. ring \in Seq(Message) /\ index \in [Producers -> 0 .. Wrap - 1]
  BY <1>1, SMT DEF ConservedInv, AttemptInv, TypeOK
<1>3. ring' = Append(ring, new) /\ written' = written /\ svc' = svc
      /\ index' = [index EXCEPT ![p] = After(@)]
  BY SMT DEF Insert
<1>4. /\ Len(ring') = end /\ ring'[end] = new
      /\ \A i \in 1 .. Len(ring) : ring'[i] = ring[i]
      /\ Len(ring) \in Nat
  BY <1>end, <1>2, <1>3, SMT DEF Message
<1>5. ASSUME NEW q \in Producers, NEW i \in 1 .. end, NEW n, Follows(q, i, n)
      PROVE  Follows(q, i, n)'
  <2>1. \A k \in 1 .. i - 1 : ring'[k] = ring[k]
    BY <1>end, <1>4
  <2>2. CASE \A k \in 1 .. i - 1 : ring[k].tid # q
    <3>1. n = After(written[q]) \/ \E j \in 1 .. i - 1 : ring[j].tid = q
      BY <1>5 DEF Follows
    <3>2. n = After(written'[q])
      BY <2>2, <3>1, <1>3, Zenon
    <3> QED
      BY <2>1, <2>2, <3>2 DEF Follows, After
  <2>3. CASE ~(\A k \in 1 .. i - 1 : ring[k].tid # q)
    <3>1. PICK j \in 1 .. i - 1 : /\ ring[j].tid = q
                                 /\ n = After(ring[j].n)
                                 /\ \A k \in j + 1 .. i - 1 : ring[k].tid # q
      BY <1>5, <2>3, Zenon DEF Follows
    <3>2. ring'[j] = ring[j] /\ \A k \in j + 1 .. i - 1 : ring'[k] = ring[k]
      BY <2>1
    <3>3. ring'[j].tid = q /\ n = After(ring'[j].n)
      BY <3>1, <3>2
    <3>4. \A k \in j + 1 .. i - 1 : ring'[k].tid # q
      BY <3>1, <3>2, Zenon
    <3> QED
      BY <3>3, <3>4 DEF Follows, After
  <2> QED
    BY <2>2, <2>3
<1>6. ASSUME NEW q \in Producers
      PROVE  Kept(q)'
  <2>1. Kept(q)
    BY <1>1, SMT DEF ConservedInv
  <2>2. (\A i \in 1 .. Len(ring) : ring[i].tid = q => Follows(q, i, ring[i].n))'
    BY <2>1, <1>end, <1>4, <1>5, SMT DEF Kept
  <2>3. Follows(q, Len(ring) + 1, index[q])'
    <3>1. CASE q = p
      <4>1. index'[q] = After(ring'[end].n)
        BY <3>1, <1>2, <1>3, <1>4, SMT DEF After
      <4> QED
        BY <3>1, <4>1, <1>end, <1>4, SMTT(30) DEF Follows, After
    <3>2. CASE q # p
      <4>1. index'[q] = index[q] /\ ring'[end].tid # q
        BY <3>2, <1>2, <1>3, <1>4, SMT
      <4>2. Follows(q, end, index[q])'
        <5>1. PICK n : n = index[q]
          OBVIOUS
        <5>2. Follows(q, end, n) /\ end \in 1 .. end
          BY <2>1, <1>end, <1>4, <5>1, SMT DEF Kept
        <5>3. Follows(q, end, n)'
          BY <1>5, <5>2
        <5> QED
          BY <4>1, <5>1, <5>3
      <4> QED
        BY <4>1, <4>2, <1>4, SMTT(30) DEF Follows, After
    <3> QED
      BY <3>1, <3>2
  <2> QED
    BY <2>2, <2>3, SMT DEF Kept
<1> QED
  BY <1>1, <1>3, <1>6, SMT DEF ConservedInv

(* What lws_write takes is the message after the last one of its thread.    *)
LEMMA WriteConserves ==
    ASSUME ConservedInv, AttemptInv', Write
    PROVE  ConservedInv'
<1>1. svc = "write" /\ svc' = "serve"
  BY DEF Write
<1>2. ring \in Seq(Message) /\ written \in [Producers -> 0 .. Wrap - 1] /\ index' = index
  BY <1>1, SMT DEF ConservedInv, AttemptInv, TypeOK, Write
<1>3. CASE ring = << >>
  BY <1>1, <1>3, QuietKeeps, SMT DEF Write
<1>4. CASE ring # << >>
  <2> DEFINE oldest == ring[1]
  <2>1. /\ oldest.tid \in Producers
        /\ written' = [written EXCEPT ![oldest.tid] = oldest.n]
        /\ Len(ring) \in Nat \ {0} /\ Len(ring') = Len(ring) - 1
        /\ \A i \in 1 .. Len(ring') : ring'[i] = ring[i + 1]
    <3>1. /\ ring' = Tail(ring) /\ Head(ring) = oldest /\ oldest \in Message
          /\ written' = [written EXCEPT ![Head(ring).tid] = Head(ring).n]
      BY <1>2, <1>4, SMT DEF Write
    <3>2. oldest.tid \in Producers
      BY <3>1, SMT DEF Message
    <3>3. /\ Len(ring) \in Nat \ {0} /\ Len(ring') = Len(ring) - 1
          /\ \A i \in 1 .. Len(ring') : ring'[i] = ring[i + 1]
      BY <1>2, <1>4, <3>1, SMT
    <3> QED
      BY <3>1, <3>2, <3>3
  <2>2. ASSUME NEW q \in Producers, NEW i \in 1 .. Len(ring), NEW n, Follows(q, i + 1, n)
        PROVE  Follows(q, i, n)'
    <3>1. CASE \A k \in 1 .. i : ring[k].tid # q
      <4>1. oldest.tid # q /\ n = After(written[q]) /\ \A k \in 1 .. i - 1 : ring'[k].tid # q
        <5>1. 1 \in 1 .. i /\ i \in Nat
          BY <2>1, <2>2
        <5>2. \A k \in 1 .. i - 1 : k \in 1 .. Len(ring') /\ k + 1 \in 1 .. i
          BY <2>1, <2>2
        <5>3. oldest.tid # q /\ \A k \in 1 .. i - 1 : ring'[k].tid # q
          BY <2>1, <3>1, <5>1, <5>2
        <5>4. n = After(written[q])
          BY <2>1, <2>2, <3>1, SMTT(30) DEF Follows
        <5> QED
          BY <5>3, <5>4
      <4>2. written'[q] = written[q]
        BY <1>2, <2>1, <4>1, SMT
      <4> QED
        BY <4>1, <4>2, SMTT(30) DEF Follows, After
    <3>2. CASE ~ \A k \in 1 .. i : ring[k].tid # q
      <4>1. PICK j \in 1 .. i : /\ ring[j].tid = q
                                /\ n = After(ring[j].n)
                                /\ \A k \in j + 1 .. i : ring[k].tid # q
        <5>1. (i + 1) - 1 = i
          BY <2>1, <2>2
        <5>2. ~ \A k \in 1 .. (i + 1) - 1 : ring[k].tid # q
          BY <3>2, <5>1, Zenon
        <5>3. \E j \in 1 .. (i + 1) - 1 :
                 /\ ring[j].tid = q
                 /\ n = After(ring[j].n)
                 /\ \A k \in j + 1 .. (i + 1) - 1 : ring[k].tid # q
          BY <2>2, <5>2, Zenon DEF Follows
        <5> QED
          BY <5>1, <5>3, Zenon
      <4>2. CASE j = 1
        <5>1. written'[q] = oldest.n
          BY <1>2, <2>1, <4>1, <4>2, SMT
        <5>2. ASSUME NEW k \in 1 .. i - 1
              PROVE  ring'[k].tid # q
          <6>1. k + 1 \in j + 1 .. i /\ k \in 1 .. Len(ring')
            BY <2>1, <4>2, SMT
          <6> QED
            BY <2>1, <4>1, <6>1
        <5>3. n = After(written'[q])
          BY <4>1, <4>2, <5>1
        <5> QED
          BY <5>2, <5>3 DEF Follows
      <4>3. CASE j > 1
        <5>1. /\ j - 1 \in 1 .. i - 1 /\ j - 1 \in 1 .. Len(ring')
              /\ (j - 1) + 1 = j
          BY <2>1, <4>1, <4>3, SMT
        <5>2. ring'[j - 1] = ring[j]
          BY <2>1, <5>1
        <5>3. ASSUME NEW k \in (j - 1) + 1 .. i - 1
              PROVE  ring'[k].tid # q
          <6>1. k + 1 \in j + 1 .. i /\ k \in 1 .. Len(ring')
            BY <2>1, <4>1, <4>3, SMT
          <6> QED
            BY <2>1, <4>1, <6>1
        <5> QED
          BY <4>1, <5>1, <5>2, <5>3 DEF Follows
      <4> QED
        BY <4>2, <4>3, SMT
    <3> QED
      BY <3>1, <3>2
  <2>3. ASSUME NEW q \in Producers
        PROVE  Kept(q)'
    <3>1. Kept(q)
      BY <1>1, SMT DEF ConservedInv
    <3>2. ASSUME NEW i \in 1 .. Len(ring'), NEW n, ring'[i].tid = q, n = ring'[i].n
          PROVE  Follows(q, i, n)'
      <4>1. i + 1 \in 1 .. Len(ring) /\ i \in 1 .. Len(ring)
        BY <2>1, SMT
      <4>2. ring'[i] = ring[i + 1]
        BY <2>1, <3>2
      <4>3. Follows(q, i + 1, n)
        BY <3>1, <3>2, <4>1, <4>2 DEF Kept
      <4> QED
        BY <2>2, <4>1, <4>3
    <3>3. Follows(q, Len(ring) + 1, index[q])'
      BY <1>2, <2>1, <2>2, <3>1, SMT DEF Kept
    <3> QED
      BY <3>2, <3>3 DEF Kept
  <2> QED
    BY <1>1, <2>3, SMT DEF ConservedInv
<1> QED
  BY <1>3, <1>4

LEMMA ConservedNext == ConservedInv /\ [Next]_vars => ConservedInv'
<1> SUFFICES ASSUME ConservedInv, [Next]_vars
             PROVE  ConservedInv'
  OBVIOUS
<1>1. AttemptInv'
  BY AttemptNext DEF ConservedInv
<1>2. ASSUME NEW p \in Producers, Producer(p) \/ CreateThread(p)
      PROVE  ConservedInv'
  <2>1. CASE Insert(p)
    BY <1>1, <2>1, InsertConserves
  <2>2. CASE LookAtEstablished(p) \/ LockRing(p) \/ Drop(p) \/ WakeUp(p) \/ CreateThread(p)
    BY <1>1, <2>2, QuietKeeps, SMT
       DEF LookAtEstablished, LockRing, Drop, WakeUp, CreateThread
  <2> QED
    BY <1>2, <2>1, <2>2 DEF Producer
<1>3. CASE CreateRing
  <2>1. CASE svc' = "ended"
    BY <1>1, <1>3, <2>1, SMT DEF CreateRing, ConservedInv
  <2>2. CASE svc' = "create"
    <3>1. /\ ring' = << >> /\ svc = "init"
          /\ UNCHANGED <<index, written>>
      BY <1>3, <2>2, SMT DEF CreateRing
    <3>2. ASSUME NEW p \in Producers
          PROVE  Kept(p)'
      <4>1. index'[p] = After(written'[p])
        BY <3>1, SMT DEF ConservedInv, After
      <4> QED
        BY <3>1, <4>1, SMTT(30) DEF Kept, Follows, After
    <3> QED
      BY <1>1, <2>2, <3>2, SMT DEF ConservedInv
  <2> QED
    BY <1>3, <2>1, <2>2 DEF CreateRing
<1>4. CASE JoinAndDestroy
  BY <1>1, <1>4, SMT DEF JoinAndDestroy, ConservedInv
<1>5. CASE Write
  BY <1>1, <1>5, WriteConserves
<1>6. CASE \/ CreateFails \/ FirstConnect
           \/ ConnectionError \/ Established \/ Closed \/ EventWaitCancelled \/ User
           \/ Writeable \/ WriteLocks \/ WriteFails \/ Interrupt \/ DestroyContext
  BY <1>1, <1>6, QuietKeeps, SMT
     DEF CreateFails, FirstConnect, Connect, ConnectionError, Established, Closed,
         EventWaitCancelled, User, Writeable, WriteLocks, WriteFails, Interrupt, DestroyContext
<1>7. CASE UNCHANGED vars
  BY <1>1, <1>7, QuietKeeps, SMT DEF vars
<1> QED
  BY <1>2, <1>3, <1>4, <1>5, <1>6, <1>7 DEF Next

(* No failed write, full ring, reconnection or race of the threads loses,       *)
(* repeats or swaps a message, whatever the number of threads and the size of    *)
(* the ring.                                                                    *)
THEOREM MessagesConserved == Spec => []Conserved
<1>1. ConservedInv => Conserved
  BY SMT DEF ConservedInv, Conserved
<1> QED
  BY ConservedInit, ConservedNext, <1>1, PTL DEF Spec
============================================================================
