-------------------------------- MODULE Log --------------------------------
(***************************************************************************)
(* lf_log.c: lines of several threads go to one of three files in turn,    *)
(* under a lock.  A file is left when it reaches the size given to         *)
(* LOG_Init, and emptied when its turn comes again.  The process may be    *)
(* killed, and its successor begins with the first file again.             *)
(***************************************************************************)
EXTENDS Integers, FiniteSets, Sequences, SequencesExt

CONSTANTS
    Threads,
    FileSize,           \* ulFileSize
    Sizes,              \* the sizes a line may have
    MaxLines, MaxKills, \* bounds of the model
    NULL

MAX_LOG_FILE_NUM == 3
FileNos == 0 .. MAX_LOG_FILE_NUM - 1

VARIABLES
    disk,       \* the lines in each file, or NULL where there is none
    pFile,      \* the file that is open, or NULL
    buffered,   \* the lines of the open stream that are not on disk yet
    no, size,   \* g_ucLogFileNo, g_ulLogFileSize
    place,      \* g_ulPrintLogPlaceFlag
    ready,      \* g_ulLogInitFlag
    lock,       \* g_stSaveLogMutexLock: its owner, or NULL
    pc, line,   \* of each thread: where it is in LOG_PrintLog, and with what
    lines,      \* history: the lines written, a line is [id, size]
    since,      \* history: the first of them that this process wrote
    kills       \* how often the process was killed

vars == <<disk, pFile, buffered, no, size, place, ready, lock, pc, line, lines, since, kills>>

stream == <<disk, pFile, buffered, no>>
setup  == <<size, place, ready>>
past   == <<lines, since, kills>>

(* The bytes of the lines in s. *)
Length(s) == LET sum[n \in 0 .. Len(s)] == IF n = 0 THEN 0 ELSE sum[n - 1] + s[n].size
             IN  sum[Len(s)]

(* What a run is told: lines have a size, and NULL is none of the rest. *)
Parameters ==
    /\ FileSize \in Nat \ {0}
    /\ Sizes \subseteq Nat \ {0}
    /\ NULL \notin Threads \cup FileNos \cup Seq([id : Nat, size : Sizes])

Init ==
    /\ disk = [f \in FileNos |-> NULL]
    /\ pFile = NULL /\ buffered = << >>
    /\ no = 0 /\ size = 0 /\ place = "terminal" /\ ready = FALSE /\ lock = NULL
    /\ pc = [t \in Threads |-> "idle"]
    /\ line = [t \in Threads |-> NULL]
    /\ lines = << >> /\ since = 1 /\ kills = 0

--------------------------------------------------------------------------
LOG_SetPrintLogPlaceFlag(where) ==
    /\ place' = where
    /\ UNCHANGED <<stream, size, ready, lock, pc, line, past>>

(* LOG_Init does nothing unless lines go to files, and only once. *)
LOG_Init ==
    /\ place = "file" /\ ~ ready
    /\ ready' = TRUE
    /\ size' = FileSize
    /\ UNCHANGED <<stream, place, lock, pc, line, past>>

(* LOG_PrintLog, up to the lock.  A line for the terminal is printed there.    *)
LOG_PrintLog(t, n) ==
    /\ pc[t] = "idle"
    /\ place = "file"
    /\ line' = [line EXCEPT ![t] = n]
    /\ pc' = [pc EXCEPT ![t] = "lock"]
    /\ UNCHANGED <<stream, setup, lock, past>>

Lock(t) ==
    /\ pc[t] = "lock"
    /\ lock = NULL
    /\ lock' = t
    /\ pc' = [pc EXCEPT ![t] = "open"]
    /\ UNCHANGED <<stream, setup, line, past>>

(* Mutant of Appends: a file that is full goes on. *)
AppendsAlways(f) == disk[f] # NULL

(* The mode of LOG_OpenLogFile: "a", or else "w". *)
Appends(f) == disk[f] # NULL /\ Length(disk[f]) > 0 /\ Length(disk[f]) < size

(* LOG_OpenLogFile; before LOG_Init there is no name to open. *)
LOG_OpenLogFile(t) ==
    /\ pc[t] = "open"
    /\ pc' = [pc EXCEPT ![t] = "write"]
    /\ IF pFile = NULL /\ ready
       THEN /\ pFile' = no
            /\ disk' = [disk EXCEPT ![no] = IF Appends(no) THEN @ ELSE << >>]
            /\ UNCHANGED <<buffered, no>>
       ELSE UNCHANGED stream
    /\ UNCHANGED <<setup, lock, line, past>>

(* fopen may fail, and stat. *)
OpenFails(t) ==
    /\ pc[t] = "open" /\ pFile = NULL
    /\ pc' = [pc EXCEPT ![t] = "write"]
    /\ UNCHANGED <<stream, setup, lock, line, past>>

(* g_ucLogFileNo after a file that is full *)
Rotated == (no + 1) % MAX_LOG_FILE_NUM

(* fputs, ftell, and fclose of a file that is full: the lines reach the disk. *)
Write(t) ==
    /\ pc[t] = "write"
    /\ pc' = [pc EXCEPT ![t] = "unlock"]
    /\ IF pFile = NULL THEN UNCHANGED <<stream, lines>>
       ELSE LET new == Append(buffered, [id |-> Len(lines) + 1, size |-> line[t]])
                file == disk[pFile] \o new
            IN /\ lines' = Append(lines, Last(new))
               /\ IF Length(file) >= size
                  THEN /\ disk' = [disk EXCEPT ![pFile] = file]
                       /\ pFile' = NULL /\ buffered' = << >>
                       /\ no' = Rotated
                  ELSE buffered' = new /\ UNCHANGED <<disk, pFile, no>>
    /\ UNCHANGED <<setup, lock, line, since, kills>>

Unlock(t) ==
    /\ pc[t] = "unlock"
    /\ lock' = NULL
    /\ pc' = [pc EXCEPT ![t] = "idle"]
    /\ line' = [line EXCEPT ![t] = NULL]
    /\ UNCHANGED <<stream, setup, past>>

(* stdio writes some lines of its buffer to the file. *)
Flush ==
    /\ buffered # << >>
    /\ \E k \in 1 .. Len(buffered) :
          /\ disk' = [disk EXCEPT ![pFile] = @ \o SubSeq(buffered, 1, k)]
          /\ buffered' = SubSeq(buffered, k + 1, Len(buffered))
    /\ UNCHANGED <<pFile, no, setup, lock, pc, line, past>>

(* LOG_Destroy, when no thread prints; the flag of LOG_Init stays set. *)
LOG_Destroy ==
    /\ ready
    /\ \A t \in Threads : pc[t] = "idle"
    /\ pFile # NULL
    /\ disk' = [disk EXCEPT ![pFile] = @ \o buffered]
    /\ pFile' = NULL /\ buffered' = << >>
    /\ UNCHANGED <<no, setup, lock, pc, line, past>>

(* The process ends at any step, and is started again. *)
Kill ==
    /\ buffered' = << >> /\ pFile' = NULL
    /\ no' = 0 /\ size' = 0 /\ place' = "terminal" /\ ready' = FALSE /\ lock' = NULL
    /\ pc' = [t \in Threads |-> "idle"]
    /\ line' = [t \in Threads |-> NULL]
    /\ since' = Len(lines) + 1
    /\ kills' = kills + 1
    /\ UNCHANGED <<disk, lines>>

LineStep(t) == \/ \E n \in Sizes : Len(lines) < MaxLines /\ LOG_PrintLog(t, n)
               \/ Lock(t) \/ LOG_OpenLogFile(t) \/ OpenFails(t) \/ Write(t) \/ Unlock(t)

Next ==
    \/ \E where \in {"terminal", "file"} : LOG_SetPrintLogPlaceFlag(where)
    \/ LOG_Init
    \/ \E t \in Threads : LineStep(t)
    \/ Flush \/ LOG_Destroy
    \/ kills < MaxKills /\ Kill

Spec == Init /\ [][Next]_vars

--------------------------------------------------------------------------
(* What a reader of file f finds once the stream is written out. *)
File(f) == (IF disk[f] = NULL THEN << >> ELSE disk[f])
           \o (IF f = pFile THEN buffered ELSE << >>)

Inside(t) == pc[t] \in {"open", "write", "unlock"}

TypeOK ==
    /\ pFile \in FileNos \cup {NULL}
    /\ no \in FileNos
    /\ lock \in Threads \cup {NULL}
    /\ \A t \in Threads : Inside(t) => lock = t

(* However the threads interleave, in each file the lines are in the order they *)
(* were written, with none twice, and no file grows further past the size given *)
(* to LOG_Init than by its last line.                                           *)
FilesInOrder ==
    \A f \in FileNos :
        /\ \A i, j \in 1 .. Len(File(f)) : i < j => File(f)[i].id < File(f)[j].id
        /\ File(f) = << >> \/ Length(Front(File(f))) < FileSize

(* Of the lines this process has written, the latest two at least can be read:  *)
(* what LOG_OpenLogFile empties is the oldest of the files this process left.   *)
NewestKept ==
    \A i \in since .. Len(lines) :
        i > Len(lines) - (MAX_LOG_FILE_NUM - 1)
            => \E f \in FileNos : lines[i] \in Range(File(f))

(* Only a file that is full is emptied: a line that reached the disk is lost    *)
(* together with the whole of its file, in the step that opens the file.        *)
OnlyFullEmptied ==
    [][\A f \in FileNos : disk[f] # NULL /\ ~ IsPrefix(disk[f], disk'[f])
          => Length(disk[f]) >= FileSize /\ pFile' = f]_vars
=============================================================================
