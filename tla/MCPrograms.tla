----------------------------- MODULE MCPrograms -----------------------------
(***************************************************************************)
(* Small instances of the programs Log, Uci, Server and MessageQueue and   *)
(* of the TLS library, Tls.  A behaviour is one of one of them: the others *)
(* stay as they begin.                                                     *)
(***************************************************************************)
EXTENDS Integers

CONSTANTS
    NULL,
    Threads, FileSize, Sizes, MaxLines, MaxKills,
    Names, Types, Options, Values, Anonymous, NewValue, MaxSections,
    Clients, MaxFrames,
    MaxMsg, Empty,
    Capacity, MaxRecord, Writers, Writes, Reads, MaxData, Duplex

VARIABLES
    program,    \* which of them it is
    disk, pFile, buffered, no, size, place, ready, mutex, pc, line, lines, since, kills,
    package, crashed, last,
    first, next, open, asked, buf, sent, got,
    queue, main, count, running, received,
    ssl, net, shut, call, acked, again, read, ended, connected, trusted

L == INSTANCE Log WITH lock <- mutex
U == INSTANCE Uci
S == INSTANCE Server WITH writable <- asked
Q == INSTANCE MessageQueue WITH pc <- main, i <- count
TLS == INSTANCE Tls WITH got <- read

(* What the theorems about the programs assume of what they are told. *)
ASSUME ParametersHold == L!Parameters /\ U!Parameters /\ S!Parameters

log    == <<disk, pFile, buffered, no, size, place, ready, mutex, pc, line, lines, since, kills>>
uci    == <<package, crashed, last>>
server == <<first, next, open, asked, buf, sent, got>>
mq     == <<queue, main, count, running, received>>
tls    == <<ssl, net, shut, call, acked, again, read, ended, connected, trusted>>

MCInit ==
    /\ program \in {"log", "uci", "server", "mq", "tls"}
    /\ L!Init /\ U!Init /\ S!Init /\ Q!Init /\ TLS!Init
    /\ program # "uci" => package = << >>
    /\ program # "tls" => ~trusted

MCNext ==
    /\ UNCHANGED program
    /\ \/ program = "log" /\ L!Next /\ UNCHANGED <<uci, server, mq, tls>>
       \/ program = "uci" /\ U!Next /\ UNCHANGED <<log, server, mq, tls>>
       \/ program = "server" /\ S!Next /\ UNCHANGED <<log, uci, mq, tls>>
       \/ program = "mq" /\ Q!Next /\ UNCHANGED <<log, uci, server, tls>>
       \/ program = "tls" /\ TLS!Next /\ UNCHANGED <<log, uci, server, mq>>

(* The fairness of Server, MessageQueue and Tls, where one of them runs. *)
MCFairness ==
    /\ \A c \in Clients : WF_server(S!Writeable(c))
    /\ WF_mq(program = "mq" /\ Q!Main) /\ WF_mq(program = "mq" /\ Q!Receive)
    /\ \A e \in TLS!Ends :
          /\ WF_tls(program = "tls" /\ TLS!Connect(e))
          /\ WF_tls(program = "tls" /\ TLS!Step(e))
          /\ WF_tls(program = "tls" /\ \E n \in Writes : TLS!Write(e, n))
          /\ WF_tls(program = "tls" /\ \E n \in Reads : TLS!Read(e, n))
          /\ WF_tls(program = "tls" /\ TLS!Ending(e))

MCSpec == MCInit /\ [][MCNext]_<<program, log, uci, server, mq, tls>> /\ MCFairness

--------------------------------------------------------------------------
(* lf_log.c: what was written can be read, in order, as long as its file is not full and  *)
(* two others follow it.                                                                  *)
LogKept == [](L!TypeOK /\ L!FilesInOrder /\ L!NewestKept) /\ L!OnlyFullEmptied

(* uci_c: a call changes one section at most, none when it fails, and returns what its    *)
(* comment says.                                                                          *)
ConfigurationKept == U!TouchesOne /\ U!ReturnsAsDocumented

(* krypton.c: between two ends that trust each other a stream arrives as it was sent and  *)
(* ends after its last byte, unless one of them is in SSL_shutdown; there is no           *)
(* connection between others.                                                             *)
StreamSound == TLS!StreamIntact /\ TLS!EndIsWhole /\ TLS!OnlyShutdownFails /\ TLS!TrustedOnly

(* What is sent is delivered at last: the last frame of a client is echoed to it, main    *)
(* receives all messages of the short queue, the handshake of krypton.c ends and what was *)
(* written then is read.                                                                  *)
AllDelivered == /\ []S!ListIsOpen /\ S!LastIsEchoed
                /\ <>(program = "mq" => Q!Done)
                /\ TLS!Established /\ TLS!AllRead
=============================================================================
