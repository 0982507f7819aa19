------------------------------ MODULE MCParsers ------------------------------
(***************************************************************************)
(* Small instances of what reads, writes and computes without waiting:     *)
(* RequestLine and HttpParser of http_parser.c, parson's JsonText, the     *)
(* protocols of mongoose.c and its parts, and the arithmetic, ciphers and  *)
(* certificates of krypton.c.  A behaviour is one of one of them: the      *)
(* others stay as they begin.  The modules of a connection share one group *)
(* of variables, and those of a call another.                              *)
(***************************************************************************)
EXTENDS Integers, JsonText

CONSTANTS
    MaxWords, MaxPort,
    Types, Initials, FieldNames, FieldValues, Dec, Hex, Most, NoBody, ULLONG_MAX, MaxHeader

VARIABLES
    parser,     \* which of them it is
    word, method, buf, words, url,
    whole, cut, held, over, told,
    mode, conn, wire, sent, owed,
    call, keys, ctx, seq, suite

request    == <<word, method, buf, words, url>>
http       == <<whole, cut, held, over, told>>
connection == <<mode, conn, wire, sent, owed>>
codec      == <<call, keys, ctx, seq, suite>>

SeqsUpTo(S, n) == UNION {[1 .. k -> S] : k \in 0 .. n}

--------------------------------------------------------------------------
(* Documents of up to three levels, with strings that look like marks, escapes or comments. *)
Strings == {<<>>, <<"x">>, <<Quote>>, <<Back>>, <<"/", "*">>, <<"/", "/">>, <<"*", "/">>, <<"\n">>, <<"c">>, <<Back, Quote>>}
Few == {<<"x">>, <<>>}
Leaves(S) == {Null, Number} \cup {Leaf("string", s) : s \in S}
Arrays(V) == {Node("array", <<>>)} \cup {Node("array", <<Kid(<<>>, v)>>) : v \in V}
             \cup {Node("array", <<Kid(<<>>, v), Kid(<<>>, w)>>) : v, w \in V}
Objects(S, V) == {Node("object", <<>>)} \cup {Node("object", <<Kid(s, v)>>) : s \in S, v \in V}
                 \cup {Node("object", <<Kid(p[1], v), Kid(p[2], w)>>) :
                          p \in {q \in S \X S : q[1] # q[2]}, v, w \in V}
Small == {Null, Leaf("string", <<"x">>)}
Inner == Arrays({Null}) \cup Objects({<<"x">>}, {Number})
MCDocuments == Leaves(Strings)
               \cup {Node("array", <<Kid(<<>>, v)>>) : v \in Leaves(Strings)}
               \cup {Node("object", <<Kid(s, Null)>>) : s \in Strings}
               \cup Objects({<<>>, <<Quote>>, <<"c">>}, {Null})
               \cup Arrays(Leaves({<<Back>>, <<"/", "/">>}))
               \cup Arrays(Small \cup Inner) \cup Objects(Few, Small \cup Inner)
               \cup {Node("array", <<Kid(<<>>, v)>>) : v \in Arrays(Inner)}
MCBlocks == {<<>>, <<"*">>, <<Quote>>, <<"/", "/">>, <<"/">>}
MCLines == {<<"x", "*", "/">>, <<"/">>, <<Back>>}
MCTexts == UNION {[1 .. n -> {"[", "]", "{", "}", ",", ":", Quote, Back, "1"}] : n \in 1 .. 4}

MCWords == {<<"a">>, <<"1">>, <<"/">>, <<"?">>, <<"?", "a">>, <<"#">>, <<"#", "a">>, <<"@">>, <<":">>,
            <<"*">>, <<" ">>, <<"a", "@">>, <<":", "1">>,
            <<"a", ":", "/", "/">>, <<"[", "a", "%", "z", "]">>, <<"[", ":", "]">>, <<"[">>}

R == INSTANCE RequestLine WITH Words <- MCWords
H == INSTANCE HttpParser WITH Names <- FieldNames, Values <- FieldValues,
         a <- whole, b <- cut, phase <- told

--------------------------------------------------------------------------
(* Connections: lengths of two octets begin at 2, and a mask has two bits. *)
W == INSTANCE WsFrames WITH Len7 <- 2, LenDigits <- 2, LongDigits <- 3, Base <- 2, MaskLen <- 2,
         Masks <- {<<0, 1>>}, MaxData <- 5, Payloads <- {<<>>, <<1, 0>>},
         MaxFrames <- 3, MaxOwn <- 1, is_client <- mode, peer <- sent

Says(m, length, chunked) == [method |-> m, length |-> length, chunked |-> chunked]
MCRequests == {Says("GET", NULL, FALSE), Says("GET", 1, FALSE), Says("POST", 3, FALSE),
               Says("POST", NULL, TRUE), Says("response", NULL, FALSE), Says("204", NULL, FALSE)}
MCBodies == {<<>>, <<<<<<"data", 1>>>>>>, <<<<<<"data", 1>>, <<"data", 2>>>>, <<<<"data", 3>>>>>>}
C == INSTANCE HttpConn WITH Requests <- MCRequests, Bodies <- MCBodies, MaxMessages <- 3,
         deletes <- mode, last <- owed

M == INSTANCE MqttConn WITH More <- 4, Byte <- 4, Strings <- {<<>>, <<3, 0, 2>>}, MaxPackets <- 2,
         mqtt_id <- mode

--------------------------------------------------------------------------
(* Texts are the characters of which the functions tell others. *)
MCNames == {<<97>>, <<65>>, <<97, 97>>}
MCForms == SeqsUpTo(MCNames \X {<<>>, <<97>>}, 2) \cup SeqsUpTo(MCNames \X {<<43, 32>>, <<37>>}, 2)
T == INSTANCE MgText WITH Bytes <- SeqsUpTo({0, 32, 43, 97, 255}, 3), Forms <- MCForms,
         Numbers <- -29 .. 29, MaxNumber <- 127,
         Subjects <- SeqsUpTo({97, 98, 47}, 3), Patterns <- SeqsUpTo({97, 47, 42, 35, 63}, 4),
         Ranges <- SeqsUpTo({48, 50, 51, 45, 44}, 4), FileSize <- 3

MCUrls == {[scheme |-> scheme, user |-> login[1], pass |-> login[2], host |-> host, port |-> port, uri |-> uri] :
              scheme \in {"http", "wss", "mqtt", "tcp"},
              login \in {<<<<>>, <<>>>>, <<<<"u">>, <<>>>>, <<<<"u">>, <<"p">>>>},
              host \in {<<"a">>, <<"[", ":", ":", "1", "]">>}, port \in {<<>>, <<"8", "1">>},
              uri \in {<<>>, <<"/">>, <<"/", ":", "1">>, <<"/", "/">>}}
MCV4 == UNION {[1 .. n -> {<<>>, <<"0">>, <<"2", "5", "5">>, <<"2", "5", "6">>, <<"a">>}] : n \in 2 .. 5}
Groups == <<<<"1">>, <<"a", "0">>, <<"1", "2", "3">>, <<"f", "f", "f", "f">>, <<"0">>, <<"9">>, <<"2">>, <<"3">>, <<"4">>>>
MCV6 == LET fronts == {SubSeq(Groups, 1, n) : n \in 0 .. 9} \cup {<<<<"1", "2", "3", "4", "5">>>>}
        IN {[before |-> b, behind |-> SubSeq(Groups, 2, n + 1), short |-> TRUE] : b \in fronts, n \in 0 .. 8}
           \cup {[before |-> b, behind |-> <<>>, short |-> FALSE] : b \in fronts \ {<<>>}}
Rr(labels, pointed, kind) ==
    [labels |-> labels, pointed |-> pointed, atype |-> kind[1], aclass |-> kind[2], data |-> [k \in 1 .. kind[3] |-> 9 - k]]
Rrs == {Rr(labels, TRUE, kind) : labels \in {<<>>, <<<<119>>>>}, kind \in {<<1, 1, 4>>, <<28, 1, 8>>, <<28, 1, 16>>, <<1, 3, 4>>}}
       \cup {Rr(<<<<119>>, <<98, 99>>>>, FALSE, <<5, 1, 4>>)}
MCAnswers == {[txnid |-> 258, name |-> <<<<97>>, <<98, 99>>>>, rrs |-> rrs] : rrs \in SeqsUpTo(Rrs, 2)}
MCParts == SeqsUpTo([name : {"n", "m"},
                     body : {<<>>, <<"b">>, <<"cr", "lf", "-">>, <<"-", "x">>, <<"cr">>, <<"lf">>, <<"cr", "lf">>}], 2)
N == INSTANCE MgNet WITH Chunk <- 2, MaxSize <- 4, Data <- {<<>>, <<1>>, <<2, 3>>},
         Periods <- {1, 2, 3}, MaxTimers <- 2, MaxTime <- 6, Urls <- MCUrls, V4Texts <- MCV4, V6Texts <- MCV6,
         Answers <- MCAnswers, PartNames <- {"n", "m"}, Forms <- MCParts,
         io <- keys, content <- ctx, timers <- seq

--------------------------------------------------------------------------
(* Components of two bits, so that carries and borrows run through several, and estimates  *)
(* of a digit are wrong by one and by two; blocks of four octets of two bits; AES in       *)
(* octets of four bits, in rounds of its own number; names and lengths in true octets.     *)
Pair(p, q, e, d) == [p |-> p, q |-> q, e |-> e, d |-> d]
B == INSTANCE Bigint WITH Bits <- 2, MaxU <- 1023,
         Divisors <- {1, 3, 4, 7, 16, 17, 23, 32, 37, 48, 63, 67, 85, 127},
         Moduli <- {2, 3, 5, 14, 15, 21, 31, 64, 127}, MaxExp <- 9,
         Keys <- {Pair(31, 17, 7, 343), Pair(61, 7, 7, 103), Pair(97, 61, 7, 823)}, MinPad <- 1

D == INSTANCE Digest WITH BLOCK <- 4, OCTET <- 2, WORD <- 16, MaxUpdate <- 9, MaxSent <- 17, MaxOut <- 5,
         sent <- seq

MCSBox == [x \in 0 .. 15 |-> <<12, 5, 6, 11, 9, 0, 10, 13, 3, 14, 15, 8, 4, 7, 1, 2>>[x + 1]]
MCInvSBox == [y \in 0 .. 15 |-> CHOOSE x \in 0 .. 15 : MCSBox[x] = y]
Bit(x, i) == (x \div (2 ^ i)) % 2
MCXors == [x \in 0 .. 15 |-> [y \in 0 .. 15 |->
              FoldFunction(+, 0, [i \in 0 .. 3 |-> (2 ^ i) * ((Bit(x, i) + Bit(y, i)) % 2)])]]
X == INSTANCE Ciphers WITH XorTable <- MCXors, SBox <- MCSBox, InvSBox <- MCInvSBox,
         Modes <- {[words |-> 4, rounds |-> 3], [words |-> 8, rounds |-> 4]}, AesKeys <- {0, 3}, Plain <- {0, 7},
         Rc4Keys <- {<<0, 0>>, <<1, 2>>, <<15, 3>>, <<7, 7>>}, RC4_KEY_SIZE <- 2, MaxStream <- 5,
         MacLen <- 2, KeyLen <- 2, Ivs <- {<<1, 2, 3, 4>>, <<0, 0, 0, 0>>}, MaxData <- 5, MaxRecords <- 2

NameA == <<[type |-> 3, text |-> <<97>>]>>
NameB == <<[type |-> 10, text |-> <<98>>], [type |-> 3, text |-> <<97, 46, 98>>]>>
Extension(id, critical, names, ca) == [id |-> id, critical |-> critical, names |-> names, ca |-> ca]
Extensions == {Extension(15, TRUE, <<>>, FALSE), Extension(17, FALSE, <<<<97>>, <<98>>>>, FALSE),
               Extension(19, TRUE, <<>>, TRUE), Extension(19, FALSE, <<>>, FALSE),
               Extension(30, TRUE, <<>>, FALSE), Extension(31, FALSE, <<>>, FALSE)}
Rsa == <<42, 134, 72, 134, 247, 13, 1, 1, 1>>
Plain == [version |-> TRUE, alg |-> 11, sig_alg |-> 11, issuer |-> NameA, subject |-> NameB, enc |-> Rsa,
          modulus |-> <<200, 5>>, exponent |-> <<1, 0, 1>>, ids |-> <<>>, exts |-> <<>>, sig |-> <<5, 6>>, long |-> FALSE]
MCCertificates ==
    {[Plain EXCEPT !.version = version, !.ids = ids, !.exts = exts, !.long = long] :
        version, long \in BOOLEAN, ids \in {<<>>, <<129>>, <<130>>, <<129, 130>>}, exts \in SeqsUpTo(Extensions, 2)}
    \cup {[Plain EXCEPT !.alg = alg, !.subject = subject, !.enc = enc, !.modulus = modulus, !.exts = exts] :
             alg \in {4, 11}, subject \in {NameA, NameB}, enc \in {Rsa, <<42, 3>>},
             modulus \in {<<200, 5>>, [i \in 1 .. 260 |-> i % 256]}, exts \in SeqsUpTo(Extensions, 1)}

(* A certificate of a chain is signed with a key, and the signature is of a certificate. *)
Key(id) == [id |-> id, size |-> 2]
Signed(id, subject, issuer, key, ca, alg, by, of) ==
    [id |-> id, subject |-> subject, issuer |-> issuer, key |-> Key(key), is_ca |-> ca,
     hash_alg |-> alg, issuer_hash_alg |-> alg, sig |-> [key |-> Key(by), alg |-> alg, of |-> of]]
Root(id, name) == Signed(id, name, name, id, TRUE, 5, id, id)
MCChains ==
    [store : {<<>>, <<Root(1, "A")>>, <<Root(1, "A"), Root(2, "B")>>, <<Root(1, "A"), Root(2, "A")>>},
     sent : {<<Signed(7, "S", issuer, 3, FALSE, alg, by, 7)>> :
                issuer \in {"A", "B", "C"}, by \in 1 .. 3, alg \in {4, 5, 9}}
            \cup {<<Signed(7, "S", issuer, 3, FALSE, 5, by, of), Signed(8, "C", above, 4, ca, 5, root, 8)>> :
                     issuer \in {"A", "C"}, by \in {1, 2, 4}, of \in {7, 8},
                     above \in {"A", "B", "S"}, root \in 1 .. 3, ca \in BOOLEAN}]
PemLines == [kind : {"begin", "end"}, type : {"CERT", "KEY"}]
            \cup {[kind |-> "content", octets |-> o] : o \in {<<1, 2, 3>>, <<255>>, <<4, 5, 6, 7, 200>>}}
            \cup {[kind |-> "other"]}
MCKeys == {[type |-> type, long |-> long, numbers |-> <<<<0>>, p, <<3>>, q, <<7>>, <<129>>, p, <<1>>, q>>] :
              type \in {"KEY", "RSA_KEY"}, long \in BOOLEAN, p \in {<<200, 1>>, <<5>>}, q \in {<<127>>, <<255, 255>>}}
E == INSTANCE Certs WITH Certificates <- MCCertificates,
         HostNames <- {<<97>>, <<97, 46, 98>>, <<66>>, <<98, 46, 97>>, <<99, 46, 97, 46, 98>>},
         CertNames <- {<<97>>, <<65, 46, 98>>, <<98>>, <<98, 46, 65>>, <<42, 46, 98>>, <<97, 98>>},
         Chains <- MCChains, Files <- SeqsUpTo(PemLines, 4), Masks <- {{"CERT"}, {"CERT", "KEY"}}, Keys <- MCKeys

--------------------------------------------------------------------------
NoConnection == mode = NULL /\ conn = NULL /\ wire = NULL /\ sent = NULL /\ owed = NULL
NoContext == keys = NULL /\ ctx = NULL /\ seq = NULL /\ suite = NULL

MCInit ==
    /\ \/ /\ parser \in {"request", "http", "json"}
          /\ NoConnection /\ call = [op |-> "none"] /\ NoContext
       \/ /\ \/ parser = "websocket" /\ W!Init
             \/ parser = "http connection" /\ C!Init
             \/ parser = "mqtt" /\ M!Init /\ owed = NULL
          /\ call = [op |-> "none"] /\ NoContext
       \/ /\ \/ parser = "text" /\ T!Init /\ NoContext
             \/ parser \in {"buffers", "timers", "names"} /\ N!Init /\ suite = NULL
             \/ parser = "numbers" /\ B!Init /\ NoContext
             \/ parser = "digests" /\ D!Init /\ keys = NULL /\ suite = NULL
             \/ parser = "ciphers" /\ X!Init
             \/ parser = "certificates" /\ E!Init /\ NoContext
          /\ NoConnection
    /\ Init /\ R!Init /\ H!Init /\ (parser # "http" => whole = H!Parser("both", FALSE))

Connections == \/ parser = "websocket" /\ W!Next
               \/ parser = "http connection" /\ C!Next
               \/ parser = "mqtt" /\ M!Next /\ UNCHANGED owed

(* The buffers, the timers and the readers of MgNet have nothing to do with each other. *)
Codecs == \/ parser = "text" /\ T!Next /\ UNCHANGED <<keys, ctx, seq, suite>>
          \/ parser = "buffers" /\ N!Buffers /\ UNCHANGED suite
          \/ parser = "timers" /\ N!Timers /\ UNCHANGED suite
          \/ parser = "names" /\ N!Reads /\ UNCHANGED suite
          \/ parser = "numbers" /\ B!Next /\ UNCHANGED <<keys, ctx, seq, suite>>
          \/ parser = "digests" /\ D!Next /\ UNCHANGED <<keys, suite>>
          \/ parser = "ciphers" /\ X!Next
          \/ parser = "certificates" /\ E!Next /\ UNCHANGED <<keys, ctx, seq, suite>>

MCNext ==
    /\ UNCHANGED parser
    /\ \/ parser = "request" /\ R!Next /\ UNCHANGED <<http, vars, connection, codec>>
       \/ parser = "http" /\ H!Next /\ UNCHANGED <<request, vars, connection, codec>>
       \/ parser = "json" /\ Next /\ UNCHANGED <<request, http, connection, codec>>
       \/ Connections /\ UNCHANGED <<request, http, vars, codec>>
       \/ Codecs /\ UNCHANGED <<request, http, vars, connection>>

MCSpec == MCInit /\ [][MCNext]_<<parser, request, http, vars, connection, codec>>

--------------------------------------------------------------------------
(* http_parser.c: the method that is guessed is the one that is spelt, well-formed URLs   *)
(* are accepted, and the fields of an accepted one, with the marks between, are the URL.  *)
RequestsAreRead == R!MethodsFound /\ R!FieldsAreTheUrl /\ R!UrlsAreTaken

(* http_parser_execute: it does not matter how the data are cut. *)
SplitInvariant == H!SplitInvariant

(* http_parser_execute: the callbacks come in order, and the assertions hold. *)
ToldInOrder == H!ToldInOrder /\ H!AssertsHold

(* parson.c: what is written is read again, what is read can be written, and documents    *)
(* are equal when they differ in the order of pairs only.                                 *)
DocumentsKept == WrittenIsRead /\ ReadIsWritten /\ EqualsIsEquality

(* mongoose.c and krypton.c: however a stream is cut, the messages, bodies, packets and   *)
(* digests are those of the whole, and a buffer holds what was put into it.               *)
MessagesSurviveCuts ==
    /\ parser = "websocket" => W!MessagesWhole /\ W!AnswersWhole
    /\ parser = "http connection" => C!BodiesWhole
    /\ parser = "mqtt" => M!PacketsWhole
    /\ parser = "digests" => D!HashesAreStandard
    /\ parser = "buffers" => N!BufferKept

(* mongoose.c and krypton.c: what is coded, sealed, encoded or computed means what it is   *)
(* meant to, and timers are called as often as their period is over.                      *)
AnswersAreMeant ==
    /\ parser = "text" => T!CodesAreInverse /\ T!MatchIsMeant /\ T!RangeServed
    /\ parser = "timers" => N!TimersKeepTime
    /\ parser = "names" => N!NamesAreMeant
    /\ parser = "numbers" => B!NumbersAreRight
    /\ parser = "ciphers" => X!OpensWhatWasSealed
    /\ parser = "certificates" => E!CertificatesAreMeant
=============================================================================
