----------------------------- MODULE RequestLine -----------------------------
(***************************************************************************)
(* A method and the URL after it, as http_parser_execute reads the one and *)
(* http_parser_parse_url takes the other apart: the loop over the          *)
(* characters, which may end after any of them, and the second pass over   *)
(* the host.                                                               *)
(***************************************************************************)
EXTENDS UrlChars, FiniteSets, SequencesExt

CONSTANTS
    Words,      \* what a URL is made of: sequences of characters
    MaxWords,   \* how many there are
    MaxPort,    \* 0xffff
    NULL

VARIABLES
    word,       \* the letters of the method so far
    method,     \* the guess, empty before the first letter
    buf,        \* the characters of the URL
    words,      \* how many words they are
    url         \* the locals of the loop and the fields found

vars == <<word, method, buf, words, url>>

Refused == <<Dead>>     \* no method is spelt so

Fields == {"SCHEMA", "HOST", "PORT", "PATH", "QUERY", "FRAGMENT", "USERINFO"}

Unset == [off |-> 0, len |-> 0]     \* field_set says no

Nothing(connect) ==
    [s |-> IF connect THEN "req_server_start" ELSE "req_spaces_before_url",
     connect |-> connect, old |-> NULL, found_at |-> FALSE, p |-> 0,
     data |-> [f \in Fields |-> Unset]]

Init == word = <<>> /\ method = <<>> /\ buf = <<>> /\ words = 0 /\ url = NULL

--------------------------------------------------------------------------
Letters == UNION {{m[i] : i \in DOMAIN m} : m \in Methods} \cup {" ", "0"}

(* s_start_req, then s_req_method; a blank after the last letter ends it. *)
Letter(ch) ==
    LET guesses == IF word = <<>> THEN FirstLetter(ch)
                   ELSE NextLetter(method, Len(word), ch)
    IN /\ url = NULL /\ method # Refused
       /\ IF word # <<>> /\ MethodEnds(method, Len(word), ch)
          THEN url' = Nothing(method = Connect) /\ word' = <<>> /\ method' = <<>>
          ELSE /\ word' = Append(word, ch)
               /\ method' = IF guesses = {} THEN Refused ELSE CHOOSE m \in guesses : TRUE
               /\ UNCHANGED url
       /\ UNCHANGED <<buf, words>>

(* The field that a state belongs to; the states between the fields have none. *)
FieldOf(s) == CASE s = "req_schema" -> "SCHEMA"
                [] s \in {"req_server", "req_server_with_at"} -> "HOST"
                [] s = "req_path" -> "PATH"
                [] s = "req_query_string" -> "QUERY"
                [] s = "req_fragment" -> "FRAGMENT"
                [] OTHER -> NULL

Extended(data, f) == [data EXCEPT ![f].len = @ + 1]
Opened(data, f, p) == [data EXCEPT ![f] = [off |-> p, len |-> 1]]

(* The body of the loop of http_parser_parse_url; dead, it returns at once. *)
UrlChar(u, ch) ==
    LET s == ParseUrlChar(u.s, ch)
        f == FieldOf(s)
    IN IF u.s = Dead THEN u
       ELSE [u EXCEPT !.s = s, !.p = @ + 1,
                      !.found_at = @ \/ s = "req_server_with_at",
                      !.old = IF f = NULL THEN @ ELSE f,
                      !.data = IF f = NULL THEN @
                               ELSE IF f = u.old THEN Extended(@, f)
                               ELSE Opened(@, f, u.p)]

Take(w) == /\ url # NULL /\ url.s # Dead /\ words < MaxWords
           /\ words' = words + 1
           /\ buf' = buf \o w
           /\ url' = FoldLeft(UrlChar, url, w)
           /\ UNCHANGED <<word, method>>

Next == (\E ch \in Letters : Letter(ch)) \/ (\E w \in Words : Take(w))

Spec == Init /\ [][Next]_vars

--------------------------------------------------------------------------
(* http_parse_host_char *)
V6Chars   == Hexes \cup Nums \cup {":", "."}
ZoneChars == Alphas \cup Nums \cup {"%", ".", "-"}

HostChar(s, ch) ==
    CASE s \in {"userinfo_start", "userinfo"} /\ ch = "@" -> "host_start"
      [] s \in {"userinfo_start", "userinfo"} /\ ch \in UserInfoChars -> "userinfo"
      [] s = "host_start" /\ ch = "[" -> "host_v6_start"
      [] s \in {"host_start", "host"} /\ ch \in HostChars -> "host"
      [] s \in {"host", "host_v6_end"} /\ ch = ":" -> "port_start"
      [] s \in {"host_v6", "host_v6_zone"} /\ ch = "]" -> "host_v6_end"
      [] s \in {"host_v6_start", "host_v6"} /\ ch \in V6Chars -> "host_v6"
      [] s = "host_v6" /\ ch = "%" -> "host_v6_zone_start"
      [] s \in {"host_v6_zone_start", "host_v6_zone"} /\ ch \in ZoneChars -> "host_v6_zone"
      [] s \in {"port_start", "port"} /\ ch \in Nums -> "port"
      [] OTHER -> Dead

(* The part of the server that a state of it belongs to; a state that begins a part *)
(* sets where it is, but a zone goes on with the host.                              *)
PartOf(s) == CASE s \in {"host", "host_v6", "host_v6_zone_start", "host_v6_zone"} -> "HOST"
               [] s = "port" -> "PORT"
               [] s = "userinfo" -> "USERINFO"
               [] OTHER -> NULL

(* Mutant of Begins: a zone is a part of its own. *)
BeginsAlways(s, new) == new # s

Begins(s, new) == new # s /\ new \notin {"host_v6_zone_start", "host_v6_zone"}

ServerChar(h, ch) ==
    LET s == HostChar(h.s, ch)
        f == PartOf(s)
    IN IF h.s = Dead THEN h
       ELSE [s |-> s, p |-> h.p + 1,
             data |-> IF f = NULL THEN h.data
                      ELSE IF ~Begins(h.s, s) THEN Extended(h.data, f)
                      ELSE IF f = "HOST"
                      THEN [h.data EXCEPT ![f].off = h.p, ![f].len = @ + 1]
                      ELSE Opened(h.data, f, h.p)]

(* http_parse_host: what it is after the last character of the server. *)
Server(u) ==
    LET host == u.data["HOST"]
    IN FoldLeft(ServerChar,
                [s |-> IF u.found_at THEN "userinfo_start" ELSE "host_start", p |-> host.off,
                 data |-> [u.data EXCEPT !["HOST"].len = 0]],
                SubSeq(buf, host.off + 1, host.off + host.len))

Text(data, f) == SubSeq(buf, data[f].off + 1, data[f].off + data[f].len)

(* strtoul *)
Number(digits) == FoldLeft(LAMBDA n, d : 10 * n + (IF d = "1" THEN 1 ELSE 0), 0, digits)

IsSet(data, f) == data[f] # Unset

(* What http_parser_parse_url returns if buf ends here: the fields, or NULL for 1. *)
HostAsked(u) == IsSet(u.data, "SCHEMA") => IsSet(u.data, "HOST")
EndsWell(s) == s \in {"host", "host_v6_end", "port"}

OnlyServer(data) == {f \in Fields : IsSet(data, f)} = {"HOST", "PORT"}

Result(u) ==
    LET server == Server(u)
        data   == IF IsSet(u.data, "HOST") THEN server.data ELSE u.data
    IN IF /\ u.s # Dead
          /\ HostAsked(u)
          /\ IsSet(u.data, "HOST") => EndsWell(server.s)
          /\ u.connect => OnlyServer(data)
          /\ Number(Text(data, "PORT")) <= MaxPort
       THEN data ELSE NULL

--------------------------------------------------------------------------
(* The guess agrees with every letter read, and no method is refused: the *)
(* letters that were refused begin none.                                  *)
MethodsFound ==
    /\ method # Refused => word = SubSeq(method, 1, Len(word))
    /\ method = Refused => \A m \in Methods : ~IsPrefix(word, m)

(* The position i of buf is in a field. *)
Inside(data, i) == \E f \in Fields : i \in data[f].off + 1 .. data[f].off + data[f].len

(* What marks a query, a fragment or a user that is not there. *)
Loose(data, i) ==
    /\ ~Inside(data, i)
    /\ \/ buf[i] = "?" /\ ~(IsSet(data, "QUERY") /\ data["QUERY"].off = i)
       \/ buf[i] = "#" /\ ~(IsSet(data, "FRAGMENT") /\ data["FRAGMENT"].off = i)
       \/ buf[i] = "@" /\ ~IsSet(data, "USERINFO")

(* The fields put together again, with the marks that belong to them. *)
Written(data) ==
    LET put(before, f, after) == IF IsSet(data, f) THEN before \o Text(data, f) \o after
                                 ELSE <<>>
        v6 == data["HOST"].off > 0 /\ buf[data["HOST"].off] = "["
    IN put(<<>>, "SCHEMA", <<":", "/", "/">>) \o put(<<>>, "USERINFO", <<"@">>)
       \o (IF v6 THEN put(<<"[">>, "HOST", <<"]">>) ELSE put(<<>>, "HOST", <<>>))
       \o put(<<":">>, "PORT", <<>>) \o put(<<>>, "PATH", <<>>)
       \o put(<<"?">>, "QUERY", <<>>) \o put(<<"#">>, "FRAGMENT", <<>>)

(* The fields of a URL that is accepted lie in it in order, and together  *)
(* with the marks between them they are all of it, whatever the number of *)
(* passes: nothing is dropped, cut or counted twice.                      *)
FieldsAreTheUrl ==
    LET data == Result(url)
        kept == {i \in DOMAIN buf : ~Loose(data, i)}
    IN url # NULL /\ data # NULL =>
       /\ \A f \in Fields : data[f].off + data[f].len <= Len(buf)
       /\ Written(data) = [k \in 1 .. Cardinality(kept) |->
                             buf[CHOOSE i \in kept : Cardinality({j \in kept : j < i}) = k - 1]]

(* The URLs made of a scheme, perhaps a user, a host, perhaps a port, a path and a   *)
(* query with a fragment.  (A fragment directly after the server is refused.)        *)
Perhaps(part) == {<<>>, part}

WellFormed ==
    {<<"a", ":", "/", "/">> \o user \o host \o port \o path \o rest :
        user     \in Perhaps(<<"a", "@">>),
        host     \in {<<"a">>, <<"1">>, <<"[", "a", "%", "z", "]">>, <<"[", ":", "]">>},
        port     \in Perhaps(<<":", "1">>),
        path     \in Perhaps(<<"/">>),
        rest     \in {<<>>, <<"?", "a">>, <<"?", "a", "#", "a">>}}

(* They are all accepted. *)
UrlsAreTaken == url # NULL /\ ~url.connect /\ buf \in WellFormed => Result(url) # NULL
=============================================================================
