------------------------------ MODULE UrlChars ------------------------------
(***************************************************************************)
(* The parts of httpclient/src/http_parser.c that the parser of messages   *)
(* and the parser of URLs share: the classes of characters, the step of a  *)
(* URL by one character, and the names of the methods.  One character      *)
(* stands for those the code does not tell apart; what is in no class      *)
(* stands for itself.                                                      *)
(***************************************************************************)
EXTENDS Integers, Sequences

Hexes   == {"a"}            \* the letters A to F, in both cases
Alphas  == Hexes \cup {"z"}
Nums    == {"0", "1"}
Spaces  == {" ", "CR", "LF", "TAB"}

(* IS_HOST_CHAR and IS_USERINFO_CHAR, and normal_url_char: all that is printed but *)
(* ' ', '#' and '?'.  A byte above 127 ("high") is in none in the strict build.    *)
HostChars     == Alphas \cup Nums \cup {".", "-"}
UserInfoChars == HostChars \cup {"%", ":", "*", "$"}
UrlNormals    == UserInfoChars \cup {"/", "@", "[", "]", "<"}
UrlSymbols    == UrlNormals \cup {"?", "#", "high"} \cup Spaces

Dead == "dead"

(* parse_url_char: the state after ch.  A URL is a path, or a scheme, "://", a  *)
(* server and perhaps a path, with a query and a fragment after them.           *)
InServer(s, ch) == CASE s = "req_server_with_at" /\ ch = "@" -> Dead
                     [] ch = "/" -> "req_path"
                     [] ch = "?" -> "req_query_string_start"
                     [] ch = "@" /\ s # "req_server_with_at" -> "req_server_with_at"
                     [] ch \in UserInfoChars \cup {"[", "]"} -> "req_server"
                     [] OTHER -> Dead

InQuery(ch) == CASE ch \in UrlNormals \cup {"?"} -> "req_query_string"
                 [] ch = "#" -> "req_fragment_start"
                 [] OTHER -> Dead

ParseUrlChar(s, ch) ==
    CASE s = "req_spaces_before_url" /\ ch \in {"/", "*"} -> "req_path"
      [] s = "req_spaces_before_url" /\ ch \in Alphas     -> "req_schema"
      [] s = "req_schema" /\ ch \in Alphas                -> s
      [] s = "req_schema" /\ ch = ":"                     -> "req_schema_slash"
      [] s = "req_schema_slash" /\ ch = "/"               -> "req_schema_slash_slash"
      [] s = "req_schema_slash_slash" /\ ch = "/"         -> "req_server_start"
      [] s \in {"req_server_start", "req_server", "req_server_with_at"} -> InServer(s, ch)
      [] s = "req_path" /\ ch \in UrlNormals              -> s
      [] s = "req_path" /\ ch = "?"                       -> "req_query_string_start"
      [] s = "req_path" /\ ch = "#"                       -> "req_fragment_start"
      [] s \in {"req_query_string_start", "req_query_string"} -> InQuery(ch)
      [] s \in {"req_fragment_start", "req_fragment"} /\ ch \in UrlNormals \cup {"?"} ->
             "req_fragment"
      [] s \in {"req_fragment_start", "req_fragment"} /\ ch = "#" -> s
      [] OTHER                                            -> Dead

--------------------------------------------------------------------------
(* HTTP_METHOD_MAP: the methods, spelt. *)
Methods == {
    <<"D","E","L","E","T","E">>, <<"G","E","T">>, <<"H","E","A","D">>, <<"P","O","S","T">>,
    <<"P","U","T">>, <<"C","O","N","N","E","C","T">>, <<"O","P","T","I","O","N","S">>,
    <<"T","R","A","C","E">>, <<"C","O","P","Y">>, <<"L","O","C","K">>,
    <<"M","K","C","O","L">>, <<"M","O","V","E">>, <<"P","R","O","P","F","I","N","D">>,
    <<"P","R","O","P","P","A","T","C","H">>, <<"S","E","A","R","C","H">>,
    <<"U","N","L","O","C","K">>, <<"B","I","N","D">>, <<"R","E","B","I","N","D">>,
    <<"U","N","B","I","N","D">>, <<"A","C","L">>, <<"R","E","P","O","R","T">>,
    <<"M","K","A","C","T","I","V","I","T","Y">>, <<"C","H","E","C","K","O","U","T">>,
    <<"M","E","R","G","E">>, <<"M","-","S","E","A","R","C","H">>,
    <<"N","O","T","I","F","Y">>, <<"S","U","B","S","C","R","I","B","E">>,
    <<"U","N","S","U","B","S","C","R","I","B","E">>, <<"P","A","T","C","H">>,
    <<"P","U","R","G","E">>, <<"M","K","C","A","L","E","N","D","A","R">>}

Connect == <<"C","O","N","N","E","C","T">>

(* The method a first letter stands for until a letter says otherwise. *)
Guessed == {<<"A","C","L">>, <<"B","I","N","D">>, Connect, <<"D","E","L","E","T","E">>,
            <<"G","E","T">>, <<"H","E","A","D">>, <<"L","O","C","K">>, <<"M","K","C","O","L">>,
            <<"N","O","T","I","F","Y">>, <<"O","P","T","I","O","N","S">>, <<"P","O","S","T">>,
            <<"R","E","P","O","R","T">>, <<"S","U","B","S","C","R","I","B","E">>,
            <<"T","R","A","C","E">>, <<"U","N","L","O","C","K">>}

(* The letters that change the guess: of a method, at an index, to another method. *)
Switches == {
    <<Connect, 1, "H", <<"C","H","E","C","K","O","U","T">> >>,
    <<Connect, 2, "P", <<"C","O","P","Y">> >>,
    <<<<"M","K","C","O","L">>, 1, "O", <<"M","O","V","E">> >>,
    <<<<"M","K","C","O","L">>, 1, "E", <<"M","E","R","G","E">> >>,
    <<<<"M","K","C","O","L">>, 1, "-", <<"M","-","S","E","A","R","C","H">> >>,
    <<<<"M","K","C","O","L">>, 2, "A", <<"M","K","A","C","T","I","V","I","T","Y">> >>,
    <<<<"M","K","C","O","L">>, 3, "A", <<"M","K","C","A","L","E","N","D","A","R">> >>,
    <<<<"S","U","B","S","C","R","I","B","E">>, 1, "E", <<"S","E","A","R","C","H">> >>,
    <<<<"R","E","P","O","R","T">>, 2, "B", <<"R","E","B","I","N","D">> >>,
    <<<<"P","O","S","T">>, 1, "R", <<"P","R","O","P","F","I","N","D">> >>,
    <<<<"P","O","S","T">>, 1, "U", <<"P","U","T">> >>,
    <<<<"P","O","S","T">>, 1, "A", <<"P","A","T","C","H">> >>,
    <<<<"P","U","T">>, 2, "R", <<"P","U","R","G","E">> >>,
    <<<<"U","N","L","O","C","K">>, 2, "S", <<"U","N","S","U","B","S","C","R","I","B","E">> >>,
    <<<<"U","N","L","O","C","K">>, 2, "B", <<"U","N","B","I","N","D">> >>,
    <<<<"P","R","O","P","F","I","N","D">>, 4, "P", <<"P","R","O","P","P","A","T","C","H">> >>}

(* The first letter, and the letter ch at index i (from 0, as in the code) when the *)
(* guess is m: the set of the guesses that result, empty when there is no method.   *)
FirstLetter(ch) == {m \in Guessed : m[1] = ch}

NextLetter(m, i, ch) ==
    IF i < Len(m) /\ m[i + 1] = ch THEN {m}
    ELSE {s[4] : s \in {t \in Switches : t[1] = m /\ t[2] = i /\ t[3] = ch}}

(* A blank ends the method when the guess has been spelt to its end. *)
MethodEnds(m, i, ch) == ch = " " /\ i = Len(m)
=============================================================================
