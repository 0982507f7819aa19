------------------------------ MODULE JsonText ------------------------------
(***************************************************************************)
(* JSON values written out and read back (parson/src/parson.c): the        *)
(* parser, the serializer, the removal of comments, json_value_equals and  *)
(* json_validate, as functions on documents and texts.                     *)
(*                                                                         *)
(* A text is a sequence of characters.  "1" is a number, "null" the word,  *)
(* "x" any character that is not special in a string, "c" a control        *)
(* character without a letter of its own, and "u" the \u escape of it,     *)
(* after its backslash.                                                    *)
(***************************************************************************)
EXTENDS Naturals, Sequences, SequencesExt, FiniteSetsExt

CONSTANTS
    Documents,      \* the documents that are written
    Texts,          \* other texts that are read
    Blocks, Lines,  \* what is in comments that end with */, or with the line
    MAX_NESTING,
    NULL

VARIABLES
    doc,     \* the document that was written, NULL when there is none
    text,    \* what was written or found
    parsed,  \* the document that was read, NULL when reading has failed
    phase    \* "start", "written", "found", "commented", "read"

vars == <<doc, text, parsed, phase>>

Quote == "\""
Back == "\\"
Letters == [n |-> "\n", t |-> "\t"]   \* what \n and the like stand for; two of them

--------------------------------------------------------------------------
(* Documents *)
Leaf(type, s) == [type |-> type, string |-> s, kids |-> <<>>]
Null == Leaf("null", <<>>)
Number == Leaf("number", <<>>)

(* The kids of an object are its pairs in the order in which they were added; of an array, *)
(* its items, whose names are empty.                                                       *)
Kid(name, v) == [name |-> name, value |-> v]
Node(type, kids) == [type |-> type, string |-> <<>>, kids |-> kids]

NamesOf(v) == {v.kids[j].name : j \in 1 .. Len(v.kids)}

(* json_object_get_value *)
Value(v, name) == IF name \in NamesOf(v)
                  THEN v.kids[CHOOSE j \in 1 .. Len(v.kids) : v.kids[j].name = name].value
                  ELSE NULL

--------------------------------------------------------------------------
(* json_serialize_string and json_serialize_to_buffer_r *)
Letter(c) == CHOOSE l \in DOMAIN Letters : Letters[l] = c

EscapedChar(c, slashes) ==
    CASE c \in {Quote, Back}                      -> <<Back, c>>
      [] \E l \in DOMAIN Letters : Letters[l] = c -> <<Back, Letter(c)>>
      [] c = "c"                                  -> <<Back, "u">>
      [] c = "/" /\ slashes                       -> <<Back, "/">>
      [] OTHER                                    -> <<c>>

Quoted(s, slashes) ==
    <<Quote>> \o FlattenSeq([j \in 1 .. Len(s) |-> EscapedChar(s[j], slashes)]) \o <<Quote>>

Indent(level, pretty) == IF pretty THEN [j \in 1 .. level |-> " "] ELSE <<>>
Line(pretty) == IF pretty THEN <<"\n">> ELSE <<>>

RECURSIVE Serialize(_, _, _, _)
Serialize(v, level, pretty, slashes) ==
    LET count == Len(v.kids)
        opens == IF v.type = "array" THEN "[" ELSE "{"
        ends == IF v.type = "array" THEN "]" ELSE "}"
        key(j) == IF v.type = "array" THEN <<>>
                  ELSE Quoted(v.kids[j].name, slashes) \o <<":">> \o Indent(1, pretty)
        kid(j) == Indent(level + 1, pretty) \o key(j)
                  \o Serialize(v.kids[j].value, level + 1, pretty, slashes)
                  \o (IF j < count THEN <<",">> ELSE <<>>) \o Line(pretty)
    IN CASE v.type = "null"   -> <<"null">>
         [] v.type = "number" -> <<"1">>
         [] v.type = "string" -> Quoted(v.string, slashes)
         [] OTHER -> <<opens>> \o (IF count > 0 THEN Line(pretty) ELSE <<>>)
                     \o FlattenSeq([j \in 1 .. count |-> kid(j)])
                     \o (IF count > 0 THEN Indent(level, pretty) ELSE <<>>) \o <<ends>>

--------------------------------------------------------------------------
(* The parser.  i is the place of the next character; what a function returns is the     *)
(* value, NULL when it fails, and the place after it.                                    *)
At(t, i) == IF i <= Len(t) THEN t[i] ELSE NULL
Read(v, i) == [value |-> v, i |-> i]
Failure == Read(NULL, 0)

RECURSIVE Skip(_, _)
Skip(t, i) == IF At(t, i) \in {" ", "\n", "\t"} THEN Skip(t, i + 1) ELSE i

(* skip_quotes: the place after the closing quote, 0 when there is none. *)
RECURSIVE QuoteEnd(_, _)
QuoteEnd(t, i) == CASE At(t, i) = NULL  -> 0
                       [] At(t, i) = Quote -> i + 1
                       [] At(t, i) = Back  -> IF At(t, i + 1) = NULL THEN 0 ELSE QuoteEnd(t, i + 2)
                       [] OTHER               -> QuoteEnd(t, i + 1)

(* process_string, of the characters between the quotes *)
RECURSIVE Process(_)
Process(s) ==
    LET c == s[1]
        plain == IF c = Back THEN s[2] ELSE c
        char == CASE c # Back -> IF c \in {"\n", "\t", "c"} THEN NULL ELSE c
                  [] c = Back /\ plain \in {Quote, Back, "/"} -> plain
                  [] c = Back /\ plain \in DOMAIN Letters -> Letters[plain]
                  [] c = Back /\ plain = "u" -> "c"
                  [] OTHER -> NULL
        rest == Process(SubSeq(s, IF c = Back THEN 3 ELSE 2, Len(s)))
    IN IF s = <<>> THEN <<>>
       ELSE IF char = NULL \/ rest = NULL THEN NULL ELSE <<char>> \o rest

(* get_quoted_string *)
String(t, i) ==
    LET end == IF At(t, i) = Quote THEN QuoteEnd(t, i + 1) ELSE 0
        s == IF end = 0 THEN NULL ELSE Process(SubSeq(t, i + 1, end - 2))
    IN IF s = NULL THEN Failure ELSE Read(s, end)

(* parse_value, parse_array_value and parse_object_value.  Kids reads the items or pairs  *)
(* from i on, after those that were read before.                                         *)
TooDeep(nesting) == nesting > MAX_NESTING

RECURSIVE ParseValue(_, _, _)
RECURSIVE ParseKids(_, _, _, _, _)
ParseValue(t, at, nesting) ==
    LET i == Skip(t, at)
        c == At(t, i)
        type == IF c = "[" THEN "array" ELSE "object"
        end == IF c = "[" THEN "]" ELSE "}"
        first == Skip(t, i + 1)
        s == String(t, i)
    IN CASE TooDeep(nesting)        -> Failure
         [] ~TooDeep(nesting) /\ c = "null" -> Read(Null, i + 1)
         [] ~TooDeep(nesting) /\ c = "1"    -> Read(Number, i + 1)
         [] ~TooDeep(nesting) /\ c = Quote  ->
                IF s.value = NULL THEN Failure ELSE Read(Leaf("string", s.value), s.i)
         [] ~TooDeep(nesting) /\ c \in {"[", "{"} ->
                IF At(t, first) = end THEN Read(Node(type, <<>>), first + 1)
                ELSE ParseKids(t, first, type, <<>>, nesting + 1)
         [] OTHER -> Failure

ParseKids(t, i, type, kids, nesting) ==
    LET name == IF type = "array" THEN Read(<<>>, i) ELSE String(t, i)
        colon == Skip(t, name.i)
        v == CASE type = "array" -> ParseValue(t, i, nesting)
               [] type = "object" /\ (name.value = NULL \/ At(t, colon) # ":") -> Failure
               [] OTHER -> ParseValue(t, colon + 1, nesting)
        more == Append(kids, Kid(name.value, v.value))
        twice == type = "object" /\ name.value \in {kids[j].name : j \in 1 .. Len(kids)}
        next == Skip(t, v.i)
    IN CASE v.value = NULL \/ twice -> Failure
         [] ~(v.value = NULL \/ twice) /\ At(t, next) = "," ->
                ParseKids(t, Skip(t, next + 1), type, more, nesting)
         [] ~(v.value = NULL \/ twice) /\ At(t, next) = (IF type = "array" THEN "]" ELSE "}") ->
                Read(Node(type, more), next + 1)
         [] OTHER -> Failure

(* json_parse_string: what comes after the value is not looked at. *)
Parse(t) == ParseValue(t, 1, 0).value

--------------------------------------------------------------------------
(* remove_comments *)
Starts(t, i, token) == \A k \in 1 .. Len(token) : At(t, i + k - 1) = token[k]

Ends(t, i, token) == {j \in i .. Len(t) : Starts(t, j, token)}

Blank(t, a, b) == [j \in 1 .. Len(t) |-> IF j \in a .. b THEN " " ELSE t[j]]

(* Mutant of Toggled: a quote after a backslash counts. *)
ToggledAlways(in, c, escaped) == IF c = Quote THEN ~in ELSE in

Toggled(in, c, escaped) == IF c = Quote /\ ~escaped THEN ~in ELSE in

RECURSIVE RemoveFrom(_, _, _, _, _, _)
RemoveFrom(t, i, in, escaped, start, end) ==
    LET c == At(t, i)
        after == i + Len(start)
        ends == Ends(t, after, end)
        stop == (CHOOSE j \in ends : \A k \in ends : j <= k) + Len(end) - 1
        comment == ~in /\ ~(c = Quote /\ ~escaped) /\ Starts(t, i, start)
    IN CASE c = NULL -> t
         [] c = Back /\ ~escaped -> RemoveFrom(t, i + 1, in, TRUE, start, end)
         [] c # NULL /\ ~(c = Back /\ ~escaped) /\ comment ->
                IF ends = {} THEN Blank(t, i, after - 1)
                ELSE RemoveFrom(Blank(t, i, stop), stop + 1, in, FALSE, start, end)
         [] OTHER -> RemoveFrom(t, i + 1, Toggled(in, c, escaped), FALSE, start, end)

RemoveComments(t, start, end) == RemoveFrom(t, 1, FALSE, FALSE, start, end)

(* json_parse_string_with_comments *)
ParseWithComments(t) ==
    Parse(RemoveComments(RemoveComments(t, <<"/", "*">>, <<"*", "/">>), <<"/", "/">>, <<"\n">>))

--------------------------------------------------------------------------
(* json_value_equals; there is one number. *)
SameNames(a, b) == a.type = "array" \/ \A name \in NamesOf(a) : Value(b, name) # NULL

RECURSIVE Equals(_, _)
Equals(a, b) ==
    /\ a.type = b.type
    /\ a.type = "string" => a.string = b.string
    /\ Len(a.kids) = Len(b.kids)
    /\ a.type = "array" => \A j \in 1 .. Len(a.kids) : Equals(a.kids[j].value, b.kids[j].value)
    /\ a.type = "object" => /\ SameNames(a, b)
                            /\ \A name \in NamesOf(a) \cap NamesOf(b) : Equals(Value(a, name), Value(b, name))

(* json_validate: of the items of a schema's array only the first counts. *)
RECURSIVE Validate(_, _)
Validate(schema, v) ==
    /\ schema.type \in {v.type, "null"}
    /\ schema.type = "array" /\ schema.kids # <<>> =>
          \A j \in 1 .. Len(v.kids) : Validate(schema.kids[1].value, v.kids[j].value)
    /\ schema.type = "object" /\ schema.kids # <<>> =>
          /\ Len(v.kids) >= Len(schema.kids)
          /\ \A name \in NamesOf(schema) : Value(v, name) # NULL /\ Validate(Value(schema, name), Value(v, name))

--------------------------------------------------------------------------
(* A document is written, comments may be put into what was written, and it is read; or   *)
(* any text is read.                                                                      *)
Init == doc = NULL /\ text = <<>> /\ parsed = NULL /\ phase = "start"

SerializeToString(v, pretty, slashes) ==
    /\ doc' = v /\ text' = Serialize(v, 0, pretty, slashes) /\ phase' = "written"
    /\ UNCHANGED parsed

ReadFile(t) == text' = t /\ phase' = "found" /\ UNCHANGED <<doc, parsed>>

Block(body) == <<"/", "*">> \o body \o <<"*", "/">>
ToLineEnd(body) == <<"/", "/">> \o body \o <<"\n">>

(* A comment may stand after what is no part of a string or of a word. *)
Structure == {"[", "]", "{", "}", ",", ":"}

Insert(i, comment) == /\ phase = "written" /\ i \in 1 .. Len(text) /\ text[i] \in Structure
                      /\ text' = SubSeq(text, 1, i) \o comment \o SubSeq(text, i + 1, Len(text))
                      /\ phase' = "commented"
                      /\ UNCHANGED <<doc, parsed>>

ParseString == /\ phase \in {"written", "found"}
               /\ parsed' = Parse(text) /\ phase' = "read"
               /\ UNCHANGED <<doc, text>>

ParseStringWithComments == /\ phase \in {"written", "commented"}
                           /\ parsed' = ParseWithComments(text) /\ phase' = "read"
                           /\ UNCHANGED <<doc, text>>

Next == \/ /\ phase = "start"
           /\ \/ \E v \in Documents, pretty, slashes \in BOOLEAN : SerializeToString(v, pretty, slashes)
              \/ \E t \in Texts : ReadFile(t)
        \/ \E i \in 1 .. Len(text), body \in Blocks : Insert(i, Block(body))
        \/ \E i \in 1 .. Len(text), body \in Lines : Insert(i, ToLineEnd(body))
        \/ ParseString
        \/ ParseStringWithComments

Spec == Init /\ [][Next]_vars
--------------------------------------------------------------------------
RECURSIVE Depth(_)
Depth(v) == IF v.kids = <<>> THEN 0
            ELSE 1 + Max({Depth(v.kids[j].value) : j \in 1 .. Len(v.kids)})

(* A document that was written, in either format and with or without escaped slashes, is  *)
(* read as it was, whatever its strings hold and whatever comments are added to it,       *)
(* unless it is nested too deeply: then nothing is read.                                  *)
WrittenIsRead == phase = "read" /\ doc # NULL =>
    parsed = IF Depth(doc) <= MAX_NESTING THEN doc ELSE NULL

(* What has been read can be written, and is then read again. *)
ReadIsWritten == phase = "read" /\ parsed # NULL => \A pretty \in BOOLEAN :
    Parse(Serialize(parsed, 0, pretty, TRUE)) = parsed

(* json_value_equals does not tell documents apart that differ in the order of pairs      *)
(* only, and tells all others apart; those that are equal are valid for the same schemas. *)
RECURSIVE Unordered(_)
Unordered(v) == [type |-> v.type, string |-> v.string,
                 kids |-> IF v.type = "object"
                          THEN {<<v.kids[j].name, Unordered(v.kids[j].value)>> : j \in 1 .. Len(v.kids)}
                          ELSE {<<j, Unordered(v.kids[j].value)>> : j \in 1 .. Len(v.kids)}]

EqualsIsEquality == phase = "written" => \A v \in Documents :
    /\ Equals(doc, v) = (Unordered(doc) = Unordered(v))
    /\ Equals(doc, v) => Validate(doc, v) = Validate(doc, doc) /\ Validate(v, doc) = Validate(doc, doc)
=============================================================================
