------------------------------- MODULE MgText -------------------------------
(***************************************************************************)
(* The codes of mongoose.c that work on a buffer and an index: base64, the *)
(* escapes of URLs and forms, numbers, patterns, lists, ranges of a file   *)
(* and the parts of a form with files.  Each is asked with one input; what *)
(* it returns is compared with what it must be.                            *)
(*                                                                         *)
(* A character is its number.                                              *)
(***************************************************************************)
EXTENDS Integers, Sequences, SequencesExt, FiniteSetsExt

CONSTANTS
    Bytes,          \* sequences that are coded
    Forms,          \* sequences of pairs of a name and a value
    Numbers, MaxNumber, \* numbers, and INT64_MAX
    Subjects, Patterns,
    Ranges, FileSize,
    NULL

VARIABLE call       \* the last call: what was called, with what, and what came back

vars == <<call>>

Percent == 37   Amp == 38   Star == 42   Plus == 43   Comma == 44   Minus == 45
Slash == 47   Equal == 61   Query == 63   Hash == 35   Blank == 32

IsDigit(c) == c \in 48 .. 57
IsUpper(c) == c \in 65 .. 90
IsLower(c) == c \in 97 .. 122

At(s, i) == IF i \in 1 .. Len(s) THEN s[i] ELSE NULL
From(s, i) == SubSeq(s, i, Len(s))

--------------------------------------------------------------------------
(* base64 *)
mg_b64idx(c) == CASE c < 26 -> c + 65
                  [] c \in 26 .. 51 -> c - 26 + 97
                  [] c \in 52 .. 61 -> c - 52 + 48
                  [] OTHER -> IF c = 62 THEN Plus ELSE Slash

mg_b64rev(c) == CASE IsUpper(c) -> c - 65
                  [] IsLower(c) -> c + 26 - 97
                  [] IsDigit(c) -> c + 52 - 48
                  [] c = Plus -> 62
                  [] c = Slash -> 63
                  [] c = Equal -> 64
                  [] OTHER -> -1

(* What is left of a byte waits behind the n characters that are written. *)
Coding(to, n, left) == [to |-> to, n |-> n, left |-> left]

mg_base64_update(e, ch) ==
    CASE (e.n % 4) % 3 = 0 ->
             Coding(Append(e.to, mg_b64idx(ch \div 4)), e.n + 1, (ch % 4) * 16)
      [] (e.n % 4) % 3 = 1 ->
             Coding(Append(e.to, mg_b64idx(e.left + (ch \div 16))), e.n + 1, (ch % 16) * 4)
      [] OTHER ->
             Coding(e.to \o <<mg_b64idx(e.left + (ch \div 64)), mg_b64idx(ch % 64)>>, e.n + 2, 0)

mg_base64_final(e) ==
    LET flushed == IF e.n % 4 # 0 THEN mg_base64_update(e, 0).to ELSE e.to
        kept == IF e.n % 4 = 2 THEN SubSeq(flushed, 1, 3) ELSE flushed
    IN kept \o [j \in 1 .. ((4 - (Len(kept) % 4)) % 4) |-> Equal]

mg_base64_encode(s) == mg_base64_final(FoldLeft(mg_base64_update, Coding(<<>>, 0, 0), s))

(* Four characters at a time; all is lost when one is not of the code. *)
Decoded(q) ==
    LET v == [k \in 1 .. 4 |-> mg_b64rev(q[k])]
    IN IF v[1] \in {64, -1} \/ v[2] \in {64, -1} \/ v[3] < 0 \/ v[4] < 0 THEN NULL
       ELSE <<(v[1] * 4) + (v[2] \div 16)>>
            \o (IF q[3] = Equal THEN <<>> ELSE <<((v[2] % 16) * 16) + (v[3] \div 4)>>)
            \o (IF q[3] = Equal \/ q[4] = Equal THEN <<>> ELSE <<((v[3] % 4) * 64) + v[4]>>)

mg_base64_decode(s) ==
    LET parts == [k \in 1 .. (Len(s) \div 4) |-> Decoded(SubSeq(s, 4 * k - 3, 4 * k))]
    IN IF \E k \in DOMAIN parts : parts[k] = NULL THEN <<>> ELSE FlattenSeq(parts)

--------------------------------------------------------------------------
(* URLs and forms *)
mg_is_url_safe(c) == IsDigit(c) \/ IsLower(c) \/ IsUpper(c) \/ c \in {46, 95, Minus, 126}

HexDigit(n) == IF n < 10 THEN 48 + n ELSE 97 + n - 10
Unhex(c) == CASE IsDigit(c) -> c - 48 [] IsUpper(c) -> c - 55 [] OTHER -> c - 87
IsHex(c) == IsDigit(c) \/ c \in 97 .. 102 \/ c \in 65 .. 70

Escaped(c) == IF mg_is_url_safe(c) THEN <<c>> ELSE <<Percent, HexDigit(c \div 16), HexDigit(c % 16)>>

(* Nothing is written when four characters do not fit behind those that were. *)
mg_url_encode(s, len) ==
    LET out == FlattenSeq([j \in 1 .. Len(s) |-> Escaped(s[j])])
        before(j) == Len(FlattenSeq([k \in 1 .. j - 1 |-> Escaped(s[k])]))
    IN IF \E j \in 1 .. Len(s) : before(j) + 4 >= len THEN <<>> ELSE out

RECURSIVE DecodeFrom(_, _, _, _, _)
DecodeFrom(s, i, out, len, form) ==
    CASE i > Len(s) -> IF Len(out) < len THEN out ELSE NULL
      [] i <= Len(s) /\ Len(out) + 1 >= len -> NULL
      [] i <= Len(s) /\ Len(out) + 1 < len /\ s[i] = Percent ->
             IF i + 2 <= Len(s) /\ IsHex(s[i + 1]) /\ IsHex(s[i + 2])
             THEN DecodeFrom(s, i + 3, Append(out, 16 * Unhex(s[i + 1]) + Unhex(s[i + 2])), len, form)
             ELSE NULL
      [] OTHER -> DecodeFrom(s, i + 1, Append(out, IF form /\ s[i] = Plus THEN Blank ELSE s[i]), len, form)

mg_url_decode(s, len, form) == DecodeFrom(s, 1, <<>>, len, form)

(* mg_ncasecmp does not tell cases apart. *)
mg_lower(c) == IF IsUpper(c) THEN c + 32 ELSE c
SameName(a, b) == Len(a) = Len(b) /\ \A j \in 1 .. Len(a) : mg_lower(a[j]) = mg_lower(b[j])

(* The first place, at the start or behind an &, where the name and an = stand. *)
NameAt(buf, name, p) ==
    /\ p + Len(name) <= Len(buf)
    /\ p = 1 \/ buf[p - 1] = Amp
    /\ buf[p + Len(name)] = Equal
    /\ SameName(SubSeq(buf, p, p + Len(name) - 1), name)

ValueEnd(buf, p) == Min({j \in p .. Len(buf) + 1 : j > Len(buf) \/ At(buf, j) = Amp})

mg_http_get_var(buf, name, len) ==
    LET places == {p \in 1 .. Len(buf) : NameAt(buf, name, p)}
        value == Min(places) + Len(name) + 1
    IN IF places = {} THEN NULL
       ELSE mg_url_decode(SubSeq(buf, value, ValueEnd(buf, value) - 1), len, TRUE)

--------------------------------------------------------------------------
(* Numbers.  A number that is not below the limit by a digit is read as 0. *)
RECURSIVE ToNumber(_, _)
ToNumber(s, n) == CASE s = <<>> -> n
                    [] s # <<>> /\ ~IsDigit(At(s, 1)) -> n
                    [] s # <<>> /\ IsDigit(At(s, 1)) /\ n > (MaxNumber \div 10) - 10 -> 0
                    [] OTHER -> ToNumber(Tail(s), 10 * n + s[1] - 48)

RECURSIVE mg_to64(_)
mg_to64(s) == CASE At(s, 1) \in {Blank, 9} -> mg_to64(Tail(s))
                [] At(s, 1) = Minus -> -ToNumber(Tail(s), 0)
                [] OTHER -> ToNumber(s, 0)

(* The digits come from the last to the first, and are reversed; 0 has none of them. *)
RECURSIVE Reversed(_)
Reversed(n) == IF n = 0 THEN <<>> ELSE <<48 + (n % 10)>> \o Reversed(n \div 10)

mg_lld(n) == CASE n < 0 -> <<Minus>> \o Reverse(Reversed(-n))
               [] n = 0 -> <<48>>
               [] OTHER -> Reverse(Reversed(n))

--------------------------------------------------------------------------
(* mg_match: ni and nj are where the last star began to stand for less than it may.  The  *)
(* place behind the subject may be read; it holds beyond.                                 *)
RECURSIVE MatchFrom(_, _, _, _, _, _, _)
MatchFrom(s, p, i, j, ni, nj, beyond) ==
    LET same == i <= Len(p) /\ j <= Len(s) /\ (p[i] = Query \/ s[j] = p[i])
        star == i <= Len(p) /\ p[i] \in {Star, Hash}
        there == IF j <= Len(s) THEN s[j] ELSE beyond
    IN CASE i > Len(p) /\ j > Len(s) -> TRUE
         [] ~(i > Len(p) /\ j > Len(s)) /\ same -> MatchFrom(s, p, i + 1, j + 1, ni, nj, beyond)
         [] ~(i > Len(p) /\ j > Len(s)) /\ ~same /\ star -> MatchFrom(s, p, i + 1, j, i, j + 1, beyond)
         [] ~(i > Len(p) /\ j > Len(s)) /\ ~same /\ ~star
               /\ nj > 0 /\ nj <= Len(s) + 1 /\ (p[ni] = Hash \/ there # Slash) ->
                MatchFrom(s, p, ni, nj, ni, nj, beyond)
         [] OTHER -> FALSE

mg_match(s, p, beyond) == MatchFrom(s, p, 1, 1, 0, 0, beyond)

(* mg_commalist: the pairs of a list, one after the other; a pair may have no value. *)
RECURSIVE mg_commalist(_)
mg_commalist(s) ==
    LET end == Min({j \in 1 .. Len(s) + 1 : j > Len(s) \/ At(s, j) = Comma})
        key == Min({j \in 1 .. end : j = end \/ At(s, j) = Equal})
    IN IF s = <<>> THEN <<>>
       ELSE <<<<SubSeq(s, 1, key - 1), SubSeq(s, key + 1, end - 1)>>>> \o mg_commalist(From(s, end + 1))

--------------------------------------------------------------------------
(* getrange, behind the word "bytes="; and what mg_http_serve_file answers with: the      *)
(* status, the length that it tells and where in the file it begins.                      *)
RECURSIVE AfterDigits(_)
AfterDigits(s) == IF s # <<>> /\ IsDigit(s[1]) THEN AfterDigits(Tail(s)) ELSE s

AfterMinus(s) == IF At(s, 1) = Minus THEN Tail(s) ELSE s

Parsed(s) == IF s # <<>> /\ IsDigit(s[1]) THEN 1 ELSE 0

getrange(s) == LET rest == AfterMinus(AfterDigits(s))
               IN [n |-> Parsed(s) + Parsed(rest), a |-> mg_to64(s), b |-> mg_to64(rest)]

Answer(status, length, from) == [status |-> status, length |-> length, from |-> from]

Ranged(r, last) == IF r.a > last \/ last >= FileSize THEN Answer(416, 0, 0)
                   ELSE Answer(206, last - r.a + 1, r.a)

mg_http_serve_file(s) ==
    LET r == getrange(s)
    IN IF s = NULL THEN Answer(200, FileSize, 0)
       ELSE IF r.n = 0 \/ r.a < 0 \/ r.b < 0 THEN Answer(200, FileSize, 0)
       ELSE Ranged(r, IF r.n = 1 THEN FileSize - 1 ELSE r.b)

--------------------------------------------------------------------------
Init == call = [op |-> "none"]

Ask(op, in, out) == call' = [op |-> op, in |-> in, out |-> out]

Base64(s) == Ask("base64", s, mg_base64_decode(mg_base64_encode(s)))

Url(s, len, form) == Ask("url", s, [long |-> len, back |-> mg_url_decode(mg_url_encode(s, len), len, form)])

(* A form that is written as it must be, with an & between the pairs. *)
Pair(p) == p[1] \o <<Equal>> \o mg_url_encode(p[2], 100)
Form(f) == FlattenSeq([j \in 1 .. Len(f) |-> (IF j > 1 THEN <<Amp>> ELSE <<>>) \o Pair(f[j])])
Var(f, name) == Ask("var", <<f, name>>, mg_http_get_var(Form(f), name, 100))

Number(n) == Ask("number", n, mg_to64(mg_lld(n)))

Match(s, p, beyond) == Ask("match", <<s, p>>, mg_match(s, p, beyond))

(* A list is made of the pairs of a form; a pair without a value has no = here. *)
ListOf(f) == FlattenSeq([j \in 1 .. Len(f) |->
                 (IF j > 1 THEN <<Comma>> ELSE <<>>) \o f[j][1]
                 \o (IF f[j][2] = <<>> THEN <<>> ELSE <<Equal>> \o f[j][2])])
Pairs(f) == Ask("list", f, mg_commalist(ListOf(f)))

Serve(s) == Ask("range", s, mg_http_serve_file(s))

Next == /\ call.op = "none"
        /\ \/ \E s \in Bytes : Base64(s)
           \/ \E s \in Bytes, len \in {6, 100}, form \in BOOLEAN : Url(s, len, form)
           \/ \E f \in Forms, name \in {p[1] : p \in UNION {Range(g) : g \in Forms}} : Var(f, name)
           \/ \E n \in Numbers : Number(n)
           \/ \E s \in Subjects, p \in Patterns, beyond \in {Slash, 0} : Match(s, p, beyond)
           \/ \E f \in Forms : Pairs(f)
           \/ \E s \in Ranges \cup {NULL} : Serve(s)

Spec == Init /\ [][Next]_vars

--------------------------------------------------------------------------
(* What a pattern means: ? is one character, # is any, and * any that holds no slash. *)
RECURSIVE Means(_, _)
Means(p, s) ==
    CASE p = <<>> -> s = <<>>
      [] At(p, 1) = Query -> s # <<>> /\ Means(Tail(p), Tail(s))
      [] At(p, 1) \in {Star, Hash} ->
             \E j \in 0 .. Len(s) : /\ At(p, 1) = Star => Slash \notin Range(SubSeq(s, 1, j))
                                    /\ Means(Tail(p), From(s, j + 1))
      [] OTHER -> s # <<>> /\ s[1] = p[1] /\ Means(Tail(p), Tail(s))

(* A # before a * is not looked at again once the * has failed; and where what is behind  *)
(* a * may take a slash of the subject, the * may come to stand for that slash, or fail   *)
(* to pass over what is before it.                                                        *)
Follows(p, S, T) == \E i, j \in 1 .. Len(p) : i < j /\ p[i] \in S /\ p[j] \in T
Loose(p) == [i \in 1 .. Len(p) |-> IF p[i] = Star THEN Hash ELSE p[i]]

(* What is coded is read again as it was, in base64, in URLs that fit, in forms by the    *)
(* first of the names whatever its case, and in lists; numbers that are below the limit   *)
(* by a digit too.                                                                        *)
CodesAreInverse ==
    /\ call.op \in {"base64", "number"} => call.out = call.in
    /\ call.op = "url" => call.out.back = call.in \/ (call.out.back = <<>> /\ call.out.long < 100)
    /\ call.op = "var" =>
          LET f == call.in[1]
              named == {j \in 1 .. Len(f) : SameName(f[j][1], call.in[2])}
          IN call.out = IF named = {} THEN NULL ELSE f[Min(named)][2]
    /\ call.op = "list" => call.out = call.in

(* mg_match says yes only where the pattern means the subject, when no slash can be taken *)
(* behind a *, and else where it does with # for *; and always where it does, if no *     *)
(* comes behind a # and no ? behind a *: whatever is read behind the subject.             *)
MatchIsMeant ==
    call.op = "match" =>
        LET s == call.in[1]  p == call.in[2]
        IN /\ call.out => Means(Loose(p), s)
           /\ call.out /\ ~Follows(p, {Star}, {Slash, Query}) => Means(p, s)
           /\ Means(p, s) /\ ~Follows(p, {Hash}, {Star}) /\ ~Follows(p, {Star}, {Query}) => call.out

(* A range is answered with bytes that the file has, the ones that were asked for, up to  *)
(* its end when no last one was; with none if it has not all of them; and a range that    *)
(* is none is passed over.                                                                *)
RangeServed ==
    call.op = "range" => LET a == call.out
                         IN /\ a.from + a.length <= FileSize
                            /\ a.status = 206 => /\ a.length > 0
                                                 /\ a.from = mg_to64(call.in)
                            /\ a.status = 200 => a.length = FileSize
=============================================================================
