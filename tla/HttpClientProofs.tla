-------------------------- MODULE HttpClientProofs --------------------------
(***************************************************************************)
(* What the HTTP client keeps, for every answer a server may send and every *)
(* split of it: no descriptor is lost, a request that returns ERR_OK has    *)
(* the whole page, and an answer decides where the next request goes and    *)
(* what is saved.  The inductive invariant, HttpInv, follows the parser     *)
(* through the units of an answer: the lemmas below say what one callback   *)
(* does to the handle, whatever the rest of the program is at.              *)
(***************************************************************************)
EXTENDS HttpClient, SequenceTheorems, TLAPS

(* A type invariant, as the other invariants of this module, of every handle.    *)
Sized(h) == h \in Handle /\ h.body_len = Len(h.bytes)

(* What the server of u sends is made up of these three.                         *)
LEMMA AnswerType ==
    ASSUME NEW u \in Urls
    PROVE  /\ HeadOf(u) \in Seq(Unit) /\ BodyOf(u) \in Seq(Data)
           /\ TailOf(u) \in Seq(Unit)
           /\ Len(HeadOf(u)) \in Nat /\ Len(BodyOf(u)) \in Nat
           /\ Len(TailOf(u)) \in Nat /\ Size(u) \in Nat
  <1>1. WellFormed(u)
    BY HttpAssumption
  <1>2. /\ HeadOf(u) \in Seq(Unit) /\ BodyOf(u) \in Seq(Data)
        /\ TailOf(u) \in Seq(Unit)
    BY <1>1 DEF WellFormed
  <1>3. /\ Len(HeadOf(u)) \in Nat /\ Len(BodyOf(u)) \in Nat
        /\ Len(TailOf(u)) \in Nat
    BY <1>2
  <1> QED
    BY <1>2, <1>3 DEF Size

(* A unit is of the head, the body or the tail, by its place.                    *)
LEMMA UnitKinds ==
    ASSUME NEW u \in Urls, NEW n \in 1 .. Size(u)
    PROVE  LET first == Len(HeadOf(u))
               x == UnitOf(u, n)
           IN  /\ n <= first => x = HeadOf(u)[n] /\ x \in Unit
               /\ n > first /\ n <= first + Len(BodyOf(u)) =>
                     /\ x = [cb |-> "body", text |-> <<BodyOf(u)[n - first]>>]
                     /\ BodyOf(u)[n - first] \in Data
               /\ n > first + Len(BodyOf(u)) => x \in Unit
  <1> DEFINE first == Len(HeadOf(u))
  <1>1. /\ HeadOf(u) \in Seq(Unit) /\ BodyOf(u) \in Seq(Data) /\ TailOf(u) \in Seq(Unit)
        /\ first \in Nat /\ Len(BodyOf(u)) \in Nat /\ Len(TailOf(u)) \in Nat
        /\ Size(u) = first + Len(BodyOf(u)) + Len(TailOf(u))
    BY AnswerType DEF Size
  <1>2. CASE n <= first
    <2>1. UnitOf(u, n) = HeadOf(u)[n]
      BY <1>1, <1>2 DEF UnitOf
    <2>2. HeadOf(u)[n] \in Unit
      BY <1>1, <1>2
    <2> QED BY <1>1, <1>2, <2>1, <2>2
  <1>3. CASE n > first /\ n <= first + Len(BodyOf(u))
    <2>1. UnitOf(u, n) = [cb |-> "body", text |-> <<BodyOf(u)[n - first]>>]
      BY <1>1, <1>3 DEF UnitOf
    <2>2. BodyOf(u)[n - first] \in Data
      BY <1>1, <1>3
    <2> QED BY <1>1, <1>3, <2>1, <2>2
  <1>4. CASE n > first + Len(BodyOf(u))
    <2>1. UnitOf(u, n) = TailOf(u)[n - first - Len(BodyOf(u))]
      BY <1>1, <1>4 DEF UnitOf
    <2>2. n - first - Len(BodyOf(u)) \in 1 .. Len(TailOf(u))
      BY <1>1, <1>4
    <2>3. TailOf(u)[n - first - Len(BodyOf(u))] \in Unit
      BY <1>1, <2>2
    <2> QED BY <1>1, <1>4, <2>1, <2>3
  <1> QED BY <1>1, <1>2, <1>3, <1>4

LEMMA BodyUnit ==
    ASSUME NEW u \in Urls, NEW n \in 1 .. Size(u)
    PROVE  /\ UnitOf(u, n).cb = "body" <=>
                 n > Len(HeadOf(u)) /\ n <= Len(HeadOf(u)) + Len(BodyOf(u))
           /\ UnitOf(u, n).cb # "body" => UnitOf(u, n) \in Unit
  <1>1. \A x \in Unit : x.cb # "body"
    BY DEF Unit
  <1> QED BY <1>1, UnitKinds, AnswerType

(* What WellFormed says of each unit.                                            *)
LEMMA UnitWellFormed ==
    ASSUME NEW u \in Urls, NEW n \in 1 .. Size(u)
    PROVE  /\ n = 1 => MayBegin(UnitOf(u, n))
           /\ n > 1 => MayFollow(UnitOf(u, n - 1), UnitOf(u, n))
           /\ UnitOf(u, n).cb = "headers_complete" => n = Len(HeadOf(u))
           /\ \A value : Names(u, n, "Location", value) => value \in Urls
           /\ \A value : Names(u, n, "Content-Length", value) =>
                 value \in DOMAIN Number /\ Number[value] = Len(BodyOf(u))
  <1>1. WellFormed(u) /\ Size(u) \in Nat
    BY HttpAssumption, AnswerType
  <1>2. n > 1 => n \in 2 .. Size(u)
    BY <1>1
  <1>3. \A name, value : Names(u, n, name, value) => value = UnitOf(u, n).text[1].of
    BY DEF Names
  <1> QED BY <1>1, <1>2, <1>3 DEF WellFormed

(* The text of a piece of a header.                                              *)
LEMMA PieceOfHeader ==
    ASSUME NEW u \in Urls, NEW n \in 1 .. Size(u),
           UnitOf(u, n).cb \in {"field", "value"}
    PROVE  /\ UnitOf(u, n).text \in Seq(Piece)
           /\ UnitOf(u, n).cb = "field" => UnitOf(u, n).text # << >>
           /\ UnitOf(u, n).text # << >> =>
                 /\ UnitOf(u, n).text = <<UnitOf(u, n).text[1]>>
                 /\ UnitOf(u, n).text[1] \in Piece
                 /\ UnitOf(u, n).text[1].i \in 1 .. UnitOf(u, n).text[1].k
  <1> DEFINE x == UnitOf(u, n)
  <1>1. x \in Unit
    BY BodyUnit
  <1>2. x.text \in Seq(Piece)
    BY <1>1 DEF Unit
  <1>3. /\ Len(x.text) = 1 \/ (Len(x.text) = 0 /\ x.cb # "field")
        /\ x.text # << >> => x.text[1].i \in 1 .. x.text[1].k
    BY HttpAssumption DEF WellFormed
  <1>4. Len(x.text) = 0 <=> x.text = << >>
    BY <1>2
  <1>5. Len(x.text) = 1 => x.text = <<x.text[1]>> /\ x.text[1] \in Piece
    BY <1>2
  <1> QED BY <1>2, <1>3, <1>4, <1>5

(* A sequence with one more element.                                             *)
LEMMA AppendLast ==
    ASSUME NEW S, NEW s \in Seq(S), NEW q \in S
    PROVE  /\ s \o <<q>> \in Seq(S) /\ s \o <<q>> # << >>
           /\ Len(s \o <<q>>) = Len(s) + 1 /\ (s \o <<q>>)[Len(s) + 1] = q
           /\ \A i \in 1 .. Len(s) : (s \o <<q>>)[i] = s[i]
  BY AppendProperties, AppendIsConcat

LEMMA LastOfLonger ==
    ASSUME NEW S, NEW s \in Seq(S), NEW t \in Seq(S), Len(t) = Len(s) + 1,
           \A i \in 1 .. Len(s) : t[i] = s[i]
    PROVE  t = s \o <<t[Len(s) + 1]>>
  <1>1. PICK n \in Nat : n = Len(s)
    OBVIOUS
  <1>2. PICK q \in S : q = t[n + 1]
    BY <1>1
  <1>3. /\ s \o <<q>> \in Seq(S) /\ Len(s \o <<q>>) = n + 1 /\ (s \o <<q>>)[n + 1] = q
        /\ \A i \in 1 .. n : (s \o <<q>>)[i] = s[i]
    BY <1>1, AppendLast
  <1>4. \A i \in 1 .. n + 1 : (s \o <<q>>)[i] = t[i]
    BY <1>1, <1>2, <1>3
  <1>5. s \o <<q>> = t
    BY <1>1, <1>3, <1>4, SeqEqual
  <1> QED BY <1>1, <1>2, <1>5

(* Pieces of a text, one behind the other.                                       *)
LEMMA UpToType ==
    ASSUME NEW p \in Piece, p.i > 0
    PROVE  /\ UpTo(p) \in Seq(Piece) /\ UpTo(p) # << >>
           /\ Len(UpTo(p)) = p.i /\ UpTo(p)[Len(UpTo(p))] = p
           /\ \A m \in 1 .. p.i : UpTo(p)[m] = [of |-> p.of, i |-> m, k |-> p.k]
  <1>1. p.i \in Nat /\ p = [of |-> p.of, i |-> p.i, k |-> p.k]
    BY DEF Piece
  <1>2. \A m \in Nat : [of |-> p.of, i |-> m, k |-> p.k] \in Piece
    BY DEF Piece
  <1>3. UpTo(p) \in Seq(Piece) /\ Len(UpTo(p)) = p.i
    BY <1>1, <1>2 DEF UpTo
  <1>4. ASSUME NEW n \in Nat, n = p.i
        PROVE  \A m \in 1 .. n : UpTo(p)[m] = [of |-> p.of, i |-> m, k |-> p.k]
    BY <1>4 DEF UpTo
  <1>5. \A m \in 1 .. p.i : UpTo(p)[m] = [of |-> p.of, i |-> m, k |-> p.k]
    BY <1>1, <1>4
  <1>6. UpTo(p)[p.i] = p
    BY <1>1, <1>5
  <1> QED BY <1>1, <1>3, <1>5, <1>6

LEMMA UpToFirst ==
    ASSUME NEW p \in Piece, p.i = 1
    PROVE  UpTo(p) = <<p>>
  <1>1. p = [of |-> p.of, i |-> 1, k |-> p.k]
    BY DEF Piece
  <1> QED BY <1>1 DEF UpTo

LEMMA UpToNext ==
    ASSUME NEW p \in Piece, NEW q \in Piece, p.i > 0, q = [p EXCEPT !.i = @ + 1]
    PROVE  UpTo(p) \o <<q>> = UpTo(q)
  <1>1. PICK n \in Nat : n = p.i
    BY DEF Piece
  <1>2. q.i = n + 1 /\ q.of = p.of /\ q.k = p.k /\ n > 0
    BY <1>1 DEF Piece
  <1>3. UpTo(p) \in Seq(Piece) /\ Len(UpTo(p)) = n
    BY <1>1, UpToType
  <1>4. UpTo(q) \in Seq(Piece) /\ Len(UpTo(q)) = n + 1 /\ UpTo(q)[n + 1] = q
    <2>1. q.i > 0
      BY <1>2
    <2>2. UpTo(q) \in Seq(Piece) /\ Len(UpTo(q)) = q.i /\ UpTo(q)[Len(UpTo(q))] = q
      BY <2>1, UpToType
    <2> QED BY <1>2, <2>2
  <1>5. \A m \in 1 .. n : UpTo(q)[m] = UpTo(p)[m]
    <2> TAKE m \in 1 .. n
    <2>1. UpTo(p)[m] = [of |-> p.of, i |-> m, k |-> p.k]
      BY <1>1, <1>2, UpToType
    <2>2. m \in 1 .. q.i /\ q.i > 0
      BY <1>2
    <2>3. UpTo(q)[m] = [of |-> q.of, i |-> m, k |-> q.k]
      BY <2>2, UpToType
    <2> QED BY <1>2, <2>1, <2>3
  <1>6. UpTo(q) = UpTo(p) \o <<UpTo(q)[n + 1]>>
    BY <1>3, <1>4, <1>5, LastOfLonger
  <1> QED BY <1>4, <1>6

LEMMA UpToLast ==
    ASSUME NEW p \in Piece, p.i > 0, p.i = p.k
    PROVE  UpTo(p) = Pieces(p.of, p.k)
  BY DEF UpTo, Pieces

LEMMA TextOfPieces ==
    ASSUME NEW s \in Seq(Piece), NEW text, IsText(s, text)
    PROVE  s[Len(s)].of = text /\ s[Len(s)].k = s[Len(s)].i
  <1>1. Len(s) \in Nat /\ Len(s) > 0
    BY DEF IsText
  <1>2. s[Len(s)] = Pieces(text, Len(s))[Len(s)]
    BY DEF IsText
  <1> QED BY <1>1, <1>2 DEF Pieces

LEMMA PiecesAreText ==
    ASSUME NEW p \in Piece, p.i > 0, p.i = p.k, NEW text
    PROVE  IsText(UpTo(p), text) <=> text = p.of
  <1>1. UpTo(p) \in Seq(Piece) /\ UpTo(p) # << >> /\ Len(UpTo(p)) = p.k /\ UpTo(p)[Len(UpTo(p))] = p
    BY UpToType
  <1>2. ASSUME IsText(UpTo(p), text) PROVE text = p.of
    BY <1>1, <1>2, TextOfPieces
  <1>3. IsText(UpTo(p), p.of)
    BY <1>1, UpToLast DEF IsText
  <1> QED BY <1>2, <1>3

(* A header whose last piece has been gathered, and is not empty.                *)
LEMMA GatheredHeader ==
    ASSUME NEW u \in Urls, NEW n \in 1 .. Size(u), NEW h \in Handle,
           h.parser_statue = "VALUE", StatueInv(u, n, h), TextInv(u, n, h),
           EndsHeader(UnitOf(u, n)), h.header_value # << >>
    PROVE  LET p == UnitOf(u, n).text[1]
           IN  /\ UnitOf(u, n).cb = "value" /\ UnitOf(u, n).text # << >>
               /\ p \in Piece /\ p.i = p.k /\ p.i > 0
               /\ h.header_value = UpTo(p) /\ h.header_value[1].of = p.of
               /\ \A name : IsText(h.header_field, name) => NameOf(u, n) = name
  <1> DEFINE x == UnitOf(u, n)
             p == x.text[1]
  <1>1. x.cb = "value"
    BY DEF StatueInv
  <1>2. x.text # << >> /\ h.header_value = UpTo(p)
    BY DEF TextInv
  <1>3. p \in Piece /\ p.i \in 1 .. p.k
    BY <1>1, <1>2, PieceOfHeader
  <1>4. p.i > 0 /\ p.i = p.k
    BY <1>1, <1>2, <1>3 DEF EndsHeader, IsLast, Piece
  <1>5. UpTo(p)[1].of = p.of
    <2>1. 1 \in 1 .. p.i
      BY <1>3, <1>4 DEF Piece
    <2>2. \A m \in 1 .. p.i : UpTo(p)[m] = [of |-> p.of, i |-> m, k |-> p.k]
      BY <1>3, <1>4, UpToType
    <2>3. UpTo(p)[1] = [of |-> p.of, i |-> 1, k |-> p.k]
      BY <2>1, <2>2
    <2> QED BY <2>3
  <1>6. ASSUME NEW name, IsText(h.header_field, name)
        PROVE  NameOf(u, n) = name
    <2>1. h.header_field \in Seq(Piece)
      BY DEF Handle
    <2>2. h.header_field[Len(h.header_field)].of = name
      BY <1>6, <2>1, TextOfPieces
    <2>3. h.header_field[Len(h.header_field)] = UnitOf(u, NameAt(u, n)).text[1]
      BY DEF TextInv
    <2> QED BY <2>2, <2>3 DEF NameOf
  <1> QED BY <1>1, <1>2, <1>3, <1>4, <1>5, <1>6

(* The units of a value are of one header.                                       *)
LEMMA UnitsOfHeader ==
    ASSUME NEW u \in Urls, NEW n \in 1 .. Size(u), NEW h \in Handle,
           h.parser_statue = "VALUE", TextInv(u, n, h)
    PROVE  /\ NameAt(u, n) \in 1 .. n - 1
           /\ \A m \in NameAt(u, n) + 1 .. n :
                 UnitOf(u, m).cb = "value" /\ NameOf(u, m) = NameOf(u, n)
  BY DEF TextInv, NameOf

(* What parser_field_value leaves alone.                                         *)
SameRest(g, h) ==
    /\ g.fd = h.fd /\ g.body = h.body /\ g.body_len = h.body_len /\ g.bytes = h.bytes
    /\ g.parser_statue = h.parser_statue /\ g.status_ok = h.status_ok
    /\ g.error_code = h.error_code /\ g.exit = h.exit /\ g.download = h.download
    /\ g.pf = h.pf /\ g.filename = h.filename

Redirected(h, to) == [h EXCEPT !.redirect = TRUE, !.redirect_url = to]

ReadTo(h, length) ==
    [h EXCEPT !.header_field = << >>, !.header_value = << >>, !.content_length = length]

LEMMA RedirectedHandle ==
    ASSUME NEW h \in Handle, NEW to \in Urls \cup {None}
    PROVE  /\ Redirected(h, to) \in Handle /\ SameRest(Redirected(h, to), h)
           /\ Redirected(h, to).redirect /\ Redirected(h, to).redirect_url = to
  BY DEF Handle, SameRest, Redirected

LEMMA ReadHandle ==
    ASSUME NEW h \in Handle, NEW length \in Nat
    PROVE  LET g == ReadTo(h, length)
           IN  /\ g \in Handle /\ SameRest(g, h) /\ g.redirect = h.redirect
               /\ g.header_field = << >> /\ g.header_value = << >> /\ g.content_length = length
  <1>1. << >> \in Seq(Piece)
    OBVIOUS
  <1>2. ReadTo(h, length) \in Handle
    BY <1>1 DEF Handle, ReadTo
  <1>3. SameRest(ReadTo(h, length), h)
    BY DEF Handle, SameRest, ReadTo
  <1> QED BY <1>2, <1>3 DEF Handle, ReadTo

(* At the end of a header it is one of these: redirected to where the header     *)
(* says, or read, content_length being what the header says.                     *)
LEMMA FieldValueReads ==
    ASSUME NEW u \in Urls, NEW n \in 1 .. Size(u), NEW h \in Handle,
           h.parser_statue = "VALUE", StatueInv(u, n, h), TextInv(u, n, h),
           EndsHeader(UnitOf(u, n)), ~ h.redirect,
           h.content_length \in {0, Len(BodyOf(u))}
    PROVE  LET g == FieldValue(h)
           IN  /\ g \in Handle /\ SameRest(g, h)
               /\ g.redirect => Names(u, n, "Location", g.redirect_url)
               /\ ~ g.redirect =>
                     /\ g.header_value = << >>
                     /\ g.header_field = IF h.header_value = << >> THEN h.header_field ELSE << >>
                     /\ g.content_length \in {0, Len(BodyOf(u))}
  <1> DEFINE g == FieldValue(h)
             p == UnitOf(u, n).text[1]
  <1>1. h.header_field # << >> /\ Len(BodyOf(u)) \in Nat
    BY AnswerType DEF TextInv
  <1>2. CASE h.header_value = << >>
    <2>1. g = h
      BY <1>2 DEF FieldValue
    <2> QED BY <1>2, <2>1 DEF SameRest
  <1>3. CASE h.header_value # << >> /\ IsText(h.header_field, "Location")
    <2>1. /\ UnitOf(u, n).cb = "value" /\ UnitOf(u, n).text # << >>
          /\ p \in Piece /\ p.i = p.k /\ p.i > 0
          /\ h.header_value = UpTo(p) /\ h.header_value[1].of = p.of
          /\ NameOf(u, n) = "Location"
      BY <1>3, GatheredHeader
    <2>2. IsText(h.header_value, h.header_value[1].of)
      BY <2>1, PiecesAreText
    <2>3. g = Redirected(h, p.of)
      BY <1>1, <1>3, <2>1, <2>2 DEF FieldValue, Redirected
    <2>4. Names(u, n, "Location", p.of)
      BY <2>1 DEF Names
    <2>5. p.of \in Urls
      BY <2>4, UnitWellFormed
    <2> HIDE DEF g, p
    <2>6. g \in Handle /\ SameRest(g, h) /\ g.redirect /\ g.redirect_url = p.of
      BY <2>3, <2>5, RedirectedHandle
    <2> QED BY <2>4, <2>6 DEF g
  <1>4. CASE h.header_value # << >> /\ ~ IsText(h.header_field, "Location")
    <2>1. /\ UnitOf(u, n).cb = "value" /\ UnitOf(u, n).text # << >>
          /\ h.header_value[1].of = p.of
          /\ IsText(h.header_field, "Content-Length") => NameOf(u, n) = "Content-Length"
      BY <1>4, GatheredHeader
    <2> DEFINE length == IF IsText(h.header_field, "Content-Length") THEN Number[p.of]
                         ELSE h.content_length
    <2>2. length \in {0, Len(BodyOf(u))}
      <3>1. CASE IsText(h.header_field, "Content-Length")
        <4>1. Names(u, n, "Content-Length", p.of)
          BY <2>1, <3>1 DEF Names
        <4> QED BY <3>1, <4>1, UnitWellFormed
      <3> QED BY <3>1
    <2>3. g = ReadTo(h, length)
      BY <1>1, <1>4, <2>1 DEF FieldValue, ReadTo
    <2> HIDE DEF g, length
    <2>4. length \in Nat
      BY <1>1, <2>2
    <2>5. /\ g \in Handle /\ SameRest(g, h) /\ g.redirect = h.redirect
          /\ g.header_field = << >> /\ g.header_value = << >> /\ g.content_length = length
      BY <2>3, <2>4, ReadHandle
    <2> QED BY <1>4, <2>2, <2>5 DEF g
  <1> QED BY <1>2, <1>3, <1>4

(* Without empty values, no header is passed over.                               *)
LEMMA FieldValueSees ==
    ASSUME NEW u \in Urls, NEW n \in 1 .. Len(HeadOf(u)), NEW h \in Handle,
           h.parser_statue = "VALUE", StatueInv(u, n, h), TextInv(u, n, h), SeenInv(u, n, h),
           EndsHeader(UnitOf(u, n)), ~ h.redirect, ~ FieldValue(h).redirect, Whole(u)
    PROVE  h.header_value # << >> /\ \A m \in 1 .. n : Seen(u, m, FieldValue(h))
  <1> DEFINE g == FieldValue(h)
             x == UnitOf(u, n)
             p == x.text[1]
             name == NameAt(u, n)
             q == UnitOf(u, name).text[1]
  <1>1. /\ n \in 1 .. Size(u) /\ n <= Len(HeadOf(u))
        /\ Size(u) \in Nat /\ Len(HeadOf(u)) \in Nat
    BY AnswerType DEF Size
  <1>2. x.cb = "value" /\ x.text # << >>
    BY <1>1 DEF StatueInv, Whole
  <1>3. h.header_value # << >>
    <2>1. p \in Piece /\ p.i \in 1 .. p.k
      BY <1>1, <1>2, PieceOfHeader
    <2>2. UpTo(p) # << >>
      BY <2>1, UpToType DEF Piece
    <2> QED BY <1>2, <2>2 DEF TextInv
  <1>4. /\ name \in 1 .. n - 1
        /\ \A m \in name + 1 .. n : UnitOf(u, m).cb = "value" /\ NameOf(u, m) = NameOf(u, n)
    BY <1>1, UnitsOfHeader
  <1>5. \A text : IsText(h.header_field, text) <=> text = NameOf(u, n)
    <2>1. UnitOf(u, name).cb = "field" /\ IsLast(UnitOf(u, name)) /\ name \in 1 .. Size(u)
      BY <1>1, <1>4 DEF TextInv
    <2>2. q \in Piece /\ q.i \in 1 .. q.k /\ UnitOf(u, name).text # << >>
      BY <2>1, PieceOfHeader
    <2>3. q.i = q.k /\ q.i > 0
      BY <2>1, <2>2 DEF IsLast, Piece
    <2>4. h.header_field = UpTo(q)
      BY <1>1 DEF SeenInv
    <2> HIDE DEF q, name
    <2>5. \A text : IsText(UpTo(q), text) <=> text = q.of
      BY <2>2, <2>3, PiecesAreText
    <2>6. q.of = NameOf(u, n)
      BY DEF q, name, NameOf
    <2> QED BY <2>4, <2>5, <2>6
  <1>6. h.header_value[1].of = p.of
    BY <1>1, <1>3, GatheredHeader
  <1>7. NameOf(u, n) # "Location"
    <2> SUFFICES ASSUME NameOf(u, n) = "Location" PROVE FALSE
      OBVIOUS
    <2>1. IsText(h.header_field, "Location") /\ h.header_field # << >>
      BY <1>5 DEF IsText
    <2> DEFINE to == IF IsText(h.header_value, h.header_value[1].of) THEN h.header_value[1].of ELSE None
    <2>2. g = [h EXCEPT !.redirect = TRUE, !.redirect_url = to]
      BY <1>3, <2>1 DEF FieldValue
    <2> HIDE DEF g, to
    <2>3. g.redirect
      BY <2>2 DEF Handle
    <2> QED BY <2>3 DEF g
  <1>8. g.content_length = IF NameOf(u, n) = "Content-Length" THEN Number[p.of] ELSE h.content_length
    <2>1. ~ IsText(h.header_field, "Location")
      BY <1>5, <1>7
    <2>2. IsText(h.header_field, "Content-Length") <=> NameOf(u, n) = "Content-Length"
      BY <1>5
    <2>3. h.header_field # << >>
      BY <1>5 DEF IsText
    <2> DEFINE length == IF NameOf(u, n) = "Content-Length" THEN Number[p.of] ELSE h.content_length
    <2>4. g = [h EXCEPT !.header_field = << >>, !.header_value = << >>, !.content_length = length]
      BY <1>3, <1>6, <2>1, <2>2, <2>3 DEF FieldValue
    <2> HIDE DEF g, length
    <2>5. g.content_length = length
      BY <2>4 DEF Handle
    <2> QED BY <2>5 DEF length
  <1>9. ASSUME NEW m \in 1 .. n, UnitOf(u, m).cb = "value", NameOf(u, m) = "Content-Length"
        PROVE  Number[UnitOf(u, m).text[1].of] = Len(BodyOf(u))
    <2>1. m \in 1 .. Size(u) /\ m \in 1 .. Len(HeadOf(u))
      BY <1>1
    <2>2. UnitOf(u, m).text # << >>
      BY <1>9, <2>1 DEF Whole
    <2>3. Names(u, m, "Content-Length", UnitOf(u, m).text[1].of)
      BY <1>9, <2>2 DEF Names
    <2> QED BY <2>1, <2>3, UnitWellFormed
  <1>10. ASSUME NEW m \in 1 .. n
         PROVE  Seen(u, m, g)
    <2> HIDE DEF g, x, p, name, q
    <2> SUFFICES ASSUME UnitOf(u, m).cb = "value"
                 PROVE  /\ NameOf(u, m) # "Location"
                        /\ NameOf(u, m) = "Content-Length" =>
                              g.content_length = Number[UnitOf(u, m).text[1].of]
      BY DEF Seen
    <2>1. m \in 1 .. name \/ m \in name + 1 .. n
      BY <1>4
    <2>2. NameOf(u, n) = "Content-Length" => g.content_length = Len(BodyOf(u))
      BY <1>2, <1>8, <1>9 DEF p, x
    <2>3. CASE m \in 1 .. name
      <3>1. Seen(u, m, h)
        BY <1>1, <2>3 DEF SeenInv, name
      <3>2. /\ NameOf(u, m) # "Location"
            /\ NameOf(u, m) = "Content-Length" =>
                  h.content_length = Number[UnitOf(u, m).text[1].of]
        BY <3>1 DEF Seen
      <3> QED BY <1>8, <1>9, <2>2, <3>2
    <2>4. CASE m \in name + 1 .. n
      <3>1. NameOf(u, m) = NameOf(u, n)
        BY <1>4, <2>4
      <3> QED BY <1>7, <1>9, <2>2, <3>1
    <2> QED BY <2>1, <2>3, <2>4
  <1> QED BY <1>3, <1>10

--------------------------------------------------------------------------
(* What one callback does to the handle.                                         *)

(* Behind the headers: none was passed over.                                     *)
BodySeen(u, h) == h.parser_statue = "BODY" /\ Whole(u) =>
                     \A n \in 1 .. Len(HeadOf(u)) : Seen(u, n, h)

(* What the callbacks start from.                                                *)
Parsable(u, n, h) ==
    /\ u \in Urls /\ n \in Nat /\ n < Size(u) /\ h \in Handle /\ h.body_len = Len(h.bytes)
    /\ ParserInv(u, n, h) /\ BodySeen(u, h) /\ ~ h.redirect

(* What no callback touches.                                                     *)
SameCall(g, h) ==
    /\ g.fd = h.fd /\ g.error_code = h.error_code /\ g.exit = h.exit
    /\ g.download = h.download /\ g.filename = h.filename

(* What they lead to: the next unit parsed, or the place the answer points to.   *)
Called(u, n, h, g) ==
    /\ g \in Handle /\ g.body_len = Len(g.bytes) /\ SameCall(g, h)
    /\ g.redirect => /\ g.parser_statue # "BODY" /\ g.body = h.body
                     /\ g.body_len = h.body_len /\ g.bytes = h.bytes
                     /\ n > 0 /\ Names(u, n, "Location", g.redirect_url)
    /\ ~ g.redirect => ParserInv(u, n + 1, g) /\ BodySeen(u, g)

LEMMA NextUnit ==
    ASSUME NEW u \in Urls, NEW n \in Nat, n < Size(u)
    PROVE  /\ n + 1 \in 1 .. Size(u) /\ Size(u) \in Nat
           /\ n = 0 => MayBegin(UnitOf(u, n + 1))
           /\ n > 0 => n \in 1 .. Size(u) /\ MayFollow(UnitOf(u, n), UnitOf(u, n + 1))
  <1>1. Size(u) \in Nat
    BY AnswerType
  <1>2. n + 1 \in 1 .. Size(u) /\ (n + 1) - 1 = n
    BY <1>1
  <1>3. n > 0 => n \in 1 .. Size(u)
    BY <1>1
  <1> DEFINE x == UnitOf(u, n)
             y == UnitOf(u, n + 1)
  <1> HIDE DEF x, y
  <1>4. n + 1 > 1 => MayFollow(UnitOf(u, (n + 1) - 1), UnitOf(u, n + 1))
    BY <1>2, UnitWellFormed
  <1>5. n > 0 => MayFollow(x, y)
    BY <1>2, <1>4 DEF x, y
  <1>6. n = 0 => MayBegin(y)
    BY <1>2, UnitWellFormed DEF y
  <1> QED BY <1>1, <1>2, <1>3, <1>5, <1>6 DEF x, y

(* A unit that is not of the body leaves the body where it is.                   *)
LEMMA PassedSame ==
    ASSUME NEW u \in Urls, NEW n \in Nat, n < Size(u), UnitOf(u, n + 1).cb # "body"
    PROVE  Passed(u, n + 1) = Passed(u, n)
  <1>1. /\ n + 1 \in 1 .. Size(u) /\ Len(HeadOf(u)) \in Nat /\ Len(BodyOf(u)) \in Nat
    BY NextUnit, AnswerType
  <1>2. n + 1 <= Len(HeadOf(u)) \/ n + 1 > Len(HeadOf(u)) + Len(BodyOf(u))
    BY <1>1, BodyUnit
  <1> QED BY <1>1, <1>2 DEF Passed

(* The status line comes first, or not at all.                                   *)
LEMMA StatusKept ==
    ASSUME NEW u \in Urls, NEW n \in Nat, n < Size(u), UnitOf(u, n + 1).cb # "status",
           NEW h, NEW g, StatusInv(u, n, h), g.status_ok = h.status_ok
    PROVE  StatusInv(u, n + 1, g)
  <1>1. CASE n = 0
    <2>1. 1 \in 1 .. Size(u) /\ HeadOf(u) \in Seq(Unit) /\ Len(HeadOf(u)) \in Nat
      BY <1>1, NextUnit, AnswerType
    <2>2. HeadOf(u) # << >> => UnitOf(u, 1) = HeadOf(u)[1]
      BY <2>1, UnitKinds
    <2> QED BY <1>1, <2>2 DEF StatusInv, HasReason
  <1> QED BY <1>1 DEF StatusInv

(* The body is untouched: what of the handle BodyInv is about.                   *)
LEMMA BodyKept ==
    ASSUME NEW u \in Urls, NEW n \in Nat, n < Size(u), UnitOf(u, n + 1).cb # "body",
           NEW h, NEW g, BodyInv(u, n, h),
           g.content_length \in {0, Len(BodyOf(u))}, g.download = h.download,
           g.body = h.body, g.body_len = h.body_len, g.bytes = h.bytes,
           g.parser_statue = "BODY" => n + 1 <= Len(HeadOf(u))
    PROVE  BodyInv(u, n + 1, g)
  <1>1. Passed(u, n + 1) = Passed(u, n)
    BY PassedSame
  <1>2. n + 1 <= Len(HeadOf(u)) => n <= Len(HeadOf(u))
    BY AnswerType
  <1> QED BY <1>1, <1>2 DEF BodyInv

(* The first piece of a name ends the header before; a later one does not.       *)
Ended(h) == IF h.parser_statue = "VALUE" THEN FieldValue(h) ELSE h

LEMMA BeforeName ==
    ASSUME NEW u, NEW n, NEW h, Parsable(u, n, h), UnitOf(u, n + 1).cb = "field"
    PROVE  LET f    == Ended(h)
               text == UnitOf(u, n + 1).text
           IN  /\ f \in Handle /\ SameRest(f, h)
               /\ f.redirect => n > 0 /\ h.parser_statue = "VALUE" /\ Names(u, n, "Location", f.redirect_url)
               /\ ~ f.redirect =>
                     /\ f.header_value = << >> /\ f.content_length \in {0, Len(BodyOf(u))}
                     /\ Whole(u) /\ n + 1 <= Len(HeadOf(u)) =>
                           /\ f.header_field \o text = UpTo(text[1])
                           /\ \A m \in 1 .. n : Seen(u, m, f)
  <1> DEFINE f == Ended(h)
             x == UnitOf(u, n)
             y == UnitOf(u, n + 1)
             q == y.text[1]
  <1>1. /\ u \in Urls /\ n \in Nat /\ n < Size(u) /\ h \in Handle /\ ~ h.redirect
        /\ StatueInv(u, n, h) /\ TextInv(u, n, h) /\ SeenInv(u, n, h) /\ BodyInv(u, n, h)
    BY DEF Parsable, ParserInv
  <1>2. /\ n + 1 \in 1 .. Size(u) /\ Len(HeadOf(u)) \in Nat /\ Size(u) \in Nat
        /\ n = 0 => MayBegin(y)
        /\ n > 0 => n \in 1 .. Size(u) /\ MayFollow(x, y)
    BY <1>1, NextUnit, AnswerType
  <1>3. y.text = <<q>> /\ q \in Piece /\ q.i \in 1 .. q.k
    <2>1. PICK k \in 1 .. Size(u) : k = n + 1
      BY <1>2
    <2>2. UnitOf(u, k).text # << >>
      BY <1>1, <2>1, PieceOfHeader
    <2>3. /\ UnitOf(u, k).text = <<UnitOf(u, k).text[1]>> /\ UnitOf(u, k).text[1] \in Piece
          /\ UnitOf(u, k).text[1].i \in 1 .. UnitOf(u, k).text[1].k
      BY <1>1, <2>1, <2>2, PieceOfHeader
    <2> QED BY <2>1, <2>3
  <1>4. h.content_length \in {0, Len(BodyOf(u))}
    BY <1>1 DEF BodyInv
  <1>5. IsFirst(y) => UpTo(q) = <<q>>
    <2>1. y.text # << >>
      BY <1>3
    <2> QED BY <1>3, <2>1, UpToFirst DEF IsFirst
  <1>6. CASE h.parser_statue \in {"NONE", "BODY"}
    <2>1. f = h /\ h.header_field = << >> /\ h.header_value = << >>
      BY <1>1, <1>6 DEF TextInv, Ended
    <2>2. IsFirst(y)
      BY <1>1, <1>2, <1>6 DEF StatueInv, MayBegin, MayFollow
    <2>3. h.header_field \o y.text = UpTo(q)
      <3>1. << >> \o <<q>> = <<q>>
        BY <1>3
      <3> QED BY <1>3, <1>5, <2>1, <2>2, <3>1
    <2>4. Whole(u) /\ n + 1 <= Len(HeadOf(u)) => \A m \in 1 .. n : Seen(u, m, h)
      BY <1>1, <1>2, <1>6 DEF SeenInv
    <2> QED BY <1>1, <1>4, <2>1, <2>3, <2>4 DEF SameRest
  <1>7. CASE h.parser_statue = "FIELD"
    <2>1. f = h /\ h.header_value = << >> /\ n > 0 /\ x.cb = "field"
      BY <1>1, <1>7 DEF TextInv, StatueInv, Ended
    <2>2. NextPiece(x, y)
      BY <1>2, <2>1 DEF MayFollow, EndsHeader
    <2>3. Whole(u) /\ n + 1 <= Len(HeadOf(u)) =>
             h.header_field = UpTo(x.text[1]) /\ \A m \in 1 .. n : Seen(u, m, h)
      BY <1>1, <1>2, <1>7 DEF SeenInv
    <2>4. UpTo(x.text[1]) \o <<q>> = UpTo(q)
      <3>1. x.text[1] \in Piece /\ x.text[1].i \in 1 .. x.text[1].k
        <4>1. x.text # << >> /\ n \in 1 .. Size(u)
          BY <1>2, <2>1, <2>2 DEF NextPiece
        <4> QED BY <1>1, <2>1, <4>1, PieceOfHeader
      <3>2. q = [x.text[1] EXCEPT !.i = @ + 1]
        BY <2>2 DEF NextPiece
      <3>3. x.text[1].i > 0
        BY <3>1 DEF Piece
      <3> HIDE DEF q, x, y
      <3> QED BY <1>3, <3>1, <3>2, <3>3, UpToNext
    <2> QED BY <1>1, <1>3, <1>4, <2>1, <2>3, <2>4 DEF SameRest
  <1>8. CASE h.parser_statue = "VALUE"
    <2>1. f = FieldValue(h) /\ n > 0 /\ x.cb = "value" /\ n \in 1 .. Size(u)
      BY <1>1, <1>2, <1>8 DEF StatueInv, Ended
    <2>2. EndsHeader(x) /\ IsFirst(y)
      BY <1>2, <2>1 DEF MayFollow, EndsHeader
    <2>3. /\ f \in Handle /\ SameRest(f, h)
          /\ f.redirect => Names(u, n, "Location", f.redirect_url)
          /\ ~ f.redirect =>
                /\ f.header_value = << >>
                /\ f.header_field = IF h.header_value = << >> THEN h.header_field ELSE << >>
                /\ f.content_length \in {0, Len(BodyOf(u))}
      BY <1>1, <1>4, <1>8, <2>1, <2>2, FieldValueReads
    <2>4. ASSUME ~ f.redirect, Whole(u), n + 1 <= Len(HeadOf(u))
          PROVE  f.header_field \o y.text = UpTo(q) /\ \A m \in 1 .. n : Seen(u, m, f)
      <3>1. n \in 1 .. Len(HeadOf(u))
        BY <1>2, <2>1, <2>4
      <3>2. h.header_value # << >> /\ \A m \in 1 .. n : Seen(u, m, f)
        BY <1>1, <1>8, <2>1, <2>2, <2>4, <3>1, FieldValueSees
      <3>3. << >> \o <<q>> = <<q>>
        BY <1>3
      <3> HIDE DEF f
      <3> QED BY <1>3, <1>5, <2>2, <2>3, <2>4, <3>2, <3>3
    <2> HIDE DEF f
    <2> QED BY <1>8, <2>1, <2>3, <2>4 DEF f
  <1> QED BY <1>1, <1>6, <1>7, <1>8 DEF Handle
InField(f, text) == [f EXCEPT !.parser_statue = "FIELD", !.header_field = @ \o text]

LEMMA FieldHandle ==
    ASSUME NEW f \in Handle, NEW q \in Piece
    PROVE  LET g == InField(f, <<q>>)
           IN  /\ g \in Handle /\ SameCall(g, f) /\ g.redirect = f.redirect
               /\ g.parser_statue = "FIELD" /\ g.header_value = f.header_value
               /\ g.header_field = f.header_field \o <<q>>
               /\ g.header_field # << >> /\ g.header_field[Len(g.header_field)] = q
               /\ g.content_length = f.content_length /\ g.status_ok = f.status_ok
               /\ g.body = f.body /\ g.body_len = f.body_len /\ g.bytes = f.bytes
  <1>1. PICK s \in Seq(Piece) : s = f.header_field
    BY DEF Handle
  <1>2. PICK t \in Seq(Piece) : t = s \o <<q>> /\ t # << >> /\ t[Len(t)] = q
    <2>1. /\ s \o <<q>> \in Seq(Piece) /\ s \o <<q>> # << >>
          /\ Len(s \o <<q>>) = Len(s) + 1 /\ (s \o <<q>>)[Len(s) + 1] = q
      BY AppendLast
    <2> QED BY <2>1
  <1>3. InField(f, <<q>>) = [f EXCEPT !.parser_statue = "FIELD", !.header_field = t]
    BY <1>1, <1>2 DEF InField
  <1>4. InField(f, <<q>>) \in Handle
    BY <1>3 DEF Handle
  <1> QED BY <1>1, <1>2, <1>3, <1>4 DEF Handle, SameCall

LEMMA SeenByMore ==
    ASSUME NEW u, NEW m, NEW h, NEW g, Seen(u, m, h), g.content_length = h.content_length
    PROVE  Seen(u, m, g)
  BY DEF Seen

LEMMA CallsOnField ==
    ASSUME NEW u, NEW n, NEW h, Parsable(u, n, h), UnitOf(u, n + 1).cb = "field"
    PROVE  Called(u, n, h, WithField(h, UnitOf(u, n + 1).text))
  <1> DEFINE y == UnitOf(u, n + 1)
             q == y.text[1]
  <1>1. /\ u \in Urls /\ n \in Nat /\ n < Size(u) /\ h \in Handle /\ ~ h.redirect
        /\ h.body_len = Len(h.bytes)
        /\ StatueInv(u, n, h) /\ BodyInv(u, n, h) /\ StatusInv(u, n, h)
    BY DEF Parsable, ParserInv
  <1>2. PICK f : f = Ended(h)
    OBVIOUS
  <1>3. /\ f \in Handle /\ SameRest(f, h)
        /\ f.redirect => n > 0 /\ h.parser_statue = "VALUE" /\ Names(u, n, "Location", f.redirect_url)
        /\ ~ f.redirect =>
              /\ f.header_value = << >> /\ f.content_length \in {0, Len(BodyOf(u))}
              /\ Whole(u) /\ n + 1 <= Len(HeadOf(u)) =>
                    /\ f.header_field \o y.text = UpTo(q)
                    /\ \A m \in 1 .. n : Seen(u, m, f)
    BY <1>2, BeforeName
  <1>4. CASE f.redirect
    <2>1. WithField(h, y.text) = f
      BY <1>2, <1>4 DEF WithField, Ended
    <2>2. Called(u, n, h, f)
      BY <1>1, <1>3, <1>4 DEF Called, SameRest, SameCall
    <2> QED BY <2>1, <2>2
  <1>5. CASE ~ f.redirect
    <2>1. y.text = <<q>> /\ q \in Piece
      <3>1. n + 1 \in 1 .. Size(u)
        BY <1>1, NextUnit
      <3>2. PICK k \in 1 .. Size(u) : k = n + 1
        BY <3>1
      <3>3. UnitOf(u, k).text # << >>
        BY <1>1, <3>2, PieceOfHeader
      <3>4. UnitOf(u, k).text = <<UnitOf(u, k).text[1]>> /\ UnitOf(u, k).text[1] \in Piece
        BY <1>1, <3>2, <3>3, PieceOfHeader
      <3> QED BY <3>2, <3>4
    <2>2. WithField(h, y.text) = InField(f, <<q>>)
      BY <1>2, <1>5, <2>1 DEF WithField, Ended, InField
    <2>3. PICK g : g = InField(f, <<q>>)
      OBVIOUS
    <2>4. /\ g \in Handle /\ SameCall(g, f) /\ g.redirect = f.redirect
          /\ g.parser_statue = "FIELD" /\ g.header_value = f.header_value
          /\ g.header_field = f.header_field \o <<q>>
          /\ g.header_field # << >> /\ g.header_field[Len(g.header_field)] = q
          /\ g.content_length = f.content_length /\ g.status_ok = f.status_ok
          /\ g.body = f.body /\ g.body_len = f.body_len /\ g.bytes = f.bytes
      BY <1>3, <2>1, <2>3, FieldHandle
    <2> HIDE DEF q
    <2>5. StatueInv(u, n + 1, g)
      BY <1>1, <2>4 DEF StatueInv
    <2>6. TextInv(u, n + 1, g)
      BY <1>3, <1>5, <2>4 DEF TextInv, q
    <2>7. SeenInv(u, n + 1, g)
      <3> SUFFICES ASSUME Whole(u), n + 1 <= Len(HeadOf(u))
                   PROVE  /\ g.header_field = UpTo(q)
                          /\ \A m \in 1 .. n + 1 : Seen(u, m, g)
        BY <2>4 DEF SeenInv, q
      <3>1. f.header_field \o y.text = UpTo(q) /\ \A m \in 1 .. n : Seen(u, m, f)
        BY <1>3, <1>5
      <3>2. \A m \in 1 .. n : Seen(u, m, g)
        BY <2>4, <3>1, SeenByMore
      <3>3. Seen(u, n + 1, g)
        BY DEF Seen
      <3>4. \A m \in 1 .. n + 1 : m \in 1 .. n \/ m = n + 1
        BY <1>1
      <3> QED BY <2>1, <2>4, <3>1, <3>2, <3>3, <3>4
    <2>8. BodyInv(u, n + 1, g)
      BY <1>1, <1>3, <1>5, <2>4, BodyKept DEF SameRest, SameCall
    <2>9. StatusInv(u, n + 1, g)
      BY <1>1, <1>3, <2>4, StatusKept DEF SameRest
    <2>10. g.body_len = Len(g.bytes) /\ SameCall(g, h) /\ BodySeen(u, g) /\ ~ g.redirect
      BY <1>1, <1>3, <1>5, <2>4 DEF SameRest, SameCall, BodySeen
    <2>11. Called(u, n, h, g)
      BY <2>4, <2>5, <2>6, <2>7, <2>8, <2>9, <2>10 DEF Called, ParserInv
    <2> QED BY <2>2, <2>3, <2>11
  <1> QED BY <1>4, <1>5
(* The value of a header: from its first piece to its last.                      *)
InValue(h, text) == [h EXCEPT !.parser_statue = "VALUE", !.header_value = @ \o text]

LEMMA ValueHandle ==
    ASSUME NEW h \in Handle, NEW text \in Seq(Piece)
    PROVE  LET g == InValue(h, text)
           IN  /\ g \in Handle /\ SameCall(g, h) /\ g.redirect = h.redirect
               /\ g.parser_statue = "VALUE" /\ g.header_field = h.header_field
               /\ g.header_value = h.header_value \o text
               /\ g.content_length = h.content_length /\ g.status_ok = h.status_ok
               /\ g.body = h.body /\ g.body_len = h.body_len /\ g.bytes = h.bytes
  <1>1. PICK t \in Seq(Piece) : t = h.header_value \o text
    <2>1. h.header_value \in Seq(Piece)
      BY DEF Handle
    <2>2. h.header_value \o text \in Seq(Piece)
      BY <2>1, ConcatProperties
    <2> QED BY <2>2
  <1>2. InValue(h, text) = [h EXCEPT !.parser_statue = "VALUE", !.header_value = t]
    BY <1>1 DEF InValue
  <1>3. InValue(h, text) \in Handle
    BY <1>2 DEF Handle
  <1> QED BY <1>1, <1>2, <1>3 DEF Handle, SameCall

(* Where the name of a value is: a first piece stands right behind it.           *)
LEMMA NameOfValue ==
    ASSUME NEW u, NEW n, NEW h, Parsable(u, n, h), UnitOf(u, n + 1).cb = "value"
    PROVE  LET y == UnitOf(u, n + 1)
               x == UnitOf(u, n)
           IN  /\ n \in 1 .. Size(u) /\ n + 1 \in 1 .. Size(u) /\ y.text \in Seq(Piece)
               /\ \/ /\ h.parser_statue = "FIELD" /\ x.cb = "field" /\ IsLast(x)
                     /\ NameAt(u, n + 1) = n
                     /\ y.text = IF y.text = << >> THEN << >> ELSE UpTo(y.text[1])
                  \/ /\ h.parser_statue = "VALUE" /\ x.cb = "value"
                     /\ NameAt(u, n + 1) = NameAt(u, n)
                     /\ x.text # << >> /\ y.text # << >>
                     /\ UpTo(x.text[1]) \o y.text = UpTo(y.text[1])
  <1> DEFINE x == UnitOf(u, n)
             y == UnitOf(u, n + 1)
             q == y.text[1]
  <1>1. u \in Urls /\ n \in Nat /\ n < Size(u) /\ StatueInv(u, n, h) /\ h \in Handle
    BY DEF Parsable, ParserInv
  <1>2. /\ n > 0 /\ n \in 1 .. Size(u) /\ n + 1 \in 1 .. Size(u) /\ MayFollow(x, y)
    BY <1>1, NextUnit DEF MayBegin
  <1>3. /\ y.text \in Seq(Piece)
        /\ y.text # << >> => y.text = <<q>> /\ q \in Piece /\ q.i \in 1 .. q.k
    <2>1. PICK k \in 1 .. Size(u) : k = n + 1
      BY <1>2
    <2>2. UnitOf(u, k).cb \in {"field", "value"}
      BY <2>1
    <2>3. /\ UnitOf(u, k).text \in Seq(Piece)
          /\ UnitOf(u, k).text # << >> =>
                /\ UnitOf(u, k).text = <<UnitOf(u, k).text[1]>> /\ UnitOf(u, k).text[1] \in Piece
                /\ UnitOf(u, k).text[1].i \in 1 .. UnitOf(u, k).text[1].k
      BY <1>1, <2>2, PieceOfHeader
    <2> QED BY <2>1, <2>3
  <1>4. CASE x.cb = "field"
    <2>1. IsFirst(y) /\ IsLast(x)
      BY <1>2, <1>4 DEF MayFollow, EndsHeader
    <2>2. h.parser_statue = "FIELD"
      BY <1>1, <1>2, <1>4 DEF StatueInv, Handle
    <2>3. y.text # << >> => q.i = 1 /\ y.text = UpTo(q)
      BY <1>3, <2>1, UpToFirst DEF IsFirst
    <2>4. NameAt(u, n + 1) = n
      BY <1>1, <1>3, <2>3 DEF NameAt
    <2> QED BY <1>2, <1>3, <1>4, <2>1, <2>2, <2>3, <2>4
  <1>5. CASE x.cb # "field"
    <2>1. x.cb = "value" /\ NextPiece(x, y)
      BY <1>2, <1>5 DEF MayFollow
    <2>2. h.parser_statue = "VALUE"
      BY <1>1, <1>2, <2>1 DEF StatueInv, Handle
    <2>3. PICK p \in Piece : p = x.text[1] /\ p.i \in 1 .. p.k /\ x.text # << >>
      BY <1>1, <1>2, <2>1, PieceOfHeader DEF NextPiece
    <2>4. q = [p EXCEPT !.i = @ + 1] /\ y.text # << >>
      BY <2>1, <2>3 DEF NextPiece
    <2>5. y.text = <<q>> /\ q \in Piece
      BY <1>3, <2>4
    <2>6. p.i \in Nat /\ p.i > 0 /\ q.i = p.i + 1
      BY <2>3, <2>4 DEF Piece
    <2>7. NameAt(u, n + 1) = NameAt(u, n)
      BY <1>1, <2>3, <2>4, <2>6 DEF NameAt
    <2>8. UpTo(p) \o <<q>> = UpTo(q)
      <3> HIDE DEF q
      <3> QED BY <2>4, <2>5, <2>6, UpToNext
    <2> QED BY <1>2, <1>3, <2>1, <2>2, <2>3, <2>4, <2>5, <2>7, <2>8
  <1> QED BY <1>4, <1>5
LEMMA CallsOnValue ==
    ASSUME NEW u, NEW n, NEW h, Parsable(u, n, h), UnitOf(u, n + 1).cb = "value"
    PROVE  Called(u, n, h, WithValue(h, UnitOf(u, n + 1).text))
  <1> DEFINE x == UnitOf(u, n)
             y == UnitOf(u, n + 1)
             q == y.text[1]
             First == /\ h.parser_statue = "FIELD" /\ x.cb = "field" /\ IsLast(x)
                      /\ NameAt(u, n + 1) = n
                      /\ y.text = IF y.text = << >> THEN << >> ELSE UpTo(q)
             Later == /\ h.parser_statue = "VALUE" /\ x.cb = "value"
                      /\ NameAt(u, n + 1) = NameAt(u, n)
                      /\ x.text # << >> /\ y.text # << >>
                      /\ UpTo(x.text[1]) \o y.text = UpTo(q)
  <1>1. /\ u \in Urls /\ n \in Nat /\ n < Size(u) /\ h \in Handle /\ ~ h.redirect
        /\ h.body_len = Len(h.bytes) /\ TextInv(u, n, h) /\ SeenInv(u, n, h)
        /\ StatueInv(u, n, h) /\ BodyInv(u, n, h) /\ StatusInv(u, n, h)
    BY DEF Parsable, ParserInv
  <1>2. /\ n \in 1 .. Size(u) /\ n + 1 \in 1 .. Size(u) /\ y.text \in Seq(Piece)
        /\ First \/ Later
    BY NameOfValue
  <1>3. WithValue(h, y.text) = InValue(h, y.text)
    BY <1>2 DEF WithValue, InValue
  <1>4. PICK g : g = InValue(h, y.text)
    OBVIOUS
  <1>5. /\ g \in Handle /\ SameCall(g, h) /\ g.redirect = h.redirect
        /\ g.parser_statue = "VALUE" /\ g.header_field = h.header_field
        /\ g.header_value = h.header_value \o y.text
        /\ g.content_length = h.content_length /\ g.status_ok = h.status_ok
        /\ g.body = h.body /\ g.body_len = h.body_len /\ g.bytes = h.bytes
    BY <1>1, <1>2, <1>4, ValueHandle
  <1>6. StatueInv(u, n + 1, g)
    BY <1>1, <1>5 DEF StatueInv
  <1>7. TextInv(u, n + 1, g)
    <2> DEFINE name == NameAt(u, n + 1)
    <2> SUFFICES /\ h.header_field # << >> /\ name \in 1 .. (n + 1) - 1
                 /\ h.header_field[Len(h.header_field)] = UnitOf(u, name).text[1]
                 /\ UnitOf(u, name).cb = "field" /\ IsLast(UnitOf(u, name))
                 /\ g.header_value = IF y.text = << >> THEN << >> ELSE UpTo(q)
                 /\ \A m \in name + 1 .. n + 1 : UnitOf(u, m).cb = "value" /\ NameAt(u, m) = name
      BY <1>5 DEF TextInv
    <2>1. CASE First
      <3>1. /\ h.header_field # << >> /\ h.header_value = << >>
            /\ h.header_field[Len(h.header_field)] = x.text[1]
        BY <1>1, <2>1 DEF TextInv
      <3>2. g.header_value = y.text
        <4>1. << >> \o y.text = y.text
          BY <1>2, ConcatEmptySeq
        <4> QED BY <1>5, <3>1, <4>1
      <3>3. ASSUME NEW m \in n + 1 .. n + 1
            PROVE  UnitOf(u, m).cb = "value" /\ NameAt(u, m) = n
        <4>1. m = n + 1
          BY <1>1
        <4> QED BY <2>1, <4>1
      <3>4. name = n /\ n \in 1 .. (n + 1) - 1
        BY <1>1, <1>2, <2>1
      <3> QED BY <2>1, <3>1, <3>2, <3>3, <3>4
    <2>2. CASE Later
      <3>1. /\ h.header_field # << >> /\ NameAt(u, n) \in 1 .. n - 1
            /\ h.header_field[Len(h.header_field)] = UnitOf(u, NameAt(u, n)).text[1]
            /\ UnitOf(u, NameAt(u, n)).cb = "field" /\ IsLast(UnitOf(u, NameAt(u, n)))
            /\ h.header_value = UpTo(x.text[1])
            /\ \A m \in NameAt(u, n) + 1 .. n : UnitOf(u, m).cb = "value" /\ NameAt(u, m) = NameAt(u, n)
        BY <1>1, <2>2 DEF TextInv
      <3>2. g.header_value = UpTo(q)
        BY <1>5, <2>2, <3>1
      <3>3. name = NameAt(u, n) /\ name \in 1 .. n - 1 /\ name \in 1 .. (n + 1) - 1
        BY <1>1, <2>2, <3>1
      <3>4. ASSUME NEW m \in name + 1 .. n + 1
            PROVE  UnitOf(u, m).cb = "value" /\ NameAt(u, m) = name
        <4> HIDE DEF name
        <4>1. CASE m = n + 1
          BY <4>1 DEF name
        <4>2. CASE m # n + 1
          <5>1. m \in name + 1 .. n
            BY <1>1, <3>3, <4>2
          <5> QED BY <3>1, <3>3, <5>1
        <4> QED BY <4>1, <4>2
      <3> HIDE DEF name
      <3> QED BY <2>2, <3>1, <3>2, <3>3, <3>4
    <2> QED BY <1>2, <2>1, <2>2
  <1>8. SeenInv(u, n + 1, g)
    <2> DEFINE name == NameAt(u, n + 1)
    <2> SUFFICES ASSUME Whole(u), n + 1 <= Len(HeadOf(u))
                 PROVE  /\ h.header_field = UpTo(UnitOf(u, name).text[1])
                        /\ \A m \in 1 .. name : Seen(u, m, g)
      BY <1>5 DEF SeenInv
    <2>1. n <= Len(HeadOf(u))
      BY <1>1, AnswerType
    <2>2. /\ h.header_field = UpTo(UnitOf(u, name).text[1])
          /\ \A m \in 1 .. name : Seen(u, m, h)
      <3>1. CASE First
        BY <1>1, <2>1, <3>1 DEF SeenInv
      <3>2. CASE Later
        BY <1>1, <2>1, <3>2 DEF SeenInv
      <3> QED BY <1>2, <3>1, <3>2
    <2> HIDE DEF name
    <2> QED BY <1>5, <2>2, SeenByMore
  <1>9. BodyInv(u, n + 1, g)
    <2>1. h.content_length \in {0, Len(BodyOf(u))}
      BY <1>1 DEF BodyInv
    <2> QED BY <1>1, <1>5, <2>1, BodyKept DEF SameCall
  <1>10. StatusInv(u, n + 1, g)
    BY <1>1, <1>5, StatusKept
  <1>11. g.body_len = Len(g.bytes) /\ BodySeen(u, g) /\ ~ g.redirect
    BY <1>1, <1>5 DEF BodySeen
  <1>12. Called(u, n, h, g)
    BY <1>5, <1>6, <1>7, <1>8, <1>9, <1>10, <1>11 DEF Called, ParserInv
  <1> QED BY <1>3, <1>4, <1>12
InBody(f) == [f EXCEPT !.header_field = << >>, !.header_value = << >>, !.parser_statue = "BODY"]

LEMMA BodyHandle ==
    ASSUME NEW f \in Handle
    PROVE  LET g == InBody(f)
           IN  /\ g \in Handle /\ SameCall(g, f) /\ g.redirect = f.redirect
               /\ g.parser_statue = "BODY" /\ g.header_field = << >> /\ g.header_value = << >>
               /\ g.content_length = f.content_length /\ g.status_ok = f.status_ok
               /\ g.body = f.body /\ g.body_len = f.body_len /\ g.bytes = f.bytes
  <1>1. << >> \in Seq(Piece)
    OBVIOUS
  <1>2. InBody(f) \in Handle
    BY <1>1 DEF InBody, Handle
  <1> QED BY <1>2 DEF InBody, Handle, SameCall

LEMMA CallsOnHeadersComplete ==
    ASSUME NEW u, NEW n, NEW h, Parsable(u, n, h), UnitOf(u, n + 1).cb = "headers_complete"
    PROVE  Called(u, n, h, BeforeBody(h))
  <1> DEFINE x == UnitOf(u, n)
             y == UnitOf(u, n + 1)
  <1>1. /\ u \in Urls /\ n \in Nat /\ n < Size(u) /\ h \in Handle /\ ~ h.redirect
        /\ h.body_len = Len(h.bytes) /\ TextInv(u, n, h) /\ SeenInv(u, n, h)
        /\ StatueInv(u, n, h) /\ BodyInv(u, n, h) /\ StatusInv(u, n, h)
    BY DEF Parsable, ParserInv
  <1>2. /\ n + 1 \in 1 .. Size(u) /\ n + 1 = Len(HeadOf(u))
        /\ n > 0 => n \in 1 .. Size(u) /\ EndsHeader(x)
    <2>1. n + 1 \in 1 .. Size(u) /\ (n > 0 => n \in 1 .. Size(u) /\ MayFollow(x, y))
      BY <1>1, NextUnit
    <2>2. PICK k \in 1 .. Size(u) : k = n + 1
      BY <2>1
    <2>3. k = Len(HeadOf(u))
      BY <1>1, <2>2, UnitWellFormed
    <2> QED BY <2>1, <2>2, <2>3 DEF MayFollow
  <1>3. h.content_length \in {0, Len(BodyOf(u))}
    BY <1>1 DEF BodyInv
  <1>4. PICK f : f = FieldValue(h)
    OBVIOUS
  <1>5. /\ f \in Handle /\ SameRest(f, h)
        /\ f.redirect => n > 0 /\ h.parser_statue = "VALUE" /\ Names(u, n, "Location", f.redirect_url)
        /\ ~ f.redirect =>
              /\ f.content_length \in {0, Len(BodyOf(u))}
              /\ Whole(u) => \A m \in 1 .. n : Seen(u, m, f)
    <2>1. CASE h.parser_statue = "VALUE"
      <3>1. n > 0 /\ n \in 1 .. Size(u) /\ EndsHeader(x) /\ n \in 1 .. Len(HeadOf(u))
        BY <1>1, <1>2, <2>1 DEF StatueInv
      <3>2. /\ f \in Handle /\ SameRest(f, h)
            /\ f.redirect => Names(u, n, "Location", f.redirect_url)
            /\ ~ f.redirect => f.content_length \in {0, Len(BodyOf(u))}
        BY <1>1, <1>3, <1>4, <2>1, <3>1, FieldValueReads
      <3>3. ~ f.redirect /\ Whole(u) => \A m \in 1 .. n : Seen(u, m, f)
        BY <1>1, <1>4, <2>1, <3>1, FieldValueSees
      <3> QED BY <2>1, <3>1, <3>2, <3>3
    <2>2. CASE h.parser_statue = "NONE"
      <3>1. f = h
        BY <1>1, <1>4, <2>2 DEF FieldValue, TextInv
      <3>2. Whole(u) => \A m \in 1 .. n : Seen(u, m, h)
        BY <1>1, <1>2, <2>2 DEF SeenInv
      <3> QED BY <1>1, <1>3, <3>1, <3>2 DEF SameRest
    <2>3. h.parser_statue \notin {"FIELD", "BODY"}
      BY <1>1, <1>2 DEF StatueInv, EndsHeader
    <2> QED BY <1>1, <2>1, <2>2, <2>3 DEF Handle
  <1>6. CASE f.redirect
    <2>1. BeforeBody(h) = f
      BY <1>4, <1>6 DEF BeforeBody
    <2>2. Called(u, n, h, f)
      BY <1>1, <1>5, <1>6 DEF Called, SameRest, SameCall
    <2> QED BY <2>1, <2>2
  <1>7. CASE ~ f.redirect
    <2>1. BeforeBody(h) = InBody(f)
      BY <1>4, <1>7 DEF BeforeBody, InBody
    <2>2. PICK g : g = InBody(f)
      OBVIOUS
    <2>3. /\ g \in Handle /\ SameCall(g, f) /\ g.redirect = f.redirect
          /\ g.parser_statue = "BODY" /\ g.header_field = << >> /\ g.header_value = << >>
          /\ g.content_length = f.content_length /\ g.status_ok = f.status_ok
          /\ g.body = f.body /\ g.body_len = f.body_len /\ g.bytes = f.bytes
      BY <1>5, <2>2, BodyHandle
    <2>4. StatueInv(u, n + 1, g) /\ TextInv(u, n + 1, g)
      BY <1>1, <2>3 DEF StatueInv, TextInv
    <2>5. Whole(u) => \A m \in 1 .. n + 1 : Seen(u, m, g)
      <3> SUFFICES ASSUME Whole(u) PROVE \A m \in 1 .. n + 1 : Seen(u, m, g)
        OBVIOUS
      <3>1. \A m \in 1 .. n : Seen(u, m, g)
        BY <1>5, <1>7, <2>3, SeenByMore
      <3>2. Seen(u, n + 1, g)
        BY DEF Seen
      <3>3. \A m \in 1 .. n + 1 : m \in 1 .. n \/ m = n + 1
        BY <1>1
      <3> QED BY <3>1, <3>2, <3>3
    <2>6. SeenInv(u, n + 1, g) /\ BodySeen(u, g)
      BY <1>2, <2>3, <2>5 DEF SeenInv, BodySeen
    <2>7. BodyInv(u, n + 1, g)
      BY <1>1, <1>2, <1>5, <1>7, <2>3, BodyKept DEF SameRest, SameCall
    <2>8. StatusInv(u, n + 1, g)
      BY <1>1, <1>5, <2>3, StatusKept DEF SameRest
    <2>9. g.body_len = Len(g.bytes) /\ SameCall(g, h) /\ ~ g.redirect
      BY <1>1, <1>5, <1>7, <2>3 DEF SameRest, SameCall
    <2>10. Called(u, n, h, g)
      BY <2>3, <2>4, <2>6, <2>7, <2>8, <2>9 DEF Called, ParserInv
    <2> QED BY <2>1, <2>2, <2>10
  <1> QED BY <1>6, <1>7

LEMMA CallsOnStatus ==
    ASSUME NEW u, NEW n, NEW h, Parsable(u, n, h), UnitOf(u, n + 1).cb = "status"
    PROVE  Called(u, n, h, [h EXCEPT !.status_ok = u \in OkUrls])
  <1>1. /\ u \in Urls /\ n \in Nat /\ n < Size(u) /\ h \in Handle /\ ~ h.redirect
        /\ h.body_len = Len(h.bytes) /\ TextInv(u, n, h) /\ SeenInv(u, n, h)
        /\ StatueInv(u, n, h) /\ BodyInv(u, n, h) /\ StatusInv(u, n, h)
    BY DEF Parsable, ParserInv
  <1>2. n = 0
    BY <1>1, NextUnit DEF MayFollow
  <1>3. PICK g : g = [h EXCEPT !.status_ok = u \in OkUrls]
    OBVIOUS
  <1>4. /\ g \in Handle /\ (g.status_ok <=> u \in OkUrls)
        /\ SameCall(g, h) /\ g.redirect = h.redirect /\ g.parser_statue = h.parser_statue
        /\ g.header_field = h.header_field /\ g.header_value = h.header_value
        /\ g.content_length = h.content_length
        /\ g.body = h.body /\ g.body_len = h.body_len /\ g.bytes = h.bytes
    <2>1. PICK b \in BOOLEAN : b = (u \in OkUrls)
      <3>1. (u \in OkUrls) \in BOOLEAN
        OBVIOUS
      <3> QED BY <3>1
    <2>2. g = [h EXCEPT !.status_ok = b]
      BY <1>3, <2>1
    <2>3. g \in Handle /\ g.status_ok = b
      BY <1>1, <2>2 DEF Handle
    <2>4. /\ SameCall(g, h) /\ g.redirect = h.redirect /\ g.parser_statue = h.parser_statue
          /\ g.header_field = h.header_field /\ g.header_value = h.header_value
          /\ g.content_length = h.content_length
          /\ g.body = h.body /\ g.body_len = h.body_len /\ g.bytes = h.bytes
      BY <1>1, <2>2 DEF Handle, SameCall
    <2> QED BY <2>1, <2>3, <2>4
  <1>5. h.parser_statue = "NONE"
    BY <1>1, <1>2 DEF StatueInv, Handle
  <1>6. StatueInv(u, n + 1, g) /\ TextInv(u, n + 1, g)
    BY <1>1, <1>2, <1>4, <1>5 DEF StatueInv, TextInv
  <1>7. SeenInv(u, n + 1, g)
    <2>1. ASSUME NEW m \in 1 .. n + 1 PROVE Seen(u, m, g)
      <3>1. m = n + 1
        BY <1>2
      <3> QED BY <3>1 DEF Seen
    <2> QED BY <1>4, <1>5, <2>1 DEF SeenInv
  <1>8. BodyInv(u, n + 1, g)
    <2>1. h.content_length \in {0, Len(BodyOf(u))}
      BY <1>1 DEF BodyInv
    <2> QED BY <1>1, <1>4, <1>5, <2>1, BodyKept DEF SameCall
  <1>9. StatusInv(u, n + 1, g)
    BY <1>4 DEF StatusInv
  <1>10. BodySeen(u, g) /\ ~ g.redirect /\ g.body_len = Len(g.bytes)
    BY <1>1, <1>4, <1>5 DEF BodySeen
  <1>11. Called(u, n, h, g)
    BY <1>4, <1>6, <1>7, <1>8, <1>9, <1>10 DEF Called, ParserInv
  <1> QED BY <1>3, <1>11
(* A unit of the body, whoever it is for.                                        *)
LEMMA BodyPlace ==
    ASSUME NEW u, NEW n, NEW h, Parsable(u, n, h), UnitOf(u, n + 1).cb = "body"
    PROVE  /\ h.parser_statue = "BODY" /\ n > 0
           /\ \E m \in Nat :
                 /\ m = Passed(u, n) /\ m + 1 = Passed(u, n + 1) /\ m + 1 <= Len(BodyOf(u))
                 /\ n + 1 > Len(HeadOf(u))
                 /\ BodyOf(u)[m + 1] \in Data /\ UnitOf(u, n + 1).text = <<BodyOf(u)[m + 1]>>
  <1> DEFINE x == UnitOf(u, n)
             y == UnitOf(u, n + 1)
  <1>1. /\ u \in Urls /\ n \in Nat /\ n < Size(u) /\ h \in Handle /\ StatueInv(u, n, h)
    BY DEF Parsable, ParserInv
  <1>2. /\ n + 1 \in 1 .. Size(u) /\ n > 0 /\ x.cb \in {"headers_complete", "body"}
        /\ n \in 1 .. Size(u)
    BY <1>1, NextUnit DEF MayBegin, MayFollow
  <1>3. h.parser_statue = "BODY"
    BY <1>1, <1>2 DEF StatueInv, Handle
  <1>4. Len(HeadOf(u)) \in Nat /\ Len(BodyOf(u)) \in Nat /\ BodyOf(u) \in Seq(Data)
    BY <1>1, AnswerType
  <1>5. PICK k \in 1 .. Size(u) : k = n + 1
    BY <1>2
  <1>6. k > Len(HeadOf(u)) /\ k <= Len(HeadOf(u)) + Len(BodyOf(u))
    BY <1>1, <1>5, BodyUnit
  <1>7. PICK m \in Nat : m = n - Len(HeadOf(u))
    <2>1. n - Len(HeadOf(u)) \in Nat
      BY <1>1, <1>4, <1>5, <1>6
    <2> QED BY <2>1
  <1>8. m = Passed(u, n) /\ m + 1 = Passed(u, n + 1) /\ m + 1 <= Len(BodyOf(u))
    BY <1>1, <1>4, <1>5, <1>6, <1>7 DEF Passed
  <1>9. UnitOf(u, k) = [cb |-> "body", text |-> <<BodyOf(u)[k - Len(HeadOf(u))]>>]
    BY <1>1, <1>6, UnitKinds
  <1>10. k - Len(HeadOf(u)) = m + 1 /\ m + 1 \in 1 .. Len(BodyOf(u))
    BY <1>1, <1>4, <1>5, <1>7, <1>8
  <1>11. BodyOf(u)[m + 1] \in Data /\ y.text = <<BodyOf(u)[m + 1]>>
    BY <1>4, <1>5, <1>9, <1>10
  <1> QED BY <1>2, <1>3, <1>5, <1>6, <1>8, <1>11

(* A handle behind one more unit of the body, if what is about the body holds.   *)
LEMMA BodyCalled ==
    ASSUME NEW u, NEW n, NEW h, NEW g, Parsable(u, n, h), UnitOf(u, n + 1).cb = "body",
           g \in Handle, SameCall(g, h), g.redirect = h.redirect,
           g.parser_statue = h.parser_statue, g.header_field = h.header_field,
           g.header_value = h.header_value, g.content_length = h.content_length,
           g.status_ok = h.status_ok, g.body_len = Len(g.bytes), BodyInv(u, n + 1, g)
    PROVE  Called(u, n, h, g)
  <1>1. /\ u \in Urls /\ n \in Nat /\ n < Size(u) /\ h \in Handle /\ ~ h.redirect
        /\ TextInv(u, n, h) /\ StatusInv(u, n, h) /\ BodySeen(u, h)
    BY DEF Parsable, ParserInv
  <1>2. h.parser_statue = "BODY" /\ n + 1 > Len(HeadOf(u))
    BY BodyPlace
  <1>3. StatueInv(u, n + 1, g) /\ TextInv(u, n + 1, g)
    BY <1>1, <1>2 DEF StatueInv, TextInv
  <1>4. SeenInv(u, n + 1, g)
    BY <1>1, <1>2, AnswerType DEF SeenInv
  <1>5. StatusInv(u, n + 1, g)
    BY <1>1, StatusKept
  <1>6. BodySeen(u, g)
    BY <1>1, SeenByMore DEF BodySeen
  <1> QED BY <1>1, <1>3, <1>4, <1>5, <1>6 DEF Called, ParserInv

LEMMA CallsOnBody ==
    ASSUME NEW u, NEW n, NEW h, Parsable(u, n, h), UnitOf(u, n + 1).cb = "body", ~ h.download
    PROVE  Called(u, n, h, WithBody(h, UnitOf(u, n + 1).text))
  <1>1. /\ u \in Urls /\ n \in Nat /\ n < Size(u) /\ h \in Handle /\ BodyInv(u, n, h)
        /\ h.body_len = Len(h.bytes)
    BY DEF Parsable, ParserInv
  <1>2. /\ h.parser_statue = "BODY" /\ Len(BodyOf(u)) \in Nat
    BY <1>1, BodyPlace, AnswerType
  <1>3. PICK m \in Nat :
           /\ m = Passed(u, n) /\ m + 1 = Passed(u, n + 1) /\ m + 1 <= Len(BodyOf(u))
           /\ n + 1 > Len(HeadOf(u))
           /\ BodyOf(u)[m + 1] \in Data /\ UnitOf(u, n + 1).text = <<BodyOf(u)[m + 1]>>
    BY BodyPlace
  <1>4. PICK d \in Data : d = BodyOf(u)[m + 1]
    BY <1>3
  <1>5. PICK s \in Seq(Data) : s = h.bytes /\ Len(s) = m
    BY <1>1, <1>3 DEF BodyInv, Handle
  <1>6. PICK t \in Seq(Data) :
           /\ t = s \o <<d>> /\ Len(t) = m + 1 /\ t[m + 1] = d
           /\ \A i \in 1 .. m : t[i] = s[i]
    <2>1. /\ s \o <<d>> \in Seq(Data)
          /\ Len(s \o <<d>>) = Len(s) + 1 /\ (s \o <<d>>)[Len(s) + 1] = d
          /\ \A i \in 1 .. Len(s) : (s \o <<d>>)[i] = s[i]
      BY AppendLast
    <2> QED BY <1>5, <2>1
  <1>7. h.body_len = m /\ h.content_length \in {0, Len(BodyOf(u))} /\ h.body \in Nat
    BY <1>1, <1>3 DEF BodyInv, Handle
  <1>8. h.content_length > 0 => h.body \in {0, h.content_length + 1}
    BY <1>1, <1>2 DEF BodyInv
  <1>9. PICK room \in Nat :
           room = IF h.content_length <= 0 THEN m + 1 + 1
                  ELSE IF h.body = 0 THEN h.content_length + 1 ELSE h.body
    BY <1>2, <1>7
  <1>10. room # 0 /\ m + 1 < room /\ (h.content_length > 0 => room = h.content_length + 1)
    BY <1>2, <1>3, <1>7, <1>8, <1>9
  <1>11. PICK g : g = [h EXCEPT !.body = room, !.body_len = m + 1, !.bytes = t]
    OBVIOUS
  <1>12. WithBody(h, UnitOf(u, n + 1).text) = g
    <2>1. Len(<<d>>) = 1 /\ UnitOf(u, n + 1).text = <<d>>
      BY <1>3, <1>4
    <2>2. WithBody(h, <<d>>) =
             [h EXCEPT !.body = IF h.content_length <= 0 THEN m + 1 + 1
                                ELSE IF h.body = 0 THEN h.content_length + 1 ELSE h.body,
                       !.body_len = m + 1, !.bytes = s \o <<d>>]
      BY <1>1, <1>5, <1>7, <2>1 DEF WithBody
    <2> QED BY <1>6, <1>9, <1>11, <2>1, <2>2
  <1>13. /\ g \in Handle /\ SameCall(g, h) /\ g.redirect = h.redirect
         /\ g.parser_statue = h.parser_statue /\ g.header_field = h.header_field
         /\ g.header_value = h.header_value /\ g.content_length = h.content_length
         /\ g.status_ok = h.status_ok
         /\ g.body = room /\ g.body_len = m + 1 /\ g.bytes = t
    <2>1. m + 1 \in Nat
      OBVIOUS
    <2>2. g \in Handle
      BY <1>1, <1>11, <2>1 DEF Handle
    <2> QED BY <1>1, <1>11, <2>2 DEF Handle, SameCall
  <1>14. BodyInv(u, n + 1, g)
    <2>1. \A i \in 1 .. m + 1 : t[i] = BodyOf(u)[i]
      <3>1. \A i \in 1 .. m : s[i] = BodyOf(u)[i]
        BY <1>1, <1>5, <1>7 DEF BodyInv
      <3> TAKE i \in 1 .. m + 1
      <3>2. CASE i = m + 1
        BY <1>4, <1>6, <3>2
      <3>3. CASE i # m + 1
        <4>1. i \in 1 .. m
          BY <3>3
        <4> QED BY <1>6, <3>1, <4>1
      <3> QED BY <3>2, <3>3
    <2>2. ~ g.download
      BY <1>13 DEF SameCall
    <2>3. ~ (n + 1 <= Len(HeadOf(u)))
      BY <1>1, <1>3, AnswerType
    <2> QED BY <1>3, <1>7, <1>10, <1>13, <2>1, <2>2, <2>3 DEF BodyInv
  <1>15. g.body_len = Len(g.bytes)
    BY <1>6, <1>13
  <1> QED BY <1>12, <1>13, <1>14, <1>15, BodyCalled

LEMMA CallsOnDownload ==
    ASSUME NEW u, NEW n, NEW h, Parsable(u, n, h), UnitOf(u, n + 1).cb = "body", h.download,
           NEW f \in Files \cup {None}
    PROVE  Called(u, n, h, [h EXCEPT !.pf = f])
  <1>1. /\ u \in Urls /\ n \in Nat /\ n < Size(u) /\ h \in Handle /\ BodyInv(u, n, h)
        /\ h.body_len = Len(h.bytes)
    BY DEF Parsable, ParserInv
  <1>2. PICK g : g = [h EXCEPT !.pf = f]
    OBVIOUS
  <1>3. /\ g \in Handle /\ SameCall(g, h) /\ g.redirect = h.redirect
        /\ g.parser_statue = h.parser_statue /\ g.header_field = h.header_field
        /\ g.header_value = h.header_value /\ g.content_length = h.content_length
        /\ g.status_ok = h.status_ok
        /\ g.body = h.body /\ g.body_len = h.body_len /\ g.bytes = h.bytes
    BY <1>1, <1>2 DEF Handle, SameCall
  <1>4. n + 1 > Len(HeadOf(u)) /\ Len(HeadOf(u)) \in Nat
    BY <1>1, BodyPlace, AnswerType
  <1>5. BodyInv(u, n + 1, g)
    BY <1>1, <1>3, <1>4 DEF BodyInv, SameCall
  <1>6. g.body_len = Len(g.bytes)
    BY <1>1, <1>3
  <1> QED BY <1>2, <1>3, <1>5, <1>6, BodyCalled

--------------------------------------------------------------------------
(* The steps of the request.                                                     *)

(* What is received is a first part of the page.                                 *)
LEMMA PageOfBody ==
    ASSUME NEW u \in Urls, NEW n \in Nat, NEW h \in Handle, h.body_len = Len(h.bytes),
           BodyInv(u, n, h)
    PROVE  /\ h.body # 0 => h.body_len < h.body
           /\ h.bytes = SubSeq(BodyOf(u), 1, h.body_len)
           /\ h.body_len \in 0 .. Len(BodyOf(u))
  <1>1. PICK s \in Seq(Data) : s = h.bytes
    BY DEF Handle
  <1>2. BodyOf(u) \in Seq(Data) /\ Len(BodyOf(u)) \in Nat /\ Len(HeadOf(u)) \in Nat
    BY AnswerType
  <1>3. h.body_len \in 0 .. Len(BodyOf(u)) /\ Len(s) = h.body_len
    <2>1. Passed(u, n) \in 0 .. Len(BodyOf(u))
      BY <1>2 DEF Passed
    <2>2. h.body_len \in 0 .. Len(BodyOf(u))
      BY <1>2, <2>1 DEF BodyInv
    <2> QED BY <1>1, <2>2
  <1>4. PICK m \in 0 .. Len(BodyOf(u)) : m = h.body_len
    BY <1>3
  <1>5. PICK t \in Seq(Data) : t = SubSeq(BodyOf(u), 1, m) /\ Len(t) = m /\ \A i \in 1 .. m : t[i] = BodyOf(u)[i]
    <2>1. /\ SubSeq(BodyOf(u), 1, m) \in Seq(Data) /\ Len(SubSeq(BodyOf(u), 1, m)) = m
          /\ \A i \in 1 .. m : SubSeq(BodyOf(u), 1, m)[i] = BodyOf(u)[i]
      <3>1. 1 \in 1 .. Len(BodyOf(u)) + 1 /\ m \in 0 .. Len(BodyOf(u))
        BY <1>2, <1>4
      <3> QED BY <1>2, <3>1, SubSeqProperties
    <2> QED BY <2>1
  <1>6. \A i \in 1 .. m : s[i] = BodyOf(u)[i]
    BY <1>1, <1>4 DEF BodyInv
  <1>7. s = t
    BY <1>3, <1>4, <1>5, <1>6, SeqEqual
  <1>8. h.body # 0 => h.body_len < h.body
    BY DEF BodyInv
  <1> QED BY <1>1, <1>3, <1>4, <1>5, <1>7, <1>8

(* What of a handle the parser has to do with.                                   *)
SameParser(g, h) ==
    /\ g.body = h.body /\ g.body_len = h.body_len /\ g.bytes = h.bytes
    /\ g.content_length = h.content_length /\ g.parser_statue = h.parser_statue
    /\ g.header_field = h.header_field /\ g.header_value = h.header_value
    /\ g.redirect = h.redirect /\ g.redirect_url = h.redirect_url
    /\ g.status_ok = h.status_ok /\ g.download = h.download

LEMMA SameParserInv ==
    ASSUME NEW u, NEW n, NEW g, NEW h, SameParser(g, h), ParserInv(u, n, h)
    PROVE  ParserInv(u, n, g)
  <1>1. StatueInv(u, n, g) /\ StatusInv(u, n, g)
    BY DEF SameParser, ParserInv, StatueInv, StatusInv
  <1>2. TextInv(u, n, g)
    BY DEF SameParser, ParserInv, TextInv
  <1>3. SeenInv(u, n, g)
    BY DEF SameParser, ParserInv, SeenInv, Seen
  <1>4. BodyInv(u, n, g)
    BY DEF SameParser, ParserInv, BodyInv
  <1> QED BY <1>1, <1>2, <1>3, <1>4 DEF ParserInv

(* The handle and the request, apart from the socket: nothing of them has changed. *)
LEMMA SameRequest ==
    ASSUME HttpInv, http' \in Handle, SameParser(http', http),
           http'.error_code = http.error_code,
           UNCHANGED <<url, pc, part, buf, sent, cut, requests>>,
           open' \subseteq Socks, raced' \in BOOLEAN, cancel' \in BOOLEAN, SocketInv'
    PROVE  HttpInv'
  <1>1. TypeOK /\ BufInv /\ FreshInv /\ BodyIsOfPage /\ HeadersSeen /\ OkIsWhole
    BY DEF HttpInv, PageInv
  <1>2. (Direct <=> Direct') /\ Want' = Want
    BY DEF SameParser, Direct, Want
  <1>3. TypeOK'
    <2>1. (Len(buf) <= BufSize \/ Direct)'
      BY <1>1, <1>2 DEF TypeOK
    <2>2. (http.body_len = Len(http.bytes))'
      BY <1>1 DEF TypeOK, SameParser
    <2> QED BY <1>1, <2>1, <2>2 DEF TypeOK
  <1>4. BufInv'
    BY <1>1, <1>2 DEF BufInv, Reading, At
  <1>5. FreshInv'
    BY <1>1 DEF FreshInv, SameParser
  <1>6. (Reading => ParserInv(url, At, http))'
    BY SameParserInv DEF HttpInv, Reading, At
  <1>7. BodyIsOfPage' /\ OkIsWhole'
    BY <1>1 DEF BodyIsOfPage, OkIsWhole, SameParser
  <1>8. HeadersSeen'
    BY <1>1 DEF HeadersSeen, Seen, SameParser
  <1> QED BY <1>3, <1>4, <1>5, <1>6, <1>7, <1>8 DEF HttpInv, PageInv

(* A request that fails, wherever it was.                                        *)
LEMMA FailKeeps ==
    ASSUME HttpInv, pc \in {"connect", "connecting", "send", "recv", "parse"},
           NEW f \in Files \cup {None}, NEW e \in {"CONNECT", "WRITE", "READ", "PARSE"},
           Return([http EXCEPT !.pf = f], e), buf' = << >>, cut' \in BOOLEAN
    PROVE  HttpInv'
  <1>1. /\ TypeOK /\ BufInv /\ FreshInv /\ BodyIsOfPage /\ HeadersSeen /\ SocketInv
        /\ http \in Handle /\ ~ http.redirect
    BY DEF HttpInv, PageInv, TypeOK, FreshInv
  <1>2. http' = [http EXCEPT !.pf = f, !.error_code = e]
    BY <1>1 DEF Return, Handle
  <1>3. /\ http' \in Handle /\ SameParser(http', http) /\ http'.fd = http.fd
        /\ http'.error_code = e
    BY <1>1, <1>2 DEF Handle, SameParser
  <1>4. /\ pc' = "app"
        /\ UNCHANGED <<url, part, sent, open, cancel, raced, requests>>
    BY DEF Return
  <1>5. TypeOK'
    <2>1. (Len(buf) <= BufSize)'
      BY HttpAssumption
    <2>2. (http.body_len = Len(http.bytes))'
      BY <1>1, <1>3 DEF TypeOK, SameParser
    <2> QED BY <1>1, <1>3, <1>4, <2>1, <2>2 DEF TypeOK, PCs
  <1>6. BufInv' /\ (Reading => ParserInv(url, At, http))'
    BY <1>4 DEF BufInv, Reading
  <1>7. FreshInv'
    BY <1>1, <1>3, <1>4 DEF FreshInv, SameParser
  <1>8. BodyIsOfPage' /\ OkIsWhole'
    BY <1>1, <1>3, <1>4 DEF BodyIsOfPage, OkIsWhole, SameParser
  <1>9. HeadersSeen'
    BY <1>1, <1>3, <1>4 DEF HeadersSeen, Seen, SameParser
  <1>10. SocketInv'
    BY <1>1, <1>3, <1>4 DEF SocketInv, NoSocketLost
  <1> QED BY <1>5, <1>6, <1>7, <1>8, <1>9, <1>10 DEF HttpInv, PageInv
(* What the next callback is given.                                              *)
LEMMA ParseStarts ==
    ASSUME HttpInv, pc = "parse"
    PROVE  /\ Parsable(url, At, http) /\ buf # << >> /\ Head(buf) = UnitOf(url, At + 1)
           /\ buf \in Seq({UnitOf(url, n) : n \in 1 .. Size(url)})
  <1>1. /\ TypeOK /\ BufInv /\ FreshInv /\ HeadersSeen /\ ParserInv(url, At, http)
        /\ http \in Handle
    BY DEF HttpInv, PageInv, TypeOK, Reading
  <1>2. /\ buf \in Seq({UnitOf(url, n) : n \in 1 .. Size(url)})
        /\ At \in Nat /\ sent <= Size(url) /\ \A i \in 1 .. Len(buf) : buf[i] = UnitOf(url, At + i)
        /\ Len(buf) \in 1 .. BufSize
    BY <1>1 DEF BufInv, Reading
  <1>3. url \in Urls /\ ~ http.redirect /\ http.body_len = Len(http.bytes) /\ sent \in Nat
    BY <1>1 DEF FreshInv, TypeOK
  <1>4. At < Size(url) /\ Len(buf) \in Nat /\ Len(buf) > 0
    BY <1>2, <1>3, AnswerType, HttpAssumption DEF At
  <1>5. buf # << >> /\ Head(buf) = UnitOf(url, At + 1)
    BY <1>2, <1>4
  <1>6. BodySeen(url, http)
    BY <1>1 DEF BodySeen, HeadersSeen
  <1> QED BY <1>1, <1>2, <1>3, <1>4, <1>5, <1>6 DEF Parsable

LEMMA ParsedKeeps ==
    ASSUME HttpInv, pc = "parse", NEW g, Called(url, At, http, g), Parsed(g)
    PROVE  HttpInv'
  <1>1. /\ TypeOK /\ BufInv /\ FreshInv /\ SocketInv /\ BodyIsOfPage
        /\ Parsable(url, At, http)
        /\ buf # << >> /\ buf \in Seq({UnitOf(url, n) : n \in 1 .. Size(url)})
    BY ParseStarts DEF HttpInv, PageInv
  <1>2. /\ url \in Urls /\ At \in Nat /\ At < Size(url) /\ http \in Handle /\ ~ http.redirect
        /\ sent \in Nat /\ sent <= Size(url)
        /\ \A i \in 1 .. Len(buf) : buf[i] = UnitOf(url, At + i)
        /\ Len(buf) \in 1 .. BufSize
    BY <1>1 DEF Parsable, TypeOK, BufInv, Reading
  <1>3. /\ http' = g /\ g \in Handle /\ g.body_len = Len(g.bytes) /\ g.fd = http.fd
        /\ UNCHANGED <<url, part, sent, cut, open, cancel, raced, requests>>
    BY DEF Parsed, Called, SameCall, others
  <1>4. SocketInv'
    <2>1. pc' # "connect"
      BY DEF Parsed
    <2> QED BY <1>1, <1>3, <2>1 DEF SocketInv, NoSocketLost
  <1>5. CASE g.redirect
    <2>1. /\ buf' = << >> /\ pc' = "redirect" /\ Len(buf') = 0
      BY <1>5 DEF Parsed
    <2>2. /\ g.parser_statue # "BODY" /\ g.body = http.body
          /\ g.body_len = http.body_len /\ g.bytes = http.bytes
          /\ At > 0 /\ Names(url, At, "Location", g.redirect_url)
      BY <1>5 DEF Called
    <2>3. TypeOK'
      <3>1. (Len(buf) <= BufSize)'
        BY <2>1, HttpAssumption
      <3> QED BY <1>1, <1>3, <2>1, <3>1 DEF TypeOK, PCs
    <2>4. BufInv' /\ (Reading => ParserInv(url, At, http))'
      BY <2>1 DEF BufInv, Reading
    <2>5. FreshInv'
      <3>1. At \in 1 .. Size(url)
        BY <1>2, <2>2, AnswerType
      <3>2. \E n \in 1 .. Size(url) : Names(url, n, "Location", g.redirect_url)
        BY <2>2, <3>1
      <3>3. \E n \in 1 .. Size(url') : Names(url', n, "Location", http'.redirect_url)
        BY <1>3, <3>2
      <3> QED BY <1>2, <1>3, <2>1, <3>3 DEF FreshInv
    <2>6. BodyIsOfPage' /\ HeadersSeen' /\ OkIsWhole'
      BY <1>1, <1>3, <2>1, <2>2 DEF BodyIsOfPage, HeadersSeen, OkIsWhole, Parsed
    <2> QED BY <1>4, <2>3, <2>4, <2>5, <2>6 DEF HttpInv, PageInv
  <1>6. CASE ~ g.redirect
    <2>1. /\ buf' = Tail(buf) /\ pc' = IF Tail(buf) = << >> THEN "recv" ELSE "parse"
          /\ pc' \in {"recv", "parse"}
      BY <1>6 DEF Parsed
    <2>2. ParserInv(url, At + 1, g) /\ BodySeen(url, g)
      BY <1>6 DEF Called
    <2>3. /\ Tail(buf) \in Seq({UnitOf(url, n) : n \in 1 .. Size(url)})
          /\ Len(Tail(buf)) = Len(buf) - 1
          /\ \A i \in 1 .. Len(buf) - 1 : Tail(buf)[i] = buf[i + 1]
      BY <1>1, HeadTailProperties
    <2>4. At' = At + 1
      BY <1>2, <1>3, <2>1, <2>3 DEF At
    <2>5. BodyInv(url, At + 1, g)
      BY <2>2 DEF ParserInv
    <2>6. /\ g.body # 0 => g.body_len < g.body
          /\ g.bytes = SubSeq(BodyOf(url), 1, g.body_len)
          /\ g.body_len \in 0 .. Len(BodyOf(url))
      BY <1>2, <1>3, <2>5, PageOfBody
    <2>7. TypeOK'
      <3>1. (Len(buf) <= BufSize)'
        BY <1>2, <2>1, <2>3, HttpAssumption
      <3> QED BY <1>1, <1>3, <2>1, <3>1 DEF TypeOK, PCs
    <2>8. BufInv'
      <3>1. ASSUME NEW i \in 1 .. Len(buf') PROVE buf'[i] = UnitOf(url', At' + i)
        <4>1. i \in 1 .. Len(buf) - 1 /\ i + 1 \in 1 .. Len(buf) /\ At + (i + 1) = (At + 1) + i
          BY <1>2, <2>1, <2>3
        <4>2. buf'[i] = buf[i + 1]
          BY <2>1, <2>3, <4>1
        <4>3. buf[i + 1] = UnitOf(url, At + (i + 1))
          BY <1>2, <4>1
        <4> QED BY <1>3, <2>4, <4>1, <4>2, <4>3
      <3>2. pc' = "recv" => Len(buf') <= Want'
        <4>1. pc' = "recv" => Len(buf') = 0
          <5>1. pc' = "recv" => buf' = << >>
            BY <2>1
          <5> QED BY <5>1
        <4>2. g.content_length \in {0, Len(BodyOf(url))} /\ Len(BodyOf(url)) \in Nat
          BY <1>2, <2>5, AnswerType DEF BodyInv
        <4>3. 0 <= Want'
          BY <1>3, <2>6, <4>2, HttpAssumption DEF Want, Direct
        <4> QED BY <4>1, <4>3
      <3>3. pc' = "parse" => Len(buf') \in 1 .. BufSize
        <4>1. pc' = "parse" => Len(buf') # 0
          BY <2>1, <2>3
        <4> QED BY <1>2, <2>1, <2>3, <4>1, HttpAssumption
      <3>4. At' \in Nat /\ sent' <= Size(url')
        BY <1>2, <1>3, <2>4
      <3>5. buf' \in Seq({UnitOf(url', n) : n \in 1 .. Size(url')})
        BY <1>3, <2>1, <2>3
      <3> QED BY <2>1, <3>1, <3>2, <3>3, <3>4, <3>5 DEF BufInv, Reading
    <2>9. FreshInv'
      BY <1>2, <1>3, <1>6, <2>1 DEF FreshInv
    <2>10. (Reading => ParserInv(url, At, http))'
      BY <1>3, <2>2, <2>4
    <2>11. BodyIsOfPage' /\ OkIsWhole'
      BY <1>3, <2>1, <2>6 DEF BodyIsOfPage, OkIsWhole
    <2>12. HeadersSeen'
      BY <1>3, <2>2 DEF HeadersSeen, BodySeen
    <2> QED BY <1>4, <2>7, <2>8, <2>9, <2>10, <2>11, <2>12 DEF HttpInv, PageInv
  <1> QED BY <1>5, <1>6
LEMMA ParseKeeps ==
    ASSUME HttpInv, Parse
    PROVE  HttpInv'
  <1>1. pc = "parse" /\ TypeOK /\ http \in Handle /\ SocketInv
    BY DEF Parse, OnStatus, OnHeaderField, OnHeaderValue, OnHeadersComplete, OnBody,
           OnDownload, Malformed, Parsing, HttpInv, PageInv, TypeOK
  <1>2. Parsable(url, At, http) /\ Head(buf) = UnitOf(url, At + 1)
    BY <1>1, ParseStarts
  <1>3. CASE OnStatus
    BY <1>1, <1>2, <1>3, CallsOnStatus, ParsedKeeps DEF OnStatus, Parsing
  <1>4. CASE OnHeaderField
    BY <1>1, <1>2, <1>4, CallsOnField, ParsedKeeps DEF OnHeaderField, Parsing
  <1>5. CASE OnHeaderValue
    BY <1>1, <1>2, <1>5, CallsOnValue, ParsedKeeps DEF OnHeaderValue, Parsing
  <1>6. CASE OnHeadersComplete
    BY <1>1, <1>2, <1>6, CallsOnHeadersComplete, ParsedKeeps DEF OnHeadersComplete, Parsing
  <1>7. CASE OnBody
    BY <1>1, <1>2, <1>7, CallsOnBody, ParsedKeeps DEF OnBody, Parsing
  <1>8. CASE OnDownload
    <2> DEFINE f == IF http.pf = None THEN http.filename ELSE http.pf
    <2>1. Head(buf).cb = "body" /\ UnitOf(url, At + 1).cb = "body" /\ http.download
      BY <1>2, <1>8 DEF OnDownload, Parsing
    <2>2. http.pf \in Files \cup {None} /\ f \in Files \cup {None}
      BY <1>1 DEF Handle
    <2>3. CASE Parsed(http)
      <3>1. http = [http EXCEPT !.pf = http.pf]
        BY <1>1 DEF Handle
      <3>2. Called(url, At, http, http)
        BY <1>2, <2>1, <2>2, <3>1, CallsOnDownload
      <3> QED BY <1>1, <2>3, <3>2, ParsedKeeps
    <2>4. CASE Parsed([http EXCEPT !.pf = f])
      <3> HIDE DEF f
      <3>1. Called(url, At, http, [http EXCEPT !.pf = f])
        BY <1>2, <2>1, <2>2, CallsOnDownload
      <3> QED BY <1>1, <2>4, <3>1, ParsedKeeps
    <2>5. CASE /\ Return([http EXCEPT !.pf = f], "PARSE")
               /\ buf' = << >>
               /\ UNCHANGED cut
      <3> HIDE DEF f
      <3>1. cut' \in BOOLEAN
        BY <1>1, <2>5 DEF TypeOK
      <3> QED BY <1>1, <2>2, <2>5, <3>1, FailKeeps
    <2> QED BY <1>8, <2>3, <2>4, <2>5 DEF OnDownload
  <1>9. CASE Malformed
    <2>1. http = [http EXCEPT !.pf = http.pf] /\ http.pf \in Files \cup {None}
      BY <1>1 DEF Handle
    <2>2. Return(http, "PARSE") /\ buf' = << >> /\ cut' \in BOOLEAN
      BY <1>1, <1>9 DEF Malformed, ParseFails, TypeOK
    <2>3. Return([http EXCEPT !.pf = http.pf], "PARSE")
      BY <2>1, <2>2
    <2> QED BY <1>1, <2>1, <2>2, <2>3, FailKeeps
  <1> QED BY <1>3, <1>4, <1>5, <1>6, <1>7, <1>8, <1>9 DEF Parse
LEMMA CallKeeps ==
    ASSUME HttpInv, Call
    PROVE  HttpInv'
  <1>1. /\ TypeOK /\ BufInv /\ FreshInv /\ SocketInv /\ http \in Handle
        /\ http.body_len = Len(http.bytes)
    BY DEF HttpInv, PageInv, TypeOK
  <1>2. Len(<< >>) = 0 /\ (\A b : b = << >> => Len(b) <= BufSize)
    BY HttpAssumption
  <1>3. ASSUME NEW u \in Urls, NEW d \in BOOLEAN, NEW f \in Files \cup {None},
               Request(u, [http EXCEPT !.download = d, !.filename = f])
        PROVE  HttpInv'
    <2>1. /\ http' \in Handle /\ http'.fd = http.fd /\ http'.body_len = http.body_len
          /\ http'.bytes = http.bytes /\ http'.redirect = http.redirect
      BY <1>1, <1>3 DEF Request, Handle
    <2>2. /\ pc = "app" /\ pc' = "start" /\ url' = u /\ requests' = requests + 1
          /\ UNCHANGED <<part, buf, sent, cut, open, cancel, raced>>
      BY <1>3 DEF Request
    <2>3. buf = << >>
      BY <1>1, <2>2 DEF BufInv, Reading
    <2>4. TypeOK'
      BY <1>1, <1>2, <2>1, <2>2, <2>3 DEF TypeOK, PCs
    <2>5. BufInv' /\ (Reading => ParserInv(url, At, http))'
      BY <2>2, <2>3 DEF BufInv, Reading
    <2>6. FreshInv' /\ BodyIsOfPage' /\ HeadersSeen' /\ OkIsWhole'
      BY <2>1, <2>2 DEF FreshInv, BodyIsOfPage, HeadersSeen, OkIsWhole
    <2>7. SocketInv'
      BY <1>1, <2>1, <2>2 DEF SocketInv, NoSocketLost
    <2> QED BY <2>4, <2>5, <2>6, <2>7 DEF HttpInv, PageInv
  <1>4. ASSUME NEW u \in Urls, Get(u)
        PROVE  HttpInv'
    <2>1. [http EXCEPT !.download = FALSE] = [http EXCEPT !.download = FALSE, !.filename = http.filename]
      BY <1>1 DEF Handle
    <2>2. http.filename \in Files \cup {None}
      BY <1>1 DEF Handle
    <2> QED BY <1>3, <1>4, <2>1, <2>2 DEF Get
  <1>5. ASSUME NEW u \in Urls, NEW f \in Files, Download(u, f)
        PROVE  HttpInv'
    BY <1>3, <1>5 DEF Download
  <1>6. CASE Destroy
    <2>1. NewHandle \in Handle
      <3>1. << >> \in Seq(Data) /\ << >> \in Seq(Piece)
        OBVIOUS
      <3> QED BY <3>1 DEF NewHandle, Handle
    <2>2. /\ http' = NewHandle /\ pc' = "destroyed" /\ ~ cancel /\ pc = "app"
          /\ open' = open \ {http.fd}
          /\ UNCHANGED <<url, part, buf, sent, cut, cancel, raced, requests>>
      BY <1>6 DEF Destroy
    <2>3. /\ http'.fd = None /\ http'.body_len = 0 /\ http'.bytes = << >>
          /\ http'.redirect = FALSE /\ http'.body = 0 /\ http'.parser_statue = "NONE"
      BY <2>2 DEF NewHandle
    <2>4. buf = << >>
      BY <1>1, <2>2 DEF BufInv, Reading
    <2>5. TypeOK'
      BY <1>1, <1>2, <2>1, <2>2, <2>3, <2>4 DEF TypeOK, PCs
    <2>6. BufInv' /\ (Reading => ParserInv(url, At, http))'
      BY <2>2, <2>4 DEF BufInv, Reading
    <2>7. FreshInv' /\ BodyIsOfPage' /\ HeadersSeen' /\ OkIsWhole'
      BY <2>2, <2>3 DEF FreshInv, BodyIsOfPage, HeadersSeen, OkIsWhole
    <2>8. SocketInv'
      BY <1>1, <2>2, <2>3 DEF SocketInv, NoSocketLost
    <2> QED BY <2>5, <2>6, <2>7, <2>8 DEF HttpInv, PageInv
  <1> QED BY <1>4, <1>5, <1>6 DEF Call

LEMMA OtherThreadKeeps ==
    ASSUME HttpInv, OtherThread
    PROVE  HttpInv'
  <1>1. TypeOK /\ SocketInv /\ http \in Handle
    BY DEF HttpInv, PageInv, TypeOK
  <1>2. CASE Exit
    <2>1. /\ http' \in Handle /\ SameParser(http', http) /\ http'.fd = http.fd
          /\ http'.error_code = http.error_code
      BY <1>1, <1>2 DEF Exit, Handle, SameParser
    <2>2. SocketInv'
      BY <1>1, <1>2, <2>1 DEF Exit, SocketInv, NoSocketLost
    <2> QED BY <1>1, <1>2, <2>1, <2>2, SameRequest DEF Exit, TypeOK
  <1>3. CASE CancelClose
    <2>1. http' \in Handle /\ SameParser(http', http) /\ http'.error_code = http.error_code
      BY <1>1, <1>3 DEF CancelClose, SameParser
    <2>2. SocketInv'
      BY <1>3 DEF CancelClose, SocketInv, NoSocketLost
    <2> QED BY <1>1, <1>3, <2>1, <2>2, SameRequest DEF CancelClose, TypeOK
  <1>4. CASE CancelForget
    <2>1. /\ http' \in Handle /\ SameParser(http', http) /\ http'.error_code = http.error_code
      BY <1>1, <1>4 DEF CancelForget, Handle, SameParser
    <2>2. SocketInv'
      BY <1>1, <1>4 DEF CancelForget, SocketInv, NoSocketLost
    <2> QED BY <1>1, <1>4, <2>1, <2>2, SameRequest DEF CancelForget, TypeOK
  <1> QED BY <1>2, <1>3, <1>4 DEF OtherThread
(* The steps before the first unit.                                              *)
LEMMA BeforeAnswerKeeps ==
    ASSUME HttpInv, Start \/ ConnectHost \/ Connected \/ SendPart \/ Redirect
    PROVE  HttpInv'
  <1>1. /\ TypeOK /\ BufInv /\ FreshInv /\ SocketInv /\ http \in Handle
        /\ http.body_len = Len(http.bytes) /\ None \notin Socks \cup Urls
    BY HttpAssumption DEF HttpInv, PageInv, TypeOK
  <1>2. Len(<< >>) = 0 /\ (\A b : b = << >> => Len(b) <= BufSize)
    BY HttpAssumption
  <1>3. CASE Start
    <2>1. PICK e \in {"OK", "URL"} :
             /\ http' = [Cleared(http) EXCEPT !.error_code = e]
             /\ pc' = IF e = "OK" THEN "connect" ELSE "app"
             /\ url \in Urls
      BY <1>1, <1>3 DEF Start, FreshInv
    <2>2. Cleared(http) \in Handle
      <3>1. << >> \in Seq(Data) /\ << >> \in Seq(Piece)
        OBVIOUS
      <3> QED BY <1>1, <3>1 DEF Cleared, Handle
    <2>3. /\ Cleared(http).fd = None /\ Cleared(http).body = 0 /\ Cleared(http).body_len = 0
          /\ Cleared(http).bytes = << >> /\ Cleared(http).header_field = << >>
          /\ Cleared(http).header_value = << >> /\ Cleared(http).content_length = 0
          /\ Cleared(http).parser_statue = "NONE" /\ Cleared(http).redirect = FALSE
      BY <1>1 DEF Cleared, Handle
    <2>4. /\ http' \in Handle /\ http'.fd = None /\ http'.body = 0 /\ http'.body_len = 0
          /\ http'.bytes = << >> /\ http'.header_field = << >> /\ http'.header_value = << >>
          /\ http'.content_length = 0 /\ http'.parser_statue = "NONE" /\ http'.redirect = FALSE
          /\ http'.error_code = e
      BY <2>1, <2>2, <2>3 DEF Handle
    <2>5. /\ open' = open \ {http.fd} /\ buf' = << >> /\ cut' = FALSE
          /\ UNCHANGED <<url, part, sent, cancel, raced, requests>>
      BY <1>3 DEF Start, others
    <2>6. TypeOK'
      BY <1>1, <1>2, <2>1, <2>4, <2>5 DEF TypeOK, PCs
    <2>7. BufInv' /\ (Reading => ParserInv(url, At, http))'
      BY <2>1, <2>5 DEF BufInv, Reading
    <2>8. FreshInv'
      BY <2>1, <2>4, <2>5 DEF FreshInv
    <2>9. BodyIsOfPage' /\ HeadersSeen' /\ OkIsWhole'
      BY <2>1, <2>4 DEF BodyIsOfPage, HeadersSeen, OkIsWhole
    <2>10. SocketInv'
      BY <1>1, <2>4, <2>5 DEF SocketInv, NoSocketLost
    <2> QED BY <2>6, <2>7, <2>8, <2>9, <2>10 DEF HttpInv, PageInv
  <1>4. CASE ConnectHost
    <2>1. PICK s \in Socks \ open : http' = [http EXCEPT !.fd = s] /\ open' = open \cup {s}
      BY <1>4 DEF ConnectHost
    <2>2. /\ http' \in Handle /\ SameParser(http', http) /\ http'.fd = s
      BY <1>1, <2>1 DEF Handle, SameParser
    <2>3. /\ pc = "connect" /\ pc' = "connecting"
          /\ UNCHANGED <<url, part, buf, sent, cut, cancel, raced, requests>>
      BY <1>4 DEF ConnectHost, net, others
    <2>4. http.bytes = << >> /\ buf = << >> /\ http.body = 0 /\ http.parser_statue = "NONE"
      BY <1>1, <2>3 DEF FreshInv, BufInv, Reading
    <2>5. TypeOK'
      BY <1>1, <1>2, <2>1, <2>2, <2>3, <2>4 DEF TypeOK, PCs, SameParser
    <2>6. BufInv' /\ (Reading => ParserInv(url, At, http))'
      BY <2>3, <2>4 DEF BufInv, Reading
    <2>7. FreshInv'
      BY <1>1, <2>2, <2>3 DEF FreshInv, SameParser
    <2>8. BodyIsOfPage' /\ HeadersSeen' /\ OkIsWhole'
      BY <2>2, <2>3, <2>4 DEF BodyIsOfPage, HeadersSeen, OkIsWhole, SameParser
    <2>9. SocketInv'
      BY <1>1, <2>1, <2>2, <2>3 DEF SocketInv, NoSocketLost
    <2> QED BY <2>5, <2>6, <2>7, <2>8, <2>9 DEF HttpInv, PageInv
  <1>5. CASE Connected
    <2>1. /\ pc = "connecting" /\ pc' = "send" /\ part' = 0 /\ sent' = 0
          /\ UNCHANGED <<http, url, buf, cut, open, cancel, raced, requests>>
      BY <1>5 DEF Connected, others
    <2>2. http.bytes = << >> /\ buf = << >> /\ http.body = 0 /\ http.parser_statue = "NONE"
      BY <1>1, <2>1 DEF FreshInv, BufInv, Reading
    <2>3. 0 \in 0 .. Parts /\ 0 < Parts
      BY HttpAssumption
    <2>4. TypeOK'
      BY <1>1, <1>2, <2>1, <2>2, <2>3 DEF TypeOK, PCs
    <2>5. BufInv' /\ (Reading => ParserInv(url, At, http))'
      BY <2>1, <2>2 DEF BufInv, Reading
    <2>6. FreshInv'
      BY <1>1, <2>1, <2>3 DEF FreshInv
    <2>7. BodyIsOfPage' /\ HeadersSeen' /\ OkIsWhole'
      BY <2>1, <2>2 DEF BodyIsOfPage, HeadersSeen, OkIsWhole
    <2>8. SocketInv'
      BY <1>1, <2>1 DEF SocketInv, NoSocketLost
    <2> QED BY <2>4, <2>5, <2>6, <2>7, <2>8 DEF HttpInv, PageInv
  <1>6. CASE SendPart
    <2>1. /\ pc = "send" /\ part' = part + 1 /\ pc' = IF part + 1 = Parts THEN "recv" ELSE "send"
          /\ UNCHANGED <<http, url, buf, sent, cut, open, cancel, raced, requests>>
      BY <1>6 DEF SendPart, net, others
    <2>2. /\ http.bytes = << >> /\ buf = << >> /\ http.body = 0 /\ http.parser_statue = "NONE"
          /\ http.header_field = << >> /\ http.header_value = << >> /\ http.content_length = 0
          /\ sent = 0 /\ part < Parts /\ url \in Urls /\ ~ http.redirect
      BY <1>1, <2>1 DEF FreshInv, BufInv, Reading
    <2>3. part + 1 \in 0 .. Parts /\ (part + 1 = Parts \/ part + 1 < Parts)
      BY <1>1, <2>2, HttpAssumption DEF TypeOK
    <2>4. TypeOK'
      BY <1>1, <1>2, <2>1, <2>2, <2>3 DEF TypeOK, PCs
    <2>5. At' = 0 /\ Len(buf') = 0
      <3>1. Len(buf') = 0
        BY <2>1, <2>2
      <3>2. sent' = 0
        BY <2>1, <2>2
      <3>3. sent' - Len(buf') = 0
        BY <3>1, <3>2
      <3> QED BY <3>1, <3>3 DEF At
    <2>6. ParserInv(url, 0, http)
      <3>1. /\ Len(HeadOf(url)) \in Nat /\ Len(BodyOf(url)) \in Nat /\ http.body_len = 0
            /\ Passed(url, 0) = 0
        BY <1>1, <1>2, <2>2, AnswerType DEF Passed
      <3>2. StatueInv(url, 0, http) /\ TextInv(url, 0, http) /\ StatusInv(url, 0, http)
        BY <2>2 DEF StatueInv, TextInv, StatusInv
      <3>3. SeenInv(url, 0, http)
        BY <2>2 DEF SeenInv
      <3>4. BodyInv(url, 0, http)
        BY <2>2, <3>1 DEF BodyInv
      <3> QED BY <3>2, <3>3, <3>4 DEF ParserInv
    <2>7. BufInv'
      <3>1. << >> \in Seq({UnitOf(url, n) : n \in 1 .. Size(url)}) /\ Size(url) \in Nat
        BY <2>2, AnswerType
      <3>2. Want' = BufSize
        BY <2>1, <2>2 DEF Want, Direct
      <3>3. 0 <= BufSize
        BY HttpAssumption
      <3>4. \A i \in 1 .. Len(buf') : buf'[i] = UnitOf(url', At' + i)
        BY <2>5
      <3> QED BY <2>1, <2>2, <2>5, <3>1, <3>2, <3>3, <3>4 DEF BufInv, Reading
    <2>8. (Reading => ParserInv(url, At, http))'
      BY <2>1, <2>5, <2>6
    <2>9. FreshInv'
      BY <1>1, <2>1, <2>2, <2>3 DEF FreshInv
    <2>10. BodyIsOfPage' /\ HeadersSeen' /\ OkIsWhole'
      BY <2>1, <2>2 DEF BodyIsOfPage, HeadersSeen, OkIsWhole
    <2>11. SocketInv'
      BY <1>1, <2>1 DEF SocketInv, NoSocketLost
    <2> QED BY <2>4, <2>7, <2>8, <2>9, <2>10, <2>11 DEF HttpInv, PageInv
  <1>7. CASE Redirect
    <2>1. /\ pc = "redirect" /\ pc' = "start" /\ url' = http.redirect_url
          /\ UNCHANGED <<http, part, buf, sent, cut, open, cancel, raced, requests>>
      BY <1>7 DEF Redirect, net, others
    <2>2. buf = << >>
      BY <1>1, <2>1 DEF BufInv, Reading
    <2>3. url' \in Urls
      <3>1. PICK n \in 1 .. Size(url) : Names(url, n, "Location", http.redirect_url)
        BY <1>1, <2>1 DEF FreshInv
      <3>2. url \in Urls
        BY <1>1, <2>1 DEF FreshInv
      <3> QED BY <2>1, <3>1, <3>2, UnitWellFormed
    <2>4. TypeOK'
      BY <1>1, <1>2, <2>1, <2>2, <2>3 DEF TypeOK, PCs
    <2>5. BufInv' /\ (Reading => ParserInv(url, At, http))'
      BY <2>1, <2>2 DEF BufInv, Reading
    <2>6. FreshInv' /\ BodyIsOfPage' /\ HeadersSeen' /\ OkIsWhole'
      BY <2>1, <2>3 DEF FreshInv, BodyIsOfPage, HeadersSeen, OkIsWhole
    <2>7. SocketInv'
      BY <1>1, <2>1 DEF SocketInv, NoSocketLost
    <2> QED BY <2>4, <2>5, <2>6, <2>7 DEF HttpInv, PageInv
  <1> QED BY <1>3, <1>4, <1>5, <1>6, <1>7

LEMMA FailureKeeps ==
    ASSUME HttpInv, ConnectFails \/ SendFails \/ RecvFails
    PROVE  HttpInv'
  <1>1. TypeOK /\ BufInv /\ http \in Handle
    BY DEF HttpInv, PageInv, TypeOK
  <1>2. http = [http EXCEPT !.pf = http.pf] /\ http.pf \in Files \cup {None}
    BY <1>1 DEF Handle
  <1>3. PICK e \in {"CONNECT", "WRITE", "READ", "PARSE"} :
           /\ Return(http, e) /\ pc \in {"connect", "connecting", "send", "recv", "parse"}
           /\ buf' = << >> /\ cut' \in BOOLEAN
    BY <1>1 DEF ConnectFails, SendFails, RecvFails, BufInv, Reading, TypeOK
  <1>4. Return([http EXCEPT !.pf = http.pf], e)
    BY <1>2, <1>3
  <1> QED BY <1>2, <1>3, <1>4, FailKeeps
(* One more unit is received.                                                    *)
LEMMA RecvSomeKeeps ==
    ASSUME HttpInv, RecvSome
    PROVE  HttpInv'
  <1>1. /\ TypeOK /\ BufInv /\ FreshInv /\ SocketInv /\ BodyIsOfPage /\ HeadersSeen
        /\ http \in Handle /\ sent \in Nat
    BY DEF HttpInv, PageInv, TypeOK
  <1>2. /\ pc = "recv" /\ sent < Size(url) /\ Len(buf) < Want
        /\ buf' = Append(buf, UnitOf(url, sent + 1)) /\ sent' = sent + 1
        /\ UNCHANGED <<http, url, pc, part, cut, open, cancel, raced, requests>>
    BY DEF RecvSome, request, others
  <1>3. /\ url \in Urls /\ Size(url) \in Nat /\ ParserInv(url, At, http)
    BY <1>1, <1>2, AnswerType DEF FreshInv, HttpInv, Reading
  <1> DEFINE S == {UnitOf(url, n) : n \in 1 .. Size(url)}
  <1>4. /\ buf \in Seq(S) /\ At \in Nat /\ \A i \in 1 .. Len(buf) : buf[i] = UnitOf(url, At + i)
    BY <1>1, <1>2 DEF BufInv, Reading
  <1>5. UnitOf(url, sent + 1) \in S
    <2>1. sent + 1 \in 1 .. Size(url)
      BY <1>1, <1>2, <1>3
    <2> QED BY <2>1
  <1> HIDE DEF S
  <1>6. /\ buf' \in Seq(S) /\ Len(buf') = Len(buf) + 1 /\ Len(buf) \in Nat
        /\ buf'[Len(buf) + 1] = UnitOf(url, sent + 1)
        /\ \A i \in 1 .. Len(buf) : buf'[i] = buf[i]
    BY <1>2, <1>4, <1>5, AppendProperties
  <1>7. At' = At /\ sent + 1 = At + (Len(buf) + 1)
    BY <1>1, <1>2, <1>6 DEF At
  <1>8. Want' = Want /\ (Direct' <=> Direct) /\ Len(buf') <= Want
    <2>1. Want' = Want /\ (Direct' <=> Direct)
      BY <1>2 DEF Want, Direct
    <2>2. Want \in Int
      BY <1>1, HttpAssumption DEF Want, Handle
    <2> QED BY <1>2, <1>6, <2>1, <2>2
  <1>9. TypeOK'
    <2>1. Len(buf') <= BufSize \/ Direct'
      BY <1>8 DEF Want
    <2> QED BY <1>1, <1>2, <2>1 DEF TypeOK
  <1>10. BufInv'
    <2>1. ASSUME NEW i \in 1 .. Len(buf') PROVE buf'[i] = UnitOf(url', At' + i)
      <3>1. CASE i = Len(buf) + 1
        BY <1>2, <1>6, <1>7, <3>1
      <3>2. CASE i # Len(buf) + 1
        <4>1. i \in 1 .. Len(buf)
          BY <1>6, <3>2
        <4> QED BY <1>2, <1>4, <1>6, <1>7, <4>1
      <3> QED BY <3>1, <3>2
    <2>2. buf' \in Seq({UnitOf(url', n) : n \in 1 .. Size(url')})
      BY <1>2, <1>6 DEF S
    <2>3. At' \in Nat /\ sent' <= Size(url')
      BY <1>1, <1>2, <1>3, <1>4, <1>7
    <2> QED BY <1>2, <1>8, <2>1, <2>2, <2>3 DEF BufInv, Reading
  <1>11. (Reading => ParserInv(url, At, http))'
    BY <1>2, <1>3, <1>7
  <1>12. FreshInv'
    BY <1>1, <1>2 DEF FreshInv
  <1>13. BodyIsOfPage' /\ HeadersSeen' /\ OkIsWhole' /\ SocketInv'
    BY <1>1, <1>2 DEF BodyIsOfPage, HeadersSeen, OkIsWhole, SocketInv, NoSocketLost
  <1> QED BY <1>9, <1>10, <1>11, <1>12, <1>13 DEF HttpInv, PageInv

(* What was read past the parser is the next part of the page.                   *)
LEMMA ReceivedBody ==
    ASSUME HttpInv, pc = "recv", buf = << >> \/ Direct
    PROVE  LET m == http.body_len + Len(buf)
               t == Payload(buf)
           IN  /\ http.bytes \o t \in Seq(Data) /\ Len(http.bytes \o t) = m
               /\ m \in 0 .. Len(BodyOf(url))
               /\ http.bytes \o t = SubSeq(BodyOf(url), 1, m)
               /\ http.body # 0 => m < http.body
               /\ ~ http.download => m = Passed(url, sent)
  <1>1. /\ TypeOK /\ BufInv /\ FreshInv /\ http \in Handle /\ http.body_len = Len(http.bytes)
        /\ ParserInv(url, At, http) /\ sent \in Nat
    BY DEF HttpInv, PageInv, TypeOK, Reading
  <1>2. /\ url \in Urls /\ Size(url) \in Nat /\ Len(HeadOf(url)) \in Nat
        /\ Len(BodyOf(url)) \in Nat /\ BodyOf(url) \in Seq(Data)
    BY <1>1, AnswerType DEF FreshInv
  <1>3. /\ buf \in Seq({UnitOf(url, n) : n \in 1 .. Size(url)}) /\ Len(buf) \in Nat
        /\ At \in Nat /\ sent <= Size(url) /\ sent = At + Len(buf)
        /\ \A i \in 1 .. Len(buf) : buf[i] = UnitOf(url, At + i)
        /\ Len(buf) <= Want
    <2>1. buf \in Seq({UnitOf(url, n) : n \in 1 .. Size(url)}) /\ Len(buf) \in Nat
      BY <1>1 DEF BufInv, Reading
    <2>2. sent = At + Len(buf)
      BY <1>1, <2>1 DEF At
    <2> QED BY <1>1, <2>1, <2>2 DEF BufInv, Reading
  <1>4. BodyInv(url, At, http) /\ StatueInv(url, At, http)
    BY <1>1 DEF ParserInv
  <1>5. PICK s \in Seq(Data) : s = http.bytes
    BY <1>1 DEF Handle
  <1>6. PICK k \in Nat : k = http.body_len /\ k = Len(s)
    BY <1>1, <1>5
  <1>7. PICK l \in Nat : l = Len(buf)
    BY <1>3
  <1>8. /\ http.body # 0 => k < http.body
        /\ s = SubSeq(BodyOf(url), 1, k) /\ k \in 0 .. Len(BodyOf(url))
    BY <1>1, <1>2, <1>3, <1>4, <1>5, <1>6, PageOfBody
  <1>9. PICK t : t = Payload(buf)
    OBVIOUS
  <1>10. CASE buf = << >>
    <2>1. l = 0 /\ t = << >> /\ k + l = k /\ sent = At
      BY <1>3, <1>7, <1>10, <1>9 DEF Payload
    <2>2. s \o t = s
      BY <2>1, ConcatEmptySeq
    <2>3. ~ http.download => k = Passed(url, sent)
      BY <1>4, <1>6, <2>1 DEF BodyInv
    <2> QED BY <1>5, <1>6, <1>7, <1>8, <1>9, <2>1, <2>2, <2>3
  <1>11. CASE buf # << >> /\ Direct
    <2>1. /\ ~ http.download /\ http.parser_statue = "BODY" /\ http.body > 0
          /\ http.content_length > 0
      BY <1>11 DEF Direct
    <2>2. /\ http.content_length = Len(BodyOf(url)) /\ k = Passed(url, At)
          /\ http.body = Len(BodyOf(url)) + 1
      BY <1>1, <1>2, <1>4, <1>6, <2>1 DEF BodyInv, Handle
    <2>3. l <= Len(BodyOf(url)) - k
      BY <1>3, <1>6, <1>7, <1>11, <2>2 DEF Want
    <2>4. l > 0
      BY <1>3, <1>7, <1>11
    <2>5. At >= Len(HeadOf(url))
      <3>1. At \in 1 .. Size(url) /\ UnitOf(url, At).cb \in {"headers_complete", "body"}
        BY <1>2, <1>3, <1>4, <2>1 DEF StatueInv
      <3> QED BY <1>2, <3>1, UnitWellFormed, BodyUnit
    <2>6. k = At - Len(HeadOf(url)) /\ k + l <= Len(BodyOf(url))
      BY <1>2, <1>3, <2>2, <2>3, <2>4, <2>5 DEF Passed
    <2>7. k + l = Passed(url, sent)
      BY <1>2, <1>3, <1>7, <2>4, <2>5, <2>6 DEF Passed
    <2>8. ASSUME NEW i \in 1 .. l
          PROVE  t[i] = BodyOf(url)[k + i] /\ k + i \in 1 .. Len(BodyOf(url))
      <3>1. PICK n \in 1 .. Size(url) : n = At + i
        BY <1>2, <1>3, <1>7
      <3>2. n > Len(HeadOf(url)) /\ n <= Len(HeadOf(url)) + Len(BodyOf(url)) /\ n - Len(HeadOf(url)) = k + i
        BY <1>2, <1>3, <2>5, <2>6, <3>1
      <3>3. UnitOf(url, n) = [cb |-> "body", text |-> <<BodyOf(url)[n - Len(HeadOf(url))]>>]
        BY <1>2, <3>2, UnitKinds
      <3>4. t[i] = buf[i].text[1] /\ buf[i] = UnitOf(url, n)
        BY <1>3, <1>7, <1>9, <3>1 DEF Payload
      <3>5. t[i] = BodyOf(url)[k + i]
        BY <3>2, <3>3, <3>4
      <3>6. k + i \in 1 .. Len(BodyOf(url))
        BY <1>2, <2>6
      <3> QED BY <3>5, <3>6
    <2>9. t \in Seq(Data) /\ Len(t) = l
      <3>1. \A i \in 1 .. l : t[i] \in Data
        BY <1>2, <2>8
      <3>2. t = [i \in 1 .. l |-> t[i]]
        BY <1>7, <1>9 DEF Payload
      <3> QED BY <3>1, <3>2
    <2>10. /\ s \o t \in Seq(Data) /\ Len(s \o t) = k + l
           /\ \A i \in 1 .. k + l : (s \o t)[i] = IF i <= k THEN s[i] ELSE t[i - k]
      <3>1. Len(s) = k /\ Len(t) = l /\ k \in Nat /\ l \in Nat
        BY <1>6, <1>7, <2>9
      <3>2. /\ s \o t \in Seq(Data) /\ Len(s \o t) = Len(s) + Len(t)
            /\ \A i \in 1 .. Len(s) + Len(t) :
                  (s \o t)[i] = IF i <= Len(s) THEN s[i] ELSE t[i - Len(s)]
        BY <2>9, ConcatProperties
      <3> QED BY <3>1, <3>2
    <2>11. \A i \in 1 .. k : s[i] = BodyOf(url)[i]
      BY <1>4, <1>5, <1>6 DEF BodyInv
    <2>12. ASSUME NEW i \in 1 .. k + l PROVE (s \o t)[i] = BodyOf(url)[i]
      <3>1. CASE i <= k
        BY <2>10, <2>11, <3>1
      <3>2. CASE i > k
        <4>1. PICK j \in 1 .. l : j = i - k /\ k + j = i
          <5>1. i - k \in 1 .. l /\ k + (i - k) = i
            BY <3>2
          <5> QED BY <5>1
        <4>2. (s \o t)[i] = t[i - k]
          BY <2>10, <3>2
        <4> QED BY <2>8, <4>1, <4>2
      <3>3. i <= k \/ i > k
        OBVIOUS
      <3> QED BY <3>1, <3>2, <3>3
    <2>13. PICK r \in Seq(Data) :
              /\ r = SubSeq(BodyOf(url), 1, k + l) /\ Len(r) = k + l
              /\ \A i \in 1 .. k + l : r[i] = BodyOf(url)[i]
      <3>1. k + l \in 0 .. Len(BodyOf(url))
        BY <2>6
      <3>2. PICK j \in 0 .. Len(BodyOf(url)) : j = k + l
        BY <3>1
      <3>3. /\ SubSeq(BodyOf(url), 1, j) \in Seq(Data) /\ Len(SubSeq(BodyOf(url), 1, j)) = j
            /\ \A i \in 1 .. j : SubSeq(BodyOf(url), 1, j)[i] = BodyOf(url)[i]
        BY <1>2, <3>2, SubSeqProperties
      <3> QED BY <3>2, <3>3
    <2>14. s \o t = r
      BY <2>10, <2>12, <2>13, SeqEqual
    <2>15. k + l < http.body /\ k + l \in 0 .. Len(BodyOf(url))
      BY <1>2, <2>2, <2>6
    <2> QED BY <1>5, <1>6, <1>7, <1>9, <2>7, <2>10, <2>13, <2>14, <2>15
  <1> QED BY <1>10, <1>11
(* The end of a read: the parser gets what was read, or the request is over, and *)
(* then has the whole page if nothing was cut.                                   *)
LEMMA ReceivedKeeps ==
    ASSUME HttpInv, pc = "recv", Received, cut' \in BOOLEAN,
           buf = << >> \/ Direct =>
              (~ cut' /\ ~ http.download => http.body_len + Len(buf) = Len(BodyOf(url)))
    PROVE  HttpInv'
  <1>1. /\ TypeOK /\ BufInv /\ FreshInv /\ SocketInv /\ BodyIsOfPage /\ HeadersSeen
        /\ http \in Handle /\ ParserInv(url, At, http) /\ ~ http.redirect
    BY DEF HttpInv, PageInv, TypeOK, Reading, FreshInv
  <1>2. /\ buf \in Seq({UnitOf(url, n) : n \in 1 .. Size(url)}) /\ Len(buf) <= Want
        /\ At \in Nat /\ sent <= Size(url)
        /\ \A i \in 1 .. Len(buf) : buf[i] = UnitOf(url, At + i)
    BY <1>1 DEF BufInv, Reading
  <1>3. CASE buf # << >> /\ ~ Direct
    <2>1. /\ pc' = "parse"
          /\ UNCHANGED <<http, url, part, buf, sent, open, cancel, raced, requests>>
      BY <1>3 DEF Received, others
    <2>2. Len(buf) \in 1 .. BufSize
      BY <1>2, <1>3, HttpAssumption DEF Want
    <2>3. At' = At
      BY <2>1 DEF At
    <2>4. TypeOK'
      BY <1>1, <2>1, <2>2 DEF TypeOK, PCs
    <2>5. BufInv'
      <3>1. \A i \in 1 .. Len(buf') : buf'[i] = UnitOf(url', At' + i)
        BY <1>2, <2>1, <2>3
      <3> QED BY <1>2, <2>1, <2>2, <2>3, <3>1 DEF BufInv, Reading
    <2>6. FreshInv' /\ (Reading => ParserInv(url, At, http))'
      BY <1>1, <2>1, <2>3 DEF FreshInv
    <2>7. BodyIsOfPage' /\ HeadersSeen' /\ OkIsWhole' /\ SocketInv'
      BY <1>1, <2>1 DEF BodyIsOfPage, HeadersSeen, OkIsWhole, SocketInv, NoSocketLost
    <2> QED BY <2>4, <2>5, <2>6, <2>7 DEF HttpInv, PageInv
  <1>4. CASE buf = << >> \/ Direct
    <2> DEFINE m == http.body_len + Len(buf)
               t == http.bytes \o Payload(buf)
    <2>1. /\ t \in Seq(Data) /\ Len(t) = m
          /\ m \in 0 .. Len(BodyOf(url)) /\ t = SubSeq(BodyOf(url), 1, m)
          /\ http.body # 0 => m < http.body
      BY <1>4, ReceivedBody
    <2>2. Finish([http EXCEPT !.body_len = @ + Len(buf), !.bytes = @ \o Payload(buf)]) /\ buf' = << >>
      BY <1>4 DEF Received
    <2>3. Finish([http EXCEPT !.body_len = m, !.bytes = t])
      BY <1>1, <2>2 DEF Handle
    <2> HIDE DEF m, t
    <2>4. PICK f \in Files \cup {None} : f = IF http.download THEN None ELSE http.pf
      BY <1>1 DEF Handle
    <2>5. PICK g : g = [http EXCEPT !.body_len = m, !.bytes = t]
      OBVIOUS
    <2>6. m \in Nat /\ Len(BodyOf(url)) \in Nat
      BY <1>1, <2>1, AnswerType DEF FreshInv
    <2>7. /\ g \in Handle /\ g.pf = http.pf /\ g.error_code = http.error_code
          /\ g.fd = http.fd /\ g.body_len = m /\ g.bytes = t /\ g.body = http.body
          /\ g.redirect = http.redirect /\ g.parser_statue = http.parser_statue
          /\ g.content_length = http.content_length /\ g.download = http.download
      BY <1>1, <2>1, <2>5, <2>6 DEF Handle
    <2>8. Return([g EXCEPT !.pf = f], g.error_code)
      BY <2>3, <2>4, <2>5, <2>7 DEF Finish, Handle
    <2>9. /\ http' = [[g EXCEPT !.pf = f] EXCEPT !.error_code = g.error_code] /\ pc' = "app"
          /\ UNCHANGED <<url, part, sent, open, cancel, raced, requests>>
      BY <2>8 DEF Return
    <2>10. /\ http' \in Handle
           /\ http'.fd = http.fd /\ http'.body_len = m /\ http'.bytes = t /\ http'.body = http.body
           /\ http'.redirect = http.redirect /\ http'.parser_statue = http.parser_statue
           /\ http'.content_length = http.content_length /\ http'.download = http.download
      BY <2>7, <2>9 DEF Handle
    <2>11. TypeOK'
      <3>1. (Len(buf) <= BufSize)'
        BY <2>2, HttpAssumption
      <3>2. (http.body_len = Len(http.bytes))'
        BY <2>1, <2>10
      <3> QED BY <1>1, <2>9, <2>10, <3>1, <3>2 DEF TypeOK, PCs
    <2>12. BufInv' /\ (Reading => ParserInv(url, At, http))'
      BY <2>2, <2>9 DEF BufInv, Reading
    <2>13. FreshInv' /\ SocketInv'
      BY <1>1, <2>9, <2>10 DEF FreshInv, SocketInv, NoSocketLost
    <2>14. BodyIsOfPage'
      BY <2>1, <2>9, <2>10 DEF BodyIsOfPage
    <2>15. HeadersSeen'
      BY <1>1, <2>9, <2>10 DEF HeadersSeen, Seen
    <2>16. OkIsWhole'
      <3> SUFFICES ASSUME ~ cut', ~ http.download PROVE t = BodyOf(url)
        BY <2>9, <2>10 DEF OkIsWhole
      <3>1. m = Len(BodyOf(url))
        BY <1>4 DEF m
      <3>2. BodyOf(url) \in Seq(Data)
        BY <1>1, AnswerType DEF FreshInv
      <3>3. SubSeq(BodyOf(url), 1, Len(BodyOf(url))) = BodyOf(url)
        BY <3>2, SubSeqFull
      <3> QED BY <2>1, <3>1, <3>3
    <2> QED BY <2>11, <2>12, <2>13, <2>14, <2>15, <2>16 DEF HttpInv, PageInv
  <1> QED BY <1>3, <1>4

LEMMA RecvEndKeeps ==
    ASSUME HttpInv, RecvFull \/ RecvClosed
    PROVE  HttpInv'
  <1>1. /\ TypeOK /\ BufInv /\ FreshInv /\ http \in Handle /\ ParserInv(url, At, http)
        /\ pc = "recv" /\ Received /\ sent \in Nat /\ cut \in BOOLEAN
    BY DEF HttpInv, PageInv, TypeOK, Reading, RecvFull, RecvClosed
  <1>2. /\ url \in Urls /\ Len(BodyOf(url)) \in Nat /\ Len(HeadOf(url)) \in Nat
        /\ Len(TailOf(url)) \in Nat /\ sent <= Size(url)
        /\ Size(url) = Len(HeadOf(url)) + Len(BodyOf(url)) + Len(TailOf(url))
    BY <1>1, AnswerType DEF FreshInv, BufInv, Reading, Size
  <1>3. cut' \in BOOLEAN
    <2>1. (sent < Size(url)) \in BOOLEAN
      OBVIOUS
    <2> QED BY <1>1, <2>1 DEF RecvFull, RecvClosed
  <1>4. ASSUME buf = << >> \/ Direct, ~ cut', ~ http.download
        PROVE  http.body_len + Len(buf) = Len(BodyOf(url))
    <2>1. CASE RecvFull
      <3>1. Len(buf) = Want
        BY <2>1 DEF RecvFull
      <3>2. Direct
        <4>1. BufSize # 0 /\ Len(<< >>) = 0
          BY HttpAssumption
        <4> QED BY <1>4, <3>1, <4>1 DEF Want
      <3>3. http.content_length = Len(BodyOf(url)) /\ http.body_len \in Nat
        BY <1>1, <1>2, <3>2 DEF Direct, ParserInv, BodyInv, Handle
      <3> QED BY <1>2, <3>1, <3>2, <3>3 DEF Want
    <2>2. CASE RecvClosed
      <3>1. sent = Size(url)
        <4>1. ~ (sent < Size(url))
          BY <1>4, <2>2 DEF RecvClosed
        <4>2. Size(url) \in Nat
          BY <1>2
        <4> QED BY <1>1, <1>2, <4>1, <4>2
      <3>2. Passed(url, sent) = Len(BodyOf(url))
        BY <1>2, <3>1 DEF Passed
      <3> QED BY <1>1, <1>4, <3>2, ReceivedBody
    <2> QED BY <2>1, <2>2
  <1> QED BY <1>1, <1>3, <1>4, ReceivedKeeps

LEMMA HttpInit ==
    ASSUME Init
    PROVE  HttpInv
  <1>1. NewHandle \in Handle
    <2>1. << >> \in Seq(Data) /\ << >> \in Seq(Piece)
      OBVIOUS
    <2> QED BY <2>1 DEF NewHandle, Handle
  <1>2. /\ http = NewHandle /\ http.fd = None /\ http.body_len = 0 /\ http.bytes = << >>
        /\ http.redirect = FALSE /\ http.body = 0 /\ http.parser_statue = "NONE"
    BY DEF Init, NewHandle
  <1>3. Len(buf) = 0 /\ 0 <= BufSize /\ 0 \in 0 .. Parts
    BY HttpAssumption DEF Init
  <1>4. TypeOK
    BY <1>1, <1>2, <1>3 DEF Init, TypeOK, PCs
  <1>5. BufInv /\ FreshInv /\ ~ Reading
    BY <1>2 DEF Init, BufInv, FreshInv, Reading
  <1>6. BodyIsOfPage /\ HeadersSeen /\ OkIsWhole /\ SocketInv
    BY <1>2 DEF Init, BodyIsOfPage, HeadersSeen, OkIsWhole, SocketInv, NoSocketLost
  <1> QED BY <1>4, <1>5, <1>6 DEF HttpInv, PageInv

LEMMA HttpNext ==
    ASSUME HttpInv, [Next]_vars
    PROVE  HttpInv'
  <1>1. CASE Call
    BY <1>1, CallKeeps
  <1>2. CASE OtherThread
    BY <1>2, OtherThreadKeeps
  <1>3. CASE Transfer
    BY <1>3, BeforeAnswerKeeps, FailureKeeps, RecvSomeKeeps, RecvEndKeeps DEF Transfer
  <1>4. CASE Parse
    BY <1>4, ParseKeeps
  <1>5. CASE UNCHANGED vars
    <2>1. /\ TypeOK /\ SocketInv /\ http \in Handle
          /\ UNCHANGED <<http, url, pc, part, buf, sent, cut, open, cancel, raced, requests>>
      BY <1>5 DEF HttpInv, PageInv, TypeOK, vars
    <2>2. SocketInv'
      BY <2>1 DEF SocketInv, NoSocketLost
    <2> QED BY <2>1, <2>2, SameRequest DEF SameParser, TypeOK
  <1> QED BY <1>1, <1>2, <1>3, <1>4, <1>5 DEF Next

(* The inductive invariant.                                                      *)
THEOREM HttpHolds == Spec => []HttpInv
  <1>1. Init => HttpInv
    BY HttpInit
  <1>2. HttpInv /\ [Next]_vars => HttpInv'
    BY HttpNext
  <1> QED BY <1>1, <1>2, PTL DEF Spec

(* Every request that returns ERR_OK on a connection that was not cut has the    *)
(* whole page, whatever the answer and however it came in pieces; what the       *)
(* handle keeps is of the page of this very request, and no header was passed    *)
(* over.                                                                         *)
THEOREM PageKept == Spec => []PageInv
  <1>1. HttpInv => PageInv
    BY DEF HttpInv
  <1> QED BY <1>1, HttpHolds, PTL

(* The only open descriptor is the handle's, and none outlives the handle, as    *)
(* long as no other thread cancels.                                              *)
THEOREM SocketKept == Spec => []NoSocketLost
  <1>1. HttpInv => NoSocketLost
    BY DEF HttpInv, SocketInv
  <1> QED BY <1>1, HttpHolds, PTL

LEMMA LocationFollowed ==
    ASSUME HttpInv, [Next]_vars, pc = "redirect", pc' = "start"
    PROVE  \E n \in 1 .. Size(url) : Names(url, n, "Location", url')
  <1>1. \E n \in 1 .. Size(url) : Names(url, n, "Location", http.redirect_url)
    BY DEF HttpInv, FreshInv
  <1>2. url' = http.redirect_url
    BY DEF Next, Call, Get, Download, Request, Destroy, OtherThread, Exit, CancelClose,
           CancelForget, Transfer, Start, ConnectHost, Connected, ConnectFails, SendPart,
           SendFails, RecvSome, RecvFull, RecvClosed, RecvFails, Redirect, Parse, OnStatus,
           OnHeaderField, OnHeaderValue, OnHeadersComplete, OnBody, OnDownload, Malformed,
           Parsing, Return, request, vars
  <1> QED BY <1>1, <1>2

LEMMA PageSaved ==
    ASSUME HttpInv, [Next]_vars, disk' # disk, HasReason(url)
    PROVE  url \in OkUrls
  <1>1. pc = "parse" /\ OnDownload /\ http.status_ok
    BY DEF Next, Call, Get, Download, Request, Destroy, OtherThread, Exit, CancelClose,
           CancelForget, Transfer, Start, ConnectHost, Connected, ConnectFails, SendPart,
           SendFails, RecvSome, RecvFull, RecvClosed, RecvFails, Redirect, Parse, OnStatus,
           OnHeaderField, OnHeaderValue, OnHeadersComplete, OnBody, OnDownload, Malformed,
           Parsing, Return, Received, vars
  <1>2. Parsable(url, At, http) /\ UnitOf(url, At + 1).cb = "body"
    BY <1>1, ParseStarts DEF OnDownload, Parsing
  <1>3. At > 0 /\ StatusInv(url, At, http)
    BY <1>2, BodyPlace DEF Parsable, ParserInv
  <1> QED BY <1>1, <1>3 DEF StatusInv

(* A redirected request goes where a Location header of the answer points, and   *)
(* the page of an error is not saved.                                            *)
THEOREM AnswersObeyed == Spec => AnswersAreObeyed
  <1>1. /\ HttpInv /\ [Next]_vars =>
              [pc = "redirect" /\ pc' = "start" =>
                  \E n \in 1 .. Size(url) : Names(url, n, "Location", url')]_vars
        /\ HttpInv /\ [Next]_vars =>
              [disk' # disk /\ HasReason(url) => url \in OkUrls]_vars
    BY LocationFollowed, PageSaved
  <1> QED BY <1>1, HttpHolds, PTL DEF Spec, AnswersAreObeyed, FollowsLocation, ErrorPageNotSaved
=============================================================================
