-------------------------------- MODULE Certs -------------------------------
(***************************************************************************)
(* The certificates of krypton.c: the files that hold them, the encoding   *)
(* they are read from, the names they are valid for, and the chain from a  *)
(* certificate of the store to the one of the server.                      *)
(*                                                                         *)
(* What is read are octets, and a pointer counts how many are before it.   *)
(* Object identifiers and names are shorter than the real ones.  A         *)
(* signature is opened by the key it was made with.                        *)
(***************************************************************************)
EXTENDS Integers, Sequences, SequencesExt, FiniteSets

CONSTANTS
    Certificates,   \* the certificates that are encoded and read
    HostNames, CertNames, \* the names that are asked for, and those in certificates
    Chains,         \* the chains of a server, and the stores they are verified with
    Files, Masks,   \* the lines of files, and the types asked for
    Keys            \* the numbers of a private key

VARIABLE call       \* the last call: what was asked, and what came back

vars == <<call>>

--------------------------------------------------------------------------
(* do_decode_tag and ber_decode_tag *)
Bad == [ok |-> FALSE, at |-> 0, next |-> 0, tag |-> -1, len |-> 0]

RECURSIVE BigEndian(_)
BigEndian(s) == IF s = <<>> THEN 0 ELSE (256 * BigEndian(Front(s))) + Last(s)

Element(tag, at, len, end) ==
    IF at + len > end THEN Bad ELSE [ok |-> TRUE, at |-> at, next |-> at + len, tag |-> tag, len |-> len]

LongForm(s, tag, p, ll, end) ==
    IF p + ll > end \/ ll > 4 THEN Bad ELSE Element(tag, p + ll, BigEndian(SubSeq(s, p + 1, p + ll)), end)

Length(s, tag, p, end) ==
    IF s[p + 1] < 128 THEN Element(tag, p + 1, s[p + 1], end) ELSE LongForm(s, tag, p + 1, s[p + 1] - 128, end)

ber_decode_tag(s, ptr, end) ==
    IF end - ptr < 2 THEN Bad
    ELSE IF s[ptr + 1] % 32 # 31 THEN Length(s, s[ptr + 1], ptr + 1, end)
    ELSE IF s[ptr + 2] >= 128 \/ ptr + 2 >= end THEN Bad
    ELSE Length(s, (256 * s[ptr + 1]) + s[ptr + 2], ptr + 2, end)

Constructed(t) == ((IF t.tag > 255 THEN t.tag \div 256 ELSE t.tag) \div 32) % 2 = 1
Value(s, t) == SubSeq(s, t.at + 1, t.next)

--------------------------------------------------------------------------
(* b64_decode: a character is a number below 64, 64 is '=', and more is none of them. *)
decode_block1(b) == <<((4 * b[1]) % 256) + (b[2] \div 16)>>
decode_block2(b) == decode_block1(b) \o <<((16 * b[2]) % 256) + (b[3] \div 4)>>
decode_block3(b) == decode_block2(b) \o <<((64 * b[3]) % 256) + b[4]>>

Failed == <<-1>>
Good(b, n) == \A j \in 1 .. n : b[j] < 64

Block(b) == IF b[1] = 64 THEN <<>>
            ELSE IF b[3] = 64 THEN IF Good(b, 2) THEN decode_block1(b) ELSE Failed
            ELSE IF b[4] = 64 THEN IF Good(b, 3) THEN decode_block2(b) ELSE Failed
            ELSE IF Good(b, 4) THEN decode_block3(b) ELSE Failed

RECURSIVE Decoded(_, _)
DecodedAt(b, buf, out) == IF b = Failed THEN Failed ELSE Decoded(buf, out \o b)
Decoded(buf, out) == IF buf = <<>> THEN out
                     ELSE IF Len(buf) < 4 THEN Failed
                     ELSE DecodedAt(Block(buf), SubSeq(buf, 5, Len(buf)), out)
b64_decode(buf) == Decoded(buf, <<>>)

(* pem_load, line by line: a line is a marker of a type, content, or something else. *)
NoObject == [type |-> "none", der |-> <<>>]
Begun(p, type) == [p EXCEPT !.cur = [type |-> type, der |-> <<>>]]
Ended(p, mask) ==
    [p EXCEPT !.cur = NoObject, !.obj = IF p.cur.type \in mask THEN Append(@, p.cur) ELSE @]
Added(p, dec) == IF dec = Failed THEN [p EXCEPT !.ok = FALSE] ELSE [p EXCEPT !.cur.der = @ \o dec]

AfterLine(p, line, mask) ==
    IF p.cur = NoObject THEN IF line.kind = "begin" THEN Begun(p, line.type) ELSE p
    ELSE IF line.kind = "end" /\ line.type = p.cur.type THEN Ended(p, mask)
    ELSE Added(p, IF line.kind = "content" THEN b64_decode(line.chars) ELSE Failed)

RECURSIVE Loaded(_, _, _)
Loaded(p, lines, mask) ==
    IF lines = <<>> THEN p
    ELSE IF ~p.ok THEN p
    ELSE Loaded(AfterLine(p, Head(lines), mask), Tail(lines), mask)

Result(p) == IF p.ok /\ p.cur = NoObject THEN p.obj ELSE <<NoObject>>
pem_load_types(lines, mask) == Result(Loaded([ok |-> TRUE, cur |-> NoObject, obj |-> <<>>], lines, mask))

(* decode_int, and the numbers of SSL_CTX_use_PrivateKey_file *)
Stripped(v) == IF v # <<>> /\ Head(v) = 0 THEN Tail(v) ELSE v

RECURSIVE Ints(_, _, _, _, _)
IntsAt(s, t, end, n, out) ==
    IF ~t.ok \/ Constructed(t) THEN Failed ELSE Ints(s, t.next, end, n - 1, Append(out, Stripped(Value(s, t))))
Ints(s, ptr, end, n, out) == IF n = 0 THEN out ELSE IntsAt(s, ber_decode_tag(s, ptr, end), end, n, out)

RsaKey(s, t) == IF ~t.ok \/ ~Constructed(t) THEN Failed ELSE Ints(s, t.at, Len(s), 9, <<>>)

Rsa == <<42, 134, 1>>       \* rsaEncryption, and a signature of RSA with a hash function
RsaWith(alg) == <<42, 134, alg>>

Unwrapped(s, t) == IF ~t.ok \/ t.tag # 4 THEN Failed ELSE RsaKey(s, ber_decode_tag(s, t.at, Len(s)))
Algorithm(s, ai, oid) ==
    IF ~oid.ok \/ oid.tag # 6 \/ Value(s, oid) # Rsa THEN Failed
    ELSE Unwrapped(s, ber_decode_tag(s, ai.next, Len(s)))
WithAlgorithm(s, ai) ==
    IF ~ai.ok \/ ~Constructed(ai) THEN Failed ELSE Algorithm(s, ai, ber_decode_tag(s, ai.at, Len(s)))
WithVersion(s, v) == IF ~v.ok \/ Constructed(v) THEN Failed ELSE WithAlgorithm(s, ber_decode_tag(s, v.next, Len(s)))
Wrapped(s, t) == IF ~t.ok \/ ~Constructed(t) THEN Failed ELSE WithVersion(s, ber_decode_tag(s, t.at, Len(s)))

use_PrivateKey(s, type) ==
    IF type = "KEY" THEN Wrapped(s, ber_decode_tag(s, 0, Len(s))) ELSE RsaKey(s, ber_decode_tag(s, 0, Len(s)))

--------------------------------------------------------------------------
(* X509_new.  Each step reads the next element, and fills what it is in the certificate. *)
NoCert == [subject |-> Failed]
Empty == [hash_alg |-> 0, issuer_hash_alg |-> 0, issuer |-> <<>>, subject |-> <<>>, enc_alg |-> "none",
          modulus |-> <<>>, exponent |-> <<>>, is_ca |-> FALSE, alt_names |-> <<>>, sig |-> <<>>,
          is_self_signed |-> FALSE, tbs |-> <<>>]

(* parse_sig_alg: the last octet tells the hash function. *)
SigAlg(s, t) == IF t.ok /\ t.len = 3 /\ SubSeq(s, t.at + 1, t.at + 2) = <<42, 134>> THEN s[t.at + 3] ELSE -1
parse_sig_alg(s, t) == SigAlg(s, ber_decode_tag(s, t.at, t.next))

(* parse_enc_alg and parse_pubkey: without the first octet of the modulus. *)
EncAlg(s, t) == IF Value(s, t) = Rsa THEN "RSA" ELSE "unknown"

Exponent(c, s, mod, e) ==
    IF ~e.ok \/ e.len = 0 THEN NoCert
    ELSE IF c.enc_alg = "RSA" THEN [c EXCEPT !.modulus = SubSeq(s, mod.at + 2, mod.next), !.exponent = Value(s, e)]
    ELSE c
Modulus(c, s, mod, end) ==
    IF ~mod.ok \/ mod.len < 1 THEN NoCert ELSE Exponent(c, s, mod, ber_decode_tag(s, mod.next, end))
InKey(c, s, t) == IF ~t.ok THEN NoCert ELSE Modulus(c, s, ber_decode_tag(s, t.at, t.next), t.next)
parse_pubkey(c, s, t) ==
    IF ~t.ok THEN NoCert
    ELSE InKey(c, s, ber_decode_tag(s, IF s[t.at + 1] = 0 THEN t.at + 1 ELSE t.at, t.next))

WithEncAlg(c, s, t, alg, oid) ==
    IF ~oid.ok THEN NoCert
    ELSE parse_pubkey([c EXCEPT !.enc_alg = EncAlg(s, oid)], s, ber_decode_tag(s, alg.next, t.next))
parse_enc_alg(c, s, t, alg) == IF ~alg.ok THEN NoCert ELSE WithEncAlg(c, s, t, alg, ber_decode_tag(s, alg.at, alg.next))
parse_pubkey_info(c, s, t) == parse_enc_alg(c, s, t, ber_decode_tag(s, t.at, t.next))

(* decode_extension *)
kr_id_ce(oid) == IF Len(oid) = 3 /\ oid[1] = 85 /\ oid[2] = 29 THEN oid[3] ELSE -1

AltNames(c, s, t) == IF ~t.ok \/ t.tag # 48 THEN NoCert ELSE [c EXCEPT !.alt_names = Value(s, t)]
Constraints(c, s, t) ==
    IF ~t.ok THEN NoCert ELSE IF t.len > 0 /\ s[t.at + 1] # 0 THEN [c EXCEPT !.is_ca = TRUE] ELSE c

decode_extension(c, s, id, critical, val) ==
    CASE id = 15 -> c
      [] id = 17 -> AltNames(c, s, ber_decode_tag(s, val.at, val.next))
      [] id = 19 -> Constraints(c, s, ber_decode_tag(s, val.at, val.next))
      [] OTHER   -> IF critical THEN NoCert ELSE c

(* parse_extensions: two identifiers may be before them. *)
RECURSIVE Extensions(_, _, _, _)
After(c, s, ext, end) == IF c = NoCert THEN c ELSE Extensions(c, s, ext.next, end)
WithValue(c, s, end, ext, oid, critical, val) ==
    IF ~val.ok THEN NoCert
    ELSE After(decode_extension(c, s, kr_id_ce(Value(s, oid)), critical, val), s, ext, end)
WithCritical(c, s, end, ext, oid, t) ==
    IF ~t.ok THEN NoCert
    ELSE IF t.tag = 1 THEN WithValue(c, s, end, ext, oid, s[t.at + 1] # 0, ber_decode_tag(s, t.at + 1, ext.next))
    ELSE WithValue(c, s, end, ext, oid, FALSE, t)
WithOid(c, s, end, ext, oid) ==
    IF ~oid.ok THEN NoCert ELSE WithCritical(c, s, end, ext, oid, ber_decode_tag(s, oid.next, ext.next))
Extension(c, s, end, ext) ==
    IF ~ext.ok THEN NoCert
    ELSE IF ext.tag # 48 THEN Extensions(c, s, ext.next, end)
    ELSE WithOid(c, s, end, ext, ber_decode_tag(s, ext.at, ext.next))
Extensions(c, s, ptr, end) == IF ptr >= end THEN c ELSE Extension(c, s, end, ber_decode_tag(s, ptr, end))

Sequence(c, s, end, t) == IF ~t.ok THEN NoCert ELSE IF t.tag # 48 THEN c ELSE Extensions(c, s, t.at, end)
Third(c, s, end, t) ==
    IF ~t.ok THEN NoCert ELSE IF t.tag = 163 THEN Sequence(c, s, end, ber_decode_tag(s, t.at, end)) ELSE c
Second(c, s, end, t) ==
    IF ~t.ok THEN NoCert
    ELSE IF t.tag = 163 THEN Sequence(c, s, end, ber_decode_tag(s, t.at, end))
    ELSE Third(c, s, end, ber_decode_tag(s, t.at, end))
First(c, s, end, t) ==
    IF ~t.ok THEN NoCert
    ELSE IF t.tag = 163 THEN Sequence(c, s, end, ber_decode_tag(s, t.at, end))
    ELSE Second(c, s, end, ber_decode_tag(s, t.next, end))
parse_extensions(c, s, ptr, end) == IF ptr = end THEN c ELSE First(c, s, end, ber_decode_tag(s, ptr, end))

(* parse_tbs_cert: version if there is one, serial, algorithm, issuer, dates, subject, key. *)
WithKey(c, s, end, t) == IF c = NoCert THEN c ELSE parse_extensions(c, s, t.next, end)
PubKey(c, s, end, t) == IF ~t.ok THEN NoCert ELSE WithKey(parse_pubkey_info(c, s, t), s, end, t)
Subject(c, s, end, t) ==
    IF ~t.ok THEN NoCert ELSE PubKey([c EXCEPT !.subject = Value(s, t)], s, end, ber_decode_tag(s, t.next, end))
Dates(c, s, end, t) == IF ~t.ok THEN NoCert ELSE Subject(c, s, end, ber_decode_tag(s, t.next, end))
Issuer(c, s, end, t) ==
    IF ~t.ok THEN NoCert ELSE Dates([c EXCEPT !.issuer = Value(s, t)], s, end, ber_decode_tag(s, t.next, end))
WithAlg(c, s, end, t, alg) ==
    IF alg < 0 THEN NoCert ELSE Issuer([c EXCEPT !.hash_alg = alg], s, end, ber_decode_tag(s, t.next, end))
Alg(c, s, end, t) == IF ~t.ok THEN NoCert ELSE WithAlg(c, s, end, t, parse_sig_alg(s, t))
Serial(c, s, end, t) == IF ~t.ok THEN NoCert ELSE Alg(c, s, end, ber_decode_tag(s, t.next, end))
Version(c, s, end, t) ==
    IF ~t.ok THEN NoCert
    ELSE IF t.tag = 160 THEN Serial(c, s, end, ber_decode_tag(s, t.next, end)) ELSE Serial(c, s, end, t)
parse_tbs_cert(s, t) == Version(Empty, s, t.next, ber_decode_tag(s, t.at, t.next))

x509_issued_by(issuer, subject) == issuer = subject

Signature(c, s, t) ==
    IF ~t.ok THEN NoCert
    ELSE [c EXCEPT !.sig = Stripped(Value(s, t)), !.is_self_signed = x509_issued_by(c.issuer, c.subject)]
WithSigAlg(c, s, end, t, alg) ==
    IF alg < 0 THEN NoCert ELSE Signature([c EXCEPT !.issuer_hash_alg = alg], s, ber_decode_tag(s, t.next, end))
SignatureAlgorithm(c, s, end, t) == IF ~t.ok THEN NoCert ELSE WithSigAlg(c, s, end, t, parse_sig_alg(s, t))
WithTbs(c, s, end, tbs, from) ==
    IF c = NoCert THEN c
    ELSE SignatureAlgorithm([c EXCEPT !.tbs = SubSeq(s, from + 1, tbs.next)], s, end, ber_decode_tag(s, tbs.next, end))
Tbs(s, t, tbs) == IF ~tbs.ok THEN NoCert ELSE WithTbs(parse_tbs_cert(s, tbs), s, t.next, tbs, t.at)
Outer(s, t) == IF ~t.ok THEN NoCert ELSE Tbs(s, t, ber_decode_tag(s, t.at, t.next))
X509_new(s) == Outer(s, ber_decode_tag(s, 0, Len(s)))

--------------------------------------------------------------------------
(* kr_match_domain_name: label by label from the last, letters of either case. *)
Dot == 46
Star == 42
Lower(ch) == IF ch \in 65 .. 90 THEN ch + 32 ELSE ch

RECURSIVE kr_get_next_label(_)
kr_get_next_label(d) == IF d = <<>> THEN <<>>
                        ELSE IF Last(d) = Dot THEN <<>> ELSE Append(kr_get_next_label(Front(d)), Last(d))

Before(d, l) == LET n == Len(d) - Len(l) IN SubSeq(d, 1, IF n > 0 /\ d[n] = Dot THEN n - 1 ELSE n)

RECURSIVE kr_match_domain_name(_, _)
MatchLabels(pat, dom, pl, dl) ==
    IF pl = <<>> \/ dl = <<>> THEN pl = dl
    ELSE IF pl = <<Star>> THEN TRUE
    ELSE IF Len(pl) # Len(dl) THEN FALSE
    ELSE /\ \A i \in 1 .. Len(pl) : Lower(pl[i]) = Lower(dl[i])
         /\ kr_match_domain_name(Before(pat, pl), Before(dom, dl))
kr_match_domain_name(pat, dom) == MatchLabels(pat, dom, kr_get_next_label(pat), kr_get_next_label(dom))

(* X509_verify_name: the common names of the subject, then the alternative names. *)
RECURSIVE AltNameMatches(_, _, _)
AltNameAt(s, name, t) ==
    IF ~t.ok THEN FALSE
    ELSE IF t.tag % 32 = 2 /\ kr_match_domain_name(name, Value(s, t)) THEN TRUE
    ELSE AltNameMatches(s, name, t.next)
AltNameMatches(s, name, ptr) ==
    IF ptr >= Len(s) THEN FALSE ELSE AltNameAt(s, name, ber_decode_tag(s, ptr, Len(s)))

CommonName(s, name, oid, cn) ==
    /\ Value(s, oid) = <<85, 4, 3>> /\ cn.ok
    /\ kr_match_domain_name(name, Value(s, cn))

RECURSIVE NameMatches(_, _, _, _)
NameMember(s, alt, name, set, pair, oid) ==
    IF CommonName(s, name, oid, ber_decode_tag(s, oid.next, pair.next)) THEN TRUE
    ELSE NameMatches(s, alt, name, set.next)
NamePair(s, alt, name, set, pair) ==
    IF ~pair.ok \/ pair.tag # 48 THEN FALSE
    ELSE NameMember(s, alt, name, set, pair, ber_decode_tag(s, pair.at, pair.next))
NameSet(s, alt, name, set) ==
    IF ~set.ok \/ set.tag # 49 THEN FALSE ELSE NamePair(s, alt, name, set, ber_decode_tag(s, set.at, set.next))
NameMatches(s, alt, name, ptr) ==
    IF ptr >= Len(s) THEN AltNameMatches(alt, name, 0)
    ELSE NameSet(s, alt, name, ber_decode_tag(s, ptr, Len(s)))

X509_verify_name(cert, name) == NameMatches(cert.subject, cert.alt_names, name, 0)

(* do_verify: cur signs nxt.  A signature tells its key, the hash function and what was   *)
(* hashed; it is as long as the key that made it.                                          *)
Size(alg) == CASE alg = 4 -> 16 [] alg = 5 -> 20 [] alg = 11 -> 32 [] OTHER -> -1
Digest(cert) == <<cert.issuer_hash_alg, cert.id>>

Signs(cur, nxt) ==
    /\ cur.is_ca
    /\ cur.hash_alg = cur.issuer_hash_alg
    /\ cur.key.size = nxt.sig.key.size
    /\ Size(nxt.hash_alg) >= 0
    /\ nxt.sig.key = cur.key
    /\ Size(nxt.sig.alg) = Size(nxt.hash_alg)
    /\ Digest(nxt) = <<nxt.sig.alg, nxt.sig.of>>

RECURSIVE do_verify(_, _)
do_verify(cur, chain) ==
    /\ Signs(cur, Head(chain))
    /\ Tail(chain) # <<>> => /\ x509_issued_by(Head(chain).subject, chain[2].issuer)
                             /\ do_verify(Head(chain), Tail(chain))

(* find_anchor: the store is the file from its end, the chain what was sent from its end. *)
RECURSIVE find_anchor(_, _)
find_anchor(store, issuer) ==
    IF store = <<>> THEN <<>>
    ELSE IF x509_issued_by(Head(store).subject, issuer) THEN <<Head(store)>>
    ELSE find_anchor(Tail(store), issuer)

VerifyFrom(anchor, chain) == anchor # <<>> /\ do_verify(anchor[1], chain)
X509_verify(store, chain) == VerifyFrom(find_anchor(store, Head(chain).issuer), chain)

--------------------------------------------------------------------------
(* How a certificate is encoded, which is what other programs do. *)
LengthOf(n, long) == IF n < 128 /\ ~long THEN <<n>> ELSE IF n < 256 THEN <<129, n>> ELSE <<130, n \div 256, n % 256>>
Tlv(tag, value, long) == <<tag>> \o LengthOf(Len(value), long) \o value

Name(d) == FlattenSeq([i \in 1 .. Len(d) |->
             Tlv(49, Tlv(48, Tlv(6, <<85, 4, d[i].type>>, FALSE) \o Tlv(12, d[i].text, FALSE), FALSE), FALSE)])
AltValue(names) == FlattenSeq([i \in 1 .. Len(names) |-> Tlv(130, names[i], FALSE)])

ExtValue(x) == CASE x.id = 17 -> Tlv(48, AltValue(x.names), FALSE)
                 [] x.id = 19 -> Tlv(48, IF x.ca THEN <<1, 1, 255>> ELSE <<>>, FALSE)
                 [] OTHER -> <<3, 2, 1, 6>>
Ext(x) == Tlv(48, Tlv(6, <<85, 29, x.id>>, FALSE) \o (IF x.critical THEN <<1, 1, 255>> ELSE <<>>)
                    \o Tlv(4, ExtValue(x), FALSE), FALSE)
Exts(d) == IF d.exts = <<>> THEN <<>>
           ELSE Tlv(163, Tlv(48, FlattenSeq([i \in 1 .. Len(d.exts) |-> Ext(d.exts[i])]), d.long), d.long)

KeyInfo(d) == Tlv(48, Tlv(48, Tlv(6, d.enc, FALSE) \o <<5, 0>>, FALSE)
                    \o Tlv(3, <<0>> \o Tlv(48, Tlv(2, <<0>> \o d.modulus, FALSE) \o Tlv(2, d.exponent, FALSE), d.long),
                           FALSE), FALSE)
TbsOf(d) ==
    Tlv(48, (IF d.version THEN <<160, 3, 2, 1, 2>> ELSE <<>>) \o Tlv(2, <<7>>, FALSE)
            \o Tlv(48, Tlv(6, RsaWith(d.alg), FALSE) \o <<5, 0>>, FALSE)
            \o Tlv(48, Name(d.issuer), FALSE) \o Tlv(48, <<>>, FALSE) \o Tlv(48, Name(d.subject), d.long)
            \o KeyInfo(d)
            \o FlattenSeq([i \in 1 .. Len(d.ids) |-> Tlv(d.ids[i], <<0, 9>>, FALSE)]) \o Exts(d), d.long)
Encoded(d) == Tlv(48, TbsOf(d) \o Tlv(48, Tlv(6, RsaWith(d.sig_alg), FALSE) \o <<5, 0>>, FALSE)
                        \o Tlv(3, <<0>> \o d.sig, FALSE), d.long)

Numbers(k) == FlattenSeq([i \in 1 .. Len(k.numbers) |->
                Tlv(2, (IF k.numbers[i][1] >= 128 THEN <<0>> ELSE <<>>) \o k.numbers[i], FALSE)])
KeyFile(k) == IF k.type = "KEY"
              THEN Tlv(48, Tlv(2, <<0>>, FALSE) \o Tlv(48, Tlv(6, Rsa, FALSE) \o <<5, 0>>, FALSE)
                             \o Tlv(4, Tlv(48, Numbers(k), k.long), k.long), k.long)
              ELSE Tlv(48, Numbers(k), k.long)

(* The characters of an octet string. *)
Chars3(a, b, c) == <<a \div 4, ((a % 4) * 16) + (b \div 16), ((b % 16) * 4) + (c \div 64), c % 64>>
RECURSIVE Encode64(_)
Encode64(s) == IF s = <<>> THEN <<>>
               ELSE IF Len(s) = 1 THEN SubSeq(Chars3(s[1], 0, 0), 1, 2) \o <<64, 64>>
               ELSE IF Len(s) = 2 THEN SubSeq(Chars3(s[1], s[2], 0), 1, 3) \o <<64>>
               ELSE Chars3(s[1], s[2], s[3]) \o Encode64(SubSeq(s, 4, Len(s)))
LineOf(line) == IF line.kind = "content" THEN [kind |-> "content", chars |-> Encode64(line.octets)] ELSE line

--------------------------------------------------------------------------
Init == call = [op |-> "none"]

Ask(op, in, out) == call' = [op |-> op, in |-> in, out |-> out]

Read(d) == Ask("read", d, X509_new(Encoded(d)))
Verify(d, name) == Ask("name", <<d, name>>, X509_verify_name(X509_new(Encoded(d)), name))
Chain(c) == Ask("chain", c, X509_verify(Reverse(c.store), Reverse(c.sent)))
Load(lines, mask) == Ask("load", <<lines, mask>>, pem_load_types([i \in 1 .. Len(lines) |-> LineOf(lines[i])], mask))
UseKey(k) == Ask("key", k, use_PrivateKey(KeyFile(k), k.type))

WithNames(d, cn, alts) ==
    [d EXCEPT !.subject = <<[type |-> 10, text |-> <<97>>], [type |-> 3, text |-> cn]>>,
              !.exts = IF alts = <<>> THEN <<>> ELSE <<[id |-> 17, critical |-> FALSE, names |-> alts, ca |-> FALSE]>>]

Next == /\ call.op = "none"
        /\ \/ \E d \in Certificates : Read(d)
           \/ \E d \in {CHOOSE d \in Certificates : d.version /\ d.ids = <<>>}, name \in HostNames, cn \in CertNames :
                 \E alts \in {<<>>} \cup [1 .. 2 -> CertNames] : Verify(WithNames(d, cn, alts), name)
           \/ \E c \in Chains : Chain(c)
           \/ \E lines \in Files, mask \in Masks : Load(lines, mask)
           \/ \E k \in Keys : UseKey(k)

Spec == Init /\ [][Next]_vars

--------------------------------------------------------------------------
(* What a certificate says. *)
LastOf(d, id) == LET at == {i \in 1 .. Len(d.exts) : d.exts[i].id = id}
                 IN IF at = {} THEN <<>> ELSE <<d.exts[CHOOSE i \in at : \A j \in at : j <= i]>>
Says(d) ==
    [hash_alg |-> d.alg, issuer_hash_alg |-> d.sig_alg, issuer |-> Name(d.issuer), subject |-> Name(d.subject),
     enc_alg |-> IF d.enc = Rsa THEN "RSA" ELSE "unknown",
     modulus |-> IF d.enc = Rsa THEN d.modulus ELSE <<>>, exponent |-> IF d.enc = Rsa THEN d.exponent ELSE <<>>,
     is_ca |-> \E i \in 1 .. Len(d.exts) : d.exts[i].id = 19 /\ d.exts[i].ca,
     alt_names |-> IF LastOf(d, 17) = <<>> THEN <<>> ELSE AltValue(LastOf(d, 17)[1].names),
     sig |-> d.sig, is_self_signed |-> d.issuer = d.subject, tbs |-> TbsOf(d)]

MustBeKnown(d) == \E i \in 1 .. Len(d.exts) : d.exts[i].critical /\ d.exts[i].id \notin {15, 17, 19}

(* A certificate of the chain stands only on certificates of authorities that signed it,  *)
(* up to one of the store.                                                                *)
Stands(c, i) == LET above == IF i = Len(c.sent) THEN {c.store[j] : j \in 1 .. Len(c.store)} ELSE {c.sent[i + 1]}
                IN \E a \in above : /\ a.is_ca /\ a.subject = c.sent[i].issuer /\ c.sent[i].sig.key = a.key
                                    /\ c.sent[i].sig.of = c.sent[i].id
OneName(c) == \A i, j \in 1 .. Len(c.store) : c.store[i].subject = c.store[j].subject => i = j
OneHash(c) == \A x \in Range(c.sent) \cup Range(c.store) : /\ x.hash_alg = x.issuer_hash_alg /\ x.sig.alg = x.hash_alg
                                                           /\ x.hash_alg \in {4, 5, 11}

(* The end of the object that begins at a line, when all lines between are content. *)
EndsOf(lines, b) == {e \in b + 1 .. Len(lines) : /\ lines[e] = [kind |-> "end", type |-> lines[b].type]
                                                /\ \A i \in b + 1 .. e - 1 : lines[i].kind = "content"}
Begins(lines) == {b \in 1 .. Len(lines) : lines[b].kind = "begin"}
Whole(lines) == \A b \in Begins(lines) : EndsOf(lines, b) # {}
ObjectAt(lines, b) ==
    [type |-> lines[b].type,
     der |-> FlattenSeq([i \in 1 .. (CHOOSE e \in EndsOf(lines, b) : TRUE) - b - 1 |-> lines[b + i].octets])]
Objects(lines, types) ==
    LET at == SetToSortSeq({b \in Begins(lines) : lines[b].type \in types}, <)
    IN [j \in 1 .. Len(at) |-> ObjectAt(lines, at[j])]

SameName(a, b) == Len(a) = Len(b) /\ \A i \in 1 .. Len(a) : Lower(a[i]) = Lower(b[i])

(* A certificate is read as it was encoded, with what is optional in it or without, and   *)
(* refused if it has an extension that must be known and is not.  (One identifier is      *)
(* skipped before extensions; a second one, or one without extensions, is not.)  It is    *)
(* valid for a name that is one of its names, and for no other.  A chain that verifies    *)
(* stands on the store, and one that stands verifies if each name is in the store once    *)
(* and the hash functions are known.  A file gives its objects of the types asked for,    *)
(* and the numbers of a key are the ones it holds.                                        *)
CertificatesAreMeant ==
    /\ call.op = "read" /\ (call.in.ids = <<>> \/ (Len(call.in.ids) = 1 /\ call.in.exts # <<>>)) =>
         call.out = IF MustBeKnown(call.in) THEN NoCert ELSE Says(call.in)
    /\ call.op = "name" =>
         LET d == call.in[1]
             names == {d.subject[2].text} \cup UNION {Range(d.exts[i].names) : i \in 1 .. Len(d.exts)}
         IN call.out = \E n \in names : SameName(n, call.in[2])
    /\ call.op = "chain" =>
         LET c == call.in
             stands == \A i \in 1 .. Len(c.sent) : Stands(c, i)
         IN (call.out => stands) /\ (stands /\ OneName(c) /\ OneHash(c) => call.out)
    /\ call.op = "load" =>
         call.out = IF Whole(call.in[1]) THEN Objects(call.in[1], call.in[2]) ELSE <<NoObject>>
    /\ call.op = "key" => Tail(call.out) = Tail(call.in.numbers)
=============================================================================
