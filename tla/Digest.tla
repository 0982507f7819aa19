------------------------------- MODULE Digest -------------------------------
(***************************************************************************)
(* The five hash functions of the repository (MD5, SHA1 and SHA256 in      *)
(* krypton.c, MD5 and SHA1 in mongoose.c), fed side by side with the same  *)
(* cuts of one message, and what krypton.c builds on them: HMAC, the       *)
(* pseudo-random function of TLS, and the secrets of a connection.         *)
(*                                                                         *)
(* The transformation of a block is not interpreted: a state is the        *)
(* sequence of the blocks that went into it.  An octet is a tagged value:  *)
(* <<"m", j>> is the j-th of the message, <<"word", n>> one of the two     *)
(* words of a length, "digest" one of an output.                           *)
(***************************************************************************)
EXTENDS Integers, Sequences, SequencesExt

CONSTANTS
    BLOCK,          \* the octets of a block: 64
    OCTET, WORD,    \* the bits of an octet and the range of a word: 8 and 2^32
    MaxUpdate, MaxSent, \* the octets of one update, and of a message
    MaxOut          \* the octets that are asked of the pseudo-random function

VARIABLES ctx,      \* of each function: the state, the buffer and the count
          sent,     \* the octets of the message so far
          call      \* the last call that asked for a result

vars == <<ctx, sent, call>>

SHORT == BLOCK - 2  \* the length takes two places at the end of a block

Zero == <<"zero", 0>>
One == <<"one", 0>> \* 0x80
Junk == <<"junk", 0>>
Word(n) == <<"word", n>>
Message(from, n) == [j \in 1 .. n |-> <<"m", from + j>>]
Zeros(n) == [j \in 1 .. n |-> Zero]

(* memcpy(&buffer[x], s, ...) *)
Copied(buffer, x, s) == [j \in 1 .. BLOCK |-> IF j \in x + 1 .. x + Len(s) THEN s[j - x] ELSE buffer[j]]
BlocksOf(s, from, n) == [b \in 1 .. n |-> SubSeq(s, from + ((b - 1) * BLOCK) + 1, from + (b * BLOCK))]

Bits(len) == (len * OCTET) % WORD
Over(len) == (len * OCTET) \div WORD
Place(lo) == (lo \div OCTET) % BLOCK

--------------------------------------------------------------------------
(* krypton.c: MD5 *)
kr_md5_init == [state |-> <<>>, buffer |-> [j \in 1 .. BLOCK |-> Junk], count |-> <<0, 0>>]

kr_md5_update(c, msg) ==
    LET len == Len(msg)
        x == Place(c.count[1])
        lo == (c.count[1] + Bits(len)) % WORD
        part == BLOCK - x
        whole == (len - part) \div BLOCK
        count == <<lo, (c.count[2] + (IF lo < Bits(len) THEN 1 ELSE 0) + Over(len)) % WORD>>
    IN IF len >= part
       THEN [state |-> c.state \o <<Copied(c.buffer, x, SubSeq(msg, 1, part))>> \o BlocksOf(msg, part, whole),
             buffer |-> Copied(Copied(c.buffer, x, SubSeq(msg, 1, part)), 0,
                               SubSeq(msg, part + (whole * BLOCK) + 1, len)),
             count |-> count]
       ELSE [c EXCEPT !.buffer = Copied(@, x, msg), !.count = count]

Padding(n) == <<One>> \o Zeros(n - 1)

kr_md5_final(c) ==
    LET x == Place(c.count[1])
        pad == IF x < SHORT THEN SHORT - x ELSE BLOCK + SHORT - x
    IN kr_md5_update(kr_md5_update(c, Padding(pad)), <<Word(c.count[1]), Word(c.count[2])>>).state

(* krypton.c: SHA1, whose count is one of octets *)
SHA1_Init == [state |-> <<>>, buffer |-> [j \in 1 .. BLOCK |-> Junk], size |-> 0]

SHA1_Whole(c, data, size) ==
    LET whole == Len(data) \div BLOCK
    IN [state |-> c.state \o BlocksOf(data, 0, whole),
        buffer |-> Copied(c.buffer, 0, SubSeq(data, (whole * BLOCK) + 1, Len(data))),
        size |-> size]

SHA1_Update(c, data) ==
    LET lenW == c.size % BLOCK
        left == IF Len(data) < BLOCK - lenW THEN Len(data) ELSE BLOCK - lenW
        filled == Copied(c.buffer, lenW, SubSeq(data, 1, left))
        size == c.size + Len(data)
    IN IF lenW = 0 THEN SHA1_Whole(c, data, size)
       ELSE IF (lenW + left) % BLOCK # 0 THEN [c EXCEPT !.buffer = filled, !.size = size]
       ELSE SHA1_Whole([c EXCEPT !.state = Append(@, filled), !.buffer = filled],
                       SubSeq(data, left + 1, Len(data)), size)

SHA1_Final(c) ==
    LET pad == 1 + ((SHORT - 1 - (c.size % BLOCK)) % BLOCK)
    IN SHA1_Update(SHA1_Update(c, Padding(pad)), <<Word(Over(c.size)), Word(Bits(c.size))>>).state

(* krypton.c: SHA256, whose count is one of bits *)
SHA256_Init == [state |-> <<>>, buffer |-> Zeros(BLOCK), bitcount |-> 0]

SHA256_Whole(c, data) ==
    LET whole == Len(data) \div BLOCK
    IN [state |-> c.state \o BlocksOf(data, 0, whole),
        buffer |-> Copied(c.buffer, 0, SubSeq(data, (whole * BLOCK) + 1, Len(data))),
        bitcount |-> c.bitcount + (Len(data) * OCTET)]

SHA256_Update(c, data) ==
    LET used == Place(c.bitcount)
        free == BLOCK - used
        filled == Copied(c.buffer, used, SubSeq(data, 1, free))
    IN IF data = <<>> THEN c
       ELSE IF used = 0 THEN SHA256_Whole(c, data)
       ELSE IF Len(data) < free
            THEN [c EXCEPT !.buffer = Copied(@, used, data), !.bitcount = @ + (Len(data) * OCTET)]
       ELSE SHA256_Whole([state |-> Append(c.state, filled), buffer |-> filled,
                          bitcount |-> c.bitcount + (free * OCTET)],
                         SubSeq(data, free + 1, Len(data)))

SHA256_Final(c) ==
    LET used == Place(c.bitcount)
        marked == Copied(c.buffer, used, <<One>>)
        length == <<Word(c.bitcount \div WORD), Word(c.bitcount % WORD)>>
        short == Copied(marked, used + 1, Zeros(SHORT - used - 1))
        long == Copied(marked, used + 1, Zeros(BLOCK - used - 1))
    IN IF used = 0 THEN Append(c.state, <<One>> \o Zeros(SHORT - 1) \o length)
       ELSE IF used + 1 <= SHORT THEN Append(c.state, Copied(short, SHORT, length))
       ELSE c.state \o <<long, Zeros(SHORT) \o length>>

(* mongoose.c: MD5 *)
mg_md5_update(c, buf) ==
    LET len == Len(buf)
        lo == (c.count[1] + Bits(len)) % WORD
        t == Place(c.count[1])
        part == IF t = 0 THEN 0 ELSE BLOCK - t
        filled == Copied(c.buffer, t, SubSeq(buf, 1, part))
        whole == (len - part) \div BLOCK
        last == IF whole = 0 THEN filled ELSE SubSeq(buf, part + ((whole - 1) * BLOCK) + 1, part + (whole * BLOCK))
        count == <<lo, (c.count[2] + (IF lo < c.count[1] THEN 1 ELSE 0) + Over(len)) % WORD>>
    IN IF t # 0 /\ len < part THEN [c EXCEPT !.buffer = Copied(@, t, buf), !.count = count]
       ELSE [state |-> c.state \o (IF t = 0 THEN <<>> ELSE <<filled>>) \o BlocksOf(buf, part, whole),
             buffer |-> Copied(last, 0, SubSeq(buf, part + (whole * BLOCK) + 1, len)),
             count |-> count]

mg_md5_final(c) ==
    LET used == Place(c.count[1])
        marked == Copied(c.buffer, used, <<One>>)
        left == BLOCK - 1 - used
        length == <<Word(c.count[1]), Word(c.count[2])>>
    IN IF left < BLOCK - SHORT
       THEN c.state \o <<Copied(marked, used + 1, Zeros(left)), Zeros(SHORT) \o length>>
       ELSE Append(c.state, Copied(Copied(marked, used + 1, Zeros(SHORT - used - 1)), SHORT, length))

(* mongoose.c: SHA1, whose first count is the low one *)
mg_sha1_update(c, data) ==
    LET len == Len(data)
        lo == (c.count[1] + Bits(len)) % WORD
        j == Place(c.count[1])
        i == IF j + len > BLOCK - 1 THEN BLOCK - j ELSE 0
        whole == IF i = 0 THEN 0 ELSE (len - i) \div BLOCK
        filled == Copied(c.buffer, j, SubSeq(data, 1, i))
    IN [state |-> c.state \o (IF i = 0 THEN <<>> ELSE <<filled>>) \o BlocksOf(data, i, whole),
        buffer |-> Copied(filled, IF i = 0 THEN j ELSE 0, SubSeq(data, i + (whole * BLOCK) + 1, len)),
        count |-> <<lo, (c.count[2] + (IF lo < c.count[1] THEN 1 ELSE 0) + Over(len)) % WORD>>]

RECURSIVE Zeroed(_)
Zeroed(c) == IF Place(c.count[1]) = SHORT THEN c ELSE Zeroed(mg_sha1_update(c, <<Zero>>))

mg_sha1_final(c) ==
    mg_sha1_update(Zeroed(mg_sha1_update(c, <<One>>)), <<Word(c.count[2]), Word(c.count[1])>>).state

--------------------------------------------------------------------------
(* The vector forms hash several messages as one.  A digest takes two octets. *)
DigestOf(state) == <<<<"digest", <<1, state>>>>, <<"digest", <<2, state>>>>>>

RECURSIVE Fed(_, _)
Fed(c, msgs) == IF msgs = <<>> THEN c ELSE Fed(SHA256_Update(c, Head(msgs)), Tail(msgs))
kr_hash_sha256_v(msgs) == DigestOf(SHA256_Final(Fed(SHA256_Init, msgs)))

RECURSIVE FedSha1(_, _)
FedSha1(c, msgs) == IF msgs = <<>> THEN c ELSE FedSha1(SHA1_Update(c, Head(msgs)), Tail(msgs))
kr_hash_sha1_v(msgs) == DigestOf(SHA1_Final(FedSha1(SHA1_Init, msgs)))

RECURSIVE FedMd5(_, _)
FedMd5(c, msgs) == IF msgs = <<>> THEN c ELSE FedMd5(kr_md5_update(c, Head(msgs)), Tail(msgs))
kr_hash_md5_v(msgs) == DigestOf(kr_md5_final(FedMd5(kr_md5_init, msgs)))

Hash(f, msgs) == CASE f = "md5" -> kr_hash_md5_v(msgs)
                   [] f = "sha1" -> kr_hash_sha1_v(msgs)
                   [] f = "sha256" -> kr_hash_sha256_v(msgs)

Padded(key, with) == [j \in 1 .. BLOCK |-> <<with, IF j <= Len(key) THEN key[j] ELSE Zero>>]

kr_hmac_v(f, key, msgs) ==
    Hash(f, <<Padded(key, "opad"), Hash(f, <<Padded(key, "ipad")>> \o msgs)>>)

kr_hmac_sha256_v(key, msgs) == kr_hmac_v("sha256", key, msgs)

(* prf: the octets that are asked for, an HMAC at a time. *)
RECURSIVE Stretched(_, _, _, _, _)
Stretched(sec, a, seed, olen, out) ==
    LET tmp == kr_hmac_sha256_v(sec, <<a, seed>>)
        l == IF olen > Len(tmp) THEN Len(tmp) ELSE olen
    IN IF olen = l THEN out \o SubSeq(tmp, 1, l)
       ELSE Stretched(sec, kr_hmac_sha256_v(sec, <<a>>), seed, olen - l, out \o SubSeq(tmp, 1, l))

prf(sec, seed, olen) == Stretched(sec, kr_hmac_sha256_v(sec, <<seed>>), seed, olen, <<>>)

--------------------------------------------------------------------------
Init == /\ ctx = [md5 |-> kr_md5_init, sha1 |-> SHA1_Init, sha256 |-> SHA256_Init,
                  mg_md5 |-> kr_md5_init, mg_sha1 |-> kr_md5_init]
        /\ sent = 0
        /\ call = [op |-> "none"]

Update(n) ==
    LET msg == Message(sent, n)
    IN /\ sent + n <= MaxSent
       /\ ctx' = [md5 |-> kr_md5_update(ctx.md5, msg), sha1 |-> SHA1_Update(ctx.sha1, msg),
                  sha256 |-> SHA256_Update(ctx.sha256, msg),
                  mg_md5 |-> mg_md5_update(ctx.mg_md5, msg), mg_sha1 |-> mg_sha1_update(ctx.mg_sha1, msg)]
       /\ sent' = sent + n
       /\ UNCHANGED call

Final == /\ call' = [op |-> "final",
                     out |-> [md5 |-> kr_md5_final(ctx.md5), sha1 |-> SHA1_Final(ctx.sha1),
                              sha256 |-> SHA256_Final(ctx.sha256),
                              mg_md5 |-> mg_md5_final(ctx.mg_md5), mg_sha1 |-> mg_sha1_final(ctx.mg_sha1)]]
         /\ UNCHANGED <<ctx, sent>>

Ask(op, in, out) == /\ call' = [op |-> op, in |-> in, out |-> out]
                    /\ UNCHANGED <<ctx, sent>>

Hmac(f, k, n, cut) ==
    Ask("hmac", <<f, k, n>>, kr_hmac_v(f, Message(100, k), <<Message(0, cut), Message(cut, n - cut)>>))

Expand(n, olen) == Ask("prf", <<n, olen>>, prf(Message(100, 1), Message(0, n), olen))

Next == /\ call.op = "none"
        /\ \/ \E n \in 0 .. MaxUpdate : Update(n)
           \/ Final
           \/ /\ sent = 0
              /\ \/ \E f \in {"md5", "sha1", "sha256"}, k \in 0 .. BLOCK, n \in 0 .. MaxUpdate :
                       \E cut \in 0 .. n : Hmac(f, k, n, cut)
                 \/ \E n \in 0 .. MaxUpdate, olen \in 1 .. MaxOut : Expand(n, olen)

Spec == Init /\ [][Next]_vars

--------------------------------------------------------------------------
(* What the standards say: a message, the mark, the fewest zeros that fill the last block, *)
(* and the length in bits, its low word first in MD5.                                       *)
Standard(msg, low_first) ==
    LET n == Len(msg)
        lo == Word((n * OCTET) % WORD)
        hi == Word(((n * OCTET) \div WORD) % WORD)
        whole == msg \o <<One>> \o Zeros((SHORT - 1 - n) % BLOCK) \o IF low_first THEN <<lo, hi>> ELSE <<hi, lo>>
    IN BlocksOf(whole, 0, Len(whole) \div BLOCK)

H(f, msg) == DigestOf(Standard(msg, f = "md5"))
HmacIs(f, key, msg) == H(f, Padded(key, "opad") \o H(f, Padded(key, "ipad") \o msg))

RECURSIVE A(_, _, _)
A(sec, seed, i) == IF i = 0 THEN seed ELSE HmacIs("sha256", sec, A(sec, seed, i - 1))

(* However a message is cut, each function hashes what its standard says, the length       *)
(* beyond one word included; HMAC and the pseudo-random function of TLS are the ones of     *)
(* the RFCs over them.                                                                      *)
HashesAreStandard ==
    /\ call.op = "final" =>
         LET low == Standard(Message(0, sent), TRUE)
             high == Standard(Message(0, sent), FALSE)
         IN call.out = [md5 |-> low, mg_md5 |-> low, sha1 |-> high, mg_sha1 |-> high, sha256 |-> high]
    /\ call.op = "hmac" =>
         call.out = HmacIs(call.in[1], Message(100, call.in[2]), Message(0, call.in[3]))
    /\ call.op = "prf" =>
         LET sec == Message(100, 1)
             seed == Message(0, call.in[1])
         IN call.out = [j \in 1 .. call.in[2] |->
                          HmacIs("sha256", sec, A(sec, seed, (j + 1) \div 2) \o seed)[2 - (j % 2)]]
=============================================================================
