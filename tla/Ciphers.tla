------------------------------- MODULE Ciphers ------------------------------
(***************************************************************************)
(* The ciphers of krypton.c: RC4, AES, the chaining of blocks, and the     *)
(* records of TLS that are sealed with them at one end and opened at the   *)
(* other.                                                                  *)
(*                                                                         *)
(* An octet has four bits here (256 values are 16), so the field of AES is *)
(* GF(16); its S-box is a parameter, as are the numbers of rounds.  Blocks *)
(* of records are shorter, and what encrypts them is any permutation; a    *)
(* MAC is any function of what it covers.                                  *)
(***************************************************************************)
EXTENDS Integers, Sequences, SequencesExt

CONSTANTS
    XorTable,       \* of two octets, of four bits each
    SBox, InvSBox,  \* aes_sbox, a permutation of the octets, and aes_isbox
    Modes,          \* of AES: [words, rounds]
    AesKeys, Plain, \* octets that keys and blocks of AES are made of
    Rc4Keys, RC4_KEY_SIZE, MaxStream,
    MacLen, KeyLen, Ivs,        \* of the records
    MaxData, MaxRecords

VARIABLES
    keys,   \* of each end, in the order client MAC, server MAC, client, server
    ctx,    \* of each end: the contexts of the two directions
    seq,    \* of each end: the numbers of the records of the two directions
    suite,  \* "none" before keys are made
    call    \* the last call: what went in, and what came out

vars == <<keys, ctx, seq, suite, call>>

Octets == 0 .. 15
BLOCK == 4          \* the octets of a block of a record: 16
Xor(a, b) == XorTable[a][b]
XorAll(s, t) == <<Xor(s[1], t[1]), Xor(s[2], t[2]), Xor(s[3], t[3]), Xor(s[4], t[4])>>

--------------------------------------------------------------------------
(* RC4 *)
Swapped(m, i, j) == [m EXCEPT ![i] = m[j], ![j] = m[i]]

RECURSIVE Scheduled(_, _, _, _)
ScheduledAt(m, key, i, j) == Scheduled(Swapped(m, i, j), key, i + 1, j)
Scheduled(m, key, i, j) ==
    IF i = 16 THEN m ELSE ScheduledAt(m, key, i, (j + m[i] + key[(i % RC4_KEY_SIZE) + 1]) % 16)

kr_rc4_setup(key) == [x |-> 0, y |-> 0, m |-> Scheduled([i \in Octets |-> i], key, 0, 0)]

Stepped(c, x, y) == [x |-> x, y |-> y, m |-> Swapped(c.m, x, y)]
Stirred(c) == LET x == (c.x + 1) % 16 IN Stepped(c, x, (c.y + c.m[x]) % 16)
Drawn(c) == c.m[(c.m[c.x] + c.m[c.y]) % 16]

RECURSIVE Streamed(_, _, _)
StreamedAt(c, msg, out) == Streamed(c, Tail(msg), Append(out, Xor(Head(msg), Drawn(c))))
Streamed(c, msg, out) == IF msg = <<>> THEN [ctx |-> c, out |-> out] ELSE StreamedAt(Stirred(c), msg, out)

kr_rc4_crypt(c, msg) == Streamed(c, msg, <<>>)

--------------------------------------------------------------------------
(* AES.  A word is its four octets, the highest first. *)
kr_aes_xtime(x) == IF x >= 8 THEN Xor((2 * x) % 16, 3) ELSE 2 * x
Xtime4(w) == <<kr_aes_xtime(w[1]), kr_aes_xtime(w[2]), kr_aes_xtime(w[3]), kr_aes_xtime(w[4])>>

RECURSIVE Rcon(_)
Rcon(i) == IF i = 1 THEN 1 ELSE kr_aes_xtime(Rcon(i - 1))

RotSub(w) == <<SBox[w[2]], SBox[w[3]], SBox[w[4]], SBox[w[1]]>>
Sub(w) == <<SBox[w[1]], SBox[w[2]], SBox[w[3]], SBox[w[4]]>>

(* kr_aes_set_key: the key, and words made of the one before and the one a key before. *)
Turned(w, i, words) ==
    IF i % words = 0 THEN XorAll(RotSub(w), <<Rcon(i \div words), 0, 0, 0>>)
    ELSE IF words = 8 /\ i % words = 4 THEN Sub(w) ELSE w

RECURSIVE Expanded(_, _, _)
Expanded(W, words, n) ==
    IF Len(W) = n THEN W
    ELSE Expanded(Append(W, XorAll(W[Len(W) + 1 - words], Turned(Last(W), Len(W), words))), words, n)

kr_aes_set_key(key, mode) ==
    Expanded([i \in 1 .. mode.words |-> SubSeq(key, (4 * i) - 3, 4 * i)], mode.words, 4 * (mode.rounds + 1))

Rotated(w, n) == SubSeq(w, n + 1, 4) \o SubSeq(w, 1, n)

Inverted(x, f2, f4, f8) ==
    XorAll(XorAll(XorAll(XorAll(f2, f4), f8), Rotated(XorAll(f2, XorAll(x, f8)), 1)),
           XorAll(Rotated(XorAll(f4, XorAll(x, f8)), 2), Rotated(XorAll(x, f8), 3)))
inv_mix_col(x) == Inverted(x, Xtime4(x), Xtime4(Xtime4(x)), Xtime4(Xtime4(Xtime4(x))))

(* The round keys between the first and the last. *)
kr_aes_convert_key(W, mode) ==
    SubSeq(W, 1, 4) \o SubSeq([i \in 1 .. 4 * mode.rounds |-> inv_mix_col(W[i])], 5, 4 * mode.rounds)
        \o SubSeq(W, (4 * mode.rounds) + 1, Len(W))

AddKeyTo(s, k) == <<XorAll(s[1], k[1]), XorAll(s[2], k[2]), XorAll(s[3], k[3]), XorAll(s[4], k[4])>>
AddKey(s, W, r) == AddKeyTo(s, SubSeq(W, (4 * r) + 1, (4 * r) + 4))

(* ByteSub and ShiftRow: the octets of a row come from rows one further each, or one less. *)
Row(row) == ((row - 1) % 4) + 1
Shifted(s, row) == <<SBox[s[Row(row)][1]], SBox[s[Row(row + 1)][2]], SBox[s[Row(row + 2)][3]], SBox[s[Row(row + 3)][4]]>>
Unshifted(s, row) == <<InvSBox[s[Row(row + 4)][1]], InvSBox[s[Row(row + 3)][2]],
                       InvSBox[s[Row(row + 2)][3]], InvSBox[s[Row(row + 1)][4]]>>

MixedAt(a, all, j) == Xor(a[j], Xor(all, kr_aes_xtime(Xor(a[j], a[(j % 4) + 1]))))
MixedBy(a, all) == <<MixedAt(a, all, 1), MixedAt(a, all, 2), MixedAt(a, all, 3), MixedAt(a, all, 4)>>
Mixed(a) == MixedBy(a, Xor(Xor(a[1], a[2]), Xor(a[3], a[4])))

RoundedAt(s, last, row) == IF last THEN Shifted(s, row) ELSE Mixed(Shifted(s, row))
Rounded(s, last) == <<RoundedAt(s, last, 1), RoundedAt(s, last, 2), RoundedAt(s, last, 3), RoundedAt(s, last, 4)>>

RECURSIVE EncryptRounds(_, _, _, _)
EncryptRounds(s, W, r, rounds) ==
    IF r > rounds THEN s ELSE EncryptRounds(AddKey(Rounded(s, r = rounds), W, r), W, r + 1, rounds)

kr_aes_encrypt_block(W, mode, in) == EncryptRounds(AddKey(in, W, 0), W, 1, mode.rounds)

UnmixedOf(a, xt0, xt1, xt2, xt3, xt4, xt5, xt6) ==
    <<Xor(xt0, Xor(Xor(a[2], a[3]), Xor(a[4], Xor(xt4, xt6)))),
      Xor(xt1, Xor(Xor(a[1], a[3]), Xor(a[4], Xor(xt5, xt6)))),
      Xor(xt2, Xor(Xor(a[1], a[2]), Xor(a[4], Xor(xt4, xt6)))),
      Xor(xt3, Xor(Xor(a[1], a[2]), Xor(a[3], Xor(xt5, xt6))))>>

Unmixed(a) ==
    LET xt0 == kr_aes_xtime(Xor(a[1], a[2]))
        xt1 == kr_aes_xtime(Xor(a[2], a[3]))
        xt2 == kr_aes_xtime(Xor(a[3], a[4]))
        xt3 == kr_aes_xtime(Xor(a[4], a[1]))
        xt4 == kr_aes_xtime(Xor(xt0, xt1))
        xt5 == kr_aes_xtime(Xor(xt1, xt2))
    IN UnmixedOf(a, xt0, xt1, xt2, xt3, xt4, xt5, kr_aes_xtime(Xor(xt4, xt5)))

UnroundedAt(s, last, row) == IF last THEN Unshifted(s, row) ELSE Unmixed(Unshifted(s, row))
Unrounded(s, last) == <<UnroundedAt(s, last, 1), UnroundedAt(s, last, 2), UnroundedAt(s, last, 3), UnroundedAt(s, last, 4)>>

RECURSIVE DecryptRounds(_, _, _, _)
DecryptRounds(s, W, r, rounds) ==
    IF r = 0 THEN s ELSE DecryptRounds(AddKey(Unrounded(s, r = 1), W, r - 1), W, r - 1, rounds)

kr_aes_decrypt_block(W, mode, in) == DecryptRounds(AddKey(in, W, mode.rounds), W, mode.rounds, mode.rounds)

kr_aes_setup_enc(key, mode) == kr_aes_set_key(key, mode)
kr_aes_setup_dec(key, mode) == kr_aes_convert_key(kr_aes_set_key(key, mode), mode)

--------------------------------------------------------------------------
(* What encrypts a block of a record, and its inverse. *)
E(key, b) == <<((5 * b[2]) + key[1] + 1) % 16, ((5 * b[3]) + key[1] + 2) % 16,
               ((5 * b[4]) + key[1] + 3) % 16, ((5 * b[1]) + key[1] + 4) % 16>>
Undone(key, c, j) == (13 * (c[j] - key[1] - j)) % 16
D(key, c) == <<Undone(key, c, 4), Undone(key, c, 1), Undone(key, c, 2), Undone(key, c, 3)>>

RECURSIVE Chained(_, _, _, _)
ChainedAt(key, c, in, out) == Chained(key, c, SubSeq(in, BLOCK + 1, Len(in)), out \o c)
Chained(key, xor, in, out) ==
    IF Len(in) < BLOCK THEN out ELSE ChainedAt(key, E(key, XorAll(SubSeq(in, 1, BLOCK), xor)), in, out)
kr_cbc_encrypt(key, in, iv) == Chained(key, iv, in, <<>>)

RECURSIVE Unchained(_, _, _, _)
Unchained(key, xor, in, out) ==
    IF Len(in) < BLOCK THEN out
    ELSE Unchained(key, SubSeq(in, 1, BLOCK), SubSeq(in, BLOCK + 1, Len(in)),
                   out \o XorAll(D(key, SubSeq(in, 1, BLOCK)), xor))
kr_cbc_decrypt(key, in, iv) == Unchained(key, iv, in, <<>>)

(* tls_generate_keys: one end's contexts for what the client and the server write. *)
ClientKey(k) == SubSeq(k, (2 * MacLen) + 1, (2 * MacLen) + KeyLen)
ServerKey(k) == SubSeq(k, (2 * MacLen) + KeyLen + 1, (2 * MacLen) + (2 * KeyLen))
Setup(s, key) == IF s = "rc4" THEN kr_rc4_setup(key) ELSE key
tls_generate_keys(s, k) == [client |-> Setup(s, ClientKey(k)), server |-> Setup(s, ServerKey(k))]

(* kr_ssl_hmac, with the MAC key of the end that writes. *)
RECURSIVE Total(_)
Total(s) == IF s = <<>> THEN 0 ELSE (3 * Total(Front(s)) + Last(s) + 1) % 16
kr_ssl_hmac(k, writer, n, type, data) ==
    LET key == IF writer = "client" THEN SubSeq(k, 1, MacLen) ELSE SubSeq(k, MacLen + 1, 2 * MacLen)
    IN [j \in 1 .. MacLen |-> (Total(data) + (7 * Len(data)) + n + type + key[j]) % 16]

PadLen(len) == BLOCK - ((len + MacLen + 1) % BLOCK)
Padding(len) == [j \in 1 .. PadLen(len) + 1 |-> PadLen(len)]

(* tls_send_enc: what is in the record, and the context that is left. *)
tls_send_enc(e, type, data, iv) ==
    LET mac == kr_ssl_hmac(keys[e], e, seq[e][e], type, data)
    IN IF suite = "rc4" THEN kr_rc4_crypt(ctx[e][e], data \o mac)
       ELSE [ctx |-> ctx[e][e],
             out |-> iv \o kr_cbc_encrypt(ctx[e][e], data \o mac \o Padding(Len(data)), iv)]

(* decrypt_and_vrfy, by the other end *)
Refused == <<-1>>

Verified(e, writer, type, plain) ==
    LET data == SubSeq(plain, 1, Len(plain) - MacLen)
    IN IF kr_ssl_hmac(keys[e], writer, seq[e][writer], type, data) = SubSeq(plain, Len(data) + 1, Len(plain))
       THEN data ELSE Refused

Unpadded(e, writer, type, plain) ==
    LET pad == Last(plain)
        ok == pad < BLOCK /\ pad < Len(plain) - 1
                /\ \A i \in 1 .. pad : plain[Len(plain) - i] = pad
    IN IF ok THEN Verified(e, writer, type, SubSeq(plain, 1, Len(plain) - 1 - pad)) ELSE Refused

Opened(e, writer, type, r) ==
    IF suite = "rc4" THEN [ctx |-> r.ctx, out |-> Verified(e, writer, type, r.out)]
    ELSE [ctx |-> r.ctx, out |-> Unpadded(e, writer, type, r.out)]

decrypt_and_vrfy(e, writer, type, rec) ==
    IF \/ Len(rec) % (IF suite = "rc4" THEN 1 ELSE BLOCK) # 0
       \/ Len(rec) < MacLen + (IF suite = "rc4" THEN 0 ELSE BLOCK)
    THEN [ctx |-> ctx[e][writer], out |-> Refused]
    ELSE Opened(e, writer, type,
                IF suite = "rc4" THEN kr_rc4_crypt(ctx[e][writer], rec)
                ELSE [ctx |-> ctx[e][writer],
                      out |-> kr_cbc_decrypt(ctx[e][writer], SubSeq(rec, BLOCK + 1, Len(rec)),
                                             SubSeq(rec, 1, BLOCK))])

--------------------------------------------------------------------------
Ends == {"client", "server"}
Other(e) == IF e = "client" THEN "server" ELSE "client"

Init == /\ keys = [e \in Ends |-> <<>>]
        /\ ctx = [e \in Ends |-> <<>>]
        /\ seq = [e \in Ends |-> [w \in Ends |-> 0]]
        /\ suite = "none"
        /\ call = [op |-> "none"]

Ask(op, in, out) == /\ call' = [op |-> op, in |-> in, out |-> out]
                    /\ UNCHANGED <<keys, ctx, seq, suite>>

Words(b) == [i \in 1 .. 4 |-> SubSeq(b, (4 * i) - 3, 4 * i)]
Filled(n, a, b, at) == [j \in 1 .. n |-> IF j = at THEN b ELSE (a * j) % 16]

Aes(mode, key, in) ==
    Ask("aes", in, kr_aes_decrypt_block(kr_aes_setup_dec(key, mode), mode,
                                        kr_aes_encrypt_block(kr_aes_setup_enc(key, mode), mode, in)))

(* A stream is encrypted in one cut and decrypted in another. *)
StreamIn(c, msg, cut) ==
    LET first == kr_rc4_crypt(c, SubSeq(msg, 1, cut))
    IN first.out \o kr_rc4_crypt(first.ctx, SubSeq(msg, cut + 1, Len(msg))).out

Rc4(key, msg, cut1, cut2) ==
    Ask("rc4", msg, StreamIn(kr_rc4_setup(key), StreamIn(kr_rc4_setup(key), msg, cut1), cut2))

(* Both ends have derived the same keys. *)
Keys(s, k) == /\ suite' = s
              /\ keys' = [e \in Ends |-> k]
              /\ ctx' = [e \in Ends |-> tls_generate_keys(s, k)]
              /\ UNCHANGED <<seq, call>>

Record(e, data, type, iv) ==
    LET sealed == tls_send_enc(e, type, data, iv)
        opened == decrypt_and_vrfy(Other(e), e, type, sealed.out)
    IN /\ suite # "none" /\ (call.op = "record" => call.out # Refused)
       /\ seq[e][e] < MaxRecords
       /\ call' = [op |-> "record", in |-> data, out |-> opened.out]
       /\ ctx' = [ctx EXCEPT ![e][e] = sealed.ctx, ![Other(e)][e] = opened.ctx]
       /\ seq' = [seq EXCEPT ![e][e] = @ + 1, ![Other(e)][e] = @ + 1]
       /\ UNCHANGED <<keys, suite>>

Next == \/ /\ call.op = "none" /\ suite = "none"
           /\ \/ \E mode \in Modes, a \in AesKeys, b \in Octets, x \in Plain, y \in Octets, at \in {1, 6, 11, 16} :
                    Aes(mode, Filled(4 * mode.words, a, b, at), Words(Filled(16, x, y, at)))
              \/ \E key \in Rc4Keys, n \in 1 .. MaxStream : \E cut1, cut2 \in 0 .. n :
                    Rc4(key, [j \in 1 .. n |-> (3 * j) % 16], cut1, cut2)
              \/ \E s \in {"rc4", "cbc"} : Keys(s, [j \in 1 .. 2 * (MacLen + KeyLen) |-> (5 * j) % 16])
        \/ \E e \in Ends, n \in 0 .. MaxData, type \in {1, 2}, iv \in Ivs :
              Record(e, [j \in 1 .. n |-> (7 * j) % 16], type, iv)

Spec == Init /\ [][Next]_vars

--------------------------------------------------------------------------
(* What is encrypted under a key is what is decrypted under it: by AES for both lengths of *)
(* its keys, by RC4 however its stream is cut; and each end opens the records the other     *)
(* sealed, except those with a whole block of padding more than they need, which it takes   *)
(* for damaged.                                                                             *)
OpensWhatWasSealed ==
    /\ call.op \in {"aes", "rc4"} => call.out = call.in
    /\ call.op = "record" =>
         call.out = IF suite = "cbc" /\ PadLen(Len(call.in)) = BLOCK THEN Refused ELSE call.in
=============================================================================
