------------------------------- MODULE Bigint -------------------------------
(***************************************************************************)
(* The big numbers of krypton.c and the RSA that is built on them, as it   *)
(* is compiled: Barrett reduction, and one bit of an exponent at a time.   *)
(* Each function is asked with one input; what it returns is compared with *)
(* arithmetic.                                                             *)
(*                                                                         *)
(* A bigint is the sequence of its components, the least first, and its    *)
(* size is the length; it may have leading zeros until it is trimmed.  The *)
(* radix is a parameter (the code has 2^32), so that estimates of a        *)
(* quotient go wrong in every way they can.  References are left out.      *)
(***************************************************************************)
EXTENDS Integers, Sequences, SequencesExt, FiniteSetsExt

CONSTANTS
    Bits,           \* COMP_BIT_SIZE; an octet is a component
    MaxU, Divisors, \* the numbers that are divided, and those they are divided by
    Moduli, MaxExp, \* the moduli of reductions and powers, and the exponents
    Keys,           \* [p, q, e, d]
    MinPad          \* the octets of padding that there must be: 8

VARIABLE call       \* the last call: what was called, with what, and what came back

vars == <<call>>

R == 2 ^ Bits       \* COMP_RADIX

RECURSIVE Number(_)
Number(b) == IF b = <<>> THEN 0 ELSE Number(Tail(b)) * R + Head(b)
Width(n) == Min({k \in 1 .. 12 : n < R ^ k})
Big(n) == [j \in 1 .. Width(n) |-> (n \div R ^ (j - 1)) % R]

--------------------------------------------------------------------------
RECURSIVE more_comps(_, _)
more_comps(b, n) == IF Len(b) >= n THEN SubSeq(b, 1, n) ELSE more_comps(Append(b, 0), n)

trim(b) == SubSeq(b, 1, Max({1} \cup {j \in 1 .. Len(b) : b[j] # 0}))

bi_compare(a, b) ==
    LET differ == {j \in 1 .. Len(a) : a[j] # b[j]}
    IN CASE Len(a) > Len(b) -> 1
         [] Len(a) < Len(b) -> -1
         [] OTHER -> IF differ = {} THEN 0 ELSE IF a[Max(differ)] > b[Max(differ)] THEN 1 ELSE -1

comp_right_shift(b, n) == IF Len(b) <= n THEN <<0>> ELSE SubSeq(b, n + 1, Len(b))
comp_left_shift(b, n) == more_comps(<<>>, n) \o b
comp_mod(b, n) == SubSeq(b, 1, IF Len(b) > n THEN n ELSE Len(b))

(* A carry and the components below it. *)
Digit(acc, carry, x) == [carry |-> carry, out |-> Append(acc.out, x)]
Start == [carry |-> 0, out |-> <<>>]

Sum(acc, x, sl) ==
    LET rl == (sl + acc.carry) % R IN Digit(acc, IF sl < x \/ rl < sl THEN 1 ELSE 0, rl)

RECURSIVE Total(_, _, _)
TotalAt(acc, a, b, j) == Total(Sum(acc, a[j], (a[j] + b[j]) % R), a, b)
Total(acc, a, b) == IF Len(acc.out) = Len(a) THEN acc ELSE TotalAt(acc, a, b, Len(acc.out) + 1)

(* bi_add, and what it leaves of the second number: it is as long as the first. *)
Longer(a, b) == IF Len(a) > Len(b) THEN Len(a) ELSE Len(b)
Carried(t) == trim(Append(t.out, t.carry))
bi_add(a, b) == Carried(Total(Start, more_comps(a, Longer(a, b)), more_comps(b, Longer(a, b))))
AddLeaves(a, b) == more_comps(b, Longer(a, b))

(* bi_subtract: the sign, and the difference within the size of the first number.  The   *)
(* second is cut to that size, and trimmed.                                               *)
Less(acc, x, sl) ==
    LET rl == (sl - acc.carry) % R IN Digit(acc, IF sl > x \/ rl > sl THEN 1 ELSE 0, rl)

RECURSIVE Difference(_, _, _)
DifferenceAt(acc, a, b, j) == Difference(Less(acc, a[j], (a[j] - b[j]) % R), a, b)
Difference(acc, a, b) == IF Len(acc.out) = Len(a) THEN acc ELSE DifferenceAt(acc, a, b, Len(acc.out) + 1)

Signed(t) == [negative |-> t.carry = 1, out |-> trim(t.out)]
bi_subtract(a, b) == Signed(Difference(Start, a, more_comps(b, Len(a))))
SubtractLeaves(a, b) == trim(more_comps(b, Len(a)))

Times(acc, x, b) == Digit(acc, (x * b + acc.carry) \div R, (x * b + acc.carry) % R)
RECURSIVE Multiplied(_, _, _)
Multiplied(acc, a, b) == IF a = <<>> THEN acc ELSE Multiplied(Times(acc, Head(a), b), Tail(a), b)
bi_int_multiply(a, b) == Carried(Multiplied(Start, a, b))

Share(acc, x, d) == [carry |-> (acc.carry * R + x) % d, out |-> <<(acc.carry * R + x) \div d>> \o acc.out]
RECURSIVE Shared(_, _, _)
Shared(acc, b, d) == IF b = <<>> THEN acc ELSE Shared(Share(acc, Last(b), d), Front(b), d)
bi_int_divide(b, d) == trim(Shared(Start, b, d).out)

--------------------------------------------------------------------------
(* bi_divide.  The quotient's digit is guessed from two components of u and one of v,    *)
(* made less by one if a third and a second show that it is too large, and by one more    *)
(* if the difference is negative: then v is added again and the carry is lopped off.      *)
Top(b, j) == b[Len(b) - j]

Lessened(t, v, q) ==
    LET inner == (R * Top(t, 0) + Top(t, 1) - q * Top(v, 0)) % R
    IN IF Top(v, 1) * q > inner * R + Top(t, 2) THEN q - 1 ELSE q

Guess(t, v) ==
    IF Top(t, 0) = Top(v, 0) THEN R - 1
    ELSE IF Len(v) > 1 /\ Top(v, 1) # 0
         THEN Lessened(t, v, ((Top(t, 0) * R + Top(t, 1)) \div Top(v, 0)) % R)
         ELSE ((Top(t, 0) * R + Top(t, 1)) \div Top(v, 0)) % R

(* Of the mutants: the digit is lowered, and v is not added again. *)
NotAddedBack(t, v, q) == [q |-> q - 1, t |-> t]

AddedBack(t, v, q) == [q |-> q - 1, t |-> Front(bi_add(t, v))]

Subtracted(s, v, q, n) ==
    IF s.negative THEN AddedBack(more_comps(s.out, n + 1), v, q)
    ELSE [q |-> q, t |-> more_comps(s.out, n + 1)]

DivideDigit(t, v, q, n) ==
    IF q = 0 THEN [q |-> 0, t |-> t] ELSE Subtracted(bi_subtract(t, bi_int_multiply(v, q)), v, q, n)

(* The n + 1 components of u from at on are replaced; the digits come from the top. *)
Placed(s, at, n, r) ==
    [u |-> [j \in 1 .. Len(s.u) |-> IF j \in at + 1 .. at + n + 1 THEN r.t[j - at] ELSE s.u[j]],
     q |-> <<r.q>> \o s.q]

DivideAt(s, v, at, n) ==
    LET t == SubSeq(s.u, at + 1, at + n + 1) IN Placed(s, at, n, DivideDigit(t, v, Guess(t, v), n))

RECURSIVE Long(_, _, _, _)
Long(s, v, n, m) == IF Len(s.q) > m THEN s
                    ELSE Long(DivideAt(s, v, Len(s.u) - n - 1 - Len(s.q), n), v, n, m)

(* A new place for the digit that normalising may have made. *)
Scaled(u, d) == LET w == IF d > 1 THEN bi_int_multiply(u, d) ELSE u
                IN IF Len(w) = Len(u) THEN Append(w, 0) ELSE w

Factor(v) == R \div (Top(trim(v), 0) + 1)
Normal(v, d) == IF d > 1 THEN bi_int_multiply(v, d) ELSE trim(v)

Division(u, v, d) ==
    Long([u |-> Scaled(u, d), q |-> <<>>], Normal(v, d), Len(v), Len(u) - Len(v))

bi_quotient(u, v) == trim(Division(u, v, Factor(v)).q)

(* bi_mod: the modulus has been normalised before, by bi_set_mod. *)
bi_mod(u, v) == IF bi_compare(v, u) > 0 THEN u
                ELSE bi_int_divide(trim(Division(u, v, Factor(v)).u), Factor(v))

--------------------------------------------------------------------------
(* regular_multiply: of the i-th row only the products from place outer - 1 on, and those *)
(* below place inner, if they are not 0.  Places count from 0.                            *)
Product(acc, r, x, y) ==
    [sr |-> [acc.sr EXCEPT ![r + 1] = (@ + x * y + acc.carry) % R],
     carry |-> (acc.sr[r + 1] + x * y + acc.carry) \div R]

Ended(acc, r) == [acc.sr EXCEPT ![r + 1] = acc.carry]

RECURSIVE Row(_, _, _, _, _, _)
Row(acc, a, y, r, j, count) ==
    IF count = 0 THEN Ended(acc, r)
    ELSE Row(Product(acc, r, a[j + 1], y), a, y, r + 1, j + 1, count - 1)

Skips(i, n, outer) == IF outer - i > 0 /\ outer < n THEN outer - i - 1 ELSE 0
Count(from, n, inner) == IF inner = 0 THEN n ELSE Max({0, Min({n, inner - from})})

RowAt(sr, a, y, i, j, inner) ==
    Row([sr |-> sr, carry |-> 0], a, y, i + j, j, Count(i + j, Len(a) - j, inner))

RECURSIVE Rows(_, _, _, _, _, _)
Rows(sr, a, b, i, inner, outer) ==
    IF i = Len(b) THEN sr
    ELSE Rows(RowAt(sr, a, b[i + 1], i, Skips(i, Len(a), outer), inner), a, b, i + 1, inner, outer)

regular_multiply(a, b, inner, outer) ==
    trim(Rows(more_comps(<<>>, Len(a) + Len(b)), a, b, 0, inner, outer))

bi_multiply(a, b) == regular_multiply(a, b, 0, 0)

(* bi_set_mod and bi_barrett *)
bi_mu(m) == bi_quotient(comp_left_shift(<<0, 1>>, 2 * Len(m) - 1), m)

Reduced(r, m) == IF bi_compare(r, m) >= 0 THEN bi_subtract(r, m).out ELSE r

Estimate(x, k, mu) ==
    comp_right_shift(regular_multiply(comp_right_shift(x, k - 1), mu, 0, k - 1), k + 1)

Multiple(q3, m, k) == comp_mod(regular_multiply(q3, m, k + 1, 0), k + 1)

bi_barrett(x, m, mu) ==
    IF Len(x) > 2 * Len(m) THEN bi_mod(x, m)
    ELSE Reduced(bi_subtract(comp_mod(x, Len(m) + 1), Multiple(Estimate(x, Len(m), mu), m, Len(m))).out, m)

(* bi_mod_power: square, and multiply where the exponent has a one, from its first on. *)
Exponent(e) == LET n == Number(e)
                   first == Max({i \in 0 .. Bits * Len(e) : 2 ^ i <= n})
               IN [j \in 1 .. first + 1 |-> (n \div 2 ^ (first + 1 - j)) % 2]

Squared(x, m, mu) == bi_barrett(bi_multiply(x, x), m, mu)

PowerStep(x, g, bit, m, mu) ==
    IF bit = 0 THEN Squared(x, m, mu) ELSE bi_barrett(bi_multiply(Squared(x, m, mu), g), m, mu)

RECURSIVE PowerOf(_, _, _, _, _)
PowerOf(x, g, bits, m, mu) ==
    IF bits = <<>> THEN x ELSE PowerOf(PowerStep(x, g, Head(bits), m, mu), g, Tail(bits), m, mu)

bi_mod_power(g, e, m, mu) == PowerOf(<<1>>, g, Exponent(e), m, mu)

(* bi_crt: p is as long as m1 once m1 is added to it, and m2 is cut to the sum. *)
Combined(m1, m2, key, muP) ==
    LET sum == bi_add(m1, key.p)
        h == bi_barrett(bi_multiply(bi_subtract(sum, m2).out, key.qInv), AddLeaves(m1, key.p), muP)
    IN bi_add(SubtractLeaves(sum, m2), bi_multiply(key.q, h))

bi_crt(x, key) ==
    Combined(bi_mod_power(x, key.dP, key.p, bi_mu(key.p)), bi_mod_power(x, key.dQ, key.q, bi_mu(key.q)),
             key, bi_mu(key.p))

--------------------------------------------------------------------------
(* Octets, the first of them the highest. *)
bi_import(data) == trim(Reverse(data))
bi_export(x, size) == Reverse(more_comps(x, size))

(* RSA_priv_key_new *)
Inverse1(a, m) == CHOOSE x \in 1 .. m - 1 : (a * x) % m = 1
PrivKey(k) == [p |-> Big(k.p), q |-> Big(k.q), dP |-> Big(k.d % (k.p - 1)), dQ |-> Big(k.d % (k.q - 1)),
               qInv |-> Big(Inverse1(k.q % k.p, k.p)), m |-> Big(k.p * k.q), e |-> Big(k.e),
               num_octets |-> Width(k.p * k.q)]

RSA_private(key, x) == bi_crt(x, key)
RSA_public(key, x) == bi_mod_power(x, key.e, key.m, bi_mu(key.m))

Failed == <<-1>>

(* The padding is given: of ones when it is signed, drawn and without zeros otherwise. *)
Block(data, pad, signing) == <<0, IF signing THEN 1 ELSE 2>> \o pad \o <<0>> \o data

RSA_encrypt(key, data, pad, signing) ==
    LET x == bi_import(Block(data, pad, signing))
    IN bi_export(IF signing THEN RSA_private(key, x) ELSE RSA_public(key, x), key.num_octets)

(* The place behind the padding and what ends it, when it has none but what it may have. *)
PadEnd(block, decryption) ==
    Min({Len(block)} \cup {i \in 3 .. Len(block) : IF decryption THEN block[i] = 0 ELSE block[i] # R - 1})

Unpadded(block, i, decryption) ==
    IF block[1] # 0 \/ block[2] # (IF decryption THEN 2 ELSE 1) \/ i = Len(block) \/ i - 3 < MinPad
    THEN Failed ELSE SubSeq(block, i + 1, Len(block))

Opened(block, decryption) == Unpadded(block, PadEnd(block, decryption), decryption)

RSA_decrypt(key, data, decryption) ==
    LET x == bi_import(data)
    IN Opened(bi_export(IF decryption THEN RSA_private(key, x) ELSE RSA_public(key, x), key.num_octets),
              decryption)

--------------------------------------------------------------------------
Init == call = [op |-> "none"]

Ask(op, in, out) == call' = [op |-> op, in |-> in, out |-> out]

Divide(u, v) == Ask("divide", <<u, v>>, <<Number(bi_quotient(Big(u), Big(v))), Number(bi_mod(Big(u), Big(v)))>>)
Reduce(x, m) == Ask("reduce", <<x, m>>, Number(bi_barrett(Big(x), Big(m), bi_mu(Big(m)))))
Power(g, e, m) == Ask("power", <<g, e, m>>, Number(bi_mod_power(Big(g), Big(e), Big(m), bi_mu(Big(m)))))
Crt(c, k) == Ask("crt", <<c, k>>, Number(bi_crt(Big(c), PrivKey(k))))

Pads(k, signing) == IF signing THEN {[j \in 1 .. k |-> R - 1]} ELSE [1 .. k -> 1 .. R - 1]

Send(k, data, pad, signing) ==
    Ask("send", <<data, pad, signing, k.p>>, RSA_decrypt(PrivKey(k), RSA_encrypt(PrivKey(k), data, pad, signing), ~signing))

Next == /\ call.op = "none"
        /\ \/ \E u \in 0 .. MaxU, v \in Divisors : Len(Big(u)) >= Len(Big(v)) /\ Divide(u, v)
           \/ \E m \in Moduli, x \in 0 .. MaxU : x < m * m /\ Reduce(x, m)
           \/ \E m \in Moduli, e \in 1 .. MaxExp : \E g \in 0 .. m - 1 : Power(g, e, m)
           \/ \E k \in Keys : \E c \in 0 .. MaxU : c < k.p * k.q /\ Crt(c, k)
           \/ \E k \in Keys, signing \in BOOLEAN, l \in 1 .. 2 :
                 /\ Width(k.p * k.q) - 3 - l >= MinPad
                 /\ \E data \in [1 .. l -> 0 .. R - 1], pad \in Pads(Width(k.p * k.q) - 3 - l, signing) :
                        Send(k, data, pad, signing)

Spec == Init /\ [][Next]_vars

--------------------------------------------------------------------------
RECURSIVE PowerMod(_, _, _)
PowerMod(g, e, m) == IF e = 0 THEN 1 % m
                     ELSE (PowerMod((g * g) % m, e \div 2, m) * (IF e % 2 = 1 THEN g ELSE 1)) % m

(* The functions of bigint.c compute what they are named for; what was encrypted or       *)
(* signed is decrypted or verified as it was, if its padding is long enough.              *)
NumbersAreRight ==
    /\ call.op = "divide" => call.out = <<call.in[1] \div call.in[2], call.in[1] % call.in[2]>>
    /\ call.op = "reduce" => call.out = call.in[1] % call.in[2]
    /\ call.op = "power" => call.out = PowerMod(call.in[1], call.in[2], call.in[3])
    /\ call.op = "crt" => LET k == call.in[2] IN call.out % (k.p * k.q) = PowerMod(call.in[1], k.d, k.p * k.q)
    /\ call.op = "send" => call.out = call.in[1]
=============================================================================
