-------------------------------- MODULE Bignum --------------------------------
(***************************************************************************)
(* Arithmetic on numbers of a fixed number of words (kernel/bignum.c) and  *)
(* the RSA padding made and checked with it (kernel/rsa.c).  A word has    *)
(* WordBits bits instead of 32, and a number Words words instead of 128.   *)
(*                                                                         *)
(* Most loops run over the words the modulus uses only.  Words beyond that *)
(* are not written: in bn_mulmod_w they are whatever was on the stack,     *)
(* here the parameter junk.                                                *)
(***************************************************************************)
EXTENDS Integers, Sequences, SequencesExt, FiniteSetsExt

CONSTANTS
    WordBits,   \* bits of a word, twice those of a byte
    Words       \* BIGNUM_WORDS

ASSUME BignumAssumption == WordBits \in Nat /\ WordBits > 1 /\ WordBits % 2 = 0 /\ Words \in Nat \ {0}

Base == 2 ^ WordBits
ByteBase == 2 ^ (WordBits \div 2)
Index == 0 .. Words - 1
Bignum == [Index -> 0 .. Base - 1]

Bit(x, i) == (x \div 2 ^ i) % 2

-----------------------------------------------------------------------------
(* Bytes come most significant first; two of them make up a word.          *)
bn_zero == [i \in Index |-> 0]

bn_from_bytes(bytes) ==
    LET at(k) == IF k < Len(bytes) THEN bytes[Len(bytes) - k] ELSE 0
    IN  [i \in Index |-> at(2 * i) + ByteBase * at(2 * i + 1)]

bn_to_bytes(a, len) ==
    [j \in 1 .. len |->
        LET k == len - j IN
        IF k \div 2 \in Index
        THEN (a[k \div 2] \div (IF k % 2 = 0 THEN 1 ELSE ByteBase)) % ByteBase
        ELSE 0]

bn_is_zero(a) == \A i \in Index : a[i] = 0

(* The words below w decide.                                               *)
bn_cmp_w(a, b, w) ==
    LET differ == {i \in 0 .. w - 1 : a[i] # b[i]}
    IN  IF differ = {} THEN 0 ELSE IF a[Max(differ)] < b[Max(differ)] THEN -1 ELSE 1

(* The carry of adding, and the borrow of subtracting, into word i.        *)
Carries(a, b, w) ==
    LET carry[i \in 0 .. w] == IF i = 0 THEN 0 ELSE (a[i - 1] + b[i - 1] + carry[i - 1]) \div Base
    IN  carry
Borrows(a, b, w) ==
    LET borrow[i \in 0 .. w] ==
            IF i = 0 THEN 0 ELSE IF a[i - 1] - b[i - 1] - borrow[i - 1] < 0 THEN 1 ELSE 0
    IN  borrow

(* Both leave the words from w on as they are in old.                      *)
bn_add_w(a, b, w, old) ==
    LET carry == Carries(a, b, w)
    IN  [i \in Index |-> IF i < w THEN (a[i] + b[i] + carry[i]) % Base ELSE old[i]]
bn_sub_w(a, b, w) ==
    LET borrow == Borrows(a, b, w)
    IN  [i \in Index |-> IF i < w THEN (a[i] - b[i] - borrow[i]) % Base ELSE a[i]]

bn_shl1_w(a, w) ==
    [i \in Index |->
        IF i < w THEN ((2 * a[i]) % Base) + (IF i = 0 THEN 0 ELSE Bit(a[i - 1], WordBits - 1)) ELSE a[i]]

bn_bit_length(a) ==
    LET set == {k \in 0 .. Words * WordBits - 1 : Bit(a[k \div WordBits], k % WordBits) = 1}
    IN  IF set = {} THEN -1 ELSE Max(set)

bn_sig_words(len) ==
    IF len < 0 THEN 1
    ELSE LET w == len \div WordBits + 1 IN IF w > Words THEN Words ELSE w

-----------------------------------------------------------------------------
Less(a, m, w) == IF bn_cmp_w(a, m, w) >= 0 THEN bn_sub_w(a, m, w) ELSE a

(* while (bn_cmp_w(&a, &m, words) >= 0) bn_sub_w(&a, &a, &m, words)        *)
RECURSIVE Reduced(_, _, _)
Reduced(a, m, w) == IF bn_cmp_w(a, m, w) >= 0 THEN Reduced(bn_sub_w(a, m, w), m, w) ELSE a

(* result + base mod m: with a carry, the sum is larger than m.            *)
CarryForgotten(x, base, m, w, junk) ==
    Less(Less(bn_add_w(x, base, w, junk), m, w), m, w)
AddStep(x, base, m, w, junk) ==
    LET sum == bn_add_w(x, base, w, junk)
        once == IF Carries(x, base, w)[w] > 0 THEN bn_sub_w(sum, m, w) ELSE Less(sum, m, w)
    IN  Less(once, m, w)

DoubleStep(base, m, w) ==
    LET twice == bn_shl1_w(base, w)
    IN  IF Bit(base[w - 1], WordBits - 1) = 1 THEN bn_sub_w(twice, m, w) ELSE Less(twice, m, w)

(* The bits of b from the least significant on.                            *)
bn_mulmod_w(a, b, m, w, junk) ==
    LET after[k \in 0 .. w * WordBits] ==
            IF k = 0 THEN <<bn_zero, a>>
            ELSE LET prev == after[k - 1]
                     x == prev[1]
                     base == prev[2]
                     set == Bit(b[(k - 1) \div WordBits], (k - 1) % WordBits) = 1
                 IN  <<IF set THEN AddStep(x, base, m, w, junk) ELSE x, DoubleStep(base, m, w)>>
    IN  after[w * WordBits][1]

(* Square and multiply; the last squaring is skipped.                      *)
bn_modexp(a, exp, m, junk) ==
    LET w == bn_sig_words(bn_bit_length(m))
        top == bn_bit_length(exp)
        one == [bn_zero EXCEPT ![0] = 1]
        after[k \in 0 .. top + 1] ==
            IF k = 0 THEN <<one, Reduced(a, m, w)>>
            ELSE LET prev == after[k - 1]
                     x == prev[1]
                     b == prev[2]
                     set == Bit(exp[(k - 1) \div WordBits], (k - 1) % WordBits) = 1
                 IN  <<IF set THEN bn_mulmod_w(x, b, m, w, junk) ELSE x,
                       IF k - 1 < top THEN bn_mulmod_w(b, b, m, w, junk) ELSE b>>
    IN  after[top + 1][1]

-----------------------------------------------------------------------------
(* The functions on bytes; an empty answer is false.                       *)
Refused(args, mod, len) ==
    \/ \E bytes \in args \cup {mod} : Len(bytes) > 2 * Words
    \/ len > 2 * Words \/ bn_is_zero(bn_from_bytes(mod))

bignum_modexp_bytes(msg, exp, mod, len, junk) ==
    IF Refused({msg, exp}, mod, len) THEN <<>>
    ELSE bn_to_bytes(bn_modexp(bn_from_bytes(msg), bn_from_bytes(exp), bn_from_bytes(mod), junk), len)

bignum_addmod_bytes(a, b, mod) ==
    LET m == bn_from_bytes(mod)
        x == Reduced(bn_from_bytes(a), m, Words)
        y == Reduced(bn_from_bytes(b), m, Words)
    IN  IF Refused({a, b}, mod, Len(mod)) THEN <<>>
        ELSE bn_to_bytes(Less(bn_add_w(x, y, Words, bn_zero), m, Words), Len(mod))

bignum_submod_bytes(a, b, mod) ==
    LET m == bn_from_bytes(mod)
        x == Reduced(bn_from_bytes(a), m, Words)
        y == Reduced(bn_from_bytes(b), m, Words)
    IN  IF Refused({a, b}, mod, Len(mod)) THEN <<>>
        ELSE bn_to_bytes(IF bn_cmp_w(x, y, Words) >= 0 THEN bn_sub_w(x, y, Words)
                         ELSE bn_sub_w(bn_add_w(x, m, Words, bn_zero), y, Words), Len(mod))

bignum_mulmod_bytes(a, b, mod, junk) ==
    LET m == bn_from_bytes(mod)
        w == bn_sig_words(bn_bit_length(m))
    IN  IF Refused({a, b}, mod, Len(mod)) THEN <<>>
        ELSE bn_to_bytes(bn_mulmod_w(Reduced(bn_from_bytes(a), m, w), Reduced(bn_from_bytes(b), m, w),
                                     m, w, junk), Len(mod))

bignum_invmod_bytes(a, mod, junk) ==
    LET m == bn_from_bytes(mod)
        two == [bn_zero EXCEPT ![0] = 2]
    IN  IF Refused({a}, mod, Len(mod)) THEN <<>>
        ELSE bn_to_bytes(bn_modexp(bn_from_bytes(a), bn_sub_w(m, two, Words), m, junk), Len(mod))

-----------------------------------------------------------------------------
(* rsa.c: the padding before encryption, and the check of a decoded        *)
(* signature of sigLen bytes.  prefix is SHA256_DIGESTINFO_PREFIX, minPad  *)
(* the eight bytes, capacity what the static buffer holds.                 *)
Filler == ByteBase - 1

PadRefused(msg, len, outLen, minPad, capacity) ==
    outLen # len \/ Len(msg) + 3 + minPad > len \/ len > capacity

KeepsZeros(msg, len, outLen, minPad, random, capacity) ==
    IF PadRefused(msg, len, outLen, minPad, capacity) THEN <<>>
    ELSE <<0, 2>> \o SubSeq(random, 1, len - Len(msg) - 3) \o <<0>> \o msg
rsa_pad(msg, len, outLen, minPad, random, capacity) ==
    IF PadRefused(msg, len, outLen, minPad, capacity) THEN <<>>
    ELSE <<0, 2>> \o [i \in 1 .. len - Len(msg) - 3 |-> IF random[i] = 0 THEN 1 ELSE random[i]]
         \o <<0>> \o msg

FirstNot(decoded, x) ==
    LET other == {i \in 3 .. Len(decoded) : decoded[i] # x}
    IN  IF other = {} THEN Len(decoded) + 1 ELSE Min(other)

AnyPadding(decoded, sigLen, prefix, hash, minPad, capacity) ==
    LET i == FirstNot(decoded, Filler) IN
    /\ sigLen = Len(decoded) /\ Len(decoded) <= capacity
    /\ decoded[1] = 0 /\ decoded[2] = 1
    /\ i <= Len(decoded) /\ decoded[i] = 0
    /\ i + Len(prefix) + Len(hash) <= Len(decoded)
    /\ SubSeq(decoded, i + 1, i + Len(prefix) + Len(hash)) = prefix \o hash
rsa_verify(decoded, sigLen, prefix, hash, minPad, capacity) ==
    LET i == FirstNot(decoded, Filler) IN
    /\ sigLen = Len(decoded) /\ Len(decoded) <= capacity
    /\ Len(decoded) >= 3 + minPad + Len(prefix) + Len(hash)
    /\ decoded[1] = 0 /\ decoded[2] = 1
    /\ i <= Len(decoded) /\ decoded[i] = 0
    /\ i + Len(prefix) + Len(hash) = Len(decoded)
    /\ SubSeq(decoded, i + 1, Len(decoded)) = prefix \o hash
=============================================================================
