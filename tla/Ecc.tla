---------------------------------- MODULE Ecc ----------------------------------
(***************************************************************************)
(* Key agreement on an elliptic curve (kernel/ecc.c), over a small prime   *)
(* field instead of the one of P-256.  A curve is a record: the prime p,   *)
(* the coefficients a and b, the generator g and its order n.              *)
(*                                                                         *)
(* The field operations are those of kernel/bignum.c, given here by what   *)
(* Bignum is checked to compute: numbers modulo p, with the inverse as a   *)
(* power.                                                                  *)
(***************************************************************************)
EXTENDS Integers, Sequences

CONSTANT ScalarBits  \* 256: the bits of a private key

fmod_add(c, x, y) == (x + y) % c.p
fmod_sub(c, x, y) == (x - y) % c.p
fmod_mul(c, x, y) == (x * y) % c.p
fmod_inv(c, x) ==
    LET power[k \in Nat] == IF k = 0 THEN 1 ELSE fmod_mul(c, x, power[k - 1]) IN power[c.p - 2]

(* (X, Y, Z) stands for (X / Z^2, Y / Z^3), and for infinity if Z is 0.    *)
JInfinity == [x |-> 0, y |-> 0, z |-> 0]
jpoint_is_infinity(q) == q.z = 0

Square(c, x) == fmod_mul(c, x, x)
Twice(c, x) == fmod_add(c, x, x)

jpoint_double(c, q) ==
    LET XX == Square(c, q.x)
        YY == Square(c, q.y)
        YYYY == Square(c, YY)
        ZZ == Square(c, q.z)
        S == Twice(c, fmod_sub(c, fmod_sub(c, Square(c, fmod_add(c, q.x, YY)), XX), YYYY))
        M == fmod_add(c, fmod_mul(c, 3, XX), fmod_mul(c, c.a, Square(c, ZZ)))
        T == fmod_sub(c, Square(c, M), Twice(c, S))
    IN  CASE jpoint_is_infinity(q) -> q
          [] ~jpoint_is_infinity(q) /\ q.y = 0 -> JInfinity
          [] OTHER ->
             [x |-> T,
              y |-> fmod_sub(c, fmod_mul(c, M, fmod_sub(c, S, T)), fmod_mul(c, 8, YYYY)),
              z |-> fmod_sub(c, fmod_sub(c, Square(c, fmod_add(c, q.y, q.z)), YY), ZZ)]

(* The sum of two points; equal ones are doubled, opposite ones cancel.    *)
Distinct(c, q, r) ==
    LET Z1Z1 == Square(c, q.z)
        Z2Z2 == Square(c, r.z)
        U1 == fmod_mul(c, q.x, Z2Z2)
        U2 == fmod_mul(c, r.x, Z1Z1)
        S1 == fmod_mul(c, fmod_mul(c, q.y, r.z), Z2Z2)
        S2 == fmod_mul(c, fmod_mul(c, r.y, q.z), Z1Z1)
        H == fmod_sub(c, U2, U1)
        I == Square(c, Twice(c, H))
        J == fmod_mul(c, H, I)
        R == Twice(c, fmod_sub(c, S2, S1))
        V == fmod_mul(c, U1, I)
        X3 == fmod_sub(c, fmod_sub(c, Square(c, R), J), Twice(c, V))
    IN  [sameU |-> U1 = U2, sameS |-> S1 = S2,
         x |-> X3,
         y |-> fmod_sub(c, fmod_mul(c, R, fmod_sub(c, V, X3)), fmod_mul(c, Twice(c, S1), J)),
         z |-> fmod_mul(c, fmod_sub(c, fmod_sub(c, Square(c, fmod_add(c, q.z, r.z)), Z1Z1), Z2Z2), H)]

NeverDoubles(c, q, d) == [x |-> d.x, y |-> d.y, z |-> d.z]
SumOf(c, q, d) ==
    IF d.sameU /\ ~d.sameS THEN JInfinity
    ELSE IF d.sameU THEN jpoint_double(c, q)
    ELSE [x |-> d.x, y |-> d.y, z |-> d.z]
jpoint_add(c, q, r) ==
    CASE jpoint_is_infinity(q) -> r
      [] ~jpoint_is_infinity(q) /\ jpoint_is_infinity(r) -> q
      [] OTHER -> SumOf(c, q, Distinct(c, q, r))

Infinity == <<"infinity">>

jpoint_to_affine(c, q) ==
    LET Scaled(zinv) == <<fmod_mul(c, q.x, Square(c, zinv)), fmod_mul(c, q.y, fmod_mul(c, Square(c, zinv), zinv))>>
    IN  IF jpoint_is_infinity(q) THEN Infinity ELSE Scaled(fmod_inv(c, q.z))

(* Double and add, from the most significant bit of the scalar on.         *)
ecc_scalar_mult(c, k, pt) ==
    LET base == [x |-> pt[1], y |-> pt[2], z |-> 1]
        set(i) == (k \div 2 ^ (ScalarBits - i)) % 2 = 1
        Step(i, doubled) == IF set(i) THEN jpoint_add(c, doubled, base) ELSE doubled
        after[i \in 0 .. ScalarBits] ==
            IF i = 0 THEN JInfinity ELSE Step(i, jpoint_double(c, after[i - 1]))
    IN  jpoint_to_affine(c, after[ScalarBits])

(* The private key is the seed modulo the order.  For the key 0 the public *)
(* point is never assigned: "garbage".                                     *)
ecc_p256_generate_keypair(c, seed) ==
    LET Pair(private, public) == [private |-> private, public |-> IF public = Infinity THEN "garbage" ELSE public]
    IN  Pair(seed % c.n, ecc_scalar_mult(c, seed % c.n, c.g))

AnyPoint(c, pt) == TRUE
OnCurve(c, pt) ==
    fmod_mul(c, pt[2], pt[2]) =
        fmod_add(c, fmod_add(c, fmod_mul(c, fmod_mul(c, pt[1], pt[1]), pt[1]), fmod_mul(c, c.a, pt[1])), c.b)

(* The shared secret, empty when it is refused.                            *)
ecc_p256_compute_shared_secret(c, private, peer) ==
    LET XOf(q) == IF q = Infinity THEN <<>> ELSE <<q[1]>>
    IN  IF OnCurve(c, peer) THEN XOf(ecc_scalar_mult(c, private, peer)) ELSE <<>>

-----------------------------------------------------------------------------
(* The reference: the group law of the curve as it is defined.             *)
Quotient(c, x, y) == CHOOSE q \in 0 .. c.p - 1 : (q * y) % c.p = x % c.p

GroupSum(c, P, Q) ==
    CASE P = Infinity -> Q
      [] P # Infinity /\ Q = Infinity -> P
      [] OTHER ->
         IF P[1] = Q[1] /\ (P[2] + Q[2]) % c.p = 0 THEN Infinity
         ELSE LET s == IF P = Q THEN Quotient(c, 3 * P[1] * P[1] + c.a, 2 * P[2])
                       ELSE Quotient(c, (Q[2] - P[2]) % c.p, (Q[1] - P[1]) % c.p)
                  x == (s * s - P[1] - Q[1]) % c.p
              IN  <<x, (s * (P[1] - x) - P[2]) % c.p>>

Multiple(c, k, P) ==
    LET sum[i \in 0 .. k] == IF i = 0 THEN Infinity ELSE GroupSum(c, sum[i - 1], P) IN sum[k]
=============================================================================
