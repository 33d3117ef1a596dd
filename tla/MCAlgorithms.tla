------------------------------ MODULE MCAlgorithms ------------------------------
(***************************************************************************)
(* The algorithms of the kernel called once with every input of a small    *)
(* set, each against a reference definition.                               *)
(***************************************************************************)
EXTENDS Integers, Sequences, SequencesExt, FiniteSets, FiniteSetsExt, MCTexts, Bignum

CONSTANTS ScalarBits, ByteBits, MaxLabels, MaxFixups, CodeSize

E == INSTANCE Ecc
H == INSTANCE HttpBody WITH
         Lits <- 4, MaxBits <- 3, LengthBase <- <<2, 4>>, LengthExtra <- <<0, 1>>,
         DistBase <- <<1, 2>>, DistExtra <- <<0, 1>>,
         FixedLit <- <<3, 3, 3, 3, 2, 3, 3>>, FixedDist <- <<1, 1>>, Order <- <<4, 5, 6, 0, 2, 1, 3>>,
         TableSize <- 8, SizeMod <- 256
A == INSTANCE Asm
G == INSTANCE Geometry
M == INSTANCE Mouse

-----------------------------------------------------------------------------
(* Numbers: a byte has one bit here, so that four bytes are 0 .. 15.       *)
Bytes(x, n) == [i \in 1 .. n |-> (x \div 2 ^ (n - i)) % 2]
NumberOf(bytes) == FoldLeft(LAMBDA n, b : 2 * n + b, 0, bytes)
Junk == {bn_zero, [i \in Index |-> Base - 1]}
Moduli == 2 .. 15
Longest == {37, 61, 63}

(* A modulus as it is passed: without a leading zero word.  Operands are   *)
(* as long as it is: longer ones lose their upper words (kernel/ecc.c and  *)
(* kernel/rsa.c never pass any), and shorter ones are extended by zeros.   *)
Size(m) == 2 * (IF m < Base THEN 1 ELSE IF m < Base * Base THEN 2 ELSE 3)
As(x, m) == Bytes(x, Size(m))
Operands(m) == IF m < Base THEN 0 .. Base - 1 ELSE IF m < Base * Base THEN 0 .. 15 ELSE {0, 1, 31, 36, 60, 62, 63}

MulMod == Idle /\ \E m \in Moduli \cup Longest \cup {0} : \E a, b \in Operands(m), junk \in Junk :
    Call("mulmod", <<a, b, m>>, bignum_mulmod_bytes(As(a, m), As(b, m), As(m, m), junk))
AddMod == Idle /\ \E a, b \in 0 .. 15, m \in Moduli \cup {0} :
    Call("addmod", <<a, b, m>>, bignum_addmod_bytes(Bytes(a, 4), Bytes(b, 4), Bytes(m, 4)))
SubMod == Idle /\ \E a, b \in 0 .. 15, m \in Moduli \cup {0} :
    Call("submod", <<a, b, m>>, bignum_submod_bytes(Bytes(a, 4), Bytes(b, 4), Bytes(m, 4)))
InvMod == Idle /\ \E p \in {2, 3, 5, 7, 11, 13}, junk \in Junk : \E a \in 1 .. p - 1 :
    Call("invmod", <<a, p>>, bignum_invmod_bytes(As(a, p), As(p, p), junk))
ModExp == Idle /\ \E m \in Moduli \cup Longest \cup {0} : \E a \in Operands(m), e \in 0 .. 5, junk \in Junk :
    Call("modexp", <<a, e, m>>, bignum_modexp_bytes(As(a, m), Bytes(e, 3), As(m, m), Size(m), junk))

(* bignum.c computes with fixed words what the integers say, whatever was  *)
(* on the stack: products, sums, differences, powers and inverses modulo   *)
(* m, the carry out of the modulus's top word included; a zero modulus is  *)
(* refused.                                                                *)
ArithmeticExact ==
    LET exact(x) == IF Args[3] = 0 THEN result = <<>> ELSE NumberOf(result) = x % Args[3] IN
    /\ Called("mulmod") => exact(Args[1] * Args[2])
    /\ Called("addmod") => exact(Args[1] + Args[2])
    /\ Called("submod") => exact(Args[1] - Args[2])
    /\ Called("modexp") => exact(FoldLeft(LAMBDA x, i : IF Args[3] = 0 THEN 0 ELSE (x * Args[1]) % Args[3], 1,
                                          [i \in 1 .. Args[2] |-> i]))
    /\ Called("invmod") => (NumberOf(result) * Args[1]) % Args[2] = 1

-----------------------------------------------------------------------------
(* A signature's encoding of seven bytes with a prefix and a hash of one   *)
(* byte each and two bytes of filler at least; every byte is 0, 1 or 2 in  *)
(* the first two places and a bit after.  The signature, or the buffer,    *)
(* may be a byte short.                                                    *)
MinPad == 2
Prefix == <<1>>
Sizes == {<<7, 7>>, <<6, 7>>, <<7, 6>>}
VerifyEncoding ==
    Idle /\ \E hash \in {<<0>>, <<1>>}, head \in TupleOf({0, 1, 2}, 2), rest \in TupleOf({0, 1}, 5), size \in Sizes :
    Call("verify", <<hash, head \o rest, size>>, rsa_verify(head \o rest, size[1], Prefix, hash, MinPad, size[2]))

(* rsa.c accepts one encoding only: filler up to the end leaves no room to *)
(* choose bytes.                                                           *)
OneEncoding ==
    Called("verify") =>
        (result <=> /\ Args[2] = <<0, 1>> \o [i \in 1 .. 2 |-> Filler] \o <<0>> \o Prefix \o Args[1]
                    /\ Args[3] = <<7, 7>>)

PadMessage == Idle /\ \E n \in 0 .. 3 : \E msg \in TupleOf({0, 1}, n), random \in TupleOf({0, 1}, 4), size \in Sizes :
    Call("pad", <<msg, size>>, rsa_pad(msg, 7, size[1], MinPad, random, size[2]))

(* A message that fits is padded so that it can be read back: it begins    *)
(* after the first zero, at least the minimum of bytes on; a longer one is *)
(* refused, and so is any if a buffer is too short.                        *)
PaddedReadsBack ==
    Called("pad") =>
        LET zero == Min({i \in 3 .. Len(result) : result[i] = 0}) IN
        IF Len(Args[1]) + 3 + MinPad > 7 \/ Args[2] # <<7, 7>> THEN result = <<>>
        ELSE /\ Len(result) = 7 /\ SubSeq(result, 1, 2) = <<0, 2>>
             /\ zero - 3 >= MinPad /\ SubSeq(result, zero + 1, 7) = Args[1]

(* RSA rests on all three: exact powers, one accepted encoding, and        *)
(* padding that can be undone.                                             *)
NumbersExact == ArithmeticExact /\ OneEncoding /\ PaddedReadsBack

-----------------------------------------------------------------------------
(* Curves over two small fields, and one of prime order.                   *)
Curves(p) == {c \in [p : {p}, a : 0 .. p - 1, b : 0 .. p - 1] : (4 * c.a * c.a * c.a + 27 * c.b * c.b) % p # 0}
Points(c) ==
    {pt \in TupleOf(0 .. c.p - 1, 2) :
        (pt[2] * pt[2]) % c.p = (pt[1] * pt[1] * pt[1] + c.a * pt[1] + c.b) % c.p}
PrimeCurve == [p |-> 11, a |-> 1, b |-> 6, g |-> <<2, 7>>, n |-> 13]

ScalarMult == Idle /\ \E c \in Curves(5) \cup {[p |-> 7, a |-> 6, b |-> 0], PrimeCurve} :
    \E pt \in Points(c), k \in 0 .. 2 ^ ScalarBits - 1 :
        Call("scalar", <<c, k, pt>>, E!ecc_scalar_mult(c, k, pt))
Exchange(ours, theirs) ==
    <<E!ecc_p256_compute_shared_secret(PrimeCurve, ours.private, theirs.public),
      E!ecc_p256_compute_shared_secret(PrimeCurve, theirs.private, ours.public)>>
KeyAgreement == Idle /\ \E s, t \in {k \in 0 .. 2 ^ ScalarBits - 1 : k % PrimeCurve.n # 0} :
    Call("agree", <<s, t>>, Exchange(E!ecc_p256_generate_keypair(PrimeCurve, s),
                                     E!ecc_p256_generate_keypair(PrimeCurve, t)))
SharedSecret == Idle /\ \E pt \in TupleOf(0 .. 10, 2), k \in {1, 5} :
    Call("secret", <<k, pt>>, E!ecc_p256_compute_shared_secret(PrimeCurve, k, pt))

(* ecc.c: a point multiplied by a scalar is that many times added to       *)
(* itself, also where a doubling, an opposite point or infinity comes up   *)
(* on the way.                                                             *)
ScalarMultIsSum == Called("scalar") => result = E!Multiple(Args[1], Args[2], Args[3])

(* Both sides of the key exchange have the same secret, and a point that   *)
(* is not on the curve gives none.                                         *)
SecretsAgree ==
    /\ Called("agree") =>
           LET P == E!Multiple(PrimeCurve, (Args[1] * Args[2]) % 13, PrimeCurve.g)
           IN  result = <<<<P[1]>>, <<P[1]>>>>
    /\ Called("secret") => (result = <<>> <=> Args[2] \notin Points(PrimeCurve))

(* The curve: multiplying is repeated adding, so that secrets agree.       *)
CurveExact == ScalarMultIsSum /\ SecretsAgree

-----------------------------------------------------------------------------
(* Bodies.  Every code of four symbols that can be made.                   *)
DecodeSymbol == Idle /\ \E lengths \in TupleOf(0 .. 3, 4), sym \in 0 .. 3, after \in {0, 1} :
    /\ H!Kraft(lengths) /\ lengths[sym + 1] > 0
    /\ Call("symbol", <<lengths, sym>>, H!huffman_decode(lengths, Append(H!CodeBits(lengths, sym), after), 1))

(* inflate.c gives every symbol its canonical code: it is decoded, and no  *)
(* bit more is taken.                                                      *)
SymbolsDecode ==
    Called("symbol") => result = [sym |-> Args[2], pos |-> 1 + Args[1][Args[2] + 1]]

Literal(x) == [lit |-> TRUE, sym |-> x]
Match(l, le, d, de) == [lit |-> FALSE, len |-> l, lenExtra |-> le, dist |-> d, distExtra |-> de]
Matches == {Match(l, le, d, de) : l \in {1}, le \in {0}, d \in {0, 1}, de \in {0}}
           \cup {Match(2, 1, 1, 1), Match(2, 0, 1, 0)}
Tokens == {Literal(0), Literal(3)} \cup Matches

(* A sender's tables, and its block header with them: lengths as they are, *)
(* or runs of them by the three repeat codes.                              *)
LitLengths == {<<2, 2, 2, 3, 3>>, <<2, 0, 0, 3, 1, 3>>, <<0, 0, 0, 0, 1, 1>>}
CodeLengths == <<2, 3, 3, 3, 3, 3, 3>>
Items(lengths, packed) ==
    IF ~packed THEN [i \in DOMAIN lengths |-> [sym |-> lengths[i], extra |-> 0]]
    ELSE LET same(i) == {j \in i .. Len(lengths) : \A k \in i .. j : lengths[k] = lengths[i]}
             from[i \in 1 .. Len(lengths) + 1] ==
                 LET n == Max(same(i)) - i + 1 IN
                 CASE i > Len(lengths) -> <<>>
                   [] i <= Len(lengths) /\ lengths[i] = 0 /\ n >= 2 ->
                        <<IF n >= 4 THEN [sym |-> 6, extra |-> n - 4] ELSE [sym |-> 5, extra |-> n - 2]>>
                        \o from[i + n]
                   [] i <= Len(lengths) /\ lengths[i] # 0 /\ n >= 3 ->
                        LET k == IF n > 4 THEN 4 ELSE n
                        IN  <<[sym |-> lengths[i], extra |-> 0], [sym |-> 4, extra |-> k - 3]>> \o from[i + k]
                   [] OTHER -> <<[sym |-> lengths[i], extra |-> 0]>> \o from[i + 1]
         IN  from[1]
ItemBits(item) ==
    H!CodeBits(CodeLengths, item.sym)
    \o (IF item.sym <= 3 THEN <<>> ELSE H!LowFirst(item.extra, H!RepeatBits(item.sym)))
TableBits(lit, dist, packed) ==
    LET order == <<4, 5, 6, 0, 2, 1, 3>> IN
    H!LowFirst(Len(lit) - 5, 1) \o H!LowFirst(Len(dist) - 1, 2) \o H!LowFirst(3, 2)
    \o FlattenSeq([j \in 1 .. 7 |-> H!LowFirst(CodeLengths[order[j] + 1], 2)])
    \o FlattenSeq([i \in DOMAIN Items(lit \o dist, packed) |-> ItemBits(Items(lit \o dist, packed)[i])])

(* A stored block begins on a byte.                                        *)
Padding(n) == [i \in 1 .. (-n) % ByteBits |-> 0]
StoredBits(before, bytes) ==
    Padding(before + 3) \o H!LowFirst(Len(bytes), ByteBits)
    \o H!LowFirst(2 ^ ByteBits - 1 - Len(bytes), ByteBits) \o H!BitsOf(bytes)
BlockBits(before, final, b) ==
    LET head(type) == <<IF final THEN 1 ELSE 0>> \o H!LowFirst(type, 2) IN
    CASE b.type = "stored" -> head(0) \o StoredBits(before, [i \in DOMAIN b.tokens |-> b.tokens[i].sym])
      [] b.type = "fixed" -> head(1) \o H!TokensBits(b.tokens, <<3, 3, 3, 3, 2, 3, 3>>, <<1, 1>>)
      [] b.type = "dynamic" -> head(2) \o TableBits(b.lit, b.dist, b.packed) \o H!TokensBits(b.tokens, b.lit, b.dist)
Stream(b1, b2) == LET one == BlockBits(0, FALSE, b1) IN one \o BlockBits(Len(one), TRUE, b2)

Firsts == {[type |-> "stored", tokens |-> <<>>], [type |-> "stored", tokens |-> <<Literal(2), Literal(1)>>],
           [type |-> "fixed", tokens |-> <<Literal(3)>>]}
DynamicTokens(lit) ==
    {Literal(x) : x \in {x \in 0 .. 3 : lit[x + 1] > 0}} \cup (IF Len(lit) = 6 THEN {Match(1, 0, 0, 0)} ELSE {})
Seconds ==
    {[type |-> "fixed", tokens |-> ts] : ts \in BoundedSeq(Tokens, 3)}
    \cup UNION {{[type |-> "dynamic", tokens |-> ts, lit |-> lit, dist |-> dist, packed |-> packed] :
                 ts \in BoundedSeq(DynamicTokens(lit), 2), dist \in {<<1>>, <<1, 1>>, <<1, 1, 0>>, <<2, 2, 0, 1>>}, packed \in BOOLEAN}
                : lit \in LitLengths}
MaxBody == 7

Inflate == Idle /\ \E b1 \in Firsts, b2 \in Seconds :
    Call("inflate", <<b1.tokens \o b2.tokens, b2>>, H!inflate_raw(Stream(b1, b2), MaxBody))

(* A header that announces more code lengths than both tables have codes,  *)
(* which the format forbids: 320 instead of 318 at most (inflate.c:190).   *)
(* The code does not check for it, and writes past the end of its array.   *)
TooManyLengths(b) == b.type = "dynamic" /\ Len(b.lit) + Len(b.dist) > 8

(* What tokens stand for, or nothing if they reach before the beginning or *)
(* there is no room.                                                       *)
Contents(tokens) ==
    LET all == H!Expanded(tokens) IN IF -1 \in ToSet(all) \/ Len(all) > MaxBody THEN <<>> ELSE all

(* inflate.c undoes the compression: stored, fixed and dynamic blocks, and *)
(* matches that overlap what they copy; or it gives up.  Nothing is said   *)
(* of a stream with TooManyLengths: "returns 0 on any malformed input"     *)
(* (inflate.c:261-263) does not hold of that one.                          *)
InflateInverts == Called("inflate") => TooManyLengths(Args[2]) \/ result = Contents(Args[1])

-----------------------------------------------------------------------------
(* A whole response: contents packed by gzip with any of the optional      *)
(* fields, then in chunks, then perhaps cut off.                           *)
Fields(f) == [extra |-> f % 2 = 1, name |-> (f \div 2) % 2 = 1, comment |-> (f \div 4) % 2 = 1, crc |-> f \div 8 = 1]
Gzip(bytes, f) ==
    LET opt(b, s) == IF b THEN s ELSE <<>>
        flg == (IF f.crc THEN 2 ELSE 0) + (IF f.extra THEN 4 ELSE 0) + (IF f.name THEN 8 ELSE 0) + (IF f.comment THEN 16 ELSE 0)
        bits == Stream([type |-> "stored", tokens |-> <<>>],
                       [type |-> "stored", tokens |-> [i \in DOMAIN bytes |-> Literal(bytes[i])]])
        packed == [k \in 1 .. Len(bits) \div ByteBits |-> H!br_read_bits(bits, 1 + (k - 1) * ByteBits, ByteBits)]
    IN  <<31, 139, 8, flg, 0, 0, 0, 0, 0, 0>> \o opt(f.extra, <<1, 0, 9>>) \o opt(f.name, <<7, 0>>)
        \o opt(f.comment, <<7, 7, 0>>) \o opt(f.crc, <<5, 5>>) \o packed \o [i \in 1 .. 8 |-> 1]

Chunk(bytes) ==
    LET digit(d) == IF d < 10 THEN 48 + d ELSE 87 + d
        n == Len(bytes)
    IN  (IF n > 15 THEN <<digit(n \div 16)>> ELSE <<>>) \o <<digit(n % 16), H!CR, H!LF>> \o bytes \o <<H!CR, H!LF>>
Chunked(bytes, cut) ==
    (IF cut = 0 THEN <<>> ELSE Chunk(SubSeq(bytes, 1, cut)))
    \o (IF cut = Len(bytes) THEN <<>> ELSE Chunk(SubSeq(bytes, cut + 1, Len(bytes)))) \o Chunk(<<>>)

Bodies == {<<>>, <<1>>, <<H!CR, H!LF>>, <<48, H!CR, H!LF>>, <<3, 2, 1>>}
Small == {<<>>, <<1>>, <<3, 2, 1>>}
Response(chunked, gzipped, body) ==
    [complete |-> TRUE, status |-> 2, chunked |-> chunked, gzipped |-> gzipped, body |-> body]

PlainBody == Idle /\ \E body \in Bodies, max \in 2 .. 3, dechunked \in 2 .. 3, cut \in 0 .. 3, lost \in 0 .. 14 :
    LET framed == Chunked(body, cut)
        got == SubSeq(framed, 1, Len(framed) - lost)
    IN  /\ cut <= Len(body) /\ lost <= Len(framed)
        /\ Call("plain", <<body, max, dechunked, lost>>, H!http_extract_body(Response(TRUE, FALSE, got), dechunked, max))
PackedBody == Idle /\ \E body \in Small, f \in 0 .. 15, chunked \in BOOLEAN, cut \in {0, 4, 11, 16} :
    LET packed == Gzip(body, Fields(f)) IN
    Call("packed", <<body, f, chunked, cut>>,
         H!http_extract_body(Response(chunked, TRUE, IF chunked THEN Chunked(packed, cut) ELSE packed), 99, 3))
(* One chunk, announced by up to three digits, and less data than that.    *)
Hex(n) == LET digit(d) == IF d < 10 THEN 48 + d ELSE 87 + d IN
          [i \in 1 .. 3 |-> digit((n \div 16 ^ (3 - i)) % 16)]
Announced == (1 .. 40) \cup (230 .. 300) \cup (500 .. 530)
ShortChunk == Idle /\ \E first, rest \in {<<>>, <<1>>, <<3, 2, 1>>}, size \in Announced :
    LET before == IF first = <<>> THEN <<>> ELSE Chunk(first)
        framed == before \o Hex(size) \o <<H!CR, H!LF>> \o rest
    IN  Call("short", <<first, rest, size, Len(before) + 5>>,
             H!http_extract_body(Response(TRUE, FALSE, framed), 5, 5))
OddResponse == Idle /\ \E complete \in BOOLEAN, status \in {2, 3, 4} :
    Call("odd", <<complete, status>>,
         H!http_extract_body([Response(FALSE, FALSE, <<1, 2>>) EXCEPT !.complete = complete, !.status = status], 3, 3))

(* net.c: a body comes out as it was sent, however it was cut into chunks  *)
(* and whatever bytes are in it; a response cut off, or one larger than a  *)
(* buffer, gives a prefix of it.  Only a complete 2xx response has one.    *)
(* "Truncated response - take what's there" (net.c:861) holds of announced *)
(* sizes whose end is less than 2^32; beyond it (SizeWraps) the test for   *)
(* it passes, and the copy reads and writes too much.                      *)
SizeWraps(size, at) == size + at >= 256
BodyUnframed ==
    /\ Called("short") =>
           LET there == Args[1] \o SubSeq(Args[2], 1, Min({Args[3], Len(Args[2])})) IN
           SizeWraps(Args[3], Args[4])
           \/ result = [ok |-> TRUE, body |-> SubSeq(there, 1, Min({5, Len(there)}))]
    /\ Called("plain") =>
           LET room == Min({Args[2], Args[3], Len(Args[1])}) IN
           /\ result.ok /\ IsPrefix(result.body, Args[1])
           /\ Len(result.body) <= room
           /\ Args[4] <= 5 => Len(result.body) = room
    /\ Called("odd") => (result.ok <=> Args[1] /\ Args[2] = 2)

(* A compressed body comes out whole with any optional field in its header *)
(* and any chunks around it; an empty one is taken for an error.           *)
BodyUnpacked ==
    Called("packed") => result = [ok |-> Args[1] # <<>>, body |-> Args[1]]

(* What a server has framed and packed comes out as it was, at each of the *)
(* layers: symbols, blocks, chunks and the whole response.                 *)
BodyRestored == SymbolsDecode /\ InflateInverts /\ BodyUnframed /\ BodyUnpacked

-----------------------------------------------------------------------------
(* Programs: one instruction of each form with registers on both sides of  *)
(* 8, and jumps over a distance at its limits.                             *)
Regs == {A!Reg(0), A!Reg(4), A!Reg(7), A!Reg(8), A!Reg(12), A!Reg(15)}
Misspelt == A!Word("rxa", 0)
Numbers == {A!Word("n", v) : v \in {0, 5, -1, 300, -300}} \cup {Misspelt}
Mems == {A!Mem(r, d) : r \in {0, 4, 8, 12}, d \in {0, 8, -8}}
Line(op, args) == [op |-> op, args |-> args]
Two == (Regs \cup Mems \cup Numbers) \X (Regs \cup Mems \cup Numbers)
OneLine ==
    {Line("mov", a) : a \in Two}
    \cup {Line(op, a) : op \in {"add", "sub", "cmp"}, a \in (Regs \cup {A!Mem(0, 0)}) \X (Regs \cup Numbers)}
    \cup {Line(op, <<a>>) : op \in {"push", "pop"}, a \in Regs \cup {A!Word("n", 0)}}
    \cup {Line("int80", <<>>), Line("syscall", <<>>), Line("ret", <<>>), Line("nop", <<>>), Line("mov", <<>>), Line("pop", <<>>)}

Lbl(x) == A!Word(x, 0)
Label(x) == Line(":", <<Lbl(x)>>)
Jump(op, x) == Line(op, <<Lbl(x)>>)
Space(bytes) == [i \in 1 .. bytes \div 10 |-> Line("mov", <<A!Reg(1), A!Word("n", 7)>>)]
                \o [i \in 1 .. bytes % 10 |-> Line("ret", <<>>)]

OneInstruction == Idle /\ \E line \in OneLine :
    Call("assemble", <<<<line>>, CodeSize>>, A!asm_assemble(<<line>>, CodeSize))
FarJump == Idle /\ \E before, after \in {<<>>, <<Line("ret", <<>>)>>}, n \in 122 .. 130, back \in BOOLEAN :
    LET program == before \o (IF back THEN <<Label("a")>> ELSE <<Jump("jl", "a")>>) \o Space(n)
                   \o (IF back THEN <<Jump("jl", "a")>> ELSE <<Label("a")>>) \o after
    IN  Call("assemble", <<program, CodeSize>>, A!asm_assemble(program, CodeSize))
ManyLines == Idle /\ \E program \in TupleOf({Label("a"), Label("b"), Label("c"), Jump("jmp", "a"), Jump("jne", "b"),
                                    Line("ret", <<>>), Line("nop", <<>>), Line("blank", <<>>)}, 4) :
    \E capacity \in {3, CodeSize} : Call("assemble", <<program, capacity>>, A!asm_assemble(program, capacity))

(* What is wrong with a program, by line: in itself, as a label, or as a   *)
(* jump once every line is known.                                          *)
Ops == [mov |-> 2, add |-> 2, sub |-> 2, cmp |-> 2, push |-> 1, pop |-> 1, int80 |-> 0, syscall |-> 0, ret |-> 0]
InvalidLine(l) ==
    IF l.op \notin DOMAIN Ops THEN l.op \notin {":", "blank"} \cup DOMAIN A!Jumps
    ELSE \/ Len(l.args) < Ops[l.op]
         \/ /\ Ops[l.op] = 1 /\ Len(l.args) >= 1 /\ l.args[1].kind # "reg"
         \/ /\ Ops[l.op] = 2 /\ Len(l.args) >= 2
            /\ \/ l.args[1].kind = "word"
               \/ l.args[1].kind = "mem" /\ (l.op # "mov" \/ l.args[2].kind # "reg")
LabelsBefore(p, i) == {j \in 1 .. i - 1 : p[j].op = ":"}
InvalidLabel(p, i) ==
    /\ p[i].op = ":"
    /\ \/ \E j \in LabelsBefore(p, i) : p[j] = p[i]
       \/ Cardinality({p[j] : j \in LabelsBefore(p, i)}) >= MaxLabels
Wrong(p) == {i \in DOMAIN p : InvalidLine(p[i]) \/ InvalidLabel(p, i)}

(* Bytes between a jump's end and its label, by the sizes of the lines.    *)
SizeOf(l) == IF l.op \in DOMAIN A!Jumps THEN 2 ELSE IF l.op \in {":", "blank"} THEN 0 ELSE Len(A!Instruction(l))
SizeUpTo(p, i) == FoldLeft(LAMBDA n, l : n + SizeOf(l), 0, SubSeq(p, 1, i))
Targets(p, i) == {j \in DOMAIN p : p[j].op = ":" /\ p[j].args = p[i].args}
WrongJump(p, i) ==
    /\ p[i].op \in DOMAIN A!Jumps
    /\ \A j \in Targets(p, i) : SizeUpTo(p, j) - SizeUpTo(p, i) \notin -128 .. 127
WrongJumps(p) == {i \in DOMAIN p : WrongJump(p, i)}

(* Two errors are overlooked, in each case against what the documents say. *)
(* An unknown register is an error (docs/ASSEMBLY.md:171); as a source it  *)
(* is taken for a number, 0 (asm.c:412, 428), and so is a memory operand   *)
(* of add, sub and cmp.  "A displacement overflow is caught explicitly     *)
(* rather than silently wrapping" (asm.c:308-310; docs/ASSEMBLY.md:86-88); *)
(* but a jump for which the table of fixups has no room keeps its          *)
(* placeholder, the displacement 0, whatever its label (asm.c:379).        *)
UnknownSource(l) ==
    /\ l.op \in {"mov", "add", "sub", "cmp"} /\ Len(l.args) >= 2 /\ l.args[1].kind = "reg"
    /\ \/ l.args[2].kind = "word" /\ l.args[2].text # "n"
       \/ l.args[2].kind = "mem" /\ l.op # "mov"
Unpatched(p, i) ==
    p[i].op \in DOMAIN A!Jumps /\ Cardinality({j \in 1 .. i - 1 : p[j].op \in DOMAIN A!Jumps}) >= MaxFixups

(* asm.c reports the first line that is wrong, or if every line is right   *)
(* the first jump that cannot be made, and accepts everything else that    *)
(* fits - and the lines that are overlooked.                               *)
FirstErrorReported ==
    Called("assemble") =>
        LET p == Args[1]
            jumps == {i \in WrongJumps(p) : ~Unpatched(p, i)}
        IN  CASE Wrong(p) # {} -> ~result.ok /\ result.line = Min(Wrong(p))
              [] Wrong(p) = {} /\ jumps # {} -> ~result.ok /\ result.line = Min(jumps)
              [] OTHER -> result.line = 0 /\ (result.ok <=> SizeUpTo(p, Len(p)) <= Args[2])

(* What a line says, to compare with what the processor reads; of what is  *)
(* overlooked, what is made of it.                                         *)
Said(p, i) ==
    LET l == p[i]
        value(k) == CASE k = 2 /\ UnknownSource(l) -> 0
                      [] l.args[k].kind = "word" /\ ~UnknownSource(l) -> l.args[k].v
                      [] l.args[k].kind # "word" /\ ~(k = 2 /\ UnknownSource(l)) -> l.args[k]
        target == IF Unpatched(p, i) THEN i ELSE CHOOSE j \in Targets(p, i) : TRUE
    IN  IF l.op \in DOMAIN A!Jumps THEN [op |-> l.op, args |-> <<1 + SizeUpTo(p, target)>>]
        ELSE [op |-> IF l.op = "syscall" THEN "int80" ELSE l.op, args |-> [k \in DOMAIN l.args |-> value(k)]]

(* The bytes of an assembled program are, to the processor, the program:   *)
(* every instruction with its registers and operands, and every jump to    *)
(* its label, forward or back, at any distance it accepts - except that a  *)
(* source that is overlooked is the number 0, and a jump that is goes to   *)
(* the next instruction.                                                   *)
AssembledIsSource ==
    (Called("assemble") /\ result.ok) =>
        LET p == Args[1]
            instructions == SelectSeq([i \in DOMAIN p |-> i], LAMBDA i : SizeOf(p[i]) > 0)
            read == A!Disassemble(result.code, 1)
        IN  /\ Len(read) = Len(instructions)
            /\ \A k \in DOMAIN read :
                   [op |-> read[k].op, args |-> read[k].args] = Said(p, instructions[k])

(* A program is assembled as it was meant, or its first error is reported, *)
(* but for what is overlooked.                                             *)
AssembledOrRefused == AssembledIsSource /\ FirstErrorReported

-----------------------------------------------------------------------------
(* Volumes: disks of up to two megabytes, and around 2^16 sectors.         *)
Format == Idle /\ \E sectors \in (100 .. 3200) \cup (65400 .. 65800) :
    Call("format", sectors, G!fat16_format(sectors))

PerFatSector == G!SectorSize \div 2
(* The exception, against fat16.c's "a couple of correction passes         *)
(* converge this exactly for any reasonable disk size": on disks of 1055,  *)
(* 1056, 2081, 2082, ... sectors every pass undoes the one before, and the *)
(* last cluster is left without an entry in the tables.                    *)
NeverConverges(sectors) == sectors % 1026 \in {29, 30}

(* A formatted volume is found again where it was laid out, in areas that  *)
(* do not overlap and leave less than a cluster unused, with tables of no  *)
(* sector too many, and, unless the passes never converge on a disk of its *)
(* size, an entry for every cluster.                                       *)
VolumeLaidOut ==
    Called("format") =>
        LET v == result.places  per == result.bpb.perFat  entries == per * PerFatSector IN
        /\ result.mounted = v
        /\ v.fat >= G!Reserved /\ v.root = v.fat + 2 * per /\ v.data = v.root + G!RootSectors
        /\ Args - (v.data + G!PerCluster * v.clusters) \in 0 .. G!PerCluster - 1
        /\ entries - PerFatSector < v.clusters + 2
        /\ ~NeverConverges(Args) => v.clusters + 2 <= entries

-----------------------------------------------------------------------------
(* The mouse: three packets, of which one byte may be lost or one byte too *)
(* many may come.  12 is a movement that looks like a first byte, and 255  *)
(* a turn of the wheel that does.                                          *)
Packets(size) ==
    IF size = 3 THEN {<<8, 3, 0>>, <<9, 0, 4>>, <<58, 245, 247>>, <<8, 12, 3>>}
    ELSE {<<8, 3, 0, 1>>, <<9, 0, 4, 0>>, <<58, 245, 247, 0>>, <<8, 0, 0, 255>>}
Faults(len) == {<<"none", 0>>} \cup ({"lost", "extra"} \X (1 .. len))
Damaged(bytes, fault) ==
    CASE fault[1] = "none" -> bytes
      [] fault[1] = "lost" -> RemoveAt(bytes, fault[2])
      [] fault[1] = "extra" -> InsertAt(bytes, fault[2], 5)

MouseBytes == Idle /\ \E device \in {0, 3} :
    LET size == M!packet_size(device) IN
    \E packets \in TupleOf(Packets(size), 3), fault \in Faults(3 * size), w \in {6, 500} :
        Call("mouse", <<packets, fault, w>>,
             FoldLeft(M!mouse_callback, M!mouse_set_bounds(M!Fresh(size), w, 5), Damaged(FlattenSeq(packets), fault)))

(* The first packet that a fault cannot touch                              *)
Untouched(packets, fault) ==
    IF fault[1] = "none" THEN 1 ELSE 3 + (fault[2] - 1) \div Len(packets[1])
OnlyFirst(packets) ==
    \A k \in 1 .. 3 : \A i \in 2 .. Len(packets[k]) : ~M!Flag(packets[k][i], 3)
Moved(from, p) ==
    LET dx == IF M!Flag(p[1], 4) THEN p[2] - 256 ELSE p[2]
        dy == IF M!Flag(p[1], 5) THEN p[3] - 256 ELSE p[3]
        kept(v, n) == Max({0, Min({n - 1, v})})
    IN  <<kept(from[1] + dx, Args[3]), kept(from[2] - dy, 5), p[1] % 8>>

(* mouse.c: "a single genuinely-bad byte can't shift every packet after it *)
(* by one": from the packet after the next, and in every packet if no byte *)
(* was bad, each report is the packet's own movement and buttons, and the  *)
(* pointer is on the screen.  This needs a stream whose movements do not   *)
(* look like first bytes.                                                  *)
MouseRealigns ==
    Called("mouse") =>
        LET packets == Args[1]  fault == Args[2]  reports == result.reports  n == Len(reports)
            good == Untouched(packets, fault)
        IN  /\ \A r \in DOMAIN reports : reports[r][1] \in 0 .. Args[3] - 1 /\ reports[r][2] \in 0 .. 4
            /\ fault[1] = "none" => n = 3
            /\ (fault[1] = "none" \/ OnlyFirst(packets)) =>
                 \A k \in good .. 3 :
                   LET r == n - (3 - k)
                       from == IF r = 1 THEN <<Min({160, Args[3] - 1}), 4>> ELSE reports[r - 1]
                   IN  r \in DOMAIN reports /\ reports[r] = Moved(from, packets[k])

-----------------------------------------------------------------------------
Next ==
    \/ MulMod \/ AddMod \/ SubMod \/ InvMod \/ ModExp \/ VerifyEncoding \/ PadMessage
    \/ ScalarMult \/ KeyAgreement \/ SharedSecret
    \/ DecodeSymbol \/ Inflate \/ PlainBody \/ PackedBody \/ ShortChunk \/ OddResponse
    \/ OneInstruction \/ FarJump \/ ManyLines
    \/ TextCalls \/ Format \/ MouseBytes

Spec == Init /\ [][Next]_vars
=============================================================================
