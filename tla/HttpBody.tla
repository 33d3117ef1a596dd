------------------------------- MODULE HttpBody -------------------------------
(***************************************************************************)
(* From an HTTP body as it is sent to its contents: chunked framing        *)
(* (kernel/net.c) and gzip with DEFLATE (kernel/inflate.c).  The tables of *)
(* DEFLATE are parameters, so that they can be small: a byte has ByteBits  *)
(* bits, there are Lits literals (256), a code has at most MaxBits bits    *)
(* (15), and length and distance codes have the bases and extra bits given.*)
(* So is the width of a size: it counts modulo SizeMod (2^32).             *)
(*                                                                         *)
(* Two things go wrong on input that no server sends: a copy that reads    *)
(* past what was received takes bytes that are Unknown, and one that       *)
(* writes past the end of an array ends the modelled part: Overrun.        *)
(***************************************************************************)
EXTENDS Integers, Sequences, SequencesExt, FiniteSets, FiniteSetsExt

CONSTANTS
    ByteBits, Lits, MaxBits,
    LengthBase, LengthExtra,  \* LENGTH_BASE, LENGTH_EXTRA_BITS
    DistBase, DistExtra,      \* DIST_BASE, DIST_EXTRA_BITS
    FixedLit, FixedDist,      \* code lengths of the fixed tables
    Order,                    \* CODE_LENGTH_ORDER
    TableSize,                \* the size of all_lengths[]
    SizeMod                   \* the modulus of uint32_t

Unknown == -1
Overrun == <<-2>>

-----------------------------------------------------------------------------
(* http_decode_chunked, on the characters as they are.                     *)
CR == 13
LF == 10
IsDigit(c) == c \in 48 .. 57 \cup 65 .. 70 \cup 97 .. 102
DigitOf(c) == IF c <= 57 THEN c - 48 ELSE IF c <= 70 THEN c - 55 ELSE c - 87
AtMost(x, y) == IF x < y THEN x ELSE y

FirstFrom(s, i, P(_)) ==
    LET found == {k \in i .. Len(s) : P(s[k])} IN IF found = {} THEN Len(s) + 1 ELSE Min(found)

NumberOf(digits) == FoldLeft(LAMBDA n, c : (16 * n + DigitOf(c)) % SizeMod, 0, digits)

(* Past one character, if it is there.                                     *)
LeavesLineEnd(s, i, c) == i
Skip(s, i, c) == IF i <= Len(s) /\ s[i] = c THEN i + 1 ELSE i

(* The data of a chunk, as much of it as there is and has room, and where  *)
(* the next chunk begins.  Both tests are of sums that wrap: a size just   *)
(* below SizeMod passes them.                                              *)
Chunk(in, body, size, out, max) ==
    LET taken == IF (body - 1 + size) % SizeMod > Len(in) THEN Len(in) + 1 - body ELSE size
        copied == IF (Len(out) + taken) % SizeMod > max THEN max - Len(out) ELSE taken
    IN  [data |-> [k \in 1 .. AtMost(copied, max + 1) |->
                      IF body + k - 1 <= Len(in) THEN in[body + k - 1] ELSE Unknown],
         next |-> Skip(in, Skip(in, ((body - 1 + taken) % SizeMod) + 1, CR), LF)]

RECURSIVE DecodeFrom(_, _, _, _)
DecodeFrom(in, i, out, max) ==
    LET Body(from) == AtMost(FirstFrom(in, from, LAMBDA c : c = LF) + 1, Len(in) + 1)
        GoOn(next, now) ==
            IF Len(now) > max THEN Overrun ELSE IF Len(now) = max THEN now ELSE DecodeFrom(in, next, now, max)
        Take(chunk) == GoOn(chunk.next, out \o chunk.data)
        Sized(numEnd, size) ==
            IF numEnd = i \/ size = 0 THEN out ELSE Take(Chunk(in, Body(numEnd), size, out, max))
        Numbered(numEnd) == Sized(numEnd, NumberOf(SubSeq(in, i, numEnd - 1)))
    IN  IF i > Len(in) THEN out ELSE Numbered(FirstFrom(in, i, LAMBDA c : ~IsDigit(c)))

http_decode_chunked(in, max) == DecodeFrom(in, 1, <<>>, max)

-----------------------------------------------------------------------------
(* The bit reader: past the end there are zeros.                           *)
BitAt(bits, pos) == IF pos <= Len(bits) THEN bits[pos] ELSE 0
br_read_bits(bits, pos, n) == MapThenSumSet(LAMBDA i : BitAt(bits, pos + i) * 2 ^ i, 0 .. n - 1)
br_align_to_byte(pos) == ((pos - 1 + ByteBits - 1) \div ByteBits) * ByteBits + 1

(* huffman_build: canonical codes from their lengths.  Symbol s stands at  *)
(* index s + 1.                                                            *)
CountsZero(lengths, n) == Cardinality({i \in DOMAIN lengths : lengths[i] = n})
CountOf(lengths, n) == IF n = 0 THEN 0 ELSE Cardinality({i \in DOMAIN lengths : lengths[i] = n})

huffman_build(lengths) ==
    LET first[n \in 0 .. MaxBits] == IF n = 0 THEN 0 ELSE 2 * (first[n - 1] + CountOf(lengths, n - 1))
    IN  [i \in DOMAIN lengths |->
            IF lengths[i] = 0 THEN 0
            ELSE first[lengths[i]] + Cardinality({j \in 1 .. i - 1 : lengths[j] = lengths[i]})]

(* huffman_decode: the code's bits come first to last.  The symbol, or -1, *)
(* and where to go on.                                                     *)
CodeAt(bits, pos, n) == FoldLeft(LAMBDA c, i : 2 * c + BitAt(bits, pos + i - 1), 0, [i \in 1 .. n |-> i])

huffman_decode(lengths, bits, pos) ==
    LET codes == huffman_build(lengths)
        hits(n) == {i \in DOMAIN lengths : lengths[i] = n /\ codes[i] = CodeAt(bits, pos, n)}
        lens == {n \in 1 .. MaxBits : hits(n) # {}}
    IN  IF lens = {} THEN [sym |-> -1, pos |-> pos + MaxBits]
        ELSE [sym |-> Min(hits(Min(lens))) - 1, pos |-> pos + Min(lens)]

-----------------------------------------------------------------------------
(* Blocks.  A result has ok, the position in the bits, and the output.     *)
Failed == [ok |-> FALSE, pos |-> 0, out |-> <<>>]
Corrupted == [Failed EXCEPT !.out = Overrun]

(* The copy goes byte by byte: it may read what it has just written.       *)
CopiedAtOnce(out, distance, length) ==
    out \o [i \in 1 .. length |-> LET at == Len(out) - distance + i IN IF at <= Len(out) THEN out[at] ELSE 0]
CopyBack(out, distance, length) ==
    out \o [i \in 1 .. length |-> out[Len(out) - distance + 1 + ((i - 1) % distance)]]

(* A match: the length's extra bits, the distance and its extra bits.      *)
Copied(pos, out, length, distance, max) ==
    IF distance > Len(out) \/ Len(out) + length > max THEN Failed
    ELSE [ok |-> TRUE, pos |-> pos, out |-> CopyBack(out, distance, length)]
Match(bits, k, pos, d, out, max) ==
    IF k > Len(LengthBase) \/ d.sym < 0 \/ d.sym >= Len(DistBase) THEN Failed
    ELSE Copied(d.pos + DistExtra[d.sym + 1], out, LengthBase[k] + br_read_bits(bits, pos, LengthExtra[k]),
                DistBase[d.sym + 1] + br_read_bits(bits, d.pos, DistExtra[d.sym + 1]), max)

(* What a symbol adds to the output.                                       *)
Decoded(bits, s, dist, out, max) ==
    CASE s.sym < 0 -> Failed
      [] s.sym \in 0 .. Lits - 1 ->
           IF Len(out) >= max THEN Failed ELSE [ok |-> TRUE, pos |-> s.pos, out |-> Append(out, s.sym)]
      [] OTHER ->
           LET k == s.sym - Lits
           IN  Match(bits, k, s.pos, huffman_decode(dist, bits, s.pos + LengthExtra[k]), out, max)

RECURSIVE inflate_block_huffman(_, _, _, _, _, _)
inflate_block_huffman(bits, pos, lit, dist, out, max) ==
    LET GoOn(r) == IF r.ok THEN inflate_block_huffman(bits, r.pos, lit, dist, r.out, max) ELSE Failed
        Take(s) == IF s.sym = Lits THEN [ok |-> TRUE, pos |-> s.pos, out |-> out]
                   ELSE GoOn(Decoded(bits, s, dist, out, max))
    IN  Take(huffman_decode(lit, bits, pos))

(* read_dynamic_huffman_tables: the lengths of both tables, run-length     *)
(* coded.  Up to MaxBits a symbol is a length; the three after it repeat   *)
(* the last length, or zero, a few times or many.  The counts in the       *)
(* header may come to more than all_lengths[] has room for.                *)
RepeatBits(sym) == CASE sym = MaxBits + 1 -> 1 [] sym = MaxBits + 2 -> 1 [] OTHER -> 2
RepeatBase(sym) == CASE sym = MaxBits + 1 -> 2 [] sym = MaxBits + 2 -> 2 [] OTHER -> 4

RunOf(sym, extra, lengths, total) ==
    LET n == IF sym <= MaxBits THEN 1 ELSE AtMost(RepeatBase(sym) + extra, total - Len(lengths))
        x == IF sym <= MaxBits THEN sym ELSE IF sym = MaxBits + 1 THEN lengths[Len(lengths)] ELSE 0
    IN  [i \in 1 .. n |-> x]

RECURSIVE LengthsFrom(_, _, _, _, _)
LengthsFrom(bits, pos, cl, lengths, total) ==
    LET Extra(s) == IF s.sym <= MaxBits THEN 0 ELSE RepeatBits(s.sym)
        Take(s, n) ==
            IF s.sym < 0 \/ (s.sym = MaxBits + 1 /\ lengths = <<>>) THEN Failed
            ELSE LengthsFrom(bits, s.pos + n, cl,
                             lengths \o RunOf(s.sym, br_read_bits(bits, s.pos, n), lengths, total), total)
        Next(s) == Take(s, Extra(s))
    IN  IF Len(lengths) > TableSize THEN Corrupted
        ELSE IF Len(lengths) >= total THEN [ok |-> TRUE, pos |-> pos, out |-> lengths]
        ELSE Next(huffman_decode(cl, bits, pos))

read_dynamic_huffman_tables(bits, pos) ==
    LET hlit == br_read_bits(bits, pos, 1) + Lits + 1
        hdist == br_read_bits(bits, pos + 1, 2) + 1
        hclen == br_read_bits(bits, pos + 3, 2) + Len(Order) - 3
        cl == [i \in 1 .. Len(Order) |->
                  LET at == {j \in 1 .. hclen : Order[j] = i - 1} IN
                  IF at = {} THEN 0 ELSE br_read_bits(bits, pos + 5 + 2 * (Min(at) - 1), 2)]
        Split(all) ==
            IF ~all.ok THEN all
            ELSE [ok |-> TRUE, pos |-> all.pos,
                  lit |-> SubSeq(all.out, 1, hlit), dist |-> SubSeq(all.out, hlit + 1, hlit + hdist)]
    IN  Split(LengthsFrom(bits, pos + 5 + 2 * hclen, cl, <<>>, hlit + hdist))

(* A stored block: length, its complement, and the bytes.                  *)
Stored(bits, pos, out, max) ==
    LET at == br_align_to_byte(pos)
        len == br_read_bits(bits, at, ByteBits)
        nlen == br_read_bits(bits, at + ByteBits, ByteBits)
        data == at + 2 * ByteBits
    IN  IF \/ data - 1 > Len(bits) \/ len + nlen # 2 ^ ByteBits - 1
           \/ data + len * ByteBits - 1 > Len(bits) \/ Len(out) + len > max
        THEN Failed
        ELSE [ok |-> TRUE, pos |-> data + len * ByteBits,
              out |-> out \o [i \in 1 .. len |-> br_read_bits(bits, data + (i - 1) * ByteBits, ByteBits)]]

(* A block of either Huffman type, with its tables.                        *)
Coded(bits, t, out, max) ==
    IF t.ok THEN inflate_block_huffman(bits, t.pos, t.lit, t.dist, out, max) ELSE t
TablesOf(btype, bits, pos) ==
    CASE btype = 1 -> [ok |-> TRUE, pos |-> pos, lit |-> FixedLit, dist |-> FixedDist]
      [] btype = 2 -> read_dynamic_huffman_tables(bits, pos)
      [] OTHER -> Failed

RECURSIVE BlocksFrom(_, _, _, _)
BlocksFrom(bits, pos, out, max) ==
    LET final == br_read_bits(bits, pos, 1) = 1
        btype == br_read_bits(bits, pos + 1, 2)
        GoOn(r) == IF ~r.ok THEN r.out ELSE IF final THEN r.out ELSE BlocksFrom(bits, r.pos, r.out, max)
    IN  GoOn(IF btype = 0 THEN Stored(bits, pos + 3, out, max)
             ELSE Coded(bits, TablesOf(btype, bits, pos + 3), out, max))

(* The output, empty after any error.                                      *)
inflate_raw(bits, max) == BlocksFrom(bits, 1, <<>>, max)

-----------------------------------------------------------------------------
(* gzip_decompress: a header of ten bytes, the optional fields its flags   *)
(* name, the compressed data and a trailer of eight bytes.                 *)
FHCRC == 1
FEXTRA == 2
FNAME == 3
FCOMMENT == 4
Flag(data, f) == (data[4] \div 2 ^ f) % 2 = 1

(* Past a field that ends with a zero.                                     *)
PastZero(data, pos) == FirstFrom(data, pos, LAMBDA c : c = 0) + 1

KeepsChecksum(data) ==
    LET extra == IF Flag(data, FEXTRA) THEN 13 + data[11] + 256 * data[12] ELSE 11
        name == IF Flag(data, FNAME) THEN PastZero(data, extra) ELSE extra
    IN  IF Flag(data, FCOMMENT) THEN PastZero(data, name) ELSE name
GzipStart(data) ==
    LET extra == IF Flag(data, FEXTRA) THEN 13 + data[11] + 256 * data[12] ELSE 11
        name == IF Flag(data, FNAME) THEN PastZero(data, extra) ELSE extra
        comment == IF Flag(data, FCOMMENT) THEN PastZero(data, name) ELSE name
    IN  IF Flag(data, FHCRC) THEN comment + 2 ELSE comment

BitsOf(bytes) == FlattenSeq([i \in DOMAIN bytes |-> [k \in 1 .. ByteBits |-> (bytes[i] \div 2 ^ (k - 1)) % 2]])

gzip_decompress(data, max) ==
    LET From(start) ==
            IF start + 7 > Len(data) THEN <<>> ELSE inflate_raw(BitsOf(SubSeq(data, start, Len(data) - 8)), max)
    IN  IF Len(data) < 18 \/ SubSeq(data, 1, 3) # <<31, 139, 8>> THEN <<>> ELSE From(GzipStart(data))

(* http_extract_body.  A response is given by whether its headers end      *)
(* ("complete"), its status, the two headers looked for, and what follows  *)
(* the headers.  Framing is undone before compression; an empty result of  *)
(* decompression counts as a failure.                                      *)
http_extract_body(r, dechunkedMax, max) ==
    LET Refused == [ok |-> FALSE, body |-> <<>>]
        Unpacked(framed, body) == IF body = <<>> /\ framed # <<>> THEN Refused ELSE [ok |-> TRUE, body |-> body]
        Body(framed) ==
            IF r.gzipped THEN Unpacked(framed, gzip_decompress(framed, max))
            ELSE [ok |-> TRUE, body |-> SubSeq(framed, 1, AtMost(Len(framed), max))]
    IN  IF ~r.complete \/ r.status # 2 THEN Refused
        ELSE Body(IF r.chunked THEN http_decode_chunked(r.body, dechunkedMax) ELSE r.body)

-----------------------------------------------------------------------------
(* The reference: how a sender encodes, by the definition of the format.   *)

(* A canonical code: shorter ones first, among equals the smaller symbol.  *)
Precedes(lengths, j, i) ==
    lengths[j] > 0 /\ (lengths[j] < lengths[i] \/ (lengths[j] = lengths[i] /\ j < i))
CanonicalCode(lengths, i) ==
    MapThenSumSet(LAMBDA j : 2 ^ (lengths[i] - lengths[j]), {j \in DOMAIN lengths : Precedes(lengths, j, i)})

(* Lengths of which a code can be made.                                    *)
Kraft(lengths) ==
    MapThenSumSet(LAMBDA i : 2 ^ (MaxBits - lengths[i]), {i \in DOMAIN lengths : lengths[i] > 0}) <= 2 ^ MaxBits

LowFirst(x, n) == [i \in 1 .. n |-> (x \div 2 ^ (i - 1)) % 2]
CodeBits(lengths, sym) == Reverse(LowFirst(CanonicalCode(lengths, sym + 1), lengths[sym + 1]))

(* A token is a literal, or a match given by codes and extra bits.         *)
TokenBits(t, lit, dist) ==
    IF t.lit THEN CodeBits(lit, t.sym)
    ELSE CodeBits(lit, Lits + t.len) \o LowFirst(t.lenExtra, LengthExtra[t.len])
         \o CodeBits(dist, t.dist) \o LowFirst(t.distExtra, DistExtra[t.dist + 1])
TokensBits(ts, lit, dist) ==
    FlattenSeq([i \in DOMAIN ts |-> TokenBits(ts[i], lit, dist)]) \o CodeBits(lit, Lits)

(* What the tokens stand for, byte by byte; -1 before the beginning.       *)
Expanded(ts) ==
    FoldLeft(LAMBDA out, t :
                IF t.lit THEN Append(out, t.sym)
                ELSE LET n == LengthBase[t.len] + t.lenExtra
                         d == DistBase[t.dist + 1] + t.distExtra
                         byte[i \in 1 .. Len(out) + n] ==
                             IF i <= Len(out) THEN out[i] ELSE IF i > d THEN byte[i - d] ELSE -1
                     IN  [i \in 1 .. Len(out) + n |-> byte[i]],
             <<>>, ts)
=============================================================================
