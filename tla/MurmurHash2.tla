----------------------------- MODULE MurmurHash2 -----------------------------
(***************************************************************************)
(* MurmurHash2 of bpf/cpu/hash.h, on 32-bit words.  TLC's integers are      *)
(* signed and 32 bits wide, so a uint32_t is a sequence of its four bytes,   *)
(* the lowest first.                                                        *)
(***************************************************************************)
EXTENDS Naturals, Sequences, SequencesExt, Bitwise

\* x ^ y.
XorWord(x, y) == [b \in 1..4 |-> x[b] ^^ y[b]]

\* The byte b places up, counting from zero, and zero beyond the word.
Byte(x, b) == IF b < 4 THEN x[b + 1] ELSE 0

\* x >> n.
Shr(x, n) ==
    LET q == n \div 8
        s == n % 8
    IN [b \in 1..4 |-> (Byte(x, b - 1 + q) \div 2^s) + ((Byte(x, b + q) * 2^(8 - s)) % 256)]

\* The word of four columns that may exceed a byte: each carries into the next, and
\* what the last one carries is lost (% 2^32).
Carry(c) ==
    LET c2 == c[2] + c[1] \div 256
        c3 == c[3] + c2 \div 256
        c4 == c[4] + c3 \div 256
    IN <<c[1] % 256, c2 % 256, c3 % 256, c4 % 256>>

\* x * y.
Mul(x, y) ==
    Carry(<<x[1] * y[1],
            x[1] * y[2] + x[2] * y[1],
            x[1] * y[3] + x[2] * y[2] + x[3] * y[1],
            x[1] * y[4] + x[2] * y[3] + x[3] * y[2] + x[4] * y[1]>>)

\* 0x5bd1e995 and the shift of the mixing step.
m == <<149, 233, 209, 91>>
r == 24

\* A natural number below 2^24 as a word.
WordOf(n) == <<n % 256, (n \div 256) % 256, n \div 65536, 0>>

\* Mixes the four bytes of data from position p on into h.
Mix(h, data, p) ==
    LET k1 == Mul(SubSeq(data, p, p + 3), m)
        k2 == Mul(XorWord(k1, Shr(k1, r)), m)
    IN XorWord(Mul(h, m), k2)

\* The last one to three bytes, if any.
Tail3(h, data, len) ==
    LET rest == SubSeq(data, 4 * (len \div 4) + 1, len)
        word == [b \in 1..4 |-> IF b <= Len(rest) THEN rest[b] ELSE 0]
    IN IF rest = <<>> THEN h ELSE Mul(XorWord(h, word), m)

\* The hash of the first len bytes of data.  The loop is bounded by MaxRounds (256).
Hash(data, len, seed, MaxRounds) ==
    LET rounds == IF len \div 4 < MaxRounds THEN len \div 4 ELSE MaxRounds
        mixed  == FoldLeft(LAMBDA h, n : Mix(h, data, 4 * n - 3),
                           XorWord(WordOf(seed), WordOf(len)), [n \in 1..rounds |-> n])
        tail   == Tail3(mixed, data, len)
        h1     == Mul(XorWord(tail, Shr(tail, 13)), m)
    IN XorWord(h1, Shr(h1, 15))

\* The bytes of an address in memory, the least significant first.
Bytes(address) == [k \in 1..8 |-> IF k <= 3 THEN (address \div 256^(k - 1)) % 256 ELSE 0]

\* The ID of a stack: the hash takes a number of bytes and is given a number of words.
HashOfStack(addresses) ==
    Hash(FoldLeft(LAMBDA bytes, a : bytes \o Bytes(a), <<>>, addresses),
         (Len(addresses) * 8) \div 4, 0, 256)
=============================================================================
