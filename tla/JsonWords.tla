----------------------------- MODULE JsonWords ------------------------------
(***************************************************************************)
(* The integers of json.hpp.  std::int64_t and std::uint64_t are the eight *)
(* bytes they have in memory, the most significant first, so that every    *)
(* width that the binary formats choose between exists.                    *)
(***************************************************************************)
EXTENDS Integers, SequencesExt

Zeros(n) == [i \in 1..n |-> 0]

\* The last n elements of s, and the rest.
Tails(s, n) == SubSeq(s, Len(s) - n + 1, Len(s))
Heads(s, n) == SubSeq(s, 1, Len(s) - n)

MulAdd(word, factor, summand) ==        \* <<carry, word>>
    FoldRight(LAMBDA byte, acc : LET x == byte * factor + acc[1]
                                 IN <<x \div 256, <<x % 256>> \o acc[2]>>,
              word, <<summand, <<>>>>)

DivMod(word, divisor) ==                \* <<remainder, quotient>>
    FoldLeft(LAMBDA acc, byte : LET x == acc[1] * 256 + byte
                                IN <<x % divisor, Append(acc[2], x \div divisor)>>,
             <<0, <<>>>>, word)

\* n < 2^31 in eight bytes.
Word(n) == Zeros(4) \o <<n \div 16777216, (n \div 65536) % 256, (n \div 256) % 256, n % 256>>

WordZero == Zeros(8)
SignBit(word) == word[1] >= 128
Negate(word) == MulAdd([i \in DOMAIN word |-> 255 - word[i]], 1, 1)[2]

\* word is below 2^(8 * n).
Below(word, n) == Heads(word, n) = Zeros(Len(word) - n)

\* word as a signed number is in the range of intN_t, N = 8 * n.
FitsSigned(word, n) ==
    \/ Below(word, n) /\ Tails(word, n)[1] < 128
    \/ (\A i \in 1..(8 - n) : word[i] = 255) /\ Tails(word, n)[1] >= 128

\* static_cast from uintN_t and from intN_t to sixty-four bits.
Widen(bytes) == Zeros(8 - Len(bytes)) \o bytes
WidenSigned(bytes) ==
    [i \in 1..(8 - Len(bytes)) |-> IF bytes[1] >= 128 THEN 255 ELSE 0] \o bytes

\* A std::size_t too large for any text or array here is kept as Huge.
Huge == 1000000
ToSize(word) == IF Below(word, 2) THEN word[7] * 256 + word[8] ELSE Huge

LexLess(s, t) ==
    \E i \in 1..Len(t) : /\ i <= Len(s) + 1
                         /\ \A k \in 1..(i - 1) : s[k] = t[k]
                         /\ i <= Len(s) => s[i] < t[i]

SignedLess(a, b) ==
    IF SignBit(a) # SignBit(b) THEN SignBit(a) ELSE LexLess(a, b)

=============================================================================
