---------------------------- MODULE JsonNumbers -----------------------------
(***************************************************************************)
(* The numbers of json.hpp: the digits of integers, and doubles.  A double *)
(* is the decimal its shortest text denotes, 0.d1d2... * 10^exp, with at   *)
(* most Precision digits: strtod and Grisu2 are between the two, and       *)
(* external.                                                               *)
(***************************************************************************)
EXTENDS JsonWords

Precision == 10         \* bound: digits of a double (it has about 17)
MaxExponent == 309      \* from here on strtod gives HUGE_VAL

\* FoldLeft, the first half of the sequence before the second: its recursion is
\* as deep as the logarithm of the length.
FoldInHalves(op(_, _), base, seq) ==
    LET RECURSIVE Fold(_, _, _)
        Fold(acc, i, j) ==
            CASE i > j -> acc
              [] i = j -> op(acc, seq[i])
              [] i < j -> LET m == (i + j) \div 2
                          IN CHOOSE r \in {Fold(half, m + 1, j) : half \in {Fold(acc, i, m)}} : TRUE
    IN Fold(base, 1, Len(seq))

-----------------------------------------------------------------------------
(* Digits.                                                                 *)

\* Digits from the first that is not 0 on.
Since(digits, first) == IF first = 0 THEN <<>> ELSE SubSeq(digits, first, Len(digits))
From(digits) == Since(digits, SelectInSeq(digits, LAMBDA d : d # 0))

\* The decimal digits of an unsigned number below 10^21, none for 0, by
\* division ...
TakeDigit(digits, d) == <<<<d[1]>> \o digits, d[2]>>
DecimalDigits(word) ==
    From(FoldInHalves(LAMBDA acc, n : TakeDigit(acc[1], DivMod(acc[2], 10)),
                      <<<<>>, word>>, Zeros(21))[1])

\* ... and back, as strtoull does it: <<it set errno to ERANGE, word>>.
AddDigit(erange, x) == <<erange \/ x[1] > 0, x[2]>>
FromDigits(digits) ==
    FoldInHalves(LAMBDA acc, d : AddDigit(acc[1], MulAdd(acc[2], 10, d)), <<FALSE, WordZero>>, digits)

-----------------------------------------------------------------------------
(* Doubles.                                                                *)

Finite(neg, digits, exp) == [kind |-> "finite", neg |-> neg, digits |-> digits, exp |-> exp]
Zero(neg) == Finite(neg, <<>>, 0)
Infinite(neg) == [Zero(neg) EXCEPT !.kind = "inf"]
NaN == [Zero(FALSE) EXCEPT !.kind = "nan"]
IsFinite(x) == x.kind = "finite"

Trim(digits) ==
    LET last == SelectLastInSeq(digits, LAMBDA d : d # 0) IN SubSeq(digits, 1, last)

\* digits cut to Precision of them, rounded half up: <<carry out, digits>>.
Rounded(digits) ==
    IF Len(digits) <= Precision THEN <<0, digits>>
    ELSE FoldRight(LAMBDA d, acc : <<(d + acc[1]) \div 10, <<(d + acc[1]) % 10>> \o acc[2]>>,
                   SubSeq(digits, 1, Precision),
                   <<IF digits[Precision + 1] >= 5 THEN 1 ELSE 0, <<>>>>)

\* The double nearest to 0.digits * 10^exp, r being digits after Rounded.
InRange(neg, r, exp) ==
    CASE r[2] = <<>> \/ exp < -322 -> Zero(neg)
      [] r[2] # <<>> /\ exp > MaxExponent -> Infinite(neg)
      [] OTHER -> Finite(neg, Trim(IF r[1] = 1 THEN <<1>> \o r[2] ELSE r[2]), exp)
Nearest(neg, r, exp) == InRange(neg, r, exp + r[1])
Significant(neg, digits, exp) == Nearest(neg, Rounded(digits), exp + Len(digits))
Double(neg, digits, exp) == Significant(neg, From(digits), exp - Len(digits))

\* static_cast<double> of an unsigned number.
Whole(digits) == Double(FALSE, digits, Len(digits))
FromUnsigned(word) == Whole(DecimalDigits(word))

IsZero(x) == IsFinite(x) /\ x.digits = <<>>
Magnitude(x) == CASE x.kind = "inf" -> <<MaxExponent + 1>>
                  [] IsZero(x) -> <<-1000>>
                  [] OTHER -> <<x.exp>> \o x.digits

\* operator== and operator< of doubles.
DoubleEquals(x, y) ==
    /\ "nan" \notin {x.kind, y.kind}
    /\ x = y \/ (IsZero(x) /\ IsZero(y))
DoubleLess(x, y) ==
    /\ "nan" \notin {x.kind, y.kind}
    /\ ~(IsZero(x) /\ IsZero(y))
    /\ \/ x.neg /\ ~y.neg
       \/ x.neg /\ y.neg /\ LexLess(Magnitude(y), Magnitude(x))
       \/ ~x.neg /\ ~y.neg /\ LexLess(Magnitude(x), Magnitude(y))

(* A double in memory: its sign and kind, its exponent, its digits in      *)
(* pairs.  This stands for the IEEE 754 layout, of which the code uses no  *)
(* more than that it is one to one.                                        *)
DoubleBytes(x) ==
    LET digits == x.digits \o Zeros(10 - Len(x.digits))
        kind == CASE x.kind = "finite" -> 0 [] x.kind = "inf" -> 2 [] x.kind = "nan" -> 4
    IN <<kind + (IF x.neg THEN 1 ELSE 0), (x.exp + 512) \div 256, (x.exp + 512) % 256>>
       \o [i \in 1..5 |-> digits[2 * i - 1] * 10 + digits[2 * i]]

FromDoubleBytes(b) ==
    CASE b[1] \div 2 = 0 ->
            Double(b[1] % 2 = 1,
                   FlattenSeq([i \in 1..5 |-> <<(b[3 + i] \div 10) % 10, b[3 + i] % 10>>]),
                   b[2] * 256 + b[3] - 512)
      [] b[1] \div 2 = 1 -> Infinite(b[1] % 2 = 1)
      [] OTHER -> NaN

\* The same of a float: one byte of exponent and one pair of digits.
FromFloatBytes(b) ==
    Double(b[1] % 2 = 1, <<(b[3] \div 10) % 10, b[3] % 10, (b[4] \div 10) % 10, b[4] % 10>>, b[2] - 128)

=============================================================================
