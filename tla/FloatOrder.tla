----------------------------- MODULE FloatOrder -----------------------------
(* Float choices: the order floats shrink in and their dense index            *)
(* (native/core/float_index.rs, FloatChoice of native/core/choices.rs). A     *)
(* float is its bit fields [s, e, m], of widths that are constants, so that   *)
(* every float of a small format can be tried; an index is a natural, the     *)
(* engine's bit 63 being the bit above the exponent's.                        *)
EXTENDS Integers, Sequences, FiniteSets
LOCAL INSTANCE Functions

CONSTANTS
    MantissaBits,   \* 52 in the code
    ExponentBits,   \* 11
    SimpleBits      \* 56: integers below 2^SimpleBits are their own index

ASSUME FloatOrderOK ==
    /\ {MantissaBits, ExponentBits, SimpleBits} \subseteq Nat
    /\ 2 <= ExponentBits /\ 1 <= MantissaBits
    /\ MantissaBits < SimpleBits /\ SimpleBits < MantissaBits + ExponentBits

MantissaSize == 2 ^ MantissaBits
TopExp == 2 ^ ExponentBits - 1              \* 2047: the infinities and the NaNs
Bias == 2 ^ (ExponentBits - 1) - 1          \* 1023
Tag == 2 ^ (MantissaBits + ExponentBits)    \* bit 63 of an index

Floats == [s : {0, 1}, e : 0..TopExp, m : 0..(MantissaSize - 1)]
IsNaN(f) == f.e = TopExp /\ f.m # 0
IsInf(f) == f.e = TopExp /\ f.m = 0
IsZero(f) == f.e = 0 /\ f.m = 0
Zero == [s |-> 0, e |-> 0, m |-> 0]
Inf == [s |-> 0, e |-> TopExp, m |-> 0]
NaN == [s |-> 0, e |-> TopExp, m |-> MantissaSize \div 2]
Largest == [s |-> 0, e |-> TopExp - 1, m |-> MantissaSize - 1]
Smallest == [s |-> 0, e |-> 0, m |-> 1]
SmallestNormal == [s |-> 0, e |-> 1, m |-> 0]
Neg(f) == [f EXCEPT !.s = 1 - @]
Abs(f) == [f EXCEPT !.s = 0]

\* The magnitudes are ordered as their bits are; the two zeros compare equal.
Bits(f) == f.e * MantissaSize + f.m
FromBits(n) == [s |-> 0, e |-> n \div MantissaSize, m |-> n % MantissaSize]
Lte(a, b) ==
    /\ ~IsNaN(a) /\ ~IsNaN(b)
    /\ CASE a.s = 0 /\ b.s = 0 -> Bits(a) <= Bits(b)
         [] a.s = 1 /\ b.s = 1 -> Bits(b) <= Bits(a)
         [] a.s = 1 /\ b.s = 0 -> TRUE
         [] OTHER -> IsZero(a) /\ IsZero(b)
Lt(a, b) == ~IsNaN(a) /\ ~IsNaN(b) /\ ~Lte(b, a)
Larger(a, b) == IF Lte(a, b) THEN b ELSE a
Lesser(a, b) == IF Lte(a, b) THEN a ELSE b
\* -0.0 strictly below 0.0.
SignAwareLte(a, b) == IF IsZero(a) /\ IsZero(b) THEN b.s <= a.s ELSE Lte(a, b)

(* The value of a finite magnitude, in units of the smallest one.             *)
Units(f) == IF f.e = 0 THEN f.m ELSE (MantissaSize + f.m) * 2 ^ (f.e - 1)
One == MantissaSize * 2 ^ (Bias - 1)
\* An integer as a float: the nearest one, the even mantissa of two as near.
Gap(n, f) == IF n * One < Units(f) THEN Units(f) - n * One ELSE n * One - Units(f)
IntToFloat ==
    LET finite == {f \in Floats : f.s = 0 /\ f.e < TopExp}
        worse(n, f) == 2 * Gap(n, f) + (f.m % 2)
    IN [n \in 0..(2 ^ SimpleBits - 1) |->
          CHOOSE f \in finite : \A g \in finite : worse(n, f) <= worse(n, g)]

(* The index of a magnitude.                                                  *)
EncodeExponent(e) ==
    IF e = TopExp THEN TopExp ELSE IF e >= Bias THEN e - Bias ELSE TopExp - 1 - e
DecodeExponent(c) ==
    IF c = TopExp THEN TopExp ELSE IF c <= Bias THEN c + Bias ELSE TopExp - 1 - c

Bit(v, i) == (v \div 2 ^ i) % 2
ReverseBits(v, n) ==
    FoldFunction(+, 0, [i \in 0..(n - 1) |-> Bit(v, i) * 2 ^ (n - 1 - i)])
\* How many bits of a mantissa are a fraction; they are what is reversed.
FractionBits(e) ==
    IF e <= Bias THEN MantissaBits
    ELSE IF e - Bias < MantissaBits THEN MantissaBits - (e - Bias) ELSE 0
UpdateMantissa(e, m) ==
    LET n == FractionBits(e)
    IN (m \div 2 ^ n) * 2 ^ n + ReverseBits(m % 2 ^ n, n)

IsSimple(f) == /\ f.s = 0 /\ f.e < TopExp
               /\ Units(f) % One = 0 /\ Units(f) \div One < 2 ^ SimpleBits
FloatToIndex(f) ==
    IF IsSimple(f) THEN Units(f) \div One
    ELSE Tag + EncodeExponent(f.e) * MantissaSize + UpdateMantissa(f.e, f.m)
IndexToFloat(i) ==
    IF i < Tag THEN IntToFloat[i % 2 ^ SimpleBits]
    ELSE LET e == DecodeExponent((i - Tag) \div MantissaSize)
         IN [s |-> 0, e |-> e, m |-> UpdateMantissa(e, (i - Tag) % MantissaSize)]

(* The magnitude of the smallest index between two.                           *)
MinReversed(lo, hi, n) ==
    LET search[k \in 0..n, a \in 0..hi, b \in 0..hi] ==
            CASE k = 0 -> 0
              [] k > 0 /\ (a + 1) \div 2 <= b \div 2 ->
                    2 * search[k - 1, (a + 1) \div 2, b \div 2]
              [] OTHER -> a
    IN search[n, lo, hi]
\* Of the exponents between, the closest to that of 1; then the mantissa.
SimplestOfBinade(lo, hi) ==
    LET above == Bias <= lo.e
        e == IF above THEN lo.e ELSE hi.e
        from == IF above \/ lo.e = hi.e THEN lo.m ELSE 0
        to == IF above /\ hi.e # lo.e THEN MantissaSize - 1 ELSE hi.m
        n == FractionBits(e)
        whole == (from \div 2 ^ n) * 2 ^ n
    IN [s |-> 0, e |-> e,
        m |-> IF n = 0 THEN from ELSE whole + MinReversed(from - whole, to - whole, n)]
\* An integer before any fraction. (Mutant: SimplestOfBinade alone.)
SimplestInRange(lo, hi) ==
    LET integer == (Units(lo) + One - 1) \div One
    IN IF integer < 2 ^ SimpleBits /\ integer * One <= Units(hi)
       THEN IntToFloat[integer] ELSE SimplestOfBinade(lo, hi)

(* A float choice [min, max, nan, inf, tiny].                                 *)
Validate(c, v) ==
    CASE IsNaN(v) -> c.nan
      [] IsInf(v) -> /\ c.inf
                     /\ (v.s = 1 => IsInf(c.min) /\ c.min.s = 1)
                     /\ (v.s = 0 => IsInf(c.max) /\ c.max.s = 0)
      [] OTHER -> /\ IsZero(v) \/ Bits(c.tiny) <= Bits(v)
                  /\ SignAwareLte(c.min, v) /\ SignAwareLte(v, c.max)
Values(c) == {v \in Floats : Validate(c, v)}

\* The shrinker's key of a float: by magnitude, the positive first; NaN last.
SortKey(v) == IF IsNaN(v) THEN <<2 * Tag - 1, 0>> ELSE <<FloatToIndex(Abs(v)), v.s>>
KeyLess(a, b) == a[1] < b[1] \/ (a[1] = b[1] /\ a[2] < b[2])

PositiveBest(c) ==
    LET lo == Larger(c.min, c.tiny)
        hi == Lesser(c.max, Largest)
    IN IF Lt(Zero, c.max) /\ Lte(lo, hi) THEN {SimplestInRange(lo, hi)} ELSE {}
NegativeBest(c) ==
    LET lo == Larger(Neg(c.max), c.tiny)
        hi == Lesser(Neg(c.min), Largest)
    IN IF Lt(c.min, Zero) /\ Lte(lo, hi) THEN {Neg(SimplestInRange(lo, hi))} ELSE {}
Best(c) == {v \in PositiveBest(c) \cup NegativeBest(c) :
               \A w \in PositiveBest(c) \cup NegativeBest(c) : ~KeyLess(SortKey(w), SortKey(v))}
\* {} is the internal error of a choice that no float satisfies.
Simplest(c) ==
    CASE Validate(c, Zero) -> {Zero}
      [] ~Validate(c, Zero) /\ Validate(c, Neg(Zero)) -> {Neg(Zero)}
      [] OTHER ->
           IF Best(c) # {} THEN Best(c)
           ELSE IF Validate(c, Inf) THEN {Inf}
           ELSE IF Validate(c, Neg(Inf)) THEN {Neg(Inf)}
           ELSE IF c.nan THEN {NaN} ELSE {}

\* What a replayed choice of another kind is replaced by.
Unit(c, s) ==
    LET near == [k \in 1..6 |->
                   LET f == IndexToFloat(FloatToIndex(Abs(s)) + (k + 1) \div 2)
                   IN IF k % 2 = 1 THEN f ELSE Neg(f)]
        far == SelectSeq(<<c.min, c.max, Neg(s)>>, LAMBDA v : v # s)
        fit == SelectSeq(near \o far, LAMBDA v : ~IsNaN(v) /\ Validate(c, v))
    IN IF IsNaN(s) \/ fit = <<>> THEN s ELSE fit[1]

(* The dense index: the finite floats, two a magnitude index, +inf, -inf and  *)
(* the NaNs, two a payload, the canonical payload first.                      *)
MaxFiniteRank == 2 * (Tag + TopExp * MantissaSize - 1) + 1
FlipQuiet(m) == (m + MantissaSize \div 2) % MantissaSize
GlobalRank(v) ==
    CASE IsNaN(v) -> MaxFiniteRank + 3 + 2 * FlipQuiet(v.m) + v.s
      [] IsInf(v) -> MaxFiniteRank + 1 + v.s
      [] OTHER -> 2 * FloatToIndex(Abs(v)) + v.s
FromGlobalRank(r) ==
    LET i == r \div 2
        mag == IndexToFloat(i)
        after == r - MaxFiniteRank
        nan == [s |-> (after - 3) % 2, e |-> TopExp, m |-> FlipQuiet((after - 3) \div 2)]
    IN CASE r <= MaxFiniteRank ->
               IF i < Tag /\ i >= 2 ^ SimpleBits THEN {}
               ELSE {IF r % 2 = 1 THEN Neg(mag) ELSE mag}
         [] r > MaxFiniteRank /\ after = 1 -> {Inf}
         [] r > MaxFiniteRank /\ after = 2 -> {Neg(Inf)}
         [] OTHER -> IF (after - 3) \div 2 < MantissaSize /\ IsNaN(nan) THEN {nan} ELSE {}

MaxIndex == MaxFiniteRank + 2 + 2 * MantissaSize
ToIndex(s, v) == GlobalRank(v) - GlobalRank(s)
FromIndex(c, s, i) == {v \in FromGlobalRank(GlobalRank(s) + i) : Validate(c, v)}
=============================================================================
