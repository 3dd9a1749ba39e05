---------------------------- MODULE ChoiceOrder ----------------------------
(* Choices and their order (native/core/choices.rs): what a recorded choice   *)
(* may be, which of two is simpler, and the dense index of a choice within    *)
(* its kind. A value is a sequence of integers: <<n>> for an integer, <<0>>   *)
(* or <<1>> for a boolean, the elements of a byte string or of a string. A    *)
(* kind is [t, lo, hi, to] for "int", [t] for "bool" and [t, min, max, alpha] *)
(* for "bytes" and "str", alpha being the alphabet in shrink order. Floats    *)
(* and clones of a test case are not among these kinds.                       *)
EXTENDS Integers, Sequences, FiniteSets
LOCAL INSTANCE SequencesExt
LOCAL INSTANCE Functions

IsSeq(k) == k.t \in {"bytes", "str"}

AtLeast(a, b) == IF a < b THEN b ELSE a
AtMost(a, b) == IF a < b THEN a ELSE b
Distance(a, b) == IF a < b THEN b - a ELSE a - b

\* Where an integer shrinks to: shrink_towards, clamped into the range.
Target(k) == AtMost(AtLeast(k.to, k.lo), k.hi)

Repeat(x, n) == [i \in 1..n |-> x]
SeqSimplest(k) == IF k.min = 0 THEN <<>> ELSE Repeat(k.alpha[1], k.min)
Simplest(k) ==
    CASE k.t = "int" -> <<Target(k)>>
      [] k.t = "bool" -> <<0>>
      [] IsSeq(k) -> SeqSimplest(k)

Rank(k, c) == (CHOOSE i \in DOMAIN k.alpha : k.alpha[i] = c) - 1

Validate(k, v) ==
    CASE k.t = "int" -> Len(v) = 1 /\ k.lo <= v[1] /\ v[1] <= k.hi
      [] k.t = "bool" -> v \in {<<0>>, <<1>>}
      [] IsSeq(k) -> /\ k.min <= Len(v) /\ Len(v) <= k.max
                     /\ Range(v) \subseteq Range(k.alpha)

(* The value a replayed choice of another kind is replaced by.                *)
IntUnit(k) ==
    LET near == SelectSeq(<<<<Target(k) + 1>>, <<Target(k) - 1>>>>, LAMBDA v : Validate(k, v))
    IN IF near = <<>> THEN <<Target(k)>> ELSE near[1]
SeqUnit(k) ==
    LET s == SeqSimplest(k)
        size == Len(k.alpha)
    IN CASE size > 1 /\ k.min > 0 -> [s EXCEPT ![k.min] = k.alpha[2]]
         [] size > 1 /\ k.min = 0 /\ k.max > 0 -> <<k.alpha[2]>>
         [] size = 1 /\ k.min < k.max -> Repeat(k.alpha[1], k.min + 1)
         [] OTHER -> s
Unit(k) ==
    CASE k.t = "int" -> IntUnit(k)
      [] k.t = "bool" -> <<1>>
      [] IsSeq(k) -> SeqUnit(k)

(* The order: a key is a sequence of integers, compared lexicographically.    *)
LexLess(a, b) ==
    LET differ == {i \in DOMAIN a \cap DOMAIN b : a[i] # b[i]}
        first == CHOOSE i \in differ : \A j \in differ : i <= j
    IN IF differ = {} THEN Len(a) < Len(b) ELSE a[first] < b[first]

\* By distance from the target, and above it first.
IntKey(k, v) == <<Distance(v[1], Target(k)), IF v[1] < Target(k) THEN 1 ELSE 0>>
\* A scalar sorts before a sequence, a shorter sequence before a longer one.
Key(k, v) ==
    CASE k.t = "int" -> <<0>> \o IntKey(k, v)
      [] k.t = "bool" -> <<0, v[1], 0>>
      [] IsSeq(k) -> <<1, Len(v)>> \o [i \in DOMAIN v |-> Rank(k, v[i])]

\* The key of recorded choices: fewer of them first, then choice by choice.
SortKey(nodes) == FoldLeft(LAMBDA key, n : key \o Key(n.k, n.v), <<Len(nodes)>>, nodes)
Smaller(a, b) == LexLess(SortKey(a), SortKey(b))

(* The dense index of a value within its kind.                                *)
\* How many values of a sequence kind are shorter than n; the empty one needs no alphabet.
Shorter(k, n) ==
    FoldFunction(+, 0, [l \in k.min..(n - 1) |-> IF l = 0 THEN 1 ELSE Len(k.alpha) ^ l])

\* Mutant: a value below the target forgets the one above at the same distance.
IntToIndexBelowFirst(k, x) ==
    LET s == Target(k)
        d == Distance(x, s)
    IN IF d = 0 THEN 0 ELSE AtMost(d - 1, k.hi - s) + AtMost(d - 1, s - k.lo) + 1
IntToIndex(k, x) ==
    LET s == Target(k)
        d == Distance(x, s)
        nearer == AtMost(d - 1, k.hi - s) + AtMost(d - 1, s - k.lo)
        twin == IF x < s /\ d <= k.hi - s THEN 1 ELSE 0
    IN IF d = 0 THEN 0 ELSE nearer + twin + 1
SeqToIndex(k, v) ==
    FoldLeft(LAMBDA p, c : p * Len(k.alpha) + Rank(k, c), 0, v) + Shorter(k, Len(v))
ToIndex(k, v) ==
    CASE k.t = "int" -> IntToIndex(k, v[1])
      [] k.t = "bool" -> v[1]
      [] IsSeq(k) -> SeqToIndex(k, v)

MaxIndex(k) ==
    CASE k.t = "int" -> k.hi - k.lo
      [] k.t = "bool" -> 1
      [] IsSeq(k) -> Shorter(k, k.max + 1) - 1

(* The value at an index, {} past the last one.                               *)
IntFromIndex(k, index) ==
    LET s == Target(k)
        above == k.hi - s
        below == s - k.lo
        both == AtMost(above, below)
        paired == index <= 2 * both
        d == IF paired THEN (index + 1) \div 2 ELSE index - both
        up == IF paired THEN index % 2 = 1 ELSE above > below
    IN IF index > above + below THEN {} ELSE {IF up THEN s + d ELSE s - d}
SeqFromIndex(k, index) ==
    {[j \in 1..l |->
         k.alpha[1 + (((index - Shorter(k, l)) \div Len(k.alpha) ^ (l - j)) % Len(k.alpha))]] :
         l \in {n \in k.min..k.max : Shorter(k, n) <= index /\ index < Shorter(k, n + 1)}}
FromIndex(k, index) ==
    CASE k.t = "int" -> {<<x>> : x \in IntFromIndex(k, index)}
      [] k.t = "bool" -> {<<index>>} \cap {<<0>>, <<1>>}
      [] IsSeq(k) -> SeqFromIndex(k, index)

(* Properties of a kind, against its set of values.                           *)
Values(k) ==
    CASE k.t = "int" -> {<<n>> : n \in k.lo..k.hi}
      [] k.t = "bool" -> {<<0>>, <<1>>}
      [] IsSeq(k) -> UNION {[1..n -> Range(k.alpha)] : n \in k.min..k.max}

\* The index of a value is the number of simpler values of its kind, and leads back to it.
IndexIsRank(k) ==
    \A v \in Values(k) :
        /\ ToIndex(k, v) = Cardinality({w \in Values(k) : LexLess(Key(k, w), Key(k, v))})
        /\ FromIndex(k, ToIndex(k, v)) = {v}

\* The simplest value comes first, the last index is MaxIndex, and nothing follows it.
EndsOfKind(k) ==
    /\ FromIndex(k, 0) = {Simplest(k)}
    /\ FromIndex(k, MaxIndex(k)) # {} /\ FromIndex(k, MaxIndex(k) + 1) = {}

\* What a replayed choice is replaced by is a value of the kind, and tells apart what it can.
PunIsValid(k) ==
    /\ {Simplest(k), Unit(k)} \subseteq Values(k)
    /\ Cardinality(Values(k)) > 1 => Unit(k) # Simplest(k)
=============================================================================
