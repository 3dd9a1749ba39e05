----------------------------- MODULE ChoiceDraw -----------------------------
(* One draw of a stream (native/core/state.rs): a choice comes from the record *)
(* that is replayed, from the template that follows the record, or from a      *)
(* sampler. Samplers favour boundaries and curated values: here a sampler is   *)
(* the set of values it can return with a positive probability, and a random   *)
(* number below a threshold is any branch whose threshold is not zero. The     *)
(* machine integer of the code (i128) has the range IMin..IMax.                *)
EXTENDS ChoiceOrder
LOCAL INSTANCE SequencesExt
LOCAL INSTANCE FiniteSetsExt
LOCAL INSTANCE Functions

CONSTANTS Requests,          \* the draws asked of a stream
          IMin, IMax,        \* the machine integers
          CuratedMinWidth,   \* CURATED_MIN_WIDTH
          CuratedIntegers,   \* INTERESTING_INTEGERS
          LargeIntegers,     \* GLOBAL_CONSTANTS_INTEGERS
          SampleBits,        \* significant bits that the inverse of the distribution resolves
          UniformBits,       \* how much closer together than to 0 the ends of a range are
                             \* whose share of the distribution is below 1e-13
          CuratedStrings,    \* GLOBAL_CONSTANTS_STRINGS
          MaxSubAlphabet,    \* distinct characters of one string (10 in the code)
          AsciiSize          \* positions preferred in a large alphabet (256)

\* A request is [op, k, p, forced, entry, template]: forced, entry and template hold at most one
\* element, the value imposed, the record [known, k, v] to replay and the length of the template.
VARIABLES request,
          node,     \* what was recorded, {} before the draw
          overrun   \* the template was used up
drawVars == <<request, node, overrun>>

Within(S, k) == {x \in S : k.lo <= x /\ x <= k.hi}
Sorted(S) == SetToSortSeq(S, LAMBDA a, b : a < b)

-----------------------------------------------------------------------------
(* Lengths. *)

\* The probability of one more element, as a fraction: the average length aimed at is twice
\* the least one or five more, and at most the middle of the range.
PContinue(min, max) ==
    LET average2 == AtMost(2 * AtLeast(2 * min, min + 5), min + max)
        desired2 == average2 - 2 * min
    IN IF desired2 >= 2 * (max - min) THEN <<99, 100>> ELSE <<2 + desired2, 4 + desired2>>

\* A geometric variate, cut off at max; any number of extra elements if 0 < p < 1.
ManyDrawLength(min, max) ==
    LET p == PContinue(min, max)
    IN IF min = max THEN {min}
       ELSE IF 0 < p[1] /\ p[1] < p[2] THEN {AtMost(min + extra, max) : extra \in 0..(max + 1 - min)}
       ELSE {}

-----------------------------------------------------------------------------
(* Integers. *)

Magnitude(x) == AtLeast(x, -x)
BitsOf(n) == CHOOSE b \in 0..n : 2 ^ b > n /\ \A c \in 0..(b - 1) : 2 ^ c <= n

\* The nearest integer with SampleBits significant bits: the distribution is inverted in
\* floating point, which passes over the integers between.
Floated(x) ==
    LET m    == Magnitude(x)
        step == 2 ^ AtLeast(BitsOf(m) - SampleBits, 0)
        near == ((m + step \div 2) \div step) * step
    IN IF x < 0 THEN -near ELSE near

\* A range far from zero for its width has next to no share of the distribution.
NoShare(k) == k.lo * k.hi > 0 /\ (k.hi - k.lo) * 2 ^ UniformBits <= AtMost(Magnitude(k.lo), Magnitude(k.hi))

\* Mutant: such a range is sampled from the distribution all the same.
FromDistributionAlways(k) == {AtMost(AtLeast(Floated(x), k.lo), k.hi) : x \in (k.lo - 1)..(k.hi + 1)}

\* The inverse of the cumulative distribution, rounded and clamped into the range; a range that
\* has next to no share of it is sampled uniformly.
FromDistribution(k) ==
    IF NoShare(k) THEN k.lo..k.hi
    ELSE {AtMost(AtLeast(Floated(x), k.lo), k.hi) : x \in (k.lo - 1)..(k.hi + 1)}

\* The nasty pool's slice with the ends of the range added when it lacks them, by index.
NastyAt(k, slice, idx) ==
    LET need_min == slice = <<>> \/ Head(slice) # k.lo
        need_max == slice = <<>> \/ Last(slice) # k.hi
        count == Len(slice) + (IF need_min THEN 1 ELSE 0) + (IF need_max THEN 1 ELSE 0)
    IN IF idx >= count THEN {}
       ELSE IF need_min /\ idx = 0 THEN {k.lo}
       ELSE IF need_max /\ idx = count - 1 THEN {k.hi}
       ELSE {slice[1 + idx - (IF need_min THEN 1 ELSE 0)]}
NarrowNastySample(k) ==
    LET slice == Sorted(Within(CuratedIntegers \cup LargeIntegers, k))
    IN UNION {NastyAt(k, slice, idx) : idx \in 0..(Len(slice) + 1)} \cup FromDistribution(k)

Endpoints(k, up, down) == Within({k.lo, k.hi, up, down}, k)

\* A range that fits the machine integer: wide when its width overflows, or is large.
MachineSample(k) ==
    LET overflows == k.hi - k.lo > IMax
        wide == overflows \/ k.hi - k.lo >= CuratedMinWidth
    IN CASE k.lo = k.hi -> {k.lo}
         [] k.lo # k.hi /\ ~wide -> NarrowNastySample(k)
         [] OTHER -> Endpoints(k, AtMost(k.lo + 1, IMax), AtLeast(k.hi - 1, IMin))
                       \cup Within(CuratedIntegers, k) \cup Within(LargeIntegers, k)
                       \cup FromDistribution(k)

\* Masked bytes that are too large are drawn again.
AtMostSpan(span) == {c \in 0..(2 ^ BitsOf(span) - 1) : c <= span}
BigSample(k) ==
    LET span == k.hi - k.lo
        powers == UNION {{2 ^ b, -(2 ^ b)} : b \in 1..BitsOf(span)}
    IN IF k.lo = k.hi THEN {k.lo}
       ELSE Endpoints(k, k.lo + 1, k.hi - 1) \cup Within(powers, k)
              \cup Within(CuratedIntegers, k) \cup {k.lo + c : c \in AtMostSpan(span)}

IntegerSample(k) ==
    IF IMin <= k.lo /\ k.hi <= IMax THEN MachineSample(k) ELSE BigSample(k)
UniformSample(k) == k.lo..k.hi

-----------------------------------------------------------------------------
(* Booleans: one byte against a threshold kept inside 1..255. p is a number of *)
(* 2^-20ths; 1 - p is rounded to a 2^-16th, as a float rounds it (to a 2^-53rd *)
(* in the code), so that a small p is lost in it.                              *)
Scale == 2 ^ 20
Rounded(x) == ((x + 8) \div 16) * 16
Falsey(p) == AtMost(AtLeast((256 * Rounded(Scale - p)) \div Scale, 1), 255)
WeightedSample(p) == {IF byte >= Falsey(p) THEN <<1>> ELSE <<0>> : byte \in 0..255}

-----------------------------------------------------------------------------
(* Bytes and strings. *)

\* The boundary values: the simplest one, a single zero and a single 0xff.
NastyBytes(k) ==
    {Simplest(k)} \cup (IF k.min = 0 /\ k.max > 0 THEN {<<k.alpha[1]>>} ELSE {})
                  \cup (IF k.min <= 1 /\ k.max >= 1 THEN {<<Last(k.alpha)>>} ELSE {})
BytesSample(k) ==
    NastyBytes(k) \cup UNION {[1..n -> Range(k.alpha)] : n \in ManyDrawLength(k.min, k.max)}

\* The boundary strings: the simplest one, lengths 0, 1 and 2, and the constants that the
\* alphabet and the size allow.
NastyStrings(k) ==
    LET fits(n) == k.min <= n /\ n <= k.max
    IN {Simplest(k)} \cup (IF k.min = 0 /\ k.max > 0 THEN {<<>>} ELSE {})
                     \cup {Repeat(k.alpha[1], n) : n \in {m \in {1, 2} : fits(m)}}
                     \cup {c \in CuratedStrings : fits(Len(c)) /\ Range(c) \subseteq Range(k.alpha)}

\* Positions of the alphabet in shrink order that a pick can hit: in a large one either the
\* first AsciiSize or the others.
Positions(k) ==
    IF Len(k.alpha) > AsciiSize THEN (AsciiSize..(Len(k.alpha) - 1)) \cup 0..(AsciiSize - 1)
    ELSE 0..(Len(k.alpha) - 1)
\* Picks may repeat, so a sub-alphabet has up to that many different characters.
SubAlphabets(k) ==
    {S \in SUBSET {k.alpha[1 + q] : q \in Positions(k)} :
        S # {} /\ Cardinality(S) <= AtMost(MaxSubAlphabet, Len(k.alpha))}
StringSample(k) ==
    IF k.alpha = <<>> THEN {<<>>}
    ELSE NastyStrings(k)
           \cup UNION {[1..n -> S] : n \in ManyDrawLength(k.min, k.max), S \in SubAlphabets(k)}

-----------------------------------------------------------------------------
(* The draw. *)

\* What a fresh draw of a request can return.
Sample(r) ==
    CASE r.op = "integer" -> {<<x>> : x \in IntegerSample(r.k)}
      [] r.op = "uniform" -> {<<x>> : x \in UniformSample(r.k)}
      [] r.op = "boolean" -> WeightedSample(r.p)
      [] r.op = "precise" -> {<<0>>, <<1>>}
      [] r.op = "bytes" -> BytesSample(r.k)
      [] r.op = "string" -> StringSample(r.k)

\* A forced value, and a boolean whose probability leaves no choice, consult nothing.
ForcedValues(r) ==
    IF r.forced # {} \/ r.op \notin {"boolean", "precise"} THEN r.forced
    ELSE IF r.p <= 0 THEN {<<0>>} ELSE IF r.p >= Scale THEN {<<1>>} ELSE {}

\* A recorded value is kept when it fits. Otherwise a value known to be the simplest of the
\* choice it was recorded for becomes the simplest here, and any other one the unit.
FromEntry(r, e) ==
    IF e.k.t = r.k.t /\ Validate(r.k, e.v) THEN e.v
    ELSE IF e.known /\ e.v = Simplest(e.k) THEN Simplest(r.k) ELSE Unit(r.k)

Undrawn == node = {} /\ ~overrun
Record(v, forced) == node' = {[v |-> v, forced |-> forced]} /\ UNCHANGED <<request, overrun>>

DrawForced == Undrawn /\ \E v \in ForcedValues(request) : Record(v, TRUE)

Consults == Undrawn /\ ForcedValues(request) = {}
DrawRecorded ==
    /\ Consults
    /\ \E e \in request.entry : Record(FromEntry(request, e), FALSE)
DrawFromTemplate ==
    /\ Consults /\ request.entry = {} /\ request.template # {}
    /\ IF request.template = {0} THEN overrun' = TRUE /\ UNCHANGED <<request, node>>
       ELSE Record(Simplest(request.k), FALSE)
DrawFresh ==
    /\ Consults /\ request.entry = {} /\ request.template = {}
    /\ \E v \in Sample(request) : Record(v, FALSE)

DrawInit == request \in Requests /\ node = {} /\ overrun = FALSE
DrawNext == DrawForced \/ DrawRecorded \/ DrawFromTemplate \/ DrawFresh

-----------------------------------------------------------------------------
(* Properties. *)

\* What a biased sampler may pass over: strings of more different characters than a sub-alphabet
\* has, and, in a wide range of machine integers, those of more bits than the distribution resolves.
PassedOver(r, v) ==
    \/ r.op = "string" /\ Cardinality(Range(v)) > MaxSubAlphabet
    \/ /\ r.op = "integer" /\ IMin <= r.k.lo /\ r.k.hi <= IMax
       /\ r.k.hi - r.k.lo >= CuratedMinWidth /\ v[1] \notin {r.k.lo, r.k.hi}
       /\ Magnitude(v[1]) > 2 ^ SampleBits

\* A sampler draws no value but those of the kind, and each of them that it may not pass over:
\* in particular every integer of a range narrower than CURATED_MIN_WIDTH, however far from zero,
\* the two ends of any range, and every integer of a range too wide for the machine.
Reaches(r) ==
    /\ Sample(r) \subseteq Values(r.k)
    /\ \A v \in Values(r.k) : ~PassedOver(r, v) => v \in Sample(r)

\* What is recorded is a value of the kind asked for, and replaying the record draws it again,
\* whatever the record, the template or the sampler put there (resolve_choice).
ReplaysItself(r) ==
    \A n \in node : /\ n.v \in Values(r.k)
                    /\ n.forced <=> ForcedValues(r) # {}
                    /\ FromEntry(r, [known |-> FALSE, k |-> r.k, v |-> n.v]) = n.v

\* A choice can be drawn, recorded, replayed, punned and compared: samplers, codecs and order
\* agree on the values of a kind and on how simple each is.
ChoiceIsSound ==
    /\ ReplaysItself(request)
    /\ ForcedValues(request) = {} => Reaches(request)
    /\ IndexIsRank(request.k) /\ EndsOfKind(request.k) /\ PunIsValid(request.k)
=============================================================================
