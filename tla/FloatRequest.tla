---------------------------- MODULE FloatRequest ----------------------------
(* From the floats a property asks for to the float choice that is drawn: the *)
(* client's FloatGenerator (generators/numeric.rs), its builder, its checks   *)
(* and the parameters it caches, and the checks and bound adjustments of the  *)
(* engine's generate_float (native/draws/mod.rs) at the width of the format.  *)
EXTENDS FloatOrder

CONSTANTS
    Unset,      \* a field that the caller did not set
    BoundsAsked \* the bounds a caller may ask for

VARIABLES
    request,    \* what the builder was told: bounds, exclusions, allowances
    params      \* the parameters cached by the first draw since
requestVars == <<request, params>>

Set(x) == x # Unset
Get(x, default) == IF Set(x) THEN x ELSE default

(* What the client rejects with an invalid argument.                          *)
Finite(v) == v.e < TopExp
Same(a, b) == Lte(a, b) /\ Lte(b, a)
AboveSubnormal(v) == Lte(SmallestNormal, v)
BelowSubnormal(v) == Lte(v, Neg(SmallestNormal))

BoundsRejected(r) ==
    /\ Set(r.min) /\ Set(r.max)
    /\ \/ IsNaN(r.min) \/ IsNaN(r.max)
       \/ ~SignAwareLte(r.min, r.max)
       \/ Same(r.min, r.max) /\ (r.exmin \/ r.exmax)
ExclusionRejected(r) ==
    \/ r.exmin /\ (~Set(r.min) \/ r.min = Inf)
    \/ r.exmax /\ (~Set(r.max) \/ r.max = Neg(Inf))

AllowNaN(r) == Get(r.nan, ~Set(r.min) /\ ~Set(r.max))
AllowInfinity(r) == Get(r.inf, ~Set(r.min) \/ ~Set(r.max))
SpecialRejected(r) ==
    \/ AllowNaN(r) /\ (Set(r.min) \/ Set(r.max))
    \/ AllowInfinity(r) /\ Set(r.min) /\ Set(r.max)

AllowSubnormal(r) ==
    Get(r.sub, /\ Set(r.min) => Lt(r.min, SmallestNormal)
               /\ Set(r.max) => Lt(Neg(SmallestNormal), r.max))
SubnormalRejected(r) ==
    IF AllowSubnormal(r)
    THEN (Set(r.min) /\ AboveSubnormal(r.min)) \/ (Set(r.max) /\ BelowSubnormal(r.max))
    ELSE /\ Set(r.min) /\ Set(r.max)
         /\ ~(Lte(r.min, Zero) /\ Lte(Zero, r.max))
         /\ Lt(r.max, SmallestNormal) /\ Lt(Neg(SmallestNormal), r.min)

Rejected(r) ==
    BoundsRejected(r) \/ ExclusionRejected(r) \/ SpecialRejected(r) \/ SubnormalRejected(r)

(* The parameters of the draw: what draw_params returns.                      *)
DrawParams(r) ==
    LET bounded == ~AllowNaN(r) /\ ~AllowInfinity(r)
        widest == IF bounded THEN Largest ELSE Inf
    IN [min |-> Get(r.min, Neg(widest)), max |-> Get(r.max, widest),
        nan |-> AllowNaN(r), inf |-> AllowInfinity(r),
        tiny |-> IF AllowSubnormal(r) THEN Smallest ELSE SmallestNormal]

(* The engine: the next float up or down, of either zero a subnormal.         *)
NextUp(v) ==
    CASE IsNaN(v) \/ v = Inf -> v
      [] IsZero(v) -> Smallest
      [] OTHER -> IF v.s = 0 THEN FromBits(Bits(v) + 1) ELSE Neg(FromBits(Bits(v) - 1))
NextDown(v) == Neg(NextUp(Neg(v)))

ArgumentsRejected(p) ==
    \/ ~(Finite(p.tiny) /\ Lt(Zero, p.tiny))
    \/ IsNaN(p.min) \/ IsNaN(p.max)
    \/ p.nan /\ (Finite(p.min) \/ Finite(p.max))
    \/ p.inf /\ Finite(p.min) /\ Finite(p.max)
Choice(p) ==
    [min |-> IF p.exmin THEN NextUp(p.min) ELSE p.min,
     max |-> IF p.exmax THEN NextDown(p.max) ELSE p.max,
     nan |-> p.nan, inf |-> p.inf, tiny |-> p.tiny]
DrawRejected(p) == ArgumentsRejected(p) \/ ~Lte(Choice(p).min, Choice(p).max)

(* The generator: each builder method sets one field and forgets the cached  *)
(* parameters; a draw checks and caches them unless it finds them cached, and *)
(* passes the exclusions on as they are.                                      *)
RequestInit ==
    /\ request = [min |-> Unset, max |-> Unset, exmin |-> FALSE, exmax |-> FALSE,
                  nan |-> Unset, inf |-> Unset, sub |-> Unset]
    /\ params = Unset

\* Mutant: the methods forget the cached parameters only when they set a bound.
BuildKeepsParams(field, x) ==
    /\ request' = [request EXCEPT ![field] = x]
    /\ params' = IF field \in {"min", "max"} THEN Unset ELSE params
Build(field, x) == request' = [request EXCEPT ![field] = x] /\ params' = Unset
SetBound == \E field \in {"min", "max"}, v \in BoundsAsked : Build(field, v)
SetExclusion == \E field \in {"exmin", "exmax"}, b \in BOOLEAN : Build(field, b)
SetAllowance == \E field \in {"nan", "inf", "sub"}, b \in BOOLEAN : Build(field, b)
Draw ==
    /\ Set(params) \/ ~Rejected(request)
    /\ params' = Get(params, DrawParams(request))
    /\ UNCHANGED request

RequestNext == SetBound \/ SetExclusion \/ SetAllowance \/ Draw

\* The draw that the engine is asked for.
Asked == [min |-> params.min, max |-> params.max, nan |-> params.nan, inf |-> params.inf,
          exmin |-> request.exmin, exmax |-> request.exmax, tiny |-> params.tiny]
Drawn == Set(params) /\ ~DrawRejected(Asked)

(* What the request means: its bounds, either zero standing for both where a  *)
(* bound is excluded, the specials as allowed, no subnormal when forbidden.   *)
Wanted(r, v) ==
    IF IsNaN(v) THEN AllowNaN(r)
    ELSE /\ Set(r.min) => IF r.exmin THEN Lt(r.min, v) ELSE SignAwareLte(r.min, v)
         /\ Set(r.max) => IF r.exmax THEN Lt(v, r.max) ELSE SignAwareLte(v, r.max)
         /\ IsInf(v) => AllowInfinity(r)
         /\ v.e = 0 /\ ~IsZero(v) => AllowSubnormal(r)

(* The floats that may be drawn are exactly the ones the request is for,      *)
(* whatever bounds, exclusions and allowances a caller combines and however   *)
(* its builder calls and draws alternate: the parameters FloatGenerator       *)
(* caches are never those of an earlier request.                              *)
RequestHonoured ==
    Drawn => Values(Choice(Asked)) = {v \in Floats : Wanted(request, v)}
=============================================================================
