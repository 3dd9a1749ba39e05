----------------------------- MODULE MCGenerators -----------------------------
(* What generators of three families may draw, whichever `part` is.             *)
(* Texts of a pattern: some as trees, rendered to text and parsed back, some as *)
(* text that has no tree of its own (comments, verbose mode, names,             *)
(* alternatives that share a prefix), and every short concatenation of pieces.  *)
(* Floats: every float of a format of three mantissa and four exponent bits,    *)
(* the float choices between bounds of interest, and a generator whose caller   *)
(* asks for such bounds.                                                        *)
(* Dates and times: months about the ends of the calendar's cycles, and pairs   *)
(* of bounds of each type, with days of eight seconds of three nanoseconds.     *)
EXTENDS RegexDraw, FloatRequest, CalendarDraw

VARIABLES part, subject

L(c) == [op |-> "Literal", c |-> c]
NL(c) == [op |-> "NotLiteral", c |-> c]
Dot == [op |-> "Any"]
At(a) == [op |-> "At", at |-> a]
In(items) == [op |-> "In", items |-> items]
Or(bs) == [op |-> "Branch", branches |-> bs]
Group(g, p) == [op |-> "Subpattern", gid |-> g, add |-> {}, del |-> {}, p |-> p]
With(add, del, p) == [op |-> "Subpattern", gid |-> 0, add |-> add, del |-> del, p |-> p]
Ref(g) == [op |-> "GroupRef", gid |-> g]
If(g, y, n) == [op |-> "GroupRefExists", gid |-> g, yes |-> y, no |-> n]
Look(d, p) == [op |-> "Assert", direction |-> d, p |-> p]
NotLook(d, p) == [op |-> "AssertNot", direction |-> d, p |-> p]
Never == [op |-> "Failure"]
Atomic(p) == [op |-> "AtomicGroup", p |-> p]
Rep(kind, lo, hi, item) == [op |-> kind, min |-> lo, max |-> hi, item |-> item]
Star(p) == Rep("MaxRepeat", 0, -1, p)
Plus(p) == Rep("MaxRepeat", 1, -1, p)
Opt(p) == Rep("MaxRepeat", 0, 1, p)
Negated == [item |-> "Negate"]
Ch(c) == [item |-> "Literal", c |-> c]
Span(a, b) == [item |-> "Range", lo |-> a, hi |-> b]
Cat(c) == [item |-> "Category", cat |-> c]
Bol == At("Beginning")
Eol == At("End")

-----------------------------------------------------------------------------
(* Trees to text. *)

Digit == <<"1", "2", "3">>
PosToken == [Beginning |-> "^", End |-> "$", BeginningString |-> "\\A", EndString |-> "\\Z",
             Boundary |-> "\\b", NonBoundary |-> "\\B"]
CatToken == [s |-> "\\s", S |-> "\\S", w |-> "\\w", W |-> "\\W"]
SomeSeq(S) == SetToSeq(S)

RenderItem(x) ==
    CASE x.item = "Negate" -> <<"^">> [] x.item = "Literal" -> <<x.c>>
      [] x.item = "Range" -> <<x.lo, "-", x.hi>> [] x.item = "Category" -> <<CatToken[x.cat]>>

RECURSIVE RenderTree(_), RenderOp(_)
RenderTree(ops) == FlattenSeq([i \in DOMAIN ops |-> RenderOp(ops[i])])
Count(op) ==
    CASE op.min = 0 /\ op.max = 1 -> <<"?">> [] op.min = 0 /\ op.max = -1 -> <<"*">>
      [] op.min = 1 /\ op.max = -1 -> <<"+">>
      [] OTHER -> <<"{", Digit[op.min], ",", Digit[op.max], "}">>
RenderOp(op) ==
    CASE op.op = "Literal" -> <<op.c>>
      [] op.op = "NotLiteral" -> <<"[", "^", op.c, "]">>
      [] op.op = "Any" -> <<".">>
      [] op.op = "At" -> <<PosToken[op.at]>>
      [] op.op = "In" -> <<"[">> \o FlattenSeq([i \in DOMAIN op.items |-> RenderItem(op.items[i])]) \o <<"]">>
      [] op.op = "Branch" ->
           <<"(", "?", ":">>
             \o FlattenSeq([i \in DOMAIN op.branches |->
                              (IF i = 1 THEN <<>> ELSE <<"|">>) \o RenderTree(op.branches[i])]) \o <<")">>
      [] op.op = "Subpattern" ->
           (IF op.gid # 0 THEN <<"(">>
            ELSE <<"(", "?">> \o SomeSeq(op.add) \o (IF op.del = {} THEN <<>> ELSE <<"-">>)
                   \o SomeSeq(op.del) \o <<":">>)
             \o RenderTree(op.p) \o <<")">>
      [] op.op = "GroupRef" -> <<"\\1">>
      [] op.op = "GroupRefExists" ->
           <<"(", "?", "(", Digit[op.gid], ")">> \o RenderTree(op.yes) \o <<"|">> \o RenderTree(op.no) \o <<")">>
      [] op.op \in {"Assert", "AssertNot"} ->
           <<"(", "?">> \o (IF op.direction < 0 THEN <<"<">> ELSE <<>>)
             \o (IF op.op = "Assert" THEN <<"=">> ELSE <<"!">>) \o RenderTree(op.p) \o <<")">>
      [] op.op = "Failure" -> <<"(", "?", "!", ")">>
      [] op.op = "AtomicGroup" -> <<"(", "?", ">">> \o RenderTree(op.p) \o <<")">>
      [] op.op \in Repeats ->
           <<"(", "?", ":">> \o RenderTree(op.item) \o <<")">> \o Count(op)
             \o (CASE op.op = "MinRepeat" -> <<"?">> [] op.op = "PossessiveRepeat" -> <<"+">> [] OTHER -> <<>>)

-----------------------------------------------------------------------------
Trees == {
    <<>>,
    <<L("a"), NL("a"), Dot>>,
    <<Bol, L("a"), Eol>>,
    <<Group(1, <<At("BeginningString"), Dot, At("EndString")>>)>>,
    <<Dot, Bol, L("a")>>,
    <<L("a"), At("Boundary"), Dot>>,
    <<L("a"), At("NonBoundary"), Dot>>,
    <<L("a"), Eol, Dot>>,
    <<Group(1, <<Or(<<<<L("a")>>, <<L("a"), L("b")>>>>)>>), Ref(1)>>,
    <<Or(<<<<L("b")>>, <<In(<<Negated, Ch("a"), Cat("s")>>)>>>>)>>,
    <<Or(<<<<L("b")>>, <<In(<<Ch("a"), Cat("s")>>)>>>>)>>,
    <<Opt(<<Group(1, <<L("a")>>)>>), If(1, <<L("b")>>, <<L("i")>>)>>,
    <<Opt(<<Group(1, <<L("i")>>)>>), Ref(1)>>,
    <<Rep("PossessiveRepeat", 0, -1, <<L("a")>>), L("a")>>,
    <<Atomic(<<Or(<<<<L("a")>>, <<L("a"), L("b")>>>>)>>), L("b")>>,
    <<Rep("MinRepeat", 1, 2, <<Dot>>), Eol>>,
    <<Plus(<<In(<<Span("a", "b"), Cat("s")>>)>>)>>,
    <<Rep("MaxRepeat", 1, 2, <<L("a"), L("b")>>)>>,
    <<In(<<Negated, Ch("dI"), Cat("S")>>), In(<<Negated, Span("a", "b")>>)>>,
    <<NL("dI"), L("i"), With({}, {"i"}, <<L("i")>>), With({"i"}, {}, <<In(<<Ch("i"), Ch("a")>>)>>)>>,
    <<NotLook(-1, <<L("a")>>), L("b")>>,
    <<NotLook(1, <<L("a"), L("b")>>), Dot>>,
    <<NotLook(1, <<Star(<<L("a")>>), L("b")>>), L("a"), Dot>>,
    <<Dot, Or(<<<<Never>>, <<L("a")>>>>)>>}

\* Positive look-arounds, drawn under fullmatch only.
LookTrees == {
    <<Look(1, <<L("a")>>), Dot>>,
    <<Dot, Look(-1, <<L("a")>>), L("b")>>,
    <<Dot, Look(1, <<L("b"), Eol>>), Dot>>}

FromTree(p, given, full, alphabet) ==
    [text |-> RenderTree(p), given |-> given, full |-> full, alphabet |-> alphabet, drawn |-> TRUE,
     means |-> {[ops |-> p, flags |-> given]}]
FromText(t, p, on) ==
    [text |-> t, given |-> {}, full |-> TRUE, alphabet |-> {}, drawn |-> TRUE,
     means |-> {[ops |-> p, flags |-> on]}]

Small == {"a", "b", "i", "nl"}
Texts == {
    FromText(<<"a", "b", "|", "a", "i">>, <<Or(<<<<L("a"), L("b")>>, <<L("a"), L("i")>>>>)>>, {}),
    FromText(<<"(", "?", "x", ")", "sp", "a", "#", "b", "nl", "b">>, <<L("a"), L("b")>>, {"x"}),
    FromText(<<"(", "?", "i", ")", "i", "(", "?", "#", "b", ")", "b">>, <<L("i"), L("b")>>, {"i"}),
    FromText(<<"(", "?", "P", "<", "n", ">", ".", ")", "(", "?", "P", "=", "n", ")">>,
             <<Group(1, <<Dot>>), Ref(1)>>, {}),
    FromText(<<"a", "{", ",", "2", "}", "b", "{", "2", "}">>,
             <<Rep("MaxRepeat", 0, 2, <<L("a")>>), L("b"), L("b")>>, {})}

\* Every text of at most four pieces, compiled and not drawn.
Pieces == {<<"(">>, <<")">>, <<"(", "?", "P", "<", "n", ">">>, <<"(", "?", "P", "=", "n", ")">>,
           <<"\\1">>, <<"\\2">>, <<"(", "?", "<", "=">>, <<"(", "?", "!">>, <<"(", "?", "(", "1", ")">>,
           <<"a">>, <<"|">>, <<"?">>, <<"^">>}
Scraps == {[text |-> t, given |-> {}, full |-> TRUE, alphabet |-> {}, drawn |-> FALSE, means |-> {}] :
             t \in {FlattenSeq(s) : s \in UNION {[1..n -> Pieces] : n \in 1..4}}}

MCDraws ==
    {FromTree(p, f, u, al) : p \in Trees, f \in {{}, {"i"}, {"m"}, {"s"}, {"a"}}, u \in BOOLEAN, al \in {{}, Small}}
    \cup {FromTree(p, f, TRUE, al) : p \in LookTrees, f \in {{}, {"m"}}, al \in {{}, Small}}
    \cup Texts \cup Scraps

MCChars == {"a", "b", "i", "I", "dI", "dot", "sp", "nl"}
MCSwap == [c \in MCChars |-> CASE c = "i" -> <<"I">> [] c = "I" -> <<"i">> [] c = "dI" -> <<"i", "dot">>
                               [] OTHER -> <<>>]
MCRank == [c \in MCChars |-> CASE c = "nl" -> 0 [] c = "sp" -> 1 [] c = "I" -> 2 [] c = "a" -> 3
                               [] c = "b" -> 4 [] c = "i" -> 5 [] c = "dI" -> 6 [] c = "dot" -> 7]
MCDigitOf == [d \in {"1", "2", "3"} |-> CASE d = "1" -> 1 [] d = "2" -> 2 [] d = "3" -> 3]
MCEscapedChar == [e \in {"\\n"} |-> "nl"]
MCCategoryOf == [e \in {"\\s", "\\S", "\\w", "\\W"} |->
                   CASE e = "\\s" -> "s" [] e = "\\S" -> "S" [] e = "\\w" -> "w" [] e = "\\W" -> "W"]
MCPositionOf == [e \in {"\\A", "\\b", "\\B", "\\Z"} |->
                   CASE e = "\\A" -> "BeginningString" [] e = "\\Z" -> "EndString"
                     [] e = "\\b" -> "Boundary" [] e = "\\B" -> "NonBoundary"]
MCGroupDigit == [e \in {"\\1", "\\2"} |-> IF e = "\\1" THEN 1 ELSE 2]

-----------------------------------------------------------------------------
(* Floats. *)

F(s, e, m) == [s |-> s, e |-> e, m |-> m]
\* The zeros, the ends of the subnormals, normals about 1, fractions and
\* integers about the largest that is its own index, the ends of the format.
Magnitudes == {F(0, 0, 0), F(0, 0, 1), F(0, 0, 7), F(0, 1, 0), F(0, 6, 3), F(0, 7, 0),
               F(0, 7, 5), F(0, 9, 3), F(0, 11, 0), F(0, 11, 1), F(0, 11, 7), F(0, 12, 0),
               F(0, 12, 3), F(0, 13, 1), F(0, 14, 7), F(0, 15, 0)}
Ends == {F(0, 0, 0), F(0, 0, 1), F(0, 0, 7), F(0, 1, 0), F(0, 7, 5), F(0, 14, 7), F(0, 15, 0)}
Signed(S) == S \cup {Neg(f) : f \in S}

\* The choices that generate_float makes of arguments it does not reject.
Params == [min : Signed(Magnitudes), max : Signed(Magnitudes), nan : BOOLEAN, inf : BOOLEAN,
           exmin : {FALSE}, exmax : {FALSE}, tiny : {Smallest, SmallestNormal, F(0, 7, 4)}]
FloatChoices == {Choice(p) : p \in {q \in Params : ~DrawRejected(q)}}

MCBounds == Signed(Ends) \cup {NaN}

-----------------------------------------------------------------------------
(* Dates and times: of each type, the values that its generator supports, and   *)
(* the bounds that are asked for.                                               *)

Months == {[type |-> "month", year |-> y, month |-> m] :
             y \in UNION {(e - 1)..(e + 1) : e \in {-400, 0, 1600, 1900, 1970, 2000, 2100}}, m \in 1..12}

FirstDay == -20
LastDay == 20
Dates == {d \in (1999..2000) \X (1..12) \X (1..31) : d[3] <= DaysInMonth(d[1], d[2])}
Clock == (0..DayHours - 1) \X (0..HourMinutes - 1) \X (0..MinuteSeconds - 1) \X (0..SecondNanos - 1)
Seconds == 0..DaySeconds - 1
Fractions == 0..2 * SecondNanos - 1

Eves == {<<1999, 12, 30>>, <<1999, 12, 31>>, <<2000, 1, 1>>}
Hours == {<<0, 0, 0, 0>>, <<0, 1, 0, 2>>, <<1, 0, 1, 0>>, <<1, 1, 1, 2>>}
Moments == {d \o t : d \in Eves, t \in Clock}

Supported == [
    date |-> Dates,
    time |-> Clock,
    datetime |-> Moments,
    naive_time |-> {t \in Seconds \X Fractions : t[2] < SecondNanos \/ t[1] = DaySeconds - 1},
    time_delta |-> (-2..2) \X (0..SecondNanos - 1),
    naive_datetime |-> (-1..1) \X Seconds \X (0..SecondNanos - 1)]

AskedFor == [
    date |-> Eves \cup {<<2000, 2, 29>>, <<1999, 2, 29>>, <<2000, 0, 1>>},
    time |-> Clock,
    datetime |-> {d \o t : d \in Eves \cup {<<2000, 1, 0>>}, t \in Hours},
    naive_time |-> Seconds \X Fractions,
    time_delta |-> Supported.time_delta,
    naive_datetime |-> (-1..1) \X {0, 3, 7} \X Fractions]

Requests == UNION {[type : {t}, lo : AskedFor[t], hi : AskedFor[t]] : t \in DOMAIN Supported}

Whole(x) == [date |-> SubSeq(x, 1, 3), time |-> SubSeq(x, 4, 7)]
MayDraw(r) ==
    CASE r.type = "date" -> GenerateDate(r.lo, r.hi)
      [] r.type = "time" -> GenerateTime(r.lo, r.hi)
      [] r.type = "datetime" -> {v.date \o v.time : v \in GenerateDateTime(Whole(r.lo), Whole(r.hi))}
      [] r.type = "naive_time" -> NaiveTimes(r.lo, r.hi)
      [] r.type = "time_delta" -> TimeDeltas(r.lo, r.hi)
      [] r.type = "naive_datetime" -> NaiveDateTimes(r.lo, r.hi)

-----------------------------------------------------------------------------
GeneratorParts == {"regex", "float", "choice", "request", "calendar", "bounds"}
generatorVars == <<subject, vars, requestVars>>

Subjects ==
    CASE part = "float" -> Floats [] part = "choice" -> FloatChoices
      [] part = "calendar" -> Months [] part = "bounds" -> Requests [] OTHER -> {}

\* The parts that are not looked at stay in one initial state.
GeneratorsInit ==
    /\ subject = Unset
    /\ InitOf(IF part = "regex" THEN Draws ELSE {FromText(<<"a">>, <<L("a")>>, {})})
    /\ RequestInit

GeneratorsNext ==
    \/ subject = Unset /\ subject' \in Subjects /\ UNCHANGED <<vars, requestVars>>
    \/ part = "regex" /\ Next /\ UNCHANGED <<subject, requestVars>>
    \/ part = "request" /\ RequestNext /\ UNCHANGED <<subject, vars>>

LookedAt(p) == part = p /\ subject # Unset

\* A float's index leads back to it, and the dense rank of the engine orders the floats that
\* are numbers exactly as the shrinker's key does.
RankIsShrinkOrder(v) ==
    /\ FromGlobalRank(GlobalRank(v)) = {v}
    /\ ~IsNaN(v) => \A w \in Floats :
          IF IsNaN(w) THEN KeyLess(SortKey(v), SortKey(w)) /\ GlobalRank(v) < GlobalRank(w)
          ELSE KeyLess(SortKey(v), SortKey(w)) <=> GlobalRank(v) < GlobalRank(w)

\* FloatChoice::simplest finds a valid float of the smallest rank whenever there is a valid
\* float, so the subtraction of to_index never underflows, and every valid float has an index
\* up to max_index that leads back to it. What replaces a replayed choice of another kind is valid.
IndexIsDense(c) ==
    Values(c) # {} =>
        \E s \in Simplest(c) \cap Values(c) : \A v \in Values(c) :
            /\ GlobalRank(s) <= GlobalRank(v)
            /\ ToIndex(s, v) <= MaxIndex
            /\ FromIndex(c, s, ToIndex(s, v)) = {v}
            /\ Validate(c, Unit(c, s))

\* A shrinker that walks down the indices of a float choice walks down the shrinker's order,
\* from any of its floats to the simplest one (float_index.rs, FloatChoice).
FloatsOrdered ==
    /\ LookedAt("float") => RankIsShrinkOrder(subject)
    /\ LookedAt("choice") => IndexIsDense(subject)

\* The days of the months before a date and its own, counted from 1970-01-01.
DayNumber(d) ==
    LET leaps(from, to) == Cardinality({y \in from..to : LeapYear(y)})
    IN  365 * (d[1] - 1970) + leaps(1970, d[1] - 1) - leaps(d[1], 1969)
        + Cardinality({md \in (1..d[2] - 1) \X (1..31) : md[2] <= DaysInMonth(d[1], md[1])})
        + d[3] - 1

\* What may be drawn between two bounds is every value between them in its type's own
\* order, and nothing when a bound is none of the values the generator supports.
DrawsBetween(r) ==
    MayDraw(r) = IF {r.lo, r.hi} \subseteq Supported[r.type]
                 THEN {v \in Supported[r.type] : UpTo(r.lo, v) /\ UpTo(v, r.hi)} ELSE {}

\* The day numbers the engine draws are those of the calendar and lead back to their dates; a
\* request for dates or times yields exactly the values between its bounds, on the first and
\* the last day of a span of days, at a leap second and below zero alike; a week drawn between
\* the default bounds has no day outside the dates there are (special.rs, extras/chrono/generators.rs).
CalendarKept ==
    /\ LookedAt("calendar") =>
          \A n \in 1..DaysInMonth(subject.year, subject.month) :
              LET d == <<subject.year, subject.month, n>>
              IN  DaysFromCivil(d) = DayNumber(d) /\ CivilFromDays(DayNumber(d)) = d
    /\ LookedAt("calendar") => UNION NaiveWeeks \subseteq MinDay..MaxDay
    /\ LookedAt("bounds") => DrawsBetween(subject)

\* What a generator draws lies between the bounds its caller asked for last, and may be any
\* value between them: of the floats whatever was cached before, of the dates, times and
\* durations wherever the bounds fall (numeric.rs FloatGenerator, special.rs, chrono).  Of weeks
\* it says that those between the default bounds are all in the calendar.
BoundsKept == RequestHonoured /\ CalendarKept
=============================================================================
