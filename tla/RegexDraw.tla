----------------------------- MODULE RegexDraw ------------------------------
(* Drawing a string that matches a pattern (draws/regex.rs): a walk over the    *)
(* operations that emits characters as it goes, puts off what it cannot decide  *)
(* yet (anchors, look-arounds), and checks those against the finished string.   *)
(* A candidate that fails its checks is drawn again inside the same test case,  *)
(* a few times, and then the case is rejected.                                  *)
(*                                                                             *)
(* `todo` is what the recursion of generate_op still has to do: operations,     *)
(* [op |-> "Close"] where a group ends, [op |-> "More"] where a repeat decides. *)
(* Bounds: MaxPad for the ten characters of padding, MaxRounds for the rounds   *)
(* of an unbounded repeat, MaxAttempts for the five attempts.                   *)
EXTENDS RegexParse

CONSTANTS
    Draws,      \* draws: [text, given, full, alphabet, drawn, means]: the text of a pattern and its
                \* flags, the caller's alphabet ({} for none), whether a string is drawn or the
                \* pattern only compiled, and the set of patterns the text may mean
    Printable,  \* the characters padding is made of when there is no alphabet
    MaxPad, MaxRounds, MaxAttempts

VARIABLES draw, re, phase, todo, out, groups, flags, anchors, asserts, lookaheads, whole, attempt
vars == <<draw, re, phase, todo, out, groups, flags, anchors, asserts, lookaheads, whole, attempt>>
fixed == <<draw, re, attempt>>
pending == <<anchors, asserts, lookaheads>>

-----------------------------------------------------------------------------
(* The characters an operation may emit. *)

NoAlphabet == draw.alphabet = {}
AlphabetAllows(c) == NoAlphabet \/ c \in draw.alphabet
GatherChars(Keep(_)) == {c \in (IF NoAlphabet THEN Chars ELSE draw.alphabet) : Keep(c)}

LiteralPicks(op) ==
    {op.c} \cup (IF "i" \in flags THEN CharSwapcase(op.c) ELSE {})

NotLiteralChars(op) == GatherChars(LAMBDA c : c \notin SwapcaseBlacklist(op.c, flags))

AnyChars == GatherChars(LAMBDA c : c # Newline \/ "s" \in flags)

WithSwapcase(c) == {c} \cup (IF "i" \in flags THEN CharSwapcase(c) ELSE {})

BuildInSet(items) ==
    LET kept(kind) == {items[i] : i \in {j \in DOMAIN items : items[j].item = kind}}
        negate == items[1].item = "Negate"
        positive == UNION {WithSwapcase(c) :
                        c \in {x.c : x \in kept("Literal")}
                              \cup {c \in Chars : \E r \in kept("Range") : Within(c, r)}}
        InSomeCategory(c) == \E x \in kept("Category") : InCategory(c, x.cat)
        Ascii(c) == "a" \in flags => c \in AsciiChars
    IN IF ~negate
       THEN {c \in positive : Ascii(c) /\ AlphabetAllows(c)}
            \cup GatherChars(LAMBDA c : Ascii(c) /\ InSomeCategory(c))
       ELSE LET blocked == UNION {SwapcaseBlacklist(c, flags) : c \in positive}
            IN GatherChars(LAMBDA c : Ascii(c) /\ c \notin blocked /\ ~InSomeCategory(c))

DrawAnyChar == IF NoAlphabet THEN Printable ELSE draw.alphabet

Pads == UNION {[1..n -> DrawAnyChar] : n \in 0..MaxPad}

-----------------------------------------------------------------------------
(* What the ends of the pattern say about the padding. *)

\* The operation at one end, looking through groups.
RECURSIVE EffectiveFirst(_), EffectiveLast(_)
EffectiveFirst(ops) ==
    IF ops = <<>> THEN {}
    ELSE IF Head(ops).op \in {"Subpattern", "AtomicGroup"} THEN EffectiveFirst(Head(ops).p)
    ELSE {Head(ops)}
EffectiveLast(ops) ==
    IF ops = <<>> THEN {}
    ELSE IF Last(ops).op \in {"Subpattern", "AtomicGroup"} THEN EffectiveLast(Last(ops).p)
    ELSE {Last(ops)}

AnchorsOf(ops) == {e.at : e \in {x \in ops : x.op = "At"}}

Prefix ==
    LET at == AnchorsOf(EffectiveFirst(re.pattern))
        Multiline == "m" \in re.flags /\ AlphabetAllows(Newline)
    IN IF "BeginningString" \in at THEN {<<>>}
       ELSE IF "Beginning" \in at
            THEN IF Multiline THEN {IF p = <<>> THEN p ELSE Append(p, Newline) : p \in Pads}
                 ELSE {<<>>}
       ELSE Pads

Suffix ==
    LET at == AnchorsOf(EffectiveLast(re.pattern))
    IN IF "EndString" \in at THEN {<<>>}
       ELSE IF "End" \in at
            THEN IF ~AlphabetAllows(Newline) THEN {<<>>}
                 ELSE {<<>>} \cup {<<Newline>> \o p :
                                     p \in IF "m" \in re.flags THEN Pads ELSE {<<>>}}
       ELSE Pads

-----------------------------------------------------------------------------
(* The walk. *)

StartAttempt(n, ops, given) ==
    /\ attempt' = n
    /\ phase' = IF draw.full THEN "ops" ELSE "prefix"
    /\ todo' = ops /\ flags' = given
    /\ out' = <<>> /\ groups' = <<>> /\ whole' = FALSE
    /\ anchors' = {} /\ asserts' = {} /\ lookaheads' = {}

InitOf(draws) ==
    /\ draw \in draws
    /\ re = [ok |-> FALSE, pattern |-> <<>>, flags |-> {}, groups |-> 0]
    /\ attempt = 0 /\ phase = "text"
    /\ todo = <<>> /\ flags = {}
    /\ out = <<>> /\ groups = <<>> /\ whole = FALSE
    /\ anchors = {} /\ asserts = {} /\ lookaheads = {}
Init == InitOf(Draws)

Compile ==
    /\ phase = "text"
    /\ re' = ParsePattern(draw.text, draw.given)
    /\ IF re'.ok /\ draw.drawn
       THEN StartAttempt(1, re'.pattern, re'.flags)
       ELSE /\ phase' = IF re'.ok THEN "compiled" ELSE "refused"
            /\ UNCHANGED <<attempt, todo, out, groups, flags, pending, whole>>
    /\ UNCHANGED draw

Reject == phase' = "invalid" /\ UNCHANGED <<fixed, todo, out, groups, flags, pending, whole>>

DrawPrefix ==
    /\ phase = "prefix"
    /\ out' \in IF re.pattern = <<>> THEN Pads ELSE Prefix
    /\ phase' = IF re.pattern = <<>> THEN "returned" ELSE "ops"
    /\ UNCHANGED <<fixed, todo, groups, flags, pending, whole>>

Op(kinds) == phase = "ops" /\ todo # <<>> /\ todo[1].op \in kinds
Done(more) == todo' = more \o Tail(todo) /\ UNCHANGED <<fixed, phase>>

Emit(chosen) ==
    /\ Done(<<>>)
    /\ out' = out \o chosen
    /\ UNCHANGED <<groups, flags, pending, whole>>

Literal ==
    /\ Op({"Literal"})
    /\ \E c \in LiteralPicks(todo[1]) : IF AlphabetAllows(c) THEN Emit(<<c>>) ELSE Reject

EmitFrom(chars) == IF chars = {} THEN Reject ELSE \E c \in chars : Emit(<<c>>)
NotLiteral == Op({"NotLiteral"}) /\ EmitFrom(NotLiteralChars(todo[1]))
AnyChar == Op({"Any"}) /\ EmitFrom(AnyChars)
InSet == Op({"In"}) /\ EmitFrom(BuildInSet(todo[1].items))

\* A start anchor is decided now, any other when the string is finished.
Anchor ==
    /\ Op({"At"})
    /\ LET at == todo[1].at
           atStart == out = <<>>
           atLine == atStart \/ ("m" \in flags /\ Last(out) = Newline)
       IN CASE at = "BeginningString" /\ ~atStart -> Reject
            [] at = "Beginning" /\ ~atLine -> Reject
            [] OTHER ->
                 /\ anchors' = IF at \in {"BeginningString", "Beginning"} THEN anchors
                               ELSE anchors \cup {[at |-> at, pos |-> Len(out), flags |-> flags]}
                 /\ Done(<<>>)
                 /\ UNCHANGED <<out, groups, flags, asserts, lookaheads, whole>>

Expand(more) == Done(more) /\ UNCHANGED <<out, groups, pending>>

Branch ==
    /\ Op({"Branch"})
    /\ \E i \in DOMAIN todo[1].branches : Expand(todo[1].branches[i])
    /\ UNCHANGED <<flags, whole>>

Subpattern ==
    /\ Op({"Subpattern"})
    /\ flags' = Inner(flags, todo[1])
    /\ Expand(Append(todo[1].p, [op |-> "Close", gid |-> todo[1].gid, from |-> Len(out), flags |-> flags]))
    /\ UNCHANGED whole

CloseGroup ==
    /\ Op({"Close"})
    /\ flags' = todo[1].flags
    /\ LET gid == todo[1].gid
           text == SubSeq(out, todo[1].from + 1, Len(out))
       IN groups' = IF gid = 0 THEN groups
                    ELSE [g \in DOMAIN groups \cup {gid} |-> IF g = gid THEN text ELSE groups[g]]
    /\ Done(<<>>)
    /\ UNCHANGED <<out, pending, whole>>

GroupRef ==
    /\ Op({"GroupRef"})
    /\ IF todo[1].gid \in DOMAIN groups THEN Emit(groups[todo[1].gid]) ELSE Reject

GroupRefExists ==
    /\ Op({"GroupRefExists"})
    /\ Expand(IF todo[1].gid \in DOMAIN groups THEN todo[1].yes ELSE todo[1].no)
    /\ UNCHANGED <<flags, whole>>

PendingAssert ==
    [op |-> todo[1], pos |-> Len(out), flags |-> flags, groups |-> groups]

PositiveLook ==
    /\ Op({"Assert"})
    /\ IF draw.full
       THEN /\ asserts' = asserts \cup {PendingAssert}
            /\ Done(<<>>)
            /\ UNCHANGED <<out, groups, anchors, lookaheads>>
       ELSE Expand(todo[1].p)
    /\ UNCHANGED <<flags, whole>>

NegativeLook ==
    /\ Op({"AssertNot"})
    /\ IF todo[1].direction < 0
       THEN IF \E start \in 0..Len(out) :
                   MatchSeq(todo[1].p, start, out, flags, groups) = {Len(out)}
            THEN Reject
            ELSE Emit(<<>>)
       ELSE /\ lookaheads' = lookaheads \cup {PendingAssert}
            /\ Done(<<>>)
            /\ UNCHANGED <<out, groups, flags, anchors, asserts, whole>>

Failure == Op({"Failure"}) /\ Reject

AtomicGroup ==
    /\ Op({"AtomicGroup"})
    /\ whole' = TRUE
    /\ Expand(todo[1].p)
    /\ UNCHANGED flags

Repeat ==
    /\ Op({"MaxRepeat", "MinRepeat", "PossessiveRepeat"})
    /\ whole' = (whole \/ todo[1].op = "PossessiveRepeat")
    /\ Expand(<<[op |-> "More", rep |-> todo[1], n |-> 0]>>)
    /\ UNCHANGED flags

More ==
    /\ Op({"More"})
    /\ LET rep == todo[1].rep
           n == todo[1].n
           last == IF rep.max = -1 THEN rep.min + MaxRounds ELSE rep.max
       IN \/ n < last /\ Expand(Append(rep.item, [todo[1] EXCEPT !.n = n + 1]))
          \/ n >= rep.min /\ Expand(<<>>)
    /\ UNCHANGED <<flags, whole>>

DrawSuffix ==
    /\ phase = "ops" /\ todo = <<>>
    /\ \E s \in (IF draw.full THEN {<<>>} ELSE Suffix) : out' = out \o s
    /\ phase' = "check"
    /\ UNCHANGED <<fixed, todo, groups, flags, pending, whole>>

-----------------------------------------------------------------------------
(* The deferred checks. *)

AnchorsHold == \A a \in anchors : AtMatches(a.at, out, a.pos, a.flags)

AssertsHold ==
    \A a \in asserts :
        IF a.op.direction >= 0 THEN MatchSeq(a.op.p, a.pos, out, a.flags, a.groups) # {}
        ELSE \E start \in 0..a.pos : MatchSeq(a.op.p, start, out, a.flags, a.groups) = {a.pos}

LookaheadsHold ==
    \A a \in lookaheads : MatchSeq(a.op.p, a.pos, out, a.flags, a.groups) = {}

WholeMatch ==
    IF draw.full
    THEN MatchSeq(Append(re.pattern, [op |-> "At", at |-> "EndString"]), 0, out, re.flags, groups) # {}
    ELSE \E start \in 0..Len(out) : MatchSeq(re.pattern, start, out, re.flags, groups) # {}

\* Mutant: possessive repeats and atomic groups are not validated again.
FinalChecksLocal == AnchorsHold /\ AssertsHold /\ LookaheadsHold

FinalChecks == AnchorsHold /\ AssertsHold /\ LookaheadsHold /\ (whole => WholeMatch)

Check ==
    /\ phase = "check"
    /\ CASE FinalChecks ->
              /\ phase' = "returned"
              /\ UNCHANGED <<fixed, todo, out, groups, flags, pending, whole>>
         [] ~FinalChecks /\ attempt < MaxAttempts -> StartAttempt(attempt + 1, re.pattern, re.flags) /\ UNCHANGED <<draw, re>>
         [] OTHER -> Reject

Next ==
    \/ Compile \/ DrawPrefix \/ Literal \/ NotLiteral \/ AnyChar \/ InSet \/ Anchor
    \/ Branch \/ Subpattern \/ CloseGroup \/ GroupRef \/ GroupRefExists
    \/ PositiveLook \/ NegativeLook \/ Failure \/ AtomicGroup \/ Repeat \/ More
    \/ DrawSuffix \/ Check

Spec == Init /\ [][Next]_vars

-----------------------------------------------------------------------------
(* Properties. *)

\* The back references of a compiled pattern reach only groups closed before them, as checkgroup
\* and checklookbehindgroup have it (parser.rs:214-229): generation reads groups[gid] on that
\* promise.
ReferencesScoped ==
    phase \notin {"text", "refused"} => Scoped(re.pattern, {}, {}, GroupsIn(re.pattern))

\* A text that means a pattern is not refused, one that is compiled refers to closed groups only,
\* and a string handed back is one the text means (all of it under fullmatch, somewhere in it
\* otherwise), made of the caller's alphabet: "Draw a string matching `re`" (regex.rs:69).
DrawnMatches ==
    /\ phase = "refused" => draw.means = {}
    /\ ReferencesScoped
    /\ phase = "returned" =>
         /\ \A i \in DOMAIN out : AlphabetAllows(out[i])
         /\ \E p \in draw.means : Matches(p.ops, p.flags, out, draw.full)
=============================================================================
