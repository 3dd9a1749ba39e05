----------------------------- MODULE RegexMatch -----------------------------
(* The checker the regex draws keep beside them (draws/regex.rs): character     *)
(* classes, anchors and match_seq, the matcher that decides whether a deferred  *)
(* look-around holds. It takes one way through a group or a repeated item and   *)
(* never comes back into it. Ways is the backtracking matcher of the pattern    *)
(* language, what a string that "matches the pattern" means: every way through  *)
(* the operations, best first, each with the groups it captured.                *)
(*                                                                             *)
(* A pattern is a sequence of operations, records tagged by "op"; a flag set    *)
(* holds "i" (ignore case), "m" (multiline), "s" (dot takes newlines) and "a"   *)
(* (ASCII).                                                                     *)
EXTENDS Integers, Sequences, SequencesExt, FiniteSetsExt, Functions

CONSTANTS
    Chars,       \* the codespace: characters stand for their codepoint's rank
    SwappedCase, \* [Chars -> Seq(Chars)]: a character's swapped case, <<>> when it has none
    WordChars, SpaceChars, DigitChars, AsciiChars, Newline, Rank

-----------------------------------------------------------------------------
(* Characters. *)

\* A swapped case of one character other than c; a longer one is no use.
CharSwapcase(c) ==
    IF Len(SwappedCase[c]) = 1 THEN {SwappedCase[c][1]} \ {c} ELSE {}

RECURSIVE Swapped(_)
Swapped(seen) ==
    LET next == seen \cup UNION {ToSet(SwappedCase[c]) : c \in seen}
    IN IF next = seen THEN seen ELSE Swapped(next)

SwapcaseBlacklist(c, flags) == IF "i" \in flags THEN Swapped({c}) ELSE {c}

CharsEq(a, b, flags) ==
    \/ a = b
    \/ "i" \in flags /\ (b \in CharSwapcase(a) \/ a \in CharSwapcase(b))

InCategory(c, cat) ==
    CASE cat = "d" -> c \in DigitChars [] cat = "D" -> c \notin DigitChars
      [] cat = "s" -> c \in SpaceChars [] cat = "S" -> c \notin SpaceChars
      [] cat = "w" -> c \in WordChars [] cat = "W" -> c \notin WordChars

Within(c, item) == Rank[item.lo] <= Rank[c] /\ Rank[c] <= Rank[item.hi]

CharMatchesSet(items, c, flags) ==
    LET negate == items # <<>> /\ items[1].item = "Negate"
        Holds(item) ==
            CASE item.item = "Negate" -> FALSE
              [] item.item = "Literal" -> CharsEq(c, item.c, flags)
              [] item.item = "Range" ->
                   \/ Within(c, item)
                   \/ "i" \in flags /\ \E sw \in CharSwapcase(c) : Within(sw, item)
              [] item.item = "Category" -> InCategory(c, item.cat)
    IN negate # \E i \in DOMAIN items : Holds(items[i])

IsWordBoundary(chars, pos) ==
    (pos > 0 /\ chars[pos] \in WordChars)
        # (pos < Len(chars) /\ chars[pos + 1] \in WordChars)

\* pos counts the characters before the anchor, so the next one is chars[pos + 1].
AtMatches(at, chars, pos, flags) ==
    CASE at = "BeginningString" -> pos = 0
      [] at = "Beginning" -> pos = 0 \/ ("m" \in flags /\ chars[pos] = Newline)
      [] at = "End" ->
           \/ pos = Len(chars)
           \/ chars[pos + 1] = Newline /\ ("m" \in flags \/ pos + 1 = Len(chars))
      [] at = "EndString" -> pos = Len(chars)
      [] at = "Boundary" -> IsWordBoundary(chars, pos)
      [] at = "NonBoundary" -> ~IsWordBoundary(chars, pos)

Inner(flags, op) == (flags \cup op.add) \ op.del

-----------------------------------------------------------------------------
(* match_seq: the end of the first match of ops from pos, as a set of at most   *)
(* one position.                                                                *)

RECURSIVE MatchSeq(_, _, _, _, _), GreedyEnds(_, _, _, _, _, _), LazyMatch(_, _, _, _, _, _, _)

FirstOf(n, Try(_)) ==  \* the first of Try(1) .. Try(n) that is not empty
    LET hits == {i \in 1..n : Try(i) # {}} IN IF hits = {} THEN {} ELSE Try(Min(hits))

MatchOne(op, pos, chars, flags) ==  \* does the character after pos match op?
    /\ pos < Len(chars)
    /\ LET got == chars[pos + 1]
       IN CASE op.op = "Literal" -> CharsEq(got, op.c, flags)
            [] op.op = "NotLiteral" -> ~CharsEq(got, op.c, flags)
            [] op.op = "Any" -> got # Newline \/ "s" \in flags
            [] op.op = "In" -> CharMatchesSet(op.items, got, flags)

MatchBranch(op, rest, pos, chars, flags, groups) ==
    FirstOf(Len(op.branches), LAMBDA i : MatchSeq(op.branches[i] \o rest, pos, chars, flags, groups))

MatchGroup(op, rest, pos, chars, flags, groups) ==
    LET inner == IF op.op = "Subpattern" THEN Inner(flags, op) ELSE flags
    IN UNION {MatchSeq(rest, end, chars, flags, groups) :
                 end \in MatchSeq(op.p, pos, chars, inner, groups)}

MatchGroupRef(op, rest, pos, chars, flags, groups) ==
    IF op.gid \notin DOMAIN groups THEN {}
    ELSE LET val == groups[op.gid]
         IN IF /\ pos + Len(val) <= Len(chars)
               /\ \A i \in DOMAIN val : CharsEq(chars[pos + i], val[i], flags)
            THEN MatchSeq(rest, pos + Len(val), chars, flags, groups) ELSE {}

MatchConditional(op, rest, pos, chars, flags, groups) ==
    MatchSeq((IF op.gid \in DOMAIN groups THEN op.yes ELSE op.no) \o rest, pos, chars, flags, groups)

\* The look-around's own direction is not looked at.
MatchAssert(op, rest, pos, chars, flags, groups) ==
    IF (op.op = "Assert") = (MatchSeq(op.p, pos, chars, flags, groups) # {})
    THEN MatchSeq(rest, pos, chars, flags, groups) ELSE {}

\* The positions after 0, 1, ... items, and whether the last try consumed nothing.
GreedyEnds(op, at, chars, flags, groups, n) ==
    LET next == MatchSeq(op.item, at[Len(at)], chars, flags, groups)
    IN IF n = op.max \/ next = {} THEN [at |-> at, empty |-> FALSE]
       ELSE IF \E e \in next : e > at[Len(at)]
            THEN GreedyEnds(op, Append(at, Min(next)), chars, flags, groups, n + 1)
            ELSE [at |-> at, empty |-> TRUE]

MatchMaxRepeat(op, rest, pos, chars, flags, groups) ==
    LET run == GreedyEnds(op, <<pos>>, chars, flags, groups, 0)
        min == IF run.empty THEN 0 ELSE op.min
        n == Len(run.at)
    IN FirstOf(n - min, LAMBDA i : MatchSeq(rest, run.at[n + 1 - i], chars, flags, groups))

LazyMatch(op, rest, cur, chars, flags, groups, n) ==
    LET next == MatchSeq(op.item, cur, chars, flags, groups)
        here == IF n >= op.min THEN MatchSeq(rest, cur, chars, flags, groups) ELSE {}
        moved == \E e \in next : e > cur
    IN IF here # {} THEN here
       ELSE IF next = {} \/ (n >= op.min /\ (n = op.max \/ ~moved)) THEN {}
       ELSE IF moved THEN LazyMatch(op, rest, Min(next), chars, flags, groups, n + 1)
       ELSE LazyMatch(op, rest, cur, chars, flags, groups, op.min)

MatchPossessive(op, rest, pos, chars, flags, groups) ==
    LET run == GreedyEnds(op, <<pos>>, chars, flags, groups, 0)
    IN IF Len(run.at) - 1 < op.min /\ ~run.empty THEN {}
       ELSE MatchSeq(rest, Last(run.at), chars, flags, groups)

CharOps == {"Literal", "NotLiteral", "Any", "In"}

MatchSeq(ops, pos, chars, flags, groups) ==
    IF ops = <<>> THEN {pos}
    ELSE LET op == Head(ops)
             rest == Tail(ops)
         IN CASE op.op \in CharOps ->
                   IF MatchOne(op, pos, chars, flags)
                   THEN MatchSeq(rest, pos + 1, chars, flags, groups) ELSE {}
              [] op.op = "At" ->
                   IF AtMatches(op.at, chars, pos, flags)
                   THEN MatchSeq(rest, pos, chars, flags, groups) ELSE {}
              [] op.op = "Branch" -> MatchBranch(op, rest, pos, chars, flags, groups)
              [] op.op \in {"Subpattern", "AtomicGroup"} ->
                   MatchGroup(op, rest, pos, chars, flags, groups)
              [] op.op = "GroupRef" -> MatchGroupRef(op, rest, pos, chars, flags, groups)
              [] op.op = "GroupRefExists" -> MatchConditional(op, rest, pos, chars, flags, groups)
              [] op.op \in {"Assert", "AssertNot"} -> MatchAssert(op, rest, pos, chars, flags, groups)
              [] op.op = "Failure" -> {}
              [] op.op = "MaxRepeat" -> MatchMaxRepeat(op, rest, pos, chars, flags, groups)
              [] op.op = "MinRepeat" -> LazyMatch(op, rest, pos, chars, flags, groups, 0)
              [] op.op = "PossessiveRepeat" -> MatchPossessive(op, rest, pos, chars, flags, groups)

-----------------------------------------------------------------------------
(* What matching means: every way through the operations, in the order a        *)
(* backtracking matcher tries them. A way is where it ends and what it captured. *)

RECURSIVE Ways(_, _, _, _), Rounds(_, _, _, _, _)

FlatMap(s, F(_)) == FlattenSeq([i \in DOMAIN s |-> F(s[i])])

\* Two characters are the same ignoring case when a chain of swaps leads from one to the other.
Alike(c, flags) == 
    {x \in Chars : x = c \/ ("i" \in flags /\ (x \in Swapped({c}) \/ c \in Swapped({x})))}

InClass(items, c, flags) ==
    LET Holds(item) ==
            CASE item.item = "Negate" -> FALSE
              [] item.item = "Literal" -> item.c \in Alike(c, flags)
              [] item.item = "Range" -> \E x \in Alike(c, flags) : Within(x, item)
              [] item.item = "Category" -> InCategory(c, item.cat)
    IN (items[1].item = "Negate") # \E i \in DOMAIN items : Holds(items[i])

Takes(op, c, flags) ==
    CASE op.op = "Literal" -> op.c \in Alike(c, flags)
      [] op.op = "NotLiteral" -> op.c \notin Alike(c, flags)
      [] op.op = "Any" -> c # Newline \/ "s" \in flags
      [] op.op = "In" -> InClass(op.items, c, flags)

\* Does the look-around's body match, ahead of pos or ending at it?
Around(op, w, chars, flags) ==
    IF op.direction >= 0 THEN Ways(op.p, w, chars, flags)
    ELSE FlatMap([s \in 1..(w.at + 1) |-> s - 1],
                 LAMBDA s : SelectSeq(Ways(op.p, [w EXCEPT !.at = s], chars, flags),
                                      LAMBDA v : v.at = w.at))

\* The ways through a repeat whose n items end at w, longest first ("MaxRepeat") or shortest.
Rounds(op, w, chars, flags, n) ==
    LET tries == IF n = op.max THEN <<>> ELSE Ways(op.item, w, chars, flags)
        more == FlatMap(tries, LAMBDA v :
                    IF v.at > w.at THEN Rounds(op, v, chars, flags, n + 1)
                    ELSE IF n < op.min THEN Rounds(op, v, chars, flags, op.min) ELSE <<>>)
        here == IF n >= op.min THEN <<w>> ELSE <<>>
    IN IF op.op = "MinRepeat" THEN here \o more ELSE more \o here

Ways(ops, w, chars, flags) ==
    IF ops = <<>> THEN <<w>>
    ELSE
    LET op == Head(ops)
        Then(v) == Ways(Tail(ops), v, chars, flags)
        pos == w.at
        OneStep ==
            CASE op.op \in CharOps ->
                   IF pos < Len(chars) /\ Takes(op, chars[pos + 1], flags)
                   THEN <<[w EXCEPT !.at = pos + 1]>> ELSE <<>>
              [] op.op = "At" -> IF AtMatches(op.at, chars, pos, flags) THEN <<w>> ELSE <<>>
              [] op.op = "Branch" ->
                   FlatMap(op.branches, LAMBDA b : Ways(b, w, chars, flags))
              [] op.op = "Subpattern" ->
                   FlatMap(Ways(op.p, w, chars, Inner(flags, op)), LAMBDA v :
                       <<IF op.gid = 0 THEN v
                         ELSE [v EXCEPT !.groups = [g \in DOMAIN v.groups \cup {op.gid} |->
                                 IF g = op.gid THEN SubSeq(chars, pos + 1, v.at) ELSE v.groups[g]]]>>)
              [] op.op = "AtomicGroup" -> LET vs == Ways(op.p, w, chars, flags)
                                          IN IF vs = <<>> THEN <<>> ELSE <<vs[1]>>
              [] op.op = "GroupRef" ->
                   IF op.gid \notin DOMAIN w.groups THEN <<>>
                   ELSE LET val == w.groups[op.gid]
                        IN IF /\ pos + Len(val) <= Len(chars)
                              /\ \A i \in DOMAIN val : val[i] \in Alike(chars[pos + i], flags)
                           THEN <<[w EXCEPT !.at = pos + Len(val)]>> ELSE <<>>
              [] op.op = "GroupRefExists" ->
                   Ways(IF op.gid \in DOMAIN w.groups THEN op.yes ELSE op.no, w, chars, flags)
              [] op.op = "Assert" -> LET vs == Around(op, w, chars, flags)
                                     IN IF vs = <<>> THEN <<>> ELSE <<[vs[1] EXCEPT !.at = pos]>>
              [] op.op = "AssertNot" -> IF Around(op, w, chars, flags) = <<>> THEN <<w>> ELSE <<>>
              [] op.op = "Failure" -> <<>>
              [] op.op \in {"MaxRepeat", "MinRepeat"} -> Rounds(op, w, chars, flags, 0)
              [] op.op = "PossessiveRepeat" -> LET vs == Rounds(op, w, chars, flags, 0)
                                               IN IF vs = <<>> THEN <<>> ELSE <<vs[1]>>
    IN FlatMap(OneStep, Then)

\* Is chars a match of ops: all of it, or from some position on?
Matches(ops, flags, chars, full) ==
    \E s \in (IF full THEN {0} ELSE 0..Len(chars)) :
        LET ways == Ways(ops, [at |-> s, groups |-> <<>>], chars, flags)
        IN \E i \in DOMAIN ways : full => ways[i].at = Len(chars)
=============================================================================
