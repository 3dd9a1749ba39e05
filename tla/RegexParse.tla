----------------------------- MODULE RegexParse -----------------------------
(* The pattern parser (re/parser.rs): from the text of a pattern to the         *)
(* operations RegexDraw walks. A text is a sequence of tokens, a character or   *)
(* an escape ("\\d"), which is how the tokenizer cuts it. The parser threads    *)
(* one state through its recursion: the place in the text, the flags, the       *)
(* groups opened and closed so far, and whether it is inside a look-behind.     *)
(* An error ends the parse; which one, and where it points, is left out, and a  *)
(* numeric escape is one token for the character it writes.                     *)
EXTENDS RegexMatch

CONSTANTS
    Letters, DigitOf,   \* what names are made of; [digit characters -> value]
    EscapedChar,        \* [escapes -> Chars]: "\\n" and the escaped punctuation
    CategoryOf,         \* [escapes -> categories]: "\\d" "\\D" "\\s" "\\S" "\\w" "\\W"
    PositionOf,         \* [escapes -> anchors]: "\\A" "\\b" "\\B" "\\Z"
    GroupDigit,         \* [escapes -> 1..9]: "\\1" ...
    MaxNesting

None == "none"
FlagChars == {"i", "L", "m", "s", "x", "a", "u"}
TypeFlags == {"a", "u", "L"}

-----------------------------------------------------------------------------
(* The state and its tokenizer. *)

NewState(text, given) ==
    [text |-> text, at |-> 1, bad |-> FALSE, flags |-> given,
     names |-> <<>>,      \* the group a name belongs to
     closed |-> <<>>,     \* closed[g]: has group g been closed?
     behind |-> 0,        \* the first group a look-behind being read may not refer to
     refs |-> {}]         \* groups conditionals mention by number

Fail(s) == [s EXCEPT !.bad = TRUE, !.at = Len(s.text) + 1]
Need(ok, s) == IF ok THEN s ELSE Fail(s)
Next_(s) == IF s.at > Len(s.text) THEN None ELSE s.text[s.at]
Advance(s) ==
    IF s.at > Len(s.text) THEN s
    ELSE IF s.at < Len(s.text) /\ s.text[s.at + 1] = "\\" THEN Fail(s)
    ELSE [s EXCEPT !.at = @ + 1]
TakeMatch(s, ch) == IF Next_(s) = ch THEN Advance(s) ELSE s
Must(s, ch) == IF Next_(s) = ch THEN Advance(s) ELSE Fail(s)

RECURSIVE GetUntil(_, _, _)
GetUntil(s, terminator, name) ==
    IF Next_(s) = None THEN [s |-> Fail(s), name |-> name]
    ELSE IF Next_(s) = terminator
         THEN [s |-> Need(name # <<>>, Advance(s)), name |-> name]
    ELSE GetUntil(Advance(s), terminator, Append(name, Next_(s)))

IsIdentifier(name) ==
    /\ name # <<>> /\ name[1] \in Letters
    /\ \A i \in DOMAIN name : name[i] \in Letters \cup DOMAIN DigitOf

RECURSIVE Digits(_, _, _)
\* up to n digits from here: the state after them, how many, and the number they write
Digits(s, n, got) ==
    IF n = 0 \/ Next_(s) \notin DOMAIN DigitOf THEN [s |-> s, got |-> got]
    ELSE Digits(Advance(s), n - 1,
                [n |-> got.n + 1, value |-> 10 * got.value + DigitOf[Next_(s)]])
Number(s) == Digits(s, Len(s.text), [n |-> 0, value |-> 0])

-----------------------------------------------------------------------------
(* Groups. *)

OpenGroup(s, name) ==
    LET gid == Len(s.closed) + 1
    IN IF name # <<>> /\ name \in DOMAIN s.names THEN Fail(s)
       ELSE [s EXCEPT !.closed = Append(@, FALSE),
                      !.names = IF name = <<>> THEN @
                                ELSE [n \in DOMAIN @ \cup {name} |-> IF n = name THEN gid ELSE @[n]]]

CloseGroup_(s, gid) == IF gid \in DOMAIN s.closed THEN [s EXCEPT !.closed[gid] = TRUE] ELSE s

CheckGroup(s, gid) == gid \in DOMAIN s.closed /\ s.closed[gid]

CheckLookbehindGroup(s, gid) ==
    Need(s.behind = 0 \/ (CheckGroup(s, gid) /\ gid < s.behind), s)

GroupReference(s, gid) ==
    Need(CheckGroup(s, gid), CheckLookbehindGroup(s, gid))

-----------------------------------------------------------------------------
(* Escapes and character classes. *)

\* An escape inside [...]: a character or a category, never an anchor or a group.
ClassEscape(s, esc) ==
    IF esc \in DOMAIN EscapedChar
    THEN [s |-> s, item |-> [item |-> "Literal", c |-> EscapedChar[esc]]]
    ELSE IF esc \in DOMAIN CategoryOf
    THEN [s |-> s, item |-> [item |-> "Category", cat |-> CategoryOf[esc]]]
    ELSE [s |-> Fail(s), item |-> None]

EscapeCode(s, esc) ==
    IF esc \in DOMAIN PositionOf
    THEN [s |-> s, p |-> <<[op |-> "At", at |-> PositionOf[esc]]>>]
    ELSE IF esc \in DOMAIN CategoryOf
    THEN [s |-> s, p |-> <<[op |-> "In", items |-> <<[item |-> "Category", cat |-> CategoryOf[esc]]>>]>>]
    ELSE IF esc \in DOMAIN EscapedChar
    THEN [s |-> s, p |-> <<[op |-> "Literal", c |-> EscapedChar[esc]]>>]
    ELSE IF esc \in DOMAIN GroupDigit
    THEN LET more == Digits(s, 1, [n |-> 0, value |-> GroupDigit[esc]])
         IN [s |-> GroupReference(more.s, more.got.value),
             p |-> <<[op |-> "GroupRef", gid |-> more.got.value]>>]
    ELSE [s |-> Fail(s), p |-> <<>>]

Escapes == DOMAIN EscapedChar \cup DOMAIN CategoryOf \cup DOMAIN PositionOf
           \cup DOMAIN GroupDigit \cup {"\\N", "\\q"}

UniqSet(items) ==
    FoldLeft(LAMBDA kept, x : IF x \in ToSet(kept) THEN kept ELSE Append(kept, x), <<>>, items)

ClassCode(s) ==  \* one member of a class, read from the token at hand
    IF Next_(s) \in Escapes THEN ClassEscape(Advance(s), Next_(s))
    ELSE [s |-> Advance(s), item |-> [item |-> "Literal", c |-> Next_(s)]]

RECURSIVE ClassItems(_, _)
ClassItems(s, set) ==
    LET lo == ClassCode(s)
        hi == ClassCode(Advance(lo.s))
        IsRange == /\ lo.item.item = "Literal" /\ hi.item.item = "Literal"
                   /\ Rank[lo.item.c] <= Rank[hi.item.c]
    IN IF Next_(s) = None THEN [s |-> Fail(s), set |-> set]
       ELSE IF Next_(s) = "]" /\ set # <<>> THEN [s |-> Advance(s), set |-> set]
       ELSE IF lo.s.bad THEN [s |-> lo.s, set |-> set]
       ELSE IF Next_(lo.s) # "-" THEN ClassItems(lo.s, Append(set, lo.item))
       ELSE IF Next_(Advance(lo.s)) = "]"
            THEN [s |-> Advance(Advance(lo.s)), set |-> set \o <<lo.item, [item |-> "Literal", c |-> "-"]>>]
       ELSE IF Next_(Advance(lo.s)) = None \/ hi.s.bad \/ ~IsRange THEN [s |-> Fail(s), set |-> set]
       ELSE ClassItems(hi.s, Append(set, [item |-> "Range", lo |-> lo.item.c, hi |-> hi.item.c]))

ClassOp(negate, set) ==
    IF Len(set) = 1 /\ set[1].item = "Literal"
    THEN [op |-> IF negate THEN "NotLiteral" ELSE "Literal", c |-> set[1].c]
    ELSE [op |-> "In", items |-> IF negate THEN <<[item |-> "Negate"]>> \o set ELSE set]
CharClass(s) ==
    LET As(read) == [s |-> read.s, p |-> <<ClassOp(Next_(s) = "^", UniqSet(read.set))>>]
    IN As(ClassItems(TakeMatch(s, "^"), <<>>))

-----------------------------------------------------------------------------
(* Repeats. *)

\* {lo,hi} after its brace; ok is FALSE when the braces stand for themselves.
Braces(s) ==
    LET Closed(lo, hi) ==   \* hi is where the upper bound was read, or lo when there is no comma
            LET max == IF hi.got.n = 0 THEN -1 ELSE hi.got.value
            IN [ok |-> Next_(s) # "}" /\ Next_(hi.s) = "}",
                s |-> Need(max = -1 \/ lo.got.value <= max, Advance(hi.s)),
                min |-> lo.got.value, max |-> max]
        From(lo) == Closed(lo, IF Next_(lo.s) = "," THEN Number(Advance(lo.s)) ELSE lo)
    IN From(Number(s))

Bounds(tok, s) ==
    CASE tok = "?" -> [ok |-> TRUE, s |-> s, min |-> 0, max |-> 1]
      [] tok = "*" -> [ok |-> TRUE, s |-> s, min |-> 0, max |-> -1]
      [] tok = "+" -> [ok |-> TRUE, s |-> s, min |-> 1, max |-> -1]
      [] tok = "{" -> Braces(s)

Repeats == {"MaxRepeat", "MinRepeat", "PossessiveRepeat"}
IsPlainGroup(op) == op.op = "Subpattern" /\ op.gid = 0 /\ op.add = {} /\ op.del = {}

\* A repeat takes the operation before it, which is no anchor and no repeat.
RepeatKind(s) ==
    IF Next_(s) = "?" THEN "MinRepeat" ELSE IF Next_(s) = "+" THEN "PossessiveRepeat" ELSE "MaxRepeat"
RepeatOf(last, b, kind) ==
    [op |-> kind, min |-> b.min, max |-> b.max, item |-> IF IsPlainGroup(last) THEN last.p ELSE <<last>>]
ParseRepeat(tok, s, sub) ==
    LET Bounded(b) ==
            IF ~b.ok THEN [s |-> s, p |-> Append(sub, [op |-> "Literal", c |-> "{"])]
            ELSE IF sub = <<>> \/ b.s.bad \/ Last(sub).op \in Repeats \cup {"At"}
            THEN [s |-> Fail(s), p |-> sub]
            ELSE [s |-> IF RepeatKind(b.s) = "MaxRepeat" THEN b.s ELSE Advance(b.s),
                  p |-> Append(Front(sub), RepeatOf(Last(sub), b, RepeatKind(b.s)))]
    IN Bounded(Bounds(tok, s))

-----------------------------------------------------------------------------
(* Alternatives: what they share in front is read once, and single characters   *)
(* become a class.                                                              *)

Shared(items) ==
    LET n == Min({Len(items[i]) : i \in DOMAIN items})
        Agree(k) == \A i \in DOMAIN items : SubSeq(items[i], 1, k) = SubSeq(items[1], 1, k)
    IN Max({k \in 0..n : Agree(k)})

Factored(items) ==
    LET k == Shared(items)
        rest == [i \in DOMAIN items |-> SubSeq(items[i], k + 1, Len(items[i]))]
        Single(p) == /\ Len(p) = 1
                     /\ \/ p[1].op = "Literal"
                        \/ p[1].op = "In" /\ p[1].items[1].item # "Negate"
        AsItems(p) == IF p[1].op = "In" THEN p[1].items ELSE <<[item |-> "Literal", c |-> p[1].c]>>
    IN SubSeq(items[1], 1, k)
         \o (IF \A i \in DOMAIN rest : Single(rest[i])
             THEN <<[op |-> "In", items |-> UniqSet(FlattenSeq([i \in DOMAIN rest |-> AsItems(rest[i])]))]>>
             ELSE <<[op |-> "Branch", branches |-> rest]>>)

\* The plain groups of a finished sequence are spliced into it.
Spliced(p) == FlattenSeq([i \in DOMAIN p |-> IF IsPlainGroup(p[i]) THEN p[i].p ELSE <<p[i]>>])

-----------------------------------------------------------------------------
(* Flags: (?im), (?i:...), (?i-m:...). *)

RECURSIVE FlagsOn(_, _), FlagsOff(_, _)
FlagsOn(s, on) ==  \* s is before a flag
    LET f == Next_(s)
        next == Next_(Advance(s))
        all == on \cup {f}
        ok == /\ f # "L" /\ next # None
              /\ f \in TypeFlags => all \cap TypeFlags = {f}
    IN IF f \notin FlagChars \/ ~ok THEN [s |-> Fail(s), on |-> on]
       ELSE IF next \in {")", "-", ":"} THEN [s |-> Advance(s), on |-> all]
       ELSE FlagsOn(Advance(s), all)
FlagsOff(s, off) ==
    LET f == Next_(s)
    IN IF f \notin FlagChars \ TypeFlags THEN [s |-> Fail(s), off |-> off]
       ELSE IF Next_(Advance(s)) = ":" THEN [s |-> Advance(s), off |-> off \cup {f}]
       ELSE FlagsOff(Advance(s), off \cup {f})

ParseFlags(s) ==
    LET Read(on, off) ==
            IF Next_(on.s) = ")"
            THEN [global |-> TRUE, s |-> [Advance(on.s) EXCEPT !.flags = @ \cup on.on], add |-> {}, del |-> {}]
            ELSE [global |-> FALSE, s |-> Need(on.on \cap off.off = {}, Advance(off.s)),
                  add |-> on.on, del |-> off.off]
        After(on) == Read(on, IF Next_(on.s) = "-" THEN FlagsOff(Advance(on.s), {}) ELSE [s |-> on.s, off |-> {}])
    IN After(IF Next_(s) = "-" THEN [s |-> s, on |-> {}] ELSE FlagsOn(s, {}))

-----------------------------------------------------------------------------
(* The recursion. *)

RECURSIVE ParseSub(_, _, _), Alternatives(_, _, _, _), Sequence(_, _, _, _, _),
          SkipPast(_, _)

SkipPast(s, tok) ==  \* a comment
    IF Next_(s) \in {None, tok} THEN s ELSE SkipPast(Advance(s), tok)

Alternatives(s, items, verbose, nested) ==
    LET After(r) ==
            IF Next_(r.s) = "|"
            THEN Alternatives(Advance(r.s), Append(items, r.p),
                              IF nested = 0 THEN "x" \in r.s.flags ELSE verbose, nested)
            ELSE [s |-> r.s, items |-> Append(items, r.p)]
    IN After(Sequence(Need(nested < MaxNesting, s), <<>>, verbose, nested + 1,
                      nested = 0 /\ items = <<>>))

ParseSub(s, verbose, nested) ==
    LET Joined(r) == [s |-> r.s, p |-> IF Len(r.items) = 1 THEN r.items[1] ELSE Factored(r.items)]
    IN Joined(Alternatives(s, <<>>, verbose, nested))

\* (?=...) (?!...) (?<=...) (?<!...): s is after the "=", "!" or "<"
LookAround(s, mark, verbose, nested) ==
    LET back == mark = "<"
        kind == IF back THEN Next_(s) ELSE mark
        from == IF back THEN Advance(s) ELSE s
        inside == IF back /\ from.behind = 0 THEN [from EXCEPT !.behind = Len(from.closed) + 1] ELSE from
        dir == IF back THEN -1 ELSE 1
        Around_(r) ==
            [s |-> Need(kind \in {"=", "!"}, [Must(r.s, ")") EXCEPT !.behind = s.behind]),
             p |-> IF kind = "=" THEN <<[op |-> "Assert", direction |-> dir, p |-> r.p]>>
                   ELSE IF r.p = <<>> THEN <<[op |-> "Failure"]>>
                   ELSE <<[op |-> "AssertNot", direction |-> dir, p |-> r.p]>>]
    IN Around_(ParseSub(inside, verbose, nested + 1))

\* (?(group)yes|no): s is after the second parenthesis
Conditional(s, verbose, nested) ==
    LET ByNumber(name) == \A i \in DOMAIN name : name[i] \in DOMAIN DigitOf
        Gid(cond) == IF ByNumber(cond.name) THEN Number(s).got.value
                     ELSE IF cond.name \in DOMAIN cond.s.names THEN cond.s.names[cond.name] ELSE 0
        Known(cond, gid) == IF ByNumber(cond.name) THEN [cond.s EXCEPT !.refs = @ \cup {gid}]
                            ELSE Need(IsIdentifier(cond.name), cond.s)
        Branch(u) == Sequence(u, <<>>, verbose, nested + 1, FALSE)
        Both(gid, yes, no) ==
            [s |-> Must(no.s, ")"),
             p |-> <<[op |-> "GroupRefExists", gid |-> gid, yes |-> yes.p, no |-> no.p]>>]
        After(gid, yes) == Both(gid, yes, IF Next_(yes.s) = "|" THEN Branch(Advance(yes.s))
                                          ELSE [s |-> yes.s, p |-> <<>>])
        On(cond, gid) ==
            After(gid, Branch(CheckLookbehindGroup(
                                  Need(gid # 0 /\ nested < MaxNesting, Known(cond, gid)), gid)))
        Of(cond) == On(cond, Gid(cond))
    IN Of(GetUntil(s, ")", <<>>))

\* (?P=name): s is after the "="
NamedReference(s) ==
    LET r == GetUntil(s, ")", <<>>)
        known == IsIdentifier(r.name) /\ r.name \in DOMAIN r.s.names
        gid == IF known THEN r.s.names[r.name] ELSE 0
    IN [s |-> Need(known, GroupReference(r.s, gid)), p |-> <<[op |-> "GroupRef", gid |-> gid]>>]

\* The body of a group and its parenthesis.
GroupBody(s, capture, name, atomic, add, del, verbose, nested) ==
    LET open == IF capture THEN OpenGroup(s, name) ELSE s
        gid == IF capture THEN Len(open.closed) ELSE 0
        Closed(r) ==
            [s |-> CloseGroup_(Must(r.s, ")"), gid),
             p |-> IF atomic THEN <<[op |-> "AtomicGroup", p |-> r.p]>>
                   ELSE <<[op |-> "Subpattern", gid |-> gid, add |-> add, del |-> del, p |-> r.p]>>]
    IN Closed(ParseSub(open, (verbose \/ "x" \in add) /\ "x" \notin del, nested + 1))

\* What stands after "(" (s is after it): its state, its operations, the verbosity after it.
Parenthesis(s, sub, verbose, nested, first) ==
    LET ext == Next_(s) = "?"
        q == Advance(s)
        ch == Next_(q)
        t == Advance(q)
        As(r) == [s |-> r.s, p |-> sub \o r.p, verbose |-> verbose]
        Group(u, capture, name, atomic, add, del) ==
            As(GroupBody(u, capture, name, atomic, add, del, verbose, nested))
        Named(r) == Group(Need(IsIdentifier(r.name), r.s), TRUE, r.name, FALSE, {}, {})
        Flagged(flags) ==
            IF flags.global
            THEN [s |-> Need(first /\ sub = <<>>, flags.s), p |-> sub, verbose |-> "x" \in flags.s.flags]
            ELSE Group(flags.s, FALSE, <<>>, FALSE, flags.add, flags.del)
    IN CASE ~ext -> Group(s, TRUE, <<>>, FALSE, {}, {})
         [] ext /\ ch = "P" /\ Next_(t) = "<" -> Named(GetUntil(Advance(t), ">", <<>>))
         [] ext /\ ch = "P" /\ Next_(t) = "=" -> As(NamedReference(Advance(t)))
         [] ext /\ ch \in {":", ">"} -> Group(t, FALSE, <<>>, ch = ">", {}, {})
         [] ext /\ ch = "#" -> As([s |-> Must(SkipPast(t, ")"), ")"), p |-> <<>>])
         [] ext /\ ch \in {"=", "!", "<"} -> As(LookAround(t, ch, verbose, nested))
         [] ext /\ ch = "(" -> As(Conditional(t, verbose, nested))
         [] ext /\ ch \in FlagChars \cup {"-"} -> Flagged(ParseFlags(q))
         [] OTHER -> As([s |-> Fail(s), p |-> <<>>])

\* One sequence of operations, up to "|", ")" or the end.
Sequence(s, sub, verbose, nested, first) ==
    LET tok == Next_(s)
        t == Advance(s)
        On(u, p) == Sequence(u, p, verbose, nested, first)
        Step(r) == On(r.s, sub \o r.p)
        Instead(r) == On(r.s, r.p)
        Past(r) == Sequence(r.s, r.p, r.verbose, nested, first)
    IN CASE tok \in {None, "|", ")"} -> [s |-> s, p |-> Spliced(sub)]
         [] verbose /\ tok \in SpaceChars -> On(t, sub)
         [] verbose /\ tok = "#" -> On(TakeMatch(SkipPast(t, Newline), Newline), sub)
         [] tok \in Escapes -> Step(EscapeCode(t, tok))
         [] tok = "[" -> Step(CharClass(t))
         [] tok \in {"*", "+", "?", "{"} -> Instead(ParseRepeat(tok, t, sub))
         [] tok = "." -> On(t, Append(sub, [op |-> "Any"]))
         [] tok = "(" -> Past(Parenthesis(t, sub, verbose, nested, first))
         [] tok = "^" -> On(t, Append(sub, [op |-> "At", at |-> "Beginning"]))
         [] tok = "$" -> On(t, Append(sub, [op |-> "At", at |-> "End"]))
         [] OTHER -> On(t, Append(sub, [op |-> "Literal", c |-> tok]))

FixFlags(flags) == IF "a" \in flags THEN flags ELSE flags \cup {"u"}

\* The pattern of a text; ok is FALSE when it is refused.
ParsePattern(text, given) ==
    LET start == Need(text = <<>> \/ text[1] # "\\", NewState(text, given))
        Parsed(r, flags) ==
            [ok |-> /\ ~r.s.bad /\ Next_(r.s) = None
                    /\ "L" \notin flags /\ ~({"a", "u"} \subseteq flags)
                    /\ \A gid \in r.s.refs : gid \in DOMAIN r.s.closed,
             pattern |-> r.p, flags |-> flags, groups |-> Len(r.s.closed)]
        Fixed(r) == Parsed(r, FixFlags(r.s.flags))
    IN Fixed(ParseSub(start, "x" \in given, 0))

-----------------------------------------------------------------------------
(* What a parsed pattern may refer to.                                          *)

RECURSIVE GroupsIn(_), Scoped(_, _, _, _)
Bodies(op) ==  \* the sequences inside an operation, in the order of the text
    CASE op.op = "Branch" -> op.branches
      [] op.op = "GroupRefExists" -> <<op.yes, op.no>>
      [] op.op \in Repeats -> <<op.item>>
      [] op.op \in {"Subpattern", "AtomicGroup", "Assert", "AssertNot"} -> <<op.p>>
      [] OTHER -> <<>>
GroupsIn(ops) ==
    UNION {(IF ops[i].op = "Subpattern" THEN {ops[i].gid} \ {0} ELSE {})
             \cup UNION {GroupsIn(Bodies(ops[i])[j]) : j \in DOMAIN Bodies(ops[i])} : i \in DOMAIN ops}

\* Back references reach groups already closed (before: those closed before ops), and inside a
\* look-behind only groups closed before it; no plain group and no repeated anchor is left.
Scoped(ops, before, behind, all) ==
    \A i \in DOMAIN ops :
        LET op == ops[i]
            closed == before \cup GroupsIn(SubSeq(ops, 1, i - 1))
            inside == IF op.op \in {"Assert", "AssertNot"} /\ op.direction < 0 THEN behind \cup {closed}
                      ELSE behind
        IN /\ op.op = "GroupRef" => \A known \in behind \cup {closed} : op.gid \in known
           /\ op.op = "GroupRefExists" => /\ op.gid \in all
                                          /\ \A known \in behind : op.gid \in known
           /\ ~IsPlainGroup(op)
           /\ op.op \in Repeats => op.max = -1 \/ op.min <= op.max
           /\ \A j \in DOMAIN Bodies(op) :
                 Scoped(Bodies(op)[j], closed \cup UNION {GroupsIn(Bodies(op)[k]) : k \in 1..(j - 1)},
                        inside, all)
=============================================================================
