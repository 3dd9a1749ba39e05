----------------------------- MODULE DebugRepr ------------------------------
(* print_debug_repr (pretty.rs): a value's Debug text is parsed back into       *)
(* groups, so that it wraps like a value that prints itself. Text outside the   *)
(* grammar of derived Debug, or nested too deep, is printed as it stands.       *)
(* A text is a sequence of characters; a parse from position `at` gives the     *)
(* position after it, or ok = FALSE, and the nodes.                             *)
EXTENDS Integers, Sequences, SequencesExt, FiniteSetsExt

CONSTANT MaxDebugDepth

Quotes == {"\"", "'"}
Opening == {"[", "(", "{"}
CloseOf == [d \in Opening |-> CASE d = "[" -> "]" [] d = "(" -> ")" [] d = "{" -> "}"]

Leaf(text) == IF text = <<>> THEN <<>> ELSE <<[leaf |-> TRUE, text |-> text]>>
NoParse == [ok |-> FALSE, at |-> 0, nodes |-> <<>>, items |-> <<>>]

Peek(t, at) == IF at <= Len(t) THEN t[at] ELSE "end"
Separator(t, at) == Peek(t, at) = "," /\ Peek(t, at + 1) = " "
BraceEnd(t, at) == Peek(t, at) = " " /\ Peek(t, at + 1) = "}"

RECURSIVE LexQuoted(_, _, _)
\* the end of the literal opened by quote, 0 when it has none
LexQuoted(t, at, quote) ==
    CASE Peek(t, at) = "end" -> 0
      [] Peek(t, at) = "\\" -> IF Peek(t, at + 1) = "end" THEN 0 ELSE LexQuoted(t, at + 2, quote)
      [] Peek(t, at) = quote -> at + 1
      [] OTHER -> LexQuoted(t, at + 1, quote)

AfterLastSpace(text) == Max({0} \cup {i \in DOMAIN text : text[i] = " "}) + 1

\* How much of the text before an open delimiter is glued to it: "Some" of "Some(", "Name " of
\* "Name {". A brace takes a name only across a space.
PrefixLen(text, delimiter) ==
    LET atom == IF delimiter = "{" THEN Front(text) ELSE text
        n == Len(text) - AfterLastSpace(atom) + 1
    IN IF delimiter # "{" THEN n
       ELSE IF text = <<>> \/ Last(text) # " " \/ n = 1 THEN 0 ELSE n

RECURSIVE ParseItem(_, _, _, _, _), ParseGroup(_, _, _, _), ParseItems(_, _, _, _, _)

\* One comma-separated item: text so far, nodes so far.
ParseItem(t, at, depth, text, nodes) ==
    LET c == Peek(t, at)
        quoted == LexQuoted(t, at + 1, c)
        n == PrefixLen(text, c)
        before == nodes \o Leaf(SubSeq(text, 1, Len(text) - n))
        glued == SubSeq(text, Len(text) - n + 1, Len(text))
        prefix == IF c = "{" /\ n > 0 THEN Front(glued) ELSE glued
        group == ParseGroup(t, at, depth, prefix)
    IN CASE c \in {"end", "]", ")", "}"} \/ Separator(t, at) \/ BraceEnd(t, at) ->
              [ok |-> TRUE, at |-> at, nodes |-> nodes \o Leaf(text)]
         [] c \in Quotes ->
              IF quoted = 0 THEN NoParse
              ELSE ParseItem(t, quoted, depth, <<>>,
                             nodes \o Leaf(text) \o Leaf(SubSeq(t, at, quoted - 1)))
         [] c \in Opening ->
              IF ~group.ok THEN NoParse
              ELSE ParseItem(t, group.at, depth, <<>>, before \o group.nodes)
         [] OTHER -> ParseItem(t, at + 1, depth, Append(text, c), nodes)

\* The items of a group up to its close delimiter.
ParseItems(t, at, depth, close, named) ==
    LET item == ParseItem(t, at, depth, <<>>, <<>>)
        rest == ParseItems(t, item.at + 2, depth, close, named)
    IN IF ~item.ok THEN NoParse
       ELSE IF Separator(t, item.at)
            THEN IF rest.ok THEN [rest EXCEPT !.items = <<item.nodes>> \o @] ELSE NoParse
       ELSE IF named /\ BraceEnd(t, item.at)
            THEN [NoParse EXCEPT !.ok = TRUE, !.at = item.at + 2, !.items = <<item.nodes>>]
       ELSE IF ~named /\ Peek(t, item.at) = close
            THEN [NoParse EXCEPT !.ok = TRUE, !.at = item.at + 1, !.items = <<item.nodes>>]
       ELSE NoParse

ParseGroup(t, at, depth, prefix) ==
    LET d == t[at]
        named == d = "{" /\ prefix # <<>> /\ Peek(t, at + 1) = " "
        empty == ~named /\ Peek(t, at + 1) = CloseOf[d]
        body == IF empty THEN [NoParse EXCEPT !.ok = TRUE, !.at = at + 2]
                ELSE ParseItems(t, at + (IF named THEN 2 ELSE 1), depth + 1, CloseOf[d], named)
    IN IF depth = MaxDebugDepth \/ ~body.ok THEN NoParse
       ELSE [ok |-> TRUE, at |-> body.at,
             nodes |-> <<[leaf |-> FALSE, delimiter |-> d, named |-> named, items |-> body.items,
                          prefix |-> prefix]>>]

ParseRepr(t) ==
    LET item == ParseItem(t, 1, 0, <<>>, <<>>)
    IN IF item.ok /\ item.at = Len(t) + 1 THEN item ELSE NoParse

-----------------------------------------------------------------------------
(* emit_debug_nodes, on one line: each breakable point as its separator.         *)

RECURSIVE Emitted(_)
EmittedGroup(g) ==
    LET joint == IF g.delimiter = "{" /\ g.prefix # <<>> THEN <<" ">> ELSE <<>>
        open == g.prefix \o joint \o <<g.delimiter>> \o (IF g.named THEN <<" ">> ELSE <<>>)
        close == (IF g.named THEN <<" ">> ELSE <<>>) \o <<CloseOf[g.delimiter]>>
        Item(i) == (IF i = 1 THEN <<>> ELSE <<",", " ">>) \o Emitted(g.items[i])
    IN open \o FlattenSeq([i \in DOMAIN g.items |-> Item(i)]) \o close
Emitted(nodes) ==
    FlattenSeq([i \in DOMAIN nodes |-> IF nodes[i].leaf THEN nodes[i].text ELSE EmittedGroup(nodes[i])])

Total(numbers) == FoldLeft(LAMBDA a, b : a + b, 0, numbers)

RECURSIVE GroupCount(_), OpenedOutsideQuotes(_, _, _)
GroupCount(nodes) ==
    Total([i \in DOMAIN nodes |->
             IF nodes[i].leaf THEN 0
             ELSE 1 + Total([j \in DOMAIN nodes[i].items |-> GroupCount(nodes[i].items[j])])])

\* The brackets opened from `at` on, reading the text once; quote is "" outside a literal.
OpenedOutsideQuotes(t, at, quote) ==
    CASE Peek(t, at) = "end" -> 0
      [] quote # "" /\ t[at] = "\\" -> OpenedOutsideQuotes(t, at + 2, quote)
      [] quote # "" /\ t[at] # "\\" ->
           OpenedOutsideQuotes(t, at + 1, IF t[at] = quote THEN "" ELSE quote)
      [] quote = "" /\ t[at] \in Quotes -> OpenedOutsideQuotes(t, at + 1, t[at])
      [] OTHER -> OpenedOutsideQuotes(t, at + 1, "") + (IF t[at] \in Opening THEN 1 ELSE 0)

\* A text that parses is printed, when it fits on a line, as it stood, and its groups are the
\* brackets opened outside its string literals: what wraps is never a bracket inside a string.
KeptOnOneLine(t) ==
    LET parsed == ParseRepr(t)
    IN parsed.ok => /\ Emitted(parsed.nodes) = t
                    /\ GroupCount(parsed.nodes) = OpenedOutsideQuotes(t, 1, "")
=============================================================================
