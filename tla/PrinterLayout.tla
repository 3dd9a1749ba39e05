--------------------------- MODULE PrinterLayout ---------------------------
(* The layout half of the pretty printer (native/printer.rs, Renderer): a     *)
(* sequence of commands becomes lines no wider than W where its groups allow. *)
(* Commands are [op, n]: text, brk (a separator) and ifb of width n, cmt,     *)
(* hard, begin (indent n, no opening text), end (closing text of width n) and *)
(* shift. The output is a sequence of pieces [k, cmd, n]: what was printed    *)
(* (text, sep, cmt, nl), the index of its command, its width (nl: indent).    *)
EXTENDS Integers, Sequences, FiniteSets
LOCAL INSTANCE SequencesExt

Piece(k, i, n) == [k |-> k, cmd |-> i, n |-> n]
Floor(n) == IF n < 0 THEN 0 ELSE n

\* Matching of groups: Stack(cmds, i) holds the begins open before command i, 0 the root.
Stack(cmds, i) ==
    FoldLeftDomain(LAMBDA s, j : CASE j >= i -> s
                                   [] j < i /\ cmds[j].op = "begin" -> Append(s, j)
                                   [] j < i /\ cmds[j].op = "end" -> Front(s)
                                   [] OTHER -> s, <<0>>, cmds)

\* mark_comment_groups: every group open at a comment breaks.
Commented(cmds) ==
    UNION {ToSet(Stack(cmds, i)) : i \in {j \in DOMAIN cmds : cmds[j].op = "cmt"}} \ {0}

\* The renderer: groups are named by their begin command, 0 is the root.
Renderer(cmds) ==
    [out |-> <<>>, width |-> 0, at_line_start |-> TRUE, buffer |-> <<>>, comments |-> <<>>,
     indentation |-> 0, stack |-> <<0>>, queue |-> <<<<0>>>>,
     pending |-> [g \in 0..Len(cmds) |-> 0],
     want_break |-> [g \in 0..Len(cmds) |-> g \in Commented(cmds)]]

Token(k, i, n, indent, g) == [k |-> k, cmd |-> i, n |-> n, indent |-> indent, group |-> g]
TokenWidth(t) == IF t.k \in {"text", "sep"} THEN t.n ELSE 0
BufferWidth(r) == FoldLeft(LAMBDA w, t : w + TokenWidth(t), 0, r.buffer)

Put(r, piece) ==
    [r EXCEPT !.out = Append(@, piece), !.width = @ + piece.n,
              !.at_line_start = @ /\ piece.n = 0]
\* A newline ends the line with the comments collected for it.
\* Mutant: the comments stay where they were written.
StartLineKeepingComments(r, i, indent) ==
    [r EXCEPT !.out = Append(@, Piece("nl", i, Floor(indent))), !.width = Floor(indent),
              !.at_line_start = TRUE]
StartLine(r, i, indent) ==
    [r EXCEPT !.out = @ \o r.comments \o <<Piece("nl", i, Floor(indent))>>,
              !.comments = <<>>, !.width = Floor(indent), !.at_line_start = TRUE]

QueueRemove(r, g) ==
    [r EXCEPT !.queue = [level \in DOMAIN @ |-> Remove(@[level], g)]]

\* output_token
OutputToken(r, t) ==
    CASE t.k = "text" -> Put(r, Piece("text", t.cmd, t.n))
      [] t.k = "ifb" -> IF r.want_break[t.group] THEN Put(r, Piece("text", t.cmd, t.n)) ELSE r
      [] t.k = "cmt" -> [r EXCEPT !.comments = Append(@, Piece("cmt", t.cmd, 0))]
      [] t.k = "sep" ->
            LET s == [r EXCEPT !.pending[t.group] = @ - 1]
            IN  CASE s.want_break[t.group] -> StartLine(s, t.cmd, t.indent)
                  [] s.pending[t.group] = 0 /\ ~s.want_break[t.group] ->
                        Put(QueueRemove(s, t.group), Piece("sep", t.cmd, t.n))
                  [] OTHER -> Put(s, Piece("sep", t.cmd, t.n))

PopFront(r) == OutputToken([r EXCEPT !.buffer = Tail(@)], Head(r.buffer))
Flush(r) == FoldLeft(OutputToken, [r EXCEPT !.buffer = <<>>], r.buffer)
RECURSIVE PopGroup(_, _)
PopGroup(r, g) == IF r.pending[g] > 0 THEN PopGroup(PopFront(r), g) ELSE r
RECURSIVE PopUnbreakable(_)
PopUnbreakable(r) ==
    IF r.buffer # <<>> /\ Head(r.buffer).k # "sep" THEN PopUnbreakable(PopFront(r)) ELSE r

\* Mutant: the deepest level comes first.
DeqInnermost(r, level) ==
    LET waiting == {g \in UNION {ToSet(r.queue[l]) : l \in DOMAIN r.queue} : r.pending[g] > 0}
        Depth(g) == CHOOSE l \in DOMAIN r.queue : Contains(r.queue[l], g)
        Break(g) == [QueueRemove(r, g) EXCEPT !.want_break[g] = TRUE]
    IN  IF waiting = {} THEN [found |-> FALSE, r |-> r, group |-> 0]
        ELSE LET g == CHOOSE h \in waiting : \A o \in waiting : Depth(o) <= Depth(h)
             IN  [found |-> TRUE, r |-> Break(g), group |-> g]

\* deq: the oldest group with break points at the shallowest level; the groups passed over
\* on the way will break whatever comes.
RECURSIVE Deq(_, _)
Deq(r, level) ==
    IF level > Len(r.queue) THEN [found |-> FALSE, r |-> r, group |-> 0]
    ELSE LET waiting == {p \in DOMAIN r.queue[level] : r.pending[r.queue[level][p]] > 0}
         IN  IF waiting # {}
             THEN LET p == CHOOSE q \in waiting : \A s \in waiting : q <= s
                      g == r.queue[level][p]
                  IN  [found |-> TRUE, group |-> g,
                       r |-> [r EXCEPT !.queue[level] = RemoveAt(@, p), !.want_break[g] = TRUE]]
             ELSE Deq([r EXCEPT !.queue[level] = <<>>,
                                !.want_break = [g \in DOMAIN @ |->
                                                  @[g] \/ g \in ToSet(r.queue[level])]],
                      level + 1)

RECURSIVE BreakOuterGroups(_, _)
BreakOuterGroups(r, W) ==
    IF r.width + BufferWidth(r) <= W THEN r
    ELSE LET d == Deq(r, 1)
         IN  IF ~d.found THEN d.r
             ELSE BreakOuterGroups(PopUnbreakable(PopGroup(d.r, d.group)), W)

\* Runs of text coalesce into the token before them; here they stay apart, which prints
\* the same.
Text(r, i, n, W) ==
    IF r.buffer = <<>> THEN Put(r, Piece("text", i, n))
    ELSE BreakOuterGroups([r EXCEPT !.buffer = Append(@, Token("text", i, n, 0, 0))], W)
BreakLine(r, i) == LET s == Flush(r) IN StartLine(s, i, s.indentation)

Breakable(r, i, n, W) ==
    LET g == Last(r.stack)
    IN  IF r.want_break[g] THEN BreakLine(r, i)
        ELSE BreakOuterGroups([r EXCEPT !.buffer = Append(@, Token("sep", i, n, r.indentation, g)),
                                        !.pending[g] = @ + 1], W)
IfBreak(r, i, n, W) ==
    LET g == Last(r.stack)
    IN  IF r.want_break[g] THEN Text(r, i, n, W)
        ELSE [r EXCEPT !.buffer = Append(@, Token("ifb", i, n, 0, g))]
Comment(r, i) ==
    IF r.buffer = <<>> THEN [r EXCEPT !.comments = Append(@, Piece("cmt", i, 0))]
    ELSE [r EXCEPT !.buffer = Append(@, Token("cmt", i, 0, 0, 0))]

BeginGroup(r, i, indent) ==
    LET level == Len(r.stack) + 1
    IN  [r EXCEPT !.stack = Append(@, i),
                  !.queue = [l \in 1..(IF level > Len(@) THEN level ELSE Len(@)) |->
                                (IF l <= Len(r.queue) THEN r.queue[l] ELSE <<>>)
                                \o (IF l = level THEN <<i>> ELSE <<>>)],
                  !.indentation = @ + indent]
\* A group that a comment broke closes on a line of its own.
EndGroup(r, i, cmds, W) ==
    LET g == Last(r.stack)
        s == [r EXCEPT !.stack = Front(@), !.indentation = @ - cmds[g].n]
        t == IF g \in Commented(cmds) /\ ~(s.buffer = <<>> /\ s.at_line_start)
             THEN BreakLine(s, i) ELSE s
        u == IF t.pending[g] = 0 THEN QueueRemove(t, g) ELSE t
    IN  IF cmds[i].n = 0 THEN u ELSE Text(u, i, cmds[i].n, W)

Execute(r, i, cmds, W) ==
    LET c == cmds[i]
    IN  CASE c.op = "text" -> Text(r, i, c.n, W)
          [] c.op = "brk" -> Breakable(r, i, c.n, W)
          [] c.op = "ifb" -> IfBreak(r, i, c.n, W)
          [] c.op = "hard" -> BreakLine(r, i)
          [] c.op = "begin" -> BeginGroup(r, i, c.n)
          [] c.op = "end" -> EndGroup(r, i, cmds, W)
          [] c.op = "shift" -> [r EXCEPT !.indentation = @ + c.n]
          [] c.op = "cmt" -> Comment(r, i)

\* render: the pieces of a document whose ends all have a begin.
Render(cmds, W) ==
    LET r == Flush(FoldLeftDomain(LAMBDA s, i : Execute(s, i, cmds, W), Renderer(cmds), cmds))
    IN  r.out \o r.comments
-----------------------------------------------------------------------------
Opens(cmds) == Cardinality({i \in DOMAIN cmds : cmds[i].op = "begin"})
               - Cardinality({i \in DOMAIN cmds : cmds[i].op = "end"})
GroupOf(cmds, i) == Last(Stack(cmds, i))
Points(cmds, g) == {i \in DOMAIN cmds : cmds[i].op = "brk" /\ GroupOf(cmds, i) = g}
Printed(out, k) == {out[j].cmd : j \in {l \in DOMAIN out : out[l].k = k}}

\* What holds of the pieces `out` that a stream of commands is laid out as in W columns.

\* Breaking is all or nothing per group.
AllOrNothing(cmds, out) ==
    LET broke == Printed(out, "nl")
    IN  \A g \in 0..Len(cmds) :
            Points(cmds, g) \cap broke # {} => Points(cmds, g) \subseteq broke

\* A comment is the last thing on its line, which is the line it was written on.
CommentsEndLines(cmds, out) ==
    LET lines == SelectSeq(out, LAMBDA p : p.k \in {"cmt", "nl"})
    IN  /\ \A j \in DOMAIN out : out[j].k = "cmt" /\ j < Len(out) => out[j + 1].k \in {"cmt", "nl"}
        /\ \A j \in 1..(Len(lines) - 1) : lines[j].cmd < lines[j + 1].cmd

\* Nothing is lost, doubled or reordered: texts and break points come out in the order they
\* were written, and so do comments.
OrderKept(cmds, out) ==
    LET body == SelectSeq(out, LAMBDA p : p.k # "cmt" /\ cmds[p.cmd].op # "ifb"
                                          /\ ~(p.k = "nl" /\ cmds[p.cmd].op = "end"))
        written == SelectSeq([i \in DOMAIN cmds |-> i],
                       LAMBDA i : \/ cmds[i].op \in {"text", "brk", "hard"}
                                  \/ cmds[i].op = "end" /\ cmds[i].n > 0)
        comments == SelectSeq(out, LAMBDA p : p.k = "cmt")
    IN  /\ [j \in DOMAIN body |-> body[j].cmd] = written
        /\ [j \in DOMAIN comments |-> comments[j].cmd]
             = SelectSeq([i \in DOMAIN cmds |-> i], LAMBDA i : cmds[i].op = "cmt")

\* Groups break from the outside in: unless a line break of the document itself, or a comment,
\* had printed the outer group's first points flat, an outer group breaks before any in it.
OutermostFirst(cmds, out) ==
    LET broke == Printed(out, "nl")
    IN  (\A i \in DOMAIN cmds : cmds[i].op \notin {"hard", "cmt"}) =>
            \A i \in DOMAIN cmds :
                cmds[i].op = "brk" /\ i \in broke =>
                    \A g \in ToSet(Stack(cmds, i)) : Points(cmds, g) \subseteq broke

\* What fits on one line stays on one line.
FlatWhenItFits(cmds, out, W) ==
    LET flat == FoldLeft(LAMBDA w, c : IF c.op \in {"text", "brk", "end"} THEN w + c.n ELSE w, 0, cmds)
    IN  flat <= W /\ (\A i \in DOMAIN cmds : cmds[i].op \notin {"cmt", "hard"})
            => Printed(out, "nl") = {}

LayoutSound(cmds, out, W) ==
    /\ AllOrNothing(cmds, out) /\ OutermostFirst(cmds, out)
    /\ CommentsEndLines(cmds, out) /\ OrderKept(cmds, out) /\ FlatWhenItFits(cmds, out, W)
=============================================================================
