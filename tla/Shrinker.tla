------------------------------ MODULE Shrinker ------------------------------
(* The shrinker (native/shrinker): passes propose choice sequences, a replay   *)
(* of the test body judges each, and an interesting, strictly simpler run      *)
(* becomes the target. This module holds what every pass is built from -       *)
(* replaying, considering, adopting, searching - and the passes themselves, as *)
(* functions of the shrinker's state; ShrinkLoop schedules them.               *)
(*                                                                             *)
(* A node is [k, v, forced]: the kind drawn, the value, whether the body       *)
(* forced it. A span is [from, to, label, parent, discarded] and covers nodes  *)
(* from+1..to; its parent is the position of a span, or 0. A body is given by  *)
(* three operators on the values drawn so far: Draw (the next draw [k, forced] *)
(* as a set, {} when the body has returned; forced is {} or {value}), Spans,   *)
(* and Interesting. Bodies draw no floats and make no clones, so the passes    *)
(* for those two kinds have nothing to do and are left out.                    *)
EXTENDS ChoiceOrder
LOCAL INSTANCE SequencesExt
LOCAL INSTANCE FiniteSetsExt
LOCAL INSTANCE TLC

CONSTANTS Draw(_, _), Spans(_, _), Interesting(_, _), Simpler(_),
          MaxShrinks,   \* MAX_SHRINKS: the first value of the stall window
          UsizeMax,     \* where a doubling search stops
          MaxDelete,    \* the widest run of nodes deleted blindly (8 in the code)
          MaxProgram    \* the widest node program (5 in the code)

\* A set in a strict order of its elements.
Ordered(S, Less(_, _)) ==
    [i \in 1..Cardinality(S) |-> CHOOSE x \in S : Cardinality({y \in S : Less(y, x)}) = i - 1]

Node(k, v, forced) == [k |-> k, v |-> v, forced |-> forced]
Recorded(nodes) == [i \in DOMAIN nodes |-> [t |-> nodes[i].k.t, v |-> nodes[i].v]]
WithValue(n, v) == [n EXCEPT !.v = v]
AtSimplest(n) == n.v = Simplest(n.k)
Cut(nodes, a, b) == SubSeq(nodes, 1, a) \o SubSeq(nodes, b + 1, Len(nodes))

(* Replaying. A recorded value is kept when it fits the draw at its position;  *)
(* otherwise it is replaced by the draw's simplest value if it was simplest    *)
(* for its own kind, and by the unit if not. Past the candidate a full replay  *)
(* overruns; a probe (fill is "low" or "high") goes on with random draws.      *)
Recalled(d, stale, fill) ==
    IF stale.k.t = d.k.t /\ Validate(d.k, stale.v) THEN stale.v
    ELSE IF fill = "none" /\ AtSimplest(stale) THEN Simplest(d.k) ELSE Unit(d.k)
Resolved(d, cand, i, fill) ==
    Node(d.k,
         CASE d.forced # {} -> CHOOSE f \in d.forced : TRUE
           [] d.forced = {} /\ i <= Len(cand) -> Recalled(d, cand[i], fill)
           [] d.forced = {} /\ i > Len(cand) ->
                IF fill = "low" THEN Simplest(d.k)
                ELSE CHOOSE m \in FromIndex(d.k, MaxIndex(d.k)) : TRUE,
         d.forced # {})

RECURSIVE Continued(_, _, _, _, _, _)
\* nodes, with next the draw that follows ({} when the body has returned)
Continued(body, cand, fill, size, nodes, next) ==
    IF next = {} \/ Len(nodes) >= size THEN [nodes |-> nodes, over |-> next # {}]
    ELSE LET longer == Append(nodes, Resolved(CHOOSE d \in next : TRUE, cand, Len(nodes) + 1, fill))
         IN Continued(body, cand, fill, size, longer, Draw(body, Recorded(longer)))
Outcome(body, run) ==
    [nodes |-> run.nodes, spans |-> Spans(body, Recorded(run.nodes)),
     matches |-> ~run.over /\ Interesting(body, Recorded(run.nodes))]
Replay(body, cand, fill, size) ==
    Outcome(body, Continued(body, cand, fill, size, <<>>, Draw(body, <<>>)))

(* The shrinker's state. fuel is the number of executions the deadline allows; *)
(* ok and n are the answer of the last attempt and of the last search.         *)
NewShrinker(body, nodes, cap, fuel) ==
    [body |-> body, nodes |-> nodes, spans |-> Spans(body, Recorded(nodes)),
     improvements |-> 0, max_improvements |-> cap, downgraded |-> <<>>,
     calls |-> 0, calls_at_last_shrink |-> 0, max_stall |-> MaxShrinks,
     checkpoint |-> nodes, changed |-> {}, fuel |-> fuel, timed_out |-> FALSE,
     halt |-> FALSE, ok |-> FALSE, n |-> 0]

Answer(s, b) == [s EXCEPT !.ok = b]
No(s) == Answer(s, FALSE)
Halted(s) == [s EXCEPT !.halt = TRUE, !.ok = FALSE]
Stalled(s) == s.improvements > 0 /\ s.calls - s.calls_at_last_shrink >= s.max_stall
OutOfTime(s) == [Halted(s) EXCEPT !.timed_out = TRUE]
Executed(s) == [s EXCEPT !.fuel = @ - 1]
Called(s) == [Executed(s) EXCEPT !.calls = @ + 1]

SameShape(a, b) == Len(a) = Len(b) /\ \A i \in DOMAIN a : a[i].k.t = b[i].k.t
\* Indices that differ from the last checkpoint, kept while the shape is the checkpoint's.
Changed(s, new) ==
    IF ~SameShape(s.checkpoint, new) THEN {}
    ELSE s.changed \cup {i \in DOMAIN new : new[i].v # s.checkpoint[i].v}
Checkpointed(s) == [s EXCEPT !.changed = {}, !.checkpoint = s.nodes]

\* Mutant: the spans of the displaced target stay.
AcceptKeepingSpans(s, out) ==
    [s EXCEPT !.downgraded = Append(@, Recorded(s.nodes)), !.improvements = @ + 1,
              !.max_stall = AtLeast(@, 2 * (s.calls - s.calls_at_last_shrink)),
              !.calls_at_last_shrink = s.calls, !.changed = Changed(s, out.nodes),
              !.nodes = out.nodes, !.ok = TRUE]
AcceptImprovement(s, out) ==
    [s EXCEPT !.downgraded = Append(@, Recorded(s.nodes)), !.improvements = @ + 1,
              !.max_stall = AtLeast(@, 2 * (s.calls - s.calls_at_last_shrink)),
              !.calls_at_last_shrink = s.calls, !.changed = Changed(s, out.nodes),
              !.nodes = out.nodes, !.spans = out.spans, !.ok = TRUE]

\* An interesting run becomes the target only when it is strictly simpler.
Adopt(s, out) ==
    IF out.matches /\ Smaller(out.nodes, s.nodes) THEN AcceptImprovement(s, out) ELSE No(s)

\* Execute a candidate outside the improvement and stall guards.
Inspect(s, cand) == Replay(s.body, cand, "none", Len(cand))
RunAndAdopt(s, cand) ==
    IF s.halt THEN No(s)
    ELSE IF s.fuel = 0 THEN OutOfTime(s) ELSE Adopt(Called(s), Inspect(s, cand))

\* The candidate is the target already.
IsTarget(s, cand) == SortKey(cand) = SortKey(s.nodes)
\* The candidate cannot improve, or asks for a value the body forces: not worth a run.
Hopeless(s, cand) ==
    \/ Smaller(s.nodes, SubSeq(cand, 1, AtMost(Len(cand), Len(s.nodes))))
    \/ /\ Len(cand) = Len(s.nodes)
       /\ \E i \in DOMAIN cand : s.nodes[i].forced /\ cand[i].v # s.nodes[i].v

Guarded(s, Run(_)) ==
    IF s.halt THEN No(s)
    ELSE IF s.improvements >= s.max_improvements THEN Halted(s)
    ELSE IF Stalled(s) THEN No(s) ELSE Run(s)

Consider(s, cand) ==
    IF s.halt THEN No(s)
    ELSE IF IsTarget(s, cand) THEN Answer(s, TRUE)
    ELSE IF Hopeless(s, cand) THEN No(s)
    ELSE Guarded(s, LAMBDA u : RunAndAdopt(u, cand))

\* A prefix of values with a random continuation of at most size choices.
Probe(s, prefix, size, fill) ==
    Guarded(s, LAMBDA u : IF u.fuel = 0 THEN OutOfTime(u)
                          ELSE Adopt(Called(u), Replay(u.body, prefix, fill, size)))

\* What a pass asks for. Every pass goes through Perform, at the end of the module, and calls
\* none of the above itself: that keeps the call tree TLC's coverage unfolds a small one.
RECURSIVE Perform(_, _, _)
Attempt(s, cand) == Perform(s, "consider", cand)
Look(s, cand) == Perform(s, "inspect", cand)
Running(s, cand) == Perform(s, "run", cand)
Probing(s, prefix, size, fill) ==
    Perform(s, "probe", [prefix |-> prefix, size |-> size, fill |-> fill])

\* Consider the target with some values replaced (rep: index -> value), where they fit.
Fits(s, i, val) ==
    /\ i \in DOMAIN s.nodes
    /\ ~s.nodes[i].forced
    /\ s.nodes[i].k.t = val.t /\ Validate(s.nodes[i].k, val.v)
Replace(s, rep) ==
    IF \E i \in DOMAIN rep : ~Fits(s, i, rep[i]) THEN No(s)
    ELSE Attempt(s, [i \in DOMAIN s.nodes |->
                          IF i \in DOMAIN rep THEN WithValue(s.nodes[i], rep[i].v) ELSE s.nodes[i]])
ValueAt(s, i) == [t |-> s.nodes[i].k.t, v |-> s.nodes[i].v]
Set(s, i, val) == Replace(s, i :> val)
SetTwo(s, i, val, j, other) == Replace(s, i :> val @@ j :> other)

(* Loops and searches over the state.                                          *)
Each(s, items, Do(_, _)) == FoldLeft(LAMBDA u, x : IF u.halt THEN u ELSE Do(u, x), s, items)
\* for every position, while the sequence still has it
Sweep(s0, Do(_, _)) ==
    LET RECURSIVE go(_, _)
        go(s, i) == IF s.halt \/ i > Len(s.nodes) THEN s ELSE go(Do(s, i), i + 1)
    IN go(s0, 1)
\* the items in turn until one is accepted
UntilAccepted(s0, items, Try(_, _)) ==
    FoldLeft(LAMBDA u, x : IF u.ok \/ u.halt THEN u ELSE Try(u, x), No(s0), items)
Down(hi, lo) == [i \in 1..AtLeast(hi - lo + 1, 0) |-> hi + 1 - i]
Up(lo, hi) == [i \in 1..AtLeast(hi - lo + 1, 0) |-> lo - 1 + i]

\* FindInteger: 1..4 in turn, then doubling, then halving the gap; n is the largest that held.
FindInteger(s0, Try(_, _)) ==
    LET RECURSIVE linear(_, _), grow(_, _, _), narrow(_, _, _)
        narrow(s, lo, hi) ==
            LET mid == lo + (hi - lo) \div 2
                t == Try(s, mid)
            IN IF lo + 1 >= hi THEN [s EXCEPT !.n = lo]
               ELSE IF t.ok THEN narrow(t, mid, hi) ELSE narrow(t, lo, mid)
        grow(s, lo, hi) ==
            LET t == Try(s, hi)
            IN IF ~t.ok THEN narrow(t, lo, hi)
               ELSE IF 2 * hi > UsizeMax THEN [t EXCEPT !.n = hi] ELSE grow(t, hi, 2 * hi)
        linear(s, i) ==
            LET t == Try(s, i)
            IN IF ~t.ok THEN [t EXCEPT !.n = i - 1]
               ELSE IF i < 4 THEN linear(t, i + 1) ELSE grow(t, 4, 5)
    IN linear(s0, 1)

\* BinSearchDown: lo first, then halving the gap below hi, which is taken to hold.
BinSearchDown(s0, lo0, hi0, Try(_, _)) ==
    LET RECURSIVE narrow(_, _, _)
        narrow(s, lo, hi) ==
            LET mid == lo + (hi - lo) \div 2
                t == Try(s, mid)
            IN IF lo + 1 >= hi THEN s
               ELSE IF t.ok THEN narrow(t, lo, mid) ELSE narrow(t, mid, hi)
        first == Try(s0, lo0)
    IN IF first.ok THEN first ELSE narrow(first, lo0, hi0)

(* Deletion (deletion.rs).                                                     *)
\* The choice before a deleted run, one lower, when it can be.
Decremented(nodes, i) ==
    LET n == nodes[i]
        lower == <<n.v[1] - 1>>
    IN IF /\ n.k.t \in {"int", "bool"}
          /\ ~AtSimplest(n) /\ Validate(n.k, lower)
       THEN {[nodes EXCEPT ![i] = Node(n.k, lower, n.forced)]} ELSE {}

DeleteChunks(s0) ==
    LET RECURSIVE from(_, _, _)   \* the run of k that follows the first i nodes, then i - 1
        from(s, k, i) ==
            LET attempt == Cut(s.nodes, i, AtMost(i + k, Len(s.nodes)))
                t == Attempt(s, attempt)
                lowered == IF t.ok THEN t
                           ELSE FoldSet(LAMBDA c, u : Attempt(u, c), t, Decremented(attempt, i))
            IN IF s.halt \/ i >= Len(s.nodes) THEN s
               ELSE IF i = 0 THEN t ELSE from(lowered, k, i - 1)
    IN Each(s0, Down(MaxDelete, 1),
            LAMBDA s, k : from(s, k, AtLeast(Len(s.nodes) - k - 1, 0)))

\* Whether deleting repeats runs of n nodes after the first i of them improves the target.
RunNodeProgram(s, nodes, i, n, repeats) ==
    LET t == Attempt(s, Cut(nodes, i, i + n * repeats))
    IN IF i + n * repeats > Len(nodes) THEN No(s)
       ELSE Answer(t, t.ok /\ t.improvements > s.improvements)

NodeProgram(s0, n) ==
    LET Grow(s, i) ==
            LET left == FindInteger(s, LAMBDA u, k :
                            IF k * n > i THEN No(u) ELSE RunNodeProgram(u, u.nodes, i - k * n, n, 1))
                start == i - left.n * n
                right == FindInteger(left, LAMBDA u, k :
                            RunNodeProgram(u, left.nodes, start, n, k))
            IN [right EXCEPT !.n = start + n]
        RECURSIVE go(_, _)
        go(s, i) ==
            LET t == RunNodeProgram(s, s.nodes, i, n, 1)
                grown == Grow(t, i)
            IN IF s.halt \/ i + n > Len(s.nodes) THEN s
               ELSE IF t.ok THEN go(grown, grown.n) ELSE go(t, i + 1)
    IN go(s0, 0)

\* Set a value; if that only makes the run shorter, delete as many nodes further on.
ReplaceWithDeletion(s, i, val, expected) ==
    LET t == Set(s, i, val)
        attempt == [t.nodes EXCEPT ![i] = WithValue(@, val.v)]
        deficit == expected - Len(Look(t, attempt).nodes)
        start == AtLeast(Len(attempt) - deficit, 0)
    IN IF t.ok \/ t.halt \/ i > Len(t.nodes) THEN t
       ELSE IF t.nodes[i].k.t # val.t \/ ~Validate(t.nodes[i].k, val.v) THEN No(t)
       ELSE IF t.fuel = 0 THEN OutOfTime(t)
       ELSE IF deficit <= 0 \/ start <= i - 1 THEN No(Executed(t))
       ELSE UntilAccepted(Executed(t), Down(start, i),
                          LAMBDA u, j : Attempt(u, Cut(attempt, j, j + deficit)))

IntVal(x) == [t |-> "int", v |-> <<x>>]
IsInt(s, i) == i \in DOMAIN s.nodes /\ s.nodes[i].k.t = "int"
Num(s, i) == s.nodes[i].v[1]
\* an integer above its target or below it, to be lowered
Lowerable(s, i) == IsInt(s, i) /\ ~AtSimplest(s.nodes[i])

\* BinSearchDownBig assumes lo <= hi; from the other side only lo is probed.
BindDeletion(s0) ==
    Sweep(s0, LAMBDA s, i :
        IF ~Lowerable(s, i) THEN s
        ELSE BinSearchDown(s, Target(s.nodes[i].k), Num(s, i),
                           LAMBDA u, x : ReplaceWithDeletion(u, i, IntVal(x), Len(s.nodes))))

\* The longest prefix of the value at k that the run could use there, when it is shorter.
Misaligned(lowered, out, k) ==
    LET n == lowered[k]
        a == out.nodes[k]
    IN IF IsSeq(n.k) /\ n.k.t = a.k.t /\ Len(n.v) > Len(a.v)
       THEN {[lowered EXCEPT ![k] = WithValue(n, SubSeq(n.v, 1, Len(a.v)))]} ELSE {}

\* Lower an integer; if one step makes the run shorter or a value in it longer than used,
\* repair the lowered run by cutting that value, a span of it, or one of its nodes.
MinimizeIndividualChoices(s0) ==
    LET Improving(epoch, u, c) ==
            LET t == Attempt(u, c) IN Answer(t, t.ok /\ t.improvements > epoch)
        Repair(s, i) ==
            LET n == s.nodes[i]
                x == Num(s, i)
                towards == IF x > Target(n.k) THEN x - 1 ELSE x + 1
                lowered == [s.nodes EXCEPT ![i] = WithValue(n, <<towards>>)]
                out == Look(s, lowered)
                width == Len(out.nodes)
                Try(u, c) == Improving(s.improvements, u, c)
                aligned == UntilAccepted(Executed(s), Up(i + 1, AtMost(Len(lowered), width)),
                               LAMBDA u, k : FoldSet(LAMBDA c, w : Try(w, c), No(u),
                                                     Misaligned(lowered, out, k)))
                inner == SelectSeq(out.spans, LAMBDA p : p.from >= i /\ p.from < p.to)
                spanless == UntilAccepted(aligned, inner,
                               LAMBDA u, p : Try(u, Cut(out.nodes, p.from, p.to)))
            IN IF s.fuel = 0 THEN OutOfTime(s)
               ELSE IF aligned.ok \/ width >= Len(s.nodes) \/ width <= i THEN aligned
               ELSE IF spanless.ok THEN spanless
               ELSE UntilAccepted(spanless, Up(i, width - 1),
                                  LAMBDA u, j : Try(u, Cut(out.nodes, j, j + 1)))
    IN Sweep(s0, LAMBDA s, i :
           LET t == BinSearchDown(s, Target(s.nodes[i].k), Num(s, i),
                                  LAMBDA u, x : Set(u, i, IntVal(x)))
           IN IF ~Lowerable(s, i) \/ s.nodes[i].forced THEN s
              ELSE IF t.improvements > s.improvements \/ t.halt THEN t ELSE Repair(t, i))

\* From one occurrence of a repeated run of nodes to the next, widest runs first.
DeleteBetweenRepeats(s) ==
    LET len == Len(s.nodes)
        Repeats(n, a, b) == \A d \in 1..n : s.nodes[a + d] = s.nodes[b + d]
        Alike(n, a, b) == \A d \in 1..n : ValueAt(s, a + d) = ValueAt(s, b + d)
        found == {p \in (0..len) \X (0..len) :
                    /\ p[2] - p[1] >= 2
                    /\ \E n \in 1..4 :
                         /\ p[2] + n <= len
                         /\ Repeats(n, p[1], p[2])
                         /\ \A between \in (p[1] + 1)..(p[2] - 1) : ~Alike(n, between, p[2])}
        \* from the last to the first
        order == Ordered(found, LAMBDA p, q : p[1] > q[1] \/ (p[1] = q[1] /\ p[2] > q[2]))
    IN Each(s, order, LAMBDA u, p : IF p[2] > Len(u.nodes) THEN u
                                    ELSE Attempt(u, Cut(u.nodes, p[1], p[2])))

(* Passes over spans (spans.rs, ordering.rs).                                  *)
RECURSIVE RemoveDiscarded(_)
\* Delete all discarded spans at once, as long as there are any; ok says none is left.
RemoveDiscarded(s) ==
    LET disjoint == FoldLeft(LAMBDA kept, p :
                       IF /\ p.discarded /\ p.from < p.to
                          /\ kept = <<>> \/ p.from >= Last(kept).to
                       THEN Append(kept, p) ELSE kept, <<>>, s.spans)
        attempt == FoldRight(LAMBDA p, nodes : Cut(nodes, p.from, p.to), disjoint, s.nodes)
        t == Attempt(s, attempt)
    IN IF s.halt THEN s
       ELSE IF disjoint = <<>> THEN Answer(s, TRUE)
       ELSE IF t.ok THEN RemoveDiscarded(t) ELSE t

DeleteSpans(s0) ==
    LET Widened(s, to) ==
            LET later == {s.spans[j].from : j \in DOMAIN s.spans} \cap (to..Len(s.nodes))
            IN IF later = {} THEN Len(s.nodes) ELSE Min(later)
        RECURSIVE go(_, _, _)
        \* tried: the extents attempted since the last improvement
        go(s, i, tried) ==
            LET p == s.spans[i]
                wide == Widened(s, p.to)
                ends == SelectSeq(IF wide = p.to THEN <<p.to>> ELSE <<p.to, wide>>,
                           LAMBDA to : /\ ~(p.from = 0 /\ to = Len(s.nodes))
                                       /\ <<s.improvements, p.from, to>> \notin tried)
                t == UntilAccepted(s, ends, LAMBDA u, to : Attempt(u, Cut(s.nodes, p.from, to)))
            IN IF s.halt \/ i > Len(s.spans) THEN s
               ELSE IF p.to > Len(s.nodes) \/ p.to - p.from < 2 THEN go(s, i + 1, tried)
               ELSE go(t, i + 1, tried \cup {<<s.improvements, p.from, to>> : to \in ToSet(ends)})
    IN go(s0, 1, {})

\* All choices of a span simplest; failing that, the span as such a run realised it.
TryTrivialSpans(s0) ==
    LET Trivial(s, p) ==
            \A j \in (p.from + 1)..p.to : s.nodes[j].forced \/ AtSimplest(s.nodes[j])
        Zeroed(s, p) ==
            [j \in DOMAIN s.nodes |->
                IF j > p.from /\ j <= p.to /\ ~s.nodes[j].forced
                THEN WithValue(s.nodes[j], Simplest(s.nodes[j].k)) ELSE s.nodes[j]]
        Spliced(s, i, out) ==
            SubSeq(s.nodes, 1, s.spans[i].from)
              \o SubSeq(out.nodes, out.spans[i].from + 1, out.spans[i].to)
              \o SubSeq(s.nodes, s.spans[i].to + 1, Len(s.nodes))
        RECURSIVE go(_, _)
        go(s, i) ==
            LET p == s.spans[i]
                attempt == Zeroed(s, p)
                out == Look(s, attempt)
                t == Running(s, attempt)
            IN IF s.halt \/ i > Len(s.spans) THEN s
               ELSE IF p.to > Len(s.nodes) \/ Trivial(s, p) THEN go(s, i + 1)
               ELSE IF t.ok \/ i > Len(out.spans) THEN go(t, i + 1)
               ELSE go(Attempt(t, Spliced(s, i, out)), i + 1)
    IN go(s0, 1)

\* Each span replaced by a shorter one of its label inside it.
PassToDescendant(s) ==
    LET spans == s.spans
        Inside(a, d) ==
            /\ a < d
            /\ spans[a].label = spans[d].label
            /\ spans[d].from < spans[a].to
            /\ spans[d].from < spans[d].to
            /\ spans[d].to - spans[d].from < spans[a].to - spans[a].from
        Before(p, q) == LexLess(<<spans[p[1]].label, p[1], p[2]>>, <<spans[q[1]].label, q[1], q[2]>>)
        pairs == {p \in (DOMAIN spans) \X (DOMAIN spans) : Inside(p[1], p[2])}
    IN Each(s, Ordered(pairs, Before), LAMBDA u, p :
           IF spans[p[1]].to > Len(u.nodes) THEN u
           ELSE Attempt(u, SubSeq(u.nodes, 1, spans[p[1]].from)
                              \o SubSeq(u.nodes, spans[p[2]].from + 1, spans[p[2]].to)
                              \o SubSeq(u.nodes, spans[p[1]].to + 1, Len(u.nodes))))

\* Positions in key order, ties by place.
SortedBy(items, Less(_, _)) ==
    LET at == Ordered(DOMAIN items, LAMBDA i, j :
                  Less(items[i], items[j]) \/ (~Less(items[j], items[i]) /\ i < j))
    IN [i \in DOMAIN items |-> items[at[i]]]

\* shrink_ordering: bring 1..n into a more sorted order that Judge accepts - all of it, then
\* growing regions, then regions around a fixed element. Carries [s, cur], cur the order.
ShrinkOrdering(s0, n, Less(_, _), Judge(_, _)) ==
    LET Sorted(items) == SortedBy(items, Less)
        start == [i \in 1..n |-> i]
        Region(cur, i, k) ==
            SubSeq(cur, 1, i) \o Sorted(SubSeq(cur, i + 1, i + k)) \o SubSeq(cur, i + k + 1, n)
        Offer(u, cur, attempt) == IF attempt = cur THEN Answer(u, TRUE) ELSE Judge(u, attempt)
        RECURSIVE regions(_, _, _), gaps(_, _, _)
        regions(s, cur, i) ==
            LET t == FindInteger(s, LAMBDA u, k :
                        IF i + k > n THEN No(u) ELSE Offer(u, cur, Region(cur, i, k)))
            IN IF s.halt \/ i + 1 >= n THEN [s |-> s, cur |-> cur]
               ELSE regions(t, Region(cur, i, t.n), i + AtLeast(t.n, 1))
        \* cur[a+1..b] sorted around the element after the first c
        Around(cur, a, b, c) ==
            LET sides == Sorted(SubSeq(cur, a + 1, c) \o SubSeq(cur, c + 2, b))
            IN SubSeq(cur, 1, a) \o SubSeq(sides, 1, c - a) \o <<cur[c + 1]>>
                 \o SubSeq(sides, c - a + 1, Len(sides)) \o SubSeq(cur, b + 1, n)
        gaps(s, cur, i) ==
            LET right == FindInteger(s, LAMBDA u, k :
                            IF i + 1 + k > n THEN No(u)
                            ELSE Offer(u, cur, Around(cur, i, i + 1 + k, i)))
                left == FindInteger(right, LAMBDA u, k :
                            IF k > i THEN No(u)
                            ELSE Offer(u, cur, Around(cur, i - k, i + 1 + right.n, i)))
                inOrder == ~Less(cur[i + 1], cur[i]) /\ ~Less(cur[i + 2], cur[i + 1])
            IN IF s.halt \/ i >= n - 1 THEN s
               ELSE gaps(IF inOrder THEN s ELSE left, cur, i + 1)
        Widened(grown) == gaps(grown.s, grown.cur, 1)
        Unless(tried) == IF tried.ok THEN tried ELSE Widened(regions(tried, start, 0))
    IN IF n <= 1 THEN s0
       ELSE Unless(IF Sorted(start) = start THEN No(s0) ELSE Judge(s0, Sorted(start)))

\* Sibling spans of one label into a more sorted order.
ReorderSpans(s0) ==
    LET Siblings(s, u, parent, label) ==   \* children in s that still are in u
            LET at == {i \in DOMAIN s.spans \cap DOMAIN u.spans :
                         \A w \in {s.spans[i], u.spans[i]} : w.parent = parent /\ w.label = label}
            IN [i \in 1..Cardinality(at) |-> u.spans[Ordered(at, <)[i]]]
        Reordered(nodes, ends, perm) ==
            LET Piece(k) ==
                    SubSeq(nodes, ends[perm[k]].from + 1, ends[perm[k]].to)
                      \o SubSeq(nodes, ends[k].to + 1,
                                IF k < Len(ends) THEN ends[k + 1].from ELSE Len(nodes))
            IN SubSeq(nodes, 1, ends[1].from) \o FlattenSeq([k \in DOMAIN ends |-> Piece(k)])
        ByLabel(s, ends) ==
            LET Slice(i) == SubSeq(s.nodes, ends[i].from + 1, ends[i].to)
            IN IF Len(ends) <= 1 \/ \E i \in DOMAIN ends : ends[i].to > Len(s.nodes) THEN s
               ELSE ShrinkOrdering(s, Len(ends), LAMBDA i, j : Smaller(Slice(i), Slice(j)),
                                   LAMBDA u, perm : Attempt(u, Reordered(s.nodes, ends, perm)))
        Field(s, Get(_)) == Ordered({Get(s.spans[i]) : i \in DOMAIN s.spans}, <)
    IN Each(s0, Field(s0, LAMBDA p : p.parent), LAMBDA s, parent :
            Each(s, Field(s, LAMBDA p : p.label), LAMBDA u, label : ByLabel(u, Siblings(s, u, parent, label))))

(* Passes over values (integers.rs, sequence.rs, index_passes.rs).             *)
\* Blocks of k choices to their simplest values, from the whole sequence down to one choice.
ZeroChoices(s0) ==
    LET RECURSIVE at(_, _, _), size(_, _)
        at(s, k, i) ==
            LET zero == [j \in (i + 1)..(i + k) |-> [t |-> s.nodes[j].k.t, v |-> Simplest(s.nodes[j].k)]]
            IN IF s.halt \/ i + k > Len(s.nodes) THEN s
               ELSE IF AtSimplest(s.nodes[i + 1]) THEN at(s, k, i + 1)
               ELSE at(Replace(s, zero), k, i + k)
        size(s, k) == IF k = 0 THEN s ELSE size(at(s, k, 0), k \div 2)
    IN size(s0, Len(s0.nodes))

SwapIntegerSign(s0) ==
    LET Flipped(s, i) == IF IsInt(s, i) /\ Num(s, i) < 0 THEN Set(s, i, IntVal(-Num(s, i))) ELSE s
    IN Sweep(s0, LAMBDA s, i :
           IF ~IsInt(s, i) THEN s
           ELSE Flipped(IF Lowerable(s, i) THEN Set(s, i, IntVal(Target(s.nodes[i].k))) ELSE s, i))

Bits(x) == Cardinality({b \in 0..16 : 2 ^ b <= x})
Gap(s, i) == Distance(Num(s, i), Target(s.nodes[i].k))
\* Put integer i at distance d above its target, and below it if that is rejected.
AtDistance(s, i, d) ==
    LET k == s.nodes[i].k
        Side(u, x) == IF Validate(k, <<x>>) THEN Set(u, i, IntVal(x)) ELSE No(u)
        above == Side(s, Target(k) + d)
    IN IF above.ok \/ d = 0 THEN above ELSE Side(above, Target(k) - d)

BinarySearchTowardsZero(s0) ==
    LET Masked(s, i) ==
            LET d == Gap(s, i)
            IN FindInteger(s, LAMBDA u, k : IF k >= Bits(d) THEN No(u)
                                            ELSE AtDistance(u, i, d % 2 ^ (Bits(d) - k)))
        OneByte(s, i) ==
            LET d == Gap(s, i)
            IN IF Bits(d) <= 8 THEN s
               ELSE AtDistance(AtDistance(s, i, d \div 2 ^ (Bits(d) - 8)), i, d % 256)
        Shifted(s, i) ==
            LET d == Gap(s, i)
            IN FindInteger(s, LAMBDA u, k : AtDistance(u, i, d \div 2 ^ AtMost(k, Bits(d) + 1)))
        Subtracted(s, i, step) ==
            LET d == Gap(s, i)
            IN FindInteger(s, LAMBDA u, n : IF step * n > d THEN No(u)
                                            ELSE AtDistance(u, i, d - step * n))
        RECURSIVE descend(_, _), Again(_, _, _)
        descend(s, i) ==
            IF s.halt \/ Gap(s, i) = 0 THEN s
            ELSE Again(s, Subtracted(Subtracted(Shifted(s, i), i, 2), i, 1), i)
        Again(s, t, i) == IF Gap(t, i) = Gap(s, i) THEN t ELSE descend(t, i)
    IN Sweep(s0, LAMBDA s, i :
           IF ~IsInt(s, i) THEN s
           ELSE descend(OneByte(Masked(AtDistance(AtDistance(s, i, 0), i, 1), i), i), i))

Ints(s) == Ordered({i \in DOMAIN s.nodes : s.nodes[i].k.t = "int"}, <)

\* Move value from an integer to one gap integers later, keeping the sum.
RedistributeIntegers(s0) ==
    LET count == Len(Ints(s0))
        Pair(s, i, j) ==
            LET k == s.nodes[i].k
                x == Num(s, i)
                New(d) == IF x < Target(k) THEN Target(k) - d ELSE Target(k) + d
            IN IF Gap(s, i) = 0 THEN s
               ELSE BinSearchDown(s, 0, Gap(s, i), LAMBDA u, d :
                        SetTwo(u, i, IntVal(New(d)), j, IntVal(Num(s, j) + (x - New(d)))))
    IN Each(s0, Up(1, AtMost(8, count) - 1), LAMBDA s, gap :
            Each(s, Down(AtLeast(count - gap - 1, 0), 0), LAMBDA u, p :
                 IF p + gap >= Len(Ints(u)) THEN u
                 ELSE Pair(u, Ints(u)[p + 1], Ints(u)[p + gap + 1])))

\* Lower two integers by the same amount, as far as it goes.
LowerIntegersTogether(s0) ==
    LET Pair(s, i, j) ==
            LET target == Target(s.nodes[i].k)
                x == Num(s, i)
                sign == IF x > target THEN -1 ELSE 1
            IN IF x = target THEN s
               ELSE FindInteger(s, LAMBDA u, n :
                        IF n > Distance(x, target) THEN No(u)
                        ELSE SetTwo(u, i, IntVal(x + sign * n), j, IntVal(Num(s, j) + sign * n)))
        RECURSIVE from(_, _)
        from(s, p) ==
            IF s.halt \/ p >= Len(Ints(s)) THEN s
            ELSE from(Each(s, <<1, 2, 3>>, LAMBDA u, gap :
                        IF p + gap >= Len(Ints(u)) THEN u
                        ELSE Pair(u, Ints(u)[p + 1], Ints(u)[p + gap + 1])), p + 1)
    IN from(s0, 0)

\* Equal values changed together: to the simplest, and for integers in steps.
ShrinkDuplicates(s0) ==
    LET SetAll(s, at, val) == Replace(s, [i \in at |-> val])
        Groups(s, Same(_, _), at) == {{j \in at : Same(i, j)} : i \in at}
        InOrder(groups) == Ordered({g \in groups : Cardinality(g) >= 2},
                                        LAMBDA g, h : Min(g) < Min(h))
        AllKinds(s) == Groups(s, LAMBDA i, j : ValueAt(s, i) = ValueAt(s, j), DOMAIN s.nodes)
        Integers(s) == Groups(s, LAMBDA i, j : Num(s, i) = Num(s, j), ToSet(Ints(s)))
        Still(u, s, g) == {i \in g \cap DOMAIN u.nodes : ValueAt(u, i) = ValueAt(s, i)}
        Zero(u, s, g) ==
            LET live == Still(u, s, g)
                k == u.nodes[Min(live)].k
            IN IF Cardinality(live) < 2 \/ Simplest(k) = s.nodes[Min(g)].v THEN u
               ELSE SetAll(u, live, [t |-> k.t, v |-> Simplest(k)])
        Move(u, g, x) ==
            LET live == g \cap DOMAIN u.nodes
            IN IF Cardinality(live) < 2 THEN No(u) ELSE SetAll(u, live, IntVal(x))
        \* towards lo (of absolute values) from the sign side of 0
        Lower(s, g, sign, lo) ==
            LET first == Min(g)
                Size(u) == sign * Num(u, first)
                d == Size(s) - lo
                shifted == IF d <= 0 THEN s
                           ELSE FindInteger(s, LAMBDA u, k :
                                    Move(u, g, sign * (lo + d \div 2 ^ AtMost(k, Bits(d) + 1))))
                By(u, step) ==
                    IF ~IsInt(u, first) \/ Size(u) <= lo THEN u
                    ELSE FindInteger(u, LAMBDA w, n : IF ~IsInt(w, first) THEN No(w)
                                                      ELSE Move(w, g, sign * (Size(w) - step * n)))
            IN By(By(shifted, 2), 1)
        Group(u, s, g) ==
            LET live == Still(u, s, g)
                k == u.nodes[Min(live)].k
                zeroed == IF Num(u, Min(live)) = Target(k) THEN u
                          ELSE SetAll(u, live, IntVal(Target(k)))
                x == Num(zeroed, Min(live))
            IN IF Cardinality(live) < 2 THEN u
               ELSE IF ~IsInt(zeroed, Min(live)) \/ x = 0 THEN zeroed
               ELSE IF x > 0 THEN Lower(zeroed, live, 1, AtLeast(Target(k), 0))
               ELSE Lower(zeroed, live, -1, AtLeast(-Target(k), 0))
        simple == Each(s0, InOrder(AllKinds(s0)), LAMBDA u, g : Zero(u, s0, g))
    IN Each(simple, InOrder(Integers(simple)), LAMBDA u, g : Group(u, simple, g))

\* The integers changed since the last checkpoint, moved together towards their targets.
LowerCommonNodeOffset(s) ==
    LET at == {i \in s.changed : Lowerable(s, i)}
        offset == Min({Gap(s, i) : i \in at})
        Moved(i, n, sign) ==
            LET above == Num(s, i) >= Target(s.nodes[i].k)
                d == Gap(s, i) - n
            IN IntVal(Target(s.nodes[i].k) + (IF above THEN sign * d ELSE -sign * d))
        Search(u, sign) ==
            FindInteger(u, LAMBDA w, n : IF n > offset THEN No(w)
                                         ELSE Replace(w, [i \in at |-> Moved(i, n, sign)]))
        t == Each(s, <<1, -1>>, Search)
    IN IF Cardinality(s.changed) <= 1 \/ Cardinality(at) <= 1 THEN s
       ELSE IF t.halt THEN t ELSE Checkpointed(t)

\* Nodes of one kind sorted by key: all at once, or by insertion, swap by swap.
SortValues(s0) ==
    LET KeyLess(s, i, j) == LexLess(Key(s.nodes[i].k, s.nodes[i].v), Key(s.nodes[j].k, s.nodes[j].v))
        Group(s, t) ==
            LET at == Ordered({i \in DOMAIN s.nodes : s.nodes[i].k.t = t}, <)
                sorted == SortedBy(at, LAMBDA i, j : KeyLess(s, i, j))
                target == [i \in ToSet(at) |->
                             ValueAt(s, sorted[CHOOSE p \in DOMAIN at : at[p] = i])]
                whole == IF \A i \in ToSet(at) : target[i] = ValueAt(s, i) THEN No(s)
                         ELSE Replace(s, target)
                RECURSIVE insert(_, _)
                insert(u, j) ==   \* the one after the first j of the group
                    LET live == SelectSeq(at, LAMBDA i : i \in DOMAIN u.nodes /\ u.nodes[i].k.t = t)
                        a == live[j]
                        b == live[j + 1]
                        swapped == SetTwo(u, a, ValueAt(u, b), b, ValueAt(u, a))
                    IN IF j = 0 \/ j >= Len(live) THEN u
                       ELSE IF ~KeyLess(u, b, a) THEN u
                       ELSE IF swapped.ok THEN insert(swapped, j - 1) ELSE swapped
            IN IF Len(at) < 2 THEN s
               ELSE IF whole.ok THEN whole ELSE Each(whole, Up(1, Len(at) - 1), insert)
    IN Group(Group(s0, "int"), "bool")

\* Neighbouring blocks of 2 to 8 nodes of the same kinds exchanged.
SwapAdjacentBlocks(s0) ==
    LET Swap(s, size, i) ==   \* after the first i nodes
            LET here == (i + 1)..(i + size)
                Other(j) == IF j \in here THEN j + size ELSE j - size
                both == (i + 1)..(i + 2 * size)
            IN IF \/ \E j \in here : s.nodes[j].k.t # s.nodes[j + size].k.t
                  \/ \A j \in here : s.nodes[j].v = s.nodes[j + size].v
               THEN s ELSE Replace(s, [j \in both |-> ValueAt(s, Other(j))])
        RECURSIVE from(_, _, _)
        from(s, size, i) == IF s.halt \/ i + 2 * size > Len(s.nodes) THEN s
                            ELSE from(Swap(s, size, i), size, i + 1)
    IN Each(s0, Up(2, 8), LAMBDA s, size : from(s, size, 0))

\* The values at some of a node's indices, in that order, each once and without its own.
AtIndices(n, indices) ==
    FoldLeft(LAMBDA vs, x : vs \o SetToSeq(FromIndex(n.k, x) \ (ToSet(vs) \cup {n.v})), <<>>, indices)
Indexed(n) == ~IsSeq(n.k)
Index(n) == ToIndex(n.k, n.v)
Typed(n, v) == [t |-> n.k.t, v |-> v]
\* The nodes with i set to v and everything after it simplest.
ZeroedAfter(nodes, i, v) ==
    [j \in DOMAIN nodes |-> CASE j < i -> nodes[j]
                               [] j = i -> WithValue(nodes[j], v)
                               [] j > i -> WithValue(nodes[j], Simplest(nodes[j].k))]

\* Lower a node by index and raise one up to three nodes later.
LowerAndBump(s0) ==
    LET Lowered(n) == IF Index(n) > 1 THEN AtIndices(n, <<0, Index(n) - 1>>)
                      ELSE AtIndices(n, <<Index(n) - 1>>)
        Alone(s, i, v) ==
            LET attempt == [s.nodes EXCEPT ![i] = WithValue(@, v)]
            IN IF ~Validate(s.nodes[i].k, v) THEN s
               ELSE Attempt(Attempt(s, attempt), ZeroedAfter(attempt, i, v))
        Bump(s, i, val, j) ==
            LET m == s.nodes[j]
                Try(u, x) == FoldSet(LAMBDA v, w : SetTwo(w, i, val, j, Typed(m, v)),
                                     No(u), FromIndex(m.k, x))
                relative == UntilAccepted(s, <<Index(m) + 1, Index(m) + 2, Index(m) + 4>>, Try)
                powers == SelectSeq([e \in 1..8 |-> 2 ^ (e - 1)], LAMBDA x : x <= MaxIndex(m.k))
            IN IF j > Len(s.nodes) THEN s
               ELSE IF IsSeq(m.k) \/ relative.ok THEN (IF IsSeq(m.k) THEN s ELSE relative)
               ELSE Each(relative, powers, LAMBDA u, x : Try(Try(u, x - 1), x))
        At(s, gap, i) ==
            LET n == s.nodes[i]
            IN IF ~Indexed(n) \/ AtSimplest(n) \/ i + gap > Len(s.nodes) THEN s
               ELSE Each(s, Lowered(n), LAMBDA u, v :
                        Bump(IF gap = 1 THEN Alone(u, i, v) ELSE u, i, Typed(n, v), i + gap))
    IN Each(s0, Up(1, AtMost(Len(s0.nodes), 4) - 1),
            LAMBDA s, gap : Sweep(s, LAMBDA u, i : At(u, gap, i)))

\* A less simple value may end the run earlier: raise a node and zero what follows.
TryShorteningViaIncrement(s0) ==
    LET Raised(n) ==
            LET byIndex == AtIndices(n, <<Index(n) + 1, Index(n) + 2, Index(n) + 4, Index(n) + 8,
                                          Index(n) + 16, MaxIndex(n.k)>>)
                powers == [e \in 1..22 |-> IF e % 2 = 1 THEN 2 ^ (e \div 2) ELSE -(2 ^ (e \div 2 - 1))]
                near == SelectSeq(powers, LAMBDA x : /\ Validate(n.k, <<x>>)
                                                     /\ <<x>> \notin ToSet(byIndex) \cup {n.v})
            IN IF n.k.t = "int" THEN byIndex \o [p \in DOMAIN near |-> <<near[p]>>] ELSE byIndex
    IN Sweep(s0, LAMBDA s, i :
           IF ~Indexed(s.nodes[i]) THEN s
           ELSE Each(s, Raised(s.nodes[i]), LAMBDA u, v :
                    IF i > Len(u.nodes) \/ ~Validate(u.nodes[i].k, v) THEN u
                    ELSE Attempt(u, ZeroedAfter(u.nodes, i, v))))

(* Byte strings and strings (bytes.rs, strings.rs). Alphabets are smaller than *)
(* the 62 characters a string node tries outright.                             *)
IsOf(s, i, t) == i \in DOMAIN s.nodes /\ s.nodes[i].k.t = t
Elements(s, i) == s.nodes[i].v
SetElements(s, i, v) == Set(s, i, [t |-> s.nodes[i].k.t, v |-> v])
AtRank(k, r) == k.alpha[r + 1]

\* Shorten, drop elements, lower elements - for strings those that repeat together first -
\* and sort the elements of the sequence at i.
ShrinkSequence(s0, i) ==
    LET k == s0.nodes[i].k
        Len_(s) == Len(Elements(s, i))
        Cropped(s, v, n) == SetElements(s, i, SubSeq(v, 1, n))
        Simplified(s) == IF AtSimplest(s.nodes[i]) THEN s ELSE SetElements(s, i, Simplest(k))
        Halved(s) == IF Len_(s) <= k.min THEN s
                     ELSE BinSearchDown(s, k.min, Len_(s),
                              LAMBDA u, n : Cropped(u, Elements(s, i), n))
        Scanned(s) == Each(s, Up(k.min, AtMost(k.min + 8, Len_(s)) - 1),
                           LAMBDA u, n : IF n > Len_(u) THEN u ELSE Cropped(u, Elements(u, i), n))
        Dropped(s) == Each(s, Down(Len_(s), 1), LAMBDA u, j :
                           IF Len_(u) <= k.min THEN u ELSE SetElements(u, i, RemoveAt(Elements(u, i), j)))
        \* every c replaced by the element of rank r
        Recast(u, c, r) ==
            IF c \notin Range(Elements(u, i)) THEN No(u)
            ELSE SetElements(u, i, [p \in DOMAIN Elements(u, i) |->
                     IF Elements(u, i)[p] = c THEN AtRank(k, r) ELSE Elements(u, i)[p]])
        Repeated(v) == SelectSeq(k.alpha, LAMBDA c : Cardinality({p \in DOMAIN v : v[p] = c}) > 1)
        Nearer(s, c) ==   \* after the simpler characters in turn
            IF c \notin Range(Elements(s, i)) THEN s
            ELSE BinSearchDown(s, 0, Rank(k, c), LAMBDA u, r : Recast(u, c, r))
        Together(s, c) ==
            IF Rank(k, c) = 0 THEN s
            ELSE Nearer(Each(s, Up(0, Rank(k, c) - 1), LAMBDA u, r :
                             IF c \in Range(Elements(u, i)) THEN Recast(u, c, r) ELSE u), c)
        Alike(s) == IF k.t = "str" THEN Each(s, Repeated(Elements(s, i)), Together) ELSE s
        RankAt(u, j) == Rank(k, Elements(u, i)[j])
        Put(u, j, r) == SetElements(u, i, [Elements(u, i) EXCEPT ![j] = AtRank(k, r)])
        Closer(s, j) ==
            IF RankAt(s, j) = 0 THEN s
            ELSE BinSearchDown(s, 0, RankAt(s, j), LAMBDA u, r : Put(u, j, r))
        Lower(s, j) ==
            IF RankAt(s, j) = 0 THEN s
            ELSE Closer(IF k.t = "bytes" THEN s
                        ELSE Each(s, Up(0, RankAt(s, j) - 1), LAMBDA u, r :
                                  IF r >= RankAt(u, j) THEN u ELSE Put(u, j, r)), j)
        Lowered(s) == Each(s, Down(Len_(s), 1), Lower)
        RECURSIVE insert(_, _)
        insert(s, j) ==   \* the element after the first j
            LET v == Elements(s, i)
                t == SetElements(s, i, [v EXCEPT ![j] = v[j + 1], ![j + 1] = v[j]])
            IN IF j = 0 \/ j >= Len(v) THEN s
               ELSE IF RankAt(s, j) <= RankAt(s, j + 1) THEN s
               ELSE IF t.ok THEN insert(t, j - 1) ELSE t
        Inserted(s) == Each(s, Up(1, Len_(s) - 1), insert)
    IN Inserted(Lowered(Alike(Dropped(Scanned(Halved(Simplified(s0)))))))

ShrinkBytes(s0) == Sweep(s0, LAMBDA s, i : IF IsOf(s, i, "bytes") THEN ShrinkSequence(s, i) ELSE s)
ShrinkStrings(s0) == Sweep(s0, LAMBDA s, i : IF IsOf(s, i, "str") THEN ShrinkSequence(s, i) ELSE s)

\* Move elements from the end of a sequence to the front of a later one.
RedistributePairs(s0, t) ==
    LET At(s) == Ordered({i \in DOMAIN s.nodes : s.nodes[i].k.t = t}, <)
        Pair(s, i, j) ==
            LET a == Elements(s, i)
                b == Elements(s, j)
                Moved(u, n) ==
                    LET v == SubSeq(a, Len(a) - n + 1, Len(a)) \o b
                    IN IF n > Len(a) \/ ~Validate(s.nodes[j].k, v) THEN No(u)
                       ELSE SetTwo(u, i, [t |-> t, v |-> SubSeq(a, 1, Len(a) - n)],
                                   j, [t |-> t, v |-> v])
                all == Moved(s, Len(a))
                one == Moved(all, 1)
            IN IF a = <<>> THEN s
               ELSE IF all.ok THEN all
               ELSE IF ~one.ok THEN one ELSE FindInteger(one, LAMBDA u, n : Moved(u, 1 + n))
        RECURSIVE from(_, _, _)
        from(s, gap, p) == IF s.halt \/ p + gap > Len(At(s)) THEN s
                           ELSE from(Pair(s, At(s)[p], At(s)[p + gap]), gap, p + 1)
    IN Each(s0, <<1, 2>>, LAMBDA s, gap : from(s, gap, 1))
RedistributeBytesPairs(s) == RedistributePairs(s, "bytes")
RedistributeStringPairs(s) == RedistributePairs(s, "str")

\* A character two nearby strings share, lowered in both at once.
LowerDuplicatedCharacters(s0) ==
    LET len == Len(s0.nodes)
        Swapped(v, c, d) == [p \in DOMAIN v |-> IF v[p] = c THEN d ELSE v[p]]
        Shared(s, i, j) ==
            LET a == s.nodes[i]
                b == s.nodes[j]
                Try(u, c, r) ==
                    LET d == AtRank(a.k, r)
                    IN IF ~Validate(a.k, Swapped(a.v, c, d)) \/ ~Validate(b.k, Swapped(b.v, c, d))
                       THEN No(u)
                       ELSE SetTwo(u, i, Typed(a, Swapped(a.v, c, d)), j, Typed(b, Swapped(b.v, c, d)))
                chars == Ordered({c \in Range(a.v) \cap Range(b.v) : Rank(a.k, c) > 0}, <)
            IN Each(s, chars, LAMBDA u, c :
                   BinSearchDown(u, 0, Rank(a.k, c), LAMBDA w, r : Try(w, c, r)))
        pairs == {p \in (1..len) \X (1..len) : p[1] < p[2] /\ p[2] <= p[1] + 4}
    IN Each(s0, Ordered(pairs, LAMBDA p, q : LexLess(p, q)), LAMBDA s, p :
           IF IsOf(s, p[1], "str") /\ IsOf(s, p[2], "str") THEN Shared(s, p[1], p[2]) ELSE s)

\* Each character replaced by its first simpler variant (case, accent) that is accepted.
NormalizeUnicodeChars(s0) ==
    LET Variants(k, c) ==
            Ordered({d \in Simpler(c) \cap Range(k.alpha) : Rank(k, d) < Rank(k, c)},
                         LAMBDA d, e : Rank(k, d) < Rank(k, e))
        At(s, i, v, p) ==
            LET cur == Elements(s, i)
            IN IF p > Len(cur) \/ cur[p] # v[p] THEN s
               ELSE UntilAccepted(s, Variants(s.nodes[i].k, v[p]), LAMBDA u, d :
                        SetElements(u, i, [cur EXCEPT ![p] = d]))
    IN Sweep(s0, LAMBDA s, i :
           IF ~IsOf(s, i, "str") THEN s
           ELSE Each(s, Up(1, Len(Elements(s, i))), LAMBDA u, p : At(u, i, Elements(s, i), p)))

(* Random continuations (coarse.rs, mutation.rs): luck is what a series of     *)
(* them draws, "low" for the simplest value everywhere, "high" for the last.   *)
Prefix(nodes, i, v) == [SubSeq(nodes, 1, i) EXCEPT ![i] = WithValue(@, v)]

\* Lower integers that look like the choice of an alternative, repairing what follows by chance.
InitialCoarseReduction(s0, luck) ==
    LET Alternative(n) == n.k.t = "int" /\ ~n.forced /\ n.v[1] <= 10 /\ n.k.lo = 0
        ShapeChanges(s, i, out) ==
            \/ Len(out.nodes) # Len(s.nodes)
            \/ \E j \in (i + 1)..Len(s.nodes) : s.nodes[j].k.t # out.nodes[j].k.t
        Lower(s, i, x) ==
            LET t == Set(s, i, IntVal(x))
            IN IF t.ok THEN t
               ELSE UntilAccepted(t, luck, LAMBDA u, fill :
                        Probing(u, Prefix(t.nodes, i, <<x>>), Len(t.nodes) + 16, fill))
    IN Sweep(s0, LAMBDA s, i :
           LET out == Look(s, [s.nodes EXCEPT ![i] = WithValue(@, <<0>>)])
           IN IF ~Alternative(s.nodes[i]) THEN s
              ELSE IF s.fuel = 0 THEN OutOfTime(s)
              ELSE IF ~ShapeChanges(s, i, out) THEN Executed(s)
              ELSE UntilAccepted(Executed(s), Up(0, Num(s, i) - 1), LAMBDA u, x : Lower(u, i, x)))

\* Change a node by up to five indices; where that switches the branch the body takes, try
\* random continuations, bare and after one further changed node.
MutateAndShrink(s0, luck) ==
    LET Candidates(n) ==
            AtIndices(n, SelectSeq([d \in 1..10 |-> Index(n) + (IF d % 2 = 1 THEN (d + 1) \div 2
                                                                 ELSE -(d \div 2))],
                                   LAMBDA x : x >= 0))
        Diverged(nodes, i, out) ==
            /\ Len(out.nodes) = Len(nodes)
            /\ \E j \in (i + 1)..Len(nodes) : out.nodes[j].k # nodes[j].k
        Probes(u, prefix, size) == Each(u, luck, LAMBDA w, fill : Probing(w, prefix, size, fill))
        TwoPrefix(nodes, i, v, j) ==
            {Prefix(ZeroedAfter(SubSeq(nodes, 1, j), i, v), j, unit) :
                unit \in FromIndex(nodes[j].k, 1)}
        Try(s, nodes, i, v) ==
            LET attempt == [nodes EXCEPT ![i] = WithValue(@, v)]
                seen == Guarded(s, LAMBDA u : Running(u, attempt))
                ran == seen.calls > s.calls
                later == {j \in (i + 1)..(i + 2) : j <= Len(nodes)}
            IN IF seen.halt \/ ~ran \/ ~Diverged(nodes, i, Look(s, attempt)) THEN seen
               ELSE Each(Probes(seen, Prefix(nodes, i, v), Len(nodes)), Ordered(later, <),
                         LAMBDA u, j : FoldSet(LAMBDA p, w : Probes(w, p, Len(nodes)), u,
                                               TwoPrefix(nodes, i, v, j)))
    IN IF Len(s0.nodes) > 32 THEN s0
       ELSE Sweep(s0, LAMBDA s, i :
                IF s.nodes[i].forced \/ ~Indexed(s.nodes[i]) THEN s
                ELSE Each(s, Candidates(s.nodes[i]), LAMBDA u, v : Try(u, s.nodes, i, v)))

(* The passes by name. *)
Named(name) == <<name, 0>>

RunPass(u, pass, luck) ==
    CASE pass[1] = "remove_discarded" -> RemoveDiscarded(u)
      [] pass[1] = "delete_spans" -> DeleteSpans(u)
      [] pass[1] = "try_trivial_spans" -> TryTrivialSpans(u)
      [] pass[1] = "pass_to_descendant" -> PassToDescendant(u)
      [] pass[1] = "reorder_spans" -> ReorderSpans(u)
      [] pass[1] = "node_program" -> NodeProgram(u, pass[2])
      [] pass[1] = "delete_chunks" -> DeleteChunks(u)
      [] pass[1] = "delete_between_repeats" -> DeleteBetweenRepeats(u)
      [] pass[1] = "zero_choices" -> ZeroChoices(u)
      [] pass[1] = "swap_integer_sign" -> SwapIntegerSign(u)
      [] pass[1] = "binary_search_integer_towards_zero" -> BinarySearchTowardsZero(u)
      [] pass[1] = "bind_deletion" -> BindDeletion(u)
      [] pass[1] = "minimize_individual_choices" -> MinimizeIndividualChoices(u)
      [] pass[1] = "lower_common_node_offset" -> LowerCommonNodeOffset(u)
      [] pass[1] = "redistribute_integers" -> RedistributeIntegers(u)
      [] pass[1] = "lower_integers_together" -> LowerIntegersTogether(u)
      [] pass[1] = "shrink_duplicates" -> ShrinkDuplicates(u)
      [] pass[1] = "sort_values" -> SortValues(u)
      [] pass[1] = "swap_adjacent_blocks" -> SwapAdjacentBlocks(u)
      [] pass[1] = "shrink_bytes" -> ShrinkBytes(u)
      [] pass[1] = "redistribute_bytes_pairs" -> RedistributeBytesPairs(u)
      [] pass[1] = "shrink_strings" -> ShrinkStrings(u)
      [] pass[1] = "lower_duplicated_characters" -> LowerDuplicatedCharacters(u)
      [] pass[1] = "normalize_unicode_chars" -> NormalizeUnicodeChars(u)
      [] pass[1] = "redistribute_string_pairs" -> RedistributeStringPairs(u)
      [] pass[1] = "lower_and_bump" -> LowerAndBump(u)
      [] pass[1] = "try_shortening_via_increment" -> TryShorteningViaIncrement(u)
      [] pass[1] = "mutate_and_shrink" -> MutateAndShrink(u, luck)

Perform(s, what, arg) ==
    CASE what = "consider" -> Consider(s, arg)
      [] what = "inspect" -> Inspect(s, arg)
      [] what = "run" -> RunAndAdopt(s, arg)
      [] what = "probe" -> Probe(s, arg.prefix, arg.size, arg.fill)
      [] what = "pass" -> RunPass(s, arg.pass, arg.luck)
      [] what = "coarse" -> InitialCoarseReduction(s, arg)
=============================================================================
