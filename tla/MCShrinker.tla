----------------------------- MODULE MCShrinker -----------------------------
(* Shrinks of seven small test bodies: a list behind its length, a collection  *)
(* that discards elements, two alternatives of different shapes, two strings   *)
(* around a forced draw, a pair of integers, a tree, and one that may return   *)
(* early. Beside them, single draws of a stream, and streams of recorded       *)
(* choices, grown one choice or one clone at a time.                           *)
EXTENDS ShrinkLoop, ChoiceDraw, ChoiceTree, SequencesExt, FiniteSetsExt

CONSTANT MaxFlat    \* bound: choices of a recorded stream, its clones' included

VARIABLES part, stream

\* every integer drawn shrinks towards zero (state.rs:1946)
IntIn(lo, hi) == [t |-> "int", lo |-> lo, hi |-> hi, to |-> 0]
Bool == [t |-> "bool"]
Bytes == [t |-> "bytes", min |-> 0, max |-> 2, alpha |-> <<0, 1, 2>>]
Str == [t |-> "str", min |-> 1, max |-> 2, alpha |-> <<3, 1, 2>>]
Free(k) == {[k |-> k, forced |-> {}]}
Forced(k, v) == {[k |-> k, forced |-> {v}]}
X(rec, i) == rec[i].v[1]

\* The tree read from position i: where it ends, and how many leaves it has ({} while unfinished).
RECURSIVE TreeEnd(_, _)
TreeEnd(rec, i) ==
    IF i > Len(rec) THEN {}
    ELSE IF X(rec, i) = 0 THEN (IF i + 1 > Len(rec) THEN {} ELSE {i + 1})
    ELSE UNION {TreeEnd(rec, l + 1) : l \in TreeEnd(rec, i + 1)}
RECURSIVE Subtrees(_, _, _)
\* the spans of the tree at i and of its subtrees, in the order they start
Subtrees(rec, i, over) ==
    IF i > Len(rec) THEN <<>>
    ELSE LET to == IF TreeEnd(rec, i) = {} THEN Len(rec) ELSE Min(TreeEnd(rec, i))
             here == <<[from |-> i - 1, to |-> to, label |-> 1, parent |-> over, discarded |-> FALSE]>>
         IN IF X(rec, i) = 0 \/ i + 1 > Len(rec) THEN here
            ELSE here \o Subtrees(rec, i + 1, i)
                   \o (IF TreeEnd(rec, i + 1) = {} THEN <<>>
                       ELSE Subtrees(rec, Min(TreeEnd(rec, i + 1)) + 1, i))
\* the next draw of a tree: its branching bit, or the value of a leaf
RECURSIVE AtLeaf(_, _)
AtLeaf(rec, i) == IF i > Len(rec) THEN FALSE
                  ELSE IF X(rec, i) = 0 THEN (IF i = Len(rec) THEN TRUE ELSE AtLeaf(rec, i + 2))
                  ELSE AtLeaf(rec, i + 1)

MCDraw(body, rec) ==
    LET n == Len(rec)
    IN CASE body[1] = "list" ->
              IF n = 0 THEN Free(IntIn(0, 3)) ELSE IF n <= X(rec, 1) THEN Free(IntIn(0, 4)) ELSE {}
         [] body[1] = "collection" ->
              IF n % 2 = 1 /\ X(rec, n) = 0 THEN {}
              ELSE IF n % 2 = 1 THEN Free(IntIn(0, 3))
              ELSE IF n >= 6 THEN Forced(Bool, <<0>>) ELSE Free(Bool)
         [] body[1] = "either" ->
              IF n = 0 THEN Free(IntIn(0, 1))
              ELSE IF X(rec, 1) = 0 THEN (IF n = 1 THEN Free(IntIn(-2, 4)) ELSE {})
              ELSE IF n = 1 THEN Free(Bytes) ELSE IF n = 2 THEN Free(Bool) ELSE {}
         [] body[1] = "strings" ->
              IF n = 0 THEN Free(Str) ELSE IF n = 1 THEN Forced(Bool, <<1>>)
              ELSE IF n = 2 THEN Free(Str) ELSE {}
         [] body[1] = "pair" -> IF n = 0 THEN Free(IntIn(-3, 5)) ELSE IF n = 1 THEN Free(IntIn(-3, 5)) ELSE {}
         [] body[1] = "early" ->
              IF n = 0 THEN Free(IntIn(0, 3))
              ELSE IF X(rec, 1) = 3 \/ n = 3 THEN {}
              ELSE IF X(rec, 1) = 2 /\ n = 1 THEN Free(IntIn(0, 20))
              ELSE IF X(rec, 1) = 2 /\ X(rec, 2) >= 5 THEN {} ELSE Free(IntIn(0, 3))
         [] body[1] = "tree" ->
              IF AtLeaf(rec, 1) THEN Free(IntIn(0, 2))
              ELSE IF n > 0 /\ TreeEnd(rec, 1) # {} THEN {}
              ELSE IF n >= 3 THEN Forced(Bool, <<0>>) ELSE Free(Bool)

Span(from, to, label, parent, discarded) ==
    [from |-> from, to |-> to, label |-> label, parent |-> parent, discarded |-> discarded]
MCSpans(body, rec) ==
    LET n == Len(rec)
    IN CASE body[1] = "list" ->
              <<Span(0, n, 1, 0, FALSE)>> \o [i \in 1..AtLeast(n - 1, 0) |-> Span(i, i + 1, 2, 1, FALSE)]
         [] body[1] = "collection" ->
              <<Span(0, n, 1, 0, FALSE)>>
                \o [i \in 1..(n \div 2) |-> Span(2 * i - 2, 2 * i, 2, 1, X(rec, 2 * i) = 0)]
         [] body[1] = "either" -> <<Span(0, n, 1, 0, FALSE), Span(1, n, 2, 1, FALSE)>>
         [] body[1] = "tree" -> Subtrees(rec, 1, 0)
         [] OTHER -> <<>>

Total(rec) == FoldLeft(LAMBDA x, c : x + FoldLeft(+, 0, c.v), 0, rec)
\* a failure with no structure a pass could follow
Rough(rec) == FoldLeft(LAMBDA x, c : 3 * x + FoldLeft(LAMBDA y, e : 5 * y + 2 * e, Len(c.v), c.v), 0, rec)
MCInteresting(body, rec) ==
    CASE body[2] = "total" -> Total(rec) >= 5
      [] body[2] = "long" -> Len(rec) >= 4 /\ Total(SubSeq(rec, 2, Len(rec))) >= 1
      [] body[2] = "twins" -> \E i, j \in DOMAIN rec : i < j /\ rec[i] = rec[j] /\ rec[i].v # <<>> /\ rec[i].v # <<0>>
      [] body[2] = "rising" -> \E i \in 1..(Len(rec) - 1) : LexLess(<<0>> \o rec[i].v, <<0>> \o rec[i + 1].v)
      [] body[2] = "gate" -> IF X(rec, 1) = 2 THEN X(rec, 2) \in {8, 20}
                             ELSE X(rec, 1) < 2 /\ Total(Tail(rec)) >= 3
      [] body[2] = "exit" -> X(rec, 1) = 3 \/ (X(rec, 1) < 2 /\ Total(Tail(rec)) >= 3)
      [] body[2] = "rough" -> Rough(rec) % 4 = 1

MCSimpler(c) == IF c = 2 THEN {1, 3} ELSE {}

RECURSIVE RunsOf(_, _)
\* every run of a body that goes on from the nodes drawn so far
RunsOf(body, nodes) ==
    LET next == MCDraw(body, Recorded(nodes))
    IN IF next = {} THEN {nodes}
       ELSE UNION {UNION {RunsOf(body, Append(nodes, Node(d.k, v, d.forced # {}))) :
                              v \in IF d.forced = {} THEN Values(d.k) ELSE d.forced} : d \in next}
Bodies == {"list", "collection", "either", "strings", "pair", "tree"} \X {"total", "long", "twins", "rising", "rough"}
            \cup ({"early"} \X {"gate", "exit"})
StartsOf(body) == {run \in RunsOf(body, <<>>) : MCInteresting(body, Recorded(run))}
\* For each total in ts an interesting run with it that is as long and as far from simple as any.
Some(body, ts) ==
    LET Size(r) == 20 * Len(r) + Cardinality({i \in DOMAIN r : ~AtSimplest(r[i])})
        With(t) == {r \in StartsOf(body) : Total(Recorded(r)) = t}
    IN {LET runs == With(t)
            largest == Max({Size(r) : r \in runs})
        IN CHOOSE r \in runs : Size(r) = largest : t \in {u \in ts : With(u) # {}}}
Start(body, nodes, cap, fuel) == [body |-> body, nodes |-> nodes, cap |-> cap, fuel |-> fuel]
MCStarts ==
    {Start(b, run, limit[1], limit[2]) : <<b, run, limit>> \in
        UNION {{b} \X Some(b, {5, 7}) \X {<<500, 500>>, <<500, 7>>, <<1, 500>>} : b \in Bodies}}
MCLucks == {<<"low", "high">>}

-----------------------------------------------------------------------------
(* Single draws: of every sampler, on ranges of either side of its thresholds, *)
(* and of values replayed from another kind of choice.                         *)

Fresh(op, k) == [op |-> op, k |-> k, p |-> Scale \div 2, forced |-> {}, entry |-> {}, template |-> {}]
IntKinds == {IntIn(r[1], r[2]) : r \in {<<0, 3>>, <<-2, 2>>, <<3, 3>>, <<4, 7>>, <<-32, 31>>, <<-1, 5>>,
                                         <<0, 35>>, <<-40, -37>>, <<-35, 6>>, <<-3, 5>>,
                                         <<5, 8>>, <<20, 23>>, <<-27, -24>>, <<-30, -9>>}}
SeqKinds(t) == {[t |-> t, min |-> r[1], max |-> r[2], alpha |-> a] :
                  r \in {<<0, 0>>, <<0, 1>>, <<0, 3>>, <<1, 1>>, <<1, 3>>, <<2, 3>>, <<3, 3>>},
                  a \in {<<1>>, <<3, 1, 2>>}}
StrKinds == SeqKinds("str") \cup {[Str EXCEPT !.alpha = <<4, 1, 3, 2>>, !.max = 3]}
                            \cup {[Str EXCEPT !.alpha = <<>>, !.min = 0, !.max = 0]}
FreshDraws ==
    {Fresh("integer", k) : k \in IntKinds} \cup {Fresh("uniform", k) : k \in IntKinds}
    \cup {[Fresh(op, Bool) EXCEPT !.p = p] :
              op \in {"boolean", "precise"}, p \in {0, 1, 15, 4095, 4096, Scale \div 2, Scale - 4096, Scale - 1, Scale}}
    \cup {Fresh("bytes", k) : k \in SeqKinds("bytes")} \cup {Fresh("string", k) : k \in StrKinds}
Entries == {[known |-> b, k |-> r.k, v |-> v] : b \in BOOLEAN, r \in {Fresh("integer", IntIn(-3, 5)),
              Fresh("boolean", Bool), Fresh("bytes", Bytes), Fresh("string", Str)}, v \in {<<4>>, <<0>>, <<3>>, <<>>}}
MCRequests ==
    FreshDraws
    \cup {[r EXCEPT !.entry = {e}] : r \in FreshDraws, e \in {x \in Entries : Validate(x.k, x.v)}}
    \cup {[r EXCEPT !.template = {n}] : r \in FreshDraws, n \in {0, 1}}
    \cup {[r EXCEPT !.forced = {Simplest(r.k)}] :
              r \in {x \in FreshDraws : x.op \in {"integer", "boolean", "precise"}}}

MCIMin == -32
MCCurated == {-32, -2, -1, 0, 1, 2, 4, 31}
MCLarge == {-17, 15}
MCStrings == {<<1, 2, 1>>, <<3, 2, 4>>, <<2>>}

-----------------------------------------------------------------------------
(* Recorded streams. *)

Whole == [t |-> "int", lo |-> -200, hi |-> 200, to |-> 5]
Blob == [t |-> "bytes", min |-> 0, max |-> 2, alpha |-> [b \in 1..16 |-> b - 1]]
Text == [t |-> "str", min |-> 0, max |-> 2, alpha |-> <<20, 3>>]
Real == [t |-> "float", min |-> Float!Neg(Float!Inf), max |-> Float!Inf, nan |-> TRUE, inf |-> TRUE,
         tiny |-> Float!Smallest]
Drawn(k, v) == [k |-> k, v |-> v, forced |-> FALSE]

\* Integers about the ends of one and of two bytes, where a byte has 16 values; one NaN
\* only, as the order does not tell them apart.
Few == {Drawn(Whole, <<5>>), Drawn(Bool, <<1>>), Drawn(Real, <<Float!FromBits(57)>>)}
Nodes == {Drawn(Whole, <<n>>) : n \in {-129, -128, -8, 0, 8, 127, 128}} \cup Few
         \cup {Drawn(Bool, <<0>>), Drawn(Blob, <<15, 0>>), Drawn(Text, <<3>>), Drawn(Text, <<20, 3>>)}
         \cup {Drawn(Real, <<f>>) : f \in {Float!Neg(Float!Zero), Float!NaN}}
Short == {<<>>} \cup {<<n>> : n \in Few} \cup {<<m, n>> : m, n \in Few}
Probes == Short \cup {<<CloneOf(r)>> : r \in Short}
          \cup {<<CloneOf(<<CloneOf(r)>>)>> : r \in Short} \cup {<<n, CloneOf(<<n>>)>> : n \in Few}

RecordDraw == \E n \in Nodes : stream' \in {Append(stream, n), <<n>> \o stream}
CloneIt == stream' \in {<<CloneOf(stream)>>, Append(stream, CloneOf(<<>>))}
StreamNext == (RecordDraw \/ CloneIt) /\ FlatLen(stream') <= MaxFlat

\* A test case that is stored, in the database or in a failure blob, is the one that is
\* replayed, however its clones nest, and a damaged entry is told (serialize_choices,
\* deserialize_choices, database.rs).
RecordsRoundTrip == part = "stream" => StoredComesBack(stream)

\* The shrinker's order is total and respects the values and the clones: what makes the stream
\* of a clone simpler makes the test case simpler. The simplest value of a node's constraint is
\* a step down it, in a clone as at the top, and one the node accepts in place of its own.
OrderIsSound ==
    part = "stream" =>
        /\ \A p \in Probes :
              /\ OrderIsTotal(stream, p)
              /\ \A x \in {<<>>, <<Drawn(Whole, <<4>>)>>} :
                    ShrinksInPlace(stream, p, x, <<>>) /\ ShrinksInPlace(p, stream, <<>>, x)
        /\ SimplestIsLeast(stream)
        /\ \A i \in DOMAIN stream : IsClone(stream[i].k) => SimplestIsLeast(stream[i].v)

-----------------------------------------------------------------------------
\* A shrink, a draw or a recorded stream; the other ones are out of play.
MCInit ==
    /\ part \in {"shrink", "draw", "stream"}
    /\ IF part = "shrink" THEN Init
       ELSE /\ s = NewShrinker(<<"early", "exit">>, <<Node(IntIn(0, 3), <<3>>, FALSE)>>, 1, 1)
            /\ pc = "none" /\ passes = <<>> /\ at = 0 /\ round = NoRound
    /\ IF part = "draw" THEN DrawInit
       ELSE request = Fresh("boolean", Bool) /\ node = {} /\ overrun = FALSE
    /\ stream = <<>>
MCNext ==
    /\ \/ part = "shrink" /\ Next /\ UNCHANGED <<drawVars, stream>>
       \/ part = "draw" /\ DrawNext /\ UNCHANGED <<vars, stream>>
       \/ part = "stream" /\ StreamNext /\ UNCHANGED <<vars, drawVars>>
    /\ UNCHANGED part
MCSpec == MCInit /\ [][MCNext]_<<part, vars, drawVars, stream>>
=============================================================================
