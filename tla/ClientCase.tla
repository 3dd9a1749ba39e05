------------------------------ MODULE ClientCase ------------------------------
(* One test case seen from the client: the body drawing from generators, the     *)
(* control unwinds (a rejected assumption, exhausted data, an overspent leaf     *)
(* budget, a mispriced attempt) travelling up the call stack to whoever catches  *)
(* them, the span counter of each TestCase instance kept in step with the        *)
(* engine's span stack, and the report: one `let` line per printed draw, notes   *)
(* deferred past the line of the draw they were made in.                         *)
(*                                                                               *)
(* `stack` is the call stack, innermost frame last.  User code runs in the       *)
(* frames of UserFrames; every other frame is a generator or a loop of the       *)
(* library.  A value is the sequence of the choices it was built from, and so is *)
(* its printed text: a printer that shows a discarded part, or misses a kept     *)
(* one, shows another sequence.                                                  *)
EXTENDS Naturals, Sequences, SequencesExt

CONSTANTS
    MaxFrames,       \* the deepest call stack explored
    MaxNotes,        \* notes the body makes
    MaxAttempts,     \* RECURSION_MAX_ATTEMPTS
    MaxReprices,     \* RECURSION_MAX_REPRICES
    MaxLeaves,       \* a recursive generator's leaf budget
    MaxTries,        \* filter's attempts
    MinSize,         \* a collection's minimum size
    RejectionSlack,  \* rejections a short collection may make (3 in many_reject)
    Tests            \* tests: the constructs a body `uses` and the choices it may record

ASSUME ClientCaseAssumption ==
    /\ {MaxFrames, MaxNotes, MaxReprices, MinSize, RejectionSlack} \subseteq Nat
    /\ {MaxAttempts, MaxLeaves, MaxTries} \subseteq Nat \ {0}
    /\ Tests \subseteq [uses : SUBSET STRING, data : Nat]

VARIABLES
    stack,      \* the client's call stack
    inst,       \* the TestCase instances: the body's, and the running rule's child
    spans,      \* the engine's open spans: the stack positions of their openers
    engine,     \* "live", or how the family concluded: "stop" or "assume"
    data,       \* choices left
    raising,    \* the control payload in flight, "" when none
    line,       \* the last `let` line committed to the document
    shown,      \* the notes in the document, in order
    uses,       \* the constructs this test uses
    notes,      \* notes made so far
    missed,     \* a draw of the test body printed no line
    swallowed,  \* a rejection was caught while spans it had opened were open
    result      \* the outcome the lifecycle classifies, "" until then

doc == <<line, shown, notes>>
seen == <<missed, swallowed, uses>>
caseVars == <<stack, inst, spans, engine, data, raising, doc, seen, result>>

BodyFrames == {"body", "iteration", "rule"}
UserFrames == BodyFrames \cup {"composite", "custom"}

Top == Last(stack)
Rest == Front(stack)
SetTop(f) == Append(Rest, f)

Nothing == [val |-> <<>>, text |-> <<>>]
Join(a, b) == [val |-> a.val \o b.val, text |-> a.text \o b.text]

\* `acc` is what the frame has kept and printed, `key` the part of an entry it has,
\* `new` the candidate just drawn, `plan` the draws still to make.
Frame(k, i, quiet) ==
    [k |-> k, i |-> i, quiet |-> quiet, stage |-> "start", span |-> FALSE, kind |-> "",
     acc |-> Nothing, key |-> Nothing, new |-> Nothing, plan |-> <<>>,
     n |-> 0, m |-> 0, r |-> 0, base |-> <<0, 0>>, scope |-> 0]

Fresh == [span_depth |-> 0, printing_depth |-> 0, pending |-> <<>>]

CaseInit ==
    /\ stack = <<Frame("body", "root", TRUE)>>
    /\ inst = [i \in {"root", "child"} |-> Fresh]
    /\ spans = <<>> /\ engine = "live"
    /\ raising = "" /\ line = Nothing /\ shown = <<>> /\ notes = 0 /\ result = ""
    /\ missed = FALSE /\ swallowed = FALSE
    /\ \E t \in Tests : uses = t.uses /\ data = t.data

-----------------------------------------------------------------------------
(* The engine behind a call: a concluded family answers with its conclusion,     *)
(* and a draw on exhausted data concludes it.                                    *)

Refused ==
    /\ engine # "live"
    /\ raising' = IF engine = "assume" THEN "AssumeFailed" ELSE "StopTest"

\* A call that records one choice; `then` is the call stack afterwards.
Choice(then) ==
    /\ \/ Refused /\ UNCHANGED <<stack, engine, data>>
       \/ engine = "live" /\ data = 0
          /\ engine' = "stop" /\ raising' = "StopTest" /\ UNCHANGED <<stack, data>>
       \/ engine = "live" /\ data > 0
          /\ data' = data - 1 /\ stack' = then /\ UNCHANGED <<engine, raising>>
    /\ UNCHANGED <<inst, spans, doc, seen, result>>

\* A call that records none: it is refused, or `stack` and `spans` move on.
Call(then, open, depth) ==
    /\ \/ Refused /\ UNCHANGED <<stack, spans>>
       \/ engine = "live" /\ stack' = then /\ spans' = open /\ UNCHANGED raising
    /\ inst' = [inst EXCEPT ![Top.i].span_depth = depth]
    /\ UNCHANGED <<engine, data, doc, seen, result>>

Depth == inst[Top.i].span_depth
Calling(k, stage) == raising = "" /\ result = "" /\ Top.k = k /\ Top.stage = stage

\* start_span: the counter is put back when the engine refuses.
StartSpan(frames) ==
    Call(frames, Append(spans, Len(frames)), IF engine = "live" THEN Depth + 1 ELSE Depth)

\* stop_span: the counter goes down first, whatever the engine answers.
StopSpan(then) == Call(then, IF spans = <<>> THEN spans ELSE Front(spans), Depth - 1)

-----------------------------------------------------------------------------
(* User code. *)

Room(k) == Len(stack) + k <= MaxFrames

UserFree == raising = "" /\ result = "" /\ Top.k \in UserFrames /\ Top.stage = "start"

\* A named draw made in the middle of another is delivered without a line.
MidDraw(i) == inst[i].span_depth > 0 \/ inst[i].printing_depth > 0

InGenerator == \E n \in DOMAIN stack : stack[n].i = Top.i /\ stack[n].k \in {"composite", "custom"}

\* __draw_named.
DrawNamed ==
    /\ UserFree /\ Room(1)
    /\ IF MidDraw(Top.i)
       THEN /\ stack' = SetTop([Top EXCEPT !.stage = "waiting"])
            /\ UNCHANGED inst
       ELSE /\ stack' = Append(SetTop([Top EXCEPT !.stage = "waiting"]),
                               [Frame("draw", Top.i, FALSE) EXCEPT !.stage = "waiting"])
            /\ inst' = [inst EXCEPT ![Top.i].printing_depth = @ + 1]
    /\ missed' = (missed \/ (MidDraw(Top.i) /\ ~InGenerator))
    /\ UNCHANGED <<spans, engine, data, raising, doc, swallowed, uses, result>>

DrawSilent ==
    /\ UserFree /\ Top.k \in BodyFrames /\ "silent" \in uses
    /\ stack' = SetTop([Top EXCEPT !.stage = "waiting"])
    /\ UNCHANGED <<inst, spans, engine, data, raising, doc, seen, result>>

\* note: inline, or deferred to the end of the draw being printed.
Emit(i) ==
    IF inst[i].printing_depth > 0
    THEN inst' = [inst EXCEPT ![i].pending = Append(@, notes + 1)] /\ UNCHANGED shown
    ELSE shown' = Append(shown, notes + 1) /\ UNCHANGED inst

Note ==
    /\ UserFree /\ notes < MaxNotes
    /\ Emit(Top.i) /\ notes' = notes + 1
    /\ UNCHANGED <<stack, spans, engine, data, raising, line, seen, result>>

Raise(payloads) ==
    /\ raising' \in payloads
    /\ UNCHANGED <<stack, inst, spans, engine, data, doc, seen, result>>

Reject == UserFree /\ Raise({"AssumeFailed"})
Panic == UserFree /\ "panic" \in uses /\ Raise({"Panic"})

-----------------------------------------------------------------------------
(* Generators.  A waiting frame holds an inner generator it is about to draw;    *)
(* what that one draws is delivered to it.                                       *)

Waiting == raising = "" /\ result = "" /\ Top.stage = "waiting"

\* User code sees the value, its own printing is its generator's; a value drawn
\* "hidden", "afterwards" or by user code is drawn without a printer.
InnerQuiet == Top.quiet \/ Top.k \in UserFrames
              \/ (Top.plan # <<>> /\ Head(Top.plan) \in {"hidden", "afterwards"})

\* draw_and_print_value: a value drawn without a printer, printed as a whole.
Whole(val) == [val |-> val, text |-> IF Top.quiet THEN <<>> ELSE val]

Deliver(frames, v) ==
    LET f == Last(frames)
    IN  Append(Front(frames),
               CASE f.k = "composite" -> [f EXCEPT !.stage = "start", !.acc.val = @ \o v.val]
                 [] f.k = "custom" -> [f EXCEPT !.stage = "start", !.acc.val = @ \o v.val]
                 [] f.k \in BodyFrames -> [f EXCEPT !.stage = "start"]
                 [] OTHER -> [f EXCEPT !.stage = "got", !.new = v])

\* A primitive: one choice, in a span the engine opens and closes itself.
Primitive ==
    /\ Waiting
    /\ Choice(Deliver(stack, [val |-> <<data>>, text |-> IF InnerQuiet THEN <<>> ELSE <<data>>]))

Inner(k) == Frame(k, Top.i, InnerQuiet)
Enter(f) == StartSpan(Append(stack, [f EXCEPT !.span = TRUE]))

\* The draws a combinator makes: a "choice" of its own (an index, a flag), a "value"
\* of the result, a "hidden" value the result is derived from, a value printed
\* "afterwards" because what is printed is a function of it.
MappedDraws  == {<<"afterwards">>}
CallDraws    == {<<"value">>}
FlatMapDraws == {<<"hidden", "value">>}
TupleDraws   == {<<"value", "value">>}
ArrayDraws   == {<<"value", "value">>}
OneOfDraws   == {<<"choice", "value">>}
OptionalDraws== {<<"choice", "value">>, <<"choice">>}

Plans == [mapped |-> MappedDraws, print_as_call |-> CallDraws, flat_map |-> FlatMapDraws,
          tuple |-> TupleDraws, array |-> ArrayDraws, one_of |-> OneOfDraws,
          optional |-> OptionalDraws]

PlanStage(plan) ==
    IF plan = <<>> THEN "done" ELSE IF Head(plan) = "choice" THEN "choose" ELSE "waiting"

EnterCombinator ==
    /\ Waiting /\ Room(1)
    /\ \E k \in DOMAIN Plans \cap uses : \E plan \in Plans[k] :
          Enter([Inner("combinator") EXCEPT !.plan = plan, !.stage = PlanStage(plan)])

CombinatorChoice ==
    /\ Calling("combinator", "choose")
    /\ Choice(SetTop([Top EXCEPT !.plan = Tail(@), !.stage = PlanStage(Tail(Top.plan))]))

Moved(f) == /\ stack' = SetTop(f)
            /\ UNCHANGED <<inst, spans, engine, data, raising, doc, seen, result>>

CombinatorGot ==
    /\ Calling("combinator", "got")
    /\ Moved([Top EXCEPT !.plan = Tail(@), !.stage = PlanStage(Tail(Top.plan)), !.new = Nothing,
                         !.acc = CASE Head(Top.plan) = "hidden" -> @
                                   [] Head(Top.plan) = "afterwards" -> Join(@, Whole(Top.new.val))
                                   [] OTHER -> Join(@, Top.new)])

CombinatorDone == Calling("combinator", "done") /\ StopSpan(Deliver(Rest, Top.acc))

-----------------------------------------------------------------------------
(* filter: each try in a span and a speculation of its own. *)

EnterFilter ==
    Waiting /\ Room(1) /\ "filter" \in uses /\ Enter([Inner("filter") EXCEPT !.stage = "waiting"])

FilterAccepts == Calling("filter", "got") /\ StopSpan(Deliver(Rest, Join(Top.acc, Top.new)))

FilterRejects ==
    /\ Calling("filter", "got")
    /\ StopSpan(SetTop([Top EXCEPT !.n = @ + 1, !.new = Nothing, !.stage = "again",
                                   !.span = FALSE]))

FilterAgain ==
    /\ Calling("filter", "again")
    /\ IF Top.n = MaxTries THEN Raise({"AssumeFailed"})
       ELSE StartSpan(SetTop([Top EXCEPT !.stage = "waiting", !.span = TRUE]))

-----------------------------------------------------------------------------
(* Collections: many_more decides, many_reject takes a duplicate back.  `n` is   *)
(* the collection's count, `m` its rejections, `r` its force_stop.               *)

\* What one entry draws: an element, or a key and then the value it is fresh for.
VecEntry      == <<"value">>
SetEntry      == <<"value">>
MapEntry      == <<"value", "value">>
BTreeSetEntry == <<"value">>
BTreeMapEntry == <<"value", "value">>

Entries == [vec |-> VecEntry, hash_set |-> SetEntry, hash_map |-> MapEntry,
            btree_set |-> BTreeSetEntry, btree_map |-> BTreeMapEntry]

EnterList ==
    /\ Waiting /\ Room(1)
    /\ \E kind \in DOMAIN Entries \cap uses :
          Enter([Inner("list") EXCEPT !.kind = kind, !.stage = "more"])

\* Collection::more, for a collection that is (re)entered at stage `entry`.
More(entry, plan) ==
    \E go \in {g \in BOOLEAN : IF Top.r = 1 THEN ~g ELSE Top.n < MinSize => g} :
        Choice(SetTop([Top EXCEPT !.stage = IF go THEN entry ELSE "done", !.plan = plan,
                                  !.n = IF go THEN @ + 1 ELSE @]))

CollectionMore == Calling("list", "more") /\ More("waiting", Entries[Top.kind])

KeyFresh ==
    /\ Calling("list", "got") /\ Len(Top.plan) > 1
    /\ Moved([Top EXCEPT !.key = Top.new, !.new = Nothing, !.plan = Tail(@), !.stage = "waiting"])

ElementKept ==
    /\ Calling("list", "got") /\ Len(Top.plan) = 1
    /\ Moved([Top EXCEPT !.acc = Join(@, Join(Top.key, Top.new)), !.key = Nothing,
                         !.new = Nothing, !.stage = "more"])

\* A duplicate: too many below the minimum conclude the case, and the client
\* ignores the answer; above it the next decision stops the collection.
ElementRejected ==
    /\ Calling("list", "got") /\ Top.acc.val # <<>> /\ Top.plan = Entries[Top.kind]
    /\ LET count == Top.n - 1
           spent == Top.m + 1 > (IF 2 * count > RejectionSlack THEN 2 * count ELSE RejectionSlack)
       IN  /\ stack' = SetTop([Top EXCEPT !.n = count, !.m = @ + 1, !.new = Nothing, !.stage = "more",
                                          !.r = IF spent /\ count >= MinSize THEN 1 ELSE @])
           /\ engine' = IF engine = "live" /\ spent /\ count < MinSize THEN "assume" ELSE engine
    /\ UNCHANGED <<inst, spans, data, raising, doc, seen, result>>

ListDone == Calling("list", "done") /\ StopSpan(Deliver(Rest, Top.acc))

\* subsequences, permutations and samples: a collection of indices, drawn without
\* a printer; the value is printed once its span is closed.
Sampled == {"subsequence", "permutation", "sample"}

EnterSample ==
    /\ Waiting /\ Room(1)
    /\ \E kind \in Sampled \cap uses :
          Enter([Inner("sample") EXCEPT !.kind = kind, !.stage = "more"])

SampleMore == Calling("sample", "more") /\ More("index", <<>>)

SampleIndex ==
    /\ Calling("sample", "index")
    /\ Choice(SetTop([Top EXCEPT !.acc.val = Append(@, data), !.stage = "more"]))

SampleDone == Calling("sample", "done") /\ StopSpan(Deliver(Rest, Whole(Top.acc.val)))

-----------------------------------------------------------------------------
(* recursive: subtree draws in one scope; the "recursive" frame holds the        *)
(* attempt: `n` its leaves, `m` the attempts spent, `r` the reprices.            *)

\* Spans are closed as discarded until `depth` are left.
CutTo(depth) == IF Len(spans) > depth THEN SubSeq(spans, 1, depth) ELSE spans

EnterRecursive ==
    /\ Waiting /\ "recursive" \in uses /\ Room(2)
    /\ Choice(Append(stack, [Inner("recursive") EXCEPT !.base = <<Depth, Len(spans)>>]))

EnterRoot ==
    /\ Calling("recursive", "start")
    /\ Enter([Frame("subtree", Top.i, Top.quiet) EXCEPT !.scope = Len(stack), !.stage = "decide"])

\* A branch function draws sub-values of its own scope, or of one around it.
EnterSubtree ==
    /\ Waiting /\ Room(1)
    /\ \E s \in {stack[n].scope : n \in {m \in DOMAIN stack : stack[m].k = "subtree" /\ stack[m].n = 1}} :
          Enter([Inner("subtree") EXCEPT !.scope = s, !.stage = "decide", !.m = 1])

\* recursion_branch.
Branch ==
    /\ Calling("subtree", "decide")
    /\ \E branch \in BOOLEAN :
          Choice(SetTop([Top EXCEPT !.stage = IF branch THEN "waiting" ELSE "leaf",
                                    !.n = IF branch THEN 1 ELSE 0]))

\* recursion_leaf: the leaf is counted, and one too many unwinds the attempt.
CountLeaf ==
    /\ Calling("subtree", "leaf")
    /\ \/ Refused /\ UNCHANGED stack
       \/ /\ engine = "live"
          /\ stack' = [SetTop([Top EXCEPT !.stage = "waiting"]) EXCEPT ![Top.scope].n = @ + 1]
          /\ raising' = IF stack[Top.scope].n + 1 > MaxLeaves THEN "LeafBudgetExceeded" ELSE ""
    /\ UNCHANGED <<inst, spans, engine, data, doc, seen, result>>

SubtreeDone ==
    /\ Calling("subtree", "got")
    /\ StopSpan(Deliver(Rest, Top.new))

\* recursion_finish at the root: a mispriced attempt is discarded, with its spans.
Mispriced ==
    /\ Calling("subtree", "got") /\ Top.m = 0 /\ engine = "live"
    /\ LET scope == stack[Top.scope]
       IN  /\ scope.r < MaxReprices
           /\ spans' = CutTo(scope.base[2])
           /\ stack' = [stack EXCEPT ![Top.scope].n = 0, ![Top.scope].r = @ + 1]
    /\ raising' = "AttemptMispriced"
    /\ UNCHANGED <<inst, engine, data, doc, seen, result>>

RecursiveDone ==
    /\ Calling("recursive", "got")
    /\ stack' = Deliver(Rest, Top.new)
    /\ UNCHANGED <<inst, spans, engine, data, raising, doc, seen, result>>

-----------------------------------------------------------------------------
(* Generators written by users: a composite runs in a span and prints its value  *)
(* at the end; a hand-written Generator opens no span.                           *)

EnterComposite == Waiting /\ Room(1) /\ "composite" \in uses /\ Enter(Inner("composite"))
EnterCustom ==
    /\ Waiting /\ "custom" \in uses /\ Room(1)
    /\ stack' = Append(stack, Inner("custom"))
    /\ UNCHANGED <<inst, spans, engine, data, raising, doc, seen, result>>

CompositeReturns == UserFree /\ Top.k = "composite" /\ StopSpan(Deliver(Rest, Whole(Top.acc.val)))
CustomReturns ==
    /\ UserFree /\ Top.k = "custom"
    /\ stack' = Deliver(Rest, Whole(Top.acc.val))
    /\ UNCHANGED <<inst, spans, engine, data, raising, doc, seen, result>>

-----------------------------------------------------------------------------
(* The end of a printed draw: its line, then the notes made during it. *)

\* PrintingDrawScope::drop.
\* Mutant: the notes are dropped when the draw unwinds.
EndDrawForgetting ==
    /\ inst' = [inst EXCEPT ![Top.i].printing_depth = @ - 1, ![Top.i].pending = <<>>]
    /\ shown' = IF raising = "" THEN shown \o inst[Top.i].pending ELSE shown
EndDraw ==
    /\ inst' = [inst EXCEPT ![Top.i].printing_depth = @ - 1, ![Top.i].pending = <<>>]
    /\ shown' = shown \o inst[Top.i].pending

DrawDone ==
    /\ Calling("draw", "got")
    /\ line' = Top.new /\ EndDraw
    /\ stack' = Deliver(Rest, Top.new)
    /\ UNCHANGED <<spans, engine, data, raising, notes, seen, result>>

-----------------------------------------------------------------------------
(* repeat: the loop of a test body.  A rejected iteration is dropped, any other  *)
(* unwind leaves the loop, a failure after recording that the loop continued.    *)

EnterRepeat ==
    /\ UserFree /\ Top.k \in BodyFrames /\ "repeat" \in uses /\ Room(2)
    /\ Choice(Append(stack, [Frame("repeat", Top.i, TRUE) EXCEPT !.stage = "more"]))

RepeatMore ==
    /\ Calling("repeat", "more")
    /\ \E go \in BOOLEAN :
          Choice(IF go THEN Append(stack, [Frame("iteration", Top.i, TRUE) EXCEPT !.base = <<Depth, Len(spans)>>])
                 ELSE SetTop([Top EXCEPT !.stage = "done"]))

RepeatDone == Calling("repeat", "done") /\ Raise({"LoopDone"})

-----------------------------------------------------------------------------
(* run: the sequential state machine.  Every step runs a rule on a child         *)
(* instance, in a span closed as discarded when the rule was rejected.           *)

RunMachine ==
    /\ UserFree /\ Top.k = "body" /\ "machine" \in uses /\ Room(2)
    /\ stack' = Append(SetTop([Top EXCEPT !.stage = "moved"]), Frame("machine", "root", TRUE))
    /\ UNCHANGED <<inst, spans, engine, data, raising, doc, seen, result>>

OpenStep == Calling("machine", "start") /\ StartSpan(SetTop([Top EXCEPT !.stage = "group"]))

NextGroup ==
    /\ Calling("machine", "group")
    /\ \E go \in BOOLEAN : Choice(SetTop([Top EXCEPT !.stage = IF go THEN "rule" ELSE "last"]))

CallRule ==
    /\ Calling("machine", "rule")
    /\ stack' = Append(SetTop([Top EXCEPT !.stage = "joined"]),
                       [Frame("rule", "child", TRUE) EXCEPT !.base = <<0, Len(spans)>>])
    /\ inst' = [inst EXCEPT !.child = Fresh]
    /\ UNCHANGED <<spans, engine, data, raising, doc, seen, result>>

CloseStep == Calling("machine", "joined") /\ StopSpan(SetTop([Top EXCEPT !.stage = "start"]))
CloseLast == Calling("machine", "last") /\ StopSpan(Rest)

-----------------------------------------------------------------------------
(* Returning, and unwinding. *)

Returns ==
    /\ raising = "" /\ result = "" /\ Top.k \in BodyFrames /\ Top.stage \in {"start", "moved"}
    /\ IF Top.k = "body" THEN result' = "valid" /\ UNCHANGED stack
       ELSE stack' = Rest /\ UNCHANGED result
    /\ UNCHANGED <<inst, spans, engine, data, raising, doc, seen>>

Unwinding(ks) == raising # "" /\ result = "" /\ Top.k \in ks

\* Caught: the unwind ends here.
Caught(then) == stack' = then /\ raising' = ""

UnwindGenerator ==
    /\ Unwinding({"combinator", "filter", "list", "sample", "subtree", "composite", "custom", "repeat", "machine"})
    /\ stack' = Rest
    /\ UNCHANGED <<inst, spans, engine, data, raising, doc, seen, result>>

UnwindDraw ==
    /\ Unwinding({"draw"})
    /\ EndDraw /\ stack' = Rest
    /\ UNCHANGED <<line, spans, engine, data, raising, notes, seen, result>>

\* draw_recursive catches a spent budget, whichever scope's leaf spent it, and
\* retries: the engine closes the scope's spans and the client follows.
\* Mutant: the client keeps its counter.
RetryKeeping ==
    /\ Unwinding({"recursive"}) /\ raising \in {"LeafBudgetExceeded", "AttemptMispriced"}
    /\ Caught(SetTop([Top EXCEPT !.n = 0, !.m = @ + 1]))
    /\ spans' = CutTo(Top.base[2])
    /\ UNCHANGED <<inst, engine, data, doc, seen, result>>
Retry ==
    /\ Unwinding({"recursive"}) /\ raising \in {"LeafBudgetExceeded", "AttemptMispriced"}
    /\ IF raising = "AttemptMispriced"
       THEN /\ Caught(stack)
            /\ inst' = [inst EXCEPT ![Top.i].span_depth = Top.base[1]]
            /\ UNCHANGED <<spans, engine>>
       ELSE /\ spans' = CutTo(Top.base[2])
            /\ IF Top.m + 1 >= MaxAttempts
               THEN engine' = "assume" /\ raising' = "AssumeFailed" /\ stack' = Rest /\ UNCHANGED inst
               ELSE /\ Caught(SetTop([Top EXCEPT !.n = 0, !.m = @ + 1]))
                    /\ inst' = [inst EXCEPT ![Top.i].span_depth = Top.base[1]]
                    /\ UNCHANGED engine
    /\ UNCHANGED <<data, doc, seen, result>>

UnwindRecursive ==
    /\ Unwinding({"recursive"}) /\ raising \notin {"LeafBudgetExceeded", "AttemptMispriced"}
    /\ stack' = Rest
    /\ UNCHANGED <<inst, spans, engine, data, raising, doc, seen, result>>

Leaks == Len(spans) > Top.base[2]

IterationRejected ==
    /\ Unwinding({"iteration"}) /\ raising = "AssumeFailed"
    /\ Caught(Rest) /\ swallowed' = (swallowed \/ Leaks)
    /\ UNCHANGED <<inst, spans, engine, data, doc, missed, uses, result>>

IterationUnwinds ==
    /\ Unwinding({"iteration"}) /\ raising = "StopTest"
    /\ stack' = Rest
    /\ UNCHANGED <<inst, spans, engine, data, raising, doc, seen, result>>

\* A failure: the loop's decision is recorded before it goes on unwinding, and a
\* draw that is refused replaces it.
IterationFails ==
    /\ Unwinding({"iteration"}) /\ raising \notin {"AssumeFailed", "StopTest"}
    /\ stack' = Rest
    /\ \/ Refused /\ UNCHANGED <<engine, data>>
       \/ engine = "live" /\ data = 0 /\ engine' = "stop" /\ raising' = "StopTest" /\ UNCHANGED data
       \/ engine = "live" /\ data > 0 /\ data' = data - 1 /\ UNCHANGED <<engine, raising>>
    /\ UNCHANGED <<inst, spans, doc, seen, result>>

RuleRejected ==
    /\ Unwinding({"rule"}) /\ raising = "AssumeFailed"
    /\ stack' = Rest
    /\ IF engine = "live" THEN raising' = "" ELSE UNCHANGED raising
    /\ swallowed' = (swallowed \/ Leaks)
    /\ UNCHANGED <<inst, spans, engine, data, doc, missed, uses, result>>

\* The step's span is closed; a refusal replaces what was unwinding.
RuleUnwinds ==
    /\ Unwinding({"rule"}) /\ raising # "AssumeFailed"
    /\ stack' = Rest
    /\ inst' = [inst EXCEPT !.root.span_depth = @ - 1]
    /\ \/ Refused /\ UNCHANGED spans
       \/ engine = "live" /\ spans' = (IF spans = <<>> THEN spans ELSE Front(spans)) /\ UNCHANGED raising
    /\ UNCHANGED <<engine, data, doc, seen, result>>

\* run_test_case.
Verdict == [AssumeFailed |-> "invalid", StopTest |-> "overrun", LoopDone |-> "valid",
            Panic |-> "interesting", LeafBudgetExceeded |-> "interesting"]

BodyUnwinds ==
    /\ Unwinding({"body"})
    /\ result' = Verdict[raising] /\ raising' = ""
    /\ UNCHANGED <<stack, inst, spans, engine, data, doc, seen>>

UserStep == DrawNamed \/ DrawSilent \/ Note \/ Reject \/ Panic \/ Returns
            \/ CompositeReturns \/ CustomReturns

GeneratorStep ==
    \/ Primitive \/ EnterCombinator \/ CombinatorChoice \/ CombinatorGot \/ CombinatorDone
    \/ EnterFilter \/ FilterAccepts \/ FilterRejects \/ FilterAgain
    \/ EnterList \/ CollectionMore \/ KeyFresh \/ ElementKept \/ ElementRejected \/ ListDone
    \/ EnterSample \/ SampleMore \/ SampleIndex \/ SampleDone
    \/ EnterRecursive \/ EnterRoot \/ EnterSubtree \/ Branch \/ CountLeaf
    \/ SubtreeDone \/ Mispriced \/ RecursiveDone
    \/ EnterComposite \/ EnterCustom \/ DrawDone

LoopStep == EnterRepeat \/ RepeatMore \/ RepeatDone
            \/ RunMachine \/ OpenStep \/ NextGroup \/ CallRule \/ CloseStep \/ CloseLast

UnwindStep ==
    \/ UnwindGenerator \/ UnwindDraw \/ Retry \/ UnwindRecursive
    \/ IterationRejected \/ IterationUnwinds \/ IterationFails
    \/ RuleRejected \/ RuleUnwinds \/ BodyUnwinds

CaseEnded == result # "" /\ UNCHANGED caseVars

CaseNext == UserStep \/ GeneratorStep \/ LoopStep \/ UnwindStep \/ CaseEnded

CaseSpec == CaseInit /\ [][CaseNext]_caseVars

-----------------------------------------------------------------------------
(* Every `let` line of the report shows the value the draw returned: nothing of  *)
(* a candidate filter refused, a duplicate element, an attempt that was retried  *)
(* or a draw that unwound stays in the document, and nothing kept is missing     *)
(* (generators.rs draw_filtered, collections.rs draw_vec, recursive.rs).         *)
LineIsTheValue == line.text = line.val

(* While the case goes on, the client's counters and the engine's span stack     *)
(* agree, and the open spans are those of the frames still running, innermost    *)
(* last: every unwind that was caught closed what it abandoned on both sides.    *)
(* (A rejection caught by repeat or by a rule while spans were open is excluded. *)
(* DrawsAreReported says what comes of it.)                                      *)
Opened(n) == stack[n].span \/ (stack[n].k = "machine" /\ stack[n].stage \in {"group", "rule", "joined", "last"})
SpansInStep ==
    (raising = "" /\ result = "" /\ engine = "live" /\ ~swallowed) =>
        /\ Len(spans) = inst.root.span_depth + inst.child.span_depth
        /\ ToSet(spans) = {n \in DOMAIN stack : Opened(n)}
        /\ \A a, b \in DOMAIN spans : a < b => spans[a] < spans[b]

(* No note is lost, repeated or reordered within an instance, whatever unwinds   *)
(* the draw it was made in: it is in the report, or waits for a printed draw of  *)
(* its own instance that is still running.                                       *)
NotesKept ==
    LET waiting == inst.root.pending \o inst.child.pending
    IN  /\ IsInjective(shown \o waiting)
        /\ ToSet(shown \o waiting) = 1..notes
        /\ \A i \in DOMAIN inst :
              inst[i].pending # <<>> => \E n \in DOMAIN stack : stack[n].k = "draw" /\ stack[n].i = i

(* What the report says happened, happened.                                      *)
ReportIsFaithful == LineIsTheValue /\ NotesKept

(* A case the engine concluded is reported as it concluded it: no catch on the   *)
(* way up (repeat, a rule, a recursive draw, a collection that ignores an error) *)
(* turns an exhausted or rejected case into a passing or a failing one.          *)
VerdictIsConclusion ==
    (result # "" /\ engine # "live") => result = (IF engine = "stop" THEN "overrun" ELSE "invalid")

(* Whatever catches a control payload leaves nothing behind that the engine did  *)
(* not close, and hides no conclusion.                                           *)
UnwindsClean == SpansInStep /\ VerdictIsConclusion

(* pretty.rs:4: "prints every drawn value as a `let` binding".  A draw the test  *)
(* body makes outside any generator has its line.                                *)
DrawsAreReported == ~missed
=============================================================================
