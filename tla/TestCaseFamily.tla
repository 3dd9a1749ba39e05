------------------------------ MODULE TestCaseFamily ------------------------------
(* One test case from the moment the engine offers it to the moment the engine  *)
(* has read it back: the family of handles the C ABI gives to the client's      *)
(* threads (FamilyShared, tc_guard, hegel_mark_complete, hegel_test_case_clone  *)
(* in hegel-c/src/lib.rs), the streams they draw from (NativeTestCase,          *)
(* FamilyCore, NativeDataSource) and the engine's read-back (Engine::execute).  *)
(*                                                                              *)
(* Each handle has its own lock and each stream has its own; the conclusion and *)
(* the draw counter are shared.  A drawn value is abstract: a stream's nodes    *)
(* only record, per choice, whether it is a value or which stream was cloned    *)
(* there.  Handles and streams are in one-to-one correspondence, the root first.*)
EXTENDS Naturals, FiniteSets, SequencesExt

CONSTANTS
    Threads,            \* client threads driving handles
    Modes,              \* the kinds of case explored: see ModeOK
    MaxStreams,         \* bound: streams of the family (Root included)
    MAX_DEPTH,          \* spans nested deeper make the case invalid
    MaxOpenSpans,       \* bound: spans a client leaves open on one stream
    USIZE_MAX           \* stands for usize::MAX: more than any run can draw

None == "None"
Nobody == "Nobody"          \* owner of a free lock
Engine == "Engine"          \* the run's thread, inside hegel_next_test_case

Status == {"EarlyStop", "Invalid", "Valid", "Interesting"}

Ops == {"draw", "clone", "start_span", "stop_span"}

\* A case that generates, or a bare replay (no RNG, no template); which calls its
\* clients make, which outcomes they report, and bounds: the root stream's max_size,
\* the streams cloned, the recorded length of a cloned stream's prefix and the
\* nesting of clones past which the case is invalid.
ModeOK(m) ==
    /\ m.replay \in BOOLEAN
    /\ m.ops \subseteq Ops
    /\ m.statuses \subseteq Status
    /\ m.streams \in 1 .. MaxStreams
    /\ {m.max_size, m.child_prefix, m.max_clone_depth} \subseteq Nat

ASSUME ConstantsOK ==
    /\ Nobody \notin Threads /\ Engine \notin Threads
    /\ MaxStreams \in Nat \ {0}
    /\ \A m \in Modes : ModeOK(m)
    /\ MAX_DEPTH \in Nat
    /\ MaxOpenSpans \in Nat
    /\ USIZE_MAX \in Nat

Root == 0
StreamIds == 0 .. MaxStreams - 1

Value == MaxStreams         \* a node that is an ordinary choice

VARIABLES
    mode,               \* which of the Modes this case is
    \* FamilyCore
    conclusion,         \* None, or the write-once Status
    total_draws,
    \* NativeTestCase, per stream
    nodes,              \* the realised choices
    max_size,
    open_spans,         \* length of span_stack
    frozen,
    clone_children,     \* streams cloned from this one, not yet reassembled
    depth,              \* clone_id.len()
    streams,            \* number of streams created
    aborted,            \* NativeDataSource::aborted
    stream_lock,        \* who holds the stream's mutex
    \* FamilyShared and HegelTestCase
    completed,          \* FamilyShared::completed
    handle_lock,        \* who holds HegelTestCase::local
    handle_completed,   \* LocalState::completed
    \* client threads and the engine
    pc, call,           \* where a thread stands, and what it is doing
    epc,                \* where the run stands with this case
    path,               \* streams reassemble has locked, root first
    record,             \* per stream, what take_nodes recorded of it
    reassembled,        \* reassemble found the family concluded
    outcome,            \* what take_outcome returned
    reports             \* times ds.mark_complete was called

family == <<conclusion, total_draws>>
streamVars == <<nodes, max_size, open_spans, frozen, clone_children, depth,
                streams, aborted>>
handleVars == <<completed, handle_lock, handle_completed>>
threadVars == <<pc, call>>
engineVars == <<epc, path, record, reassembled, outcome>>

vars == <<family, streamVars, stream_lock, handleVars, threadVars, engineVars,
          reports>>

Created == 0 .. streams - 1

NoRecord == <<>>

\* for_choices_and_template / with_random: a bare replay is bounded stream by
\* stream, anything an RNG can extend is bounded by the family budget.
Budget == IF mode.replay THEN USIZE_MAX ELSE mode.max_size

NoCall == [op |-> None, handle |-> Root, status |-> None]

Init ==
    /\ mode \in Modes
    /\ conclusion = None
    /\ total_draws = 0
    /\ nodes = [s \in StreamIds |-> <<>>]
    /\ max_size = [s \in StreamIds |-> mode.max_size]
    /\ open_spans = [s \in StreamIds |-> 0]
    /\ frozen = [s \in StreamIds |-> FALSE]
    /\ clone_children = [s \in StreamIds |-> <<>>]
    /\ depth = [s \in StreamIds |-> 0]
    /\ streams = 1
    /\ aborted = [s \in StreamIds |-> FALSE]
    /\ stream_lock = [s \in StreamIds |-> Nobody]
    /\ completed = FALSE
    /\ handle_lock = [s \in StreamIds |-> Nobody]
    /\ handle_completed = [s \in StreamIds |-> FALSE]
    /\ pc = [t \in Threads |-> "idle"]
    /\ call = [t \in Threads |-> NoCall]
    /\ epc = "offered"
    /\ path = <<>>
    /\ record = [s \in StreamIds |-> NoRecord]
    /\ reassembled = FALSE
    /\ outcome = None
    /\ reports = 0

-----------------------------------------------------------------------------
(* Steps of a client thread.                                                    *)

\* Mutant: the last caller wins.
ConcludeLast(status) == conclusion' = status

\* FamilyCore::conclude: under the conclusion's lock, the first caller wins.
Conclude(status) ==
    conclusion' = IF conclusion = None THEN status ELSE conclusion

Goto(t, where) == pc' = [pc EXCEPT ![t] = where]

\* The call returns: the handle's guard and the stream's guard are dropped.
Return(t) ==
    /\ Goto(t, "idle")
    /\ call' = [call EXCEPT ![t] = NoCall]
    /\ handle_lock' = [handle_lock EXCEPT ![call[t].handle] = Nobody]

DropStreamLock(t) ==
    stream_lock' = [stream_lock EXCEPT ![call[t].handle] = Nobody]

\* The bounds of the model: what a client asks for stays within them.
WithinBounds(h, op) ==
    /\ op = "clone" =>
          \/ depth[h] + 1 > mode.max_clone_depth
          \/ streams + Cardinality({t \in Threads : call[t].op = "clone"}) < mode.streams
    /\ op = "start_span" => open_spans[h] < MaxOpenSpans

\* tc_guard: refuse a completed family, then try_lock the handle.  (A refusal
\* returns HEGEL_E_ALREADY_COMPLETE or HEGEL_E_CONCURRENT_USE and changes nothing.)
TcGuard(t, h, op) ==
    /\ pc[t] = "idle"
    /\ WithinBounds(h, op)
    /\ ~completed
    /\ handle_lock[h] = Nobody
    /\ handle_lock' = [handle_lock EXCEPT ![h] = t]
    /\ call' = [call EXCEPT ![t] = [op |-> op, handle |-> h, status |-> None]]
    /\ Goto(t, "guarded")
    /\ UNCHANGED <<family, streamVars, stream_lock, completed, handle_completed,
                   engineVars, reports>>

\* with_ntc: an aborted source answers from the family's status (aborted_error,
\* which locks the stream for a moment) without touching the stream.
AbortedReturn(t) ==
    LET s == call[t].handle IN
    /\ pc[t] = "guarded"
    /\ aborted[s]
    /\ stream_lock[s] = Nobody
    /\ Return(t)
    /\ UNCHANGED <<family, streamVars, stream_lock, completed, handle_completed,
                   engineVars, reports>>

\* with_ntc: take the stream's lock.
LockStream(t) ==
    LET s == call[t].handle IN
    /\ pc[t] = "guarded"
    /\ ~aborted[s]
    /\ stream_lock[s] = Nobody
    /\ stream_lock' = [stream_lock EXCEPT ![s] = t]
    /\ Goto(t, "locked")
    /\ UNCHANGED <<family, streamVars, call, handleVars, engineVars, reports>>

Choosing(t) == call[t].op \in {"draw", "clone"}

\* pre_choice, first half: a concluded family fails the draw, which latches the
\* source's abort flag (Overrun and InvalidTestCase both do).
PreChoiceRefuses(t) ==
    LET s == call[t].handle IN
    /\ pc[t] = "locked"
    /\ Choosing(t)
    /\ conclusion # None
    /\ aborted' = [aborted EXCEPT ![s] = TRUE]
    /\ DropStreamLock(t)
    /\ Return(t)
    /\ UNCHANGED <<family, nodes, max_size, open_spans, frozen, clone_children,
                   depth, streams, completed, handle_completed, engineVars, reports>>

\* Mutant: the draw does not look at the family's conclusion.
PreChoiceBlind(t) ==
    /\ pc[t] = "locked"
    /\ Choosing(t)
    /\ Goto(t, "choosing")
    /\ UNCHANGED <<family, streamVars, stream_lock, call, handleVars, engineVars,
                   reports>>

PreChoicePasses(t) ==
    /\ pc[t] = "locked"
    /\ Choosing(t)
    /\ conclusion = None
    /\ Goto(t, "choosing")
    /\ UNCHANGED <<family, streamVars, stream_lock, call, handleVars, engineVars,
                   reports>>

\* pre_choice, second half: the length check, and only if it passes the
\* fetch_add against the family budget.
FitsStream(s) == Len(nodes[s]) < max_size[s]

ChoiceFits(s) == FitsStream(s) /\ total_draws < Budget

CountDraw(s) ==
    total_draws' = IF FitsStream(s) THEN total_draws + 1 ELSE total_draws

Overrun(t) ==
    LET s == call[t].handle IN
    /\ pc[t] = "choosing"
    /\ ~ChoiceFits(s)
    /\ CountDraw(s)
    /\ Conclude("EarlyStop")
    /\ aborted' = [aborted EXCEPT ![s] = TRUE]
    /\ DropStreamLock(t)
    /\ Return(t)
    /\ UNCHANGED <<nodes, max_size, open_spans, frozen, clone_children, depth,
                   streams, completed, handle_completed, engineVars, reports>>

\* A draw_* method pushes its node.
Draw(t) ==
    LET s == call[t].handle IN
    /\ pc[t] = "choosing"
    /\ call[t].op = "draw"
    /\ ChoiceFits(s)
    /\ CountDraw(s)
    /\ nodes' = [nodes EXCEPT ![s] = Append(@, Value)]
    /\ DropStreamLock(t)
    /\ Return(t)
    /\ UNCHANGED <<conclusion, max_size, open_spans, frozen, clone_children, depth,
                   streams, aborted, completed, handle_completed, engineVars, reports>>

\* clone_stream: too deep a clone concludes the case Invalid and freezes the
\* stream; otherwise a placeholder node is pushed and the child registered.
CloneTooDeep(t) ==
    LET s == call[t].handle IN
    /\ pc[t] = "choosing"
    /\ call[t].op = "clone"
    /\ ChoiceFits(s)
    /\ CountDraw(s)
    /\ depth[s] + 1 > mode.max_clone_depth
    /\ Conclude("Invalid")
    /\ frozen' = [frozen EXCEPT ![s] = TRUE]
    /\ open_spans' = [open_spans EXCEPT ![s] = IF frozen[s] THEN @ ELSE 0]
    /\ aborted' = [aborted EXCEPT ![s] = TRUE]
    /\ DropStreamLock(t)
    /\ Return(t)
    /\ UNCHANGED <<nodes, max_size, clone_children, depth, streams, completed,
                   handle_completed, engineVars, reports>>

\* In a bare replay the child replays what was recorded for it (any length);
\* otherwise its own size is unlimited and only the family budget binds.
CloneStream(t) ==
    LET s == call[t].handle
        c == streams IN
    /\ pc[t] = "choosing"
    /\ call[t].op = "clone"
    /\ ChoiceFits(s)
    /\ CountDraw(s)
    /\ depth[s] + 1 <= mode.max_clone_depth
    /\ c < mode.streams
    /\ nodes' = [nodes EXCEPT ![s] = Append(@, c)]
    /\ clone_children' = [clone_children EXCEPT ![s] = Append(@, c)]
    /\ depth' = [depth EXCEPT ![c] = depth[s] + 1]
    /\ \E len \in IF mode.replay THEN 0 .. mode.child_prefix ELSE {USIZE_MAX} :
          max_size' = [max_size EXCEPT ![c] = len]
    /\ streams' = streams + 1
    /\ DropStreamLock(t)
    /\ Return(t)
    /\ UNCHANGED <<conclusion, open_spans, frozen, aborted, completed,
                   handle_completed, engineVars, reports>>

\* start_span does not look at the conclusion.  Past MAX_DEPTH it concludes the
\* case Invalid and freezes the stream, which closes the open spans once.
StartSpan(t) ==
    LET s == call[t].handle
        tooDeep == open_spans[s] + 1 > MAX_DEPTH IN
    /\ pc[t] = "locked"
    /\ call[t].op = "start_span"
    /\ IF tooDeep
       THEN /\ Conclude("Invalid")
            /\ frozen' = [frozen EXCEPT ![s] = TRUE]
            /\ open_spans' = [open_spans EXCEPT ![s] = IF frozen[s] THEN @ + 1 ELSE 0]
       ELSE /\ open_spans' = [open_spans EXCEPT ![s] = @ + 1]
            /\ UNCHANGED <<conclusion, frozen>>
    /\ DropStreamLock(t)
    /\ Return(t)
    /\ UNCHANGED <<total_draws, nodes, max_size, clone_children, depth, streams,
                   aborted, completed, handle_completed, engineVars, reports>>

\* stop_span without an open span is a no-op.
StopSpan(t) ==
    LET s == call[t].handle IN
    /\ pc[t] = "locked"
    /\ call[t].op = "stop_span"
    /\ open_spans' = [open_spans EXCEPT ![s] = IF @ = 0 THEN 0 ELSE @ - 1]
    /\ DropStreamLock(t)
    /\ Return(t)
    /\ UNCHANGED <<family, nodes, max_size, frozen, clone_children, depth, streams,
                   aborted, completed, handle_completed, engineVars, reports>>

\* hegel_mark_complete: wait for the handle's lock, set the handle's own flag.
\* (A second completion of the same handle returns HEGEL_E_ALREADY_COMPLETE.)
MarkComplete(t, h, status) ==
    /\ pc[t] = "idle"
    /\ handle_lock[h] = Nobody
    /\ ~handle_completed[h]
    /\ handle_lock' = [handle_lock EXCEPT ![h] = t]
    /\ handle_completed' = [handle_completed EXCEPT ![h] = TRUE]
    /\ call' = [call EXCEPT ![t] = [op |-> None, handle |-> h, status |-> status]]
    /\ Goto(t, "completing")
    /\ UNCHANGED <<family, streamVars, stream_lock, completed, engineVars, reports>>

\* FamilyShared::complete: the compare_exchange; the loser is done.
ClaimCompletion(t) ==
    /\ pc[t] = "completing"
    /\ IF completed
       THEN Return(t) /\ UNCHANGED completed
       ELSE /\ completed' = TRUE
            /\ Goto(t, "reporting")
            /\ UNCHANGED <<call, handle_lock>>
    /\ UNCHANGED <<family, streamVars, stream_lock, handle_completed, engineVars,
                   reports>>

\* FamilyShared::complete: the winner calls ds.mark_complete, which locks the
\* root stream and concludes the family.
ReportOutcome(t) ==
    /\ pc[t] = "reporting"
    /\ stream_lock[Root] = Nobody
    /\ Conclude(call[t].status)
    /\ reports' = reports + 1
    /\ Return(t)
    /\ UNCHANGED <<total_draws, streamVars, stream_lock, completed,
                   handle_completed, engineVars>>

-----------------------------------------------------------------------------
(* Steps of the run: hegel_next_test_case / hegel_run_free and Engine::execute. *)

\* hegel_next_test_case resumes the engine only once the family is completed.
\* (Otherwise it returns HEGEL_E_NOT_COMPLETE and changes nothing.)
NextTestCase ==
    /\ epc = "offered"
    /\ completed
    /\ epc' = "take_nodes"
    /\ UNCHANGED <<family, streamVars, stream_lock, handleVars, threadVars, path,
                   record, reassembled, outcome, reports>>

\* take_nodes locks the root; reassemble does nothing unless the family has
\* concluded, and then the root's nodes are cloned as they are.
TakeNodesUnconcluded ==
    /\ epc = "take_nodes"
    /\ stream_lock[Root] = Nobody
    /\ conclusion = None
    /\ record' = [record EXCEPT ![Root] = nodes[Root]]
    /\ epc' = "take_outcome"
    /\ UNCHANGED <<family, streamVars, stream_lock, handleVars, threadVars, path,
                   reassembled, outcome, reports>>

TakeNodes ==
    /\ epc = "take_nodes"
    /\ stream_lock[Root] = Nobody
    /\ conclusion # None
    /\ stream_lock' = [stream_lock EXCEPT ![Root] = Engine]
    /\ path' = <<Root>>
    /\ epc' = "reassemble"
    /\ UNCHANGED <<family, streamVars, handleVars, threadVars, record, reassembled,
                   outcome, reports>>

Top == path[Len(path)]

\* reassemble: lock the next child, freeze it and descend into it, keeping the
\* locks of the streams above it.
ReassembleChild ==
    LET c == Head(clone_children[Top]) IN
    /\ epc = "reassemble"
    /\ clone_children[Top] # <<>>
    /\ stream_lock[c] = Nobody
    /\ stream_lock' = [stream_lock EXCEPT ![c] = Engine]
    /\ frozen' = [frozen EXCEPT ![c] = TRUE]
    /\ open_spans' = [open_spans EXCEPT ![c] = IF frozen[c] THEN @ ELSE 0]
    /\ Conclude("Valid")
    /\ clone_children' = [clone_children EXCEPT ![Top] = Tail(@)]
    /\ path' = Append(path, c)
    /\ UNCHANGED <<total_draws, nodes, max_size, depth, streams, aborted, handleVars,
                   threadVars, epc, record, reassembled, outcome, reports>>

\* Mutant: keeps the guard of the root alive over take_outcome.
RecordStreamKeepsLock ==
    /\ epc = "reassemble"
    /\ clone_children[Top] = <<>>
    /\ record' = [record EXCEPT ![Top] = nodes[Top]]
    /\ path' = Front(path)
    /\ IF Top = Root
       THEN epc' = "take_outcome" /\ reassembled' = TRUE
       ELSE UNCHANGED <<epc, reassembled>>
    /\ UNCHANGED <<family, streamVars, stream_lock, handleVars, threadVars, outcome,
                   reports>>

\* reassemble: no child left, so the stream's nodes are final and recorded; its
\* lock is dropped.  The root ends take_nodes.
RecordStream ==
    /\ epc = "reassemble"
    /\ clone_children[Top] = <<>>
    /\ record' = [record EXCEPT ![Top] = nodes[Top]]
    /\ stream_lock' = [stream_lock EXCEPT ![Top] = Nobody]
    /\ path' = Front(path)
    /\ IF Top = Root
       THEN epc' = "take_outcome" /\ reassembled' = TRUE
       ELSE UNCHANGED <<epc, reassembled>>
    /\ UNCHANGED <<family, streamVars, handleVars, threadVars, outcome, reports>>

\* take_outcome (after the reads of spans, observations and events, which take
\* the same lock): the conclusion, or the UsageError of a case without one.
TakeOutcome ==
    /\ epc = "take_outcome"
    /\ stream_lock[Root] = Nobody
    /\ outcome' = IF conclusion = None THEN "UsageError" ELSE conclusion
    /\ epc' = "done"
    /\ UNCHANGED <<family, streamVars, stream_lock, handleVars, threadVars, path,
                   record, reassembled, reports>>

\* hegel_run_free with the case still in flight: complete(Valid), then the
\* engine is dropped.
RunFree ==
    /\ epc = "offered"
    /\ completed' = TRUE
    /\ epc' = IF completed THEN "dropped" ELSE "free_report"
    /\ UNCHANGED <<family, streamVars, stream_lock, handle_lock, handle_completed,
                   threadVars, path, record, reassembled, outcome, reports>>

RunFreeReport ==
    /\ epc = "free_report"
    /\ stream_lock[Root] = Nobody
    /\ Conclude("Valid")
    /\ reports' = reports + 1
    /\ epc' = "dropped"
    /\ UNCHANGED <<total_draws, streamVars, stream_lock, handleVars, threadVars, path,
                   record, reassembled, outcome>>

-----------------------------------------------------------------------------
\* A call in progress takes its next step.
Proceed(t) ==
    \/ AbortedReturn(t)
    \/ LockStream(t)
    \/ PreChoiceRefuses(t)
    \/ PreChoicePasses(t)
    \/ Overrun(t)
    \/ Draw(t)
    \/ CloneTooDeep(t)
    \/ CloneStream(t)
    \/ StartSpan(t)
    \/ StopSpan(t)
    \/ ClaimCompletion(t)
    \/ ReportOutcome(t)

EngineStep ==
    \/ TakeNodesUnconcluded
    \/ TakeNodes
    \/ ReassembleChild
    \/ RecordStream
    \/ TakeOutcome
    \/ RunFreeReport

Next ==
    \/ \E t \in Threads :
          \/ \E h \in Created, op \in mode.ops : TcGuard(t, h, op)
          \/ \E h \in Created, status \in mode.statuses : MarkComplete(t, h, status)
          \/ Proceed(t)
    \/ NextTestCase
    \/ RunFree
    \/ EngineStep

(* A call that has started keeps running, and so does the engine once resumed.  *)
(* Clients need not call anything; the run's owner, once a case is complete,    *)
(* goes on to the next case or frees the run.                                   *)
Fairness ==
    /\ \A t \in Threads : WF_vars(Proceed(t))
    /\ WF_vars(EngineStep)
    /\ WF_vars(completed /\ (NextTestCase \/ RunFree))

Spec == Init /\ [][Next /\ UNCHANGED mode]_<<mode, vars>>

FairSpec == Spec /\ Fairness

-----------------------------------------------------------------------------
ThreadPCs == {"idle", "guarded", "locked", "choosing", "completing", "reporting"}

EnginePCs == {"offered", "take_nodes", "reassemble", "take_outcome", "done",
              "free_report", "dropped"}

Calls == [op : Ops \cup {None}, handle : StreamIds, status : Status \cup {None}]

FamilyOK ==
    /\ mode \in Modes
    /\ conclusion \in Status \cup {None}
    /\ total_draws \in Nat
    /\ streams \in 1 .. MaxStreams
    /\ reports \in Nat

StreamsOK ==
    /\ max_size \in [StreamIds -> Nat]
    /\ open_spans \in [StreamIds -> Nat]
    /\ frozen \in [StreamIds -> BOOLEAN]
    /\ depth \in [StreamIds -> Nat]
    /\ aborted \in [StreamIds -> BOOLEAN]
    /\ stream_lock \in [StreamIds -> Threads \cup {Engine, Nobody}]

\* What the streams hold, and what the engine reads of it.
ContentsOK ==
    /\ nodes \in [StreamIds -> Seq(StreamIds \cup {Value})]
    /\ clone_children \in [StreamIds -> Seq(StreamIds)]
    /\ record \in [StreamIds -> Seq(StreamIds \cup {Value})]
    /\ path \in Seq(StreamIds)

ControlOK ==
    /\ completed \in BOOLEAN
    /\ handle_lock \in [StreamIds -> Threads \cup {Nobody}]
    /\ handle_completed \in [StreamIds -> BOOLEAN]
    /\ pc \in [Threads -> ThreadPCs]
    /\ call \in [Threads -> Calls]
    /\ epc \in EnginePCs
    /\ reassembled \in BOOLEAN
    /\ outcome \in Status \cup {None, "UsageError"}

TypeOK == FamilyOK /\ StreamsOK /\ ContentsOK /\ ControlOK

\* Once reassemble has gone through the family, what take_nodes recorded of every
\* stream is all that stream ever drew: no straggling thread adds a choice to a
\* stream after it was recorded, and no clone is missing from the record.
RecordIsFinal ==
    reassembled => \A s \in Created : record[s] = nodes[s]

\* Every choice drawn on any stream of the family, as the place it was recorded at.
Drawn == UNION {{s} \X DOMAIN nodes[s] : s \in StreamIds}

\* The streams of a generated case never draw more choices together than the
\* family budget, however their fetch_adds interleave.
BudgetRespected == ~mode.replay => Cardinality(Drawn) <= Budget

\* What a case leaves is exact: the record is what was drawn, within the budget the streams
\* share (reassemble, try_take_draw).
RecordIsExact == RecordIsFinal /\ BudgetRespected

\* What the engine took for the outcome of the case is what the family concluded
\* first, and stays so whatever the straggling threads still report.
OutcomeIsConclusion == outcome \in Status => outcome = conclusion

\* A stream stops answering (the abort latch, StopTest or Assume to the client)
\* only when the family has a conclusion.
AbortedMeansConcluded ==
    \A s \in Created : aborted[s] => conclusion # None

\* ds.mark_complete runs at most once, whichever threads race to complete the
\* family and even if the run is freed meanwhile; a claimed completion is
\* pending or done.
ReportedOnce ==
    LET pending == {t \in Threads : pc[t] = "reporting"} IN
    Cardinality(pending) + reports + (IF epc = "free_report" THEN 1 ELSE 0)
        = IF completed THEN 1 ELSE 0

\* However many threads complete the family, it is concluded once, no stream gives up before
\* that, and the engine goes by that conclusion (FamilyShared::complete, take_outcome).
ConcludedOnce == ReportedOnce /\ AbortedMeansConcluded /\ OutcomeIsConclusion

\* The engine resumed by hegel_next_test_case never finds a case that nobody
\* concluded.
ResumedIsConcluded == outcome # "UsageError"

\* A completed case is always read back by the engine, or dropped with the run:
\* no straggling draw, clone or completion can block the read-back for good.
CompletedIsReadBack == completed ~> epc \in {"done", "dropped"}
=============================================================================
