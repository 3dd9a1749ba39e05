---------------------------- MODULE StateMachine ----------------------------
(* A concurrent stateful test case: NativeStateMachine, which draws the       *)
(* rounds, groups and rules (native/core/state_machine.rs), driven by         *)
(* run_concurrent and its worker threads (src/stateful.rs).                   *)
(*                                                                            *)
(* The main thread and the workers talk over channels, one pair per worker;   *)
(* the engine's state is behind one mutex, so every call into it is a step.   *)
(* A draw may conclude the family of the test case: "overrun" when the choice *)
(* budget is used up, "invalid" when spans nest too deep.  From then on every *)
(* draw of every stream fails with that conclusion.                           *)
(* What a rule does to the model is the user's business: it returns, rejects  *)
(* an assumption, panics, raises a control payload, or draws.                 *)
EXTENDS Integers, Sequences, FiniteSets, SequencesExt

CONSTANTS
    Groups,                 \* concurrency groups
    GroupRules,             \* per group its rules in order of registration
    Levels,                 \* concurrency levels the machine may draw
    StepCount,              \* stateful_step_count
    AttemptMultiplier,      \* ATTEMPT_MULTIPLIER
    MinAttempts,            \* MIN_ATTEMPTS_WITHOUT_SUCCESS
    MaxRoundRules,          \* MAX_ROUND_RULES
    NoGroup, NoRule

Members(g) == {GroupRules[g][k] : k \in DOMAIN GroupRules[g]}
Rules == UNION {Members(g) : g \in Groups}

ASSUME GroupAssumption ==
    /\ NoGroup \notin Groups /\ NoRule \notin Rules
    /\ \A g \in Groups : GroupRules[g] \in Seq(Rules) /\ GroupRules[g] # <<>>
    /\ \A g, h \in Groups : g # h => Members(g) \cap Members(h) = {}
ASSUME BoundAssumption ==
    /\ Levels \subseteq Nat \ {0} /\ \E l \in Levels : \A k \in Levels : k <= l
    /\ StepCount \in Nat \ {0} /\ AttemptMultiplier \in Nat \ {0}
    /\ MinAttempts \in Nat /\ MaxRoundRules \in Nat \ {0}

Workers == 1 .. CHOOSE l \in Levels : \A k \in Levels : k <= l

VARIABLES
    concurrency,    \* the level drawn at creation, 0 before
    currentGroup, roundsStarted, roundsRejected,
    work,           \* per worker its counters of this round (WorkerState)
    flags,          \* per worker its FeatureFlags
    concluded,      \* conclusion of the family: "no", "overrun" or "invalid"
    main,           \* where the main thread stands in run_concurrent
    at,             \* worker its send or receive loop has come to
    inbox,          \* per worker: a round waits in its channel
    event,          \* per worker the event it has sent, "none" if none
    wpc, rule,      \* where each worker stands, and the rule it runs
    result,         \* how the body of the test case ended
    abandoned       \* history: a rule was cut short by a conclusion
machineVars == <<concurrency, currentGroup, roundsStarted, roundsRejected, work, flags>>
mainVars == <<main, at, result>>
vars == <<machineVars, concluded, mainVars, inbox, event, wpc, rule, abandoned>>

Present == 1 .. concurrency

(* ----- feature flags and the selection of a rule ------------------------- *)

FreshFlags == [decided    |-> [r \in Rules |-> "undecided"],
               candidates |-> [g \in Groups |-> Members(g)]]

\* Mutant: the last candidate of a group is decided like any other rule.
IsEnabledUnforced(f, g, r) ==
    {[decided    |-> [f.decided EXCEPT ![r] = d],
      candidates |-> [f.candidates EXCEPT ![g] = IF d = "enabled" THEN {} ELSE @ \ {r}]]
       : d \in IF f.decided[r] # "undecided" THEN {f.decided[r]} ELSE {"enabled", "disabled"}}

\* The flags after rule r of group g was asked for: the last candidate of its
\* group is forced on, a decided rule stays as it is.
IsEnabled(f, g, r) ==
    LET outcomes == IF f.candidates[g] = {r} THEN {"enabled"}
                    ELSE IF f.decided[r] # "undecided" THEN {f.decided[r]}
                    ELSE {"enabled", "disabled"}
    IN  {[decided    |-> [f.decided EXCEPT ![r] = d],
          candidates |-> [f.candidates EXCEPT ![g] =
                             IF d = "enabled" THEN {} ELSE @ \ {r}]] : d \in outcomes}

\* One try of rejection sampling, on a selection [flags, bad, rule].
Try(g, s) ==
    IF s.rule # NoRule THEN {s}
    ELSE {s : r \in s.bad} \cup
         UNION {{IF f.decided[r] = "enabled"
                 THEN [s EXCEPT !.flags = f, !.rule = r]
                 ELSE [s EXCEPT !.flags = f, !.bad = @ \cup {r}]
                   : f \in IsEnabled(s.flags, g, r)} : r \in Members(g) \ s.bad}

\* The fallback comes to rule r on a walk [flags, allowed, rule].
Visit(g, s, speculative, r, w) ==
    IF w.rule # NoRule \/ r \in s.bad THEN {w}
    ELSE {IF f.decided[r] # "enabled" THEN [w EXCEPT !.flags = f]
          ELSE [flags |-> f, allowed |-> w.allowed \cup {r},
                rule |-> IF Cardinality(w.allowed) = speculative THEN r ELSE NoRule]
            : f \in IsEnabled(w.flags, g, r)}

\* The walks over the first n rules of the group, for every n.
Walks(g, s, speculative) ==
    LET walks[n \in 0 .. Len(GroupRules[g])] ==
            IF n = 0 THEN {[flags |-> s.flags, allowed |-> {}, rule |-> NoRule]}
            ELSE UNION {Visit(g, s, speculative, GroupRules[g][n], w) : w \in walks[n - 1]}
    IN  walks

\* The fallback walks over the other rules until more than `speculative` of
\* them are enabled; if there are fewer, any of those is taken, and if there is none
\* an internal assertion fails (NoRule).
Walk(g, s, speculative) ==
    LET walks == Walks(g, s, speculative)[Len(GroupRules[g])]
        picked(w) == IF w.allowed = {} \/ w.rule # NoRule THEN {w.rule} ELSE w.allowed
    IN  UNION {{[flags |-> w.flags, rule |-> r] : r \in picked(w)} : w \in walks}

\* Everything select_rule may return for a worker with flags f, with the flags it leaves.
SelectRule(f, g) ==
    LET TryAll(S) == UNION {Try(g, s) : s \in S}
        tried == TryAll(TryAll(TryAll({[flags |-> f, bad |-> {}, rule |-> NoRule]})))
        speculations(s) == {0} \cup 1 .. Cardinality(Members(g) \ s.bad) - 1
    IN  UNION {IF s.rule # NoRule THEN {[flags |-> s.flags, rule |-> s.rule]}
               ELSE UNION {Walk(g, s, k) : k \in speculations(s)} : s \in tried}

(* ----- draws and the end of the case ------------------------------------- *)

\* A draw fails: it meets the family's conclusion or concludes the family.
DrawFails == concluded' \in IF concluded = "no" THEN {"overrun", "invalid"} ELSE {concluded}

\* The main thread unwinds or returns: its ends of the channels are dropped with its
\* frame.  It leaves `at` alone, which is above 1 only when a send loop was cut short.
Raise(r) == main' = "closing" /\ result' = r /\ UNCHANGED at

Goto(label) == main' = label /\ UNCHANGED <<at, result>>

(* ----- the main thread ---------------------------------------------------- *)

FreshWork == [drawn |-> 0, rejected |-> 0, outstanding |-> FALSE, retry |-> FALSE]

Init ==
    /\ concurrency = 0 /\ currentGroup = NoGroup
    /\ roundsStarted = 0 /\ roundsRejected = 0
    /\ work = [w \in Workers |-> FreshWork]
    /\ flags = [w \in Workers |-> FreshFlags]
    /\ concluded = "no" /\ abandoned = FALSE
    /\ main = "create" /\ at = 1 /\ result = "none"
    /\ inbox = [w \in Workers |-> FALSE] /\ event = [w \in Workers |-> "none"]
    /\ wpc = [w \in Workers |-> "exited"] /\ rule = [w \in Workers |-> NoRule]

\* new_state_machine: a run that does not allow concurrent machines rejects it.
Create ==
    /\ main = "create"
    /\ \/ concurrency' \in Levels /\ Goto("initial") /\ UNCHANGED concluded
       \/ DrawFails /\ Raise(concluded') /\ UNCHANGED concurrency
       \/ Workers # {1} /\ Raise("invalid") /\ UNCHANGED <<concurrency, concluded>>
    /\ UNCHANGED <<currentGroup, roundsStarted, roundsRejected, work, flags,
                   inbox, event, wpc, rule, abandoned>>

\* An invariant panics, rejects, or fails in a draw.
SweepFails ==
    /\ main \in {"initial", "sampled", "final"}
    /\ \/ Raise("invariant") /\ UNCHANGED concluded
       \/ Raise("invalid") /\ UNCHANGED concluded
       \/ DrawFails /\ Raise(concluded')
    /\ UNCHANGED <<machineVars, inbox, event, wpc, rule, abandoned>>

\* After the check of the initial state the worker threads are spawned.
InitialSweep ==
    /\ main = "initial"
    /\ wpc' = [w \in Workers |-> IF w \in Present THEN "parked" ELSE "exited"]
    /\ Goto("group")
    /\ UNCHANGED <<machineVars, concluded, inbox, event, rule, abandoned>>

\* Sampled invariants draw, always-run ones do not: the sweep also passes when the
\* family has concluded.
SampledSweep ==
    /\ main = "sampled" /\ Goto("group")
    /\ UNCHANGED <<machineVars, concluded, inbox, event, wpc, rule, abandoned>>

FinalSweep ==
    /\ main = "final" /\ Raise("ok")
    /\ UNCHANGED <<machineVars, concluded, inbox, event, wpc, rule, abandoned>>

CountedRounds == roundsStarted - roundsRejected
LargerOf(a, b) == IF a >= b THEN a ELSE b
AttemptCap == IF CountedRounds = 0 THEN LargerOf(StepCount * AttemptMultiplier, MinAttempts)
              ELSE StepCount * AttemptMultiplier
LastRound == CountedRounds >= StepCount \/ roundsStarted >= AttemptCap

\* next_group: the decision to go on is forced at the limits and in the first round.
NextGroup ==
    /\ main = "group" /\ concluded = "no" /\ ~LastRound
    /\ currentGroup' \in Groups
    /\ roundsStarted' = roundsStarted + 1
    /\ work' = [w \in Workers |-> FreshWork]
    /\ main' = "send" /\ at' = 1
    /\ UNCHANGED <<concurrency, roundsRejected, flags, concluded, result,
                   inbox, event, wpc, rule, abandoned>>

NoMoreGroups ==
    /\ main = "group" /\ concluded = "no" /\ (LastRound \/ roundsStarted > 0)
    /\ Goto("final")
    /\ UNCHANGED <<machineVars, concluded, inbox, event, wpc, rule, abandoned>>

NextGroupFails ==
    /\ main = "group" /\ DrawFails /\ Raise(concluded')
    /\ UNCHANGED <<machineVars, inbox, event, wpc, rule, abandoned>>

SendRound ==
    /\ main = "send" /\ concluded = "no"
    /\ inbox' = [inbox EXCEPT ![at] = TRUE]
    /\ IF at < concurrency THEN main' = "send" /\ at' = at + 1
       ELSE main' = "recv" /\ at' = 1
    /\ UNCHANGED <<machineVars, concluded, result, event, wpc, rule, abandoned>>

\* The clone made for a worker is a draw and may fail: the workers before it have their
\* round, and the scope waits for them while the main thread unwinds.
SendFails ==
    /\ main = "send" /\ DrawFails /\ Raise(concluded')
    /\ UNCHANGED <<machineVars, inbox, event, wpc, rule, abandoned>>

\* Mutant: the main thread looks into the channels instead of waiting at them.
ReceiveWithoutWaiting ==
    /\ main = "recv"
    /\ IF at < concurrency THEN main' = "recv" /\ at' = at + 1
       ELSE main' = "resolve" /\ at' = 1
    /\ UNCHANGED <<machineVars, concluded, result, inbox, event, wpc, rule, abandoned>>

\* Events are received in the order of the workers; no worker exits in a round,
\* so there is always one to wait for.
ReceiveEvent ==
    /\ main = "recv" /\ event[at] # "none"
    /\ IF at < concurrency THEN main' = "recv" /\ at' = at + 1
       ELSE main' = "resolve" /\ at' = 1
    /\ UNCHANGED <<machineVars, concluded, result, inbox, event, wpc, rule, abandoned>>

\* Mutant: a panic is thought to matter more than a conclusion.
PanicBeforeConclusion ==
    /\ main = "resolve"
    /\ LET seen == {event[w] : w \in Present}
       IN  IF "control" \in seen THEN Raise("control")
           ELSE IF "panic" \in seen THEN Raise("panic")
           ELSE IF "overrun" \in seen THEN Raise("overrun")
           ELSE IF "invalid" \in seen THEN Raise("invalid")
           ELSE Goto("sampled")
    /\ event' = [w \in Workers |-> "none"]
    /\ UNCHANGED <<machineVars, concluded, inbox, wpc, rule, abandoned>>

\* resolve_round: control payloads before overrun before invalid before panics.
ResolveRound ==
    /\ main = "resolve"
    /\ LET seen == {event[w] : w \in Present}
       IN  IF "control" \in seen THEN Raise("control")
           ELSE IF "overrun" \in seen THEN Raise("overrun")
           ELSE IF "invalid" \in seen THEN Raise("invalid")
           ELSE IF "panic" \in seen THEN Raise("panic")
           ELSE Goto("sampled")
    /\ event' = [w \in Workers |-> "none"]
    /\ UNCHANGED <<machineVars, concluded, inbox, wpc, rule, abandoned>>

\* The scope joins its threads.
JoinScope ==
    /\ main = "closing" /\ \A w \in Workers : wpc[w] = "exited"
    /\ Goto("ended")
    /\ UNCHANGED <<machineVars, concluded, inbox, event, wpc, rule, abandoned>>

(* ----- the workers --------------------------------------------------------- *)

TakeRound(w) ==
    /\ wpc[w] = "parked" /\ inbox[w]
    /\ inbox' = [inbox EXCEPT ![w] = FALSE]
    /\ wpc' = [wpc EXCEPT ![w] = "pulling"]
    /\ UNCHANGED <<machineVars, concluded, mainVars, event, rule, abandoned>>

\* Mutant: the workers are told to stop at the normal end only.
ExitAtNormalEnd(w) ==
    /\ wpc[w] = "parked" /\ ~inbox[w] /\ main = "closing" /\ result = "ok"
    /\ wpc' = [wpc EXCEPT ![w] = "exited"]
    /\ UNCHANGED <<machineVars, concluded, mainVars, inbox, event, rule, abandoned>>

ExitLoop(w) ==
    /\ wpc[w] = "parked" /\ ~inbox[w] /\ main = "closing"
    /\ wpc' = [wpc EXCEPT ![w] = "exited"]
    /\ UNCHANGED <<machineVars, concluded, mainVars, inbox, event, rule, abandoned>>

\* A worker's round ends with an event, and it waits for the next round.
Report(w, e) ==
    /\ event' = [event EXCEPT ![w] = e]
    /\ wpc' = [wpc EXCEPT ![w] = "parked"]
    /\ rule' = [rule EXCEPT ![w] = NoRule]

Completed(w) == work[w].drawn - work[w].rejected
Exhausted(w) ==
    IF concurrency = 1 THEN work[w].drawn >= 1
    ELSE \/ work[w].drawn >= MaxRoundRules * AttemptMultiplier
         \/ Completed(w) >= MaxRoundRules

\* next_rule hands out a rule; a retry goes on without a decision to stop.
PullRule(w) ==
    /\ wpc[w] = "pulling" /\ concluded = "no" /\ ~Exhausted(w)
    /\ \E s \in SelectRule(flags[w], currentGroup) :
          /\ flags' = [flags EXCEPT ![w] = s.flags]
          /\ IF s.rule = NoRule THEN Report(w, "control") /\ UNCHANGED work
             ELSE /\ work' = [work EXCEPT ![w].drawn = @ + 1, ![w].outstanding = TRUE,
                                          ![w].retry = FALSE]
                  /\ rule' = [rule EXCEPT ![w] = s.rule]
                  /\ wpc' = [wpc EXCEPT ![w] = "running"] /\ UNCHANGED event
    /\ UNCHANGED <<concurrency, currentGroup, roundsStarted, roundsRejected,
                   concluded, mainVars, inbox, abandoned>>

\* With one worker the end of the round takes no draw, otherwise it is one.
RoundOver(w) ==
    /\ wpc[w] = "pulling"
    /\ \/ concurrency = 1 /\ Exhausted(w)
       \/ /\ concurrency > 1 /\ concluded = "no"
          /\ Exhausted(w) \/ ~work[w].retry
    /\ Report(w, "done")
    /\ UNCHANGED <<machineVars, concluded, mainVars, inbox, abandoned>>

PullFails(w) ==
    /\ wpc[w] = "pulling" /\ ~(concurrency = 1 /\ Exhausted(w))
    /\ DrawFails /\ Report(w, concluded')
    /\ UNCHANGED <<machineVars, mainVars, inbox, abandoned>>

RuleReturns(w) ==
    /\ wpc[w] = "running"
    /\ wpc' = [wpc EXCEPT ![w] = "pulling"] /\ rule' = [rule EXCEPT ![w] = NoRule]
    /\ UNCHANGED <<machineVars, concluded, mainVars, inbox, event, abandoned>>

\* The rule ends with AssumeFailed and the worker reports it to rule_rejected:
\* its own assumption, or the conclusion "invalid" met on a clone it made, which
\* leaves the worker's stream usable.
RuleAssumes(w) ==
    /\ wpc[w] = "running" /\ work[w].outstanding
    /\ \/ UNCHANGED <<concluded, abandoned>>
       \/ concluded # "overrun" /\ concluded' = "invalid" /\ abandoned' = TRUE
    /\ work' = [work EXCEPT ![w].outstanding = FALSE, ![w].rejected = @ + 1, ![w].retry = TRUE]
    /\ roundsRejected' = roundsRejected + IF concurrency = 1 THEN 1 ELSE 0
    /\ wpc' = [wpc EXCEPT ![w] = "pulling"] /\ rule' = [rule EXCEPT ![w] = NoRule]
    /\ UNCHANGED <<concurrency, currentGroup, roundsStarted, flags, mainVars, inbox, event>>

\* A draw of the rule fails.  After "invalid" on the worker's own stream, which is
\* aborted by it, rule_rejected fails too, and so the event is the conclusion.
RuleCut(w) ==
    /\ wpc[w] = "running"
    /\ DrawFails /\ abandoned' = TRUE
    /\ Report(w, concluded')
    /\ UNCHANGED <<machineVars, mainVars, inbox>>

\* A panic of the rule, or a control payload raised in it.
RuleUnwinds(w) ==
    /\ wpc[w] = "running"
    /\ \E e \in {"panic", "control"} : Report(w, e)
    /\ UNCHANGED <<machineVars, concluded, mainVars, inbox, abandoned>>

(* ----- the specification --------------------------------------------------- *)

MainStep == \/ Create \/ SweepFails \/ InitialSweep \/ SampledSweep \/ FinalSweep
            \/ NextGroup \/ NoMoreGroups \/ NextGroupFails
            \/ SendRound \/ SendFails \/ ReceiveEvent \/ ResolveRound \/ JoinScope
WorkerStep(w) == \/ TakeRound(w) \/ ExitLoop(w) \/ PullRule(w) \/ RoundOver(w) \/ PullFails(w)
                 \/ RuleReturns(w) \/ RuleAssumes(w) \/ RuleCut(w) \/ RuleUnwinds(w)
Next == MainStep \/ \E w \in Workers : WorkerStep(w)

\* Every thread is scheduled, and the rules of the user end.
Fairness == WF_vars(MainStep) /\ \A w \in Workers : WF_vars(WorkerStep(w))
Spec == Init /\ [][Next]_vars /\ Fairness

(* ----- properties ----------------------------------------------------------- *)

InRound == main \in {"send", "recv"} \/ (main = "closing" /\ at > 1)
Barrier == INSTANCE RoundBarrier WITH
    current <- IF InRound THEN currentGroup ELSE NoGroup,
    active <- [w \in Workers |-> IF rule[w] = NoRule THEN NoGroup
                                 ELSE CHOOSE g \in Groups : rule[w] \in Members(g)]

\* Rules of different groups never overlap, and the invariants, the choice of the next
\* group and the end of the case find no rule running (run_concurrent, the receive loop
\* and the group that next_rule reads).
ImplementsRounds == Barrier!Spec

\* However the flags are decided, every worker keeps a rule it may run in every group, and
\* whatever it draws, select_rule hands one out: its internal assertion never fails
\* (FeatureFlags::is_enabled and its candidates).
SomeRuleEnabled ==
    \A w \in Workers, g \in Groups :
        /\ \E r \in Members(g) : flags[w].decided[r] # "disabled"
        /\ \A s \in SelectRule(flags[w], g) : s.rule \in Members(g) /\ s.flags.decided[s.rule] = "enabled"

\* A case in which a rule was cut short by the conclusion of the family is not reported
\* by resolve_round as a panic, which may be its after-effect, and never as a success.
CutShortIsNoVerdict == abandoned => result \notin {"panic", "ok"}

\* Every case ends with all threads joined, even if every rule rejects every time: rounds
\* and hand-outs have limits, and whatever ends the main thread wakes the parked workers.
CaseEnds == <>(main = "ended")
=============================================================================
