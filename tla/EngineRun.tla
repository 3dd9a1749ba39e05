-------------------------------- MODULE EngineRun --------------------------------
(* One run of the engine, Engine::run (native/test_runner.rs): the reuse phase,  *)
(* the simplest-example probe, the generation loop with its health checks,       *)
(* budgets, targeting and span mutation, the shrink phase and the report.  What  *)
(* the run does to the database is module Persister; the shrinker is any         *)
(* sequence of probes.                                                           *)
(*                                                                               *)
(* A test case is the rank of its choices in the shrink order, the simplest is 1.*)
(* The test maps cases to what they conclude with; a flaky test may conclude     *)
(* with anything.  Time is nondeterministic: generation may be too slow and the  *)
(* ten seconds after the first bug may be over at any moment.                    *)
EXTENDS Naturals, FiniteSets, FiniteSetsExt

CONSTANTS
    N,                          \* bound: the test has cases 1 .. N
    Origins,
    MaxTestCases,               \* settings.test_cases
    SettingsSet,                \* the settings explored
    DUPLICATE_STOP, SPAN_MUTATION_ATTEMPTS, FILTER_TOO_MUCH_THRESHOLD,
    HEALTH_CHECK_MAX_VALID, MAX_OVERRUN_DRAWS, MIN_TEST_CALLS, POST_BUG_EXTRA_CALLS,
    InvalidBase, InvalidPerValid,       \* invalid_thresholds
    MaxProbes,                  \* bound: executions of one shrink or targeting pass
    MaxCalls                    \* bound: where the count of executions saturates

ASSUME EngineRunOK ==
    /\ N \in Nat \ {0} /\ MaxTestCases \in Nat \ {0}
    /\ {DUPLICATE_STOP, SPAN_MUTATION_ATTEMPTS, FILTER_TOO_MUCH_THRESHOLD,
        HEALTH_CHECK_MAX_VALID, MAX_OVERRUN_DRAWS, MIN_TEST_CALLS, POST_BUG_EXTRA_CALLS,
        InvalidBase, InvalidPerValid, MaxProbes, MaxCalls} \subseteq Nat
    /\ Origins \cap {"Valid", "Invalid", "Overrun", "Concurrent", "none"} = {}
    /\ SettingsSet \subseteq [reuse : BOOLEAN, database : BOOLEAN, generate : BOOLEAN,
                              shrink : BOOLEAN, target : BOOLEAN, report_multiple : BOOLEAN,
                              suppress : BOOLEAN]

Cases == 1 .. N
None == 0
NoVerdict == "none"

\* A case that asks for a concurrent state machine is rejected, and the run turns
\* nondeterministic.
Verdicts == Origins \cup {"Valid", "Invalid", "Overrun", "Concurrent"}

VARIABLES
    test, flaky, settings,
    phase, result,
    calls, valid_test_cases, invalid_test_cases, overrun_test_cases,
    consecutive_duplicates, collect_statistics, test_is_trivial, nondeterministic,
    first_bug_at, last_bug_at,
    interesting,            \* per origin its smallest case
    seen, full,             \* ExecCache: verdict per case, cases with a full entry
    stored,                 \* the stored examples still to replay
    replay_aligned, found_in_reuse,
    last,                   \* what the case just generated concluded with
    attempts,               \* probes made by the current pass
    target, shrunk_origins, \* the shrinker's origin and current case
    shrink_timed_out,
    found, conclusions,     \* history: origins found; per case its latest conclusion
    reuse_counts,           \* history: the counters when the reuse phase ended
    generated               \* history: the conclusions when generation ended

counters == <<calls, valid_test_cases, invalid_test_cases, overrun_test_cases>>
recorded == <<counters, consecutive_duplicates, test_is_trivial, nondeterministic,
              first_bug_at, last_bug_at, interesting, seen, full, found, conclusions>>
input == <<test, flaky, settings>>
shrinking == <<target, shrunk_origins, shrink_timed_out>>
ends == <<reuse_counts, generated>>

vars == <<input, phase, result, recorded, collect_statistics, stored, replay_aligned,
          found_in_reuse, last, attempts, shrinking, ends>>

NoResult == [kind |-> "running"]
NoTarget == [origin |-> NoVerdict, case |-> None]

Init ==
    /\ test \in {[draws |-> d, verdict |-> v] : d \in BOOLEAN, v \in [Cases -> Verdicts]}
    /\ ~test.draws => \A c \in Cases : test.verdict[c] = test.verdict[1]
    /\ flaky \in BOOLEAN
    /\ flaky => \A c \in Cases : test.verdict[c] = "Valid"
    /\ settings \in SettingsSet
    /\ phase = "reuse" /\ result = NoResult
    /\ calls = 0 /\ valid_test_cases = 0 /\ invalid_test_cases = 0 /\ overrun_test_cases = 0
    /\ consecutive_duplicates = 0 /\ collect_statistics = FALSE
    /\ test_is_trivial = FALSE /\ nondeterministic = FALSE
    /\ first_bug_at = None /\ last_bug_at = None
    /\ interesting = [o \in Origins |-> None]
    /\ seen = [c \in Cases |-> NoVerdict] /\ full = {}
    /\ stored \in IF settings.reuse /\ settings.database THEN SUBSET Cases ELSE {{}}
    /\ replay_aligned = (stored # {})
    /\ found_in_reuse = FALSE
    /\ last = NoVerdict /\ attempts = 0
    /\ target = NoTarget /\ shrunk_origins = {} /\ shrink_timed_out = FALSE
    /\ found = {} /\ conclusions = [c \in Cases |-> NoVerdict]
    /\ reuse_counts = [valid |-> 0, rejected |-> 0]
    /\ generated = conclusions

-----------------------------------------------------------------------------
Failures == {o \in Origins : interesting[o] # None}

\* Once the run is nondeterministic, a concurrent state machine does run.
Possible(c) ==
    IF flaky \/ (nondeterministic /\ test.verdict[c] = "Concurrent")
    THEN Origins \cup {"Valid", "Invalid", "Overrun"}
    ELSE {test.verdict[c]}

\* The executions a phase may make: of any case when the test draws at all.
Executions(cases) ==
    {[case |-> c, verdict |-> v] : c \in IF test.draws THEN cases ELSE {1}, v \in Verdicts}

Allowed(run) == run.verdict \in Possible(run.case)

\* The run is nondeterministic once this execution is recorded.
Flips(run) == nondeterministic \/ run.verdict = "Concurrent"

\* record_execution: another conclusion than before for the same choices.
Mismatch(run) ==
    /\ ~Flips(run)
    /\ run.verdict # "Overrun"
    /\ seen[run.case] \notin {NoVerdict, run.verdict}

\* Mutant: every failure becomes the incumbent of its origin.
UpdateInterestingAlways(o, c) == interesting' = [interesting EXCEPT ![o] = c]

\* update_interesting: the first or a smaller failure becomes the incumbent.
UpdateInteresting(o, c) ==
    interesting' = IF interesting[o] = None \/ c < interesting[o]
                   THEN [interesting EXCEPT ![o] = c] ELSE interesting

\* Mutant: an execution that runs out of data is not counted.
CountForgetsOverruns(run) ==
    /\ calls' = Min({calls + 1, MaxCalls})
    /\ valid_test_cases' = valid_test_cases + IF run.verdict = "Valid" THEN 1 ELSE 0
    /\ invalid_test_cases' =
          invalid_test_cases + IF run.verdict \in {"Invalid", "Concurrent"} THEN 1 ELSE 0
    /\ UNCHANGED overrun_test_cases

\* record_run: the counters.
Count(run) ==
    /\ calls' = Min({calls + 1, MaxCalls})
    /\ valid_test_cases' = valid_test_cases + IF run.verdict = "Valid" THEN 1 ELSE 0
    /\ invalid_test_cases' =
          invalid_test_cases + IF run.verdict \in {"Invalid", "Concurrent"} THEN 1 ELSE 0
    /\ overrun_test_cases' = overrun_test_cases + IF run.verdict = "Overrun" THEN 1 ELSE 0

\* ExecCache::record and the duplicate streak of record_execution; the flip to
\* nondeterministic clears them all.
Remember(run) ==
    LET known == seen[run.case] # NoVerdict IN
    IF Flips(run)
    THEN /\ seen' = [c \in Cases |-> NoVerdict]
         /\ full' = {}
         /\ consecutive_duplicates' = 0
    ELSE IF run.verdict = "Overrun" THEN UNCHANGED <<seen, full, consecutive_duplicates>>
    ELSE /\ seen' = IF known THEN seen ELSE [seen EXCEPT ![run.case] = run.verdict]
         /\ full' = IF collect_statistics \/ Mismatch(run) THEN full
                    ELSE full \cup {run.case}
         /\ consecutive_duplicates' =
               IF ~collect_statistics THEN consecutive_duplicates
               ELSE IF known THEN consecutive_duplicates + 1 ELSE 0

\* test_function: execute a case and record everything about its outcome.
TestFunction(run) ==
    /\ Allowed(run)
    /\ Count(run)
    /\ Remember(run)
    /\ nondeterministic' = Flips(run)
    /\ test_is_trivial' =
          (test_is_trivial \/ (~test.draws /\ run.verdict # "Overrun" /\ ~Flips(run)))
    /\ conclusions' = IF run.verdict = "Overrun" THEN conclusions
                      ELSE [conclusions EXCEPT ![run.case] = run.verdict]
    /\ IF run.verdict \in Origins
       THEN /\ first_bug_at' = IF first_bug_at = None THEN calls + 1 ELSE first_bug_at
            /\ last_bug_at' = calls + 1
            /\ UpdateInteresting(run.verdict, run.case)
            /\ found' = found \cup {run.verdict}
       ELSE UNCHANGED <<first_bug_at, last_bug_at, interesting, found>>

Fail(kind) == phase' = "done" /\ result' = [kind |-> kind]

\* The phase after an execution, unless it contradicts an earlier one.
Unless(run, next) ==
    IF Mismatch(run) THEN Fail("Flaky") ELSE phase' = next /\ UNCHANGED result

-----------------------------------------------------------------------------
\* The reuse phase replays the stored examples in order.  One that is aligned draws
\* exactly the stored choices; another may turn into any case.
Reuse(run, aligned) ==
    LET c == Min(stored) IN
    /\ phase = "reuse" /\ stored # {}
    /\ aligned => run.case = IF test.draws THEN c ELSE 1
    /\ TestFunction(run)
    /\ stored' = IF nondeterministic' \/ (run.verdict \in Origins /\ ~settings.report_multiple)
                 THEN {} ELSE stored \ {c}
    /\ replay_aligned' =
          (replay_aligned /\ (run.verdict \in Origins => aligned) /\ ~nondeterministic')
    /\ Unless(run, "reuse")
    /\ UNCHANGED <<input, collect_statistics, found_in_reuse, last, attempts, shrinking, ends>>

\* All are replayed or, after a failure, what is left is of the secondary corpus.
ReuseEnds ==
    /\ phase = "reuse"
    /\ stored = {} \/ Failures # {}
    /\ stored' = {}
    /\ replay_aligned' = (replay_aligned /\ Failures # {})
    /\ found_in_reuse' = (Failures # {})
    /\ collect_statistics' = TRUE
    /\ reuse_counts' = [valid |-> valid_test_cases,
                        rejected |-> invalid_test_cases + overrun_test_cases]
    /\ phase' = "simplest"
    /\ UNCHANGED <<input, result, recorded, last, attempts, shrinking, generated>>

\* Mutant: one rejection more.
WithinInvalidBudgetPlusOne ==
    invalid_test_cases + overrun_test_cases
        <= InvalidBase + 1 + InvalidPerValid * valid_test_cases

\* within_invalid_budget
WithinInvalidBudget ==
    invalid_test_cases + overrun_test_cases
        <= InvalidBase + InvalidPerValid * valid_test_cases

SimplestDue ==
    /\ settings.generate /\ ~test_is_trivial /\ WithinInvalidBudget
    /\ ~found_in_reuse /\ MaxTestCases > 1

\* The simplest-example probe, with the LargeInitialTestCase check.
Simplest(run, large) ==
    /\ phase = "simplest" /\ SimplestDue
    /\ run.case = 1
    /\ TestFunction(run)
    /\ IF Mismatch(run) THEN Fail("Flaky")
       ELSE IF ~settings.suppress /\ (run.verdict = "Overrun" \/ (run.verdict = "Valid" /\ large))
       THEN Fail("HealthCheck")
       ELSE phase' = "generate" /\ UNCHANGED result
    /\ UNCHANGED <<input, collect_statistics, stored, replay_aligned, found_in_reuse, last,
                   attempts, shrinking, ends>>

SkipSimplest ==
    /\ phase = "simplest" /\ ~SimplestDue
    /\ phase' = "generate"
    /\ UNCHANGED <<input, result, recorded, collect_statistics, stored, replay_aligned,
                   found_in_reuse, last, attempts, shrinking, ends>>

\* should_generate_more (its ten-second limit is in GenerateEnds)
ShouldGenerateMore ==
    \/ Failures = {}
    \/ /\ settings.shrink /\ ~nondeterministic /\ settings.report_multiple
       /\ \/ calls < MIN_TEST_CALLS
          \/ calls < Min({first_bug_at + POST_BUG_EXTRA_CALLS, last_bug_at * 2})

\* The condition of the generation loop, checked before every case.
MayGenerate ==
    /\ settings.generate /\ ~found_in_reuse /\ ~test_is_trivial
    /\ valid_test_cases < MaxTestCases
    /\ WithinInvalidBudget
    /\ ~(valid_test_cases = 0 /\ consecutive_duplicates >= DUPLICATE_STOP)
    /\ ShouldGenerateMore

\* Mutant: the health checks go on after a failure was found.
HealthChecksAlways(run, slow) ==
    /\ valid_test_cases' < HEALTH_CHECK_MAX_VALID
    /\ ~settings.suppress
    /\ \/ run.verdict = "Invalid" /\ invalid_test_cases' >= FILTER_TOO_MUCH_THRESHOLD
       \/ overrun_test_cases' >= MAX_OVERRUN_DRAWS
       \/ slow

\* FilterTooMuch, TestCasesTooLarge and TooSlow, while nothing has failed.
HealthChecksFail(run, slow) ==
    /\ \A o \in Origins : interesting'[o] = None
    /\ valid_test_cases' < HEALTH_CHECK_MAX_VALID
    /\ ~settings.suppress
    /\ \/ run.verdict = "Invalid" /\ invalid_test_cases' >= FILTER_TOO_MUCH_THRESHOLD
       \/ overrun_test_cases' >= MAX_OVERRUN_DRAWS
       \/ slow

\* The generation loop executes one random case.
Generate(run, slow) ==
    /\ phase = "generate" /\ MayGenerate
    /\ TestFunction(run)
    /\ IF Mismatch(run) THEN Fail("Flaky")
       ELSE IF HealthChecksFail(run, slow) THEN Fail("HealthCheck")
       ELSE phase' = "target" /\ UNCHANGED result
    /\ last' = run.verdict
    /\ attempts' = 0
    /\ UNCHANGED <<input, collect_statistics, stored, replay_aligned, found_in_reuse,
                   shrinking, ends>>

\* Optimiser::run_trial: once a valid case was scored, targeting executes cases of its
\* own while nothing has failed and its budget lasts.
Optimise(run) ==
    /\ phase = "target"
    /\ settings.target /\ Failures = {}
    /\ attempts = 0 => ~nondeterministic /\ valid_test_cases > 0
    /\ valid_test_cases < MaxTestCases /\ calls < MaxTestCases * 10
    /\ attempts < MaxProbes
    /\ TestFunction(run)
    /\ attempts' = attempts + 1
    /\ Unless(run, "target")
    /\ UNCHANGED <<input, collect_statistics, stored, replay_aligned, found_in_reuse, last,
                   shrinking, ends>>

\* Targeting is not due or done; a valid case is mutated once there are enough.
OptimiseEnds ==
    /\ phase = "target"
    /\ attempts' = 0
    /\ phase' = IF /\ ~nondeterministic /\ last = "Valid"
                   /\ valid_test_cases >= HEALTH_CHECK_MAX_VALID \/ Failures # {}
                THEN "mutate" ELSE "generate"
    /\ UNCHANGED <<input, result, recorded, collect_statistics, stored, replay_aligned,
                   found_in_reuse, last, shrinking, ends>>

MutationDue == attempts < SPAN_MUTATION_ATTEMPTS /\ valid_test_cases < MaxTestCases

\* try_span_mutation executes a mutated case; a failure ends the pass.
Mutate(run) ==
    /\ phase = "mutate" /\ MutationDue
    /\ TestFunction(run)
    /\ attempts' = attempts + 1
    /\ Unless(run, IF run.verdict \in Origins THEN "generate" ELSE "mutate")
    /\ UNCHANGED <<input, collect_statistics, stored, replay_aligned, found_in_reuse, last,
                   shrinking, ends>>

\* A mutated case repeats one with a full entry and, unless the entry was evicted, is
\* served without executing it.
MutationServed(c) ==
    /\ phase = "mutate" /\ MutationDue
    /\ ~nondeterministic /\ c \in full
    /\ attempts' = attempts + 1
    /\ phase' = IF seen[c] \in Origins THEN "generate" ELSE "mutate"
    /\ UNCHANGED <<input, result, recorded, collect_statistics, stored, replay_aligned,
                   found_in_reuse, last, shrinking, ends>>

\* The attempts are used up, or the case has no two spans of one label.
MutateEnds ==
    /\ phase = "mutate"
    /\ phase' = "generate"
    /\ attempts' = 0
    /\ UNCHANGED <<input, result, recorded, collect_statistics, stored, replay_aligned,
                   found_in_reuse, last, shrinking, ends>>

Unsatisfiable ==
    test_is_trivial /\ valid_test_cases = 0 /\ Failures = {} /\ invalid_test_cases > 0

Exhausted ==
    /\ consecutive_duplicates >= DUPLICATE_STOP /\ valid_test_cases = 0 /\ Failures = {}
    /\ ~test_is_trivial /\ ~settings.suppress /\ invalid_test_cases > 0

\* Generation is over, for good or because ten seconds have passed since the first
\* bug: nothing satisfied the assumptions, or there is something to shrink, or not.
GenerateEnds ==
    /\ phase = "generate"
    /\ MayGenerate => first_bug_at # None
    /\ collect_statistics' = FALSE
    /\ generated' = conclusions
    /\ IF Unsatisfiable THEN Fail("Unsatisfiable")
       ELSE IF Exhausted THEN Fail("HealthCheck")
       ELSE /\ phase' = IF /\ Failures # {} /\ ~replay_aligned
                           /\ settings.shrink /\ ~nondeterministic
                        THEN "drain" ELSE "report"
            /\ UNCHANGED result
    /\ attempts' = 0
    /\ UNCHANGED <<input, recorded, stored, replay_aligned, found_in_reuse, last, shrinking,
                   reuse_counts>>

-----------------------------------------------------------------------------
\* The shrink phase first replays secondary entries, without looking at mismatches.
Drain(run) ==
    /\ phase = "drain" /\ settings.database
    /\ attempts < MaxProbes
    /\ TestFunction(run)
    /\ attempts' = attempts + 1
    /\ UNCHANGED <<input, phase, result, collect_statistics, stored, replay_aligned,
                   found_in_reuse, last, shrinking, ends>>

DrainEnds ==
    /\ phase = "drain"
    /\ phase' = "shrink"
    /\ UNCHANGED <<input, result, recorded, collect_statistics, stored, replay_aligned,
                   found_in_reuse, last, attempts, shrinking, ends>>

\* The incumbent fails again, in the same way.
Confirms(o, run) == run.verdict = o

\* The incumbent of the next origin is executed again before it is shrunk.
Verify(o, run) ==
    /\ phase = "shrink" /\ target = NoTarget
    /\ o \in Failures \ shrunk_origins
    /\ run.case = interesting[o]
    /\ TestFunction(run)
    /\ IF Mismatch(run) \/ ~Confirms(o, run) THEN Fail("Flaky") ELSE UNCHANGED <<phase, result>>
    /\ target' = [origin |-> o, case |-> run.case]
    /\ attempts' = 0
    /\ UNCHANGED <<input, collect_statistics, stored, replay_aligned, found_in_reuse, last,
                   shrunk_origins, shrink_timed_out, ends>>

ProbesLeft ==
    phase = "shrink" /\ target # NoTarget /\ ~shrink_timed_out /\ attempts < MaxProbes

\* Shrinker::consider and probe adopt a smaller case with the same origin; the runs
\* that a pass only inspects are never adopted.
Adopt(c, verdict) ==
    \/ target' = target
    \/ verdict = target.origin /\ c < target.case /\ target' = [target EXCEPT !.case = c]

\* EngineShrinkProbe::run executes a case, or has it served from the cache.
ShrinkProbe(run) ==
    /\ ProbesLeft
    /\ TestFunction(run)
    /\ attempts' = attempts + 1
    /\ Adopt(run.case, run.verdict)
    /\ Unless(run, "shrink")
    /\ UNCHANGED <<input, collect_statistics, stored, replay_aligned, found_in_reuse, last,
                   shrunk_origins, shrink_timed_out, ends>>

ShrinkServed(c) ==
    /\ ProbesLeft
    /\ ~nondeterministic /\ c \in full
    /\ attempts' = attempts + 1
    /\ Adopt(c, seen[c])
    /\ UNCHANGED <<input, phase, result, recorded, collect_statistics, stored,
                   replay_aligned, found_in_reuse, last, shrunk_origins, shrink_timed_out,
                   ends>>

\* The shrinker has tried all it wants, or its deadline has passed: its case becomes the
\* incumbent, whatever the incumbent is by now.
ShrinkEnds(timed_out) ==
    /\ phase = "shrink" /\ target # NoTarget
    /\ interesting' = [interesting EXCEPT ![target.origin] = target.case]
    /\ shrunk_origins' = shrunk_origins \cup {target.origin}
    /\ shrink_timed_out' = (shrink_timed_out \/ timed_out)
    /\ target' = NoTarget
    /\ UNCHANGED <<input, phase, result, counters, consecutive_duplicates,
                   collect_statistics, test_is_trivial, nondeterministic, first_bug_at,
                   last_bug_at, seen, full, stored, replay_aligned, found_in_reuse, last,
                   attempts, found, conclusions, ends>>

AllShrunk ==
    /\ phase = "shrink" /\ target = NoTarget
    /\ Failures \subseteq shrunk_origins
    /\ phase' = "report"
    /\ UNCHANGED <<input, result, recorded, collect_statistics, stored, replay_aligned,
                   found_in_reuse, last, attempts, shrinking, ends>>

\* The failures that are reported: all, or the smallest.
Reportable ==
    IF settings.report_multiple THEN Failures
    ELSE {o \in Failures : \A p \in Failures : interesting[o] <= interesting[p]}

Report ==
    /\ phase = "report"
    /\ phase' = "done"
    /\ \E chosen \in IF settings.report_multiple \/ Reportable = {} THEN {Reportable}
                     ELSE {{o} : o \in Reportable} :
          result' = [kind |-> "Ok", blobs |-> ~nondeterministic,
                     failures |-> {[origin |-> o, case |-> interesting[o]] : o \in chosen}]
    /\ UNCHANGED <<input, recorded, collect_statistics, stored, replay_aligned,
                   found_in_reuse, last, attempts, shrinking, ends>>

Finished == phase = "done" /\ UNCHANGED vars

Next ==
    \/ \E run \in Executions(Cases) :
          \/ \E flag \in BOOLEAN : Reuse(run, flag) \/ Simplest(run, flag) \/ Generate(run, flag)
          \/ Optimise(run) \/ Mutate(run) \/ Drain(run) \/ ShrinkProbe(run)
          \/ \E o \in Origins : Verify(o, run)
    \/ ReuseEnds \/ SkipSimplest \/ OptimiseEnds \/ MutateEnds \/ GenerateEnds \/ DrainEnds
    \/ \E c \in Cases : MutationServed(c) \/ ShrinkServed(c)
    \/ \E timed_out \in BOOLEAN : ShrinkEnds(timed_out)
    \/ AllShrunk \/ Report
    \/ Finished

\* The engine is a single thread that always goes on.
Fairness == WF_vars(Next)

Spec == Init /\ [][Next]_vars /\ Fairness

-----------------------------------------------------------------------------
Kinds == {"running", "Ok", "Flaky", "HealthCheck", "Unsatisfiable"}
Searching == {"reuse", "simplest", "generate", "target", "mutate"}
Phases == Searching \cup {"drain", "shrink", "report", "done"}
Conclusions == [Cases -> Verdicts \cup {NoVerdict}]

TypeOK ==
    /\ test \in [draws : BOOLEAN, verdict : [Cases -> Verdicts]] /\ flaky \in BOOLEAN
    /\ settings \in SettingsSet
    /\ phase \in Phases /\ result.kind \in Kinds
    /\ (phase = "done") = (result.kind # "running")
    /\ {calls, valid_test_cases, invalid_test_cases, overrun_test_cases,
        consecutive_duplicates, first_bug_at, last_bug_at, attempts} \subseteq Nat
    /\ {collect_statistics, test_is_trivial, nondeterministic, replay_aligned,
        found_in_reuse, shrink_timed_out} \subseteq BOOLEAN
    /\ interesting \in [Origins -> Cases \cup {None}]
    /\ {seen, conclusions, generated} \subseteq Conclusions
    /\ full \subseteq Cases /\ stored \subseteq Cases
    /\ last \in Verdicts \cup {NoVerdict}
    /\ target \in {NoTarget} \cup [origin : Origins, case : Cases]
    /\ shrunk_origins \subseteq Origins /\ found \subseteq Origins
    /\ reuse_counts \in [valid : Nat, rejected : Nat]
    /\ nondeterministic => full = {} /\ consecutive_duplicates = 0

\* A run in which any execution failed never ends with a health check or with
\* Unsatisfiable: the failure is reported, or found to be flaky.
FailureBeatsHealthCheck == result.kind \in {"HealthCheck", "Unsatisfiable"} => found = {}

Reported == {f.origin : f \in result.failures}

\* What a run reports covers what it has found, be its test flaky or not: every origin
\* of any execution, or one of them, and no reported case is larger than one that
\* failed the same way before shrinking (or any way, when a single one is reported).
ReportCoversFindings ==
    result.kind = "Ok" =>
        /\ IF settings.report_multiple THEN Reported = found
           ELSE Reported \subseteq found /\ (Reported = {}) = (found = {})
        /\ \A f \in result.failures : \A c \in Cases :
              generated[c] \in (IF settings.report_multiple THEN {f.origin} ELSE Origins)
                  => f.case <= c

\* A reported failure stands: when the run ends, the last execution of its case had
\* concluded with its origin, even for a flaky test.
ReportStands ==
    result.kind = "Ok" /\ ~nondeterministic =>
        \A f \in result.failures : conclusions[f.case] = f.origin

\* What Engine::run reports is true of the test, and is all it knows.
ReportIsSound == ReportCoversFindings /\ ReportStands

\* Generation, targeting and mutation together never execute more valid cases than
\* test_cases allows, but for what the reuse phase and the simplest probe executed.
ValidWithinBudget ==
    phase \in {"generate", "target", "mutate"} =>
        valid_test_cases <= Max({MaxTestCases, reuse_counts.valid + 1})

\* A test that is always rejected gives up one case beyond the base budget ("an
\* always-reject test gives up after 459 cases").
RejectionGivesUp ==
    phase = "generate" /\ valid_test_cases = 0 /\ Failures = {} =>
        invalid_test_cases + overrun_test_cases
            <= Max({reuse_counts.rejected, InvalidBase + 1})

\* Both budgets of a run hold, whichever of its phases spends them.
BudgetsKept == ValidWithinBudget /\ RejectionGivesUp

\* Every run ends with a verdict, whatever its test does.
RunEnds == <>(phase = "done")
=============================================================================
