------------------------------- MODULE ClientRun ------------------------------
(* A test function from its first explicit example to the panic or return it  *)
(* ends with (run_lifecycle.rs, runner.rs, explicit_test_case.rs and the run  *)
(* functions of the C ABI): the client pulls cases from the engine, runs the  *)
(* body on each, reports the outcome, and replays every failure the run       *)
(* found.                                                                     *)
(*                                                                            *)
(* The body and the engine are the environment.  A body may catch panics of   *)
(* its own, swallow the unwind of a refused draw and go on, panic, re-raise a *)
(* panic of another thread (no hook runs), or misuse the library.  The engine *)
(* explores as EngineRun describes: whatever it offers, it believes a case's  *)
(* first conclusion.                                                          *)
EXTENDS Naturals, Sequences, FiniteSets

CONSTANTS
    Sites,          \* places a body panics at
    Names,          \* the values of an explicit example
    MaxCases,       \* bound: cases a run offers
    Configurations  \* how test functions are written: see DriveInit

None == "none"
Unknown == "unknown"

ASSUME SitesNamed == None \notin Sites
\* How a test function may be written: as settings, examples and blobs allow.
ASSUME ConfigurationsOK ==
    Configurations \subseteq [quiet : BOOLEAN, multiple : BOOLEAN, single : BOOLEAN, test_cases : Nat,
                              env : Nat, badEnv : BOOLEAN, blob : {None, "good", "corrupt"},
                              example : SUBSET Names]

VARIABLES
    settings,           \* the settings of this test function
    at,                 \* where the test function is
    undrawn, drawn,     \* the explicit example's values left; history: draws of each
    exploration,        \* the engine's run, and the failures its result keeps
    case,               \* the test case being run, or the last one
    panic_info,         \* LAST_PANIC_INFO of this thread
    stash,              \* the NondetStash
    replays,            \* origins whose failure is still to replay
    report,             \* the diagnostics printed
    ended               \* how the test function ended, and the panic it raised

driveVars == <<settings, at, undrawn, drawn, exploration, case, panic_info, stash,
               replays, report, ended>>

NoCase == [n |-> 0, final |-> FALSE, stamped |-> FALSE, machine |-> FALSE,
           concluded |-> "Valid", origin |-> None, sites |-> {}]

DriveInit ==
    /\ settings \in Configurations
    /\ at = "explicit"
    /\ undrawn = settings.example /\ drawn = [v \in Names |-> 0]
    /\ exploration = [shrinking |-> FALSE, nondet |-> FALSE, found |-> {}, valid |-> 0,
                      kept |-> {}, status |-> "exploring"]
    /\ case = NoCase /\ panic_info = None /\ stash = None
    /\ replays = {} /\ report = <<>> /\ ended = [how |-> None, failure |-> None]

End(how) == at' = "ended" /\ ended' = [how |-> how, failure |-> None]
EndRaising(failure) == at' = "ended" /\ ended' = [how |-> "raised", failure |-> failure]

-----------------------------------------------------------------------------
(* Explicit examples: the body runs on given values, before anything else. *)

examples == <<undrawn, drawn>>
running == <<exploration, case, panic_info, stash, replays, report>>

\* __draw_named: a value that is missing or already consumed is a failure.
ExplicitDraw(v) ==
    /\ at = "explicit" /\ settings.example # {}
    /\ IF v \in undrawn
       THEN undrawn' = undrawn \ {v} /\ UNCHANGED <<at, ended>>
       ELSE End("example") /\ UNCHANGED undrawn
    /\ drawn' = [drawn EXCEPT ![v] = @ + 1]
    /\ UNCHANGED <<settings, running>>

\* An assertion, a rejected assumption, a silent draw or a span fails the example.
ExplicitPanic ==
    /\ at = "explicit" /\ settings.example # {}
    /\ End("example")
    /\ UNCHANGED <<settings, examples, running>>

\* run, the body returning: every value must have been drawn.
ExplicitReturn ==
    /\ at = "explicit"
    /\ IF undrawn # {} THEN End("example") ELSE at' = "configure" /\ UNCHANGED ended
    /\ UNCHANGED <<settings, examples, running>>

-----------------------------------------------------------------------------
(* The run and the cases it offers. *)

\* run: HEGEL_TEST_CASES over the source, a single test case over both.
TestCases == IF settings.single THEN 1
             ELSE IF settings.env # 0 THEN settings.env ELSE settings.test_cases

\* with_env_overrides; `badEnv` is a HEGEL_TEST_CASES that is no positive integer.
Configure ==
    /\ at = "configure"
    /\ IF settings.badEnv THEN End("settings") /\ UNCHANGED settings
       ELSE /\ settings' = [settings EXCEPT !.test_cases = TestCases]
            /\ at' = (IF settings.blob = None THEN "pull" ELSE "replay") /\ UNCHANGED ended
    /\ UNCHANGED <<examples, running>>

\* run_test_case up to the call of the body.
BeginCase(c) == case' = c /\ at' = "body" /\ panic_info' = None

\* hegel_next_test_case: the previous case must be concluded.  Generation stops at
\* the first failure unless several are wanted and replays can be trusted.
NextTestCase ==
    /\ at = "pull" /\ case.concluded # None /\ case.n < MaxCases
    /\ \/ exploration.shrinking
       \/ /\ exploration.valid < settings.test_cases
          /\ exploration.found # {} => settings.multiple /\ ~exploration.nondet
    /\ BeginCase([NoCase EXCEPT !.n = case.n + 1, !.stamped = exploration.nondet,
                                !.concluded = None])
    /\ UNCHANGED <<settings, examples, exploration, stash, replays, report, ended>>

\* The engine starts to shrink what it found.
Shrink ==
    /\ at = "pull" /\ exploration.found # {} /\ ~exploration.nondet
    /\ ~exploration.shrinking
    /\ exploration' = [exploration EXCEPT !.shrinking = TRUE]
    /\ UNCHANGED <<settings, at, examples, case, panic_info, stash, replays, report, ended>>

\* What the result of a run that found `found` may keep: every distinct failure, or, without
\* report_multiple_failures, the simplest one alone.
Results(found) == IF settings.multiple \/ found = {} THEN {found} ELSE {{o} : o \in found}

\* The engine is done, or gives the run up; HegelRunResult::status.
FinishRun(error) ==
    /\ at = "pull"
    /\ \E kept \in IF error THEN {{}} ELSE Results(exploration.found) :
          exploration' = [exploration EXCEPT !.kept = kept, !.status =
              IF error THEN "error"
              ELSE IF exploration.found = {} THEN "passed"
              ELSE IF exploration.nondet THEN "failed_nondeterministic" ELSE "failed"]
    /\ at' = "verdict"
    /\ UNCHANGED <<settings, examples, case, panic_info, stash, replays, report, ended>>

-----------------------------------------------------------------------------
(* The body. *)

InBody(then) == at = "body" /\ case' = then
whole == <<settings, at, examples, exploration, stash, replays, report, ended>>

\* A panic the body catches itself; the hook has captured it.
CaughtPanic(s) ==
    /\ s \notin case.sites
    /\ InBody([case EXCEPT !.sites = @ \cup {s}])
    /\ panic_info' = s
    /\ UNCHANGED whole

\* A draw concludes the family; the body may swallow the unwind.
RefusedDraw(why) ==
    /\ case.concluded = None
    /\ InBody([case EXCEPT !.concluded = why])
    /\ UNCHANGED <<whole, panic_info>>

\* The run's first concurrent machine is rejected.
ConcurrentMachine ==
    /\ case.concluded = None /\ ~case.stamped /\ ~case.final
    /\ InBody([case EXCEPT !.concluded = "Invalid", !.machine = TRUE])
    /\ UNCHANGED <<whole, panic_info>>

\* report_outcome: mark_complete is ignored once the family is concluded.
Conclude(why) == [case EXCEPT !.concluded = IF @ = None THEN why ELSE @]

\* Mutant: a final replay has no diagnostic.
CapturedOnDiscovery == ~settings.quiet /\ case.stamped /\ ~case.final

\* capture_at_discovery, or a final replay, when something is shown at all.
Captured == ~settings.quiet /\ (case.stamped \/ case.final)

\* record_run and the flip of test_function, for the case as it is concluded.
Record(c) ==
    exploration' =
        [exploration EXCEPT
            !.nondet = @ \/ c.machine,
            !.valid = @ + IF c.concluded = "Valid" THEN 1 ELSE 0,
            !.found = IF c.concluded = "Interesting" THEN @ \cup {c.origin} ELSE @]

\* The rest of run_test_case and its caller's use of the result: of drive's loop,
\* of its replays, or of drive_blob_replay.
BodyEnds(outcome, location, raised) ==
    LET interesting == outcome = "Interesting"
        failure == [n |-> case.n, location |-> location]
        concluded == [Conclude(outcome) EXCEPT !.origin = location, !.sites = @ \cup raised]
    IN
    /\ at = "body" /\ case' = concluded
    /\ IF ~case.final
       THEN /\ Record(concluded)
            /\ stash' = IF interesting
                        THEN [failure |-> failure, diagnostic |-> Captured] ELSE stash
            /\ at' = "pull" /\ UNCHANGED <<replays, report, ended>>
       ELSE /\ report' = IF interesting /\ Captured THEN Append(report, failure) ELSE report
            /\ UNCHANGED <<exploration, stash, replays>>
            /\ CASE settings.blob # None ->
                        IF interesting THEN EndRaising(failure) ELSE End("stale")
                 [] settings.blob = None /\ ~interesting -> End("flaky")
                 [] OTHER -> at' = "replay" /\ UNCHANGED ended
    /\ UNCHANGED <<settings, examples>>

\* The body returns, or ends in a control unwind: LoopDone, AssumeFailed, StopTest.
BodyReturns ==
    /\ \/ BodyEnds("Valid", None, {})
       \/ BodyEnds("Invalid", None, {})
       \/ case.concluded = "Overrun" /\ BodyEnds("Overrun", None, {})
    /\ UNCHANGED panic_info

\* A panic through the hook; a worker's panic is re-installed and then re-raised.
Panics(s) == BodyEnds("Interesting", s, {s}) /\ panic_info' = None

\* A panic that skips the hook is taken for the last one the hook captured.
ResumesPanic ==
    /\ BodyEnds("Interesting", IF panic_info = None THEN Unknown ELSE panic_info, {})
    /\ panic_info' = None

\* InvalidArgument and InternalError leave drive at once.  Dropping the run
\* concludes the case it had offered.
Misuse ==
    /\ at = "body" /\ End("usage")
    /\ case' = IF case.final THEN case ELSE Conclude("Valid")
    /\ UNCHANGED <<settings, examples, exploration, panic_info, stash, replays, report>>

-----------------------------------------------------------------------------
(* The verdict and the final replays. *)

\* drive, once the loop has drained: a nondeterministic failure was captured when
\* it was discovered, the failures the result keeps are replayed.
TakeVerdict ==
    /\ at = "verdict"
    /\ CASE exploration.status = "passed" -> End("returned") /\ UNCHANGED <<replays, report>>
         [] exploration.status = "error" -> End("error") /\ UNCHANGED <<replays, report>>
         [] exploration.status = "failed_nondeterministic" ->
              /\ report' = IF stash.diagnostic THEN Append(report, stash.failure) ELSE report
              /\ EndRaising(stash.failure) /\ UNCHANGED replays
         [] exploration.status = "failed" ->
              at' = "replay" /\ replays' = exploration.kept /\ UNCHANGED <<report, ended>>
    /\ UNCHANGED <<settings, examples, exploration, case, panic_info, stash>>

final == [NoCase EXCEPT !.n = case.n + 1, !.final = TRUE, !.concluded = None]

\* Replay the next failure from its blob.
Replay(o) ==
    /\ at = "replay" /\ o \in replays
    /\ replays' = replays \ {o}
    /\ BeginCase(final)
    /\ UNCHANGED <<settings, examples, exploration, stash, report, ended>>

\* drive_blob_replay, on the first of the reproduce_failure blobs.
ReplayBlob ==
    /\ at = "replay" /\ settings.blob # None
    /\ IF settings.blob = "corrupt"
       THEN End("corrupt_blob") /\ UNCHANGED <<case, panic_info>>
       ELSE BeginCase(final) /\ UNCHANGED ended
    /\ UNCHANGED <<settings, examples, exploration, stash, replays, report>>

\* All replays have failed again: re-raise the test's own panic, or the count of them.
ReRaise ==
    /\ at = "replay" /\ settings.blob = None /\ replays = {}
    /\ IF Cardinality(exploration.kept) > 1 THEN End("distinct_failures")
       ELSE EndRaising([n |-> case.n, location |-> case.origin])
    /\ UNCHANGED <<settings, examples, running>>

Body ==
    \/ \E s \in Sites : CaughtPanic(s) \/ Panics(s)
    \/ \E why \in {"Invalid", "Overrun"} : RefusedDraw(why)
    \/ ConcurrentMachine \/ BodyReturns \/ ResumesPanic \/ Misuse

DriveNext ==
    \/ \E v \in Names : ExplicitDraw(v)
    \/ ExplicitPanic \/ ExplicitReturn
    \/ Configure \/ NextTestCase \/ Shrink
    \/ \E error \in BOOLEAN : FinishRun(error)
    \/ Body
    \/ TakeVerdict \/ ReplayBlob \/ ReRaise
    \/ \E o \in Sites \cup {Unknown} : Replay(o)

DriveSpec == DriveInit /\ [][DriveNext]_driveVars

-----------------------------------------------------------------------------
(* Properties. *)

Ended == at = "ended"

\* A failure is told apart by where the panic of *this* case was raised: a capture
\* some earlier case left behind names no failure.
OriginIsThisCase ==
    case.origin # None =>
        IF case.sites = {} THEN case.origin = Unknown ELSE case.origin \in case.sites

\* A test function returns exactly when its run passed; a case it walked away from
\* is concluded nevertheless, and nothing of a passing run is reported.
ReturnsIffPassed ==
    Ended =>
        /\ ended.how = "returned" <=> exploration.status = "passed"
        /\ ended.how = "returned" => exploration.found = {} /\ report = <<>>
        /\ ended.how = "usage" /\ ~case.final => case.concluded # None

\* The failures to tell of: each distinct one, or one for all (report_multiple_failures).
ToReport == IF settings.multiple THEN Cardinality(exploration.found) ELSE 1

\* A deterministic failing run prints each distinct failure once, in a replay of its
\* own, or a single one when it is to report one; it raises the panic printed last, or the
\* count of them when there are several.
EachFailureReported ==
    /\ ended.how \in {"raised", "distinct_failures"}
    /\ exploration.status = "failed" /\ ~settings.quiet
    =>
            /\ Len(report) = ToReport
            /\ \A i \in 1 .. Len(report) - 1 : report[i].n < report[i + 1].n
            /\ ended.how = "raised" <=> ToReport = 1
            /\ ended.how = "raised" => ended.failure = report[Len(report)]

\* Failures are told apart by this case's own panic, each is reported or one for all as the
\* settings say, and a test function returns only when there is none (drive, run_lifecycle.rs).
FailuresTold == OriginIsThisCase /\ EachFailureReported /\ ReturnsIffPassed
================================================================================
