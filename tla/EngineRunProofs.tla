------------------------------ MODULE EngineRunProofs ------------------------------
(* Proofs about one run of the engine (EngineRun), for every test, setting,        *)
(* budget and interleaving of phases: its types, what is found against what is     *)
(* kept, the two budgets, and that the report is true.                             *)
EXTENDS EngineRun, TLAPS, WellFoundedInduction

\* The smaller of two counters.
LEMMA MinOfTwo ==
    ASSUME NEW a \in Nat, NEW b \in Nat
    PROVE  /\ Min({a, b}) \in {a, b}
           /\ Min({a, b}) <= a /\ Min({a, b}) <= b
  <1>1. \E x \in {a, b} : \A y \in {a, b} : x <= y
    OBVIOUS
  <1> QED
    BY <1>1 DEF Min

\* The larger of two budgets.
LEMMA MaxOfTwo ==
    ASSUME NEW a \in Nat, NEW b \in Nat
    PROVE  /\ Max({a, b}) \in {a, b}
           /\ Max({a, b}) >= a /\ Max({a, b}) >= b
  <1>1. \E x \in {a, b} : \A y \in {a, b} : x >= y
    OBVIOUS
  <1> QED
    BY <1>1 DEF Max

-----------------------------------------------------------------------------
(* What test_function does, whichever phase calls it.                            *)

\* An execution runs a case of the test and concludes in one of the ways a test can.
LEMMA ExecutionTyped ==
    \A run \in Executions(Cases) : run.case \in Cases /\ run.verdict \in Verdicts
  BY EngineRunOK DEF Executions, Cases

\* The types of what record_run and record_execution keep.
LEMMA TestFunctionTyped ==
    ASSUME TypeOK, NEW run \in Executions(Cases), TestFunction(run)
    PROVE  /\ {calls', valid_test_cases', invalid_test_cases', overrun_test_cases',
               consecutive_duplicates', first_bug_at', last_bug_at'} \subseteq Nat
           /\ {test_is_trivial', nondeterministic'} \subseteq BOOLEAN
           /\ interesting' \in [Origins -> Cases \cup {None}]
           /\ {seen', conclusions'} \subseteq Conclusions
           /\ full' \subseteq Cases /\ found' \subseteq Origins
           /\ nondeterministic' => full' = {} /\ consecutive_duplicates' = 0
  <1>1. run.case \in Cases /\ run.verdict \in Verdicts
    BY ExecutionTyped
  <1>2. calls' \in Nat
    <2>1. PICK c \in Nat : c = calls + 1
      BY DEF TypeOK
    <2>2. Min({c, MaxCalls}) \in {c, MaxCalls}
      BY MinOfTwo, EngineRunOK
    <2> QED
      BY <2>1, <2>2, EngineRunOK DEF TestFunction, Count
  <1>3. {valid_test_cases', invalid_test_cases', overrun_test_cases'} \subseteq Nat
    BY DEF TypeOK, TestFunction, Count
  <1>4. /\ {seen', conclusions'} \subseteq Conclusions
        /\ full' \subseteq Cases /\ consecutive_duplicates' \in Nat
    <2>1. /\ {seen, conclusions} \subseteq Conclusions /\ full \subseteq Cases
          /\ consecutive_duplicates \in Nat
      BY DEF TypeOK
    <2>2. conclusions' \in Conclusions
      BY <1>1, <2>1 DEF TestFunction, Conclusions
    <2>3. Remember(run)
      BY DEF TestFunction
    <2>4. seen' \in Conclusions
      BY <1>1, <2>1, <2>3 DEF Remember, Conclusions
    <2>5. full' \subseteq Cases
      BY <1>1, <2>1, <2>3 DEF Remember
    <2>6. consecutive_duplicates' \in Nat
      BY <1>1, <2>1, <2>3 DEF Remember
    <2> QED
      BY <2>2, <2>4, <2>5, <2>6
  <1>5. nondeterministic' \in BOOLEAN /\ test_is_trivial' \in BOOLEAN
    BY DEF TypeOK, TestFunction, Flips
  <1>6. nondeterministic' => full' = {} /\ consecutive_duplicates' = 0
    BY DEF TestFunction, Remember
  <1>7. interesting' \in [Origins -> Cases \cup {None}] /\ found' \subseteq Origins
    BY <1>1 DEF TypeOK, TestFunction, UpdateInteresting
  <1>8. {first_bug_at', last_bug_at'} \subseteq Nat
    BY DEF TypeOK, TestFunction, None
  <1> QED
    BY <1>2, <1>3, <1>4, <1>5, <1>6, <1>7, <1>8

-----------------------------------------------------------------------------
(* Types.                                                                        *)

\* A run starts with its types right.
LEMMA InitTypeOK == Init => TypeOK
  <1> SUFFICES ASSUME Init PROVE TypeOK
    OBVIOUS
  <1>1. test \in [draws : BOOLEAN, verdict : [Cases -> Verdicts]]
    BY DEF Init
  <1>2. settings \in SettingsSet /\ stored \subseteq Cases
    BY DEF Init
  <1>3. {seen, conclusions, generated} \subseteq Conclusions
    BY DEF Init, Conclusions
  <1>4. target \in {NoTarget} /\ interesting \in [Origins -> Cases \cup {None}]
    BY DEF Init
  <1>5. /\ {collect_statistics, test_is_trivial, nondeterministic, replay_aligned,
            found_in_reuse, shrink_timed_out} \subseteq BOOLEAN
        /\ flaky \in BOOLEAN
    <2>1. replay_aligned = (stored # {})
      BY DEF Init
    <2>2. replay_aligned \in BOOLEAN
      BY <2>1, Zenon
    <2>3. /\ flaky \in BOOLEAN /\ collect_statistics = FALSE /\ test_is_trivial = FALSE
          /\ nondeterministic = FALSE /\ found_in_reuse = FALSE /\ shrink_timed_out = FALSE
      BY DEF Init
    <2> QED
      BY <2>2, <2>3
  <1> QED
    BY <1>1, <1>2, <1>3, <1>4, <1>5, EngineRunOK
       DEF Init, TypeOK, Phases, Searching, Kinds, NoResult, None

\* Every step keeps the types.
LEMMA StepTypeOK == TypeOK /\ [Next]_vars => TypeOK'
  <1> SUFFICES ASSUME TypeOK, [Next]_vars PROVE TypeOK'
    OBVIOUS
  <1> USE EngineRunOK DEF TypeOK, Phases, Searching, Kinds, NoTarget, Fail, Unless,
          vars, input, recorded, counters, shrinking, ends
  <1>1. ASSUME NEW run \in Executions(Cases), NEW flag \in BOOLEAN, Reuse(run, flag)
        PROVE  TypeOK'
    <2>1. stored' \subseteq Cases /\ replay_aligned' \in BOOLEAN
      BY <1>1 DEF Reuse, TypeOK
    <2> QED
      BY <1>1, <2>1, TestFunctionTyped DEF Reuse
  <1>2. ASSUME NEW run \in Executions(Cases), NEW flag \in BOOLEAN, Simplest(run, flag)
        PROVE  TypeOK'
    BY <1>2, TestFunctionTyped DEF Simplest
  <1>3. ASSUME NEW run \in Executions(Cases), NEW flag \in BOOLEAN, Generate(run, flag)
        PROVE  TypeOK'
    <2>1. last' \in Verdicts
      BY <1>3, ExecutionTyped DEF Generate
    <2> QED
      BY <1>3, <2>1, TestFunctionTyped DEF Generate
  <1>4. ASSUME NEW run \in Executions(Cases), Optimise(run) PROVE TypeOK'
    BY <1>4, TestFunctionTyped DEF Optimise
  <1>5. ASSUME NEW run \in Executions(Cases), Mutate(run) PROVE TypeOK'
    BY <1>5, TestFunctionTyped DEF Mutate
  <1>6. ASSUME NEW run \in Executions(Cases), Drain(run) PROVE TypeOK'
    BY <1>6, TestFunctionTyped DEF Drain
  <1>7. ASSUME NEW run \in Executions(Cases), ShrinkProbe(run) PROVE TypeOK'
    <2>1. target' \in [origin : Origins, case : Cases]
      BY <1>7, ExecutionTyped DEF ShrinkProbe, ProbesLeft, Adopt
    <2> QED
      BY <1>7, <2>1, TestFunctionTyped DEF ShrinkProbe, ProbesLeft
  <1>8. ASSUME NEW run \in Executions(Cases), NEW o \in Origins, Verify(o, run)
        PROVE  TypeOK'
    <2>1. target' \in [origin : Origins, case : Cases]
      BY <1>8, ExecutionTyped DEF Verify
    <2> QED
      BY <1>8, <2>1, TestFunctionTyped DEF Verify
  <1>9. CASE ReuseEnds
    BY <1>9 DEF ReuseEnds
  <1>10. CASE SkipSimplest
    BY <1>10 DEF SkipSimplest
  <1>11. CASE OptimiseEnds
    BY <1>11 DEF OptimiseEnds
  <1>12. CASE MutateEnds
    BY <1>12 DEF MutateEnds
  <1>13. CASE GenerateEnds
    <2>1. /\ phase' \in Phases /\ result'.kind \in Kinds
          /\ (phase' = "done") = (result'.kind # "running")
      BY <1>13 DEF GenerateEnds
    <2>2. {seen', conclusions', generated'} \subseteq Conclusions
      BY <1>13 DEF GenerateEnds
    <2>3. {collect_statistics', test_is_trivial', nondeterministic', replay_aligned',
           found_in_reuse', shrink_timed_out'} \subseteq BOOLEAN
      BY <1>13 DEF GenerateEnds
    <2> QED
      BY <1>13, <2>1, <2>2, <2>3 DEF GenerateEnds
  <1>14. CASE DrainEnds
    BY <1>14 DEF DrainEnds
  <1>15. ASSUME NEW served \in Cases, MutationServed(served) PROVE TypeOK'
    BY <1>15 DEF MutationServed
  <1>16. ASSUME NEW served \in Cases, ShrinkServed(served) PROVE TypeOK'
    <2>1. target' \in [origin : Origins, case : Cases]
      BY <1>16 DEF ShrinkServed, ProbesLeft, Adopt
    <2> QED
      BY <1>16, <2>1 DEF ShrinkServed, ProbesLeft
  <1>17. ASSUME NEW timed_out \in BOOLEAN, ShrinkEnds(timed_out) PROVE TypeOK'
    BY <1>17 DEF ShrinkEnds
  <1>18. CASE AllShrunk
    BY <1>18 DEF AllShrunk
  <1>19. CASE Report
    BY <1>19 DEF Report
  <1>20. CASE UNCHANGED vars
    BY <1>20 DEF vars
  <1> QED
    BY <1>1, <1>2, <1>3, <1>4, <1>5, <1>6, <1>7, <1>8, <1>9, <1>10, <1>11, <1>12, <1>13,
       <1>14, <1>15, <1>16, <1>17, <1>18, <1>19, <1>20 DEF Next, Finished

\* The variables of a run keep their types.
THEOREM TypeCorrect == Spec => []TypeOK
  BY InitTypeOK, StepTypeOK, PTL DEF Spec

-----------------------------------------------------------------------------
(* What is found is kept: an origin that failed once has an incumbent from then   *)
(* on, so no verdict of a health check can follow it.                             *)

\* The origins found are those with an incumbent; the shrinker's is one of them; the
\* simplest probe runs only while nothing is found.
FoundInv ==
    /\ found = Failures
    /\ target # NoTarget => target.origin \in found
    /\ phase = "simplest" /\ ~found_in_reuse => found = {}
    /\ FailureBeatsHealthCheck

\* update_interesting only ever adds an origin, and only for a case that failed.
LEMMA TestFunctionFound ==
    ASSUME TypeOK, found = Failures, NEW run \in Executions(Cases), TestFunction(run)
    PROVE  /\ found' = Failures'
           /\ found \subseteq found'
           /\ run.verdict \in Origins => found' = found \cup {run.verdict}
           /\ run.verdict \notin Origins => found' = found
  <1>1. run.case \in Cases /\ run.case # None
    BY ExecutionTyped DEF Cases, None
  <1>2. CASE run.verdict \in Origins
    <2>1. /\ found' = found \cup {run.verdict}
          /\ UpdateInteresting(run.verdict, run.case)
      BY <1>2 DEF TestFunction
    <2>2. \A o \in Origins : interesting'[o] # None <=> interesting[o] # None \/ o = run.verdict
      BY <1>1, <1>2, <2>1 DEF UpdateInteresting, TypeOK
    <2> QED
      BY <1>2, <2>1, <2>2 DEF Failures
  <1>3. CASE run.verdict \notin Origins
    BY <1>3 DEF TestFunction, Failures
  <1> QED
    BY <1>2, <1>3

\* Nothing is found when a run starts.
LEMMA InitFoundInv == Init => FoundInv
  BY DEF Init, FoundInv, Failures, FailureBeatsHealthCheck, NoResult, None, NoTarget

\* Every step keeps what is found: shrinking replaces an incumbent and never removes it.
LEMMA StepFoundInv == TypeOK /\ FoundInv /\ [Next]_vars => FoundInv'
  <1> SUFFICES ASSUME TypeOK, FoundInv, [Next]_vars PROVE FoundInv'
    OBVIOUS
  <1> USE DEF FoundInv, Failures, FailureBeatsHealthCheck, Fail, Unless, vars, input,
          recorded, counters, shrinking, ends
  <1>1. ASSUME NEW run \in Executions(Cases), NEW flag \in BOOLEAN, Reuse(run, flag)
        PROVE  FoundInv'
    BY <1>1, TestFunctionFound DEF Reuse, TypeOK
  <1>2. ASSUME NEW run \in Executions(Cases), NEW flag \in BOOLEAN, Simplest(run, flag)
        PROVE  FoundInv'
    <2>1. /\ phase = "simplest" /\ ~found_in_reuse /\ target' = target
          /\ UNCHANGED found_in_reuse
      BY <1>2 DEF Simplest, SimplestDue
    <2>2. found' = Failures' /\ found \subseteq found'
      BY <1>2, TestFunctionFound DEF Simplest
    <2>3. CASE Mismatch(run)
      BY <1>2, <2>1, <2>2, <2>3 DEF Simplest
    <2>4. CASE ~Mismatch(run) /\ phase' = "generate"
      BY <1>2, <2>1, <2>2, <2>4 DEF Simplest, TypeOK
    <2>5. CASE ~Mismatch(run) /\ phase' # "generate"
      <3>1. run.verdict \in {"Overrun", "Valid"} /\ phase' = "done"
        BY <1>2, <2>5 DEF Simplest
      <3>2. run.verdict \notin Origins
        BY <3>1, EngineRunOK
      <3>3. found' = found
        BY <1>2, <3>2, TestFunctionFound DEF Simplest
      <3> QED
        BY <2>1, <2>2, <3>1, <3>3
    <2> QED
      BY <2>3, <2>4, <2>5
  <1>3. ASSUME NEW run \in Executions(Cases), NEW flag \in BOOLEAN, Generate(run, flag)
        PROVE  FoundInv'
    <2>1. found' = Failures' /\ found \subseteq found'
      BY <1>3, TestFunctionFound DEF Generate
    <2>2. HealthChecksFail(run, flag) => found' = {}
      BY <2>1 DEF HealthChecksFail, Failures
    <2> QED
      BY <1>3, <2>1, <2>2 DEF Generate, TypeOK
  <1>4. ASSUME NEW run \in Executions(Cases), Optimise(run) PROVE FoundInv'
    BY <1>4, TestFunctionFound DEF Optimise, TypeOK
  <1>5. ASSUME NEW run \in Executions(Cases), Mutate(run) PROVE FoundInv'
    BY <1>5, TestFunctionFound DEF Mutate, TypeOK
  <1>6. ASSUME NEW run \in Executions(Cases), Drain(run) PROVE FoundInv'
    BY <1>6, TestFunctionFound DEF Drain, TypeOK
  <1>7. ASSUME NEW run \in Executions(Cases), ShrinkProbe(run) PROVE FoundInv'
    <2>1. found' = Failures' /\ found \subseteq found'
      BY <1>7, TestFunctionFound DEF ShrinkProbe
    <2>2. target'.origin = target.origin
      BY <1>7 DEF ShrinkProbe, Adopt, ProbesLeft, TypeOK
    <2>3. phase' # "simplest" /\ result'.kind \notin {"HealthCheck", "Unsatisfiable"}
      BY <1>7 DEF ShrinkProbe, ProbesLeft, TypeOK
    <2>4. target.origin \in found
      BY <1>7 DEF ShrinkProbe, ProbesLeft
    <2> QED
      BY <2>1, <2>2, <2>3, <2>4
  <1>8. ASSUME NEW run \in Executions(Cases), NEW o \in Origins, Verify(o, run)
        PROVE  FoundInv'
    <2>1. found' = Failures' /\ found \subseteq found'
      BY <1>8, TestFunctionFound DEF Verify
    <2>2. target'.origin \in found /\ result'.kind \notin {"HealthCheck", "Unsatisfiable"}
      BY <1>8 DEF Verify, TypeOK
    <2>3. phase' # "simplest"
      BY <1>8 DEF Verify
    <2> QED
      BY <2>1, <2>2, <2>3
  <1>9. CASE ReuseEnds
    <2>1. UNCHANGED <<interesting, found, target, result>> /\ (~found_in_reuse' => Failures = {})
      BY <1>9 DEF ReuseEnds
    <2> QED
      BY <2>1
  <1>10. CASE SkipSimplest
    BY <1>10 DEF SkipSimplest
  <1>11. CASE OptimiseEnds
    BY <1>11 DEF OptimiseEnds
  <1>12. CASE MutateEnds
    BY <1>12 DEF MutateEnds
  <1>13. CASE GenerateEnds
    <2>1. UNCHANGED <<interesting, found, target>> /\ phase' # "simplest"
      BY <1>13 DEF GenerateEnds
    <2>2. CASE Unsatisfiable \/ Exhausted
      BY <2>1, <2>2 DEF Unsatisfiable, Exhausted
    <2>3. CASE ~(Unsatisfiable \/ Exhausted)
      <3>1. UNCHANGED result
        BY <1>13, <2>3 DEF GenerateEnds
      <3> QED
        BY <2>1, <3>1
    <2> QED
      BY <2>2, <2>3
  <1>14. CASE DrainEnds
    BY <1>14 DEF DrainEnds
  <1>15. ASSUME NEW served \in Cases, MutationServed(served) PROVE FoundInv'
    BY <1>15 DEF MutationServed
  <1>16. ASSUME NEW served \in Cases, ShrinkServed(served) PROVE FoundInv'
    <2>1. target'.origin = target.origin /\ target.origin \in found
      BY <1>16 DEF ShrinkServed, Adopt, ProbesLeft, TypeOK
    <2>2. UNCHANGED <<interesting, found, phase, result>> /\ phase # "simplest"
      BY <1>16 DEF ShrinkServed, ProbesLeft
    <2> QED
      BY <2>1, <2>2
  <1>17. ASSUME NEW timed_out \in BOOLEAN, ShrinkEnds(timed_out) PROVE FoundInv'
    <2>1. /\ target \in [origin : Origins, case : Cases] /\ target.case # None
          /\ target.origin \in found
      BY <1>17 DEF ShrinkEnds, TypeOK, Cases, None
    <2>2. \A o \in Origins : interesting'[o] # None <=> interesting[o] # None
      BY <1>17, <2>1 DEF ShrinkEnds, TypeOK
    <2>3. Failures' = Failures
      BY <2>2
    <2> QED
      BY <1>17, <2>3 DEF ShrinkEnds
  <1>18. CASE AllShrunk
    BY <1>18 DEF AllShrunk
  <1>19. CASE Report
    BY <1>19 DEF Report
  <1>20. CASE UNCHANGED vars
    BY <1>20 DEF vars
  <1> QED
    BY <1>1, <1>2, <1>3, <1>4, <1>5, <1>6, <1>7, <1>8, <1>9, <1>10, <1>11, <1>12, <1>13,
       <1>14, <1>15, <1>16, <1>17, <1>18, <1>19, <1>20 DEF Next, Finished

\* FailureBeatsHealthCheck: a run that failed never ends with a health check, nor as
\* unsatisfiable; the checks of the generation loop come after update_interesting.
THEOREM FailureComesFirst == Spec => []FailureBeatsHealthCheck
  <1>1. FoundInv => FailureBeatsHealthCheck
    BY DEF FoundInv
  <1> QED
    BY <1>1, TypeCorrect, InitFoundInv, StepFoundInv, PTL DEF Spec

-----------------------------------------------------------------------------
(* The budgets.                                                                   *)

\* What was executed when the generation loop began, and what each of its phases needs
\* of the valid cases when it begins: a pass that spends the budget starts within it.
BudgetInv ==
    /\ phase = "simplest" =>
          /\ valid_test_cases = reuse_counts.valid
          /\ invalid_test_cases + overrun_test_cases = reuse_counts.rejected
    /\ ValidWithinBudget
    /\ last = "Valid" => valid_test_cases > 0
    /\ phase = "target" /\ attempts > 0 => valid_test_cases > 0
    /\ phase = "mutate" => valid_test_cases > 0
    /\ phase \in {"generate", "target"} /\ valid_test_cases = 0 =>
          invalid_test_cases + overrun_test_cases
              <= Max({reuse_counts.rejected, InvalidBase + 1})

\* record_run counts an execution once.
LEMMA TestFunctionCounts ==
    ASSUME TypeOK, NEW run, TestFunction(run)
    PROVE  /\ run.verdict = "Valid" =>
                  /\ valid_test_cases' = valid_test_cases + 1
                  /\ UNCHANGED <<invalid_test_cases, overrun_test_cases>>
           /\ run.verdict # "Valid" => UNCHANGED valid_test_cases
           /\ invalid_test_cases' + overrun_test_cases'
                  <= invalid_test_cases + overrun_test_cases + 1
  BY DEF TypeOK, TestFunction, Count

\* within_invalid_budget, before the first valid case.
LEMMA NothingValidYet ==
    ASSUME TypeOK, WithinInvalidBudget, valid_test_cases = 0
    PROVE  invalid_test_cases + overrun_test_cases <= InvalidBase
  <1>1. InvalidPerValid * 0 = 0
    BY EngineRunOK
  <1>2. InvalidPerValid * valid_test_cases = 0
    BY <1>1
  <1> QED
    BY <1>2, EngineRunOK DEF WithinInvalidBudget, TypeOK

\* The bounds of the two budgets.
LEMMA Bounds ==
    ASSUME TypeOK
    PROVE  /\ Max({MaxTestCases, reuse_counts.valid + 1}) \in Nat
           /\ MaxTestCases <= Max({MaxTestCases, reuse_counts.valid + 1})
           /\ reuse_counts.valid + 1 <= Max({MaxTestCases, reuse_counts.valid + 1})
           /\ Max({reuse_counts.rejected, InvalidBase + 1}) \in Nat
           /\ reuse_counts.rejected <= Max({reuse_counts.rejected, InvalidBase + 1})
           /\ InvalidBase + 1 <= Max({reuse_counts.rejected, InvalidBase + 1})
  <1>1. PICK m \in Nat : m = MaxTestCases
    BY EngineRunOK
  <1>2. PICK v \in Nat : v = reuse_counts.valid + 1
    BY DEF TypeOK
  <1>3. PICK r \in Nat : r = reuse_counts.rejected
    BY DEF TypeOK
  <1>4. PICK b \in Nat : b = InvalidBase + 1
    BY EngineRunOK
  <1>5. Max({m, v}) \in {m, v} /\ Max({m, v}) >= m /\ Max({m, v}) >= v
    BY MaxOfTwo
  <1>6. Max({r, b}) \in {r, b} /\ Max({r, b}) >= r /\ Max({r, b}) >= b
    BY MaxOfTwo
  <1> QED
    BY <1>1, <1>2, <1>3, <1>4, <1>5, <1>6

\* No phase of the generation loop has begun.
LEMMA InitBudgetInv == Init => BudgetInv
  BY DEF Init, BudgetInv, ValidWithinBudget, NoVerdict

\* Every step keeps to the budgets.
LEMMA StepBudgetInv == TypeOK /\ BudgetInv /\ [Next]_vars => BudgetInv'
  <1> SUFFICES ASSUME TypeOK, BudgetInv, [Next]_vars PROVE BudgetInv'
    OBVIOUS
  <1>bound. PICK m \in Nat, k \in Nat :
               /\ m = Max({MaxTestCases, reuse_counts.valid + 1})
               /\ k = Max({reuse_counts.rejected, InvalidBase + 1})
    BY Bounds
  <1>bounds. /\ MaxTestCases <= m /\ reuse_counts.valid + 1 <= m
             /\ reuse_counts.rejected <= k /\ InvalidBase + 1 <= k
    BY <1>bound, Bounds
  <1>kept. ASSUME UNCHANGED reuse_counts
           PROVE  /\ m = Max({MaxTestCases, reuse_counts'.valid + 1})
                  /\ k = Max({reuse_counts'.rejected, InvalidBase + 1})
    BY <1>bound, <1>kept
  <1>now. /\ phase \in {"generate", "target", "mutate"} => valid_test_cases <= m
          /\ phase \in {"generate", "target"} /\ valid_test_cases = 0 =>
                invalid_test_cases + overrun_test_cases <= k
    BY <1>bound DEF BudgetInv, ValidWithinBudget
  <1>then. ASSUME UNCHANGED reuse_counts,
                  phase' = "simplest" =>
                      /\ valid_test_cases' = reuse_counts.valid
                      /\ invalid_test_cases' + overrun_test_cases' = reuse_counts.rejected,
                  phase' \in {"generate", "target", "mutate"} => valid_test_cases' <= m,
                  last' = "Valid" => valid_test_cases' > 0,
                  phase' = "target" /\ attempts' > 0 => valid_test_cases' > 0,
                  phase' = "mutate" => valid_test_cases' > 0,
                  phase' \in {"generate", "target"} /\ valid_test_cases' = 0 =>
                      invalid_test_cases' + overrun_test_cases' <= k
           PROVE  BudgetInv'
    BY <1>then, <1>kept DEF BudgetInv, ValidWithinBudget
  <1> USE DEF Fail, Unless, vars, input, recorded, counters, shrinking, ends
  <1>1. ASSUME NEW run \in Executions(Cases), NEW flag \in BOOLEAN, Reuse(run, flag)
        PROVE  BudgetInv'
    <2>1. /\ phase' \notin {"simplest", "generate", "target", "mutate"}
          /\ UNCHANGED <<reuse_counts, last>>
      BY <1>1 DEF Reuse
    <2>2. last' = "Valid" => valid_test_cases' > 0
      BY <1>1, <2>1, TestFunctionCounts DEF Reuse, TypeOK, BudgetInv
    <2> QED
      BY <2>1, <2>2, <1>then
  <1>2. ASSUME NEW run \in Executions(Cases), NEW flag \in BOOLEAN, Simplest(run, flag)
        PROVE  BudgetInv'
    <2>1. /\ phase = "simplest" /\ WithinInvalidBudget /\ phase' \in {"generate", "done"}
          /\ UNCHANGED <<reuse_counts, last>>
      BY <1>2 DEF Simplest, SimplestDue
    <2>2. /\ valid_test_cases' <= reuse_counts.valid + 1
          /\ valid_test_cases <= valid_test_cases'
          /\ valid_test_cases' = 0 => invalid_test_cases' + overrun_test_cases' <= InvalidBase + 1
      <3>1. valid_test_cases = reuse_counts.valid
        BY <2>1 DEF BudgetInv
      <3>2. /\ valid_test_cases' \in {valid_test_cases, valid_test_cases + 1}
            /\ invalid_test_cases' + overrun_test_cases'
                   <= invalid_test_cases + overrun_test_cases + 1
            /\ run.verdict = "Valid" => valid_test_cases' = valid_test_cases + 1
        BY <1>2, TestFunctionCounts DEF Simplest
      <3>3. valid_test_cases = 0 => invalid_test_cases + overrun_test_cases <= InvalidBase
        BY <2>1, NothingValidYet
      <3>4. /\ {valid_test_cases, invalid_test_cases, overrun_test_cases} \subseteq Nat
            /\ {valid_test_cases', invalid_test_cases', overrun_test_cases'} \subseteq Nat
            /\ {InvalidBase, MaxTestCases} \subseteq Nat
        BY <1>2, TestFunctionTyped, EngineRunOK DEF Simplest, TypeOK
      <3> QED
        BY <3>1, <3>2, <3>3, <3>4
    <2>3. last' = "Valid" => valid_test_cases' > 0
      <3>1. valid_test_cases \in Nat /\ (last = "Valid" => valid_test_cases > 0)
        BY DEF BudgetInv, TypeOK
      <3>2. valid_test_cases' \in Nat
        BY <1>2, TestFunctionTyped DEF Simplest
      <3> QED
        BY <2>1, <2>2, <3>1, <3>2
    <2>4. /\ {valid_test_cases', invalid_test_cases', overrun_test_cases'} \subseteq Nat
          /\ {reuse_counts.valid, reuse_counts.rejected} \subseteq Nat /\ InvalidBase \in Nat
      BY <1>2, TestFunctionTyped, EngineRunOK DEF Simplest, TypeOK
    <2> QED
      BY <2>1, <2>2, <2>3, <2>4, <1>bounds, <1>then
  <1>3. ASSUME NEW run \in Executions(Cases), NEW flag \in BOOLEAN, Generate(run, flag)
        PROVE  BudgetInv'
    <2>1. /\ phase = "generate" /\ WithinInvalidBudget /\ valid_test_cases < MaxTestCases
          /\ phase' \in {"target", "done"} /\ attempts' = 0
          /\ last' = run.verdict /\ UNCHANGED reuse_counts
      BY <1>3 DEF Generate, MayGenerate
    <2>2. /\ valid_test_cases' <= MaxTestCases
          /\ valid_test_cases' = 0 => invalid_test_cases' + overrun_test_cases' <= InvalidBase + 1
          /\ run.verdict = "Valid" => valid_test_cases' > 0
      <3>2. /\ valid_test_cases' \in {valid_test_cases, valid_test_cases + 1}
            /\ invalid_test_cases' + overrun_test_cases'
                   <= invalid_test_cases + overrun_test_cases + 1
            /\ run.verdict = "Valid" => valid_test_cases' = valid_test_cases + 1
        BY <1>3, TestFunctionCounts DEF Generate
      <3>3. valid_test_cases = 0 => invalid_test_cases + overrun_test_cases <= InvalidBase
        BY <2>1, NothingValidYet
      <3>4. /\ {valid_test_cases, invalid_test_cases, overrun_test_cases} \subseteq Nat
            /\ {valid_test_cases', invalid_test_cases', overrun_test_cases'} \subseteq Nat
            /\ {InvalidBase, MaxTestCases} \subseteq Nat
        BY <1>3, TestFunctionTyped, EngineRunOK DEF Generate, TypeOK
      <3> QED
        BY <2>1, <3>2, <3>3, <3>4
    <2>4. /\ {valid_test_cases', invalid_test_cases', overrun_test_cases'} \subseteq Nat
          /\ MaxTestCases \in Nat /\ InvalidBase \in Nat
      BY <1>3, TestFunctionTyped, EngineRunOK DEF Generate
    <2> QED
      BY <2>1, <2>2, <2>4, <1>bounds, <1>then
  <1>4. ASSUME NEW run \in Executions(Cases), Optimise(run) PROVE BudgetInv'
    <2>1. /\ phase = "target" /\ valid_test_cases < MaxTestCases
          /\ attempts = 0 => valid_test_cases > 0
          /\ phase' \in {"target", "done"} /\ UNCHANGED <<reuse_counts, last>>
      BY <1>4 DEF Optimise
    <2>2. valid_test_cases > 0
      BY <2>1 DEF BudgetInv, TypeOK
    <2>3. valid_test_cases' > 0 /\ valid_test_cases' <= MaxTestCases
      BY <1>4, <2>1, <2>2, TestFunctionCounts, EngineRunOK DEF Optimise, TypeOK
    <2>4. valid_test_cases' \in Nat /\ MaxTestCases \in Nat
      BY <1>4, TestFunctionTyped, EngineRunOK DEF Optimise
    <2> QED
      BY <2>1, <2>3, <2>4, <1>bounds, <1>then
  <1>5. ASSUME NEW run \in Executions(Cases), Mutate(run) PROVE BudgetInv'
    <2>1. /\ phase = "mutate" /\ valid_test_cases < MaxTestCases
          /\ phase' \in {"generate", "mutate", "done"} /\ UNCHANGED <<reuse_counts, last>>
      BY <1>5 DEF Mutate, MutationDue
    <2>2. valid_test_cases > 0
      BY <2>1 DEF BudgetInv
    <2>3. valid_test_cases' > 0 /\ valid_test_cases' <= MaxTestCases
      BY <1>5, <2>1, <2>2, TestFunctionCounts, EngineRunOK DEF Mutate, TypeOK
    <2>4. valid_test_cases' \in Nat /\ MaxTestCases \in Nat
      BY <1>5, TestFunctionTyped, EngineRunOK DEF Mutate
    <2> QED
      BY <2>1, <2>3, <2>4, <1>bounds, <1>then
  <1>6. ASSUME NEW run \in Executions(Cases), Drain(run) PROVE BudgetInv'
    <2>1. /\ phase' \notin {"simplest", "generate", "target", "mutate"}
          /\ UNCHANGED <<reuse_counts, last>>
      BY <1>6 DEF Drain
    <2>2. last' = "Valid" => valid_test_cases' > 0
      BY <1>6, <2>1, TestFunctionCounts DEF Drain, TypeOK, BudgetInv
    <2> QED
      BY <2>1, <2>2, <1>then
  <1>7. ASSUME NEW run \in Executions(Cases), ShrinkProbe(run) PROVE BudgetInv'
    <2>1. /\ phase' \notin {"simplest", "generate", "target", "mutate"}
          /\ UNCHANGED <<reuse_counts, last>>
      BY <1>7 DEF ShrinkProbe, ProbesLeft
    <2>2. last' = "Valid" => valid_test_cases' > 0
      BY <1>7, <2>1, TestFunctionCounts DEF ShrinkProbe, TypeOK, BudgetInv
    <2> QED
      BY <2>1, <2>2, <1>then
  <1>8. ASSUME NEW run \in Executions(Cases), NEW o \in Origins, Verify(o, run)
        PROVE  BudgetInv'
    <2>1. /\ phase' \notin {"simplest", "generate", "target", "mutate"}
          /\ UNCHANGED <<reuse_counts, last>>
      BY <1>8 DEF Verify
    <2>2. last' = "Valid" => valid_test_cases' > 0
      BY <1>8, <2>1, TestFunctionCounts DEF Verify, TypeOK, BudgetInv
    <2> QED
      BY <2>1, <2>2, <1>then
  <1>9. CASE ReuseEnds
    <2>1. /\ reuse_counts' = [valid |-> valid_test_cases,
                             rejected |-> invalid_test_cases + overrun_test_cases]
          /\ phase' = "simplest" /\ UNCHANGED <<counters, last>>
      BY <1>9 DEF ReuseEnds
    <2> QED
      BY <2>1 DEF BudgetInv, ValidWithinBudget
  <1>10. CASE SkipSimplest
    <2>1. /\ phase = "simplest" /\ phase' = "generate"
          /\ UNCHANGED <<reuse_counts, last, counters>>
      BY <1>10 DEF SkipSimplest
    <2>2. {valid_test_cases, reuse_counts.valid, reuse_counts.rejected} \subseteq Nat
      BY DEF TypeOK
    <2> QED
      BY <2>1, <2>2, <1>bounds, <1>then DEF BudgetInv
  <1>11. CASE OptimiseEnds
    <2>1. phase = "target" /\ attempts' = 0 /\ UNCHANGED <<reuse_counts, last, counters>>
      BY <1>11 DEF OptimiseEnds
    <2>2. phase' \in {"generate", "mutate"} /\ (phase' = "mutate" => last = "Valid")
      <3>1. phase' = IF /\ ~nondeterministic /\ last = "Valid"
                        /\ valid_test_cases >= HEALTH_CHECK_MAX_VALID \/ Failures # {}
                     THEN "mutate" ELSE "generate"
        BY <1>11 DEF OptimiseEnds
      <3> QED
        BY <3>1
    <2> QED
      BY <2>1, <2>2, <1>now, <1>then DEF BudgetInv
  <1>12. CASE MutateEnds
    <2>1. /\ phase = "mutate" /\ phase' \in {"generate", "mutate"}
          /\ UNCHANGED <<reuse_counts, last, counters>>
      BY <1>12 DEF MutateEnds
    <2> QED
      BY <2>1, <1>now, <1>then DEF BudgetInv
  <1>13. CASE GenerateEnds
    <2>1. /\ phase' \notin {"simplest", "generate", "target", "mutate"}
          /\ UNCHANGED <<reuse_counts, last, counters>>
      BY <1>13 DEF GenerateEnds
    <2> QED
      BY <2>1, <1>then DEF BudgetInv
  <1>14. CASE DrainEnds
    <2>1. /\ phase' \notin {"simplest", "generate", "target", "mutate"}
          /\ UNCHANGED <<reuse_counts, last, counters>>
      BY <1>14 DEF DrainEnds
    <2> QED
      BY <2>1, <1>then DEF BudgetInv
  <1>15. ASSUME NEW served \in Cases, MutationServed(served) PROVE BudgetInv'
    <2>1. /\ phase = "mutate" /\ phase' \in {"generate", "mutate"}
          /\ UNCHANGED <<reuse_counts, last, counters>>
      BY <1>15 DEF MutationServed
    <2> QED
      BY <2>1, <1>now, <1>then DEF BudgetInv
  <1>16. ASSUME NEW served \in Cases, ShrinkServed(served) PROVE BudgetInv'
    <2>1. /\ phase' \notin {"simplest", "generate", "target", "mutate"}
          /\ UNCHANGED <<reuse_counts, last, counters>>
      BY <1>16 DEF ShrinkServed, ProbesLeft
    <2> QED
      BY <2>1, <1>then DEF BudgetInv
  <1>17. ASSUME NEW timed_out \in BOOLEAN, ShrinkEnds(timed_out) PROVE BudgetInv'
    <2>1. /\ phase' \notin {"simplest", "generate", "target", "mutate"}
          /\ UNCHANGED <<reuse_counts, last, counters>>
      BY <1>17 DEF ShrinkEnds
    <2> QED
      BY <2>1, <1>then DEF BudgetInv
  <1>18. CASE AllShrunk
    <2>1. /\ phase' \notin {"simplest", "generate", "target", "mutate"}
          /\ UNCHANGED <<reuse_counts, last, counters>>
      BY <1>18 DEF AllShrunk
    <2> QED
      BY <2>1, <1>then DEF BudgetInv
  <1>19. CASE Report
    <2>1. /\ phase' \notin {"simplest", "generate", "target", "mutate"}
          /\ UNCHANGED <<reuse_counts, last, counters>>
      BY <1>19 DEF Report
    <2> QED
      BY <2>1, <1>then DEF BudgetInv
  <1>20. CASE UNCHANGED vars
    BY <1>20 DEF vars, BudgetInv, ValidWithinBudget
  <1> QED
    BY <1>1, <1>2, <1>3, <1>4, <1>5, <1>6, <1>7, <1>8, <1>9, <1>10, <1>11, <1>12, <1>13,
       <1>14, <1>15, <1>16, <1>17, <1>18, <1>19, <1>20 DEF Next, Finished

\* BudgetsKept: generation, targeting and mutation share one budget of valid cases, and
\* a test that rejects everything gives up one case beyond InvalidBase.
THEOREM BudgetsHold == Spec => []BudgetsKept
  <1>1. BudgetInv => BudgetsKept
    BY DEF BudgetInv, BudgetsKept, RejectionGivesUp
  <1> QED
    BY <1>1, TypeCorrect, InitBudgetInv, StepBudgetInv, PTL DEF Spec

-----------------------------------------------------------------------------
(* The report covers what was found.                                             *)

\* The shrinker has begun with nothing before the shrink phase.
NotYetShrunk ==
    phase \in Searching \cup {"drain"} => shrunk_origins = {} /\ target = NoTarget

\* The incumbent of origin o is no larger than case c.
Incumbent(o, c) == interesting[o] \in 1..c

\* Every failure that is the latest conclusion of its case is covered by the incumbent of
\* its origin until shrinking begins, what stood when generation ended is from then on,
\* and the shrinker works below it.
CoverInv ==
    /\ NotYetShrunk
    /\ phase \in Searching => \A c \in Cases :
          conclusions[c] \in Origins => Incumbent(conclusions[c], c)
    /\ \A c \in Cases : generated[c] \in Origins => Incumbent(generated[c], c)
    /\ target # NoTarget => \A c \in Cases : generated[c] = target.origin => target.case <= c

\* A conclusion is none before it is reached, which is no origin.
LEMMA NotOrigins ==
    {"Valid", "Invalid", "Overrun", "Concurrent", NoVerdict} \cap Origins = {}
  BY EngineRunOK DEF NoVerdict

\* Incumbents only shrink under update_interesting, and cover the new failure.
LEMMA TestFunctionIncumbents ==
    ASSUME TypeOK, NEW run \in Executions(Cases), TestFunction(run)
    PROVE  /\ \A o \in Origins : \A c \in Cases : Incumbent(o, c) => interesting'[o] \in 1..c
           /\ run.verdict \in Origins => interesting'[run.verdict] \in 1..run.case
           /\ \A o \in Origins : interesting'[o] # interesting[o] =>
                  o = run.verdict /\ interesting'[o] = run.case
  <1>1. run.case \in Cases /\ run.case \in Nat /\ run.case > 0 /\ Cases \subseteq Nat
    BY ExecutionTyped, EngineRunOK DEF Cases
  <1>2. interesting \in [Origins -> Cases \cup {0}]
    BY DEF TypeOK, None
  <1>3. CASE run.verdict \in Origins
    <2>1. interesting' = IF interesting[run.verdict] = 0 \/ run.case < interesting[run.verdict]
                         THEN [interesting EXCEPT ![run.verdict] = run.case] ELSE interesting
      BY <1>3 DEF TestFunction, UpdateInteresting, None
    <2>2. CASE interesting[run.verdict] = 0 \/ run.case < interesting[run.verdict]
      <3>1. /\ interesting'[run.verdict] = run.case
            /\ \A o \in Origins : o # run.verdict => interesting'[o] = interesting[o]
        BY <1>2, <1>3, <2>1, <2>2
      <3>2. ASSUME NEW c \in Cases, interesting[run.verdict] \in 1..c PROVE run.case \in 1..c
        BY <1>1, <1>2, <1>3, <2>2, <3>2
      <3>3. ASSUME NEW o \in Origins, NEW c \in Cases, interesting[o] \in 1..c
            PROVE  interesting'[o] \in 1..c
        BY <3>1, <3>2, <3>3
      <3>4. interesting'[run.verdict] \in 1..run.case
        BY <1>1, <3>1
      <3> QED
        BY <3>1, <3>3, <3>4 DEF Incumbent
    <2>3. CASE ~(interesting[run.verdict] = 0 \/ run.case < interesting[run.verdict])
      <3>1. interesting' = interesting
        BY <2>1, <2>3
      <3>a. interesting[run.verdict] \in Nat
        <4>1. interesting[run.verdict] \in Cases \cup {0}
          BY <1>2, <1>3
        <4>2. Cases \cup {0} \subseteq Nat
          BY <1>1
        <4> QED
          BY <4>1, <4>2
      <3>2. interesting[run.verdict] \in 1..run.case
        BY <1>1, <2>3, <3>a
      <3> QED
        BY <3>1, <3>2 DEF Incumbent
    <2> QED
      BY <2>2, <2>3
  <1>4. CASE run.verdict \notin Origins
    BY <1>4 DEF TestFunction, Incumbent
  <1> QED
    BY <1>3, <1>4

\* What test_function makes the latest conclusion.
LEMMA TestFunctionConclusions ==
    ASSUME TypeOK, NEW run \in Executions(Cases), TestFunction(run)
    PROVE  \A c \in Cases : \/ conclusions'[c] = conclusions[c]
                            \/ c = run.case /\ conclusions'[c] = run.verdict
  BY DEF TypeOK, Conclusions, TestFunction

\* The shrinker never moves to a larger case, nor to another origin.
LEMMA AdoptedSmaller ==
    ASSUME TypeOK, target # NoTarget, NEW c \in Cases, NEW verdict, Adopt(c, verdict)
    PROVE  /\ target'.origin = target.origin /\ target'.case <= target.case
           /\ {target'.case, target.case} \subseteq Cases
  <1>1. target \in [origin : Origins, case : Cases]
    BY DEF TypeOK
  <1>2. target.case \in Nat /\ c \in Nat
    BY <1>1, EngineRunOK DEF Cases
  <1>3. CASE target' = target
    BY <1>1, <1>2, <1>3
  <1>4. CASE c < target.case /\ target' = [target EXCEPT !.case = c]
    BY <1>1, <1>2, <1>4
  <1> QED
    BY <1>3, <1>4 DEF Adopt

\* Only the last step of a run reports.
LEMMA OnlyReportReports ==
    ASSUME TypeOK, [Next]_vars
    PROVE  \/ Report \/ UNCHANGED vars
           \/ result'.kind # "Ok"
  <1> USE DEF Fail, Unless, TypeOK
  <1>1. ASSUME NEW run \in Executions(Cases), NEW flag \in BOOLEAN, Reuse(run, flag)
        PROVE  result'.kind # "Ok"
    BY <1>1 DEF Reuse
  <1>2. ASSUME NEW run \in Executions(Cases), NEW flag \in BOOLEAN, Simplest(run, flag)
        PROVE  result'.kind # "Ok"
    BY <1>2 DEF Simplest
  <1>3. ASSUME NEW run \in Executions(Cases), NEW flag \in BOOLEAN, Generate(run, flag)
        PROVE  result'.kind # "Ok"
    BY <1>3 DEF Generate
  <1>4. ASSUME NEW run \in Executions(Cases), Optimise(run)
        PROVE  result'.kind # "Ok"
    BY <1>4 DEF Optimise
  <1>5. ASSUME NEW run \in Executions(Cases), Mutate(run)
        PROVE  result'.kind # "Ok"
    BY <1>5 DEF Mutate
  <1>6. ASSUME NEW run \in Executions(Cases), Drain(run)
        PROVE  result'.kind # "Ok"
    BY <1>6 DEF Drain
  <1>7. ASSUME NEW run \in Executions(Cases), ShrinkProbe(run)
        PROVE  result'.kind # "Ok"
    BY <1>7 DEF ShrinkProbe, ProbesLeft
  <1>8. ASSUME NEW run \in Executions(Cases), NEW o \in Origins, Verify(o, run)
        PROVE  result'.kind # "Ok"
    BY <1>8 DEF Verify
  <1>9. CASE ReuseEnds
    BY <1>9 DEF ReuseEnds
  <1>10. CASE SkipSimplest
    BY <1>10 DEF SkipSimplest
  <1>11. CASE OptimiseEnds
    BY <1>11 DEF OptimiseEnds
  <1>12. CASE MutateEnds
    BY <1>12 DEF MutateEnds
  <1>13. CASE GenerateEnds
    <2>1. CASE Unsatisfiable \/ Exhausted
      BY <1>13, <2>1 DEF GenerateEnds
    <2>2. CASE ~(Unsatisfiable \/ Exhausted)
      <3>1. UNCHANGED result /\ phase # "done"
        BY <1>13, <2>2 DEF GenerateEnds
      <3> QED
        BY <3>1
    <2> QED
      BY <2>1, <2>2
  <1>14. CASE DrainEnds
    BY <1>14 DEF DrainEnds
  <1>15. ASSUME NEW served \in Cases, MutationServed(served)
        PROVE  result'.kind # "Ok"
    BY <1>15 DEF MutationServed
  <1>16. ASSUME NEW served \in Cases, ShrinkServed(served)
        PROVE  result'.kind # "Ok"
    BY <1>16 DEF ShrinkServed, ProbesLeft
  <1>17. ASSUME NEW timed_out \in BOOLEAN, ShrinkEnds(timed_out)
        PROVE  result'.kind # "Ok"
    BY <1>17 DEF ShrinkEnds
  <1>18. CASE AllShrunk
    BY <1>18 DEF AllShrunk
  <1> QED
    BY <1>1, <1>2, <1>3, <1>4, <1>5, <1>6, <1>7, <1>8, <1>9, <1>10, <1>11, <1>12, <1>13,
       <1>14, <1>15, <1>16, <1>17, <1>18 DEF Next, Finished, vars

\* Nothing has failed when a run starts.
LEMMA InitCoverInv == Init => CoverInv
  BY NotOrigins DEF Init, CoverInv, NotYetShrunk, NoTarget, NoVerdict

\* Every step keeps the failures covered.
LEMMA StepCoverInv == TypeOK /\ CoverInv /\ [Next]_vars => CoverInv'
  <1> SUFFICES ASSUME TypeOK, CoverInv, [Next]_vars PROVE CoverInv'
    OBVIOUS
  <1> USE DEF CoverInv, NotYetShrunk, Incumbent, Searching, Fail, Unless, vars, input,
          recorded, counters, shrinking, ends
  <1>1. ASSUME NEW run \in Executions(Cases), NEW flag \in BOOLEAN, Reuse(run, flag)
        PROVE  CoverInv'
    <2>1. /\ UNCHANGED <<generated, shrunk_origins, target>>
          /\ phase \in Searching \cup {"drain"}
          /\ phase' \in Searching => phase \in Searching
      BY <1>1 DEF Reuse
    <2>0. TestFunction(run)
      BY <1>1 DEF Reuse
    <2>2. /\ \A o \in Origins : \A c \in Cases :
                interesting[o] \in 1..c => interesting'[o] \in 1..c
          /\ run.verdict \in Origins => interesting'[run.verdict] \in 1..run.case
      BY <2>0, TestFunctionIncumbents
    <2>6. \A c \in Cases : \/ conclusions'[c] = conclusions[c]
                           \/ c = run.case /\ conclusions'[c] = run.verdict
      BY <2>0, TestFunctionConclusions
    <2>3. run.case \in Cases
      BY ExecutionTyped
    <2>4. \A c \in Cases : generated[c] \in Origins => interesting'[generated[c]] \in 1..c
      BY <2>2
    <2>5. phase \in Searching => \A c \in Cases :
             conclusions'[c] \in Origins => interesting'[conclusions'[c]] \in 1..c
      BY <2>2, <2>3, <2>6
    <2> QED
      BY <2>1, <2>4, <2>5
  <1>2. ASSUME NEW run \in Executions(Cases), NEW flag \in BOOLEAN, Simplest(run, flag)
        PROVE  CoverInv'
    <2>1. /\ UNCHANGED <<generated, shrunk_origins, target>>
          /\ phase \in Searching \cup {"drain"}
          /\ phase' \in Searching => phase \in Searching
      BY <1>2 DEF Simplest
    <2>0. TestFunction(run)
      BY <1>2 DEF Simplest
    <2>2. /\ \A o \in Origins : \A c \in Cases :
                interesting[o] \in 1..c => interesting'[o] \in 1..c
          /\ run.verdict \in Origins => interesting'[run.verdict] \in 1..run.case
      BY <2>0, TestFunctionIncumbents
    <2>6. \A c \in Cases : \/ conclusions'[c] = conclusions[c]
                           \/ c = run.case /\ conclusions'[c] = run.verdict
      BY <2>0, TestFunctionConclusions
    <2>3. run.case \in Cases
      BY ExecutionTyped
    <2>4. \A c \in Cases : generated[c] \in Origins => interesting'[generated[c]] \in 1..c
      BY <2>2
    <2>5. phase \in Searching => \A c \in Cases :
             conclusions'[c] \in Origins => interesting'[conclusions'[c]] \in 1..c
      BY <2>2, <2>3, <2>6
    <2> QED
      BY <2>1, <2>4, <2>5
  <1>3. ASSUME NEW run \in Executions(Cases), NEW flag \in BOOLEAN, Generate(run, flag)
        PROVE  CoverInv'
    <2>1. /\ UNCHANGED <<generated, shrunk_origins, target>>
          /\ phase \in Searching \cup {"drain"}
          /\ phase' \in Searching => phase \in Searching
      BY <1>3 DEF Generate
    <2>0. TestFunction(run)
      BY <1>3 DEF Generate
    <2>2. /\ \A o \in Origins : \A c \in Cases :
                interesting[o] \in 1..c => interesting'[o] \in 1..c
          /\ run.verdict \in Origins => interesting'[run.verdict] \in 1..run.case
      BY <2>0, TestFunctionIncumbents
    <2>6. \A c \in Cases : \/ conclusions'[c] = conclusions[c]
                           \/ c = run.case /\ conclusions'[c] = run.verdict
      BY <2>0, TestFunctionConclusions
    <2>3. run.case \in Cases
      BY ExecutionTyped
    <2>4. \A c \in Cases : generated[c] \in Origins => interesting'[generated[c]] \in 1..c
      BY <2>2
    <2>5. phase \in Searching => \A c \in Cases :
             conclusions'[c] \in Origins => interesting'[conclusions'[c]] \in 1..c
      BY <2>2, <2>3, <2>6
    <2> QED
      BY <2>1, <2>4, <2>5
  <1>4. ASSUME NEW run \in Executions(Cases), Optimise(run) PROVE CoverInv'
    <2>1. /\ UNCHANGED <<generated, shrunk_origins, target>>
          /\ phase \in Searching \cup {"drain"}
          /\ phase' \in Searching => phase \in Searching
      BY <1>4 DEF Optimise
    <2>0. TestFunction(run)
      BY <1>4 DEF Optimise
    <2>2. /\ \A o \in Origins : \A c \in Cases :
                interesting[o] \in 1..c => interesting'[o] \in 1..c
          /\ run.verdict \in Origins => interesting'[run.verdict] \in 1..run.case
      BY <2>0, TestFunctionIncumbents
    <2>6. \A c \in Cases : \/ conclusions'[c] = conclusions[c]
                           \/ c = run.case /\ conclusions'[c] = run.verdict
      BY <2>0, TestFunctionConclusions
    <2>3. run.case \in Cases
      BY ExecutionTyped
    <2>4. \A c \in Cases : generated[c] \in Origins => interesting'[generated[c]] \in 1..c
      BY <2>2
    <2>5. phase \in Searching => \A c \in Cases :
             conclusions'[c] \in Origins => interesting'[conclusions'[c]] \in 1..c
      BY <2>2, <2>3, <2>6
    <2> QED
      BY <2>1, <2>4, <2>5
  <1>5. ASSUME NEW run \in Executions(Cases), Mutate(run) PROVE CoverInv'
    <2>1. /\ UNCHANGED <<generated, shrunk_origins, target>>
          /\ phase \in Searching \cup {"drain"}
          /\ phase' \in Searching => phase \in Searching
      BY <1>5 DEF Mutate
    <2>0. TestFunction(run)
      BY <1>5 DEF Mutate
    <2>2. /\ \A o \in Origins : \A c \in Cases :
                interesting[o] \in 1..c => interesting'[o] \in 1..c
          /\ run.verdict \in Origins => interesting'[run.verdict] \in 1..run.case
      BY <2>0, TestFunctionIncumbents
    <2>6. \A c \in Cases : \/ conclusions'[c] = conclusions[c]
                           \/ c = run.case /\ conclusions'[c] = run.verdict
      BY <2>0, TestFunctionConclusions
    <2>3. run.case \in Cases
      BY ExecutionTyped
    <2>4. \A c \in Cases : generated[c] \in Origins => interesting'[generated[c]] \in 1..c
      BY <2>2
    <2>5. phase \in Searching => \A c \in Cases :
             conclusions'[c] \in Origins => interesting'[conclusions'[c]] \in 1..c
      BY <2>2, <2>3, <2>6
    <2> QED
      BY <2>1, <2>4, <2>5
  <1>6. ASSUME NEW run \in Executions(Cases), Drain(run) PROVE CoverInv'
    <2>1. /\ UNCHANGED <<generated, shrunk_origins, target>>
          /\ phase \in Searching \cup {"drain"}
          /\ phase' \in Searching => phase \in Searching
      BY <1>6 DEF Drain
    <2>0. TestFunction(run)
      BY <1>6 DEF Drain
    <2>2. /\ \A o \in Origins : \A c \in Cases :
                interesting[o] \in 1..c => interesting'[o] \in 1..c
          /\ run.verdict \in Origins => interesting'[run.verdict] \in 1..run.case
      BY <2>0, TestFunctionIncumbents
    <2>6. \A c \in Cases : \/ conclusions'[c] = conclusions[c]
                           \/ c = run.case /\ conclusions'[c] = run.verdict
      BY <2>0, TestFunctionConclusions
    <2>3. run.case \in Cases
      BY ExecutionTyped
    <2>4. \A c \in Cases : generated[c] \in Origins => interesting'[generated[c]] \in 1..c
      BY <2>2
    <2>5. phase \in Searching => \A c \in Cases :
             conclusions'[c] \in Origins => interesting'[conclusions'[c]] \in 1..c
      BY <2>2, <2>3, <2>6
    <2> QED
      BY <2>1, <2>4, <2>5
  <1>7. ASSUME NEW run \in Executions(Cases), ShrinkProbe(run) PROVE CoverInv'
    <2>1. UNCHANGED generated /\ phase' \in {"shrink", "done"} /\ target # NoTarget
      BY <1>7 DEF ShrinkProbe, ProbesLeft
    <2>a. /\ target'.origin = target.origin /\ target'.case <= target.case
          /\ {target'.case, target.case} \subseteq Cases
      BY <1>7, <2>1, ExecutionTyped, AdoptedSmaller DEF ShrinkProbe
    <2>2. \A o \in Origins : \A c \in Cases : Incumbent(o, c) => interesting'[o] \in 1..c
      BY <1>7, TestFunctionIncumbents DEF ShrinkProbe
    <2>b. \A c \in Cases : generated[c] = target'.origin => target'.case <= c
      <3>1. ASSUME NEW c \in Cases, generated[c] = target.origin PROVE target'.case <= c
        <4>1. target.case <= c
          BY <2>1, <3>1
        <4> QED
          BY <2>a, <4>1, EngineRunOK DEF Cases
      <3> QED
        BY <2>a, <3>1
    <2> QED
      BY <2>1, <2>2, <2>b
  <1>8. ASSUME NEW run \in Executions(Cases), NEW o \in Origins, Verify(o, run)
        PROVE  CoverInv'
    <2>1. UNCHANGED generated /\ phase' \in {"shrink", "done"}
          /\ target' = [origin |-> o, case |-> run.case] /\ run.case = interesting[o]
      BY <1>8 DEF Verify
    <2>2. \A p \in Origins : \A c \in Cases : Incumbent(p, c) => interesting'[p] \in 1..c
      BY <1>8, TestFunctionIncumbents DEF Verify
    <2>3. \A c \in Cases : generated[c] = o => interesting[o] <= c
      <3>1. ASSUME NEW c \in Cases, generated[c] = o PROVE interesting[o] <= c
        <4>1. interesting[o] \in 1..c /\ c \in Nat
          BY <3>1, EngineRunOK DEF Cases
        <4> QED
          BY <4>1
      <3> QED
        BY <3>1
    <2> QED
      BY <2>1, <2>2, <2>3
  <1>9. CASE ReuseEnds
    BY <1>9 DEF ReuseEnds
  <1>10. CASE SkipSimplest
    BY <1>10 DEF SkipSimplest
  <1>11. CASE OptimiseEnds
    <2>1. UNCHANGED <<generated, conclusions, interesting, target, shrunk_origins>>
          /\ phase \in Searching
      BY <1>11 DEF OptimiseEnds
    <2> QED
      BY <2>1
  <1>12. CASE MutateEnds
    BY <1>12 DEF MutateEnds
  <1>13. CASE GenerateEnds
    <2>1. /\ generated' = conclusions /\ UNCHANGED <<interesting, target, shrunk_origins>>
          /\ phase' \notin Searching /\ phase = "generate"
      BY <1>13 DEF GenerateEnds
    <2> QED
      BY <2>1
  <1>14. CASE DrainEnds
    BY <1>14 DEF DrainEnds
  <1>15. ASSUME NEW served \in Cases, MutationServed(served) PROVE CoverInv'
    <2>1. UNCHANGED <<generated, conclusions, interesting, target, shrunk_origins>>
          /\ phase \in Searching
      BY <1>15 DEF MutationServed
    <2> QED
      BY <2>1
  <1>16. ASSUME NEW served \in Cases, ShrinkServed(served) PROVE CoverInv'
    <2>1. /\ UNCHANGED <<generated, interesting>> /\ phase' = "shrink" /\ target # NoTarget
      BY <1>16 DEF ShrinkServed, ProbesLeft
    <2>a. /\ target'.origin = target.origin /\ target'.case <= target.case
          /\ {target'.case, target.case} \subseteq Cases
      BY <1>16, <2>1, AdoptedSmaller DEF ShrinkServed
    <2>b. \A c \in Cases : generated[c] = target'.origin => target'.case <= c
      <3>1. ASSUME NEW c \in Cases, generated[c] = target.origin PROVE target'.case <= c
        <4>1. target.case <= c
          BY <2>1, <3>1
        <4> QED
          BY <2>a, <4>1, EngineRunOK DEF Cases
      <3> QED
        BY <2>a, <3>1
    <2> QED
      BY <2>1, <2>b
  <1>17. ASSUME NEW timed_out \in BOOLEAN, ShrinkEnds(timed_out) PROVE CoverInv'
    <2>1. /\ UNCHANGED <<generated, phase>> /\ phase = "shrink" /\ target # NoTarget
          /\ target' = NoTarget /\ target \in [origin : Origins, case : Cases]
          /\ interesting' = [interesting EXCEPT ![target.origin] = target.case]
      BY <1>17 DEF ShrinkEnds, TypeOK
    <2>2. \A c \in Cases : generated[c] = target.origin => target.case \in 1..c
      BY <2>1, EngineRunOK DEF Cases
    <2>3. \A c \in Cases : generated[c] \in Origins => interesting'[generated[c]] \in 1..c
      BY <2>1, <2>2 DEF TypeOK
    <2> QED
      BY <2>1, <2>3
  <1>18. CASE AllShrunk
    BY <1>18 DEF AllShrunk
  <1>19. CASE Report
    <2>1. UNCHANGED <<generated, interesting, target>> /\ phase' = "done"
      BY <1>19 DEF Report
    <2> QED
      BY <2>1
  <1>20. CASE UNCHANGED vars
    BY <1>20 DEF vars
  <1> QED
    BY <1>1, <1>2, <1>3, <1>4, <1>5, <1>6, <1>7, <1>8, <1>9, <1>10, <1>11, <1>12, <1>13,
       <1>14, <1>15, <1>16, <1>17, <1>18, <1>19, <1>20 DEF Next, Finished

-----------------------------------------------------------------------------
(* The report.                                                                   *)

\* Any set of cases that failed has a smallest one.
LEMMA SmallestExists ==
    ASSUME NEW S \in SUBSET Nat, S # {}
    PROVE  \E x \in S : \A y \in S : x <= y
  <1>1. PICK x \in S : \A y \in S : ~(<<y, x>> \in OpToRel(<, Nat))
    BY WFMin, NatLessThanWellFounded, Zenon
  <1>2. \A y \in S : <<y, x>> \in Nat \X Nat
    OBVIOUS
  <1>3. \A y \in S : ~(y < x)
    BY <1>1, <1>2, Zenon DEF OpToRel
  <1> QED
    BY <1>3

\* An incumbent is a case that can be compared.
LEMMA IncumbentsCounted == TypeOK => \A o \in Origins : interesting[o] \in Nat
  <1>1. Cases \cup {None} \subseteq Nat
    BY EngineRunOK DEF Cases, None
  <1>2. TypeOK => \A o \in Origins : interesting[o] \in Cases \cup {None}
    BY DEF TypeOK
  <1> QED
    BY <1>1, <1>2

\* Something is reportable when something failed.
LEMMA SomethingReportable ==
    ASSUME TypeOK, Failures # {}
    PROVE  Reportable # {}
  <1> DEFINE S == {interesting[o] : o \in Failures}
  <1>1. S \in SUBSET Nat /\ S # {}
    BY IncumbentsCounted DEF Failures
  <1> HIDE DEF S
  <1>2. PICK x \in S : \A y \in S : x <= y
    BY <1>1, SmallestExists
  <1>3. PICK o \in Failures : x = interesting[o]
    BY DEF S
  <1>4. \A p \in Failures : interesting[o] <= interesting[p]
    BY <1>2, <1>3 DEF S
  <1> QED
    BY <1>4 DEF Reportable

\* The last step of a run reports failures that cover everything that was found.
LEMMA ReportCovers ==
    ASSUME TypeOK, FoundInv, CoverInv, Report
    PROVE  ReportCoversFindings'
  <1>1. PICK chosen \in IF settings.report_multiple \/ Reportable = {} THEN {Reportable}
                        ELSE {{o} : o \in Reportable} :
           result' = [kind |-> "Ok", blobs |-> ~nondeterministic,
                      failures |-> {[origin |-> o, case |-> interesting[o]] : o \in chosen}]
    BY DEF Report
  <1>2. UNCHANGED <<settings, found, generated>> /\ found = Failures
    BY DEF Report, FoundInv, input, recorded, ends
  <1>3. chosen \subseteq Failures
    BY <1>1 DEF Reportable
  <1>4. /\ \A o \in chosen : [origin |-> o, case |-> interesting[o]] \in result'.failures
        /\ \A f \in result'.failures : \E o \in chosen : f = [origin |-> o, case |-> interesting[o]]
    BY <1>1
  <1>5. Reported' = chosen
    <2>1. Reported' = {f.origin : f \in result'.failures}
      BY DEF Reported
    <2>2. ASSUME NEW o \in chosen PROVE o \in {f.origin : f \in result'.failures}
      <3>1. PICK f \in result'.failures : f = [origin |-> o, case |-> interesting[o]]
        BY <1>4
      <3>2. f.origin = o
        BY <3>1
      <3> QED
        BY <3>2
    <2>3. ASSUME NEW f \in result'.failures PROVE f.origin \in chosen
      <3>1. PICK o \in chosen : f = [origin |-> o, case |-> interesting[o]]
        BY <1>4
      <3> QED
        BY <3>1
    <2> QED
      BY <2>1, <2>2, <2>3
  <1>6. ASSUME settings.report_multiple PROVE Reported' = found'
    BY <1>1, <1>2, <1>5, <1>6 DEF Reportable
  <1>7. ASSUME ~settings.report_multiple
        PROVE  Reported' \subseteq found' /\ (Reported' = {}) = (found' = {})
    <2>1. Reported' \subseteq found'
      BY <1>2, <1>3, <1>5
    <2>2. CASE Failures = {}
      BY <1>2, <2>1, <2>2
    <2>3. CASE Failures # {}
      <3>1. chosen # {}
        BY <1>1, <1>7, <2>3, SomethingReportable
      <3> QED
        BY <1>2, <1>5, <2>1, <2>3, <3>1
    <2> QED
      BY <2>2, <2>3
  <1>8. \A c \in Cases : generated[c] \in Origins =>
           /\ generated[c] \in Failures /\ interesting[generated[c]] <= c
           /\ interesting[generated[c]] \in Nat /\ c \in Nat
    <2>1. ASSUME NEW c \in Cases, generated[c] \in Origins
          PROVE  interesting[generated[c]] \in 1..c /\ c \in Nat
      BY <2>1, EngineRunOK DEF CoverInv, Incumbent, Cases
    <2> QED
      BY <2>1 DEF Failures, None
  <1>9. \A o \in chosen : \A c \in Cases :
           generated[c] \in (IF settings.report_multiple THEN {o} ELSE Origins)
               => interesting[o] <= c
    <2>1. ASSUME NEW o \in chosen, NEW c \in Cases, settings.report_multiple, generated[c] = o
          PROVE  interesting[o] <= c
      BY <1>3, <1>8, <2>1 DEF Failures
    <2>2. ASSUME NEW o \in chosen, NEW c \in Cases, ~settings.report_multiple,
                 generated[c] \in Origins
          PROVE  interesting[o] <= c
      <3>1. o \in Reportable
        BY <1>1, <2>2
      <3>2. interesting[o] <= interesting[generated[c]]
        BY <1>8, <2>2, <3>1 DEF Reportable
      <3>3. interesting[o] \in Nat
        BY <3>1, IncumbentsCounted DEF Reportable, Failures
      <3> QED
        BY <1>8, <2>2, <3>2, <3>3
    <2> QED
      BY <2>1, <2>2
  <1>10. \A f \in result'.failures : \A c \in Cases :
            generated'[c] \in (IF settings'.report_multiple THEN {f.origin} ELSE Origins)
                => f.case <= c
    <2>1. ASSUME NEW f \in result'.failures, NEW c \in Cases,
                 generated'[c] \in (IF settings'.report_multiple THEN {f.origin} ELSE Origins)
          PROVE  f.case <= c
      <3>1. PICK o \in chosen : f = [origin |-> o, case |-> interesting[o]]
        BY <1>4
      <3>2. f.origin = o /\ f.case = interesting[o]
        BY <3>1
      <3>3. generated[c] \in (IF settings.report_multiple THEN {o} ELSE Origins)
        BY <1>2, <2>1, <3>2
      <3> QED
        BY <1>9, <3>2, <3>3
    <2> QED
      BY <2>1
  <1> QED
    BY <1>2, <1>6, <1>7, <1>10 DEF ReportCoversFindings

\* Every step keeps the report, once there is one, covering what was found.
LEMMA StepReportCovers ==
    TypeOK /\ FoundInv /\ CoverInv /\ ReportCoversFindings /\ [Next]_vars => ReportCoversFindings'
  <1> SUFFICES ASSUME TypeOK, FoundInv, CoverInv, ReportCoversFindings, [Next]_vars
               PROVE  ReportCoversFindings'
    OBVIOUS
  <1>1. CASE Report
    BY <1>1, ReportCovers
  <1>2. CASE UNCHANGED vars
    BY <1>2 DEF vars, input, recorded, ends, ReportCoversFindings, Reported
  <1>3. CASE result'.kind # "Ok"
    BY <1>3 DEF ReportCoversFindings
  <1> QED
    BY <1>1, <1>2, <1>3, OnlyReportReports

-----------------------------------------------------------------------------
(* The report stands: as long as the run is deterministic, what the cache holds,  *)
(* what was concluded last and what is kept agree, but for a case below which the  *)
(* shrinker has already gone.                                                     *)

\* Until a mismatch ends the run, the cache holds the latest conclusions.
SeenConcluded == ~nondeterministic /\ phase \in Searching => seen = conclusions

\* Every incumbent failed with its origin when it was last executed.
IncumbentsStand ==
    ~nondeterministic /\ phase \in Searching \cup {"report"} =>
        \A o \in Failures : conclusions[interesting[o]] = o

\* A failure in the cache is covered, until its origin is shrunk.
SeenCovered ==
    ~nondeterministic => \A c \in Cases :
        seen[c] \in Origins \ shrunk_origins => Incumbent(seen[c], c)

\* A shrunk incumbent stands, in the cache as well.
ShrunkStand ==
    ~nondeterministic /\ phase = "shrink" => \A o \in shrunk_origins \cap Failures :
        seen[interesting[o]] = o /\ conclusions[interesting[o]] = o

\* The shrinker's case stands, and so does any smaller one the cache could serve it.
TargetStands ==
    ~nondeterministic /\ phase = "shrink" /\ target # NoTarget =>
        /\ target.origin \notin shrunk_origins
        /\ seen[target.case] = target.origin /\ conclusions[target.case] = target.origin
        /\ \A c \in Cases : c < target.case /\ seen[c] = target.origin =>
              conclusions[c] = target.origin

StandInv ==
    SeenConcluded /\ IncumbentsStand /\ SeenCovered /\ ShrunkStand /\ TargetStands

\* What ExecCache::record and the latest conclusion become while the run stays
\* deterministic: the first verdict of a case is kept, the last is its conclusion.
LEMMA TestFunctionRemembers ==
    ASSUME TypeOK, NEW run \in Executions(Cases), TestFunction(run), ~nondeterministic'
    PROVE  /\ ~nondeterministic
           /\ \A c \in Cases : c # run.case =>
                  seen'[c] = seen[c] /\ conclusions'[c] = conclusions[c]
           /\ run.verdict = "Overrun" => seen' = seen /\ conclusions' = conclusions
           /\ run.verdict # "Overrun" => conclusions'[run.case] = run.verdict
           /\ seen'[run.case] # seen[run.case] => seen'[run.case] = run.verdict
           /\ run.verdict # "Overrun" /\ ~Mismatch(run) =>
                  /\ seen[run.case] \in {NoVerdict, run.verdict}
                  /\ seen'[run.case] = run.verdict
  <1>1. run.case \in Cases /\ seen \in Conclusions /\ conclusions \in Conclusions
    BY ExecutionTyped DEF TypeOK
  <1>2. ~Flips(run)
    BY DEF TestFunction
  <1>3. conclusions' = IF run.verdict = "Overrun" THEN conclusions
                       ELSE [conclusions EXCEPT ![run.case] = run.verdict]
    BY DEF TestFunction
  <1>4. CASE run.verdict = "Overrun"
    <2>1. seen' = seen
      BY <1>2, <1>4 DEF TestFunction, Remember
    <2> QED
      BY <1>2, <1>3, <1>4, <2>1 DEF Flips
  <1>5. CASE run.verdict # "Overrun"
    <2>1. seen' = IF seen[run.case] # NoVerdict THEN seen
                  ELSE [seen EXCEPT ![run.case] = run.verdict]
      BY <1>2, <1>5 DEF TestFunction, Remember
    <2>2. ~Mismatch(run) => seen[run.case] \in {NoVerdict, run.verdict}
      BY <1>2, <1>5 DEF Mismatch
    <2>3. ~nondeterministic
      BY <1>2 DEF Flips
    <2> QED
      BY <1>1, <1>3, <1>5, <2>1, <2>2, <2>3 DEF Conclusions
  <1> QED
    BY <1>4, <1>5

\* An execution of a phase that looks for a mismatch, and finds none.
LEMMA SearchStands ==
    ASSUME TypeOK, SeenConcluded, IncumbentsStand, phase \in Searching,
           NEW run \in Executions(Cases), TestFunction(run), ~Mismatch(run), ~nondeterministic'
    PROVE  /\ seen' = conclusions'
           /\ \A o \in Failures' : conclusions'[interesting'[o]] = o
  <1>1. /\ seen = conclusions
        /\ \A o \in Failures : conclusions[interesting[o]] = o
    BY TestFunctionRemembers DEF SeenConcluded, IncumbentsStand
  <1>2. /\ run.case \in Cases
        /\ {seen, conclusions, seen', conclusions'} \subseteq Conclusions
    BY ExecutionTyped, TestFunctionTyped DEF TypeOK
  <1>3. \A c \in Cases : seen'[c] = conclusions'[c]
    BY <1>1, <1>2, TestFunctionRemembers
  <1>4. seen' = conclusions'
    BY <1>2, <1>3 DEF Conclusions
  <1>5. ASSUME NEW o \in Failures' PROVE conclusions'[interesting'[o]] = o
    <2>1. interesting' \in [Origins -> Cases \cup {None}] /\ o \in Origins
      BY TestFunctionTyped DEF Failures
    <2>2. CASE interesting'[o] = interesting[o]
      <3>1. o \in Failures /\ interesting[o] \in Cases
        BY <2>1, <2>2 DEF Failures
      <3>2. seen[interesting[o]] = o /\ conclusions[interesting[o]] = o
        BY <1>1, <3>1
      <3>3. CASE interesting[o] = run.case /\ run.verdict # "Overrun"
        <4>1. o \in {NoVerdict, run.verdict} /\ conclusions'[run.case] = run.verdict
          BY <3>2, <3>3, TestFunctionRemembers
        <4> QED
          BY <2>1, <2>2, <3>3, <4>1, NotOrigins
      <3> QED
        BY <2>2, <3>1, <3>2, <3>3, TestFunctionRemembers
    <2>3. CASE interesting'[o] # interesting[o]
      <3>1. o = run.verdict /\ interesting'[o] = run.case
        BY <2>1, <2>3, TestFunctionIncumbents
      <3>2. run.verdict # "Overrun"
        BY <2>1, <3>1, NotOrigins
      <3> QED
        BY <3>1, <3>2, TestFunctionRemembers
    <2> QED
      BY <2>2, <2>3
  <1> QED
    BY <1>4, <1>5

\* Whatever phase executes a case, what it adds to the cache is covered.
LEMMA TestFunctionCovers ==
    ASSUME TypeOK, SeenCovered, NEW run \in Executions(Cases), TestFunction(run),
           UNCHANGED shrunk_origins
    PROVE  SeenCovered'
  <1> SUFFICES ASSUME ~nondeterministic', NEW c \in Cases, seen'[c] \in Origins \ shrunk_origins
               PROVE  interesting'[seen'[c]] \in 1..c
    BY DEF SeenCovered, Incumbent
  <1>1. \A o \in Origins : interesting[o] \in 1..c => interesting'[o] \in 1..c
    BY TestFunctionIncumbents DEF Incumbent
  <1>2. CASE seen'[c] = seen[c]
    BY <1>1, <1>2, TestFunctionRemembers DEF SeenCovered, Incumbent
  <1>3. CASE seen'[c] # seen[c]
    <2>1. c = run.case /\ seen'[c] = run.verdict
      BY <1>3, TestFunctionRemembers
    <2> QED
      BY <2>1, TestFunctionIncumbents
  <1> QED
    BY <1>2, <1>3

\* An execution of the shrink phase that finds no mismatch.
LEMMA ShrinkingStands ==
    ASSUME TypeOK, ShrunkStand, phase = "shrink",
           NEW run \in Executions(Cases), TestFunction(run), ~Mismatch(run), ~nondeterministic'
    PROVE  \A o \in shrunk_origins \cap Failures' :
              seen'[interesting'[o]] = o /\ conclusions'[interesting'[o]] = o
  <1> SUFFICES ASSUME NEW o \in shrunk_origins \cap Failures'
               PROVE  seen'[interesting'[o]] = o /\ conclusions'[interesting'[o]] = o
    OBVIOUS
  <1>1. interesting' \in [Origins -> Cases \cup {None}] /\ o \in Origins
    BY TestFunctionTyped DEF Failures
  <1>2. CASE interesting'[o] = interesting[o]
    <2>1. o \in Failures /\ interesting[o] \in Cases
      BY <1>1, <1>2 DEF Failures
    <2>2. seen[interesting[o]] = o /\ conclusions[interesting[o]] = o
      BY <2>1, TestFunctionRemembers DEF ShrunkStand
    <2>3. CASE interesting[o] = run.case /\ run.verdict # "Overrun"
      <3>1. /\ o \in {NoVerdict, run.verdict}
            /\ seen'[run.case] = run.verdict /\ conclusions'[run.case] = run.verdict
        BY <2>2, <2>3, TestFunctionRemembers
      <3> QED
        BY <1>1, <1>2, <2>3, <3>1, NotOrigins
    <2> QED
      BY <1>2, <2>1, <2>2, <2>3, TestFunctionRemembers
  <1>3. CASE interesting'[o] # interesting[o]
    <2>1. o = run.verdict /\ interesting'[o] = run.case
      BY <1>1, <1>3, TestFunctionIncumbents
    <2>2. run.verdict # "Overrun"
      BY <1>1, <2>1, NotOrigins
    <2> QED
      BY <2>1, <2>2, TestFunctionRemembers
  <1> QED
    BY <1>2, <1>3

\* The case the shrinker is at after it executed one stands, whether it moved or not.
LEMMA ProbeStands ==
    ASSUME TypeOK, TargetStands, phase = "shrink", target # NoTarget,
           UNCHANGED shrunk_origins,
           NEW run \in Executions(Cases), TestFunction(run), ~Mismatch(run),
           Adopt(run.case, run.verdict)
    PROVE  TargetStands'
  <1> SUFFICES ASSUME ~nondeterministic'
               PROVE  /\ target'.origin \notin shrunk_origins
                      /\ seen'[target'.case] = target'.origin
                      /\ conclusions'[target'.case] = target'.origin
                      /\ \A c \in Cases : c < target'.case /\ seen'[c] = target'.origin =>
                            conclusions'[c] = target'.origin
    BY DEF TargetStands
  <1>1. /\ target.origin \in Origins /\ target.case \in Cases /\ target'.origin = target.origin
        /\ target'.case \in Cases /\ target'.case <= target.case /\ run.case \in Cases
    BY AdoptedSmaller, ExecutionTyped DEF TypeOK
  <1>2. Cases \subseteq Nat
    BY EngineRunOK DEF Cases
  <1>3. /\ target.origin \notin shrunk_origins
        /\ seen[target.case] = target.origin /\ conclusions[target.case] = target.origin
        /\ \A c \in Cases : c < target.case /\ seen[c] = target.origin =>
              conclusions[c] = target.origin
    BY TestFunctionRemembers DEF TargetStands
  <1>4. \A c \in Cases : c < target.case /\ seen'[c] = target.origin =>
           conclusions'[c] = target.origin
    <2> SUFFICES ASSUME NEW c \in Cases, c < target.case, seen'[c] = target.origin
                 PROVE  conclusions'[c] = target.origin
      OBVIOUS
    <2>1. CASE c = run.case /\ run.verdict # "Overrun"
      BY <2>1, TestFunctionRemembers
    <2>2. CASE ~(c = run.case /\ run.verdict # "Overrun")
      BY <1>3, <2>2, TestFunctionRemembers
    <2> QED
      BY <2>1, <2>2
  <1>5. CASE target' = target
    <2>1. CASE run.case = target.case /\ run.verdict # "Overrun"
      <3>1. /\ target.origin \in {NoVerdict, run.verdict}
            /\ seen'[run.case] = run.verdict /\ conclusions'[run.case] = run.verdict
        BY <1>3, <2>1, TestFunctionRemembers
      <3> QED
        BY <1>1, <1>3, <1>4, <1>5, <2>1, <3>1, NotOrigins
    <2>2. CASE ~(run.case = target.case /\ run.verdict # "Overrun")
      BY <1>1, <1>3, <1>4, <1>5, <2>2, TestFunctionRemembers
    <2> QED
      BY <2>1, <2>2
  <1>6. CASE /\ run.verdict = target.origin /\ run.case < target.case
             /\ target' = [target EXCEPT !.case = run.case]
    <2>1. target'.case = run.case
      BY <1>6 DEF TypeOK, NoTarget
    <2>2. run.verdict # "Overrun"
      BY <1>1, <1>6, NotOrigins
    <2>3. seen'[run.case] = run.verdict /\ conclusions'[run.case] = run.verdict
      BY <2>2, TestFunctionRemembers
    <2>4. \A c \in Cases : c < target'.case => c < target.case
      <3>1. Cases \subseteq Nat /\ {target.case, target'.case} \subseteq Nat
        BY <1>1, <1>2
      <3> QED
        BY <1>1, <3>1
    <2> QED
      BY <1>1, <1>3, <1>4, <1>6, <2>1, <2>3, <2>4
  <1> QED
    BY <1>5, <1>6 DEF Adopt

\* An incumbent that failed again, as before, is one the shrinker can start from.
LEMMA VerifyStands ==
    ASSUME TypeOK, SeenCovered, NEW run \in Executions(Cases), TestFunction(run),
           ~Mismatch(run), UNCHANGED shrunk_origins,
           NEW o \in Failures \ shrunk_origins, run.case = interesting[o], run.verdict = o,
           target' = [origin |-> o, case |-> run.case]
    PROVE  TargetStands'
  <1> SUFFICES ASSUME ~nondeterministic'
               PROVE  /\ o \notin shrunk_origins
                      /\ seen'[run.case] = o /\ conclusions'[run.case] = o
                      /\ \A c \in Cases : c < run.case /\ seen'[c] = o => conclusions'[c] = o
    BY DEF TargetStands
  <1>1. o \in Origins /\ run.verdict # "Overrun"
    BY NotOrigins DEF Failures
  <1>2. seen'[run.case] = o /\ conclusions'[run.case] = o
    BY <1>1, TestFunctionRemembers
  <1>3. ASSUME NEW c \in Cases, c < run.case, seen'[c] = o PROVE FALSE
    <2>1. Cases \subseteq Nat /\ run.case \in Nat
      BY ExecutionTyped, EngineRunOK DEF Cases
    <2>2. seen[c] = o
      BY <1>3, <2>1, TestFunctionRemembers
    <2>3. interesting[o] \in 1..c
      BY <1>1, <2>2, TestFunctionRemembers DEF SeenCovered, Incumbent
    <2> QED
      BY <1>3, <2>1, <2>3
  <1> QED
    BY <1>2, <1>3

\* A run starts with an empty cache and nothing to shrink.
LEMMA InitStandInv == Init => StandInv
  BY NotOrigins
     DEF Init, StandInv, SeenConcluded, IncumbentsStand, SeenCovered, ShrunkStand, TargetStands,
         Failures, NoVerdict

\* Every step keeps what stands standing.
LEMMA StepStandInv == TypeOK /\ CoverInv /\ StandInv /\ [Next]_vars => StandInv'
  <1> SUFFICES ASSUME TypeOK, CoverInv, StandInv, [Next]_vars PROVE StandInv'
    OBVIOUS
  <1> USE DEF StandInv, Fail, Unless, vars, input, recorded, counters, shrinking, ends
  <1>1. ASSUME NEW run \in Executions(Cases), NEW flag \in BOOLEAN, Reuse(run, flag)
        PROVE  StandInv'
    <2>1. /\ TestFunction(run) /\ UNCHANGED <<target, shrunk_origins>> /\ phase \in Searching
          /\ phase' \in Searching \/ phase' = "done"
          /\ phase' \in Searching => ~Mismatch(run)
      BY <1>1 DEF Reuse, Searching
    <2>2. SeenCovered'
      BY <2>1, TestFunctionCovers
    <2>3. SeenConcluded' /\ IncumbentsStand'
      <3>1. phase' # "report"
        BY <2>1 DEF Searching
      <3> QED
        BY <2>1, <3>1, SearchStands DEF SeenConcluded, IncumbentsStand
    <2>4. ShrunkStand' /\ TargetStands'
      <3>1. phase' # "shrink"
        BY <2>1 DEF Searching
      <3> QED
        BY <3>1 DEF ShrunkStand, TargetStands
    <2> QED
      BY <2>2, <2>3, <2>4
  <1>2. ASSUME NEW run \in Executions(Cases), NEW flag \in BOOLEAN, Simplest(run, flag)
        PROVE  StandInv'
    <2>1. /\ TestFunction(run) /\ UNCHANGED <<target, shrunk_origins>> /\ phase \in Searching
          /\ phase' \in Searching \/ phase' = "done"
          /\ phase' \in Searching => ~Mismatch(run)
      BY <1>2 DEF Simplest, Searching
    <2>2. SeenCovered'
      BY <2>1, TestFunctionCovers
    <2>3. SeenConcluded' /\ IncumbentsStand'
      <3>1. phase' # "report"
        BY <2>1 DEF Searching
      <3> QED
        BY <2>1, <3>1, SearchStands DEF SeenConcluded, IncumbentsStand
    <2>4. ShrunkStand' /\ TargetStands'
      <3>1. phase' # "shrink"
        BY <2>1 DEF Searching
      <3> QED
        BY <3>1 DEF ShrunkStand, TargetStands
    <2> QED
      BY <2>2, <2>3, <2>4
  <1>3. ASSUME NEW run \in Executions(Cases), NEW flag \in BOOLEAN, Generate(run, flag)
        PROVE  StandInv'
    <2>1. /\ TestFunction(run) /\ UNCHANGED <<target, shrunk_origins>> /\ phase \in Searching
          /\ phase' \in Searching \/ phase' = "done"
          /\ phase' \in Searching => ~Mismatch(run)
      BY <1>3 DEF Generate, Searching
    <2>2. SeenCovered'
      BY <2>1, TestFunctionCovers
    <2>3. SeenConcluded' /\ IncumbentsStand'
      <3>1. phase' # "report"
        BY <2>1 DEF Searching
      <3> QED
        BY <2>1, <3>1, SearchStands DEF SeenConcluded, IncumbentsStand
    <2>4. ShrunkStand' /\ TargetStands'
      <3>1. phase' # "shrink"
        BY <2>1 DEF Searching
      <3> QED
        BY <3>1 DEF ShrunkStand, TargetStands
    <2> QED
      BY <2>2, <2>3, <2>4
  <1>4. ASSUME NEW run \in Executions(Cases), Optimise(run) PROVE StandInv'
    <2>1. /\ TestFunction(run) /\ UNCHANGED <<target, shrunk_origins>> /\ phase \in Searching
          /\ phase' \in Searching \/ phase' = "done"
          /\ phase' \in Searching => ~Mismatch(run)
      BY <1>4 DEF Optimise, Searching
    <2>2. SeenCovered'
      BY <2>1, TestFunctionCovers
    <2>3. SeenConcluded' /\ IncumbentsStand'
      <3>1. phase' # "report"
        BY <2>1 DEF Searching
      <3> QED
        BY <2>1, <3>1, SearchStands DEF SeenConcluded, IncumbentsStand
    <2>4. ShrunkStand' /\ TargetStands'
      <3>1. phase' # "shrink"
        BY <2>1 DEF Searching
      <3> QED
        BY <3>1 DEF ShrunkStand, TargetStands
    <2> QED
      BY <2>2, <2>3, <2>4
  <1>5. ASSUME NEW run \in Executions(Cases), Mutate(run) PROVE StandInv'
    <2>1. /\ TestFunction(run) /\ UNCHANGED <<target, shrunk_origins>> /\ phase \in Searching
          /\ phase' \in Searching \/ phase' = "done"
          /\ phase' \in Searching => ~Mismatch(run)
      BY <1>5 DEF Mutate, Searching
    <2>2. SeenCovered'
      BY <2>1, TestFunctionCovers
    <2>3. SeenConcluded' /\ IncumbentsStand'
      <3>1. phase' # "report"
        BY <2>1 DEF Searching
      <3> QED
        BY <2>1, <3>1, SearchStands DEF SeenConcluded, IncumbentsStand
    <2>4. ShrunkStand' /\ TargetStands'
      <3>1. phase' # "shrink"
        BY <2>1 DEF Searching
      <3> QED
        BY <3>1 DEF ShrunkStand, TargetStands
    <2> QED
      BY <2>2, <2>3, <2>4
  <1>6. ASSUME NEW run \in Executions(Cases), Drain(run) PROVE StandInv'
    <2>1. TestFunction(run) /\ UNCHANGED <<phase, shrunk_origins>> /\ phase = "drain"
      BY <1>6 DEF Drain
    <2>2. SeenCovered'
      BY <2>1, TestFunctionCovers
    <2> QED
      BY <2>1, <2>2 DEF SeenConcluded, IncumbentsStand, ShrunkStand, TargetStands, Searching
  <1>7. ASSUME NEW run \in Executions(Cases), ShrinkProbe(run) PROVE StandInv'
    <2>1. /\ TestFunction(run) /\ UNCHANGED shrunk_origins /\ phase = "shrink"
          /\ target # NoTarget /\ Adopt(run.case, run.verdict)
      BY <1>7 DEF ShrinkProbe, ProbesLeft
    <2>b. phase' # "done" => phase' = "shrink" /\ ~Mismatch(run)
      BY <1>7 DEF ShrinkProbe
    <2>2. SeenCovered'
      BY <2>1, TestFunctionCovers
    <2>3. SeenConcluded' /\ IncumbentsStand'
      BY <2>1, <2>b DEF SeenConcluded, IncumbentsStand, Searching
    <2>4. ShrunkStand'
      BY <2>1, <2>b, ShrinkingStands DEF ShrunkStand
    <2>5. CASE phase' = "done"
      BY <2>2, <2>3, <2>4, <2>5 DEF TargetStands
    <2>6. CASE phase' # "done"
      BY <2>1, <2>b, <2>2, <2>3, <2>4, <2>6, ProbeStands
    <2> QED
      BY <2>5, <2>6
  <1>8. ASSUME NEW run \in Executions(Cases), NEW o \in Origins, Verify(o, run)
        PROVE  StandInv'
    <2>1. /\ TestFunction(run) /\ UNCHANGED shrunk_origins /\ phase = "shrink"
          /\ o \in Failures \ shrunk_origins /\ run.case = interesting[o]
          /\ target' = [origin |-> o, case |-> run.case]
      BY <1>8 DEF Verify
    <2>b. phase' # "done" => phase' = "shrink" /\ ~Mismatch(run) /\ run.verdict = o
      BY <1>8 DEF Verify, Confirms
    <2>2. SeenCovered'
      BY <2>1, TestFunctionCovers
    <2>3. SeenConcluded' /\ IncumbentsStand'
      BY <2>1, <2>b DEF SeenConcluded, IncumbentsStand, Searching
    <2>4. ShrunkStand'
      BY <2>1, <2>b, ShrinkingStands DEF ShrunkStand
    <2>5. CASE phase' = "done"
      BY <2>2, <2>3, <2>4, <2>5 DEF TargetStands
    <2>6. CASE phase' # "done"
      BY <2>1, <2>b, <2>2, <2>3, <2>4, <2>6, VerifyStands
    <2> QED
      BY <2>5, <2>6
  <1>9. CASE ReuseEnds
    <2>1. /\ UNCHANGED <<nondeterministic, seen, conclusions, interesting, shrunk_origins, target>>
          /\ phase \in Searching /\ phase' \in {"simplest", "generate", "target", "mutate"}
      BY <1>9 DEF ReuseEnds, Searching
    <2> QED
      BY <2>1
         DEF SeenConcluded, IncumbentsStand, SeenCovered, Incumbent, Failures,
             ShrunkStand, TargetStands, Searching
  <1>10. CASE SkipSimplest
    <2>1. /\ UNCHANGED <<nondeterministic, seen, conclusions, interesting, shrunk_origins, target>>
          /\ phase \in Searching /\ phase' \in {"simplest", "generate", "target", "mutate"}
      BY <1>10 DEF SkipSimplest, Searching
    <2> QED
      BY <2>1
         DEF SeenConcluded, IncumbentsStand, SeenCovered, Incumbent, Failures,
             ShrunkStand, TargetStands, Searching
  <1>11. CASE OptimiseEnds
    <2>1. /\ UNCHANGED <<nondeterministic, seen, conclusions, interesting, shrunk_origins, target>>
          /\ phase \in Searching /\ phase' \in {"simplest", "generate", "target", "mutate"}
      BY <1>11 DEF OptimiseEnds, Searching
    <2> QED
      BY <2>1
         DEF SeenConcluded, IncumbentsStand, SeenCovered, Incumbent, Failures,
             ShrunkStand, TargetStands, Searching
  <1>12. CASE MutateEnds
    <2>1. /\ UNCHANGED <<nondeterministic, seen, conclusions, interesting, shrunk_origins, target>>
          /\ phase \in Searching /\ phase' \in {"simplest", "generate", "target", "mutate"}
      BY <1>12 DEF MutateEnds, Searching
    <2> QED
      BY <2>1
         DEF SeenConcluded, IncumbentsStand, SeenCovered, Incumbent, Failures,
             ShrunkStand, TargetStands, Searching
  <1>13. CASE GenerateEnds
    <2>1. /\ UNCHANGED <<nondeterministic, seen, conclusions, interesting, shrunk_origins, target>>
          /\ phase \in Searching /\ phase' \in {"drain", "report", "done"}
      BY <1>13 DEF GenerateEnds, Searching
    <2> QED
      BY <2>1
         DEF SeenConcluded, IncumbentsStand, SeenCovered, Incumbent, Failures,
             ShrunkStand, TargetStands, Searching
  <1>14. CASE DrainEnds
    <2>1. /\ UNCHANGED <<nondeterministic, seen, conclusions, interesting, shrunk_origins, target>>
          /\ phase' = "shrink" /\ shrunk_origins = {} /\ target = NoTarget
      BY <1>14 DEF DrainEnds, CoverInv, NotYetShrunk
    <2> QED
      BY <2>1
         DEF SeenConcluded, IncumbentsStand, SeenCovered, Incumbent, Failures,
             ShrunkStand, TargetStands, Searching
  <1>15. ASSUME NEW served \in Cases, MutationServed(served) PROVE StandInv'
    <2>1. /\ UNCHANGED <<nondeterministic, seen, conclusions, interesting, shrunk_origins, target>>
          /\ phase \in Searching /\ phase' \in {"simplest", "generate", "target", "mutate"}
      BY <1>15 DEF MutationServed, Searching
    <2> QED
      BY <2>1
         DEF SeenConcluded, IncumbentsStand, SeenCovered, Incumbent, Failures,
             ShrunkStand, TargetStands, Searching
  <1>16. ASSUME NEW served \in Cases, ShrinkServed(served) PROVE StandInv'
    <2>1. /\ UNCHANGED <<nondeterministic, seen, conclusions, interesting, shrunk_origins, phase>>
          /\ phase = "shrink" /\ target # NoTarget /\ Adopt(served, seen[served])
      BY <1>16 DEF ShrinkServed, ProbesLeft
    <2>2. SeenConcluded' /\ IncumbentsStand' /\ SeenCovered' /\ ShrunkStand'
      BY <2>1 DEF SeenConcluded, IncumbentsStand, SeenCovered, Incumbent, Failures, ShrunkStand
    <2>3. CASE target' = target
      BY <2>1, <2>2, <2>3 DEF TargetStands
    <2>4. CASE /\ seen[served] = target.origin /\ served < target.case
               /\ target' = [target EXCEPT !.case = served]
      <3>1. target'.origin = target.origin /\ target'.case = served
        BY <2>1, <2>4 DEF TypeOK, NoTarget
      <3>2. \A b \in Cases : b < served => b < target.case
        <4>1. target.case \in Cases
          BY <2>1 DEF TypeOK
        <4>2. Cases \subseteq Nat
          BY EngineRunOK DEF Cases
        <4>3. served \in Nat /\ target.case \in Nat
          BY <4>1, <4>2
        <4> QED
          BY <2>4, <4>2, <4>3
      <3>3. TargetStands'
        BY <2>1, <2>4, <3>1, <3>2 DEF TargetStands
      <3> QED
        BY <2>2, <3>3
    <2> QED
      BY <2>1, <2>3, <2>4 DEF Adopt
  <1>17. ASSUME NEW timed_out \in BOOLEAN, ShrinkEnds(timed_out) PROVE StandInv'
    <2>1. /\ UNCHANGED <<nondeterministic, seen, conclusions, phase>>
          /\ phase = "shrink" /\ target # NoTarget /\ target' = NoTarget
          /\ target \in [origin : Origins, case : Cases]
          /\ interesting' = [interesting EXCEPT ![target.origin] = target.case]
          /\ shrunk_origins' = shrunk_origins \cup {target.origin}
      BY <1>17 DEF ShrinkEnds, TypeOK
    <2>2. /\ interesting'[target.origin] = target.case
          /\ \A o \in Origins : o # target.origin => interesting'[o] = interesting[o]
      BY <2>1 DEF TypeOK
    <2>3. SeenConcluded' /\ IncumbentsStand' /\ TargetStands'
      BY <2>1 DEF SeenConcluded, IncumbentsStand, TargetStands, Searching
    <2>4. SeenCovered'
      BY <2>1, <2>2 DEF SeenCovered, Incumbent
    <2>5. ShrunkStand'
      BY <2>1, <2>2 DEF ShrunkStand, TargetStands, Failures
    <2> QED
      BY <2>3, <2>4, <2>5
  <1>18. CASE AllShrunk
    <2>1. /\ UNCHANGED <<nondeterministic, seen, conclusions, interesting, shrunk_origins, target>>
          /\ phase = "shrink" /\ phase' = "report" /\ Failures \subseteq shrunk_origins
      BY <1>18 DEF AllShrunk
    <2> QED
      BY <2>1
         DEF SeenConcluded, IncumbentsStand, SeenCovered, Incumbent, Failures,
             ShrunkStand, TargetStands, Searching
  <1>19. CASE Report
    <2>1. /\ UNCHANGED <<nondeterministic, seen, conclusions, interesting, shrunk_origins, target>>
          /\ phase' = "done"
      BY <1>19 DEF Report
    <2> QED
      BY <2>1
         DEF SeenConcluded, IncumbentsStand, SeenCovered, Incumbent, Failures,
             ShrunkStand, TargetStands, Searching
  <1>20. CASE UNCHANGED vars
    BY <1>20
       DEF vars, SeenConcluded, IncumbentsStand, SeenCovered, Incumbent, Failures,
           ShrunkStand, TargetStands
  <1> QED
    BY <1>1, <1>2, <1>3, <1>4, <1>5, <1>6, <1>7, <1>8, <1>9, <1>10, <1>11, <1>12, <1>13,
       <1>14, <1>15, <1>16, <1>17, <1>18, <1>19, <1>20 DEF Next, Finished

\* Every step keeps the report, once there is one, standing.
LEMMA StepReportStands ==
    TypeOK /\ StandInv /\ ReportStands /\ [Next]_vars => ReportStands'
  <1> SUFFICES ASSUME TypeOK, StandInv, ReportStands, [Next]_vars PROVE ReportStands'
    OBVIOUS
  <1>1. CASE Report
    <2>1. UNCHANGED <<conclusions, nondeterministic>> /\ phase = "report"
      BY <1>1 DEF Report, recorded
    <2>2. \A f \in result'.failures :
             \E o \in Failures : f = [origin |-> o, case |-> interesting[o]]
      BY <1>1 DEF Report, Reportable
    <2>3. ASSUME ~nondeterministic, NEW f \in result'.failures
          PROVE conclusions[f.case] = f.origin
      <3>1. PICK o \in Failures : f = [origin |-> o, case |-> interesting[o]]
        BY <2>2, <2>3
      <3>2. f.origin = o /\ f.case = interesting[o]
        BY <3>1
      <3> QED
        BY <2>1, <2>3, <3>2 DEF StandInv, IncumbentsStand
    <2> QED
      BY <2>1, <2>3 DEF ReportStands
  <1>2. CASE UNCHANGED vars
    BY <1>2 DEF vars, recorded, ReportStands
  <1>3. CASE result'.kind # "Ok"
    BY <1>3 DEF ReportStands
  <1> QED
    BY <1>1, <1>2, <1>3, OnlyReportReports

\* ReportIsSound: what Engine::run reports covers everything that was found, and the last
\* execution of every reported case concluded with its origin.
THEOREM ReportIsTrue == Spec => []ReportIsSound
  <1> DEFINE Inv == TypeOK /\ FoundInv /\ CoverInv /\ StandInv /\ ReportIsSound
  <1>1. Init => ReportIsSound
    BY DEF Init, ReportIsSound, ReportCoversFindings, ReportStands, NoResult
  <1>2. Init => Inv
    BY <1>1, InitTypeOK, InitFoundInv, InitCoverInv, InitStandInv
  <1>3. Inv /\ [Next]_vars => Inv'
    BY StepTypeOK, StepFoundInv, StepCoverInv, StepStandInv, StepReportCovers, StepReportStands
       DEF ReportIsSound
  <1>4. Inv => ReportIsSound
    OBVIOUS
  <1> QED
    BY <1>2, <1>3, <1>4, PTL DEF Spec
=============================================================================
