----------------------------- MODULE ClientProofs -----------------------------
(* The client library, for any test bodies, panic sites, configurations and    *)
(* engines.                                                                     *)
(*                                                                              *)
(* A test function tells its failures: OriginSound follows the panic a case     *)
(* captured, VerdictSound the one way a run passes, ReplaysCounted the failures *)
(* that are printed, being replayed and left to replay.                         *)
(*                                                                              *)
(* A test case unwinds cleanly: CaseInv says what the call stack looks like     *)
(* (StackOK), that the open spans are those its frames opened, in the order of  *)
(* the stack, with the depths its recursions, iterations and rules remember     *)
(* (SpansInv), that a conclusion is on its way to the verdict (VerdictInv) and  *)
(* where each note is (NotesInv).                                               *)
EXTENDS ClientCase, ClientRun, FiniteSetTheorems, TLAPS

(* ClientRun: the parts of the invariant. *)

Locations == Sites \cup {None, Unknown}
Failures == [n : Nat, location : Locations]
Settings == [quiet : BOOLEAN, multiple : BOOLEAN, single : BOOLEAN, test_cases : Nat,
             env : Nat, badEnv : BOOLEAN, blob : {None, "good", "corrupt"}, example : SUBSET Names]
Statuses == {"exploring", "passed", "error", "failed", "failed_nondeterministic"}
Runs == [shrinking : BOOLEAN, nondet : BOOLEAN, found : SUBSET Locations, kept : SUBSET Locations,
         valid : Nat, status : Statuses]
Outcomes == {"Valid", "Invalid", "Overrun", "Interesting"}
Cases == [n : Nat, final : BOOLEAN, stamped : BOOLEAN, machine : BOOLEAN,
          concluded : Outcomes \cup {None}, origin : Locations, sites : SUBSET Sites]
Stashes == [failure : Failures, diagnostic : BOOLEAN]
Places == {"explicit", "configure", "pull", "body", "verdict", "replay", "ended"}
Endings == {None, "example", "settings", "raised", "stale", "flaky", "usage", "returned", "error",
            "corrupt_blob", "distinct_failures"}

\* The types of what a test function keeps.
TypeOK ==
    /\ settings \in Settings /\ at \in Places
    /\ undrawn \subseteq Names /\ drawn \in [Names -> Nat]
    /\ exploration \in Runs /\ case \in Cases
    /\ panic_info \in Sites \cup {None} /\ stash \in {None} \cup Stashes
    /\ replays \subseteq Locations /\ report \in Seq(Failures)
    /\ ended \in [how : Endings, failure : {None} \cup Failures]

-----------------------------------------------------------------------------
(* Types. *)

\* No case has been run.
LEMMA NoCaseTyped == NoCase \in Cases /\ NoCase.n = 0 /\ NoCase.origin = None /\ NoCase.sites = {} /\ ~NoCase.final
  BY DEF NoCase, Cases, Outcomes, Locations

\* The case the engine offers next.
LEMMA NextTyped ==
    ASSUME NEW n \in Nat, NEW stamped \in BOOLEAN
    PROVE  LET c == [NoCase EXCEPT !.n = n + 1, !.stamped = stamped, !.concluded = None]
           IN  /\ c \in Cases /\ c.n = n + 1 /\ ~c.final /\ c.origin = None /\ c.sites = {}
  <1> DEFINE a == [NoCase EXCEPT !.n = n + 1]
             b == [a EXCEPT !.stamped = stamped]
             c == [b EXCEPT !.concluded = None]
  <1>1. a \in Cases /\ a.n = n + 1 /\ ~a.final /\ a.origin = None /\ a.sites = {}
    BY NoCaseTyped DEF Cases
  <1> HIDE DEF a
  <1>2. b \in Cases /\ b.n = n + 1 /\ ~b.final /\ b.origin = None /\ b.sites = {}
    BY <1>1 DEF Cases
  <1> HIDE DEF b
  <1>3. c \in Cases /\ c.n = n + 1 /\ ~c.final /\ c.origin = None /\ c.sites = {}
    BY <1>2 DEF Cases
  <1>4. c = [NoCase EXCEPT !.n = n + 1, !.stamped = stamped, !.concluded = None]
    BY DEF a, b
  <1> QED
    BY <1>3, <1>4

\* The case a failure is replayed in.
LEMMA FinalTyped ==
    ASSUME TypeOK
    PROVE  /\ final \in Cases /\ final.n = case.n + 1 /\ final.final /\ final.origin = None
           /\ final.sites = {} /\ final.concluded = None
  <1>1. case.n + 1 \in Nat
    BY DEF TypeOK, Cases
  <1> QED
    BY <1>1, NoCaseTyped DEF final, Cases

\* A case as it is concluded and recorded.
Concluded(outcome, location, raised) ==
    [Conclude(outcome) EXCEPT !.origin = location, !.sites = @ \cup raised]

\* What concluding leaves of a case.
LEMMA ConcludeTyped ==
    ASSUME TypeOK, NEW outcome \in Outcomes, NEW location \in Locations, NEW raised \in SUBSET Sites
    PROVE  LET c == Concluded(outcome, location, raised)
           IN  /\ c \in Cases /\ c.n = case.n /\ c.final = case.final /\ c.origin = location
               /\ c.sites = case.sites \cup raised
               /\ c.concluded = IF case.concluded = None THEN outcome ELSE case.concluded
               /\ c.concluded \in Outcomes
  BY DEF TypeOK, Conclude, Concluded, Cases, Outcomes, None

\* What the engine records of a case.
LEMMA RecordTyped ==
    ASSUME TypeOK, NEW c \in Cases, c.concluded \in Outcomes, Record(c)
    PROVE  /\ exploration' \in Runs /\ exploration'.status = exploration.status
           /\ exploration'.found = IF c.concluded = "Interesting" THEN exploration.found \cup {c.origin}
                                   ELSE exploration.found
  <1> DEFINE nondet == exploration.nondet \/ c.machine
             valid == exploration.valid + IF c.concluded = "Valid" THEN 1 ELSE 0
             found == IF c.concluded = "Interesting" THEN exploration.found \cup {c.origin} ELSE exploration.found
  <1>1. nondet \in BOOLEAN
    OBVIOUS
  <1>2. valid \in Nat /\ exploration \in Runs
    BY DEF TypeOK, Runs
  <1>3. found \subseteq Locations
    BY <1>2 DEF Runs, Cases
  <1>4. exploration' = [exploration EXCEPT !.nondet = nondet, !.valid = valid, !.found = found]
    BY DEF Record
  <1>5. exploration' \in Runs /\ exploration'.status = exploration.status /\ exploration'.found = found
    <2> HIDE DEF nondet, valid, found
    <2> QED
      BY <1>1, <1>2, <1>3, <1>4 DEF Runs
  <1> QED
    BY <1>5

\* What a body that ends does, as one record per case of its caller.
LEMMA BodyEndsTyped ==
    ASSUME TypeOK, NEW outcome \in Outcomes, NEW location \in Locations, NEW raised \in SUBSET Sites,
           BodyEnds(outcome, location, raised), panic_info' \in Sites \cup {None}
    PROVE  TypeOK'
  <1> DEFINE c == Concluded(outcome, location, raised)
             failure == [n |-> case.n, location |-> location]
  <1>1. c \in Cases /\ c.concluded \in Outcomes
    BY ConcludeTyped
  <1>2. failure \in Failures
    BY DEF TypeOK, Failures, Cases
  <1>3. case' = c /\ UNCHANGED <<settings, undrawn, drawn>>
    BY DEF BodyEnds, examples, Concluded
  <1>4. CASE ~case.final
    <2>1. Record(c) /\ (stash' = stash \/ stash' = [failure |-> failure, diagnostic |-> Captured])
          /\ at' = "pull" /\ UNCHANGED <<replays, report, ended>>
      BY <1>4 DEF BodyEnds, Concluded
    <2> HIDE DEF c, failure
    <2>2. exploration' \in Runs
      BY <1>1, <2>1, RecordTyped
    <2>3. Captured \in BOOLEAN
      BY DEF Captured
    <2>4. [failure |-> failure, diagnostic |-> Captured] \in Stashes
      BY <1>2, <2>3 DEF Stashes
    <2> QED
      BY <1>1, <1>3, <2>1, <2>2, <2>4 DEF TypeOK, Places
  <1>5. CASE case.final
    <2>1. /\ report' = report \/ report' = Append(report, failure)
          /\ UNCHANGED <<exploration, stash, replays>>
          /\ \/ EndRaising(failure) \/ End("stale") \/ End("flaky")
             \/ at' = "replay" /\ UNCHANGED ended
      BY <1>5 DEF BodyEnds
    <2> HIDE DEF c, failure
    <2>2. report' \in Seq(Failures)
      BY <1>2, <2>1 DEF TypeOK
    <2>3. at' \in Places /\ ended' \in [how : Endings, failure : {None} \cup Failures]
      BY <1>2, <2>1 DEF EndRaising, End, TypeOK, Places, Endings
    <2> QED
      BY <1>1, <1>3, <2>1, <2>2, <2>3 DEF TypeOK
  <1> QED
    BY <1>4, <1>5 DEF TypeOK, Cases

\* A verdict is only taken of a run that ended, and a failure it found was stashed.
VerdictReady ==
    /\ exploration.found # {} => stash \in Stashes
    /\ exploration.status \in {"failed", "failed_nondeterministic"} => exploration.found # {}
    /\ at = "verdict" => exploration.status # "exploring"
    /\ at = "body" => case.concluded # "Interesting"

\* The result of a run that failed keeps every failure found, or one of them.
LEMMA FinishTyped ==
    ASSUME TypeOK, NEW error \in BOOLEAN, FinishRun(error)
    PROVE  /\ exploration' \in Runs /\ exploration'.found = exploration.found
           /\ exploration'.status \in Statuses \ {"exploring"}
           /\ exploration'.status = "passed" => exploration.found = {}
           /\ exploration'.status \in {"failed", "failed_nondeterministic"} => exploration.found # {}
           /\ exploration'.status = "failed" =>
                 IF settings.multiple THEN exploration'.kept = exploration.found
                 ELSE \E o \in exploration.found : exploration'.kept = {o}
  <1> DEFINE found == exploration.found
             status == IF error THEN "error"
                       ELSE IF found = {} THEN "passed"
                       ELSE IF exploration.nondet THEN "failed_nondeterministic" ELSE "failed"
  <1>1. exploration \in Runs /\ found \subseteq Locations
    BY DEF TypeOK, Runs
  <1>2. PICK kept \in IF error THEN {{}} ELSE Results(found) :
           exploration' = [exploration EXCEPT !.kept = kept, !.status = status]
    BY ZenonT(60) DEF FinishRun
  <1>3. /\ status \in Statuses \ {"exploring"}
        /\ status = "passed" => found = {}
        /\ status \in {"failed", "failed_nondeterministic"} => ~error /\ found # {}
    BY DEF Statuses
  <1>4. kept \in SUBSET Locations
    BY <1>1, <1>2 DEF Results
  <1>5. exploration' \in Runs /\ exploration'.found = found /\ exploration'.status = status /\ exploration'.kept = kept
    <2> HIDE DEF status
    <2> QED
      BY <1>1, <1>2, <1>3, <1>4 DEF Runs
  <1>6. status = "failed" => IF settings.multiple THEN kept = found ELSE \E o \in found : kept = {o}
    BY <1>2, <1>3 DEF Results
  <1> HIDE DEF status
  <1> QED
    BY <1>3, <1>5, <1>6

\* Every step keeps the types.
LEMMA TypeStep == TypeOK /\ VerdictReady /\ [DriveNext]_driveVars => TypeOK'
  <1> SUFFICES ASSUME TypeOK, VerdictReady, [DriveNext]_driveVars PROVE TypeOK'
    OBVIOUS
  <1>1. ASSUME NEW how \in Endings, End(how)
        PROVE  at' \in Places /\ ended' \in [how : Endings, failure : {None} \cup Failures]
    BY <1>1 DEF End, Places
  <1>2. ASSUME NEW v \in Names, ExplicitDraw(v) PROVE TypeOK'
    <2>1. (at' = at /\ ended' = ended) \/ End("example")
      BY <1>2 DEF ExplicitDraw
    <2>2. at' \in Places /\ ended' \in [how : Endings, failure : {None} \cup Failures]
      BY <1>1, <2>1 DEF TypeOK, Endings
    <2>3. undrawn' \subseteq Names /\ drawn' \in [Names -> Nat]
      BY <1>2 DEF ExplicitDraw, TypeOK
    <2> QED
      BY <1>2, <2>2, <2>3 DEF ExplicitDraw, TypeOK, running
  <1>3. CASE ExplicitPanic
    BY <1>1, <1>3 DEF ExplicitPanic, TypeOK, running, examples, Endings
  <1>4. CASE ExplicitReturn
    <2>1. (at' = "configure" /\ ended' = ended) \/ End("example")
      BY <1>4 DEF ExplicitReturn
    <2>2. at' \in Places /\ ended' \in [how : Endings, failure : {None} \cup Failures]
      BY <1>1, <2>1 DEF TypeOK, Endings, Places
    <2> QED
      BY <1>4, <2>2 DEF ExplicitReturn, TypeOK, running, examples
  <1>5. CASE Configure
    <2>1. \/ End("settings") /\ UNCHANGED settings
          \/ /\ settings' = [settings EXCEPT !.test_cases = TestCases]
             /\ at' \in {"pull", "replay"} /\ UNCHANGED ended
      BY <1>5 DEF Configure
    <2>2. at' \in Places /\ ended' \in [how : Endings, failure : {None} \cup Failures]
      BY <1>1, <2>1 DEF TypeOK, Endings, Places
    <2>3. TestCases \in Nat
      BY DEF TestCases, TypeOK, Settings
    <2>4. settings' \in Settings
      BY <2>1, <2>3 DEF TypeOK, Settings
    <2> QED
      BY <1>5, <2>2, <2>4 DEF Configure, TypeOK, running, examples
  <1>6. ASSUME NEW c \in Cases, BeginCase(c)
        PROVE  case' \in Cases /\ at' \in Places /\ panic_info' \in Sites \cup {None}
    BY <1>6 DEF BeginCase, Places
  <1>7. CASE NextTestCase
    <2> DEFINE c == [NoCase EXCEPT !.n = case.n + 1, !.stamped = exploration.nondet, !.concluded = None]
    <2>1. c \in Cases
      <3>1. exploration.nondet \in BOOLEAN /\ case.n \in Nat
        BY DEF TypeOK, Runs, Cases
      <3> QED
        BY <3>1, NextTyped
    <2>2. BeginCase(c) /\ UNCHANGED <<settings, examples, exploration, stash, replays, report, ended>>
      BY <1>7 DEF NextTestCase
    <2> HIDE DEF c
    <2> QED
      BY <1>6, <2>1, <2>2 DEF TypeOK, examples
  <1>8. CASE Shrink
    BY <1>8 DEF Shrink, TypeOK, Runs, examples
  <1>9. ASSUME NEW error \in BOOLEAN, FinishRun(error) PROVE TypeOK'
    <2>1. exploration \in Runs /\ exploration' \in Runs
      BY <1>9, FinishTyped DEF TypeOK
    <2> QED
      BY <1>9, <2>1 DEF FinishRun, TypeOK, Places, examples
  <1>10. ASSUME NEW s \in Sites, CaughtPanic(s) PROVE TypeOK'
    BY <1>10 DEF CaughtPanic, InBody, whole, TypeOK, Cases, examples
  <1>11. ASSUME NEW s \in Sites, Panics(s) PROVE TypeOK'
    BY <1>11, BodyEndsTyped DEF Panics, Outcomes, Locations
  <1>12. ASSUME NEW why \in {"Invalid", "Overrun"}, RefusedDraw(why) PROVE TypeOK'
    BY <1>12 DEF RefusedDraw, InBody, whole, TypeOK, Cases, Outcomes, examples
  <1>13. CASE ConcurrentMachine
    BY <1>13 DEF ConcurrentMachine, InBody, whole, TypeOK, Cases, Outcomes, examples
  <1>14. CASE BodyReturns
    <2>1. panic_info' \in Sites \cup {None} /\ {} \in SUBSET Sites
      BY <1>14 DEF BodyReturns, TypeOK
    <2> QED
      BY <1>14, <2>1, BodyEndsTyped DEF BodyReturns, Outcomes, Locations
  <1>15. CASE ResumesPanic
    <2> DEFINE location == IF panic_info = None THEN Unknown ELSE panic_info
    <2>1. location \in Locations /\ {} \in SUBSET Sites
      BY DEF TypeOK, Locations
    <2>2. BodyEnds("Interesting", location, {}) /\ panic_info' = None
      BY <1>15 DEF ResumesPanic
    <2> HIDE DEF location
    <2> QED
      BY <2>1, <2>2, BodyEndsTyped DEF Outcomes
  <1>16. CASE Misuse
    <2>1. case' \in Cases
      BY <1>16 DEF Misuse, Conclude, TypeOK, Cases, Outcomes
    <2> QED
      BY <1>1, <1>16, <2>1 DEF Misuse, TypeOK, Endings, examples
  <1>17. CASE TakeVerdict
    <2>1. UNCHANGED <<settings, undrawn, drawn, exploration, case, panic_info, stash>>
      BY <1>17 DEF TakeVerdict, examples
    <2>2. CASE exploration.status = "passed"
      <3>1. End("returned") /\ UNCHANGED <<replays, report>>
        BY <1>17, <2>2 DEF TakeVerdict
      <3> QED
        BY <1>1, <2>1, <3>1 DEF TypeOK, Endings
    <2>3. CASE exploration.status = "error"
      <3>1. End("error") /\ UNCHANGED <<replays, report>>
        BY <1>17, <2>3 DEF TakeVerdict
      <3> QED
        BY <1>1, <2>1, <3>1 DEF TypeOK, Endings
    <2>4. CASE exploration.status = "failed_nondeterministic"
      <3>1. /\ report' = IF stash.diagnostic THEN Append(report, stash.failure) ELSE report
            /\ EndRaising(stash.failure) /\ UNCHANGED replays
        BY <1>17, <2>4 DEF TakeVerdict
      <3>2. stash.failure \in Failures
        BY <2>4 DEF VerdictReady, TypeOK, Stashes
      <3>3. report' \in Seq(Failures)
        BY <3>1, <3>2 DEF TypeOK
      <3>4. at' \in Places /\ ended' \in [how : Endings, failure : {None} \cup Failures]
        BY <3>1, <3>2 DEF EndRaising, Places, Endings
      <3> QED
        BY <2>1, <3>1, <3>3, <3>4 DEF TypeOK
    <2>5. CASE exploration.status = "failed"
      <3>1. at' = "replay" /\ replays' = exploration.kept /\ UNCHANGED <<report, ended>>
        BY <1>17, <2>5 DEF TakeVerdict
      <3>2. exploration.kept \subseteq Locations
        BY DEF TypeOK, Runs
      <3> QED
        BY <2>1, <3>1, <3>2 DEF TypeOK, Places
    <2>6. exploration.status \in Statuses \ {"exploring"}
      BY <1>17 DEF TakeVerdict, VerdictReady, TypeOK, Runs
    <2> QED
      BY <2>2, <2>3, <2>4, <2>5, <2>6 DEF Statuses
  <1>18. ASSUME NEW o, Replay(o) PROVE TypeOK'
    <2>1. final \in Cases
      BY FinalTyped
    <2> QED
      BY <1>6, <1>18, <2>1 DEF Replay, TypeOK, examples
  <1>19. CASE ReplayBlob
    <2>1. final \in Cases
      BY FinalTyped
    <2> QED
      BY <1>1, <1>6, <1>19, <2>1 DEF ReplayBlob, TypeOK, examples, Endings
  <1>20. CASE ReRaise
    <2>1. [n |-> case.n, location |-> case.origin] \in Failures
      BY DEF TypeOK, Failures, Cases
    <2>2. at' \in Places /\ ended' \in [how : Endings, failure : {None} \cup Failures]
      BY <1>20, <2>1 DEF ReRaise, End, EndRaising, Places, Endings
    <2> QED
      BY <1>20, <2>2 DEF ReRaise, TypeOK, examples, running
  <1>21. CASE UNCHANGED driveVars
    BY <1>21 DEF driveVars, TypeOK
  <1> QED
    BY <1>2, <1>3, <1>4, <1>5, <1>7, <1>8, <1>9, <1>10, <1>11, <1>12, <1>13, <1>14, <1>15, <1>16,
       <1>17, <1>18, <1>19, <1>20, <1>21 DEF DriveNext, Body

-----------------------------------------------------------------------------
(* The end of a body. *)

\* What the end of a body leaves, while the engine explores ...
LEMMA BodyRecorded ==
    ASSUME TypeOK, NEW outcome \in Outcomes, NEW location \in Locations, NEW raised \in SUBSET Sites,
           BodyEnds(outcome, location, raised), ~case.final,
           case.concluded # "Interesting"
    PROVE  /\ at = "body" /\ at' = "pull" /\ ~case'.final
           /\ UNCHANGED <<settings, report, ended, replays>>
           /\ case'.origin = location /\ case'.sites = case.sites \cup raised
           /\ exploration'.status = exploration.status
           /\ \/ exploration'.found = exploration.found
              \/ exploration'.found = exploration.found \cup {location} /\ stash' \in Stashes
           /\ stash \in Stashes => stash' \in Stashes
  <1> DEFINE c == Concluded(outcome, location, raised)
             kept == [failure |-> [n |-> case.n, location |-> location], diagnostic |-> Captured]
  <1>1. /\ c \in Cases /\ c.final = case.final /\ c.origin = location /\ c.sites = case.sites \cup raised
        /\ c.concluded \in Outcomes /\ (c.concluded = "Interesting" => outcome = "Interesting")
    BY ConcludeTyped
  <1>2. /\ at = "body" /\ at' = "pull" /\ case' = c /\ Record(c)
        /\ UNCHANGED <<settings, report, ended, replays>>
        /\ stash' = IF outcome = "Interesting" THEN kept ELSE stash
    BY DEF BodyEnds, Concluded
  <1>3. kept \in Stashes
    <2>1. case.n \in Nat /\ Captured \in BOOLEAN
      BY DEF TypeOK, Cases, Captured
    <2> QED
      BY <2>1 DEF Stashes, Failures
  <1> HIDE DEF c, kept
  <1>4. exploration'.status = exploration.status
        /\ exploration'.found = IF c.concluded = "Interesting" THEN exploration.found \cup {c.origin}
                                ELSE exploration.found
    BY <1>1, <1>2, RecordTyped
  <1> QED
    BY <1>1, <1>2, <1>3, <1>4

\* ... and on the replay of a failure.
LEMMA BodyReplayed ==
    ASSUME TypeOK, NEW outcome \in Outcomes, NEW location \in Locations, NEW raised \in SUBSET Sites,
           BodyEnds(outcome, location, raised), case.final = TRUE
    PROVE  /\ at = "body" /\ UNCHANGED <<settings, exploration, stash, replays>>
           /\ case'.n = case.n /\ case'.final /\ case'.origin = location
           /\ case'.sites = case.sites \cup raised
           /\ report' = IF outcome = "Interesting" /\ ~settings.quiet
                        THEN Append(report, [n |-> case.n, location |-> location]) ELSE report
           /\ \/ settings.blob # None /\ at' = "ended" /\ ended'.how \in {"raised", "stale"}
              \/ settings.blob = None /\ at' = "ended" /\ ended'.how = "flaky"
              \/ settings.blob = None /\ outcome = "Interesting" /\ at' = "replay" /\ ended' = ended
  <1> DEFINE c == Concluded(outcome, location, raised)
             failure == [n |-> case.n, location |-> location]
  <1>0. c \in Cases /\ c.final = case.final /\ c.origin = location /\ c.sites = case.sites \cup raised
    BY ConcludeTyped
  <1>1. c.n = case.n
    BY ConcludeTyped
  <1>2. /\ at = "body" /\ case' = c /\ UNCHANGED <<settings, exploration, stash, replays>>
        /\ report' = IF outcome = "Interesting" /\ ~settings.quiet THEN Append(report, failure) ELSE report
    BY DEF BodyEnds, Captured, Concluded
  <1>3. \/ settings.blob # None /\ (EndRaising(failure) \/ End("stale"))
        \/ settings.blob = None /\ End("flaky")
        \/ settings.blob = None /\ outcome = "Interesting" /\ at' = "replay" /\ ended' = ended
    BY DEF BodyEnds, Concluded
  <1>4. \/ settings.blob # None /\ at' = "ended" /\ ended'.how \in {"raised", "stale"}
        \/ settings.blob = None /\ at' = "ended" /\ ended'.how = "flaky"
        \/ settings.blob = None /\ outcome = "Interesting" /\ at' = "replay" /\ ended' = ended
    BY <1>3 DEF EndRaising, End
  <1> HIDE DEF c
  <1> QED
    BY <1>0, <1>1, <1>2, <1>4

-----------------------------------------------------------------------------
(* The invariants. *)

\* What a panic that skips the hook would be taken for was raised in this case, if anything was.
OriginSound ==
    /\ OriginIsThisCase
    /\ at = "body" => /\ case.origin = None /\ panic_info \in case.sites \cup {None}
                      /\ panic_info = None <=> case.sites = {}

\* What is replayed: a blob before anything ran, or the failures of a run.
ReplayOf == IF settings.blob = None THEN "failed" ELSE "exploring"

\* A run that passed found nothing and lets the function return; nothing is reported before a
\* verdict.
VerdictSound ==
    /\ VerdictReady
    /\ at \in {"explicit", "configure", "pull"} => exploration.status = "exploring" /\ report = <<>>
    /\ at = "body" /\ ~case.final => exploration.status = "exploring" /\ report = <<>>
    /\ at = "body" /\ case.final => exploration.status = ReplayOf
    /\ at = "replay" => exploration.status = ReplayOf
    /\ at = "verdict" => report = <<>>
    /\ at \in {"pull", "verdict"} => settings.blob = None
    /\ at = "body" /\ ~case.final => settings.blob = None
    /\ exploration.status = "passed" =>
          /\ exploration.found = {} /\ report = <<>> /\ at \in {"verdict", "ended"}
          /\ at = "ended" => ended.how = "returned"
    /\ at # "ended" => ended.how = None
    /\ ended.how = "returned" => exploration.status = "passed"
    /\ ended.how = "usage" /\ ~case.final => case.concluded # None

\* Of the failures the result of a run keeps, each is printed, being replayed or left to replay,
\* in the order of the replays; the one printed last is the one replayed last. The result keeps
\* as many as are to be reported.
ReplaysCounted ==
    /\ IsFiniteSet(exploration.found)
    /\ exploration.status = "failed" =>
          IsFiniteSet(exploration.kept) /\ Cardinality(exploration.kept) = ToReport /\ ToReport > 0
    /\ exploration.status = "failed" /\ ~settings.quiet /\ at \in {"replay", "body"} =>
          /\ replays \subseteq exploration.kept
          /\ Len(report) + Cardinality(replays) + (IF at = "body" THEN 1 ELSE 0)
               = Cardinality(exploration.kept)
          /\ \A i \in 1 .. Len(report) : report[i].n <= case.n /\ (at = "body" => report[i].n < case.n)
          /\ \A i \in 1 .. Len(report) - 1 : report[i].n < report[i + 1].n
          /\ at = "replay" /\ Len(report) > 0
               => report[Len(report)] = [n |-> case.n, location |-> case.origin]
    /\ EachFailureReported

RunInv == TypeOK /\ OriginSound /\ VerdictSound /\ ReplaysCounted

\* A test function starts soundly.
LEMMA RunInit == DriveInit => RunInv
  <1> SUFFICES ASSUME DriveInit PROVE RunInv
    OBVIOUS
  <1>1. settings \in Settings
    BY ConfigurationsOK DEF DriveInit, Settings
  <1>2. exploration \in Runs /\ exploration.found = {} /\ exploration.status = "exploring"
    BY DEF DriveInit, Runs, Statuses
  <1>3. ended \in [how : Endings, failure : {None} \cup Failures] /\ ended.how = None
    BY DEF DriveInit, Endings
  <1>4. undrawn \subseteq Names
    BY <1>1 DEF DriveInit, Settings
  <1>5. /\ at = "explicit" /\ drawn \in [Names -> Nat] /\ case = NoCase /\ panic_info = None
        /\ stash = None /\ replays = {} /\ report = <<>>
    BY DEF DriveInit
  <1>6. TypeOK
    BY <1>1, <1>2, <1>3, <1>4, <1>5, NoCaseTyped DEF TypeOK, Places
  <1>7. OriginSound
    BY <1>5, NoCaseTyped DEF OriginSound, OriginIsThisCase
  <1>8. VerdictSound
    BY <1>2, <1>3, <1>5 DEF VerdictSound, VerdictReady, None
  <1>9. ReplaysCounted
    BY <1>2, <1>3, <1>5, FS_EmptySet DEF ReplaysCounted, EachFailureReported, None
  <1> QED
    BY <1>6, <1>7, <1>8, <1>9 DEF RunInv

\* Every step keeps OriginSound: BeginCase forgets the panic of an earlier case.
LEMMA OriginStep ==
    ASSUME TypeOK, OriginSound, VerdictReady, [DriveNext]_driveVars
    PROVE  OriginSound'
  <1> USE SitesNamed
  <1>1. ASSUME case' = case, at' # "body" PROVE OriginSound'
    BY <1>1 DEF OriginSound, OriginIsThisCase
  <1>2. ASSUME case'.origin = None, case'.sites = {}, panic_info' = None PROVE OriginSound'
    BY <1>2 DEF OriginSound, OriginIsThisCase
  <1>3. ASSUME at' # "body", case'.origin = None \/ IF case'.sites = {} THEN case'.origin = Unknown
                                                    ELSE case'.origin \in case'.sites
        PROVE  OriginSound'
    BY <1>3 DEF OriginSound, OriginIsThisCase
  <1>4. ASSUME NEW outcome \in Outcomes, NEW location \in Locations, NEW raised \in SUBSET Sites,
               BodyEnds(outcome, location, raised)
        PROVE  at = "body" /\ at' # "body" /\ case'.origin = location /\ case'.sites = case.sites \cup raised
    <2>1. at = "body" /\ case.final \in BOOLEAN
      BY <1>4 DEF BodyEnds, TypeOK, Cases
    <2>2. CASE ~case.final
      <3>1. case.concluded # "Interesting"
        BY <2>1 DEF VerdictReady
      <3> QED
        BY <1>4, <2>2, <3>1, BodyRecorded
    <2>3. CASE case.final = TRUE
      BY <1>4, <2>3, BodyReplayed
    <2> QED
      BY <2>1, <2>2, <2>3
  <1>5. ASSUME NEW v \in Names, ExplicitDraw(v) PROVE OriginSound'
    BY <1>1, <1>5 DEF ExplicitDraw, End, running
  <1>6. CASE ExplicitPanic
    BY <1>1, <1>6 DEF ExplicitPanic, End, running
  <1>7. CASE ExplicitReturn
    BY <1>1, <1>7 DEF ExplicitReturn, End, running
  <1>8. CASE Configure
    BY <1>1, <1>8 DEF Configure, End, running
  <1>9. CASE NextTestCase
    <2> DEFINE c == [NoCase EXCEPT !.n = case.n + 1, !.stamped = exploration.nondet, !.concluded = None]
    <2>1. c.origin = None /\ c.sites = {}
      BY NoCaseTyped DEF Cases
    <2> QED
      BY <1>2, <1>9, <2>1 DEF NextTestCase, BeginCase
  <1>10. CASE Shrink
    BY <1>1, <1>10 DEF Shrink
  <1>11. ASSUME NEW error \in BOOLEAN, FinishRun(error) PROVE OriginSound'
    BY <1>1, <1>11 DEF FinishRun
  <1>12. ASSUME NEW s \in Sites, CaughtPanic(s) PROVE OriginSound'
    <2>1. at = "body" /\ case'.origin = case.origin /\ case'.sites = case.sites \cup {s} /\ panic_info' = s
      BY <1>12 DEF CaughtPanic, InBody, TypeOK, Cases
    <2> QED
      BY <2>1 DEF OriginSound, OriginIsThisCase
  <1>13. ASSUME NEW s \in Sites, Panics(s) PROVE OriginSound'
    <2>1. at' # "body" /\ case'.origin = s /\ case'.sites = case.sites \cup {s}
      BY <1>4, <1>13 DEF Panics, Outcomes, Locations
    <2> QED
      BY <1>3, <2>1
  <1>14. ASSUME case'.origin = case.origin, case'.sites = case.sites, panic_info' = panic_info, at' = at
         PROVE  OriginSound'
    BY <1>14 DEF OriginSound, OriginIsThisCase
  <1>15. ASSUME NEW why \in {"Invalid", "Overrun"}, RefusedDraw(why) PROVE OriginSound'
    BY <1>14, <1>15 DEF RefusedDraw, InBody, whole, TypeOK, Cases
  <1>16. CASE ConcurrentMachine
    BY <1>14, <1>16 DEF ConcurrentMachine, InBody, whole, TypeOK, Cases
  <1>17. CASE BodyReturns
    <2>1. at' # "body" /\ case'.origin = None
      BY <1>4, <1>17 DEF BodyReturns, Outcomes, Locations
    <2> QED
      BY <1>3, <2>1
  <1>18. CASE ResumesPanic
    <2> DEFINE location == IF panic_info = None THEN Unknown ELSE panic_info
    <2>1. location \in Locations /\ {} \in SUBSET Sites
      BY DEF TypeOK, Locations
    <2>2. BodyEnds("Interesting", location, {})
      BY <1>18 DEF ResumesPanic
    <2> HIDE DEF location
    <2>3. at = "body" /\ at' # "body" /\ case'.origin = location /\ case'.sites = case.sites
      BY <1>4, <2>1, <2>2 DEF Outcomes
    <2>4. IF case.sites = {} THEN location = Unknown ELSE location \in case.sites
      BY <2>3 DEF OriginSound, location
    <2> QED
      BY <1>3, <2>3, <2>4
  <1>19. CASE Misuse
    <2>1. case'.origin = case.origin /\ case'.sites = case.sites /\ at' # "body"
      BY <1>19 DEF Misuse, End, Conclude, TypeOK, Cases
    <2> QED
      BY <2>1 DEF OriginSound, OriginIsThisCase
  <1>20. CASE TakeVerdict
    <2>1. exploration.status \in Statuses \ {"exploring"}
      BY <1>20 DEF TakeVerdict, VerdictReady, TypeOK, Runs
    <2>2. case' = case /\ at' # "body"
      BY <1>20, <2>1 DEF TakeVerdict, End, EndRaising, Statuses
    <2> QED
      BY <1>1, <2>2
  <1>21. ASSUME NEW o, Replay(o) PROVE OriginSound'
    BY <1>2, <1>21, FinalTyped DEF Replay, BeginCase
  <1>22. CASE ReplayBlob
    <2>1. (case' = case /\ at' # "body") \/ BeginCase(final)
      BY <1>22 DEF ReplayBlob, End
    <2> QED
      BY <1>1, <1>2, <2>1, FinalTyped DEF BeginCase
  <1>23. CASE ReRaise
    BY <1>1, <1>23 DEF ReRaise, End, EndRaising, running
  <1>24. CASE UNCHANGED driveVars
    BY <1>14, <1>24 DEF driveVars
  <1> QED
    BY <1>5, <1>6, <1>7, <1>8, <1>9, <1>10, <1>11, <1>12, <1>13, <1>15, <1>16, <1>17, <1>18, <1>19,
       <1>20, <1>21, <1>22, <1>23, <1>24 DEF DriveNext, Body

\* Every step keeps VerdictSound.
LEMMA VerdictStep ==
    ASSUME TypeOK, VerdictSound, [DriveNext]_driveVars
    PROVE  VerdictSound'
  <1> USE DEF VerdictSound, VerdictReady, None
  <1>0. VerdictReady /\ at \in Places /\ case.final \in BOOLEAN /\ exploration.status \in Statuses
    BY DEF TypeOK, Cases, Runs
  <1>1. ASSUME UNCHANGED <<exploration, case, stash, report>>, at \in {"explicit", "configure"},
               \/ at' = "configure" /\ ended' = ended
               \/ at' = at /\ ended' = ended
               \/ at' = "ended" /\ ended'.how \in {"example", "settings"}
        PROVE  VerdictSound'
    BY <1>1 DEF Places
  <1>2. ASSUME NEW v \in Names, ExplicitDraw(v) PROVE VerdictSound'
    BY <1>1, <1>2 DEF ExplicitDraw, End, running
  <1>3. CASE ExplicitPanic
    BY <1>1, <1>3 DEF ExplicitPanic, End, running
  <1>4. CASE ExplicitReturn
    BY <1>1, <1>4 DEF ExplicitReturn, End, running
  <1>5. CASE Configure
    <2>1. CASE settings.badEnv
      BY <1>1, <1>5, <2>1 DEF Configure, End, running
    <2>2. CASE ~settings.badEnv
      <3>1. settings'.blob = settings.blob
        BY <1>5, <2>2 DEF Configure, TypeOK, Settings
      <3>2. at' = IF settings.blob = None THEN "pull" ELSE "replay"
        BY <1>5, <2>2 DEF Configure
      <3>3. UNCHANGED <<exploration, case, stash, report, ended>> /\ at = "configure"
        BY <1>5, <2>2 DEF Configure, running
      <3> QED
        BY <3>1, <3>2, <3>3 DEF ReplayOf
    <2> QED
      BY <2>1, <2>2
  <1>6. CASE NextTestCase
    <2> DEFINE c == [NoCase EXCEPT !.n = case.n + 1, !.stamped = exploration.nondet, !.concluded = None]
    <2>1. c.final = FALSE /\ c.concluded = None
      BY NoCaseTyped DEF Cases
    <2>2. at = "pull" /\ at' = "body" /\ case' = c
          /\ UNCHANGED <<settings, exploration, stash, report, ended>>
      BY <1>6 DEF NextTestCase, BeginCase
    <2> HIDE DEF c
    <2> QED
      BY <2>1, <2>2
  <1>7. CASE Shrink
    <2>1. exploration'.found = exploration.found /\ exploration'.status = exploration.status
      BY <1>7 DEF Shrink, TypeOK, Runs
    <2> QED
      BY <1>7, <2>1 DEF Shrink
  <1>8. ASSUME NEW error \in BOOLEAN, FinishRun(error) PROVE VerdictSound'
    <2>1. /\ exploration'.found = exploration.found
          /\ exploration'.status \in Statuses \ {"exploring"}
          /\ exploration'.status = "passed" => exploration.found = {}
          /\ exploration'.status \in {"failed", "failed_nondeterministic"} => exploration.found # {}
      BY <1>8, FinishTyped
    <2> QED
      BY <1>8, <2>1 DEF FinishRun, Statuses
  <1>9. ASSUME at = "body", at' = "body", case'.final = case.final, case'.concluded # "Interesting",
               UNCHANGED <<settings, exploration, stash, report, ended>>
        PROVE  VerdictSound'
    BY <1>9 DEF ReplayOf
  <1>10. ASSUME NEW s \in Sites, CaughtPanic(s) PROVE VerdictSound'
    <2>1. case'.final = case.final /\ case'.concluded = case.concluded
      BY <1>10 DEF CaughtPanic, InBody, TypeOK, Cases
    <2> QED
      BY <1>9, <1>10, <2>1 DEF CaughtPanic, InBody, whole
  <1>11. ASSUME NEW why \in {"Invalid", "Overrun"}, RefusedDraw(why) PROVE VerdictSound'
    <2>1. case'.final = case.final /\ case'.concluded = why
      BY <1>11 DEF RefusedDraw, InBody, TypeOK, Cases
    <2> QED
      BY <1>9, <1>11, <2>1 DEF RefusedDraw, InBody, whole
  <1>12. CASE ConcurrentMachine
    <2>1. case'.final = case.final /\ case'.concluded = "Invalid"
      BY <1>12 DEF ConcurrentMachine, InBody, TypeOK, Cases
    <2> QED
      BY <1>9, <1>12, <2>1 DEF ConcurrentMachine, InBody, whole
  <1>13. ASSUME NEW outcome \in Outcomes, NEW location \in Locations, NEW raised \in SUBSET Sites,
                BodyEnds(outcome, location, raised)
         PROVE  VerdictSound'
    <2>1. at = "body" /\ case.concluded # "Interesting"
      BY <1>13 DEF BodyEnds
    <2>2. CASE ~case.final
      <3>1. /\ at' = "pull" /\ UNCHANGED <<settings, report, ended>> /\ ~case'.final
            /\ exploration'.status = exploration.status
            /\ \/ exploration'.found = exploration.found
               \/ exploration'.found = exploration.found \cup {location} /\ stash' \in Stashes
            /\ stash \in Stashes => stash' \in Stashes
        BY <1>13, <2>1, <2>2, BodyRecorded
      <3> QED
        BY <2>1, <2>2, <3>1
    <2>3. CASE case.final = TRUE
      <3>1. /\ UNCHANGED <<settings, exploration, stash>> /\ case'.final
            /\ \/ settings.blob # None /\ at' = "ended" /\ ended'.how \in {"raised", "stale"}
               \/ settings.blob = None /\ at' = "ended" /\ ended'.how = "flaky"
               \/ settings.blob = None /\ at' = "replay" /\ ended' = ended
        BY <1>13, <2>3, BodyReplayed
      <3> QED
        BY <2>1, <2>3, <3>1 DEF ReplayOf
    <2> QED
      BY <1>0, <2>2, <2>3
  <1>14. ASSUME NEW s \in Sites, Panics(s) PROVE VerdictSound'
    BY <1>13, <1>14 DEF Panics, Outcomes, Locations
  <1>15. CASE BodyReturns
    <2>1. {} \in SUBSET Sites
      OBVIOUS
    <2> QED
      BY <1>13, <1>15, <2>1 DEF BodyReturns, Outcomes, Locations
  <1>16. CASE ResumesPanic
    <2> DEFINE location == IF panic_info = None THEN Unknown ELSE panic_info
    <2>1. location \in Locations /\ {} \in SUBSET Sites
      BY DEF TypeOK, Locations
    <2>2. BodyEnds("Interesting", location, {})
      BY <1>16 DEF ResumesPanic
    <2> HIDE DEF location
    <2> QED
      BY <1>13, <2>1, <2>2 DEF Outcomes
  <1>17. CASE Misuse
    <2>1. case'.final = case.final /\ (~case.final => case'.concluded # None)
      BY <1>17 DEF Misuse, Conclude, TypeOK, Cases
    <2>2. /\ at = "body" /\ at' = "ended" /\ ended'.how = "usage"
          /\ UNCHANGED <<settings, exploration, stash, report>>
      BY <1>17 DEF Misuse, End
    <2> QED
      BY <1>0, <2>1, <2>2 DEF ReplayOf
  <1>18. CASE TakeVerdict
    <2>1. /\ at = "verdict" /\ UNCHANGED <<settings, exploration, case, stash>>
          /\ exploration.status \in Statuses \ {"exploring"}
      BY <1>0, <1>18 DEF TakeVerdict
    <2>2. CASE exploration.status = "passed"
      BY <1>18, <2>1, <2>2 DEF TakeVerdict, End
    <2>3. CASE exploration.status = "error"
      BY <1>18, <2>1, <2>3 DEF TakeVerdict, End
    <2>4. CASE exploration.status = "failed_nondeterministic"
      BY <1>18, <2>1, <2>4 DEF TakeVerdict, EndRaising
    <2>5. CASE exploration.status = "failed"
      <3>1. at' = "replay" /\ UNCHANGED <<report, ended>>
        BY <1>18, <2>5 DEF TakeVerdict
      <3> QED
        BY <2>1, <2>5, <3>1 DEF ReplayOf
    <2> QED
      BY <2>1, <2>2, <2>3, <2>4, <2>5 DEF Statuses
  <1>19. ASSUME BeginCase(final), at = "replay", UNCHANGED <<settings, exploration, stash, report, ended>>
         PROVE  VerdictSound'
    <2>1. final.final /\ final.concluded = None
      BY FinalTyped
    <2>2. case' = final /\ at' = "body"
      BY <1>19 DEF BeginCase
    <2> QED
      BY <1>19, <2>1, <2>2 DEF ReplayOf
  <1>20. ASSUME NEW o, Replay(o) PROVE VerdictSound'
    BY <1>19, <1>20 DEF Replay
  <1>21. CASE ReplayBlob
    <2>1. CASE settings.blob = "corrupt"
      BY <1>21, <2>1 DEF ReplayBlob, End, ReplayOf
    <2>2. CASE settings.blob # "corrupt"
      BY <1>19, <1>21, <2>2 DEF ReplayBlob
    <2> QED
      BY <2>1, <2>2
  <1>22. CASE ReRaise
    <2>1. /\ at = "replay" /\ settings.blob = None /\ at' = "ended"
          /\ ended'.how \in {"distinct_failures", "raised"}
          /\ UNCHANGED <<settings, exploration, case, stash, report>>
      BY <1>22 DEF ReRaise, End, EndRaising, running
    <2> QED
      BY <2>1 DEF ReplayOf
  <1>23. CASE UNCHANGED driveVars
    BY <1>23 DEF driveVars, ReplayOf
  <1> QED
    BY <1>2, <1>3, <1>4, <1>5, <1>6, <1>7, <1>8, <1>10, <1>11, <1>12, <1>14, <1>15, <1>16, <1>17,
       <1>18, <1>20, <1>21, <1>22, <1>23 DEF DriveNext, Body

\* Every step keeps ReplaysCounted: a replay is taken up, fails again and is printed.
LEMMA ReplaysStep ==
    ASSUME RunInv, VerdictSound', [DriveNext]_driveVars
    PROVE  ReplaysCounted'
  <1> DEFINE found == exploration.found
             kept == exploration.kept
             failing == exploration.status = "failed" /\ ~settings.quiet
  <1>0. /\ TypeOK /\ VerdictSound /\ VerdictReady /\ ReplaysCounted /\ IsFiniteSet(found)
        /\ case.final \in BOOLEAN /\ case.n \in Nat /\ report \in Seq(Failures)
    BY DEF RunInv, VerdictSound, ReplaysCounted, TypeOK, Cases
  <1>1. ASSUME IsFiniteSet(exploration'.found), exploration'.status # "failed" PROVE ReplaysCounted'
    BY <1>1 DEF ReplaysCounted, EachFailureReported
  <1>2. ASSUME at' \notin {"replay", "body"}, ended'.how \notin {"raised", "distinct_failures"},
               UNCHANGED <<settings, exploration>>
        PROVE  ReplaysCounted'
    BY <1>0, <1>2 DEF ReplaysCounted, EachFailureReported, ToReport
  <1>3. ASSUME at = "body", at' = "body", case'.n = case.n,
               UNCHANGED <<settings, exploration, replays, report, ended>>
        PROVE  ReplaysCounted'
    BY <1>0, <1>3 DEF ReplaysCounted, EachFailureReported, ToReport
  <1>4. ASSUME at \in {"explicit", "configure", "pull"}, exploration' = exploration PROVE ReplaysCounted'
    BY <1>0, <1>1, <1>4 DEF VerdictSound
  <1>5. ASSUME NEW v \in Names, ExplicitDraw(v) PROVE ReplaysCounted'
    BY <1>4, <1>5 DEF ExplicitDraw, running
  <1>6. CASE ExplicitPanic
    BY <1>4, <1>6 DEF ExplicitPanic, running
  <1>7. CASE ExplicitReturn
    BY <1>4, <1>7 DEF ExplicitReturn, running
  <1>8. CASE Configure
    BY <1>4, <1>8 DEF Configure, running
  <1>9. CASE NextTestCase
    BY <1>4, <1>9 DEF NextTestCase
  <1>10. CASE Shrink
    <2>1. exploration'.found = exploration.found /\ exploration'.status = exploration.status
      BY <1>0, <1>10 DEF Shrink, TypeOK, Runs
    <2> QED
      BY <1>0, <1>1, <1>10, <2>1 DEF Shrink, VerdictSound
  <1>11. ASSUME NEW error \in BOOLEAN, FinishRun(error) PROVE ReplaysCounted'
    <2>1. at' = "verdict" /\ ended' = ended /\ at = "pull" /\ UNCHANGED settings
      BY <1>11 DEF FinishRun
    <2>2. /\ exploration'.found = found
          /\ exploration'.status = "failed" =>
                /\ found # {}
                /\ IF settings.multiple THEN exploration'.kept = found
                   ELSE \E o \in found : exploration'.kept = {o}
      BY <1>0, <1>11, FinishTyped
    <2>3. Cardinality(found) \in Nat /\ (found # {} => Cardinality(found) > 0)
      BY <1>0, FS_CardinalityType, FS_EmptySet
    <2>4. exploration'.status = "failed" =>
             IsFiniteSet(exploration'.kept) /\ Cardinality(exploration'.kept) = ToReport' /\ ToReport' > 0
      <3>1. CASE settings.multiple
        <4>1. ToReport' = Cardinality(found)
          BY <2>1, <2>2, <3>1 DEF ToReport
        <4> HIDE DEF found
        <4> QED
          BY <1>0, <2>2, <2>3, <3>1, <4>1
      <3>2. CASE ~settings.multiple
        <4>1. ToReport' = 1
          BY <2>1, <3>2 DEF ToReport
        <4>2. ASSUME exploration'.status = "failed"
              PROVE  IsFiniteSet(exploration'.kept) /\ Cardinality(exploration'.kept) = 1
          <5>1. PICK o \in found : exploration'.kept = {o}
            BY <2>2, <3>2, <4>2
          <5>2. IsFiniteSet({o}) /\ Cardinality({o}) = 1
            BY FS_Singleton
          <5> QED
            BY <5>1, <5>2
        <4>3. ToReport' > 0
          BY <4>1
        <4> HIDE DEF ToReport
        <4> QED
          BY <4>1, <4>2, <4>3
      <3> QED
        BY <3>1, <3>2
    <2>5. ended'.how = None
      BY <1>0, <2>1 DEF VerdictSound
    <2> QED
      BY <1>0, <2>1, <2>2, <2>4, <2>5 DEF ReplaysCounted, EachFailureReported, None
  <1>12. ASSUME NEW s \in Sites, CaughtPanic(s) PROVE ReplaysCounted'
    BY <1>0, <1>3, <1>12 DEF CaughtPanic, InBody, whole, TypeOK, Cases
  <1>13. ASSUME NEW why \in {"Invalid", "Overrun"}, RefusedDraw(why) PROVE ReplaysCounted'
    BY <1>0, <1>3, <1>13 DEF RefusedDraw, InBody, whole, TypeOK, Cases
  <1>14. CASE ConcurrentMachine
    BY <1>0, <1>3, <1>14 DEF ConcurrentMachine, InBody, whole, TypeOK, Cases
  <1>15. ASSUME NEW outcome \in Outcomes, NEW location \in Locations, NEW raised \in SUBSET Sites,
                BodyEnds(outcome, location, raised)
         PROVE  ReplaysCounted'
    <2>1. at = "body" /\ case.concluded # "Interesting"
      BY <1>0, <1>15 DEF BodyEnds, VerdictReady
    <2>2. CASE ~case.final
      <3>1. /\ exploration'.status = exploration.status
            /\ \/ exploration'.found = found
               \/ exploration'.found = found \cup {location}
        BY <1>0, <1>15, <2>1, <2>2, BodyRecorded
      <3>2. IsFiniteSet(exploration'.found)
        <4>1. IsFiniteSet(exploration.found \cup {location})
          BY <1>0, FS_AddElement
        <4> QED
          BY <1>0, <3>1, <4>1
      <3> QED
        BY <1>0, <1>1, <2>1, <2>2, <3>1, <3>2 DEF VerdictSound
    <2>3. CASE case.final = TRUE
      <3> DEFINE failure == [n |-> case.n, location |-> location]
      <3>1. /\ UNCHANGED <<settings, exploration, stash, replays>>
            /\ case'.n = case.n /\ case'.origin = location
            /\ report' = IF outcome = "Interesting" /\ ~settings.quiet THEN Append(report, failure) ELSE report
            /\ \/ settings.blob # None
               \/ settings.blob = None /\ at' = "ended" /\ ended'.how = "flaky"
               \/ settings.blob = None /\ outcome = "Interesting" /\ at' = "replay" /\ ended' = ended
        BY <1>0, <1>15, <2>3, BodyReplayed
      <3>2. CASE settings.blob # None
        BY <1>0, <1>1, <2>1, <2>3, <3>1, <3>2 DEF VerdictSound, ReplayOf
      <3>3. CASE at' = "ended" /\ ended'.how = "flaky"
        BY <1>2, <3>1, <3>3
      <3>4. ASSUME outcome = "Interesting", at' = "replay", ended' = ended, failing
            PROVE  ReplaysCounted'
        <4>1. report' = Append(report, failure) /\ Len(report') = Len(report) + 1 /\ Len(report) \in Nat
          BY <1>0, <3>1, <3>4
        <4>2. /\ \A i \in 1 .. Len(report) : report'[i] = report[i] /\ report[i].n \in Nat
              /\ report'[Len(report')] = failure /\ failure.n = case.n
          <5>1. failure \in Failures
            BY <1>0 DEF Failures
          <5>2. \A i \in 1 .. Len(report) : report[i] \in Failures
            BY <1>0
          <5> HIDE DEF failure
          <5>3. \A i \in 1 .. Len(report) : report'[i] = report[i]
            BY <1>0, <4>1, <5>1
          <5>4. report'[Len(report')] = failure
            BY <1>0, <4>1, <5>1
          <5> QED
            BY <5>2, <5>3, <5>4 DEF Failures, failure
        <4>3. /\ replays \subseteq kept /\ IsFiniteSet(kept)
              /\ Len(report) + Cardinality(replays) + 1 = Cardinality(kept)
              /\ \A i \in 1 .. Len(report) : report[i].n < case.n
              /\ \A i \in 1 .. Len(report) - 1 : report[i].n < report[i + 1].n
          BY <1>0, <2>1, <3>4 DEF ReplaysCounted
        <4>4. replays' \subseteq exploration'.kept /\ Cardinality(replays) \in Nat
          <5>1. IsFiniteSet(replays)
            BY <4>3, FS_Subset
          <5> QED
            BY <3>1, <4>3, <5>1, FS_CardinalityType
        <4>5. Len(report') + Cardinality(replays') + (IF at' = "body" THEN 1 ELSE 0) = Cardinality(exploration'.kept)
          BY <3>1, <3>4, <4>1, <4>3, <4>4
        <4>6. \A i \in 1 .. Len(report') : report'[i].n <= case'.n /\ (at' = "body" => report'[i].n < case'.n)
          BY <1>0, <3>1, <3>4, <4>1, <4>2, <4>3
        <4>7. \A i \in 1 .. Len(report') - 1 : report'[i].n < report'[i + 1].n
          BY <1>0, <4>1, <4>2, <4>3
        <4>8. report'[Len(report')] = [n |-> case'.n, location |-> case'.origin]
          BY <3>1, <4>2
        <4>9. EachFailureReported'
          BY <1>0, <2>1, <3>4 DEF VerdictSound, EachFailureReported, None
        <4> QED
          BY <1>0, <3>1, <4>4, <4>5, <4>6, <4>7, <4>8, <4>9 DEF ReplaysCounted, ToReport
      <3>5. ASSUME outcome = "Interesting", at' = "replay", ended' = ended, ~failing
            PROVE  ReplaysCounted'
        BY <1>0, <2>1, <3>1, <3>5 DEF ReplaysCounted, EachFailureReported, ToReport
      <3> QED
        BY <3>1, <3>2, <3>3, <3>4, <3>5
    <2> QED
      BY <1>0, <2>2, <2>3
  <1>16. ASSUME NEW s \in Sites, Panics(s) PROVE ReplaysCounted'
    BY <1>15, <1>16 DEF Panics, Outcomes, Locations
  <1>17. CASE BodyReturns
    <2>1. {} \in SUBSET Sites
      OBVIOUS
    <2> QED
      BY <1>15, <1>17, <2>1 DEF BodyReturns, Outcomes, Locations
  <1>18. CASE ResumesPanic
    <2> DEFINE location == IF panic_info = None THEN Unknown ELSE panic_info
    <2>1. location \in Locations /\ {} \in SUBSET Sites
      BY <1>0 DEF TypeOK, Locations
    <2>2. BodyEnds("Interesting", location, {})
      BY <1>18 DEF ResumesPanic
    <2> HIDE DEF location
    <2> QED
      BY <1>15, <2>1, <2>2 DEF Outcomes
  <1>19. CASE Misuse
    BY <1>2, <1>19 DEF Misuse, End
  <1>20. CASE TakeVerdict
    <2>1. /\ at = "verdict" /\ UNCHANGED <<settings, exploration, case>> /\ report = <<>>
      BY <1>0, <1>20 DEF TakeVerdict, VerdictSound
    <2>2. CASE exploration.status # "failed"
      BY <1>0, <1>1, <2>1, <2>2
    <2>3. CASE exploration.status = "failed"
      <3>1. at' = "replay" /\ replays' = kept /\ report' = <<>> /\ ended' = ended
        BY <1>20, <2>1, <2>3 DEF TakeVerdict
      <3>2. Cardinality(kept) \in Nat
        BY <1>0, <2>3, FS_CardinalityType DEF ReplaysCounted
      <3>3. ended.how = None
        BY <1>0, <2>1 DEF VerdictSound
      <3> QED
        BY <1>0, <2>1, <3>1, <3>2, <3>3 DEF ReplaysCounted, EachFailureReported, ToReport, None
    <2> QED
      BY <2>2, <2>3
  <1>21. ASSUME NEW o, Replay(o) PROVE ReplaysCounted'
    <2>1. /\ at = "replay" /\ at' = "body" /\ o \in replays /\ replays' = replays \ {o} /\ case' = final
          /\ UNCHANGED <<settings, exploration, report, ended>>
      BY <1>21 DEF Replay, BeginCase
    <2>2. case'.n = case.n + 1
      BY <1>0, <2>1, FinalTyped
    <2>3. EachFailureReported'
      BY <1>0, <2>1 DEF VerdictSound, EachFailureReported, None
    <2>4. CASE ~failing
      BY <1>0, <2>1, <2>3, <2>4 DEF ReplaysCounted, ToReport
    <2>5. CASE failing
      <3>1. /\ replays \subseteq kept /\ IsFiniteSet(kept)
            /\ Len(report) + Cardinality(replays) + 0 = Cardinality(kept)
            /\ \A i \in 1 .. Len(report) : report[i].n <= case.n
            /\ \A i \in 1 .. Len(report) - 1 : report[i].n < report[i + 1].n
        BY <1>0, <2>1, <2>5 DEF ReplaysCounted
      <3>2. IsFiniteSet(replays)
        BY <3>1, FS_Subset
      <3>3. Cardinality(replays') = Cardinality(replays) - 1 /\ Cardinality(replays) \in Nat
        BY <2>1, <3>2, FS_RemoveElement, FS_CardinalityType
      <3>4. Len(report) + Cardinality(replays') + 1 = Cardinality(kept)
        BY <1>0, <3>1, <3>3
      <3>5. \A i \in 1 .. Len(report) : report[i].n <= case'.n /\ report[i].n < case'.n
        <4>1. \A i \in 1 .. Len(report) : report[i].n \in Nat
          <5>1. \A i \in 1 .. Len(report) : report[i] \in Failures
            BY <1>0
          <5> QED
            BY <5>1 DEF Failures
        <4> QED
          BY <1>0, <2>2, <3>1, <4>1
      <3> QED
        BY <1>0, <2>1, <2>3, <3>1, <3>4, <3>5 DEF ReplaysCounted, ToReport
    <2> QED
      BY <2>4, <2>5
  <1>22. CASE ReplayBlob
    BY <1>0, <1>1, <1>22 DEF ReplayBlob, VerdictSound, ReplayOf
  <1>23. CASE ReRaise
    <2>1. /\ at = "replay" /\ replays = {} /\ UNCHANGED <<settings, exploration, report>> /\ at' = "ended"
          /\ IF Cardinality(kept) > 1 THEN ended'.how = "distinct_failures"
             ELSE ended'.how = "raised" /\ ended'.failure = [n |-> case.n, location |-> case.origin]
      BY <1>23 DEF ReRaise, End, EndRaising, running
    <2>2. CASE ~failing
      BY <1>0, <2>1, <2>2 DEF ReplaysCounted, EachFailureReported, ToReport
    <2>3. CASE failing
      <3>1. /\ Len(report) + Cardinality(replays) + 0 = Cardinality(kept)
            /\ IsFiniteSet(kept) /\ Cardinality(kept) = ToReport /\ ToReport > 0
            /\ \A i \in 1 .. Len(report) - 1 : report[i].n < report[i + 1].n
            /\ Len(report) > 0 => report[Len(report)] = [n |-> case.n, location |-> case.origin]
        BY <1>0, <2>1, <2>3 DEF ReplaysCounted
      <3>2. Cardinality(replays) = 0 /\ ToReport \in Nat /\ Len(report) \in Nat
        <4>1. Cardinality(kept) \in Nat
          BY <3>1, FS_CardinalityType
        <4> QED
          BY <1>0, <2>1, <3>1, <4>1, FS_EmptySet
      <3>3. Len(report) = ToReport /\ Len(report) > 0 /\ ToReport' = ToReport
        <4>1. ToReport' = ToReport
          BY <2>1 DEF ToReport
        <4> QED
          BY <3>1, <3>2, <4>1
      <3>4. EachFailureReported'
        <4>1. ended'.how = "raised" => ended'.failure = report[Len(report)]
          BY <2>1, <3>1, <3>3
        <4>2. ended'.how = "raised" <=> ToReport = 1
          BY <2>1, <3>1, <3>2
        <4> QED
          BY <2>1, <3>1, <3>3, <4>1, <4>2 DEF EachFailureReported
      <3> QED
        BY <1>0, <2>1, <3>3, <3>4 DEF ReplaysCounted
    <2> QED
      BY <2>2, <2>3
  <1>24. CASE UNCHANGED driveVars
    BY <1>0, <1>24 DEF driveVars, ReplaysCounted, EachFailureReported, ToReport
  <1> QED
    BY <1>5, <1>6, <1>7, <1>8, <1>9, <1>10, <1>11, <1>12, <1>13, <1>14, <1>16, <1>17, <1>18, <1>19,
       <1>20, <1>21, <1>22, <1>23, <1>24 DEF DriveNext, Body

-----------------------------------------------------------------------------
(* The theorems. *)

\* Every step keeps the invariant.
LEMMA RunStep == RunInv /\ [DriveNext]_driveVars => RunInv'
  <1> SUFFICES ASSUME RunInv, [DriveNext]_driveVars PROVE RunInv'
    OBVIOUS
  <1>1. TypeOK /\ OriginSound /\ VerdictSound /\ VerdictReady
    BY DEF RunInv, VerdictSound
  <1>2. TypeOK'
    BY <1>1, TypeStep
  <1>3. OriginSound'
    BY <1>1, OriginStep
  <1>4. VerdictSound'
    BY <1>1, VerdictStep
  <1>5. ReplaysCounted'
    BY <1>4, ReplaysStep
  <1> QED
    BY <1>2, <1>3, <1>4, <1>5 DEF RunInv

\* The invariant holds of every test function.
LEMMA RunSound == DriveSpec => []RunInv
  BY RunInit, RunStep, PTL DEF DriveSpec

\* What a test function keeps has its type.
THEOREM TypeCorrect == DriveSpec => []TypeOK
  <1>1. RunInv => TypeOK
    BY DEF RunInv
  <1> QED
    BY <1>1, RunSound, PTL

\* Failures are told apart by the panic of their own case; each that the run's result keeps (all
\* that were found, or one for all where report_multiple_failures is off) is printed once and in
\* a replay of its own, the one raised is the one printed last, and a test function returns
\* exactly when its run passed (drive, run_test_case).
THEOREM FailuresAreTold == DriveSpec => []FailuresTold
  <1>1. RunInv => FailuresTold
    <2> SUFFICES ASSUME RunInv PROVE FailuresTold
      OBVIOUS
    <2>1. OriginIsThisCase /\ EachFailureReported
      BY DEF RunInv, OriginSound, ReplaysCounted
    <2>2. ReturnsIffPassed
      BY DEF RunInv, VerdictSound, ReturnsIffPassed, Ended
    <2> QED
      BY <2>1, <2>2 DEF FailuresTold
  <1> QED
    BY <1>1, RunSound, PTL

-----------------------------------------------------------------------------
(* ClientCase: the parts of the invariant. *)

\* The kinds of frames on a client's call stack.
Kinds == {"body", "iteration", "rule", "composite", "custom", "combinator", "filter", "list",
          "sample", "recursive", "subtree", "draw", "repeat", "machine"}
\* The TestCase instances: the body's and the running rule's child.
Instances == {"root", "child"}
\* How far a frame has come.
Stages == {"start", "waiting", "got", "done", "choose", "again", "more", "index", "decide",
           "leaf", "moved", "group", "rule", "last", "joined"}
\* The collections and samples a list or sample frame builds.
DrawKinds == {"", "vec", "hash_set", "hash_map", "btree_set", "btree_map",
              "subsequence", "permutation", "sample"}
\* The draws a combinator or a collection has still to make.
DrawPlans == {<<>>, <<"value">>, <<"value", "value">>, <<"afterwards">>, <<"hidden", "value">>,
              <<"choice">>, <<"choice", "value">>}
\* What a draw keeps and what it prints.
Values == [val : Seq(Nat), text : Seq(Nat)]
\* The frames of a call stack.
Frames == [k : Kinds, i : Instances, quiet : BOOLEAN, stage : Stages, span : BOOLEAN, kind : DrawKinds,
           acc : Values, key : Values, new : Values, plan : DrawPlans,
           n : Int, m : Int, r : Int, base : Int \X Nat, scope : Nat]

\* The kinds of frames that are generators with draws of their own.
Generators == {"combinator", "filter", "list", "sample", "recursive", "subtree", "composite", "custom"}

\* The printed text is the value.
Told(v) == v.text = v.val
\* A frame whose next draw prints nothing: flat_map's source, or a mapped value, printed
\* afterwards.
Hiding(f) == f.plan \in {<<"hidden", "value">>, <<"afterwards">>}
\* A frame whose text reaches the document.
Printing(f) == ~f.quiet /\ f.k \in {"combinator", "filter", "list", "subtree", "recursive", "draw"}

\* What a frame is, by its kind.
SpanFits(f) ==
    /\ f.k \in {"combinator", "list", "sample", "subtree", "composite"} => f.span = TRUE
    /\ f.k = "filter" => (f.span = TRUE <=> f.stage \in {"waiting", "got"})
    /\ f.k \notin {"combinator", "list", "sample", "subtree", "composite", "filter"} => f.span = FALSE
PlanFits(f) ==
    /\ f.k = "list" => f.kind \in DOMAIN Entries /\ f.plan \in {<<>>, <<"value">>, <<"value", "value">>}
    /\ f.k \notin {"combinator", "list"} => f.plan = <<>>
    /\ f.k = "combinator" /\ f.stage \in {"waiting", "got"} =>
          f.plan \notin {<<>>, <<"choice">>, <<"choice", "value">>}
    /\ f.k = "combinator" /\ f.stage = "choose" => f.plan \in {<<"choice">>, <<"choice", "value">>}
    /\ f.k = "list" /\ f.stage \in {"waiting", "got"} => f.plan # <<>>
    /\ f.k = "machine" => f.stage \in {"start", "group", "rule", "joined", "last"}
\* A frame that prints tells what it keeps.
TextFits(f) ==
    /\ Printing(f) => Told(f.acc) /\ Told(f.key) /\ (Hiding(f) \/ Told(f.new))
    /\ f.k = "draw" => f.quiet = FALSE
\* A frame the library can be in.
FrameOK(f) == f \in Frames /\ SpanFits(f) /\ PlanFits(f) /\ TextFits(f)

\* A rule is running: the machine is the second frame and calls it.
OnRule(s) == Len(s) >= 3 /\ s[3].k = "rule"
\* Which positions of the stack a kind of frame may have.
Place(s, n) ==
    /\ s[n].k = "body" <=> n = 1
    /\ s[n].k = "machine" => n = 2
    /\ s[n].k = "rule" => n = 3
    /\ s[n].i = "child" <=> (n >= 3 /\ OnRule(s))
\* The caller of a generator that prints nothing: it prints nothing itself, or hides the draw.
Covers(p) == p.quiet = TRUE \/ p.k \in UserFrames \/ Hiding(p)
\* What a frame needs of its caller.
Above(p, f, n) ==
    /\ f.k = "iteration" => p.k = "repeat" /\ p.stage = "more"
    /\ f.k = "rule" => p.k = "machine" /\ p.stage = "joined"
    /\ f.k = "machine" => p.stage = "moved"
    /\ f.k = "draw" => p.k \in UserFrames /\ p.stage = "waiting"
    /\ f.k \in Generators =>
          /\ p.k # "machine" /\ (p.stage = "waiting" \/ p.k = "recursive")
          /\ f.quiet = TRUE => Covers(p)
    /\ f.k = "subtree" /\ f.m = 0 => f.scope = n - 1 /\ p.k = "recursive"
    /\ f.k = "subtree" => f.scope \in 1..(n - 1)
\* Call stacks the library can reach.
StackOK(s) ==
    /\ s \in Seq(Frames) /\ Len(s) >= 1
    /\ \A n \in 1..Len(s) : FrameOK(s[n]) /\ Place(s, n)
    /\ \A n \in 2..Len(s) : Above(s[n-1], s[n], n)

\* A concluded case is on its way to its verdict.
Conclusion == IF engine = "stop" THEN "StopTest" ELSE "AssumeFailed"
VerdictInv ==
    engine # "live" =>
        \/ result = Verdict[Conclusion]
        \/ result = "" /\ raising = Conclusion
        \/ result = "" /\ raising = "" /\ Top.k \in {"list", "repeat"} /\ Top.stage = "more"

\* The notes are in the document or with the one draw of their instance.
DrawsOf(s, i) == {n \in 1..Len(s) : s[n].k = "draw" /\ s[n].i = i}
NotesInv ==
    /\ \A i \in Instances :
          /\ inst[i].printing_depth \in {0, 1}
          /\ inst[i].printing_depth = 0 <=> DrawsOf(stack, i) = {}
          /\ \A m, n \in DrawsOf(stack, i) : m = n
          /\ inst[i].printing_depth = 0 => inst[i].pending = <<>>
    /\ IsInjective(shown) /\ IsInjective(inst["root"].pending) /\ IsInjective(inst["child"].pending)
    /\ ToSet(shown) \cap ToSet(inst["root"].pending) = {}
    /\ ToSet(shown) \cap ToSet(inst["child"].pending) = {}
    /\ ToSet(inst["root"].pending) \cap ToSet(inst["child"].pending) = {}
    /\ ToSet(shown) \cup ToSet(inst["root"].pending) \cup ToSet(inst["child"].pending) = 1..notes

\* The spans `sp` of a call stack `s` and the counters of the two instances.
FrameOpened(f) == f.span = TRUE \/ (f.k = "machine" /\ f.stage \in {"group", "rule", "joined", "last"})
\* The span of the frame at position n is open.
Holds(sp, n) == \E a \in DOMAIN sp : sp[a] = n
\* Spans are nested as the frames that opened them are.
Increasing(sp) ==
    /\ \A a, b \in DOMAIN sp : a < b => sp[a] < sp[b]
    /\ \A a \in DOMAIN sp : sp[a] # 0
\* The spans open below the running rule, which its child instance does not count.
Offset(s) == IF OnRule(s) THEN s[3].base[2] ELSE 0
\* The depth a recursion, an iteration or a rule remembers is the number of spans open below
\* it.
Based(s, sp) ==
    \A n \in 1..Len(s) :
        /\ s[n].k \in {"recursive", "iteration", "rule"} =>
              /\ s[n].base[2] <= Len(sp)
              /\ \A a \in DOMAIN sp : sp[a] < n <=> a <= s[n].base[2]
        /\ s[n].k = "recursive" => s[n].base[1] = s[n].base[2] - Offset(s)
\* Only the running instance has spans of its own: the child while a rule runs, else the
\* body's.
Counted(s, root, child) == IF OnRule(s) THEN root = Offset(s) ELSE child = 0

\* Client and engine in step: the open spans are those of the frames running.
Good(s, sp, root, child) ==
    /\ Increasing(sp) /\ Based(s, sp) /\ Counted(s, root, child) /\ root + child = Len(sp)
    /\ \A n \in 1..Len(s) : FrameOpened(s[n]) <=> Holds(sp, n)
    /\ \A a \in DOMAIN sp : sp[a] <= Len(s)
\* The same while a payload unwinds: below the top of the stack the open spans are those of the
\* frames; the spans of frames left behind stay open until the payload is caught.
Left(s, sp, root, child, r) ==
    /\ Increasing(sp) /\ Based(s, sp) /\ Counted(s, root, child)
    /\ \A n \in 1..(Len(s) - 1) : FrameOpened(s[n]) <=> Holds(sp, n)
    /\ r # "AttemptMispriced" => root + child = Len(sp)
    /\ r = "AttemptMispriced" =>
          \E n \in {Len(s) - 1, Len(s)} \cap 1..Len(s) :
             /\ s[n].k = "recursive" /\ Len(sp) = s[n].base[2]
             /\ n < Len(s) => s[Len(s)].k = "subtree"
\* While the case goes on, client and engine are in step; while it unwinds, they are below the
\* top.
SpansInv ==
    (engine = "live" /\ result = "" /\ swallowed = FALSE) =>
        LET root == inst["root"].span_depth  child == inst["child"].span_depth
        IN  /\ raising = "" => Good(stack, spans, root, child)
            /\ raising # "" /\ Top.k \notin {"machine", "body"} => Left(stack, spans, root, child, raising)

\* The control payloads of an unwind.
Payloads == {"", "AssumeFailed", "StopTest", "LoopDone", "Panic", "LeafBudgetExceeded", "AttemptMispriced"}
\* The types of what a test case keeps.
CaseTypes ==
    /\ inst \in [Instances -> [span_depth : Int, printing_depth : Int, pending : Seq(Nat)]]
    /\ spans \in Seq(Nat) /\ engine \in {"live", "stop", "assume"} /\ data \in Nat
    /\ raising \in Payloads /\ line \in Values /\ shown \in Seq(Nat) /\ notes \in Nat
    /\ missed \in BOOLEAN /\ swallowed \in BOOLEAN
    /\ result \in {"", "valid", "invalid", "overrun", "interesting"}
    /\ result # "" => raising = ""

-----------------------------------------------------------------------------
(* Call stacks. *)

\* The first and the last of a sequence.
LEMMA EndsOf ==
    ASSUME NEW S, NEW s \in Seq(S), Len(s) >= 1
    PROVE  /\ Last(s) = s[Len(s)] /\ Last(s) \in S
           /\ Front(s) \in Seq(S) /\ Len(Front(s)) = Len(s) - 1 /\ DOMAIN Front(s) = 1..(Len(s) - 1)
           /\ \A n \in 1..(Len(s) - 1) : Front(s)[n] = s[n]
  <1>1. Len(s) \in Nat /\ Len(s) - 1 \in Nat /\ \A n \in 1..Len(s) : s[n] \in S
    OBVIOUS
  <1>2. Front(s) = [n \in 1..(Len(s) - 1) |-> s[n]]
    BY <1>1 DEF Front
  <1>3. \A n \in 1..(Len(s) - 1) : s[n] \in S
    BY <1>1
  <1> QED
    BY <1>1, <1>2, <1>3 DEF Last

\* A sequence with another last element.
LEMMA Relast ==
    ASSUME NEW S, NEW s \in Seq(S), Len(s) >= 1, NEW f \in S
    PROVE  LET t == Append(Front(s), f)
           IN  /\ t \in Seq(S) /\ Len(t) = Len(s) /\ t[Len(s)] = f
               /\ \A n \in 1..(Len(s) - 1) : t[n] = s[n]
  BY EndsOf

\* A sequence with one element more.
LEMMA Longer ==
    ASSUME NEW S, NEW s \in Seq(S), NEW f \in S
    PROVE  LET t == Append(s, f)
           IN  /\ t \in Seq(S) /\ Len(t) = Len(s) + 1 /\ t[Len(s) + 1] = f
               /\ \A n \in 1..Len(s) : t[n] = s[n]
  OBVIOUS

\* A frame that keeps its place and what it means to the frame above it.
Role(f, g) ==
    /\ g.k = f.k /\ g.i = f.i /\ g.quiet = f.quiet /\ g.scope = f.scope
    /\ f.k = "subtree" => g.m = f.m
\* A call stack whose frames keep their roles, and those below the top all they show.
Steps(s, t) ==
    /\ t \in Seq(Frames) /\ Len(t) = Len(s)
    /\ \A n \in 1..Len(s) : Role(s[n], t[n]) /\ FrameOK(t[n])
    /\ \A n \in 1..(Len(s) - 1) : t[n].stage = s[n].stage /\ t[n].plan = s[n].plan

\* What StackOK says of a stack, unpacked.
LEMMA StackFacts ==
    ASSUME NEW s, StackOK(s)
    PROVE  /\ s \in Seq(Frames) /\ Len(s) \in Nat /\ Len(s) >= 1 /\ 1 \in 1..Len(s)
           /\ \A n \in 1..Len(s) : s[n] \in Frames /\ FrameOK(s[n]) /\ Place(s, n)
           /\ \A n \in 2..Len(s) : Above(s[n-1], s[n], n)
  <1>1. s \in Seq(Frames) /\ Len(s) >= 1
    BY Zenon DEF StackOK
  <1>2. Len(s) \in Nat /\ 1 \in 1..Len(s)
    BY <1>1
  <1>3. \A n \in 1..Len(s) : FrameOK(s[n]) /\ Place(s, n)
    BY Zenon DEF StackOK
  <1>4. \A n \in 1..Len(s) : s[n] \in Frames
    BY <1>3, Zenon DEF FrameOK
  <1>5. \A n \in 2..Len(s) : Above(s[n-1], s[n], n)
    BY Zenon DEF StackOK
  <1> QED
    BY <1>1, <1>2, <1>3, <1>4, <1>5

\* A frame may stay above a caller that keeps its role, stage and plan.
LEMMA AboveRole ==
    ASSUME NEW p, NEW f, NEW q, NEW g, NEW n, Above(p, f, n), Role(f, g), Role(p, q),
           q.stage = p.stage, q.plan = p.plan
    PROVE  Above(q, g, n)
  BY DEF Above, Role, Covers, Hiding

\* A frame keeps its place in a stack that has the same kinds and instances.
LEMMA PlaceSame ==
    ASSUME NEW s, NEW t, NEW n \in Nat, Place(s, n), t[n].k = s[n].k, t[n].i = s[n].i,
           n >= 3 => (OnRule(t) <=> OnRule(s))
    PROVE  Place(t, n)
  BY DEF Place

\* What a step keeps of a stack.
LEMMA StepsOK ==
    ASSUME NEW s, NEW t, StackOK(s), Steps(s, t)
    PROVE  /\ StackOK(t) /\ (OnRule(t) <=> OnRule(s))
           /\ \A i \in Instances : DrawsOf(t, i) = DrawsOf(s, i)
  <1>1. Len(s) \in Nat /\ Len(s) >= 1 /\ Len(t) = Len(s) /\ t \in Seq(Frames)
    BY DEF StackOK, Steps
  <1>2. OnRule(t) <=> OnRule(s)
    BY <1>1 DEF Steps, Role, OnRule
  <1>3. \A i \in Instances : DrawsOf(t, i) = DrawsOf(s, i)
    BY <1>1 DEF Steps, Role, DrawsOf
  <1>4. \A n \in 1..Len(t) : FrameOK(t[n]) /\ Place(t, n)
    <2> TAKE n \in 1..Len(t)
    <2>1. Place(s, n) /\ t[n].k = s[n].k /\ t[n].i = s[n].i /\ FrameOK(t[n])
      BY <1>1 DEF Steps, Role, StackOK
    <2> QED
      BY <1>1, <1>2, <2>1, PlaceSame
  <1>5. \A n \in 2..Len(t) : Above(t[n-1], t[n], n)
    <2> TAKE n \in 2..Len(t)
    <2>1. n \in 1..Len(s) /\ n - 1 \in 1..Len(s) /\ n - 1 \in 1..(Len(s) - 1)
      BY <1>1
    <2>2. Above(s[n-1], s[n], n) /\ Role(s[n], t[n]) /\ Role(s[n-1], t[n-1])
          /\ t[n-1].stage = s[n-1].stage /\ t[n-1].plan = s[n-1].plan
      BY <1>1, <2>1 DEF Steps, StackOK
    <2> QED
      BY <2>2, AboveRole
  <1> QED
    BY <1>1, <1>2, <1>3, <1>4, <1>5 DEF StackOK

\* A stack without its innermost frame.
LEMMA PopOK ==
    ASSUME NEW s, StackOK(s), Len(s) >= 2
    PROVE  /\ StackOK(Front(s)) /\ (s[Len(s)].k # "rule" => (OnRule(Front(s)) <=> OnRule(s)))
           /\ Len(Front(s)) = Len(s) - 1 /\ \A n \in 1..(Len(s) - 1) : Front(s)[n] = s[n]
           /\ OnRule(Front(s)) => OnRule(s)
           /\ s[Len(s)].k # "draw" => \A i \in Instances : DrawsOf(Front(s), i) = DrawsOf(s, i)
           /\ \A i \in Instances : DrawsOf(Front(s), i) = DrawsOf(s, i) \ {Len(s)}
  <1> DEFINE t == Front(s)
  <1>1. t \in Seq(Frames) /\ Len(t) = Len(s) - 1 /\ Len(s) \in Nat /\ \A n \in 1..(Len(s) - 1) : t[n] = s[n]
    BY EndsOf, StackFacts
  <1> HIDE DEF t
  <1>2. OnRule(t) => OnRule(s)
    BY <1>1 DEF OnRule
  <1>3. \A n \in 1..Len(t) : n >= 3 => (OnRule(t) <=> OnRule(s))
    BY <1>1 DEF OnRule
  <1>4. s[Len(s)].k # "rule" => (OnRule(t) <=> OnRule(s))
    BY <1>1 DEF OnRule
  <1>5. \A i \in Instances : DrawsOf(t, i) = DrawsOf(s, i) \ {Len(s)}
    BY <1>1 DEF DrawsOf
  <1>6. s[Len(s)].k # "draw" => \A i \in Instances : DrawsOf(t, i) = DrawsOf(s, i)
    BY <1>5 DEF DrawsOf
  <1>7. \A n \in 1..Len(t) : FrameOK(t[n]) /\ Place(t, n)
    <2> TAKE n \in 1..Len(t)
    <2>1. Place(s, n) /\ t[n] = s[n] /\ FrameOK(t[n])
      BY <1>1, StackFacts
    <2> QED
      BY <1>1, <1>3, <2>1, PlaceSame
  <1>8. \A n \in 2..Len(t) : Above(t[n-1], t[n], n)
    <2> TAKE n \in 2..Len(t)
    <2>1. n \in 2..Len(s) /\ n \in 1..(Len(s) - 1) /\ n - 1 \in 1..(Len(s) - 1)
      BY <1>1
    <2>2. t[n] = s[n] /\ t[n-1] = s[n-1] /\ Above(s[n-1], s[n], n)
      BY <1>1, <2>1, StackFacts
    <2> QED
      BY <2>2
  <1> QED
    BY <1>1, <1>2, <1>4, <1>5, <1>6, <1>7, <1>8 DEF StackOK, t

\* A stack with another frame inside.
Enters(s, f) ==
    /\ FrameOK(f) /\ f.k # "body" /\ Above(s[Len(s)], f, Len(s) + 1)
    /\ f.k = "machine" => Len(s) = 1
    /\ IF f.k = "rule" THEN Len(s) = 2 /\ f.i = "child" ELSE f.i = s[Len(s)].i

\* What is known of a frame that may be pushed.
LEMMA EntersFacts ==
    ASSUME NEW s, NEW f, Enters(s, f)
    PROVE  /\ FrameOK(f) /\ f \in Frames /\ f.k # "body" /\ Above(s[Len(s)], f, Len(s) + 1)
           /\ f.k = "machine" => Len(s) = 1
           /\ f.k = "rule" => Len(s) = 2 /\ f.i = "child"
           /\ f.k # "rule" => f.i = s[Len(s)].i
  BY Zenon DEF Enters, FrameOK

\* Pushing a frame that may enter yields a stack the library can be in, with the same frames
\* below.
LEMMA PushOK ==
    ASSUME NEW s, NEW f, StackOK(s), Enters(s, f)
    PROVE  LET t == Append(s, f)
           IN  /\ StackOK(t) /\ Len(t) = Len(s) + 1 /\ t[Len(s) + 1] = f
               /\ \A n \in 1..Len(s) : t[n] = s[n]
               /\ f.k # "rule" => (OnRule(t) <=> OnRule(s))
               /\ f.k = "rule" => OnRule(t) /\ ~OnRule(s)
               /\ f.k # "draw" => \A i \in Instances : DrawsOf(t, i) = DrawsOf(s, i)
               /\ f.k = "draw" => \A i \in Instances :
                     DrawsOf(t, i) = IF i = f.i THEN DrawsOf(s, i) \cup {Len(s) + 1} ELSE DrawsOf(s, i)
  <1> DEFINE t == Append(s, f)
  <1>1. /\ t \in Seq(Frames) /\ Len(t) = Len(s) + 1 /\ t[Len(s) + 1] = f /\ Len(s) \in Nat /\ Len(s) >= 1
        /\ \A n \in 1..Len(s) : t[n] = s[n]
    BY Longer, StackFacts, EntersFacts
  <1> HIDE DEF t
  <1>2. f.k # "rule" => (OnRule(t) <=> OnRule(s))
    BY <1>1 DEF OnRule
  <1>3. f.k = "rule" => OnRule(t) /\ ~OnRule(s)
    BY <1>1, EntersFacts DEF OnRule
  <1>4. f.k # "draw" => \A i \in Instances : DrawsOf(t, i) = DrawsOf(s, i)
    BY <1>1 DEF DrawsOf
  <1>5. f.k = "draw" => \A i \in Instances :
           DrawsOf(t, i) = IF i = f.i THEN DrawsOf(s, i) \cup {Len(s) + 1} ELSE DrawsOf(s, i)
    BY <1>1 DEF DrawsOf
  <1>6. \A n \in 1..Len(s) : n >= 3 => (OnRule(t) <=> OnRule(s))
    BY <1>1 DEF OnRule
  <1>7. \A n \in 1..Len(t) : FrameOK(t[n]) /\ Place(t, n)
    <2> TAKE n \in 1..Len(t)
    <2>1. CASE n \in 1..Len(s)
      <3>1. Place(s, n) /\ t[n] = s[n] /\ FrameOK(t[n])
        BY <1>1, <2>1, StackFacts
      <3> QED
        BY <1>6, <2>1, <3>1, PlaceSame
    <2>2. CASE n = Len(s) + 1
      <3>1. t[n] = f /\ FrameOK(f) /\ f.k # "body" /\ n # 1 /\ n \in Nat
        BY <1>1, <2>2, EntersFacts
      <3>2. (f.k = "machine" => n = 2) /\ (f.k = "rule" <=> n = 3 /\ OnRule(t))
        BY <1>1, <2>2, EntersFacts DEF OnRule
      <3>3. Place(s, Len(s))
        BY <1>1, StackFacts
      <3>4. f.i = "child" <=> (n >= 3 /\ OnRule(t))
        <4>1. CASE f.k = "rule"
          <5>1. Len(s) = 2 /\ f.i = "child"
            BY <4>1, EntersFacts
          <5> QED
            BY <5>1, <4>1, <2>2, <1>3
        <4>2. CASE f.k # "rule"
          <5>1. f.i = "child" <=> Len(s) >= 3 /\ OnRule(s)
            BY <4>2, <3>3, EntersFacts DEF Place
          <5> QED
            BY <5>1, <4>2, <1>2, <1>1, <2>2 DEF OnRule
        <4> QED
          BY <4>1, <4>2
      <3> QED
        BY <3>1, <3>2, <3>4 DEF Place
    <2> QED
      BY <1>1, <2>1, <2>2
  <1>8. \A n \in 2..Len(t) : Above(t[n-1], t[n], n)
    <2> TAKE n \in 2..Len(t)
    <2>1. CASE n <= Len(s)
      BY <1>1, <2>1, StackFacts
    <2>2. CASE n = Len(s) + 1
      BY <1>1, <2>2, EntersFacts
    <2> QED
      BY <1>1, <2>1, <2>2
  <1> QED
    BY <1>1, <1>2, <1>3, <1>4, <1>5, <1>7, <1>8 DEF StackOK, t

-----------------------------------------------------------------------------
(* Spans and their counters. *)

\* A step of frames that opens and closes no span.
Steady(s, t) ==
    /\ Steps(s, t)
    /\ \A n \in 1..Len(s) : (FrameOpened(t[n]) <=> FrameOpened(s[n])) /\ t[n].base = s[n].base
\* A step of frames of which only the top opens or closes its span.
Turns(s, t) ==
    /\ Steps(s, t)
    /\ \A n \in 1..Len(s) : t[n].base = s[n].base
    /\ \A n \in 1..(Len(s) - 1) : FrameOpened(t[n]) <=> FrameOpened(s[n])

\* The spans below the rule are the same in a stack whose frames keep their bases.
LEMMA OffsetSame ==
    ASSUME NEW s, NEW t, StackOK(s), Steps(s, t), \A n \in 1..Len(s) : t[n].base = s[n].base
    PROVE  Offset(t) = Offset(s)
  BY StackFacts, StepsOK DEF Offset, OnRule

\* Bases and the offset are numbers.
LEMMA OffsetTyped ==
    ASSUME NEW s, StackOK(s)
    PROVE  Offset(s) \in Nat /\ \A n \in 1..Len(s) : s[n].base[1] \in Int /\ s[n].base[2] \in Nat
  <1>1. \A n \in 1..Len(s) : s[n].base \in Int \X Nat
    BY StackFacts DEF Frames
  <1>2. OnRule(s) => 3 \in 1..Len(s)
    BY StackFacts DEF OnRule
  <1> QED
    BY <1>1, <1>2 DEF Offset

\* Remembered depths stay right while the spans and the bases stay.
LEMMA BasedSame ==
    ASSUME NEW s, NEW t, NEW sp, StackOK(s), Based(s, sp), Steps(s, t),
           \A n \in 1..Len(s) : t[n].base = s[n].base
    PROVE  Based(t, sp)
  <1>1. Len(t) = Len(s) /\ \A n \in 1..Len(s) : t[n].k = s[n].k
    BY DEF Steps, Role
  <1> QED
    BY <1>1, OffsetSame DEF Based

\* The division of the count among the instances stays while the bases stay.
LEMMA CountedSame ==
    ASSUME NEW s, NEW t, NEW root, NEW child, StackOK(s), Counted(s, root, child), Steps(s, t),
           \A n \in 1..Len(s) : t[n].base = s[n].base
    PROVE  Counted(t, root, child)
  BY OffsetSame, StepsOK DEF Counted

\* Spans stay in step while no frame opens or closes one.
LEMMA GoodSteady ==
    ASSUME NEW s, NEW t, NEW sp, NEW root, NEW child, StackOK(s), Good(s, sp, root, child), Steady(s, t)
    PROVE  Good(t, sp, root, child)
  <1>1. Len(t) = Len(s) /\ Steps(s, t) /\ \A n \in 1..Len(s) : t[n].base = s[n].base
    BY DEF Steady, Steps
  <1>2. \A n \in 1..Len(t) : FrameOpened(t[n]) <=> Holds(sp, n)
    BY <1>1 DEF Steady, Good
  <1> QED
    BY <1>1, <1>2, BasedSame, CountedSame DEF Good

\* The spans with the top's closed or opened.
LEMMA LastIsTop ==
    ASSUME NEW s, NEW sp \in Seq(Nat), NEW root, NEW child, StackOK(s), Good(s, sp, root, child),
           FrameOpened(s[Len(s)])
    PROVE  Len(sp) >= 1 /\ sp[Len(sp)] = Len(s) /\ \A a \in 1..(Len(sp) - 1) : sp[a] < Len(s)
  <1>1. Len(s) \in Nat /\ Len(s) \in 1..Len(s) /\ Len(sp) \in Nat /\ DOMAIN sp = 1..Len(sp)
        /\ \A a \in 1..Len(sp) : sp[a] \in Nat
    BY StackFacts
  <1>2. PICK a \in 1..Len(sp) : sp[a] = Len(s)
    BY <1>1 DEF Good, Holds
  <1>3. \A b \in 1..Len(sp) : sp[b] <= Len(s)
    BY <1>1 DEF Good
  <1>4. \A b, c \in 1..Len(sp) : b < c => sp[b] < sp[c]
    BY <1>1 DEF Good, Increasing
  <1>5. a = Len(sp)
    <2>1. Len(sp) \in 1..Len(sp) /\ sp[Len(sp)] \in Nat /\ sp[Len(sp)] <= sp[a] /\ a <= Len(sp)
      BY <1>1, <1>2, <1>3
    <2>2. a < Len(sp) => sp[a] < sp[Len(sp)]
      BY <2>1, <1>4
    <2>3. sp[a] \in Nat /\ a \in Nat
      BY <1>1
    <2>4. ~(sp[a] < sp[Len(sp)])
      BY <2>1, <2>3
    <2>5. ~(a < Len(sp)) /\ Len(sp) \in Nat
      BY <2>2, <2>4, <1>1
    <2> QED
      BY <2>1, <2>3, <2>5
  <1> QED
    BY <1>1, <1>2, <1>4, <1>5

\* The top frame closes its span and stays (filter's stop_span after a rejected try).
LEMMA GoodClose ==
    ASSUME NEW s, NEW t, NEW sp \in Seq(Nat), NEW root \in Int, NEW child \in Int, StackOK(s),
           Good(s, sp, root, child), Turns(s, t), FrameOpened(s[Len(s)]), ~FrameOpened(t[Len(s)]),
           s[Len(s)].k \notin {"recursive", "iteration", "rule"}
    PROVE  /\ sp # <<>>
           /\ IF OnRule(s) THEN Good(t, Front(sp), root, child - 1) ELSE Good(t, Front(sp), root - 1, child)
  <1>1. /\ Len(s) \in Nat /\ Len(s) >= 1 /\ Len(sp) \in Nat /\ DOMAIN sp = 1..Len(sp)
        /\ \A a \in 1..Len(sp) : sp[a] \in Nat
    BY StackFacts
  <1>2. Len(sp) >= 1 /\ sp[Len(sp)] = Len(s) /\ \A a \in 1..(Len(sp) - 1) : sp[a] < Len(s)
    BY LastIsTop
  <1> DEFINE sq == Front(sp)
  <1>3. /\ sq \in Seq(Nat) /\ Len(sq) = Len(sp) - 1 /\ DOMAIN sq = 1..(Len(sp) - 1)
        /\ \A a \in 1..(Len(sp) - 1) : sq[a] = sp[a]
    BY <1>1, <1>2, EndsOf
  <1> HIDE DEF sq
  <1>4. /\ Len(t) = Len(s) /\ Steps(s, t) /\ \A n \in 1..Len(s) : t[n].base = s[n].base
        /\ \A n \in 1..Len(s) : t[n].k = s[n].k
    BY DEF Turns, Steps, Role
  <1>5. Increasing(sq)
    <2>1. /\ \A a, b \in 1..Len(sp) : a < b => sp[a] < sp[b]
          /\ \A a \in 1..Len(sp) : sp[a] # 0
      BY <1>1 DEF Good, Increasing
    <2>2. \A a \in DOMAIN sq : a \in 1..Len(sp) /\ sq[a] = sp[a]
      <3> TAKE a \in DOMAIN sq
      <3>1. a \in 1..(Len(sp) - 1) /\ sq[a] = sp[a]
        BY <1>3
      <3> QED
        BY <3>1, <1>1
    <2> QED
      BY <2>1, <2>2 DEF Increasing
  <1>6. \A n \in 1..Len(s) : FrameOpened(t[n]) <=> Holds(sq, n)
    <2> TAKE n \in 1..Len(s)
    <2>1. CASE n = Len(s)
      <3>1. \A a \in DOMAIN sq : sq[a] # n
        <4> TAKE a \in DOMAIN sq
        <4>1. a \in 1..(Len(sp) - 1) /\ sq[a] = sp[a] /\ sp[a] < Len(s)
          BY <1>2, <1>3
        <4>2. sp[a] \in Nat
          BY <4>1, <1>1
        <4> QED
          BY <4>1, <4>2, <2>1, <1>1
      <3>2. ~Holds(sq, n)
        BY <3>1 DEF Holds
      <3> QED
        BY <3>2, <2>1
    <2>2. CASE n # Len(s)
      <3>1. n \in 1..(Len(s) - 1) /\ (FrameOpened(t[n]) <=> FrameOpened(s[n]))
        BY <1>1, <2>2 DEF Turns
      <3>2. FrameOpened(s[n]) <=> Holds(sp, n)
        BY DEF Good
      <3>3. Holds(sp, n) <=> Holds(sq, n)
        <4>1. ASSUME NEW a \in DOMAIN sp, sp[a] = n PROVE \E b \in DOMAIN sq : sq[b] = n
          <5>1. a # Len(sp) /\ a \in 1..Len(sp)
            BY <1>1, <1>2, <2>2, <4>1
          <5>2. a \in 1..(Len(sp) - 1)
            BY <5>1, <1>1
          <5> QED
            BY <5>2, <4>1, <1>3
        <4>2. ASSUME NEW a \in DOMAIN sq, sq[a] = n PROVE \E b \in DOMAIN sp : sp[b] = n
          <5>1. a \in 1..(Len(sp) - 1) /\ a \in DOMAIN sp
            BY <1>1, <1>3, <4>2
          <5> QED
            BY <5>1, <4>2, <1>3
        <4> QED
          BY <4>1, <4>2 DEF Holds
      <3> QED
        BY <3>1, <3>2, <3>3
    <2> QED
      BY <2>1, <2>2
  <1>7. \A a \in DOMAIN sq : sq[a] <= Len(t)
    <2> TAKE a \in DOMAIN sq
    <2>1. a \in 1..(Len(sp) - 1) /\ a \in 1..Len(sp) /\ sq[a] = sp[a] /\ sp[a] < Len(s) /\ sp[a] \in Nat
      <3>1. a \in 1..(Len(sp) - 1) /\ sq[a] = sp[a] /\ sp[a] < Len(s)
        BY <1>2, <1>3
      <3>2. a \in 1..Len(sp) /\ sp[a] \in Nat
        BY <3>1, <1>1
      <3> QED
        BY <3>1, <3>2
    <2> QED
      BY <2>1, <1>1, <1>4
  <1>8. Based(s, sq)
    <2> SUFFICES ASSUME NEW n \in 1..Len(s), s[n].k \in {"recursive", "iteration", "rule"}
                 PROVE  s[n].base[2] <= Len(sq) /\ \A a \in DOMAIN sq : sq[a] < n <=> a <= s[n].base[2]
      BY DEF Good, Based
    <2>1. s[n].base[2] <= Len(sp) /\ \A a \in DOMAIN sp : sp[a] < n <=> a <= s[n].base[2]
      BY DEF Good, Based
    <2>2. s[n].base[2] \in Nat
      BY OffsetTyped
    <2>3. ~(sp[Len(sp)] < n)
      BY <1>1, <1>2
    <2>4. s[n].base[2] < Len(sp)
      BY <2>1, <2>2, <2>3, <1>1, <1>2
    <2>5. s[n].base[2] <= Len(sq)
      BY <2>2, <2>4, <1>1, <1>3
    <2>6. ASSUME NEW a \in DOMAIN sq PROVE sq[a] < n <=> a <= s[n].base[2]
      BY <2>1, <1>1, <1>3, a \in DOMAIN sp, sq[a] = sp[a]
    <2> QED
      BY <2>5, <2>6
  <1>9. Based(t, sq)
    BY <1>4, <1>8, BasedSame
  <1>10. Offset(s) \in Nat /\ Offset(t) = Offset(s) /\ (OnRule(t) <=> OnRule(s))
    BY <1>4, OffsetTyped, OffsetSame, StepsOK
  <1>11. Counted(s, root, child) /\ root + child = Len(sp)
    BY DEF Good
  <1>12. CASE OnRule(s)
    <2>1. Counted(t, root, child - 1) /\ root + (child - 1) = Len(sq)
      BY <1>1, <1>3, <1>10, <1>11, <1>12 DEF Counted
    <2> QED
      BY <2>1, <1>2, <1>4, <1>5, <1>6, <1>7, <1>9, <1>12 DEF Good, sq
  <1>13. CASE ~OnRule(s)
    <2>0. child = 0 /\ ~OnRule(t)
      BY <1>10, <1>11, <1>13 DEF Counted
    <2>1. Counted(t, root - 1, child) /\ (root - 1) + child = Len(sq)
      BY <2>0, <1>2, <1>3, <1>11 DEF Counted
    <2> QED
      BY <2>1, <1>2, <1>4, <1>5, <1>6, <1>7, <1>9, <1>13 DEF Good, sq
  <1> QED
    BY <1>12, <1>13

\* A span more, above all others.
LEMMA SpanAdded ==
    ASSUME NEW sp \in Seq(Nat), NEW n \in Nat, n # 0, Increasing(sp), \A a \in DOMAIN sp : sp[a] < n
    PROVE  LET sq == Append(sp, n)
           IN  /\ sq \in Seq(Nat) /\ Len(sq) = Len(sp) + 1 /\ DOMAIN sq = 1..(Len(sp) + 1)
               /\ Len(sp) \in Nat /\ DOMAIN sp = 1..Len(sp)
               /\ sq[Len(sp) + 1] = n /\ \A a \in 1..Len(sp) : sq[a] = sp[a]
               /\ Increasing(sq) /\ Holds(sq, n)
               /\ \A m : m # n => (Holds(sq, m) <=> Holds(sp, m))
  <1> DEFINE sq == Append(sp, n)
  <1>1. /\ sq \in Seq(Nat) /\ Len(sq) = Len(sp) + 1 /\ DOMAIN sq = 1..(Len(sp) + 1) /\ Len(sp) \in Nat
        /\ sq[Len(sp) + 1] = n /\ DOMAIN sp = 1..Len(sp) /\ \A a \in 1..Len(sp) : sq[a] = sp[a]
    OBVIOUS
  <1> HIDE DEF sq
  <1>2. Increasing(sq)
    <2>0. \A a \in DOMAIN sq : sq[a] # 0
      <3> TAKE a \in DOMAIN sq
      <3>1. a \in 1..Len(sp) \/ a = Len(sp) + 1
        BY <1>1
      <3>2. \A b \in DOMAIN sp : sp[b] # 0
        BY DEF Increasing
      <3> QED
        BY <1>1, <3>1, <3>2
    <2> SUFFICES ASSUME NEW a \in DOMAIN sq, NEW b \in DOMAIN sq, a < b PROVE sq[a] < sq[b]
      BY <2>0 DEF Increasing
    <2>1. a \in 1..Len(sp) /\ sq[a] = sp[a] /\ sp[a] < n
      BY <1>1
    <2>2. CASE b = Len(sp) + 1
      BY <2>1, <2>2, <1>1
    <2>3. CASE b # Len(sp) + 1
      <3>1. b \in 1..Len(sp) /\ sq[b] = sp[b]
        BY <1>1, <2>3
      <3> QED
        BY <3>1, <2>1, <1>1 DEF Increasing
    <2> QED
      BY <2>2, <2>3
  <1>3. Holds(sq, n)
    BY <1>1 DEF Holds
  <1>4. \A m : m # n => (Holds(sq, m) <=> Holds(sp, m))
    BY <1>1 DEF Holds
  <1> QED
    BY <1>1, <1>2, <1>3, <1>4 DEF sq

\* Remembered depths stay right when the top frame opens a span.
LEMMA BasedAdded ==
    ASSUME NEW s, NEW sp \in Seq(Nat), NEW top \in Nat, StackOK(s), Based(s, sp), Increasing(sp),
           top >= Len(s), \A a \in DOMAIN sp : sp[a] < top
    PROVE  Based(s, Append(sp, top))
  <1> DEFINE sq == Append(sp, top)
  <1>1. /\ Len(sq) = Len(sp) + 1 /\ DOMAIN sq = 1..(Len(sp) + 1) /\ Len(sp) \in Nat
        /\ DOMAIN sp = 1..Len(sp) /\ sq[Len(sp) + 1] = top /\ \A a \in 1..Len(sp) : sq[a] = sp[a]
    BY SpanAdded
  <1> HIDE DEF sq
  <1> SUFFICES ASSUME NEW n \in 1..Len(s), s[n].k \in {"recursive", "iteration", "rule"}
               PROVE  s[n].base[2] <= Len(sq) /\ \A a \in DOMAIN sq : sq[a] < n <=> a <= s[n].base[2]
    BY DEF Based, sq
  <1>2. s[n].base[2] <= Len(sp) /\ \A a \in DOMAIN sp : sp[a] < n <=> a <= s[n].base[2]
    BY DEF Based
  <1>3. s[n].base[2] \in Nat /\ n <= top
    BY OffsetTyped, StackFacts
  <1>4. \A a \in 1..Len(sp) : sq[a] < n <=> a <= s[n].base[2]
    BY <1>1, <1>2
  <1>5. ~(sq[Len(sp) + 1] < n) /\ ~(Len(sp) + 1 <= s[n].base[2])
    BY <1>1, <1>2, <1>3
  <1> QED
    BY <1>1, <1>2, <1>3, <1>4, <1>5

\* The top frame opens a span and stays (filter's next try).
LEMMA GoodReopen ==
    ASSUME NEW s, NEW t, NEW sp \in Seq(Nat), NEW root \in Int, NEW child \in Int, StackOK(s),
           Good(s, sp, root, child), Turns(s, t), ~FrameOpened(s[Len(s)]), FrameOpened(t[Len(s)]),
           s[Len(s)].k \notin {"recursive", "iteration", "rule"}
    PROVE  IF OnRule(s) THEN Good(t, Append(sp, Len(s)), root, child + 1)
           ELSE Good(t, Append(sp, Len(s)), root + 1, child)
  <1>1. Len(s) \in Nat /\ Len(s) \in 1..Len(s) /\ Len(sp) \in Nat /\ DOMAIN sp = 1..Len(sp)
    BY StackFacts
  <1>2. /\ Len(t) = Len(s) /\ Steps(s, t) /\ \A n \in 1..Len(s) : t[n].base = s[n].base
    BY DEF Turns, Steps
  <1>3. Increasing(sp) /\ \A a \in DOMAIN sp : sp[a] < Len(s)
    <2>1. \A a \in DOMAIN sp : sp[a] <= Len(s) /\ sp[a] # Len(s)
      BY <1>1 DEF Good, Holds
    <2> QED
      BY <2>1, <1>1 DEF Good
  <1> DEFINE sq == Append(sp, Len(s))
  <1>4. /\ Len(sq) = Len(sp) + 1 /\ DOMAIN sq = 1..(Len(sp) + 1) /\ Increasing(sq) /\ Holds(sq, Len(s))
        /\ sq[Len(sp) + 1] = Len(s) /\ \A a \in 1..Len(sp) : sq[a] = sp[a]
        /\ \A m : m # Len(s) => (Holds(sq, m) <=> Holds(sp, m))
    <2>1. Len(s) # 0
      BY <1>1
    <2> QED
      BY <1>1, <1>3, <2>1, SpanAdded
  <1>5. Based(s, sq)
    <2>1. Based(s, sp)
      BY DEF Good
    <2>2. Len(s) >= Len(s)
      BY <1>1
    <2> QED
      BY <2>1, <2>2, <1>1, <1>3, BasedAdded
  <1> HIDE DEF sq
  <1>6. Based(t, sq)
    BY <1>2, <1>5, BasedSame
  <1>7. \A n \in 1..Len(t) : FrameOpened(t[n]) <=> Holds(sq, n)
    <2> TAKE n \in 1..Len(t)
    <2>1. CASE n = Len(s)
      BY <2>1, <1>4
    <2>2. CASE n # Len(s)
      <3>1. n \in 1..(Len(s) - 1) /\ n \in 1..Len(s)
        BY <1>1, <1>2, <2>2
      <3>2. FrameOpened(t[n]) <=> FrameOpened(s[n])
        BY <3>1 DEF Turns
      <3>3. FrameOpened(s[n]) <=> Holds(sp, n)
        BY <3>1 DEF Good
      <3> QED
        BY <3>2, <3>3, <1>4, <2>2
    <2> QED
      BY <2>1, <2>2
  <1>8. \A a \in DOMAIN sq : sq[a] <= Len(t)
    <2> TAKE a \in DOMAIN sq
    <2>1. CASE a = Len(sp) + 1
      BY <2>1, <1>1, <1>2, <1>4
    <2>2. CASE a # Len(sp) + 1
      <3>1. a \in DOMAIN sp /\ sq[a] = sp[a] /\ sp[a] \in Nat
        BY <2>2, <1>1, <1>4
      <3> QED
        BY <3>1, <1>1, <1>2, <1>3
    <2> QED
      BY <2>1, <2>2
  <1>9. Offset(s) \in Nat /\ Offset(t) = Offset(s) /\ (OnRule(t) <=> OnRule(s))
    BY <1>2, OffsetTyped, OffsetSame, StepsOK
  <1>10. Counted(s, root, child) /\ root + child = Len(sp)
    BY DEF Good
  <1>11. CASE OnRule(s)
    <2>1. Counted(t, root, child + 1) /\ root + (child + 1) = Len(sq)
      <3>1. Counted(t, root, child + 1)
        BY <1>9, <1>10, <1>11 DEF Counted
      <3>2. root + (child + 1) = Len(sq)
        BY <1>1, <1>4, <1>10
      <3> QED
        BY <3>1, <3>2
    <2> QED
      BY <2>1, <1>4, <1>6, <1>7, <1>8, <1>11 DEF Good, sq
  <1>12. CASE ~OnRule(s)
    <2>1. Counted(t, root + 1, child) /\ (root + 1) + child = Len(sq)
      <3>1. Counted(t, root + 1, child)
        BY <1>9, <1>10, <1>12 DEF Counted
      <3>2. (root + 1) + child = Len(sq)
        BY <1>1, <1>4, <1>10
      <3> QED
        BY <3>1, <3>2
    <2> QED
      BY <2>1, <1>4, <1>6, <1>7, <1>8, <1>12 DEF Good, sq
  <1> QED
    BY <1>11, <1>12

\* The innermost span closed.
LEMMA SpanClosed ==
    ASSUME NEW s, NEW sp \in Seq(Nat), NEW root, NEW child, StackOK(s), Good(s, sp, root, child),
           FrameOpened(s[Len(s)])
    PROVE  LET sq == Front(sp)
           IN  /\ sp # <<>> /\ sq \in Seq(Nat) /\ Len(sq) = Len(sp) - 1 /\ DOMAIN sq = 1..(Len(sp) - 1)
               /\ Increasing(sq) /\ \A a \in DOMAIN sq : sq[a] < Len(s)
               /\ \A n \in 1..(Len(s) - 1) : Holds(sq, n) <=> FrameOpened(s[n])
               /\ \A n \in 1..(Len(s) - 1) : s[n].k \in {"recursive", "iteration", "rule"} =>
                     s[n].base[2] <= Len(sq) /\ \A a \in DOMAIN sq : sq[a] < n <=> a <= s[n].base[2]
  <1>1. /\ Len(s) \in Nat /\ Len(s) >= 1 /\ Len(sp) \in Nat /\ DOMAIN sp = 1..Len(sp)
        /\ \A a \in 1..Len(sp) : sp[a] \in Nat
    BY StackFacts
  <1>2. Len(sp) >= 1 /\ sp[Len(sp)] = Len(s) /\ \A a \in 1..(Len(sp) - 1) : sp[a] < Len(s)
    BY LastIsTop
  <1> DEFINE sq == Front(sp)
  <1>3. /\ sq \in Seq(Nat) /\ Len(sq) = Len(sp) - 1 /\ DOMAIN sq = 1..(Len(sp) - 1)
        /\ \A a \in 1..(Len(sp) - 1) : sq[a] = sp[a]
    BY <1>1, <1>2, EndsOf
  <1> HIDE DEF sq
  <1>4. \A a \in DOMAIN sq : a \in 1..Len(sp) /\ sq[a] = sp[a] /\ sp[a] \in Nat /\ sq[a] < Len(s)
    <2> TAKE a \in DOMAIN sq
    <2>1. a \in 1..(Len(sp) - 1) /\ a \in 1..Len(sp)
      BY <1>1, <1>3
    <2> QED
      BY <2>1, <1>1, <1>2, <1>3
  <1>5. Increasing(sq)
    <2>1. /\ \A a, b \in 1..Len(sp) : a < b => sp[a] < sp[b]
          /\ \A a \in 1..Len(sp) : sp[a] # 0
      BY <1>1 DEF Good, Increasing
    <2> QED
      BY <2>1, <1>4 DEF Increasing
  <1>6. ASSUME NEW n \in 1..(Len(s) - 1) PROVE Holds(sq, n) <=> FrameOpened(s[n])
    <2>1. FrameOpened(s[n]) <=> Holds(sp, n)
      BY <1>1 DEF Good
    <2>2. ASSUME NEW a \in DOMAIN sp, sp[a] = n PROVE \E b \in DOMAIN sq : sq[b] = n
      <3>1. a # Len(sp) /\ a \in 1..Len(sp)
        BY <1>1, <1>2, <2>2
      <3>2. a \in 1..(Len(sp) - 1)
        BY <3>1, <1>1
      <3> QED
        BY <3>2, <2>2, <1>3
    <2>3. ASSUME NEW a \in DOMAIN sq, sq[a] = n PROVE \E b \in DOMAIN sp : sp[b] = n
      BY <1>1, <1>4, <2>3
    <2> QED
      BY <2>1, <2>2, <2>3 DEF Holds
  <1>7. ASSUME NEW n \in 1..(Len(s) - 1), s[n].k \in {"recursive", "iteration", "rule"}
        PROVE  s[n].base[2] <= Len(sq) /\ \A a \in DOMAIN sq : sq[a] < n <=> a <= s[n].base[2]
    <2>0. n \in 1..Len(s)
      BY <1>1
    <2>1. s[n].base[2] <= Len(sp) /\ \A a \in DOMAIN sp : sp[a] < n <=> a <= s[n].base[2]
      BY <1>7, <2>0 DEF Good, Based
    <2>2. s[n].base[2] \in Nat
      BY <2>0, OffsetTyped
    <2>3. Len(sp) \in DOMAIN sp /\ ~(sp[Len(sp)] < n)
      BY <1>1, <1>2
    <2>4. s[n].base[2] < Len(sp)
      BY <2>1, <2>2, <2>3, <1>1
    <2>5. s[n].base[2] <= Len(sq)
      BY <2>2, <2>4, <1>1, <1>3
    <2>6. ASSUME NEW a \in DOMAIN sq PROVE sq[a] < n <=> a <= s[n].base[2]
      BY <2>1, <1>1, <1>4
    <2> QED
      BY <2>5, <2>6
  <1> QED
    BY <1>2, <1>3, <1>4, <1>5, <1>6, <1>7 DEF sq

\* A frame whose span is open holds no attempt, iteration or rule.
LEMMA OpenedKind ==
    ASSUME NEW f, FrameOK(f), FrameOpened(f)
    PROVE  f.k \notin {"recursive", "iteration", "rule", "body"}
  BY DEF FrameOK, SpanFits, FrameOpened

\* What is popped takes no bases with it.
LEMMA BasedPop ==
    ASSUME NEW s, NEW sp, StackOK(s), Len(s) >= 2, s[Len(s)].k # "rule",
           \A n \in 1..(Len(s) - 1) : s[n].k \in {"recursive", "iteration", "rule"} =>
               s[n].base[2] <= Len(sp) /\ \A a \in DOMAIN sp : sp[a] < n <=> a <= s[n].base[2],
           \A n \in 1..(Len(s) - 1) : s[n].k = "recursive" => s[n].base[1] = s[n].base[2] - Offset(s)
    PROVE  Based(Front(s), sp) /\ Offset(Front(s)) = Offset(s)
  <1>1. /\ Len(Front(s)) = Len(s) - 1 /\ \A n \in 1..(Len(s) - 1) : Front(s)[n] = s[n]
        /\ OnRule(Front(s)) <=> OnRule(s)
    BY PopOK
  <1>2. Len(s) \in Nat
    BY StackFacts
  <1>3. Offset(Front(s)) = Offset(s)
    BY <1>1, <1>2 DEF Offset, OnRule
  <1> QED
    BY <1>1, <1>3 DEF Based

\* The top frame closes its span and returns (stop_span at the end of a draw).
LEMMA GoodClosePop ==
    ASSUME NEW s, NEW sp \in Seq(Nat), NEW root \in Int, NEW child \in Int, StackOK(s),
           Good(s, sp, root, child), Len(s) >= 2, FrameOpened(s[Len(s)])
    PROVE  /\ sp # <<>>
           /\ IF OnRule(s) THEN Good(Front(s), Front(sp), root, child - 1)
              ELSE Good(Front(s), Front(sp), root - 1, child)
  <1> DEFINE sq == Front(sp)
             t == Front(s)
  <1>1. /\ sp # <<>> /\ sq \in Seq(Nat) /\ Len(sq) = Len(sp) - 1 /\ DOMAIN sq = 1..(Len(sp) - 1)
        /\ Increasing(sq) /\ \A a \in DOMAIN sq : sq[a] < Len(s)
        /\ \A n \in 1..(Len(s) - 1) : Holds(sq, n) <=> FrameOpened(s[n])
        /\ \A n \in 1..(Len(s) - 1) : s[n].k \in {"recursive", "iteration", "rule"} =>
              s[n].base[2] <= Len(sq) /\ \A a \in DOMAIN sq : sq[a] < n <=> a <= s[n].base[2]
    BY SpanClosed
  <1> HIDE DEF sq
  <1>2. Len(s) \in Nat /\ Len(s) \in 1..Len(s) /\ Len(sp) \in Nat
    BY StackFacts
  <1>3. s[Len(s)].k # "rule"
    BY <1>2, StackFacts, OpenedKind
  <1>4. /\ Len(t) = Len(s) - 1 /\ \A n \in 1..(Len(s) - 1) : t[n] = s[n]
        /\ OnRule(t) <=> OnRule(s)
    BY <1>3, PopOK
  <1>5. \A n \in 1..(Len(s) - 1) : s[n].k = "recursive" => s[n].base[1] = s[n].base[2] - Offset(s)
    BY <1>2 DEF Good, Based
  <1>6. Based(t, sq) /\ Offset(t) = Offset(s)
    BY <1>1, <1>3, <1>5, BasedPop
  <1> HIDE DEF t
  <1>7. \A n \in 1..Len(t) : FrameOpened(t[n]) <=> Holds(sq, n)
    BY <1>1, <1>4
  <1>8. \A a \in DOMAIN sq : sq[a] <= Len(t)
    <2> TAKE a \in DOMAIN sq
    <2>1. sq[a] < Len(s)
      BY <1>1
    <2>2. sq[a] \in Nat
      <3>1. sq \in Seq(Nat) /\ a \in DOMAIN sq
        BY <1>1
      <3> QED
        BY <3>1
    <2> QED
      BY <2>1, <2>2, <1>2, <1>4
  <1>9. Counted(s, root, child) /\ root + child = Len(sp) /\ Offset(s) \in Nat
    BY OffsetTyped DEF Good
  <1>10. CASE OnRule(s)
    <2>1. Counted(t, root, child - 1) /\ root + (child - 1) = Len(sq)
      BY <1>1, <1>2, <1>4, <1>6, <1>9, <1>10 DEF Counted
    <2> QED
      BY <2>1, <1>1, <1>6, <1>7, <1>8, <1>10 DEF Good, sq, t
  <1>11. CASE ~OnRule(s)
    <2>1. Counted(t, root - 1, child) /\ (root - 1) + child = Len(sq)
      BY <1>1, <1>2, <1>4, <1>6, <1>9, <1>11 DEF Counted
    <2> QED
      BY <2>1, <1>1, <1>6, <1>7, <1>8, <1>11 DEF Good, sq, t
  <1> QED
    BY <1>1, <1>10, <1>11 DEF sq

\* Every span is below a frame that has none.
LEMMA SpansBelow ==
    ASSUME NEW s, NEW sp \in Seq(Nat), NEW root, NEW child, StackOK(s), Good(s, sp, root, child),
           ~FrameOpened(s[Len(s)])
    PROVE  \A a \in DOMAIN sp : sp[a] < Len(s)
  <1>1. Len(s) \in Nat /\ Len(s) \in 1..Len(s) /\ ~Holds(sp, Len(s)) /\ \A a \in DOMAIN sp : sp[a] \in Nat
    BY StackFacts DEF Good
  <1>2. \A a \in DOMAIN sp : sp[a] <= Len(s) /\ sp[a] # Len(s)
    BY <1>1 DEF Good, Holds
  <1> QED
    BY <1>1, <1>2

\* A frame without a span returns.
LEMMA GoodPop ==
    ASSUME NEW s, NEW sp \in Seq(Nat), NEW root \in Int, NEW child \in Int, StackOK(s),
           Good(s, sp, root, child), Len(s) >= 2, ~FrameOpened(s[Len(s)]), s[Len(s)].k # "rule"
    PROVE  Good(Front(s), sp, root, child)
  <1> DEFINE t == Front(s)
  <1>1. \A a \in DOMAIN sp : sp[a] < Len(s) /\ sp[a] \in Nat
    BY SpansBelow
  <1>2. Len(s) \in Nat /\ Len(s) \in 1..Len(s) /\ Len(sp) \in Nat
    BY StackFacts
  <1>3. /\ Len(t) = Len(s) - 1 /\ \A n \in 1..(Len(s) - 1) : t[n] = s[n]
        /\ OnRule(t) <=> OnRule(s)
    BY PopOK
  <1>4. Based(t, sp) /\ Offset(t) = Offset(s)
    <2>1. \A n \in 1..(Len(s) - 1) : s[n].k \in {"recursive", "iteration", "rule"} =>
             s[n].base[2] <= Len(sp) /\ \A a \in DOMAIN sp : sp[a] < n <=> a <= s[n].base[2]
      BY <1>2 DEF Good, Based
    <2>2. \A n \in 1..(Len(s) - 1) : s[n].k = "recursive" => s[n].base[1] = s[n].base[2] - Offset(s)
      BY <1>2 DEF Good, Based
    <2> QED
      BY <2>1, <2>2, BasedPop
  <1> HIDE DEF t
  <1>5. \A n \in 1..Len(t) : FrameOpened(t[n]) <=> Holds(sp, n)
    BY <1>2, <1>3 DEF Good
  <1>6. \A a \in DOMAIN sp : sp[a] <= Len(t)
    BY <1>1, <1>2, <1>3
  <1>7. Counted(t, root, child) /\ root + child = Len(sp)
    BY <1>3, <1>4 DEF Good, Counted
  <1> QED
    BY <1>4, <1>5, <1>6, <1>7 DEF Good, t

\* What is pushed brings a base of its own.
LEMMA BasedPush ==
    ASSUME NEW s, NEW f, NEW sp \in Seq(Nat), StackOK(s), Enters(s, f), f.k # "rule", Based(s, sp),
           f.k \in {"recursive", "iteration"} =>
               f.base[2] = Len(sp) /\ \A a \in DOMAIN sp : sp[a] < Len(s) + 1,
           f.k = "recursive" => f.base[1] = f.base[2] - Offset(s)
    PROVE  Based(Append(s, f), sp) /\ Offset(Append(s, f)) = Offset(s)
  <1> DEFINE t == Append(s, f)
  <1>1. /\ Len(t) = Len(s) + 1 /\ t[Len(s) + 1] = f /\ \A n \in 1..Len(s) : t[n] = s[n]
        /\ OnRule(t) <=> OnRule(s)
    BY PushOK
  <1>2. Len(s) \in Nat /\ Len(sp) \in Nat /\ DOMAIN sp = 1..Len(sp)
    BY StackFacts
  <1> HIDE DEF t
  <1>3. Offset(t) = Offset(s)
    BY <1>1, <1>2 DEF Offset, OnRule
  <1>4. ASSUME NEW n \in 1..Len(t), t[n].k \in {"recursive", "iteration", "rule"}
        PROVE  /\ t[n].base[2] <= Len(sp) /\ \A a \in DOMAIN sp : sp[a] < n <=> a <= t[n].base[2]
               /\ t[n].k = "recursive" => t[n].base[1] = t[n].base[2] - Offset(t)
    <2>1. CASE n \in 1..Len(s)
      BY <1>1, <1>3, <1>4, <2>1 DEF Based
    <2>2. CASE n = Len(s) + 1
      <3>1. t[n] = f /\ f.k \in {"recursive", "iteration"}
        BY <1>1, <1>4, <2>2
      <3>2. f.base[2] = Len(sp) /\ \A a \in DOMAIN sp : sp[a] < n /\ a <= Len(sp)
        BY <1>2, <2>2, <3>1
      <3> QED
        BY <1>2, <1>3, <3>1, <3>2
    <2> QED
      BY <1>1, <1>2, <2>1, <2>2
  <1> QED
    BY <1>3, <1>4 DEF Based, t

\* A call to a frame without a span, which remembers the depth it starts at if it ever cuts
\* back.
LEMMA GoodPush ==
    ASSUME NEW s, NEW f, NEW sp \in Seq(Nat), NEW root \in Int, NEW child \in Int, StackOK(s),
           Enters(s, f), Good(s, sp, root, child), ~FrameOpened(f), f.k # "rule",
           f.k \in {"recursive", "iteration"} => f.base[2] = Len(sp),
           f.k = "recursive" => f.base[1] = f.base[2] - Offset(s)
    PROVE  Good(Append(s, f), sp, root, child)
  <1> DEFINE t == Append(s, f)
  <1>1. /\ Len(t) = Len(s) + 1 /\ t[Len(s) + 1] = f /\ \A n \in 1..Len(s) : t[n] = s[n]
        /\ OnRule(t) <=> OnRule(s)
    BY PushOK
  <1>2. Len(s) \in Nat /\ Len(sp) \in Nat /\ \A a \in DOMAIN sp : sp[a] \in Nat /\ sp[a] <= Len(s)
    BY StackFacts DEF Good
  <1>3. \A a \in DOMAIN sp : sp[a] < Len(s) + 1
    BY <1>2
  <1>4. Based(t, sp) /\ Offset(t) = Offset(s)
    <2>1. Based(s, sp)
      BY DEF Good
    <2> QED
      BY <1>3, <2>1, BasedPush
  <1> HIDE DEF t
  <1>5. \A n \in 1..Len(t) : FrameOpened(t[n]) <=> Holds(sp, n)
    <2> TAKE n \in 1..Len(t)
    <2>1. CASE n \in 1..Len(s)
      BY <1>1, <2>1 DEF Good
    <2>2. CASE n = Len(s) + 1
      BY <1>1, <1>2, <1>3, <2>2 DEF Holds
    <2> QED
      BY <1>1, <1>2, <2>1, <2>2
  <1>6. \A a \in DOMAIN sp : sp[a] <= Len(t)
    BY <1>1, <1>2
  <1>7. Counted(t, root, child) /\ root + child = Len(sp)
    BY <1>1, <1>4 DEF Good, Counted
  <1> QED
    BY <1>4, <1>5, <1>6, <1>7 DEF Good, t

\* A call to a frame that opens its span first (start_span).
LEMMA GoodOpen ==
    ASSUME NEW s, NEW f, NEW sp \in Seq(Nat), NEW root \in Int, NEW child \in Int, StackOK(s),
           Enters(s, f), Good(s, sp, root, child), FrameOpened(f)
    PROVE  LET t == Append(s, f)  sq == Append(sp, Len(s) + 1)
           IN  IF OnRule(s) THEN Good(t, sq, root, child + 1) ELSE Good(t, sq, root + 1, child)
  <1> DEFINE t == Append(s, f)
             sq == Append(sp, Len(s) + 1)
  <1>0. f.k \notin {"recursive", "iteration", "rule"}
    BY EntersFacts, OpenedKind
  <1>1. /\ Len(t) = Len(s) + 1 /\ t[Len(s) + 1] = f /\ \A n \in 1..Len(s) : t[n] = s[n]
        /\ OnRule(t) <=> OnRule(s)
    BY <1>0, PushOK
  <1>2. Len(s) \in Nat /\ Len(sp) \in Nat /\ \A a \in DOMAIN sp : sp[a] \in Nat /\ sp[a] <= Len(s)
    BY StackFacts DEF Good
  <1>3. \A a \in DOMAIN sp : sp[a] < Len(s) + 1
    BY <1>2
  <1>4. /\ sq \in Seq(Nat) /\ Len(sq) = Len(sp) + 1 /\ DOMAIN sq = 1..(Len(sp) + 1) /\ DOMAIN sp = 1..Len(sp)
        /\ sq[Len(sp) + 1] = Len(s) + 1 /\ \A a \in 1..Len(sp) : sq[a] = sp[a]
        /\ Increasing(sq) /\ Holds(sq, Len(s) + 1)
        /\ \A m : m # Len(s) + 1 => (Holds(sq, m) <=> Holds(sp, m))
    <2>1. Increasing(sp) /\ Len(s) + 1 \in Nat
      BY <1>2 DEF Good
    <2> QED
      BY <1>3, <2>1, SpanAdded
  <1>5. Based(s, sq)
    <2>1. Based(s, sp) /\ Increasing(sp) /\ Len(s) + 1 \in Nat /\ Len(s) + 1 >= Len(s)
      BY <1>2 DEF Good
    <2> QED
      BY <1>3, <2>1, BasedAdded
  <1> HIDE DEF sq
  <1>6. Based(t, sq) /\ Offset(t) = Offset(s)
    BY <1>0, <1>4, <1>5, BasedPush
  <1> HIDE DEF t
  <1>7. \A n \in 1..Len(t) : FrameOpened(t[n]) <=> Holds(sq, n)
    <2> TAKE n \in 1..Len(t)
    <2>1. CASE n \in 1..Len(s)
      <3>1. n # Len(s) + 1 /\ t[n] = s[n]
        BY <1>1, <1>2, <2>1
      <3>2. FrameOpened(s[n]) <=> Holds(sp, n)
        BY <2>1 DEF Good
      <3> QED
        BY <3>1, <3>2, <1>4
    <2>2. CASE n = Len(s) + 1
      BY <1>1, <1>4, <2>2
    <2> QED
      BY <1>1, <1>2, <2>1, <2>2
  <1>8. \A a \in DOMAIN sq : sq[a] <= Len(t)
    <2> TAKE a \in DOMAIN sq
    <2>1. CASE a = Len(sp) + 1
      BY <2>1, <1>1, <1>2, <1>4
    <2>2. CASE a # Len(sp) + 1
      <3>1. a \in DOMAIN sp /\ sq[a] = sp[a] /\ sp[a] \in Nat
        BY <2>2, <1>2, <1>4
      <3> QED
        BY <3>1, <1>1, <1>2
    <2> QED
      BY <2>1, <2>2
  <1>9. Counted(s, root, child) /\ root + child = Len(sp) /\ Offset(s) \in Nat
    BY OffsetTyped DEF Good
  <1>10. CASE OnRule(s)
    <2>1. Counted(t, root, child + 1) /\ root + (child + 1) = Len(sq)
      BY <1>1, <1>2, <1>4, <1>6, <1>9, <1>10 DEF Counted
    <2> QED
      BY <2>1, <1>4, <1>6, <1>7, <1>8, <1>10 DEF Good, sq, t
  <1>11. CASE ~OnRule(s)
    <2>1. Counted(t, root + 1, child) /\ (root + 1) + child = Len(sq)
      BY <1>1, <1>2, <1>4, <1>6, <1>9, <1>11 DEF Counted
    <2> QED
      BY <2>1, <1>4, <1>6, <1>7, <1>8, <1>11 DEF Good, sq, t
  <1> QED
    BY <1>10, <1>11

\* A rule begins on a fresh child.
LEMMA GoodRule ==
    ASSUME NEW s, NEW f, NEW sp \in Seq(Nat), NEW root \in Int, NEW child \in Int, StackOK(s),
           Enters(s, f), Good(s, sp, root, child), f.k = "rule", f.base[2] = Len(sp), f.span = FALSE
    PROVE  Good(Append(s, f), sp, root, 0)
  <1> DEFINE t == Append(s, f)
  <1>1. /\ Len(t) = Len(s) + 1 /\ t[Len(s) + 1] = f /\ \A n \in 1..Len(s) : t[n] = s[n]
        /\ OnRule(t) /\ ~OnRule(s) /\ Len(s) = 2
    BY PushOK, EntersFacts
  <1>2. Len(sp) \in Nat /\ DOMAIN sp = 1..Len(sp) /\ \A a \in DOMAIN sp : sp[a] \in Nat /\ sp[a] <= 2
    BY <1>1 DEF Good
  <1>3. s[1].k = "body" /\ s[2].k = "machine"
    <2>1. Place(s, 1) /\ Above(s[2], f, 3)
      BY <1>1, StackFacts, EntersFacts
    <2> QED
      BY <2>1 DEF Place, Above
  <1> HIDE DEF t
  <1>4. t[1] = s[1] /\ t[2] = s[2] /\ t[3] = f /\ Len(t) = 3
    BY <1>1
  <1>5. Offset(t) = Len(sp)
    BY <1>1, <1>4 DEF Offset
  <1>6. ASSUME NEW n \in 1..Len(t), t[n].k \in {"recursive", "iteration", "rule"}
        PROVE  /\ t[n].base[2] <= Len(sp) /\ \A a \in DOMAIN sp : sp[a] < n <=> a <= t[n].base[2]
               /\ t[n].k = "recursive" => t[n].base[1] = t[n].base[2] - Offset(t)
    <2>1. n = 3
      BY <1>3, <1>4, <1>6
    <2> QED
      BY <1>2, <1>4, <2>1
  <1>7. Based(t, sp)
    BY <1>6 DEF Based
  <1>8. \A n \in 1..Len(t) : FrameOpened(t[n]) <=> Holds(sp, n)
    <2>1. FrameOpened(s[1]) <=> Holds(sp, 1)
      BY <1>1 DEF Good
    <2>2. FrameOpened(s[2]) <=> Holds(sp, 2)
      BY <1>1 DEF Good
    <2>3. ~FrameOpened(f) /\ ~Holds(sp, 3)
      BY <1>2 DEF FrameOpened, Holds
    <2> QED
      BY <1>4, <2>1, <2>2, <2>3
  <1>9. Counted(t, root, 0) /\ root + 0 = Len(sp)
    <2>1. child = 0 /\ root + child = Len(sp)
      BY <1>1 DEF Good, Counted
    <2> QED
      BY <2>1, <1>1, <1>5 DEF Counted
  <1>10. \A a \in DOMAIN sp : sp[a] <= Len(t)
    BY <1>2, <1>4
  <1> QED
    BY <1>7, <1>8, <1>9, <1>10 DEF Good, t

-----------------------------------------------------------------------------
(* The invariant, and the steps that keep it whatever frame takes them. *)

\* An attempt is mispriced at the root of its recursive draw.
MispricedInv ==
    raising = "AttemptMispriced" =>
        \/ Top.k = "recursive"
        \/ Top.k = "subtree" /\ Len(stack) >= 2 /\ stack[Len(stack) - 1].k = "recursive"
\* The invariant.
CaseInv ==
    /\ CaseTypes /\ StackOK(stack) /\ VerdictInv /\ NotesInv /\ SpansInv
    /\ MispricedInv /\ LineIsTheValue

\* The span counters of the two instances.
Root == inst["root"].span_depth
Child == inst["child"].span_depth
\* A stack, its spans and the counters a step may move to while the case goes on.
Fits(t, sp, root, child) ==
    /\ StackOK(t) /\ \A i \in Instances : DrawsOf(t, i) = DrawsOf(stack, i)
    /\ swallowed = FALSE => Good(t, sp, root, child)
\* The case neither unwinds nor has ended.
Free == raising = "" /\ result = ""

\* A positive number has a predecessor.
LEMMA OneLess == ASSUME NEW n \in Nat, n > 0 PROVE n - 1 \in Nat
  OBVIOUS

\* A number that is not below one and not one is two or more.
LEMMA AtLeastTwo == ASSUME NEW n \in Nat, n >= 1, n # 1 PROVE n >= 2 /\ n \in 2..n
  OBVIOUS

\* What the invariant says of the frame on top.
LEMMA TopFacts ==
    ASSUME CaseInv
    PROVE  /\ StackOK(stack) /\ stack \in Seq(Frames) /\ Len(stack) \in Nat /\ Len(stack) >= 1
           /\ Len(stack) \in 1..Len(stack)
           /\ Top = stack[Len(stack)] /\ Top \in Frames /\ FrameOK(Top) /\ Place(stack, Len(stack))
           /\ Top.i = "child" <=> OnRule(stack)
           /\ Top.i \in Instances
           /\ Top.k # "body" => Len(stack) >= 2 /\ Above(stack[Len(stack) - 1], Top, Len(stack))
           /\ Root \in Int /\ Child \in Int /\ spans \in Seq(Nat)
           /\ CaseTypes /\ VerdictInv /\ NotesInv /\ SpansInv /\ MispricedInv /\ LineIsTheValue
  <1>1. StackOK(stack) /\ CaseTypes /\ VerdictInv /\ NotesInv /\ SpansInv /\ MispricedInv /\ LineIsTheValue
    BY DEF CaseInv
  <1>2. /\ stack \in Seq(Frames) /\ Len(stack) \in Nat /\ Len(stack) >= 1
        /\ \A n \in 1..Len(stack) : stack[n] \in Frames /\ FrameOK(stack[n]) /\ Place(stack, n)
        /\ \A n \in 2..Len(stack) : Above(stack[n-1], stack[n], n)
    BY <1>1, StackFacts
  <1>3. Len(stack) \in 1..Len(stack) /\ Top = stack[Len(stack)]
    BY <1>2 DEF Top, Last
  <1>4. Top \in Frames /\ FrameOK(Top) /\ Place(stack, Len(stack))
    BY <1>2, <1>3
  <1>5. Top.i \in Instances
    BY <1>4 DEF Frames
  <1>6. (Top.i = "child" <=> OnRule(stack)) /\ (Top.k = "body" <=> Len(stack) = 1)
    BY <1>3, <1>4 DEF Place, OnRule
  <1>7. Top.k # "body" => Len(stack) >= 2 /\ Above(stack[Len(stack) - 1], Top, Len(stack))
    <2> SUFFICES ASSUME Top.k # "body" PROVE Len(stack) >= 2 /\ Above(stack[Len(stack) - 1], Top, Len(stack))
      OBVIOUS
    <2>1. Len(stack) # 1 /\ Len(stack) \in Nat /\ Len(stack) >= 1
      BY <1>2, <1>6
    <2>2. Len(stack) \in 2..Len(stack) /\ Len(stack) >= 2
      BY <2>1, AtLeastTwo
    <2> QED
      BY <2>2, <1>2, <1>3
  <1>8. Root \in Int /\ Child \in Int /\ spans \in Seq(Nat)
    BY <1>1 DEF CaseTypes, Root, Child, Instances
  <1> QED
    BY <1>1, <1>2, <1>3, <1>4, <1>5, <1>6, <1>7, <1>8

\* While the case goes on, client and engine are in step.
LEMMA GoodNow ==
    ASSUME CaseInv, Free, engine = "live", swallowed = FALSE
    PROVE  Good(stack, spans, Root, Child)
  BY TopFacts DEF SpansInv, Free, Root, Child

\* A case that goes on is live, except where an answer is still to be read.
LEMMA LiveNow ==
    ASSUME CaseInv, Free, ~(Top.k \in {"list", "repeat"} /\ Top.stage = "more")
    PROVE  engine = "live"
  BY TopFacts DEF VerdictInv, Free, Conclusion, Verdict

\* A concluded case that unwinds carries its conclusion.
LEMMA LiveRaising ==
    ASSUME CaseInv, result = "", raising # "", engine # "live"
    PROVE  raising = Conclusion
  BY TopFacts DEF VerdictInv, Conclusion, Verdict

\* The notes stay where they are while no draw begins or ends and none is made.
LEMMA NotesSame ==
    ASSUME NotesInv, shown' = shown, notes' = notes,
           \A i \in Instances : /\ inst'[i].printing_depth = inst[i].printing_depth
                                /\ inst'[i].pending = inst[i].pending
                                /\ DrawsOf(stack', i) = DrawsOf(stack, i)
    PROVE  NotesInv'
  BY DEF NotesInv, Instances

\* A payload raised on top of a stack in step leaves what is below it in step.
LEMMA GoodLeft ==
    ASSUME NEW s, NEW sp, NEW root, NEW child, NEW r, StackOK(s), Good(s, sp, root, child), r # "AttemptMispriced"
    PROVE  Left(s, sp, root, child, r)
  <1>1. \A n \in 1..(Len(s) - 1) : n \in 1..Len(s)
    BY StackFacts
  <1> QED
    BY <1>1 DEF Good, Left

\* A step that calls nothing and leaves the stack in order keeps the invariant.
LEMMA SilentKeeps ==
    ASSUME CaseInv, Free, engine = "live", NEW t, stack' = t, Fits(t, spans, Root, Child),
           UNCHANGED <<inst, spans, engine, data, raising, doc, seen, result>>
    PROVE  CaseInv'
  <1>1. StackOK(stack') /\ \A i \in Instances : DrawsOf(stack', i) = DrawsOf(stack, i)
    BY DEF Fits
  <1>2. CaseTypes'
    BY TopFacts DEF CaseTypes, doc, seen
  <1>3. NotesInv'
    BY <1>1, TopFacts, NotesSame DEF doc
  <1>4. SpansInv'
    BY DEF SpansInv, Fits, Free, Root, Child, seen
  <1>5. VerdictInv' /\ MispricedInv' /\ LineIsTheValue'
    BY TopFacts DEF VerdictInv, MispricedInv, Free, doc, LineIsTheValue
  <1> QED
    BY <1>1, <1>2, <1>3, <1>4, <1>5 DEF CaseInv

\* The engine's refusal, and a draw on exhausted data.
LEMMA RefusedKeeps ==
    ASSUME CaseInv, Free, UNCHANGED <<stack, spans, data, doc, seen, result>>,
           inst' \in [Instances -> [span_depth : Int, printing_depth : Int, pending : Seq(Nat)]],
           \A i \in Instances : inst'[i].printing_depth = inst[i].printing_depth
                                /\ inst'[i].pending = inst[i].pending,
           \/ Refused /\ engine' = engine
           \/ engine' = "stop" /\ raising' = "StopTest"
    PROVE  CaseInv'
  <1>1. engine' # "live" /\ engine' \in {"stop", "assume"} /\ raising' = Conclusion'
        /\ raising' \in {"StopTest", "AssumeFailed"}
    BY TopFacts DEF Refused, Conclusion, CaseTypes
  <1>2. CaseTypes'
    BY <1>1, TopFacts DEF CaseTypes, doc, seen, Free, Payloads
  <1>3. NotesInv'
    BY TopFacts, NotesSame DEF doc
  <1>4. SpansInv' /\ VerdictInv' /\ MispricedInv' /\ LineIsTheValue'
    BY <1>1, TopFacts DEF SpansInv, VerdictInv, MispricedInv, Free, doc, LineIsTheValue
  <1> QED
    BY <1>2, <1>3, <1>4, TopFacts DEF CaseInv

\* A call that records a choice keeps the invariant, refused, exhausting the data or answered.
LEMMA ChoiceKeeps ==
    ASSUME CaseInv, Free, NEW t, Choice(t), engine = "live" => Fits(t, spans, Root, Child)
    PROVE  CaseInv'
  <1>1. CASE stack' = stack /\ data' = data /\ ((Refused /\ engine' = engine) \/ (engine' = "stop" /\ raising' = "StopTest"))
    <2>1. inst' = inst /\ inst \in [Instances -> [span_depth : Int, printing_depth : Int, pending : Seq(Nat)]]
          /\ UNCHANGED <<spans, doc, seen, result>>
      BY TopFacts DEF CaseTypes, Choice
    <2> QED
      BY <1>1, <2>1, RefusedKeeps
  <1>2. CASE engine = "live" /\ data > 0 /\ data' = data - 1 /\ stack' = t /\ UNCHANGED <<engine, raising>>
    <2>0. UNCHANGED <<inst, spans, doc, seen, result>> /\ Fits(t, spans, Root, Child)
      BY <1>2 DEF Choice
    <2>1. StackOK(stack') /\ \A i \in Instances : DrawsOf(stack', i) = DrawsOf(stack, i)
      BY <1>2, <2>0 DEF Fits
    <2>2. CaseTypes'
      <3>0. data \in Nat
        BY TopFacts DEF CaseTypes
      <3>1. data - 1 \in Nat
        BY <1>2, <3>0, OneLess
      <3> QED
        BY <1>2, <2>0, <3>1, TopFacts DEF CaseTypes, doc, seen
    <2>3. NotesInv'
      BY <2>0, <2>1, TopFacts, NotesSame DEF doc
    <2>4. SpansInv'
      BY <1>2, <2>0 DEF SpansInv, Fits, Free, Root, Child, seen
    <2>5. VerdictInv' /\ MispricedInv' /\ LineIsTheValue'
      BY <1>2, <2>0, TopFacts DEF VerdictInv, MispricedInv, Free, doc, LineIsTheValue
    <2> QED
      BY <2>1, <2>2, <2>3, <2>4, <2>5 DEF CaseInv
  <1>3. \/ Refused /\ UNCHANGED <<stack, engine, data>>
        \/ engine' = "stop" /\ raising' = "StopTest" /\ UNCHANGED <<stack, data>>
        \/ engine = "live" /\ data > 0 /\ data' = data - 1 /\ stack' = t /\ UNCHANGED <<engine, raising>>
    BY DEF Choice
  <1> QED
    BY <1>1, <1>2, <1>3

\* The counters after a call that left `depth` in the instance of the top.
RootNow(depth) == IF Top.i = "root" THEN depth ELSE Root
ChildNow(depth) == IF Top.i = "child" THEN depth ELSE Child

\* A new span count of the running instance changes nothing else of the instances.
LEMMA DepthSet ==
    ASSUME CaseInv, NEW depth \in Int, inst' = [inst EXCEPT ![Top.i].span_depth = depth]
    PROVE  /\ inst' \in [Instances -> [span_depth : Int, printing_depth : Int, pending : Seq(Nat)]]
           /\ \A i \in Instances : inst'[i].printing_depth = inst[i].printing_depth
                                   /\ inst'[i].pending = inst[i].pending
           /\ Root' = RootNow(depth) /\ Child' = ChildNow(depth)
  <1>1. inst \in [Instances -> [span_depth : Int, printing_depth : Int, pending : Seq(Nat)]]
        /\ Top.i \in Instances
    BY TopFacts DEF CaseTypes
  <1> QED
    BY <1>1 DEF Root, Child, RootNow, ChildNow, Instances

\* A call that records nothing keeps the invariant, refused or answered.
LEMMA CallKeeps ==
    ASSUME CaseInv, Free, NEW t, NEW open, NEW depth \in Int, Call(t, open, depth),
           engine = "live" => open \in Seq(Nat) /\ Fits(t, open, RootNow(depth), ChildNow(depth))
    PROVE  CaseInv'
  <1>0. inst' = [inst EXCEPT ![Top.i].span_depth = depth] /\ UNCHANGED <<engine, data, doc, seen, result>>
    BY DEF Call
  <1>1. /\ inst' \in [Instances -> [span_depth : Int, printing_depth : Int, pending : Seq(Nat)]]
        /\ \A i \in Instances : inst'[i].printing_depth = inst[i].printing_depth
                                /\ inst'[i].pending = inst[i].pending
        /\ Root' = RootNow(depth) /\ Child' = ChildNow(depth)
    BY <1>0, DepthSet
  <1>2. CASE Refused /\ UNCHANGED <<stack, spans>>
    BY <1>0, <1>1, <1>2, RefusedKeeps
  <1>3. CASE engine = "live" /\ stack' = t /\ spans' = open /\ UNCHANGED raising
    <2>0. open \in Seq(Nat) /\ Fits(t, open, RootNow(depth), ChildNow(depth))
      BY <1>3
    <2>1. StackOK(stack') /\ \A i \in Instances : DrawsOf(stack', i) = DrawsOf(stack, i)
      BY <1>3, <2>0 DEF Fits
    <2>2. CaseTypes'
      BY <1>0, <1>1, <1>3, <2>0, TopFacts DEF CaseTypes, doc, seen
    <2>3. NotesInv'
      BY <1>0, <1>1, <2>1, TopFacts, NotesSame DEF doc
    <2>4. swallowed' = FALSE => Good(stack', spans', Root', Child')
      BY <1>0, <1>1, <1>3, <2>0 DEF Fits, seen
    <2>5. SpansInv'
      BY <1>0, <1>3, <2>4 DEF SpansInv, Free, Root, Child
    <2>6. VerdictInv' /\ MispricedInv' /\ LineIsTheValue'
      BY <1>0, <1>3, TopFacts DEF VerdictInv, MispricedInv, Free, doc, LineIsTheValue
    <2> QED
      BY <2>1, <2>2, <2>3, <2>5, <2>6 DEF CaseInv
  <1> QED
    BY <1>2, <1>3 DEF Call

\* Raising a payload while the engine is live keeps the invariant.
LEMMA RaiseKeeps ==
    ASSUME CaseInv, Free, engine = "live", raising' \in Payloads \ {"", "AttemptMispriced"},
           UNCHANGED <<stack, inst, spans, engine, data, doc, seen, result>>
    PROVE  CaseInv'
  <1>1. CaseTypes'
    BY TopFacts DEF CaseTypes, doc, seen, Free
  <1>2. NotesInv'
    BY TopFacts, NotesSame DEF doc
  <1>3. SpansInv'
    <2> SUFFICES ASSUME swallowed = FALSE
                 PROVE  Left(stack, spans, Root, Child, raising')
      BY DEF SpansInv, Root, Child, Free, seen
    <2> QED
      BY GoodNow, GoodLeft, TopFacts
  <1>4. VerdictInv' /\ MispricedInv' /\ LineIsTheValue'
    BY TopFacts DEF VerdictInv, MispricedInv, Free, doc, LineIsTheValue
  <1> QED
    BY <1>1, <1>2, <1>3, <1>4, TopFacts DEF CaseInv

-----------------------------------------------------------------------------
(* Steps of the innermost frame. *)

\* A frame changed in place: its role, its base and its span are as they were.
Kept(f, g) ==
    FrameOK(g) /\ Role(f, g) /\ g.base = f.base /\ (FrameOpened(g) <=> FrameOpened(f))

\* Another innermost frame in the same role.
LEMMA LastTurns ==
    ASSUME NEW s, StackOK(s), NEW f, FrameOK(f), Role(s[Len(s)], f), f.base = s[Len(s)].base
    PROVE  LET t == Append(Front(s), f)
           IN  /\ Turns(s, t) /\ t[Len(s)] = f /\ Len(t) = Len(s)
               /\ \A n \in 1..(Len(s) - 1) : t[n] = s[n]
  <1> DEFINE t == Append(Front(s), f)
  <1>1. f \in Frames /\ s \in Seq(Frames) /\ Len(s) \in Nat /\ Len(s) >= 1
    BY StackFacts DEF FrameOK
  <1>2. /\ t \in Seq(Frames) /\ Len(t) = Len(s) /\ t[Len(s)] = f
        /\ \A n \in 1..(Len(s) - 1) : t[n] = s[n]
    BY <1>1, Relast
  <1> HIDE DEF t
  <1>3. \A n \in 1..Len(s) : s[n] \in Frames /\ FrameOK(s[n])
    BY StackFacts
  <1>4. ASSUME NEW n \in 1..Len(s)
        PROVE  Role(s[n], t[n]) /\ FrameOK(t[n]) /\ t[n].base = s[n].base
    <2>1. CASE n = Len(s)
      BY <2>1, <1>2
    <2>2. CASE n # Len(s)
      <3>1. n \in 1..(Len(s) - 1)
        BY <2>2, <1>1
      <3>2. t[n] = s[n]
        BY <3>1, <1>2
      <3> QED
        BY <3>2, <1>3 DEF Role
    <2> QED
      BY <2>1, <2>2
  <1>5. ASSUME NEW n \in 1..(Len(s) - 1)
        PROVE  t[n].stage = s[n].stage /\ t[n].plan = s[n].plan /\ (FrameOpened(t[n]) <=> FrameOpened(s[n]))
    BY <1>2
  <1>6. Steps(s, t)
    BY <1>2, <1>4, <1>5 DEF Steps
  <1> QED
    BY <1>2, <1>4, <1>5, <1>6 DEF Turns, t

\* Another top frame that shows the same leaves the stack steady.
LEMMA LastSteady ==
    ASSUME NEW s, StackOK(s), NEW f, Kept(s[Len(s)], f)
    PROVE  Steady(s, Append(Front(s), f))
  <1>1. /\ FrameOK(f) /\ Role(s[Len(s)], f) /\ f.base = s[Len(s)].base
        /\ FrameOpened(f) <=> FrameOpened(s[Len(s)])
    BY DEF Kept
  <1> DEFINE t == Append(Front(s), f)
  <1>2. Turns(s, t) /\ t[Len(s)] = f /\ Len(s) \in Nat
    BY <1>1, LastTurns, StackFacts
  <1> HIDE DEF t
  <1>3. Steps(s, t) /\ \A n \in 1..Len(s) : t[n].base = s[n].base
    BY <1>2 DEF Turns
  <1>4. ASSUME NEW n \in 1..Len(s) PROVE FrameOpened(t[n]) <=> FrameOpened(s[n])
    <2>1. CASE n = Len(s)
      BY <2>1, <1>1, <1>2
    <2>2. CASE n # Len(s)
      <3>1. n \in 1..(Len(s) - 1)
        BY <2>2, <1>2
      <3> QED
        BY <3>1, <1>2 DEF Turns
    <2> QED
      BY <2>1, <2>2
  <1> QED
    BY <1>3, <1>4 DEF Steady, t

\* Another top frame with the same role leaves the frames below as they are.
LEMMA TopTurns ==
    ASSUME CaseInv, NEW f, FrameOK(f), Role(Top, f), f.base = Top.base
    PROVE  /\ Turns(stack, SetTop(f)) /\ SetTop(f)[Len(stack)] = f /\ Len(SetTop(f)) = Len(stack)
           /\ \A n \in 1..(Len(stack) - 1) : SetTop(f)[n] = stack[n]
  <1>1. StackOK(stack) /\ Top = stack[Len(stack)]
    BY TopFacts
  <1> QED
    BY <1>1, LastTurns DEF SetTop, Rest

\* Another top frame that shows the same leaves the call stack steady.
LEMMA TopSteady ==
    ASSUME CaseInv, NEW f, Kept(Top, f)
    PROVE  Steady(stack, SetTop(f))
  <1>1. StackOK(stack) /\ Top = stack[Len(stack)]
    BY TopFacts
  <1> QED
    BY <1>1, LastSteady DEF SetTop, Rest

\* A call stack that stays steady fits the open spans.
LEMMA FitsSteady ==
    ASSUME CaseInv, Free, engine = "live", NEW t, Steady(stack, t)
    PROVE  Fits(t, spans, Root, Child)
  <1>1. StackOK(stack) /\ Steps(stack, t)
    BY TopFacts DEF Steady
  <1>2. swallowed = FALSE => Good(t, spans, Root, Child)
    BY <1>1, GoodNow, GoodSteady
  <1> QED
    BY <1>1, <1>2, StepsOK DEF Fits

\* Another top frame that shows the same fits the open spans.
LEMMA FitsTop ==
    ASSUME CaseInv, Free, engine = "live", NEW f, Kept(Top, f)
    PROVE  Fits(SetTop(f), spans, Root, Child)
  BY TopSteady, FitsSteady

\* A frame at another stage.
LEMMA StageKept ==
    ASSUME NEW f, FrameOK(f), NEW x \in Stages, f.k \notin {"filter", "combinator", "list", "machine"}
    PROVE  Kept(f, [f EXCEPT !.stage = x])
  BY DEF Kept, FrameOK, Frames, SpanFits, PlanFits, TextFits, Role, FrameOpened, Hiding, Printing

\* The machine's loop moves between its stages with its group's span open.
LEMMA MachineKept ==
    ASSUME NEW f, FrameOK(f), f.k = "machine", f.stage \in {"group", "rule", "joined", "last"},
           NEW x \in {"group", "rule", "joined", "last"}
    PROVE  Kept(f, [f EXCEPT !.stage = x])
  BY DEF Kept, FrameOK, Frames, SpanFits, PlanFits, TextFits, Role, FrameOpened, Hiding, Printing, Stages

\* The plans of a combinator and what is left of them.
LEMMA PlanFacts ==
    /\ <<"value">> # <<>> /\ Head(<<"value">>) = "value" /\ Tail(<<"value">>) = <<>>
    /\ <<"value", "value">> # <<>> /\ Head(<<"value", "value">>) = "value" /\ Tail(<<"value", "value">>) = <<"value">>
    /\ <<"afterwards">> # <<>> /\ Head(<<"afterwards">>) = "afterwards" /\ Tail(<<"afterwards">>) = <<>>
    /\ <<"hidden", "value">> # <<>> /\ Head(<<"hidden", "value">>) = "hidden" /\ Tail(<<"hidden", "value">>) = <<"value">>
    /\ <<"choice">> # <<>> /\ Head(<<"choice">>) = "choice" /\ Tail(<<"choice">>) = <<>>
    /\ <<"choice", "value">> # <<>> /\ Head(<<"choice", "value">>) = "choice" /\ Tail(<<"choice", "value">>) = <<"value">>
  <1>1. <<"value">> # <<>> /\ Head(<<"value">>) = "value" /\ Tail(<<"value">>) = <<>>
    OBVIOUS
  <1>2. <<"value", "value">> # <<>> /\ Head(<<"value", "value">>) = "value" /\ Tail(<<"value", "value">>) = <<"value">>
    OBVIOUS
  <1>3. <<"afterwards">> # <<>> /\ Head(<<"afterwards">>) = "afterwards" /\ Tail(<<"afterwards">>) = <<>>
    OBVIOUS
  <1>4. <<"hidden", "value">> # <<>> /\ Head(<<"hidden", "value">>) = "hidden" /\ Tail(<<"hidden", "value">>) = <<"value">>
    OBVIOUS
  <1>5. <<"choice">> # <<>> /\ Head(<<"choice">>) = "choice" /\ Tail(<<"choice">>) = <<>>
    OBVIOUS
  <1>6. <<"choice", "value">> # <<>> /\ Head(<<"choice", "value">>) = "choice" /\ Tail(<<"choice", "value">>) = <<"value">>
    OBVIOUS
  <1> QED
    BY <1>1, <1>2, <1>3, <1>4, <1>5, <1>6, Zenon

\* The draws left after the first.
LEMMA PlanTails ==
    ASSUME NEW p \in DrawPlans, p # <<>>
    PROVE  /\ Tail(p) \in {<<>>, <<"value">>} /\ PlanStage(Tail(p)) \in {"done", "waiting"}
           /\ PlanStage(Tail(p)) = "waiting" => Tail(p) = <<"value">>
  <1>1. PlanStage(<<>>) = "done" /\ PlanStage(<<"value">>) = "waiting"
    BY PlanFacts, Zenon DEF PlanStage
  <1>2. Tail(p) \in {<<>>, <<"value">>}
    <2>1. p \in {<<"value">>, <<"value", "value">>, <<"afterwards">>, <<"hidden", "value">>, <<"choice">>, <<"choice", "value">>}
      BY Zenon DEF DrawPlans
    <2> QED
      BY <2>1, PlanFacts, Zenon
  <1>3. CASE Tail(p) = <<>>
    BY <1>1, <1>3
  <1>4. CASE Tail(p) = <<"value">>
    BY <1>1, <1>4
  <1> QED
    BY <1>2, <1>3, <1>4

\* A combinator that has chosen goes on with the rest of its plan.
LEMMA ChoiceKept ==
    ASSUME NEW f, FrameOK(f), f.k = "combinator", f.stage = "choose"
    PROVE  Kept(f, [f EXCEPT !.plan = Tail(@), !.stage = PlanStage(Tail(f.plan))])
  <1>1. f \in Frames /\ f.plan \in {<<"choice">>, <<"choice", "value">>} /\ SpanFits(f) /\ TextFits(f)
    BY DEF FrameOK, PlanFits
  <1>2. f.plan \in DrawPlans /\ f.plan # <<>>
    BY <1>1, PlanFacts, Zenon DEF DrawPlans
  <1> DEFINE p == Tail(f.plan)
             x == PlanStage(p)
             g == [f EXCEPT !.plan = p, !.stage = x]
  <1>3. p \in {<<>>, <<"value">>} /\ x \in {"done", "waiting"} /\ (x = "waiting" => p = <<"value">>)
    BY <1>2, PlanTails
  <1> HIDE DEF p, x
  <1>4. p \in DrawPlans /\ x \in Stages /\ p \notin {<<"hidden", "value">>, <<"afterwards">>}
    BY <1>3 DEF DrawPlans, Stages
  <1>5. /\ g \in Frames /\ g.k = f.k /\ g.i = f.i /\ g.quiet = f.quiet /\ g.span = f.span /\ g.acc = f.acc
        /\ g.key = f.key /\ g.new = f.new /\ g.base = f.base /\ g.scope = f.scope /\ g.m = f.m
        /\ g.plan = p /\ g.stage = x
    BY <1>1, <1>4 DEF Frames
  <1> HIDE DEF g
  <1>6. Hiding(f) = FALSE
    BY <1>1 DEF Hiding
  <1>7. SpanFits(g) /\ TextFits(g) /\ Role(f, g) /\ (FrameOpened(g) <=> FrameOpened(f))
    BY <1>1, <1>5, <1>6 DEF SpanFits, TextFits, Printing, Role, FrameOpened
  <1>8. PlanFits(g)
    <2>1. p # <<"choice">> /\ p # <<"choice", "value">> /\ (x = "waiting" => p # <<>>) /\ x # "got" /\ x # "choose"
      BY <1>3
    <2> QED
      BY <1>5, <2>1 DEF PlanFits
  <1> QED
    BY <1>5, <1>7, <1>8 DEF Kept, FrameOK, g, p, x

-----------------------------------------------------------------------------
(* Values and their texts. *)

\* Joining two values that are told yields one that is told.
LEMMA Joins ==
    ASSUME NEW a \in Values, NEW b \in Values
    PROVE  Join(a, b) \in Values /\ (Told(a) /\ Told(b) => Told(Join(a, b)))
  <1>1. a.val \in Seq(Nat) /\ a.text \in Seq(Nat) /\ b.val \in Seq(Nat) /\ b.text \in Seq(Nat)
    BY DEF Values
  <1>2. a.val \o b.val \in Seq(Nat) /\ a.text \o b.text \in Seq(Nat)
    BY <1>1
  <1> QED
    BY <1>2 DEF Values, Join, Told

\* Nothing kept is told as nothing.
LEMMA NothingTold == Nothing \in Values /\ Told(Nothing)
  BY DEF Nothing, Values, Told

\* A value printed as a whole is told, unless nothing prints.
LEMMA Wholes ==
    ASSUME NEW v \in Seq(Nat), Top.quiet \in BOOLEAN
    PROVE  Whole(v) \in Values /\ Whole(v).val = v /\ (Top.quiet = FALSE => Told(Whole(v)))
  BY DEF Whole, Values, Told

\* What the top frame holds has its type.
LEMMA TopValues ==
    ASSUME CaseInv
    PROVE  /\ Top.acc \in Values /\ Top.key \in Values /\ Top.new \in Values /\ Top.acc.val \in Seq(Nat)
           /\ Top.new.val \in Seq(Nat) /\ Top.quiet \in BOOLEAN /\ Top.plan \in DrawPlans /\ Top.stage \in Stages
           /\ Top.n \in Int /\ Top.m \in Int /\ Top.r \in Int
           /\ SpanFits(Top) /\ PlanFits(Top) /\ TextFits(Top)
           /\ Top.k \in Kinds /\ Top.base \in Int \X Nat /\ Top.scope \in Nat /\ Top.i \in Instances
           /\ Top.span \in BOOLEAN
  <1>1. Top \in Frames /\ FrameOK(Top)
    BY TopFacts
  <1>2. SpanFits(Top) /\ PlanFits(Top) /\ TextFits(Top)
    BY <1>1 DEF FrameOK
  <1>3. Top.acc \in Values /\ Top.key \in Values /\ Top.new \in Values
    BY <1>1 DEF Frames
  <1>4. Top.acc.val \in Seq(Nat) /\ Top.new.val \in Seq(Nat)
    BY <1>3 DEF Values
  <1>5. Top.quiet \in BOOLEAN /\ Top.plan \in DrawPlans /\ Top.stage \in Stages
        /\ Top.n \in Int /\ Top.m \in Int /\ Top.r \in Int
    BY <1>1 DEF Frames
  <1>6. Top.k \in Kinds /\ Top.base \in Int \X Nat /\ Top.scope \in Nat /\ Top.i \in Instances /\ Top.span \in BOOLEAN
    BY <1>1 DEF Frames
  <1> QED
    BY <1>2, <1>3, <1>4, <1>5, <1>6

\* A frame of another plan, with another value.
LEMMA CombinatorKept ==
    ASSUME NEW f, FrameOK(f), f.k = "combinator", NEW p \in {<<>>, <<"value">>}, NEW x \in {"done", "waiting"},
           x = "waiting" => p = <<"value">>, NEW w \in Values, Printing(f) => Told(w)
    PROVE  Kept(f, [f EXCEPT !.plan = p, !.stage = x, !.new = Nothing, !.acc = w])
  <1> DEFINE g == [f EXCEPT !.plan = p, !.stage = x, !.new = Nothing, !.acc = w]
  <1>1. f \in Frames /\ SpanFits(f) /\ TextFits(f)
    BY DEF FrameOK
  <1>2. p \in DrawPlans /\ x \in Stages /\ p \notin {<<"hidden", "value">>, <<"afterwards">>}
    BY DEF DrawPlans, Stages
  <1>3. /\ g \in Frames /\ g.k = f.k /\ g.i = f.i /\ g.quiet = f.quiet /\ g.span = f.span /\ g.acc = w
        /\ g.key = f.key /\ g.new = Nothing /\ g.base = f.base /\ g.scope = f.scope /\ g.m = f.m
        /\ g.plan = p /\ g.stage = x
    BY <1>1, <1>2, NothingTold DEF Frames
  <1> HIDE DEF g
  <1>4. SpanFits(g) /\ Role(f, g) /\ (FrameOpened(g) <=> FrameOpened(f))
    BY <1>1, <1>3 DEF SpanFits, Role, FrameOpened
  <1>5. TextFits(g)
    BY <1>1, <1>3, NothingTold DEF TextFits, Printing
  <1>6. PlanFits(g)
    <2>1. p # <<"choice">> /\ p # <<"choice", "value">> /\ (x = "waiting" => p # <<>>) /\ x # "got" /\ x # "choose"
      BY PlanFacts
    <2> QED
      BY <1>3, <2>1 DEF PlanFits
  <1> QED
    BY <1>3, <1>4, <1>5, <1>6 DEF Kept, FrameOK, g

\* map, flat_map, one_of, optional: what the inner draw returned is kept, or hidden and
\* dropped.
LEMMA CombinatorGotKeeps ==
    ASSUME CaseInv, CombinatorGot
    PROVE  CaseInv'
  <1>1. Free /\ Top.k = "combinator" /\ Top.stage = "got"
    BY DEF CombinatorGot, Calling, Free
  <1>2. engine = "live"
    BY <1>1, LiveNow
  <1> DEFINE p == Tail(Top.plan)
             x == PlanStage(p)
             w == CASE Head(Top.plan) = "hidden" -> Top.acc
                    [] Head(Top.plan) = "afterwards" -> Join(Top.acc, Whole(Top.new.val))
                    [] OTHER -> Join(Top.acc, Top.new)
             g == [Top EXCEPT !.plan = p, !.stage = x, !.new = Nothing, !.acc = w]
  <1>3. Top.plan \in DrawPlans /\ Top.plan \notin {<<>>, <<"choice">>, <<"choice", "value">>}
    BY <1>1, TopValues DEF PlanFits
  <1>4. p \in {<<>>, <<"value">>} /\ x \in {"done", "waiting"} /\ (x = "waiting" => p = <<"value">>)
    BY <1>3, PlanTails
  <1>5. w \in Values /\ (Printing(Top) => Told(w))
    <2>1. Join(Top.acc, Top.new) \in Values /\ Join(Top.acc, Whole(Top.new.val)) \in Values /\ Top.acc \in Values
          /\ (Told(Top.acc) /\ Told(Top.new) => Told(Join(Top.acc, Top.new)))
          /\ (Told(Top.acc) /\ Top.quiet = FALSE => Told(Join(Top.acc, Whole(Top.new.val))))
      BY TopValues, Wholes, Joins
    <2>2. Printing(Top) => Top.quiet = FALSE /\ Told(Top.acc) /\ (Hiding(Top) \/ Told(Top.new))
      BY TopValues DEF Printing, TextFits
    <2>3. Hiding(Top) => Head(Top.plan) \in {"hidden", "afterwards"}
      BY PlanFacts, Zenon DEF Hiding
    <2> QED
      BY <2>1, <2>2, <2>3
  <1>6. stack' = SetTop(g) /\ UNCHANGED <<inst, spans, engine, data, raising, doc, seen, result>>
    BY Zenon DEF CombinatorGot, Moved
  <1> HIDE DEF p, x, w
  <1>7. Kept(Top, g)
    BY <1>1, <1>4, <1>5, TopFacts, CombinatorKept
  <1> HIDE DEF g
  <1> QED
    BY <1>1, <1>2, <1>6, <1>7, FitsTop, SilentKeeps

\* one_of and optional choose a branch.
LEMMA CombinatorChoiceKeeps ==
    ASSUME CaseInv, CombinatorChoice
    PROVE  CaseInv'
  <1>1. Free /\ Top.k = "combinator" /\ Top.stage = "choose"
    BY DEF CombinatorChoice, Calling, Free
  <1> DEFINE g == [Top EXCEPT !.plan = Tail(@), !.stage = PlanStage(Tail(Top.plan))]
  <1>2. Choice(SetTop(g))
    BY DEF CombinatorChoice
  <1>3. Kept(Top, g)
    BY <1>1, TopFacts, ChoiceKept
  <1> HIDE DEF g
  <1> QED
    BY <1>1, <1>2, <1>3, FitsTop, ChoiceKeeps

-----------------------------------------------------------------------------
(* Collections and samples. *)

\* An element of a collection is one draw, an entry of a map two.
LEMMA EntryPlans ==
    /\ \A kind \in DOMAIN Entries : Entries[kind] \in {<<"value">>, <<"value", "value">>}
  BY DEF Entries, VecEntry, SetEntry, MapEntry, BTreeSetEntry, BTreeMapEntry

\* A collection at another decision or entry.
LEMMA ListKept ==
    ASSUME NEW f, FrameOK(f), f.k = "list", NEW p \in {<<>>, <<"value">>, <<"value", "value">>}, NEW x \in Stages,
           x \in {"waiting", "got"} => p # <<>>, NEW n \in Int
    PROVE  Kept(f, [f EXCEPT !.stage = x, !.plan = p, !.n = n])
  <1> DEFINE g == [f EXCEPT !.stage = x, !.plan = p, !.n = n]
  <1>1. f \in Frames /\ SpanFits(f) /\ TextFits(f) /\ PlanFits(f)
    BY DEF FrameOK
  <1>2. p \in DrawPlans /\ p \notin {<<"hidden", "value">>, <<"afterwards">>}
    BY DEF DrawPlans
  <1>3. /\ g \in Frames /\ g.k = f.k /\ g.i = f.i /\ g.quiet = f.quiet /\ g.span = f.span /\ g.acc = f.acc
        /\ g.key = f.key /\ g.new = f.new /\ g.base = f.base /\ g.scope = f.scope /\ g.m = f.m
        /\ g.plan = p /\ g.stage = x /\ g.kind = f.kind
    BY <1>1, <1>2 DEF Frames
  <1> HIDE DEF g
  <1>4. SpanFits(g) /\ Role(f, g) /\ (FrameOpened(g) <=> FrameOpened(f))
    BY <1>1, <1>3 DEF SpanFits, Role, FrameOpened
  <1>5. ~Hiding(f)
    BY <1>1 DEF Hiding, PlanFits
  <1>6. TextFits(g)
    BY <1>1, <1>3, <1>5 DEF TextFits, Printing
  <1>7. PlanFits(g)
    BY <1>1, <1>3 DEF PlanFits
  <1> QED
    BY <1>3, <1>4, <1>6, <1>7 DEF Kept, FrameOK, g

\* A collection with an element, a key or neither more.
LEMMA EntryKept ==
    ASSUME NEW f, FrameOK(f), f.k = "list", NEW p \in {<<"value">>, <<"value", "value">>},
           NEW x \in {"waiting", "more"}, NEW a \in Values, NEW y \in Values,
           Printing(f) => Told(a) /\ Told(y), NEW g,
           g \in Frames, g.k = f.k, g.i = f.i, g.quiet = f.quiet, g.span = f.span, g.acc = a, g.key = y,
           g.new = Nothing, g.plan = p, g.stage = x, g.base = f.base, g.scope = f.scope, g.kind = f.kind
    PROVE  Kept(f, g)
  <1>1. f \in Frames /\ SpanFits(f) /\ TextFits(f) /\ PlanFits(f)
    BY DEF FrameOK
  <1>2. p \notin {<<"hidden", "value">>, <<"afterwards">>} /\ p # <<>>
    <2>1. Head(p) = "value" /\ p # <<>>
      BY PlanFacts, Zenon
    <2> QED
      BY <2>1, PlanFacts
  <1>4. SpanFits(g) /\ Role(f, g) /\ (FrameOpened(g) <=> FrameOpened(f))
    BY <1>1 DEF SpanFits, Role, FrameOpened
  <1>6. TextFits(g)
    BY <1>1, NothingTold DEF TextFits, Printing
  <1>7. PlanFits(g)
    BY <1>1, <1>2 DEF PlanFits
  <1> QED
    BY <1>4, <1>6, <1>7 DEF Kept, FrameOK

\* The plan of a collection that has an entry to draw.
LEMMA ListPlan ==
    ASSUME CaseInv, Top.k = "list", Top.stage = "got"
    PROVE  /\ Top.plan \in {<<"value">>, <<"value", "value">>} /\ ~Hiding(Top)
           /\ Len(Top.plan) > 1 => Tail(Top.plan) = <<"value">>
           /\ Printing(Top) => Told(Top.acc) /\ Told(Top.key) /\ Told(Top.new)
  <1>1. Top.plan \in {<<"value">>, <<"value", "value">>}
    BY TopValues DEF PlanFits
  <1>2. ~Hiding(Top)
    BY <1>1 DEF Hiding
  <1>3. Printing(Top) => Told(Top.acc) /\ Told(Top.key) /\ Told(Top.new)
    BY <1>2, TopValues DEF TextFits
  <1>4. Len(<<"value">>) = 1 /\ Tail(<<"value", "value">>) = <<"value">>
    OBVIOUS
  <1>5. Len(Top.plan) > 1 => Tail(Top.plan) = <<"value">>
    <2>1. CASE Top.plan = <<"value">>
      BY <1>4, <2>1
    <2>2. CASE Top.plan = <<"value", "value">>
      BY <1>4, <2>2
    <2> QED
      BY <1>1, <2>1, <2>2
  <1> QED
    BY <1>1, <1>2, <1>3, <1>5

\* A collection asks for another element.
LEMMA CollectionMoreKeeps ==
    ASSUME CaseInv, CollectionMore
    PROVE  CaseInv'
  <1>1. Free /\ Top.k = "list" /\ Top.stage = "more"
    BY DEF CollectionMore, Calling, Free
  <1> DEFINE p == Entries[Top.kind]
  <1>2. PICK go \in BOOLEAN :
           Choice(SetTop([Top EXCEPT !.stage = IF go THEN "waiting" ELSE "done", !.plan = p,
                                     !.n = IF go THEN @ + 1 ELSE @]))
    BY DEF CollectionMore, More
  <1>3. p \in {<<"value">>, <<"value", "value">>} /\ p # <<>>
    <2>1. Top.kind \in DOMAIN Entries
      BY <1>1, TopValues DEF PlanFits
    <2>2. p \in {<<"value">>, <<"value", "value">>}
      BY <2>1, EntryPlans
    <2> QED
      BY <2>2, PlanFacts, Zenon
  <1> DEFINE x == IF go THEN "waiting" ELSE "done"
             n == IF go THEN Top.n + 1 ELSE Top.n
             g == [Top EXCEPT !.stage = x, !.plan = p, !.n = n]
  <1>4. x \in Stages /\ n \in Int
    BY TopValues DEF Stages
  <1>5. Choice(SetTop(g))
    BY <1>2
  <1> HIDE DEF p, x, n
  <1>6. Kept(Top, g)
    BY <1>1, <1>3, <1>4, TopFacts, ListKept
  <1> HIDE DEF g
  <1> QED
    BY <1>1, <1>5, <1>6, FitsTop, ChoiceKeeps

\* A map has drawn a fresh key and goes on to its value.
LEMMA KeyFreshKeeps ==
    ASSUME CaseInv, KeyFresh
    PROVE  CaseInv'
  <1>1. Free /\ Top.k = "list" /\ Top.stage = "got" /\ Len(Top.plan) > 1
    BY DEF KeyFresh, Calling, Free
  <1>2. engine = "live"
    BY <1>1, LiveNow
  <1> DEFINE g == [Top EXCEPT !.key = Top.new, !.new = Nothing, !.plan = Tail(@), !.stage = "waiting"]
  <1>3. stack' = SetTop(g) /\ UNCHANGED <<inst, spans, engine, data, raising, doc, seen, result>>
    BY Zenon DEF KeyFresh, Moved
  <1>4. Tail(Top.plan) = <<"value">> /\ <<"value">> \in DrawPlans /\ "waiting" \in Stages
    BY <1>1, ListPlan DEF DrawPlans, Stages
  <1>5. /\ g \in Frames /\ g.k = Top.k /\ g.i = Top.i /\ g.quiet = Top.quiet /\ g.span = Top.span
        /\ g.acc = Top.acc /\ g.key = Top.new /\ g.new = Nothing /\ g.plan = <<"value">> /\ g.stage = "waiting"
        /\ g.base = Top.base /\ g.scope = Top.scope /\ g.kind = Top.kind
    BY <1>4, TopFacts, TopValues, NothingTold DEF Frames
  <1> HIDE DEF g
  <1>6. Kept(Top, g)
    BY <1>1, <1>5, TopFacts, TopValues, ListPlan, EntryKept
  <1> QED
    BY <1>1, <1>2, <1>3, <1>6, FitsTop, SilentKeeps

\* A collection keeps the element it has drawn and prints it.
LEMMA ElementKeptKeeps ==
    ASSUME CaseInv, ElementKept
    PROVE  CaseInv'
  <1>1. Free /\ Top.k = "list" /\ Top.stage = "got"
    BY DEF ElementKept, Calling, Free
  <1>2. engine = "live"
    BY <1>1, LiveNow
  <1> DEFINE w == Join(Top.acc, Join(Top.key, Top.new))
             g == [Top EXCEPT !.acc = w, !.key = Nothing, !.new = Nothing, !.stage = "more"]
  <1>3. stack' = SetTop(g) /\ UNCHANGED <<inst, spans, engine, data, raising, doc, seen, result>>
    BY Zenon DEF ElementKept, Moved
  <1>4. w \in Values /\ (Printing(Top) => Told(w))
    BY <1>1, TopValues, ListPlan, Joins
  <1> HIDE DEF w
  <1>5. /\ g \in Frames /\ g.k = Top.k /\ g.i = Top.i /\ g.quiet = Top.quiet /\ g.span = Top.span
        /\ g.acc = w /\ g.key = Nothing /\ g.new = Nothing /\ g.plan = Top.plan /\ g.stage = "more"
        /\ g.base = Top.base /\ g.scope = Top.scope /\ g.kind = Top.kind
    BY <1>4, TopFacts, TopValues, NothingTold DEF Frames, Stages
  <1> HIDE DEF g
  <1>6. Kept(Top, g)
    BY <1>1, <1>4, <1>5, TopFacts, ListPlan, NothingTold, EntryKept
  <1> QED
    BY <1>1, <1>2, <1>3, <1>6, FitsTop, SilentKeeps

\* A duplicate may conclude the case: the collection reads that at its next decision.
LEMMA ElementRejectedKeeps ==
    ASSUME CaseInv, ElementRejected
    PROVE  CaseInv'
  <1>1. Free /\ Top.k = "list" /\ Top.stage = "got" /\ Top.plan = Entries[Top.kind]
    BY DEF ElementRejected, Calling, Free
  <1>2. engine = "live"
    BY <1>1, LiveNow
  <1> DEFINE count == Top.n - 1
             spent == Top.m + 1 > (IF 2 * count > RejectionSlack THEN 2 * count ELSE RejectionSlack)
             r == IF spent /\ count >= MinSize THEN 1 ELSE Top.r
             g == [Top EXCEPT !.n = count, !.m = @ + 1, !.new = Nothing, !.stage = "more", !.r = r]
  <1>3. /\ stack' = SetTop(g) /\ UNCHANGED <<inst, spans, data, raising, doc, seen, result>>
        /\ engine' = (IF engine = "live" /\ spent /\ count < MinSize THEN "assume" ELSE engine)
    BY DEF ElementRejected
  <1>4. count \in Int /\ r \in Int /\ Top.m + 1 \in Int
    BY TopValues
  <1> HIDE DEF count, r, spent
  <1>5. /\ g \in Frames /\ g.k = Top.k /\ g.i = Top.i /\ g.quiet = Top.quiet /\ g.span = Top.span
        /\ g.acc = Top.acc /\ g.key = Top.key /\ g.new = Nothing /\ g.plan = Top.plan /\ g.stage = "more"
        /\ g.base = Top.base /\ g.scope = Top.scope /\ g.kind = Top.kind
    BY <1>4, TopFacts, TopValues, NothingTold DEF Frames, Stages
  <1> HIDE DEF g
  <1>6. Kept(Top, g)
    BY <1>1, <1>5, TopFacts, TopValues, ListPlan, EntryKept
  <1>7. Fits(SetTop(g), spans, Root, Child)
    BY <1>1, <1>2, <1>6, FitsTop
  <1>8. CASE engine' = engine
    BY <1>1, <1>2, <1>3, <1>7, <1>8, SilentKeeps
  <1>9. CASE engine' = "assume"
    <2>1. StackOK(stack') /\ \A i \in Instances : DrawsOf(stack', i) = DrawsOf(stack, i)
      BY <1>3, <1>7 DEF Fits
    <2>2. CaseTypes'
      BY <1>3, <1>9, TopFacts DEF CaseTypes, doc, seen
    <2>3. NotesInv'
      BY <1>3, <2>1, TopFacts, NotesSame DEF doc
    <2>4. Top'.k = "list" /\ Top'.stage = "more"
      <3>1. Top' = g
        <4>1. /\ SetTop(g)[Len(stack)] = g /\ Len(SetTop(g)) = Len(stack)
          BY <1>6, TopTurns DEF Kept
        <4> QED
          BY <4>1, <1>3 DEF Top, Last
      <3> QED
        BY <3>1, <1>1, <1>5
    <2>5. SpansInv' /\ VerdictInv' /\ MispricedInv' /\ LineIsTheValue'
      BY <1>1, <1>3, <1>9, <2>4, TopFacts
         DEF SpansInv, VerdictInv, MispricedInv, Free, doc, LineIsTheValue
    <2> QED
      BY <2>1, <2>2, <2>3, <2>5 DEF CaseInv
  <1> QED
    BY <1>3, <1>8, <1>9

\* A frame that prints at its end, with more of its value.
LEMMA SilentKept ==
    ASSUME NEW f, FrameOK(f), f.k \in {"sample", "composite", "custom"}, NEW x \in Stages, NEW v \in Seq(Nat)
    PROVE  Kept(f, [f EXCEPT !.acc.val = v, !.stage = x])
  <1> DEFINE a == [f.acc EXCEPT !.val = v]
             g == [f EXCEPT !.acc.val = v, !.stage = x]
  <1>1. f \in Frames /\ SpanFits(f) /\ TextFits(f) /\ PlanFits(f)
    BY DEF FrameOK
  <1>2. f.acc \in Values /\ a \in Values
    BY <1>1 DEF Values, Frames
  <1>3. g = [f EXCEPT !.acc = a, !.stage = x]
    BY Zenon
  <1> HIDE DEF a, g
  <1>4. /\ g \in Frames /\ g.k = f.k /\ g.i = f.i /\ g.quiet = f.quiet /\ g.span = f.span
        /\ g.base = f.base /\ g.scope = f.scope /\ g.plan = f.plan /\ g.stage = x /\ g.kind = f.kind
    BY <1>1, <1>2, <1>3 DEF Frames
  <1>5. SpanFits(g) /\ Role(f, g) /\ (FrameOpened(g) <=> FrameOpened(f)) /\ PlanFits(g)
    BY <1>1, <1>4 DEF SpanFits, Role, FrameOpened, PlanFits
  <1>6. TextFits(g)
    BY <1>4 DEF TextFits, Printing
  <1> QED
    BY <1>4, <1>5, <1>6 DEF Kept, FrameOK, g

\* A sample asks for another index.
LEMMA SampleMoreKeeps ==
    ASSUME CaseInv, SampleMore
    PROVE  CaseInv'
  <1>1. Free /\ Top.k = "sample"
    BY DEF SampleMore, Calling, Free
  <1>2. PICK go \in BOOLEAN :
           Choice(SetTop([Top EXCEPT !.stage = IF go THEN "index" ELSE "done", !.plan = <<>>,
                                     !.n = IF go THEN @ + 1 ELSE @]))
    BY DEF SampleMore, More
  <1> DEFINE x == IF go THEN "index" ELSE "done"
             n == IF go THEN Top.n + 1 ELSE Top.n
             g == [Top EXCEPT !.stage = x, !.plan = <<>>, !.n = n]
  <1>4. x \in Stages /\ n \in Int /\ <<>> \in DrawPlans
    BY TopValues DEF Stages, DrawPlans
  <1>5. Choice(SetTop(g))
    BY <1>2
  <1> HIDE DEF x, n
  <1>6. /\ g \in Frames /\ g.k = Top.k /\ g.i = Top.i /\ g.quiet = Top.quiet /\ g.span = Top.span
        /\ g.base = Top.base /\ g.scope = Top.scope /\ g.plan = <<>> /\ g.kind = Top.kind
    BY <1>4, TopFacts DEF Frames
  <1> HIDE DEF g
  <1>7. SpanFits(g) /\ Role(Top, g) /\ (FrameOpened(g) <=> FrameOpened(Top)) /\ PlanFits(g)
    BY <1>1, <1>6, TopValues DEF SpanFits, Role, FrameOpened, PlanFits
  <1>8. TextFits(g)
    BY <1>1, <1>6 DEF TextFits, Printing
  <1>9. Kept(Top, g)
    BY <1>6, <1>7, <1>8 DEF Kept, FrameOK
  <1> QED
    BY <1>1, <1>5, <1>9, FitsTop, ChoiceKeeps

\* A sample records the index it has drawn.
LEMMA SampleIndexKeeps ==
    ASSUME CaseInv, SampleIndex
    PROVE  CaseInv'
  <1>1. Free /\ Top.k = "sample"
    BY DEF SampleIndex, Calling, Free
  <1> DEFINE g == [Top EXCEPT !.acc.val = Append(@, data), !.stage = "more"]
             v == Append(Top.acc.val, data)
             h == [Top EXCEPT !.acc.val = v, !.stage = "more"]
  <1>2. Choice(SetTop(g))
    BY DEF SampleIndex
  <1>3. data \in Nat
    BY TopFacts DEF CaseTypes
  <1>4. v \in Seq(Nat) /\ "more" \in Stages
    BY <1>3, TopValues DEF Stages
  <1>5. g = h
    OBVIOUS
  <1> HIDE DEF v, g
  <1>6. Kept(Top, h)
    BY <1>1, <1>4, TopFacts, SilentKept
  <1> QED
    BY <1>1, <1>2, <1>5, <1>6, FitsTop, ChoiceKeeps

-----------------------------------------------------------------------------
(* Values handed to the frame below, and spans closed on the way. *)

\* Samples and user generators print as a whole at the end: what they keep on the way is not
\* told.
LEMMA SilentFits ==
    ASSUME NEW f, FrameOK(f), f.k \in {"sample", "composite", "custom"}, NEW x \in Stages, NEW v \in Seq(Nat)
    PROVE  Kept(f, [f EXCEPT !.stage = x, !.acc.val = v])
  <1> DEFINE a == [f.acc EXCEPT !.val = v]
             g == [f EXCEPT !.stage = x, !.acc.val = v]
  <1>1. f \in Frames /\ SpanFits(f) /\ TextFits(f) /\ PlanFits(f)
    BY DEF FrameOK
  <1>2. f.acc \in Values /\ a \in Values
    BY <1>1 DEF Values, Frames
  <1>3. g = [f EXCEPT !.stage = x, !.acc = a]
    BY <1>1 DEF Frames
  <1> HIDE DEF a, g
  <1>4. /\ g \in Frames /\ g.k = f.k /\ g.i = f.i /\ g.quiet = f.quiet /\ g.span = f.span
        /\ g.base = f.base /\ g.scope = f.scope /\ g.plan = f.plan /\ g.stage = x /\ g.kind = f.kind
    BY <1>1, <1>2, <1>3 DEF Frames
  <1>5. SpanFits(g) /\ Role(f, g) /\ (FrameOpened(g) <=> FrameOpened(f)) /\ PlanFits(g)
    BY <1>1, <1>4 DEF SpanFits, Role, FrameOpened, PlanFits
  <1>6. TextFits(g)
    BY <1>4 DEF TextFits, Printing
  <1> QED
    BY <1>4, <1>5, <1>6 DEF Kept, FrameOK, g

\* A frame that got the value it waited for.
LEMMA GotKept ==
    ASSUME NEW f, FrameOK(f), f.k \notin UserFrames, f.stage = "waiting" \/ f.k = "recursive", f.k # "machine",
           NEW v \in Values, Printing(f) => Hiding(f) \/ Told(v)
    PROVE  Kept(f, [f EXCEPT !.stage = "got", !.new = v])
  <1> DEFINE g == [f EXCEPT !.stage = "got", !.new = v]
  <1>1. f \in Frames /\ SpanFits(f) /\ TextFits(f) /\ PlanFits(f)
    BY DEF FrameOK
  <1>2. /\ g \in Frames /\ g.k = f.k /\ g.i = f.i /\ g.quiet = f.quiet /\ g.span = f.span /\ g.acc = f.acc
        /\ g.key = f.key /\ g.new = v /\ g.m = f.m
        /\ g.base = f.base /\ g.scope = f.scope /\ g.plan = f.plan /\ g.stage = "got" /\ g.kind = f.kind
    BY <1>1 DEF Frames, Stages
  <1> HIDE DEF g
  <1>3. SpanFits(g)
    BY <1>1, <1>2 DEF SpanFits
  <1>4. Role(f, g) /\ (FrameOpened(g) <=> FrameOpened(f))
    BY <1>1, <1>2 DEF Role, FrameOpened
  <1>5. PlanFits(g)
    BY <1>1, <1>2 DEF PlanFits
  <1>6. TextFits(g)
    BY <1>1, <1>2 DEF TextFits, Printing, Hiding
  <1> QED
    BY <1>2, <1>3, <1>4, <1>5, <1>6 DEF Kept, FrameOK, g

\* The frame a value is delivered to (Deliver).
Delivered(f, v) ==
    CASE f.k = "composite" -> [f EXCEPT !.stage = "start", !.acc.val = @ \o v.val]
      [] f.k = "custom" -> [f EXCEPT !.stage = "start", !.acc.val = @ \o v.val]
      [] f.k \in BodyFrames -> [f EXCEPT !.stage = "start"]
      [] OTHER -> [f EXCEPT !.stage = "got", !.new = v]

\* A frame that waits takes the value of a draw, told or hidden.
LEMMA DeliveredKept ==
    ASSUME NEW f, FrameOK(f), f.stage = "waiting" \/ f.k = "recursive", f.k # "machine",
           NEW v \in Values, Printing(f) => Hiding(f) \/ Told(v)
    PROVE  Kept(f, Delivered(f, v))
  <1>1. CASE f.k \in {"composite", "custom"}
    <2> DEFINE w == f.acc.val \o v.val
    <2>1. w \in Seq(Nat)
      <3>1. f.acc.val \in Seq(Nat) /\ v.val \in Seq(Nat)
        BY DEF FrameOK, Frames, Values
      <3> QED
        BY <3>1
    <2>2. Delivered(f, v) = [f EXCEPT !.stage = "start", !.acc.val = w]
      BY <1>1 DEF Delivered, BodyFrames
    <2>3. "start" \in Stages
      BY DEF Stages
    <2> HIDE DEF w
    <2>4. Kept(f, [f EXCEPT !.stage = "start", !.acc.val = w])
      BY <1>1, <2>1, <2>3, SilentFits
    <2> QED
      BY <2>2, <2>4
  <1>2. CASE f.k \in BodyFrames
    <2>1. Delivered(f, v) = [f EXCEPT !.stage = "start"] /\ "start" \in Stages
      BY <1>2 DEF Delivered, BodyFrames, Stages
    <2>2. Kept(f, [f EXCEPT !.stage = "start"])
      BY <1>2, <2>1, StageKept DEF BodyFrames
    <2> QED
      BY <2>1, <2>2
  <1>3. CASE f.k \notin UserFrames
    <2>1. Delivered(f, v) = [f EXCEPT !.stage = "got", !.new = v]
      BY <1>3 DEF Delivered, BodyFrames, UserFrames
    <2>2. Kept(f, [f EXCEPT !.stage = "got", !.new = v])
      BY <1>3, GotKept
    <2> QED
      BY <2>1, <2>2
  <1> QED
    BY <1>1, <1>2, <1>3 DEF UserFrames

\* The caller of a draw takes its value and shows the same to the frames below.
LEMMA DeliverSteady ==
    ASSUME NEW s, StackOK(s), s[Len(s)].stage = "waiting" \/ s[Len(s)].k = "recursive", s[Len(s)].k # "machine",
           NEW v \in Values, Printing(s[Len(s)]) => Hiding(s[Len(s)]) \/ Told(v)
    PROVE  Steady(s, Deliver(s, v))
  <1>1. Last(s) = s[Len(s)] /\ FrameOK(s[Len(s)])
    BY StackFacts DEF Last
  <1> DEFINE g == Delivered(s[Len(s)], v)
  <1>2. Deliver(s, v) = Append(Front(s), g)
    BY <1>1 DEF Deliver, Delivered
  <1>3. Kept(s[Len(s)], g)
    BY <1>1, DeliveredKept
  <1> HIDE DEF g
  <1> QED
    BY <1>2, <1>3, LastSteady

\* A generator's value fits the frame that waited for it.
LEMMA Reaches ==
    ASSUME NEW s, StackOK(s), Len(s) >= 2, s[Len(s)].k \in Generators \cup {"draw"},
           NEW v \in Values, s[Len(s)].k \in Generators /\ s[Len(s)].quiet = FALSE => Told(v)
    PROVE  /\ Steady(Front(s), Deliver(Front(s), v))
           /\ StackOK(Front(s)) /\ (OnRule(Front(s)) <=> OnRule(s))
           /\ s[Len(s)].k # "draw" => \A i \in Instances : DrawsOf(Deliver(Front(s), v), i) = DrawsOf(s, i)
           /\ StackOK(Deliver(Front(s), v))
           /\ \A i \in Instances : DrawsOf(Deliver(Front(s), v), i) = DrawsOf(s, i) \ {Len(s)}
  <1> DEFINE t == Front(s)
             p == s[Len(s) - 1]
             f == s[Len(s)]
  <1>1. Len(s) \in Nat /\ Len(s) \in 2..Len(s) /\ Len(s) - 1 \in 1..(Len(s) - 1) /\ Len(s) - 1 \in 1..Len(s)
    BY StackFacts
  <1>2. /\ StackOK(t) /\ Len(t) = Len(s) - 1 /\ t[Len(t)] = p
        /\ (f.k # "rule" => (OnRule(t) <=> OnRule(s)))
        /\ f.k # "draw" => \A i \in Instances : DrawsOf(t, i) = DrawsOf(s, i)
        /\ \A i \in Instances : DrawsOf(t, i) = DrawsOf(s, i) \ {Len(s)}
    BY <1>1, PopOK
  <1>3. FrameOK(p) /\ Above(p, f, Len(s)) /\ FrameOK(f)
    BY <1>1, StackFacts
  <1> HIDE DEF t, p, f
  <1>4. f.k # "rule"
    BY DEF Generators, f
  <1>5. f.quiet \in BOOLEAN /\ p.quiet \in BOOLEAN
    BY <1>3 DEF FrameOK, Frames
  <1>6. (p.stage = "waiting" \/ p.k = "recursive") /\ p.k # "machine"
    <2>1. CASE f.k = "draw"
      BY <1>3, <2>1 DEF Above, UserFrames, BodyFrames
    <2>2. CASE f.k \in Generators
      BY <1>3, <2>2 DEF Above
    <2> QED
      BY <2>1, <2>2 DEF f
  <1>7. Printing(p) => Hiding(p) \/ Told(v)
    <2>1. CASE f.k = "draw"
      BY <1>3, <2>1 DEF Above, Printing, UserFrames, BodyFrames
    <2>2. CASE f.k \in Generators
      <3>1. f.quiet = TRUE => Covers(p)
        BY <1>3, <2>2 DEF Above
      <3>2. Printing(p) /\ Covers(p) => Hiding(p)
        BY DEF Printing, Covers, UserFrames, BodyFrames
      <3> QED
        BY <2>2, <3>1, <3>2, <1>5 DEF f
    <2> QED
      BY <2>1, <2>2 DEF f
  <1>8. Steady(t, Deliver(t, v))
    BY <1>2, <1>6, <1>7, DeliverSteady
  <1>9. StackOK(Deliver(t, v)) /\ \A i \in Instances : DrawsOf(Deliver(t, v), i) = DrawsOf(t, i)
    BY <1>2, <1>8, StepsOK DEF Steady
  <1> QED
    BY <1>2, <1>4, <1>8, <1>9 DEF t, f

\* A generator whose span is open returns its value, and stop_span closes the span.
LEMMA HandsOver ==
    ASSUME CaseInv, Free, Top.k \in Generators, FrameOpened(Top), NEW v \in Values,
           Top.quiet = FALSE => Told(v), StopSpan(Deliver(Rest, v))
    PROVE  CaseInv'
  <1>1. Top.k # "body"
    BY DEF Generators
  <1>2. /\ StackOK(stack) /\ Len(stack) >= 2 /\ Top = stack[Len(stack)] /\ Root \in Int /\ Child \in Int
        /\ spans \in Seq(Nat) /\ (Top.i = "child" <=> OnRule(stack)) /\ Top.i \in Instances
    BY <1>1, TopFacts
  <1> DEFINE t == Deliver(Rest, v)
             open == IF spans = <<>> THEN spans ELSE Front(spans)
  <1>3. /\ Steady(Rest, t) /\ StackOK(Rest) /\ StackOK(t)
        /\ \A i \in Instances : DrawsOf(t, i) = DrawsOf(stack, i)
    <2>1. stack[Len(stack)].k \in Generators \cup {"draw"} /\ stack[Len(stack)].k # "draw"
      BY <1>2 DEF Generators
    <2> QED
      BY <1>2, <2>1, Reaches DEF Rest
  <1>4. Depth \in Int /\ Depth - 1 \in Int /\ Depth = (IF Top.i = "root" THEN Root ELSE Child)
    BY <1>2 DEF Depth, Root, Child, Instances
  <1>5. open \in Seq(Nat)
    <2>1. spans # <<>> => Len(spans) >= 1
      BY <1>2
    <2> QED
      BY <1>2, <2>1, EndsOf
  <1>6. Call(t, open, Depth - 1)
    BY DEF StopSpan
  <1>7. ASSUME engine = "live", swallowed = FALSE
        PROVE  Good(t, open, RootNow(Depth - 1), ChildNow(Depth - 1))
    <2>1. Good(stack, spans, Root, Child)
      BY <1>7, GoodNow
    <2>2. /\ spans # <<>>
          /\ IF OnRule(stack) THEN Good(Rest, Front(spans), Root, Child - 1)
             ELSE Good(Rest, Front(spans), Root - 1, Child)
      BY <1>2, <2>1, GoodClosePop DEF Rest
    <2>3. Good(Rest, open, RootNow(Depth - 1), ChildNow(Depth - 1))
      BY <1>2, <1>4, <2>2 DEF RootNow, ChildNow, Instances
    <2> HIDE DEF t, open
    <2> QED
      BY <1>3, <2>3, GoodSteady
  <1> HIDE DEF t, open
  <1>8. engine = "live" => Fits(t, open, RootNow(Depth - 1), ChildNow(Depth - 1))
    BY <1>3, <1>7 DEF Fits
  <1> QED
    BY <1>4, <1>5, <1>6, <1>8, CallKeeps

-----------------------------------------------------------------------------
(* Generators returning, retrying and entering. *)

\* What user code or the library raises keeps the invariant.
LEMMA Raised ==
    ASSUME CaseInv, Free, engine = "live", NEW r \in Payloads \ {"", "AttemptMispriced"}, Raise({r})
    PROVE  CaseInv'
  BY RaiseKeeps DEF Raise

\* The top frame closes its span and stays: the counter goes down, whatever the engine answers.
LEMMA ClosesTop ==
    ASSUME CaseInv, Free, NEW f, FrameOK(f), Role(Top, f), f.base = Top.base, FrameOpened(Top),
           ~FrameOpened(f), StopSpan(SetTop(f))
    PROVE  CaseInv'
  <1>1. /\ StackOK(stack) /\ Top = stack[Len(stack)] /\ Root \in Int /\ Child \in Int /\ FrameOK(Top)
        /\ spans \in Seq(Nat) /\ (Top.i = "child" <=> OnRule(stack)) /\ Top.i \in Instances
    BY TopFacts
  <1> DEFINE t == SetTop(f)
             open == IF spans = <<>> THEN spans ELSE Front(spans)
  <1>2. Turns(stack, t) /\ t[Len(stack)] = f
    BY TopTurns
  <1>3. StackOK(t) /\ \A i \in Instances : DrawsOf(t, i) = DrawsOf(stack, i)
    BY <1>1, <1>2, StepsOK DEF Turns
  <1>4. Depth \in Int /\ Depth - 1 \in Int /\ Depth = (IF Top.i = "root" THEN Root ELSE Child)
    BY <1>1 DEF Depth, Root, Child, Instances
  <1>5. open \in Seq(Nat)
    <2>1. spans # <<>> => Len(spans) >= 1
      BY <1>1
    <2> QED
      BY <1>1, <2>1, EndsOf
  <1>6. Call(t, open, Depth - 1)
    BY DEF StopSpan
  <1>7. ASSUME engine = "live", swallowed = FALSE
        PROVE  Good(t, open, RootNow(Depth - 1), ChildNow(Depth - 1))
    <2>1. Good(stack, spans, Root, Child)
      BY <1>7, GoodNow
    <2>2. stack[Len(stack)].k \notin {"recursive", "iteration", "rule"}
      BY <1>1, OpenedKind
    <2>3. FrameOpened(stack[Len(stack)]) /\ ~FrameOpened(t[Len(stack)])
      BY <1>1, <1>2
    <2>4. /\ spans # <<>>
          /\ IF OnRule(stack) THEN Good(t, Front(spans), Root, Child - 1)
             ELSE Good(t, Front(spans), Root - 1, Child)
      <3> HIDE DEF t
      <3> QED
        BY <1>1, <1>2, <2>1, <2>2, <2>3, GoodClose
    <2> QED
      BY <1>1, <1>4, <2>4 DEF RootNow, ChildNow, Instances
  <1> HIDE DEF t, open
  <1>8. engine = "live" => Fits(t, open, RootNow(Depth - 1), ChildNow(Depth - 1))
    BY <1>3, <1>7 DEF Fits
  <1> QED
    BY <1>4, <1>5, <1>6, <1>8, CallKeeps

\* The top frame opens its span again: the counter is put back if the engine refuses.
LEMMA ReopensTop ==
    ASSUME CaseInv, Free, NEW f, FrameOK(f), Role(Top, f), f.base = Top.base, ~FrameOpened(Top),
           Top.k \notin {"recursive", "iteration", "rule"}, FrameOpened(f), StartSpan(SetTop(f))
    PROVE  CaseInv'
  <1>1. /\ StackOK(stack) /\ Top = stack[Len(stack)] /\ Root \in Int /\ Child \in Int /\ FrameOK(Top)
        /\ Len(stack) \in Nat
        /\ spans \in Seq(Nat) /\ (Top.i = "child" <=> OnRule(stack)) /\ Top.i \in Instances
    BY TopFacts
  <1> DEFINE t == SetTop(f)
             open == Append(spans, Len(stack))
             depth == IF engine = "live" THEN Depth + 1 ELSE Depth
  <1>2. Turns(stack, t) /\ t[Len(stack)] = f /\ Len(t) = Len(stack)
    BY TopTurns
  <1>3. StackOK(t) /\ \A i \in Instances : DrawsOf(t, i) = DrawsOf(stack, i)
    BY <1>1, <1>2, StepsOK DEF Turns
  <1>4. Depth \in Int /\ Depth + 1 \in Int /\ depth \in Int /\ Depth = (IF Top.i = "root" THEN Root ELSE Child)
    BY <1>1 DEF Depth, Root, Child, Instances
  <1>5. open \in Seq(Nat)
    BY <1>1
  <1>6. Call(t, open, depth)
    BY <1>2 DEF StartSpan
  <1>7. ASSUME engine = "live", swallowed = FALSE
        PROVE  Good(t, open, RootNow(depth), ChildNow(depth))
    <2>1. Good(stack, spans, Root, Child)
      BY <1>7, GoodNow
    <2>3. ~FrameOpened(stack[Len(stack)]) /\ FrameOpened(t[Len(stack)])
          /\ stack[Len(stack)].k \notin {"recursive", "iteration", "rule"}
      BY <1>1, <1>2
    <2>4. IF OnRule(stack) THEN Good(t, open, Root, Child + 1) ELSE Good(t, open, Root + 1, Child)
      <3> HIDE DEF t
      <3> QED
        BY <1>1, <1>2, <2>1, <2>3, GoodReopen
    <2>5. depth = Depth + 1
      BY <1>7
    <2> HIDE DEF t, open, depth
    <2> QED
      BY <1>1, <1>4, <2>4, <2>5 DEF RootNow, ChildNow, Instances
  <1> HIDE DEF t, open, depth
  <1>8. engine = "live" => Fits(t, open, RootNow(depth), ChildNow(depth))
    BY <1>3, <1>7 DEF Fits
  <1> QED
    BY <1>4, <1>5, <1>6, <1>8, CallKeeps

\* A generator called with start_span: the counter is put back if the engine refuses.
LEMMA EntersOpen ==
    ASSUME CaseInv, Free, NEW f, Enters(stack, f), FrameOpened(f), f.k \notin {"draw", "rule"},
           StartSpan(Append(stack, f))
    PROVE  CaseInv'
  <1>1. /\ StackOK(stack) /\ Top = stack[Len(stack)] /\ Root \in Int /\ Child \in Int
        /\ Len(stack) \in Nat
        /\ spans \in Seq(Nat) /\ (Top.i = "child" <=> OnRule(stack)) /\ Top.i \in Instances
    BY TopFacts
  <1> DEFINE t == Append(stack, f)
             open == Append(spans, Len(stack) + 1)
             depth == IF engine = "live" THEN Depth + 1 ELSE Depth
  <1>2. StackOK(t) /\ Len(t) = Len(stack) + 1 /\ \A i \in Instances : DrawsOf(t, i) = DrawsOf(stack, i)
    BY <1>1, PushOK
  <1>4. Depth \in Int /\ Depth + 1 \in Int /\ depth \in Int /\ Depth = (IF Top.i = "root" THEN Root ELSE Child)
    BY <1>1 DEF Depth, Root, Child, Instances
  <1>5. open \in Seq(Nat)
    BY <1>1
  <1>6. Call(t, open, depth)
    BY <1>2 DEF StartSpan
  <1>7. ASSUME engine = "live", swallowed = FALSE
        PROVE  Good(t, open, RootNow(depth), ChildNow(depth))
    <2>1. Good(stack, spans, Root, Child)
      BY <1>7, GoodNow
    <2>4. IF OnRule(stack) THEN Good(t, open, Root, Child + 1) ELSE Good(t, open, Root + 1, Child)
      BY <1>1, <2>1, GoodOpen
    <2>5. depth = Depth + 1
      BY <1>7
    <2> HIDE DEF t, open, depth
    <2> QED
      BY <1>1, <1>4, <2>4, <2>5 DEF RootNow, ChildNow, Instances
  <1> HIDE DEF t, open, depth
  <1>8. engine = "live" => Fits(t, open, RootNow(depth), ChildNow(depth))
    BY <1>2, <1>7 DEF Fits
  <1> QED
    BY <1>4, <1>5, <1>6, <1>8, CallKeeps

\* The generator a waiting frame draws from.
LEMMA InnerEnters ==
    ASSUME CaseInv, Waiting, NEW g \in Frames, g.k \in Generators, g.i = Top.i, g.quiet = InnerQuiet,
           SpanFits(g), PlanFits(g), g.acc = Nothing, g.key = Nothing, g.new = Nothing,
           g.k = "subtree" => g.m # 0 /\ g.scope \in 1..Len(stack)
    PROVE  Enters(stack, g)
  <1>1. Top = stack[Len(stack)] /\ Top.stage = "waiting" /\ Len(stack) \in Nat
    BY TopFacts DEF Waiting
  <1>2. Top.k # "machine"
    BY <1>1, TopValues DEF PlanFits
  <1>3. g.quiet = TRUE => Covers(Top)
    <2>1. Top.plan # <<>> /\ Head(Top.plan) \in {"hidden", "afterwards"} => Hiding(Top)
      <3>1. Top.plan \in {<<>>, <<"value">>, <<"value", "value">>, <<"afterwards">>, <<"hidden", "value">>,
                          <<"choice">>, <<"choice", "value">>}
        BY TopValues DEF DrawPlans
      <3> QED
        BY <3>1, PlanFacts, Zenon DEF Hiding
    <2>2. Top.quiet \in BOOLEAN
      BY TopValues
    <2> QED
      BY <2>1, <2>2 DEF InnerQuiet, Covers
  <1>4. FrameOK(g)
    BY NothingTold DEF FrameOK, TextFits, Generators
  <1>5. Above(Top, g, Len(stack) + 1)
    BY <1>1, <1>2, <1>3 DEF Above, Generators
  <1>6. g.k \notin {"body", "machine", "rule"}
    BY DEF Generators
  <1> QED
    BY <1>1, <1>4, <1>5, <1>6 DEF Enters

\* A new frame, whatever its stage and plan.
LEMMA FrameMade ==
    ASSUME NEW k \in Kinds, NEW i \in Instances, NEW q \in BOOLEAN, NEW s \in Stages, NEW d \in DrawKinds,
           NEW v \in Values, NEW p \in DrawPlans, NEW b \in Int \X Nat
    PROVE  [k |-> k, i |-> i, quiet |-> q, stage |-> s, span |-> FALSE, kind |-> d,
            acc |-> v, key |-> v, new |-> v, plan |-> p, n |-> 0, m |-> 0, r |-> 0, base |-> b, scope |-> 0] \in Frames
  BY DEF Frames

\* A new frame.
LEMMA FrameTyped ==
    ASSUME NEW k \in Kinds, NEW i \in Instances, NEW q \in BOOLEAN
    PROVE  LET g == Frame(k, i, q)
           IN  /\ g \in Frames /\ g.k = k /\ g.i = i /\ g.quiet = q /\ g.stage = "start"
               /\ g.span = FALSE /\ g.acc = Nothing /\ g.key = Nothing /\ g.new = Nothing
               /\ g.plan = <<>> /\ g.m = 0
  <1>1. <<0, 0>> \in Int \X Nat /\ <<>> \in DrawPlans /\ "start" \in Stages /\ "" \in DrawKinds /\ Nothing \in Values
    BY NothingTold DEF DrawPlans, Stages, DrawKinds
  <1>2. Frame(k, i, q) \in Frames
    BY <1>1, FrameMade, Zenon DEF Frame
  <1> QED
    BY <1>2 DEF Frame

\* A new frame for a generator called by the top one.
LEMMA InnerTyped ==
    ASSUME CaseInv, NEW k \in Kinds
    PROVE  LET g == Inner(k)
           IN  /\ g \in Frames /\ g.k = k /\ g.i = Top.i /\ g.quiet = InnerQuiet /\ g.stage = "start"
               /\ g.span = FALSE /\ g.acc = Nothing /\ g.key = Nothing /\ g.new = Nothing
               /\ g.plan = <<>> /\ g.m = 0
  <1>1. InnerQuiet \in BOOLEAN
    BY TopValues DEF InnerQuiet
  <1>2. Top.i \in Instances
    BY TopFacts
  <1> QED
    BY <1>1, <1>2, FrameTyped DEF Inner

\* What a frame that prints has kept and got is told.
LEMMA TopTold ==
    ASSUME CaseInv, Top.quiet = FALSE
    PROVE  /\ Top.k \in {"combinator", "list", "filter"} => Told(Top.acc)
           /\ Top.k \in {"filter", "subtree", "recursive", "draw"} => Told(Top.new)
  <1>1. TextFits(Top) /\ PlanFits(Top)
    BY TopValues
  <1>2. Top.k \in {"filter", "subtree", "recursive", "draw"} => ~Hiding(Top)
    <2>1. Top.k \in {"filter", "subtree", "recursive", "draw"} => Top.plan = <<>>
      BY <1>1 DEF PlanFits
    <2> QED
      BY <2>1, PlanFacts, Zenon DEF Hiding
  <1> QED
    BY <1>1, <1>2 DEF TextFits, Printing

\* Which kinds of frame have their span open, and at which stage.
LEMMA TopOpened ==
    ASSUME CaseInv
    PROVE  /\ Top.k \in {"combinator", "list", "sample", "subtree", "composite"} => FrameOpened(Top)
           /\ Top.k = "filter" /\ Top.stage = "got" => FrameOpened(Top)
           /\ Top.k = "filter" /\ Top.stage = "again" => ~FrameOpened(Top)
           /\ Top.k \in {"recursive", "custom", "body", "iteration", "rule", "draw", "repeat"} => ~FrameOpened(Top)
  BY TopValues DEF FrameOpened, SpanFits

\* A combinator closes its span and returns what it kept.
LEMMA CombinatorDoneKeeps == ASSUME CaseInv, CombinatorDone PROVE CaseInv'
  <1>1. Free /\ Top.k = "combinator" /\ StopSpan(Deliver(Rest, Top.acc))
    BY DEF CombinatorDone, Calling, Free
  <1>2. Top.k \in Generators /\ FrameOpened(Top) /\ Top.acc \in Values /\ (Top.quiet = FALSE => Told(Top.acc))
    BY <1>1, TopOpened, TopTold, TopValues DEF Generators
  <1> QED
    BY <1>1, <1>2, HandsOver

\* filter closes its span and returns the try its predicate accepts.
LEMMA FilterAcceptsKeeps == ASSUME CaseInv, FilterAccepts PROVE CaseInv'
  <1> DEFINE v == Join(Top.acc, Top.new)
  <1>1. Free /\ Top.k = "filter" /\ Top.stage = "got" /\ StopSpan(Deliver(Rest, v))
    BY DEF FilterAccepts, Calling, Free
  <1>2. Top.k \in Generators /\ FrameOpened(Top)
    BY <1>1, TopOpened DEF Generators
  <1>3. v \in Values /\ (Top.quiet = FALSE => Told(v))
    BY <1>1, TopTold, TopValues, Joins
  <1> HIDE DEF v
  <1> QED
    BY <1>1, <1>2, <1>3, HandsOver

\* A collection closes its span and returns its elements.
LEMMA ListDoneKeeps == ASSUME CaseInv, ListDone PROVE CaseInv'
  <1>1. Free /\ Top.k = "list" /\ StopSpan(Deliver(Rest, Top.acc))
    BY DEF ListDone, Calling, Free
  <1>2. Top.k \in Generators /\ FrameOpened(Top) /\ Top.acc \in Values /\ (Top.quiet = FALSE => Told(Top.acc))
    BY <1>1, TopOpened, TopTold, TopValues DEF Generators
  <1> QED
    BY <1>1, <1>2, HandsOver

\* A sample closes its span and returns, printing as a whole.
LEMMA SampleDoneKeeps == ASSUME CaseInv, SampleDone PROVE CaseInv'
  <1> DEFINE v == Whole(Top.acc.val)
  <1>1. Free /\ Top.k = "sample" /\ StopSpan(Deliver(Rest, v))
    BY DEF SampleDone, Calling, Free
  <1>2. Top.k \in Generators /\ FrameOpened(Top)
    BY <1>1, TopOpened DEF Generators
  <1>3. v \in Values /\ (Top.quiet = FALSE => Told(v))
    BY TopValues, Wholes
  <1> HIDE DEF v
  <1> QED
    BY <1>1, <1>2, <1>3, HandsOver

\* A composite generator closes its span and returns.
LEMMA CompositeReturnsKeeps == ASSUME CaseInv, CompositeReturns PROVE CaseInv'
  <1> DEFINE v == Whole(Top.acc.val)
  <1>1. Free /\ Top.k = "composite" /\ StopSpan(Deliver(Rest, v))
    BY DEF CompositeReturns, UserFree, Free
  <1>2. Top.k \in Generators /\ FrameOpened(Top)
    BY <1>1, TopOpened DEF Generators
  <1>3. v \in Values /\ (Top.quiet = FALSE => Told(v))
    BY TopValues, Wholes
  <1> HIDE DEF v
  <1> QED
    BY <1>1, <1>2, <1>3, HandsOver

\* A branch of a recursive value closes its span and returns.
LEMMA SubtreeDoneKeeps == ASSUME CaseInv, SubtreeDone PROVE CaseInv'
  <1>1. Free /\ Top.k = "subtree" /\ StopSpan(Deliver(Rest, Top.new))
    BY DEF SubtreeDone, Calling, Free
  <1>2. Top.k \in Generators /\ FrameOpened(Top) /\ Top.new \in Values /\ (Top.quiet = FALSE => Told(Top.new))
    BY <1>1, TopOpened, TopTold, TopValues DEF Generators
  <1> QED
    BY <1>1, <1>2, HandsOver

\* A generator without a span returns.
LEMMA HandsSilently ==
    ASSUME CaseInv, Free, engine = "live", Top.k \in {"recursive", "custom"}, NEW v \in Values,
           Top.quiet = FALSE => Told(v)
    PROVE  Fits(Deliver(Rest, v), spans, Root, Child)
  <1>1. Top.k \in Generators /\ Top.k \notin {"body", "rule", "draw"} /\ ~FrameOpened(Top)
    BY TopOpened DEF Generators
  <1>2. /\ StackOK(stack) /\ Len(stack) >= 2 /\ Top = stack[Len(stack)] /\ Root \in Int /\ Child \in Int
        /\ spans \in Seq(Nat)
    BY <1>1, TopFacts
  <1> DEFINE t == Deliver(Rest, v)
  <1>3. /\ Steady(Rest, t) /\ StackOK(Rest) /\ StackOK(t)
        /\ \A i \in Instances : DrawsOf(t, i) = DrawsOf(stack, i)
    BY <1>1, <1>2, Reaches DEF Rest
  <1> HIDE DEF t
  <1>4. ASSUME swallowed = FALSE PROVE Good(t, spans, Root, Child)
    <2>1. Good(stack, spans, Root, Child)
      BY <1>4, GoodNow
    <2>2. Good(Rest, spans, Root, Child)
      BY <1>1, <1>2, <2>1, GoodPop DEF Rest
    <2> QED
      BY <1>3, <2>2, GoodSteady
  <1> QED
    BY <1>3, <1>4 DEF Fits, t

\* A recursive generator returns the value of the attempt that stands.
LEMMA RecursiveDoneKeeps == ASSUME CaseInv, RecursiveDone PROVE CaseInv'
  <1>1. Free /\ Top.k = "recursive" /\ stack' = Deliver(Rest, Top.new)
        /\ UNCHANGED <<inst, spans, engine, data, raising, doc, seen, result>>
    BY DEF RecursiveDone, Calling, Free
  <1>2. engine = "live" /\ Top.new \in Values /\ (Top.quiet = FALSE => Told(Top.new))
    BY <1>1, LiveNow, TopTold, TopValues
  <1>3. Fits(Deliver(Rest, Top.new), spans, Root, Child)
    BY <1>1, <1>2, HandsSilently
  <1> QED
    BY <1>1, <1>2, <1>3, SilentKeeps

\* A hand-written generator returns; it has no span.
LEMMA CustomReturnsKeeps == ASSUME CaseInv, CustomReturns PROVE CaseInv'
  <1> DEFINE v == Whole(Top.acc.val)
  <1>1. Free /\ Top.k = "custom" /\ stack' = Deliver(Rest, v)
        /\ UNCHANGED <<inst, spans, engine, data, raising, doc, seen, result>>
    BY DEF CustomReturns, UserFree, Free
  <1>2. engine = "live"
    BY <1>1, LiveNow
  <1>3. v \in Values /\ (Top.quiet = FALSE => Told(v))
    BY TopValues, Wholes
  <1> HIDE DEF v
  <1>4. Fits(Deliver(Rest, v), spans, Root, Child)
    BY <1>1, <1>2, <1>3, HandsSilently
  <1> QED
    BY <1>1, <1>2, <1>4, SilentKeeps

\* A primitive draw records one choice and delivers it.
LEMMA PrimitiveKeeps == ASSUME CaseInv, Primitive PROVE CaseInv'
  <1> DEFINE v == [val |-> <<data>>, text |-> IF InnerQuiet THEN <<>> ELSE <<data>>]
  <1>1. Free /\ Top.stage = "waiting" /\ Choice(Deliver(stack, v))
    BY DEF Primitive, Waiting, Free
  <1>2. engine = "live"
    BY <1>1, LiveNow
  <1>3. StackOK(stack) /\ Top = stack[Len(stack)] /\ Top.k # "machine"
    BY <1>1, TopFacts, TopValues DEF PlanFits
  <1>4. v \in Values
    <2>1. data \in Nat
      BY TopFacts DEF CaseTypes
    <2>2. <<data>> \in Seq(Nat) /\ <<>> \in Seq(Nat)
      BY <2>1
    <2> QED
      BY <2>2 DEF Values
  <1>5. Printing(Top) => Hiding(Top) \/ Told(v)
    <2>1. Top.plan # <<>> /\ Head(Top.plan) \in {"hidden", "afterwards"} => Hiding(Top)
      <3>1. Top.plan \in {<<>>, <<"value">>, <<"value", "value">>, <<"afterwards">>, <<"hidden", "value">>,
                          <<"choice">>, <<"choice", "value">>}
        BY TopValues DEF DrawPlans
      <3> QED
        BY <3>1, PlanFacts, Zenon DEF Hiding
    <2>2. ~InnerQuiet => Told(v)
      BY DEF Told
    <2>3. Printing(Top) /\ InnerQuiet => Top.plan # <<>> /\ Head(Top.plan) \in {"hidden", "afterwards"}
      BY DEF InnerQuiet, Printing, UserFrames, BodyFrames
    <2> QED
      BY <2>1, <2>2, <2>3
  <1> HIDE DEF v
  <1>6. Steady(stack, Deliver(stack, v))
    BY <1>1, <1>3, <1>4, <1>5, DeliverSteady
  <1>7. Fits(Deliver(stack, v), spans, Root, Child)
    BY <1>1, <1>2, <1>6, FitsSteady
  <1> QED
    BY <1>1, <1>7, ChoiceKeeps

\* filter discards a try with its text and closes its span as discarded.
LEMMA FilterRejectsKeeps == ASSUME CaseInv, FilterRejects PROVE CaseInv'
  <1> DEFINE g == [Top EXCEPT !.n = @ + 1, !.new = Nothing, !.stage = "again", !.span = FALSE]
  <1>1. Free /\ Top.k = "filter" /\ Top.stage = "got" /\ StopSpan(SetTop(g))
    BY DEF FilterRejects, Calling, Free
  <1>2. /\ g \in Frames /\ g.k = Top.k /\ g.i = Top.i /\ g.quiet = Top.quiet /\ g.acc = Top.acc /\ g.key = Top.key
        /\ g.new = Nothing /\ g.plan = Top.plan /\ g.stage = "again" /\ g.base = Top.base /\ g.scope = Top.scope
        /\ g.span = FALSE
    <2>1. Top.n + 1 \in Int /\ Top \in Frames /\ "again" \in Stages
      BY TopFacts, TopValues DEF Stages
    <2> QED
      BY <2>1, NothingTold DEF Frames
  <1> HIDE DEF g
  <1>3. SpanFits(g) /\ PlanFits(g) /\ TextFits(g) /\ Role(Top, g) /\ ~FrameOpened(g)
    BY <1>1, <1>2, TopValues, NothingTold DEF SpanFits, PlanFits, TextFits, Printing, Role, FrameOpened
  <1>4. FrameOK(g) /\ FrameOpened(Top)
    BY <1>1, <1>2, <1>3, TopOpened DEF FrameOK
  <1> QED
    BY <1>1, <1>2, <1>3, <1>4, ClosesTop

\* filter tries again in a new span, or rejects the case when its tries are spent.
LEMMA FilterAgainKeeps == ASSUME CaseInv, FilterAgain PROVE CaseInv'
  <1> DEFINE g == [Top EXCEPT !.stage = "waiting", !.span = TRUE]
  <1>1. Free /\ Top.k = "filter" /\ Top.stage = "again" /\ (Raise({"AssumeFailed"}) \/ StartSpan(SetTop(g)))
    BY DEF FilterAgain, Calling, Free
  <1>2. CASE Raise({"AssumeFailed"})
    BY <1>1, <1>2, LiveNow, Raised DEF Payloads
  <1>3. CASE StartSpan(SetTop(g))
    <2>2. /\ g \in Frames /\ g.k = Top.k /\ g.i = Top.i /\ g.quiet = Top.quiet /\ g.acc = Top.acc /\ g.key = Top.key
          /\ g.new = Top.new /\ g.plan = Top.plan /\ g.stage = "waiting" /\ g.base = Top.base /\ g.scope = Top.scope
          /\ g.span = TRUE
      BY TopFacts, TopValues DEF Frames, Stages
    <2> HIDE DEF g
    <2>3. SpanFits(g) /\ PlanFits(g) /\ TextFits(g) /\ Role(Top, g) /\ FrameOpened(g)
      BY <1>1, <2>2, TopValues DEF SpanFits, PlanFits, TextFits, Printing, Hiding, Role, FrameOpened
    <2>4. FrameOK(g) /\ ~FrameOpened(Top)
      BY <1>1, <2>2, <2>3, TopOpened DEF FrameOK
    <2>5. Top.k \notin {"recursive", "iteration", "rule"}
      BY <1>1
    <2> QED
      BY <1>1, <1>3, <2>2, <2>3, <2>4, <2>5, ReopensTop
  <1> QED
    BY <1>1, <1>2, <1>3

\* A generator that opens a span begins.
LEMMA EnterKeeps ==
    ASSUME CaseInv, Waiting, NEW f \in Frames, Enter(f),
           f.k \in {"combinator", "filter", "list", "sample", "composite", "subtree"},
           f.i = Top.i, f.quiet = InnerQuiet, f.acc = Nothing, f.key = Nothing, f.new = Nothing, PlanFits(f),
           f.k = "filter" => f.stage = "waiting",
           f.k = "subtree" => f.m # 0 /\ f.scope \in 1..Len(stack)
    PROVE  CaseInv'
  <1> DEFINE g == [f EXCEPT !.span = TRUE]
  <1>1. Free /\ StartSpan(Append(stack, g))
    BY DEF Waiting, Free, Enter
  <1>2. /\ g \in Frames /\ g.k = f.k /\ g.i = f.i /\ g.quiet = f.quiet /\ g.acc = f.acc /\ g.key = f.key
        /\ g.new = f.new /\ g.plan = f.plan /\ g.stage = f.stage /\ g.m = f.m /\ g.scope = f.scope
        /\ g.span = TRUE /\ g.kind = f.kind
    BY DEF Frames
  <1> HIDE DEF g
  <1>3. SpanFits(g) /\ PlanFits(g) /\ FrameOpened(g)
    BY <1>2 DEF SpanFits, PlanFits, FrameOpened
  <1>4. g.k \in Generators /\ g.k \notin {"draw", "rule"}
    BY <1>2 DEF Generators
  <1>5. Enters(stack, g)
    BY <1>2, <1>3, <1>4, InnerEnters
  <1> QED
    BY <1>1, <1>3, <1>4, <1>5, EntersOpen

\* A call of map, flat_map, one_of, optional.
LEMMA EnterCombinatorKeeps == ASSUME CaseInv, EnterCombinator PROVE CaseInv'
  <1>1. PICK k \in DOMAIN Plans \cap uses : \E plan \in Plans[k] :
           Enter([Inner("combinator") EXCEPT !.plan = plan, !.stage = PlanStage(plan)])
    BY DEF EnterCombinator
  <1>2. PICK plan \in Plans[k] : Enter([Inner("combinator") EXCEPT !.plan = plan, !.stage = PlanStage(plan)])
    BY <1>1
  <1>3. plan \in {<<"value">>, <<"value", "value">>, <<"afterwards">>, <<"hidden", "value">>,
                  <<"choice">>, <<"choice", "value">>}
    <2>1. k \in {"mapped", "print_as_call", "flat_map", "tuple", "array", "one_of", "optional"}
      BY <1>1 DEF Plans
    <2> QED
      BY <1>2, <2>1 DEF Plans, MappedDraws, CallDraws, FlatMapDraws, TupleDraws, ArrayDraws, OneOfDraws, OptionalDraws
  <1> DEFINE x == PlanStage(plan)
             g == [Inner("combinator") EXCEPT !.plan = plan, !.stage = x]
  <1>4. x \in {"choose", "waiting"} /\ (x = "choose" <=> plan \in {<<"choice">>, <<"choice", "value">>}) /\ plan # <<>>
    <2>1. plan \in {<<"choice">>, <<"choice", "value">>} => x = "choose"
      BY PlanFacts, Zenon DEF PlanStage
    <2>2. plan \in {<<"value">>, <<"value", "value">>} => Head(plan) = "value" /\ plan # <<>>
      BY PlanFacts, Zenon
    <2>3. plan = <<"afterwards">> => Head(plan) = "afterwards" /\ plan # <<>>
      BY PlanFacts, Zenon
    <2>4. plan = <<"hidden", "value">> => Head(plan) = "hidden" /\ plan # <<>>
      BY PlanFacts, Zenon
    <2>5. plan \in {<<"choice">>, <<"choice", "value">>} => Head(plan) = "choice" /\ plan # <<>>
      BY PlanFacts, Zenon
    <2>6. plan # <<>> /\ (Head(plan) # "choice" => x = "waiting")
      BY <1>3, <2>2, <2>3, <2>4, <2>5 DEF PlanStage
    <2>7. plan \notin {<<"choice">>, <<"choice", "value">>} => Head(plan) # "choice"
      BY <1>3, <2>2, <2>3, <2>4
    <2> QED
      BY <2>1, <2>6, <2>7
  <1>5. Enter(g) /\ Waiting
    BY <1>2 DEF EnterCombinator
  <1>6. plan \in DrawPlans /\ x \in Stages /\ "combinator" \in Kinds
    BY <1>3, <1>4 DEF DrawPlans, Stages, Kinds
  <1> HIDE DEF x
  <1>7. /\ g \in Frames /\ g.k = "combinator" /\ g.i = Top.i /\ g.quiet = InnerQuiet /\ g.acc = Nothing
        /\ g.key = Nothing /\ g.new = Nothing /\ g.plan = plan /\ g.stage = x
    <2> DEFINE h == Inner("combinator")
    <2>1. /\ h \in Frames /\ h.k = "combinator" /\ h.i = Top.i /\ h.quiet = InnerQuiet /\ h.acc = Nothing
          /\ h.key = Nothing /\ h.new = Nothing
      BY <1>6, InnerTyped
    <2> HIDE DEF h
    <2>2. /\ [h EXCEPT !.plan = plan, !.stage = x] \in Frames
          /\ LET e == [h EXCEPT !.plan = plan, !.stage = x]
             IN  /\ e.k = h.k /\ e.i = h.i /\ e.quiet = h.quiet /\ e.acc = h.acc /\ e.key = h.key
                 /\ e.new = h.new /\ e.plan = plan /\ e.stage = x
      BY <1>6, <2>1 DEF Frames
    <2> QED
      BY <2>1, <2>2 DEF h
  <1> HIDE DEF g
  <1>8. PlanFits(g)
    BY <1>3, <1>4, <1>7 DEF PlanFits
  <1> QED
    BY <1>5, <1>7, <1>8, EnterKeeps

\* A call of filter, in the span of its first try.
LEMMA EnterFilterKeeps == ASSUME CaseInv, EnterFilter PROVE CaseInv'
  <1> DEFINE h == Inner("filter")
             g == [h EXCEPT !.stage = "waiting"]
  <1>1. Waiting /\ Enter(g)
    BY DEF EnterFilter
  <1>2. "filter" \in Kinds /\ "waiting" \in Stages
    BY DEF Kinds, Stages
  <1>3. /\ h \in Frames /\ h.k = "filter" /\ h.i = Top.i /\ h.quiet = InnerQuiet /\ h.acc = Nothing
        /\ h.key = Nothing /\ h.new = Nothing /\ h.plan = <<>>
    BY <1>2, InnerTyped
  <1> HIDE DEF h
  <1>4. /\ g \in Frames /\ g.k = "filter" /\ g.i = Top.i /\ g.quiet = InnerQuiet /\ g.acc = Nothing
        /\ g.key = Nothing /\ g.new = Nothing /\ g.plan = <<>> /\ g.stage = "waiting"
    BY <1>2, <1>3 DEF Frames
  <1> HIDE DEF g
  <1>5. PlanFits(g)
    BY <1>4 DEF PlanFits
  <1> QED
    BY <1>1, <1>4, <1>5, EnterKeeps

\* A call of a collection's generator.
LEMMA EnterListKeeps == ASSUME CaseInv, EnterList PROVE CaseInv'
  <1>1. PICK kind \in DOMAIN Entries \cap uses : Enter([Inner("list") EXCEPT !.kind = kind, !.stage = "more"])
    BY DEF EnterList
  <1> DEFINE h == Inner("list")
             g == [h EXCEPT !.kind = kind, !.stage = "more"]
  <1>2. Waiting /\ Enter(g)
    BY <1>1 DEF EnterList
  <1>3. "list" \in Kinds /\ "more" \in Stages /\ kind \in DrawKinds /\ kind \in DOMAIN Entries
    BY <1>1 DEF Kinds, Stages, DrawKinds, Entries
  <1>4. /\ h \in Frames /\ h.k = "list" /\ h.i = Top.i /\ h.quiet = InnerQuiet /\ h.acc = Nothing
        /\ h.key = Nothing /\ h.new = Nothing /\ h.plan = <<>>
    BY <1>3, InnerTyped
  <1> HIDE DEF h
  <1>5. /\ g \in Frames /\ g.k = "list" /\ g.i = Top.i /\ g.quiet = InnerQuiet /\ g.acc = Nothing
        /\ g.key = Nothing /\ g.new = Nothing /\ g.plan = <<>> /\ g.stage = "more" /\ g.kind = kind
    BY <1>3, <1>4 DEF Frames
  <1> HIDE DEF g
  <1>6. PlanFits(g)
    BY <1>3, <1>5 DEF PlanFits
  <1> QED
    BY <1>2, <1>5, <1>6, EnterKeeps

\* A call of a sampling generator.
LEMMA EnterSampleKeeps == ASSUME CaseInv, EnterSample PROVE CaseInv'
  <1>1. PICK kind \in Sampled \cap uses : Enter([Inner("sample") EXCEPT !.kind = kind, !.stage = "more"])
    BY DEF EnterSample
  <1> DEFINE h == Inner("sample")
             g == [h EXCEPT !.kind = kind, !.stage = "more"]
  <1>2. Waiting /\ Enter(g)
    BY <1>1 DEF EnterSample
  <1>3. "sample" \in Kinds /\ "more" \in Stages /\ kind \in DrawKinds
    BY <1>1 DEF Kinds, Stages, DrawKinds, Sampled
  <1>4. /\ h \in Frames /\ h.k = "sample" /\ h.i = Top.i /\ h.quiet = InnerQuiet /\ h.acc = Nothing
        /\ h.key = Nothing /\ h.new = Nothing /\ h.plan = <<>>
    BY <1>3, InnerTyped
  <1> HIDE DEF h
  <1>5. /\ g \in Frames /\ g.k = "sample" /\ g.i = Top.i /\ g.quiet = InnerQuiet /\ g.acc = Nothing
        /\ g.key = Nothing /\ g.new = Nothing /\ g.plan = <<>> /\ g.stage = "more" /\ g.kind = kind
    BY <1>3, <1>4 DEF Frames
  <1> HIDE DEF g
  <1>6. PlanFits(g)
    BY <1>5 DEF PlanFits
  <1> QED
    BY <1>2, <1>5, <1>6, EnterKeeps

\* A call of a composite generator.
LEMMA EnterCompositeKeeps == ASSUME CaseInv, EnterComposite PROVE CaseInv'
  <1> DEFINE g == Inner("composite")
  <1>1. Waiting /\ Enter(g) /\ "composite" \in Kinds
    BY DEF EnterComposite, Kinds
  <1>2. /\ g \in Frames /\ g.k = "composite" /\ g.i = Top.i /\ g.quiet = InnerQuiet /\ g.acc = Nothing
        /\ g.key = Nothing /\ g.new = Nothing /\ g.plan = <<>>
    BY <1>1, InnerTyped
  <1> HIDE DEF g
  <1>3. PlanFits(g)
    BY <1>2 DEF PlanFits
  <1> QED
    BY <1>1, <1>2, <1>3, EnterKeeps

\* The scope of a subtree that is already branching.
LEMMA EnterSubtreeKeeps == ASSUME CaseInv, EnterSubtree PROVE CaseInv'
  <1>1. PICK s \in {stack[n].scope : n \in {m \in DOMAIN stack : stack[m].k = "subtree" /\ stack[m].n = 1}} :
           Enter([Inner("subtree") EXCEPT !.scope = s, !.stage = "decide", !.m = 1])
    BY DEF EnterSubtree
  <1>2. s \in 1..Len(stack) /\ s \in Nat
    <2>1. PICK n \in DOMAIN stack : stack[n].k = "subtree" /\ s = stack[n].scope
      BY <1>1
    <2>2. n \in 1..Len(stack) /\ Place(stack, n) /\ Len(stack) \in Nat
      BY <2>1, TopFacts, StackFacts
    <2>3. n # 1 /\ n \in Nat
      BY <2>1, <2>2 DEF Place
    <2>4. n \in 2..Len(stack)
      BY <2>2, <2>3
    <2>5. Above(stack[n-1], stack[n], n)
      BY <2>4, TopFacts, StackFacts
    <2>6. s \in 1..(n - 1)
      BY <2>1, <2>5 DEF Above
    <2> QED
      BY <2>2, <2>4, <2>6
  <1> DEFINE h == Inner("subtree")
             g == [h EXCEPT !.scope = s, !.stage = "decide", !.m = 1]
  <1>3. Waiting /\ Enter(g) /\ "subtree" \in Kinds /\ "decide" \in Stages
    BY <1>1 DEF EnterSubtree, Kinds, Stages
  <1>4. /\ h \in Frames /\ h.k = "subtree" /\ h.i = Top.i /\ h.quiet = InnerQuiet /\ h.acc = Nothing
        /\ h.key = Nothing /\ h.new = Nothing /\ h.plan = <<>>
    BY <1>3, InnerTyped
  <1> HIDE DEF h
  <1>5. /\ g \in Frames /\ g.k = "subtree" /\ g.i = Top.i /\ g.quiet = InnerQuiet /\ g.acc = Nothing
        /\ g.key = Nothing /\ g.new = Nothing /\ g.plan = <<>> /\ g.m = 1 /\ g.scope = s
    <2>1. 1 \in Int
      OBVIOUS
    <2>2. g \in Frames
      BY <1>2, <1>3, <1>4, <2>1 DEF Frames
    <2> QED
      BY <1>4, <2>2 DEF Frames
  <1> HIDE DEF g
  <1>6. PlanFits(g)
    BY <1>5 DEF PlanFits
  <1> QED
    BY <1>2, <1>3, <1>5, <1>6, EnterKeeps

\* An attempt begins: the root of its value opens a span.
LEMMA EnterRootKeeps == ASSUME CaseInv, EnterRoot PROVE CaseInv'
  <1> DEFINE h == Frame("subtree", Top.i, Top.quiet)
             e == [h EXCEPT !.scope = Len(stack), !.stage = "decide"]
             g == [e EXCEPT !.span = TRUE]
  <1>1. Free /\ Top.k = "recursive" /\ StartSpan(Append(stack, g))
    BY DEF EnterRoot, Calling, Free, Enter
  <1>2. Len(stack) \in Nat /\ "subtree" \in Kinds /\ "decide" \in Stages /\ Len(stack) >= 1
        /\ Top = stack[Len(stack)] /\ Len(stack) \in 1..Len(stack) /\ Len(stack) + 1 - 1 = Len(stack)
    BY TopFacts DEF Kinds, Stages
  <1>3. /\ h \in Frames /\ h.k = "subtree" /\ h.i = Top.i /\ h.quiet = Top.quiet /\ h.acc = Nothing
        /\ h.key = Nothing /\ h.new = Nothing /\ h.plan = <<>> /\ h.m = 0
    <2> DEFINE i == Top.i
               q == Top.quiet
    <2>1. i \in Instances /\ q \in BOOLEAN
      BY TopValues
    <2> HIDE DEF i, q
    <2>2. LET x == Frame("subtree", i, q)
          IN  /\ x \in Frames /\ x.k = "subtree" /\ x.i = i /\ x.quiet = q /\ x.acc = Nothing
              /\ x.key = Nothing /\ x.new = Nothing /\ x.plan = <<>> /\ x.m = 0
      <3>1. CASE q = TRUE
        BY <1>2, <2>1, <3>1, FrameTyped
      <3>2. CASE q = FALSE
        BY <1>2, <2>1, <3>2, FrameTyped
      <3> QED
        BY <2>1, <3>1, <3>2
    <2> QED
      BY <2>2 DEF i, q
  <1> HIDE DEF h
  <1>4. /\ e \in Frames /\ e.k = "subtree" /\ e.i = Top.i /\ e.quiet = Top.quiet /\ e.acc = Nothing
        /\ e.key = Nothing /\ e.new = Nothing /\ e.plan = <<>> /\ e.m = 0 /\ e.scope = Len(stack)
    BY <1>2, <1>3 DEF Frames
  <1> HIDE DEF e
  <1>5. /\ g \in Frames /\ g.k = "subtree" /\ g.i = Top.i /\ g.quiet = Top.quiet /\ g.acc = Nothing
        /\ g.key = Nothing /\ g.new = Nothing /\ g.plan = <<>> /\ g.m = 0 /\ g.scope = Len(stack) /\ g.span = TRUE
    BY <1>4 DEF Frames
  <1> HIDE DEF g
  <1>6. SpanFits(g) /\ PlanFits(g) /\ FrameOpened(g) /\ TextFits(g)
    BY <1>5, NothingTold DEF SpanFits, PlanFits, FrameOpened, TextFits
  <1>7. Above(Top, g, Len(stack) + 1)
    BY <1>1, <1>2, <1>5 DEF Above, Covers, Generators
  <1>8. Enters(stack, g)
    BY <1>2, <1>5, <1>6, <1>7 DEF Enters, FrameOK
  <1> QED
    BY <1>1, <1>5, <1>6, <1>8, EntersOpen

-----------------------------------------------------------------------------
(* Frames without a span of their own, and the test's user code. *)

\* While the case goes on, the call stack fits the open spans.
LEMMA FitsNow == ASSUME CaseInv, Free, engine = "live" PROVE Fits(stack, spans, Root, Child)
  BY TopFacts, GoodNow DEF Fits

\* A frame without a span is pushed onto a stack that fits.
LEMMA FitsPush ==
    ASSUME CaseInv, NEW s, Fits(s, spans, Root, Child), NEW f, Enters(s, f), ~FrameOpened(f), f.k \notin {"rule", "draw"},
           swallowed = FALSE /\ f.k \in {"recursive", "iteration"} => f.base[2] = Len(spans),
           swallowed = FALSE /\ f.k = "recursive" => f.base[1] = f.base[2] - Offset(s)
    PROVE  Fits(Append(s, f), spans, Root, Child)
  <1>1. StackOK(s) /\ \A i \in Instances : DrawsOf(s, i) = DrawsOf(stack, i)
    BY DEF Fits
  <1>2. StackOK(Append(s, f)) /\ \A i \in Instances : DrawsOf(Append(s, f), i) = DrawsOf(s, i)
    BY <1>1, PushOK
  <1>3. spans \in Seq(Nat) /\ Root \in Int /\ Child \in Int
    BY TopFacts
  <1>4. ASSUME swallowed = FALSE PROVE Good(Append(s, f), spans, Root, Child)
    <2>1. Good(s, spans, Root, Child)
      BY <1>4 DEF Fits
    <2> QED
      BY <1>1, <1>3, <1>4, <2>1, GoodPush
  <1> QED
    BY <1>1, <1>2, <1>4 DEF Fits

\* The counter a loop or an attempt remembers agrees with the spans.
LEMMA BaseNow ==
    ASSUME CaseInv, Free, engine = "live"
    PROVE  /\ Depth \in Int /\ Len(spans) \in Nat /\ <<Depth, Len(spans)>> \in Int \X Nat
           /\ swallowed = FALSE => Depth = Len(spans) - Offset(stack)
  <1>1. /\ StackOK(stack) /\ Root \in Int /\ Child \in Int /\ spans \in Seq(Nat)
        /\ (Top.i = "child" <=> OnRule(stack)) /\ Top.i \in Instances
    BY TopFacts
  <1>2. Depth \in Int /\ Depth = (IF Top.i = "root" THEN Root ELSE Child)
    BY <1>1 DEF Depth, Root, Child, Instances
  <1>3. Offset(stack) \in Nat
    BY <1>1, OffsetTyped
  <1>4. ASSUME swallowed = FALSE PROVE Depth = Len(spans) - Offset(stack)
    <2>1. Counted(stack, Root, Child) /\ Root + Child = Len(spans)
      BY <1>4, GoodNow DEF Good
    <2>2. CASE OnRule(stack)
      <3>1. Root = Offset(stack) /\ Depth = Child
        BY <1>1, <1>2, <2>1, <2>2 DEF Counted, Instances
      <3> QED
        BY <3>1, <2>1, <1>1, <1>3
    <2>3. CASE ~OnRule(stack)
      <3>1. Child = 0 /\ Offset(stack) = 0 /\ Depth = Root
        BY <1>1, <1>2, <2>1, <2>3 DEF Counted, Instances, Offset
      <3> QED
        BY <3>1, <2>1, <1>1
    <2> QED
      BY <2>2, <2>3
  <1>5. Len(spans) \in Nat
    BY <1>1
  <1> QED
    BY <1>2, <1>4, <1>5

\* A recursive generator is called and remembers the span depths its attempts are cut back to.
LEMMA EnterRecursiveKeeps == ASSUME CaseInv, EnterRecursive PROVE CaseInv'
  <1> DEFINE h == Inner("recursive")
             b == <<Depth, Len(spans)>>
             g == [h EXCEPT !.base = b]
  <1>1. Free /\ Waiting /\ Choice(Append(stack, g)) /\ "recursive" \in Kinds /\ Top.stage = "waiting"
    BY DEF EnterRecursive, Waiting, Free, Kinds
  <1>2. engine = "live"
    BY <1>1, LiveNow
  <1>3. b \in Int \X Nat /\ b[2] = Len(spans) /\ b[1] = Depth /\ Len(spans) \in Nat
    BY <1>1, <1>2, BaseNow
  <1>4. /\ h \in Frames /\ h.k = "recursive" /\ h.i = Top.i /\ h.quiet = InnerQuiet /\ h.acc = Nothing
        /\ h.key = Nothing /\ h.new = Nothing /\ h.plan = <<>> /\ h.span = FALSE
    BY <1>1, InnerTyped
  <1>5. swallowed = FALSE => b[1] = b[2] - Offset(stack)
    BY <1>1, <1>2, <1>3, BaseNow
  <1> HIDE DEF h, b
  <1>6. /\ g \in Frames /\ g.k = "recursive" /\ g.i = Top.i /\ g.quiet = InnerQuiet /\ g.acc = Nothing
        /\ g.key = Nothing /\ g.new = Nothing /\ g.plan = <<>> /\ g.span = FALSE /\ g.base = b
    BY <1>3, <1>4 DEF Frames
  <1> HIDE DEF g
  <1>7. SpanFits(g) /\ PlanFits(g) /\ ~FrameOpened(g) /\ g.k \in Generators
    BY <1>6 DEF SpanFits, PlanFits, FrameOpened, Generators
  <1>8. Enters(stack, g)
    BY <1>1, <1>6, <1>7, InnerEnters
  <1>9. Fits(Append(stack, g), spans, Root, Child)
    BY <1>1, <1>2, <1>3, <1>5, <1>6, <1>7, <1>8, FitsNow, FitsPush
  <1> QED
    BY <1>1, <1>9, ChoiceKeeps

\* A call of a hand-written generator.
LEMMA EnterCustomKeeps == ASSUME CaseInv, EnterCustom PROVE CaseInv'
  <1> DEFINE g == Inner("custom")
  <1>1. Free /\ Waiting /\ stack' = Append(stack, g) /\ "custom" \in Kinds /\ Top.stage = "waiting"
        /\ UNCHANGED <<inst, spans, engine, data, raising, doc, seen, result>>
    BY DEF EnterCustom, Waiting, Free, Kinds
  <1>2. engine = "live"
    BY <1>1, LiveNow
  <1>6. /\ g \in Frames /\ g.k = "custom" /\ g.i = Top.i /\ g.quiet = InnerQuiet /\ g.acc = Nothing
        /\ g.key = Nothing /\ g.new = Nothing /\ g.plan = <<>> /\ g.span = FALSE
    BY <1>1, InnerTyped
  <1> HIDE DEF g
  <1>7. SpanFits(g) /\ PlanFits(g) /\ ~FrameOpened(g) /\ g.k \in Generators
    BY <1>6 DEF SpanFits, PlanFits, FrameOpened, Generators
  <1>8. Enters(stack, g)
    BY <1>1, <1>6, <1>7, InnerEnters
  <1>9. Fits(Append(stack, g), spans, Root, Child)
    BY <1>1, <1>2, <1>6, <1>7, <1>8, FitsNow, FitsPush
  <1> QED
    BY <1>1, <1>2, <1>9, SilentKeeps

\* recursion_branch decides between a branch and a leaf.
LEMMA BranchKeeps == ASSUME CaseInv, Branch PROVE CaseInv'
  <1>1. PICK branch \in BOOLEAN : Choice(SetTop([Top EXCEPT !.stage = IF branch THEN "waiting" ELSE "leaf",
                                                            !.n = IF branch THEN 1 ELSE 0]))
    BY DEF Branch
  <1>2. Free /\ Top.k = "subtree" /\ Top.stage = "decide"
    BY DEF Branch, Calling, Free
  <1>3. engine = "live" \/ engine # "live"
    OBVIOUS
  <1> DEFINE x == IF branch THEN "waiting" ELSE "leaf"
             n == IF branch THEN 1 ELSE 0
             g == [Top EXCEPT !.stage = x, !.n = n]
  <1>4. Choice(SetTop(g)) /\ x \in Stages /\ n \in Int
    BY <1>1 DEF Stages
  <1> HIDE DEF x, n
  <1>5. /\ g \in Frames /\ g.k = Top.k /\ g.i = Top.i /\ g.quiet = Top.quiet /\ g.span = Top.span
        /\ g.acc = Top.acc /\ g.key = Top.key /\ g.new = Top.new /\ g.plan = Top.plan
        /\ g.base = Top.base /\ g.scope = Top.scope /\ g.kind = Top.kind /\ g.m = Top.m
    BY <1>4, TopFacts DEF Frames
  <1> HIDE DEF g
  <1>6. SpanFits(g) /\ PlanFits(g) /\ TextFits(g) /\ Role(Top, g) /\ (FrameOpened(g) <=> FrameOpened(Top))
    BY <1>2, <1>5, TopValues DEF SpanFits, PlanFits, TextFits, Printing, Hiding, Role, FrameOpened
  <1>7. Kept(Top, g)
    BY <1>5, <1>6 DEF Kept, FrameOK
  <1> QED
    BY <1>2, <1>4, <1>7, FitsTop, ChoiceKeeps

\* User code that draws.
LEMMA DrawSilentKeeps == ASSUME CaseInv, DrawSilent PROVE CaseInv'
  <1> DEFINE g == [Top EXCEPT !.stage = "waiting"]
  <1>1. /\ Free /\ Top.k \in UserFrames /\ stack' = SetTop(g) /\ "waiting" \in Stages
        /\ UNCHANGED <<inst, spans, engine, data, raising, doc, seen, result>>
    BY DEF DrawSilent, UserFree, Free, Stages
  <1>2. engine = "live" /\ Top.k \notin {"filter", "combinator", "list", "machine"}
    BY <1>1, LiveNow DEF UserFrames, BodyFrames
  <1>3. Kept(Top, g)
    BY <1>1, <1>2, TopFacts, StageKept
  <1> HIDE DEF g
  <1> QED
    BY <1>1, <1>2, <1>3, FitsTop, SilentKeeps

\* User code rejects an assumption.
LEMMA RejectKeeps == ASSUME CaseInv, Reject PROVE CaseInv'
  <1>1. Free /\ Top.k \in UserFrames /\ Raise({"AssumeFailed"})
    BY DEF Reject, UserFree, Free
  <1>2. engine = "live"
    BY <1>1, LiveNow DEF UserFrames, BodyFrames
  <1> QED
    BY <1>1, <1>2, Raised DEF Payloads

\* User code panics.
LEMMA PanicKeeps == ASSUME CaseInv, Panic PROVE CaseInv'
  <1>1. Free /\ Top.k \in UserFrames /\ Raise({"Panic"})
    BY DEF Panic, UserFree, Free
  <1>2. engine = "live"
    BY <1>1, LiveNow DEF UserFrames, BodyFrames
  <1> QED
    BY <1>1, <1>2, Raised DEF Payloads

\* A repeat loop that is done raises LoopDone.
LEMMA RepeatDoneKeeps == ASSUME CaseInv, RepeatDone PROVE CaseInv'
  <1>1. Free /\ Top.k = "repeat" /\ Top.stage = "done" /\ Raise({"LoopDone"})
    BY DEF RepeatDone, Calling, Free
  <1>2. engine = "live"
    BY <1>1, LiveNow
  <1> QED
    BY <1>1, <1>2, Raised DEF Payloads

\* repeat is called.
LEMMA EnterRepeatKeeps == ASSUME CaseInv, EnterRepeat PROVE CaseInv'
  <1> DEFINE h == Frame("repeat", Top.i, TRUE)
             g == [h EXCEPT !.stage = "more"]
  <1>1. Free /\ Top.k \in UserFrames /\ Choice(Append(stack, g)) /\ "repeat" \in Kinds /\ "more" \in Stages
    BY DEF EnterRepeat, UserFree, Free, Kinds, Stages
  <1>2. engine = "live" /\ Top.i \in Instances /\ Top = stack[Len(stack)]
    BY <1>1, LiveNow, TopFacts DEF UserFrames, BodyFrames
  <1>3. /\ h \in Frames /\ h.k = "repeat" /\ h.i = Top.i /\ h.plan = <<>> /\ h.span = FALSE
    BY <1>1, <1>2, FrameTyped
  <1> HIDE DEF h
  <1>4. g \in Frames /\ g.k = "repeat" /\ g.i = Top.i /\ g.plan = <<>> /\ g.span = FALSE
    BY <1>1, <1>3 DEF Frames
  <1> HIDE DEF g
  <1>5. SpanFits(g) /\ PlanFits(g) /\ TextFits(g) /\ ~FrameOpened(g)
    BY <1>4 DEF SpanFits, PlanFits, TextFits, Printing, FrameOpened
  <1>6. Enters(stack, g)
    BY <1>2, <1>4, <1>5 DEF Enters, FrameOK, Above, Generators
  <1>7. Fits(Append(stack, g), spans, Root, Child)
    BY <1>1, <1>2, <1>4, <1>5, <1>6, FitsNow, FitsPush
  <1> QED
    BY <1>1, <1>7, ChoiceKeeps

\* repeat goes on, as long as the engine says so.
LEMMA RepeatMoreKeeps == ASSUME CaseInv, RepeatMore PROVE CaseInv'
  <1> DEFINE h == Frame("iteration", Top.i, TRUE)
             b == <<Depth, Len(spans)>>
             g == [h EXCEPT !.base = b]
             e == [Top EXCEPT !.stage = "done"]
  <1>1. Free /\ Top.k = "repeat" /\ Top.stage = "more" /\ "iteration" \in Kinds /\ "done" \in Stages
    BY DEF RepeatMore, Calling, Free, Kinds, Stages
  <1>2. Choice(Append(stack, g)) \/ Choice(SetTop(e))
    <2>1. PICK go \in BOOLEAN : Choice(IF go THEN Append(stack, g) ELSE SetTop(e))
      BY DEF RepeatMore
    <2> QED
      BY <2>1
  <1>3. CASE Choice(SetTop(e))
    <2>1. Kept(Top, e)
      BY <1>1, TopFacts, StageKept
    <2> HIDE DEF e
    <2> QED
      BY <1>1, <1>3, <2>1, FitsTop, ChoiceKeeps
  <1>4. CASE Choice(Append(stack, g))
    <2>1. ASSUME engine = "live" PROVE Fits(Append(stack, g), spans, Root, Child)
      <3>1. Top.i \in Instances /\ Top = stack[Len(stack)]
        BY TopFacts
      <3>2. b \in Int \X Nat /\ b[2] = Len(spans) /\ Len(spans) \in Nat
        BY <1>1, <2>1, BaseNow
      <3>3. /\ h \in Frames /\ h.k = "iteration" /\ h.i = Top.i /\ h.plan = <<>> /\ h.span = FALSE
        BY <1>1, <3>1, FrameTyped
      <3> HIDE DEF h, b
      <3>4. g \in Frames /\ g.k = "iteration" /\ g.i = Top.i /\ g.plan = <<>> /\ g.span = FALSE /\ g.base = b
        BY <3>2, <3>3 DEF Frames
      <3> HIDE DEF g
      <3>5. SpanFits(g) /\ PlanFits(g) /\ TextFits(g) /\ ~FrameOpened(g)
        BY <3>4 DEF SpanFits, PlanFits, TextFits, Printing, FrameOpened
      <3>6. Enters(stack, g)
        BY <1>1, <3>1, <3>4, <3>5 DEF Enters, FrameOK, Above, Generators
      <3> QED
        BY <1>1, <2>1, <3>2, <3>4, <3>5, <3>6, FitsNow, FitsPush
    <2> HIDE DEF g
    <2> QED
      BY <1>1, <1>4, <2>1, ChoiceKeeps
  <1> QED
    BY <1>2, <1>3, <1>4

-----------------------------------------------------------------------------
(* Attempts of a recursive draw, cut back to where they began. *)

\* The spans below a recursive draw.
LEMMA SpansCut ==
    ASSUME NEW s, NEW sp \in Seq(Nat), StackOK(s), Increasing(sp), Based(s, sp),
           \A n \in 1..(Len(s) - 1) : FrameOpened(s[n]) <=> Holds(sp, n),
           NEW c \in 1..Len(s), s[c].k = "recursive"
    PROVE  LET sq == SubSeq(sp, 1, s[c].base[2])
           IN  /\ sq \in Seq(Nat) /\ Len(sq) = s[c].base[2] /\ DOMAIN sq = 1..s[c].base[2] /\ Increasing(sq)
               /\ \A a \in DOMAIN sq : sq[a] < c
               /\ \A n \in 1..(c - 1) : FrameOpened(s[n]) <=> Holds(sq, n)
               /\ ~FrameOpened(s[c]) /\ ~Holds(sq, c)
               /\ \A n \in 1..c : s[n].k \in {"recursive", "iteration", "rule"} =>
                     s[n].base[2] <= Len(sq) /\ \A a \in DOMAIN sq : sq[a] < n <=> a <= s[n].base[2]
  <1> DEFINE b == s[c].base[2]
             sq == SubSeq(sp, 1, b)
  <1>1. Len(s) \in Nat /\ c \in Nat /\ Len(sp) \in Nat /\ DOMAIN sp = 1..Len(sp) /\ b \in Nat /\ b <= Len(sp)
        /\ \A a \in DOMAIN sp : sp[a] \in Nat /\ (sp[a] < c <=> a <= b)
    BY StackFacts, OffsetTyped DEF Based
  <1>2. FrameOK(s[c]) /\ ~FrameOpened(s[c])
    BY StackFacts DEF FrameOK, SpanFits, FrameOpened
  <1> HIDE DEF b
  <1>3. sq \in Seq(Nat) /\ Len(sq) = b /\ DOMAIN sq = 1..b /\ \A a \in 1..b : sq[a] = sp[a] /\ a \in DOMAIN sp
    BY <1>1
  <1> HIDE DEF sq
  <1>4. Increasing(sq)
    BY <1>3 DEF Increasing
  <1>5. \A a \in DOMAIN sq : sq[a] < c /\ sq[a] \in Nat
    BY <1>1, <1>3
  <1>6. ~Holds(sq, c)
    BY <1>1, <1>5 DEF Holds
  <1>7. ASSUME NEW n \in 1..(c - 1) PROVE FrameOpened(s[n]) <=> Holds(sq, n)
    <2>1. n \in 1..(Len(s) - 1) /\ n < c
      BY <1>1
    <2>2. FrameOpened(s[n]) <=> Holds(sp, n)
      BY <2>1
    <2>3. ASSUME NEW a \in DOMAIN sp, sp[a] = n PROVE \E x \in DOMAIN sq : sq[x] = n
      <3>1. a <= b /\ a \in 1..Len(sp)
        BY <1>1, <2>1, <2>3
      <3>2. a \in 1..b
        BY <3>1, <1>1
      <3> QED
        BY <3>2, <2>3, <1>3
    <2>4. ASSUME NEW a \in DOMAIN sq, sq[a] = n PROVE \E x \in DOMAIN sp : sp[x] = n
      BY <2>4, <1>3
    <2> QED
      BY <2>2, <2>3, <2>4 DEF Holds
  <1>8. ASSUME NEW n \in 1..c, s[n].k \in {"recursive", "iteration", "rule"}
        PROVE  s[n].base[2] <= Len(sq) /\ \A a \in DOMAIN sq : sq[a] < n <=> a <= s[n].base[2]
    <2>0. n \in 1..Len(s) /\ n <= c
      BY <1>1
    <2>1. s[n].base[2] <= Len(sp) /\ \A a \in DOMAIN sp : sp[a] < n <=> a <= s[n].base[2]
      BY <1>8, <2>0 DEF Based
    <2>2. s[n].base[2] \in Nat
      BY <2>0, OffsetTyped
    <2>3. s[n].base[2] <= b
      <3>1. CASE s[n].base[2] = 0
        BY <3>1, <1>1
      <3>2. CASE s[n].base[2] # 0
        <4> DEFINE a == s[n].base[2]
        <4>1. a \in DOMAIN sp /\ a <= a
          BY <2>1, <2>2, <3>2, <1>1
        <4>2. sp[a] < n /\ sp[a] \in Nat
          BY <4>1, <2>1, <1>1
        <4>3. sp[a] < c
          BY <4>2, <2>0, <1>1
        <4> QED
          BY <4>1, <4>3, <1>1
      <3> QED
        BY <3>1, <3>2
    <2>4. ASSUME NEW a \in DOMAIN sq PROVE sq[a] < n <=> a <= s[n].base[2]
      BY <2>1, <1>3
    <2> QED
      BY <2>3, <2>4, <1>3
  <1> QED
    BY <1>2, <1>3, <1>4, <1>5, <1>6, <1>7, <1>8 DEF sq, b

\* Cutting takes nothing but spans.
LEMMA CutFacts ==
    ASSUME spans \in Seq(Nat), NEW d \in Nat
    PROVE  /\ CutTo(d) \in Seq(Nat)
           /\ d <= Len(spans) => CutTo(d) = SubSeq(spans, 1, d)
  <1>1. CASE Len(spans) > d
    <2>1. SubSeq(spans, 1, d) \in Seq(Nat)
      BY <1>1
    <2> QED
      BY <1>1, <2>1 DEF CutTo
  <1>2. CASE ~(Len(spans) > d)
    <2>1. d <= Len(spans) => SubSeq(spans, 1, d) = spans
      BY <1>2
    <2> QED
      BY <1>2, <2>1 DEF CutTo
  <1> QED
    BY <1>1, <1>2

\* The attempt begins again on the spans and the counter it began with.
LEMMA GoodCaught ==
    ASSUME NEW s, NEW sp \in Seq(Nat), NEW root \in Int, NEW child \in Int, StackOK(s), Increasing(sp), Based(s, sp),
           Counted(s, root, child), s[Len(s)].k = "recursive", Len(sp) = s[Len(s)].base[2],
           \A n \in 1..(Len(s) - 1) : FrameOpened(s[n]) <=> Holds(sp, n)
    PROVE  IF OnRule(s) THEN Good(s, sp, root, s[Len(s)].base[1]) ELSE Good(s, sp, s[Len(s)].base[1], child)
  <1> DEFINE b == s[Len(s)].base
  <1>1. Len(s) \in Nat /\ Len(s) \in 1..Len(s) /\ Len(sp) \in Nat /\ DOMAIN sp = 1..Len(sp)
        /\ b[1] \in Int /\ b[2] \in Nat /\ Offset(s) \in Nat /\ \A a \in DOMAIN sp : sp[a] \in Nat
    BY StackFacts, OffsetTyped
  <1>2. b[1] = b[2] - Offset(s) /\ \A a \in DOMAIN sp : sp[a] < Len(s) <=> a <= b[2]
    BY <1>1 DEF Based
  <1>3. FrameOK(s[Len(s)]) /\ ~FrameOpened(s[Len(s)])
    BY <1>1, StackFacts DEF FrameOK, SpanFits, FrameOpened
  <1> HIDE DEF b
  <1>4. \A a \in DOMAIN sp : sp[a] < Len(s) /\ sp[a] <= Len(s)
    BY <1>1, <1>2 DEF b
  <1>5. ~Holds(sp, Len(s))
    BY <1>1, <1>4 DEF Holds
  <1>6. \A n \in 1..Len(s) : FrameOpened(s[n]) <=> Holds(sp, n)
    <2> TAKE n \in 1..Len(s)
    <2>1. n = Len(s) \/ n \in 1..(Len(s) - 1)
      BY <1>1
    <2> QED
      BY <2>1, <1>3, <1>5
  <1>7. CASE OnRule(s)
    <2>1. Counted(s, root, b[1]) /\ root + b[1] = Len(sp)
      BY <1>1, <1>2, <1>7 DEF Counted, b
    <2> QED
      BY <2>1, <1>4, <1>6, <1>7 DEF Good, b
  <1>8. CASE ~OnRule(s)
    <2>1. Counted(s, b[1], child) /\ b[1] + child = Len(sp)
      BY <1>1, <1>2, <1>8 DEF Counted, Offset, b
    <2> QED
      BY <2>1, <1>4, <1>6, <1>8 DEF Good, b
  <1> QED
    BY <1>7, <1>8 DEF b

\* A frame counts.
LEMMA NumberKept ==
    ASSUME NEW f, FrameOK(f), NEW x \in Int
    PROVE  Kept(f, [f EXCEPT !.n = x]) /\ [f EXCEPT !.n = x].stage = f.stage /\ [f EXCEPT !.n = x].plan = f.plan
  <1> DEFINE g == [f EXCEPT !.n = x]
  <1>1. f \in Frames /\ SpanFits(f) /\ TextFits(f) /\ PlanFits(f)
    BY DEF FrameOK
  <1>2. /\ g \in Frames /\ g.k = f.k /\ g.i = f.i /\ g.quiet = f.quiet /\ g.span = f.span /\ g.acc = f.acc
        /\ g.key = f.key /\ g.new = f.new /\ g.base = f.base /\ g.scope = f.scope /\ g.m = f.m
        /\ g.plan = f.plan /\ g.stage = f.stage /\ g.kind = f.kind
    <2>1. 0 \in Int
      OBVIOUS
    <2>2. g \in Frames
      BY <1>1, <2>1 DEF Frames
    <2> QED
      BY <1>1, <2>2 DEF Frames
  <1> HIDE DEF g
  <1>3. SpanFits(g) /\ PlanFits(g) /\ TextFits(g) /\ Role(f, g) /\ (FrameOpened(g) <=> FrameOpened(f))
    BY <1>1, <1>2 DEF SpanFits, PlanFits, TextFits, Printing, Hiding, Role, FrameOpened
  <1> QED
    BY <1>2, <1>3 DEF Kept, FrameOK, g

\* A recursive generator starts an attempt or a pricing anew.
LEMMA RepriceKept ==
    ASSUME NEW f, FrameOK(f), NEW x \in Int, f.k # "subtree"
    PROVE  /\ Kept(f, [f EXCEPT !.n = 0, !.r = x]) /\ Kept(f, [f EXCEPT !.n = 0, !.m = x])
           /\ [f EXCEPT !.n = 0, !.r = x].stage = f.stage /\ [f EXCEPT !.n = 0, !.r = x].plan = f.plan
  <1> DEFINE g == [f EXCEPT !.n = 0, !.r = x]
             h == [f EXCEPT !.n = 0, !.m = x]
  <1>1. f \in Frames /\ SpanFits(f) /\ TextFits(f) /\ PlanFits(f)
    BY DEF FrameOK
  <1>2. /\ g \in Frames /\ g.k = f.k /\ g.i = f.i /\ g.quiet = f.quiet /\ g.span = f.span /\ g.acc = f.acc
        /\ g.key = f.key /\ g.new = f.new /\ g.base = f.base /\ g.scope = f.scope
        /\ g.plan = f.plan /\ g.stage = f.stage /\ g.kind = f.kind
    <2>1. 0 \in Int
      OBVIOUS
    <2>2. g \in Frames
      BY <1>1, <2>1 DEF Frames
    <2> QED
      BY <1>1, <2>2 DEF Frames
  <1>3. /\ h \in Frames /\ h.k = f.k /\ h.i = f.i /\ h.quiet = f.quiet /\ h.span = f.span /\ h.acc = f.acc
        /\ h.key = f.key /\ h.new = f.new /\ h.base = f.base /\ h.scope = f.scope
        /\ h.plan = f.plan /\ h.stage = f.stage /\ h.kind = f.kind
    <2>1. 0 \in Int
      OBVIOUS
    <2>2. h \in Frames
      BY <1>1, <2>1 DEF Frames
    <2> QED
      BY <1>1, <2>2 DEF Frames
  <1> HIDE DEF g, h
  <1>4. SpanFits(g) /\ PlanFits(g) /\ TextFits(g) /\ Role(f, g) /\ (FrameOpened(g) <=> FrameOpened(f))
    BY <1>1, <1>2 DEF SpanFits, PlanFits, TextFits, Printing, Hiding, Role, FrameOpened
  <1>5. SpanFits(h) /\ PlanFits(h) /\ TextFits(h) /\ Role(f, h) /\ (FrameOpened(h) <=> FrameOpened(f))
    BY <1>1, <1>3 DEF SpanFits, PlanFits, TextFits, Printing, Hiding, Role, FrameOpened
  <1> QED
    BY <1>2, <1>3, <1>4, <1>5 DEF Kept, FrameOK, g, h

\* A frame anywhere in the stack that keeps its role.
LEMMA ChangeSteady ==
    ASSUME NEW s, StackOK(s), NEW c \in 1..Len(s), NEW f, Kept(s[c], f), f.stage = s[c].stage, f.plan = s[c].plan
    PROVE  Steady(s, [s EXCEPT ![c] = f])
  <1> DEFINE t == [s EXCEPT ![c] = f]
  <1>1. s \in Seq(Frames) /\ Len(s) \in Nat /\ f \in Frames /\ DOMAIN s = 1..Len(s)
    BY StackFacts DEF Kept, FrameOK
  <1>2. t \in Seq(Frames) /\ Len(t) = Len(s) /\ t[c] = f /\ \A n \in 1..Len(s) : n # c => t[n] = s[n]
    BY <1>1
  <1> HIDE DEF t
  <1>3. ASSUME NEW n \in 1..Len(s)
        PROVE  /\ Role(s[n], t[n]) /\ FrameOK(t[n]) /\ t[n].stage = s[n].stage /\ t[n].plan = s[n].plan
               /\ (FrameOpened(t[n]) <=> FrameOpened(s[n])) /\ t[n].base = s[n].base
    <2>1. CASE n = c
      BY <2>1, <1>2 DEF Kept
    <2>2. CASE n # c
      <3>1. t[n] = s[n] /\ FrameOK(s[n])
        BY <2>2, <1>2, StackFacts
      <3> QED
        BY <3>1 DEF Role
    <2> QED
      BY <2>1, <2>2
  <1>4. Steps(s, t)
    BY <1>1, <1>2, <1>3 DEF Steps
  <1> QED
    BY <1>3, <1>4 DEF Steady, t

\* A payload raised by a step that moves the stack.
LEMMA RaiseMoves ==
    ASSUME CaseInv, Free, engine = "live", NEW t, Fits(t, spans, Root, Child), stack' = t,
           raising' \in Payloads \ {"", "AttemptMispriced"},
           UNCHANGED <<inst, spans, engine, data, doc, seen, result>>
    PROVE  CaseInv'
  <1>1. StackOK(stack') /\ \A i \in Instances : DrawsOf(stack', i) = DrawsOf(stack, i)
    BY DEF Fits
  <1>2. CaseTypes'
    BY TopFacts DEF CaseTypes, doc, seen, Free
  <1>3. NotesInv'
    BY <1>1, TopFacts, NotesSame DEF doc
  <1>4. SpansInv'
    <2> SUFFICES ASSUME swallowed = FALSE
                 PROVE  Left(t, spans, Root, Child, raising')
      BY DEF SpansInv, Root, Child, Free, seen
    <2>1. StackOK(t) /\ Good(t, spans, Root, Child)
      BY DEF Fits
    <2> QED
      BY <2>1, GoodLeft
  <1>5. VerdictInv' /\ MispricedInv' /\ LineIsTheValue'
    BY TopFacts DEF VerdictInv, MispricedInv, Free, doc, LineIsTheValue
  <1> QED
    BY <1>1, <1>2, <1>3, <1>4, <1>5 DEF CaseInv

\* A stack that fits stays fitting while it stays steady.
LEMMA FitsThen ==
    ASSUME CaseInv, NEW s, Fits(s, spans, Root, Child), NEW t, Steady(s, t)
    PROVE  Fits(t, spans, Root, Child)
  <1>1. StackOK(s) /\ Steps(s, t)
    BY DEF Fits, Steady
  <1>2. spans \in Seq(Nat) /\ Root \in Int /\ Child \in Int
    BY TopFacts
  <1>3. StackOK(t) /\ \A i \in Instances : DrawsOf(t, i) = DrawsOf(s, i)
    BY <1>1, StepsOK
  <1>4. swallowed = FALSE => Good(t, spans, Root, Child)
    BY <1>1, GoodSteady DEF Fits
  <1> QED
    BY <1>3, <1>4 DEF Fits

\* recursion_leaf counts the leaf, or unwinds the attempt that overspends its budget.
LEMMA CountLeafKeeps == ASSUME CaseInv, CountLeaf PROVE CaseInv'
  <1> DEFINE c == Top.scope
             g == [Top EXCEPT !.stage = "waiting"]
             s == SetTop(g)
             t == [s EXCEPT ![c].n = @ + 1]
  <1>1. Free /\ Top.k = "subtree" /\ "waiting" \in Stages
    BY DEF CountLeaf, Calling, Free, Stages
  <1>2. UNCHANGED <<inst, spans, engine, data, doc, seen, result>>
    BY DEF CountLeaf
  <1>3. CASE Refused /\ UNCHANGED stack
    <2>1. inst' \in [Instances -> [span_depth : Int, printing_depth : Int, pending : Seq(Nat)]]
      BY <1>2, TopFacts DEF CaseTypes
    <2> QED
      BY <1>1, <1>2, <1>3, <2>1, RefusedKeeps
  <1>4. CASE engine = "live" /\ stack' = t /\ raising' \in {"", "LeafBudgetExceeded"}
    <2>1. Kept(Top, g)
      BY <1>1, TopFacts, StageKept
    <2>2. Fits(s, spans, Root, Child)
      BY <1>1, <1>4, <2>1, FitsTop
    <2>3. c \in 1..Len(s) /\ StackOK(s)
      <3>1. Above(stack[Len(stack) - 1], Top, Len(stack)) /\ Len(stack) \in Nat
        BY <1>1, TopFacts
      <3>2. c \in 1..(Len(stack) - 1)
        BY <1>1, <3>1 DEF Above
      <3>3. Len(s) = Len(stack)
        BY <2>1, TopTurns DEF Kept
      <3> HIDE DEF s
      <3> QED
        BY <3>1, <3>2, <3>3, <2>2 DEF Fits
    <2> HIDE DEF s, c, g
    <2>4. s[c] \in Frames /\ FrameOK(s[c])
      BY <2>3, StackFacts
    <2> DEFINE x == s[c].n + 1
               f == [s[c] EXCEPT !.n = x]
    <2>5. x \in Int
      BY <2>4 DEF Frames
    <2>6. t = [s EXCEPT ![c] = f]
      OBVIOUS
    <2>7. Kept(s[c], f) /\ f.stage = s[c].stage /\ f.plan = s[c].plan
      <3> HIDE DEF x
      <3> QED
        BY <2>4, <2>5, NumberKept
    <2> HIDE DEF f, t
    <2>8. Steady(s, t)
      BY <2>3, <2>6, <2>7, ChangeSteady
    <2>9. Fits(t, spans, Root, Child)
      BY <2>2, <2>8, FitsThen
    <2>10. CASE raising' = ""
      <3>1. raising' = raising
        BY <1>1, <2>10 DEF Free
      <3> QED
        BY <1>1, <1>2, <1>4, <2>9, <3>1, SilentKeeps
    <2>11. CASE raising' = "LeafBudgetExceeded"
      <3>1. raising' \in Payloads \ {"", "AttemptMispriced"}
        BY <2>11 DEF Payloads
      <3> QED
        BY <1>1, <1>2, <1>4, <2>9, <3>1, RaiseMoves
    <2> QED
      BY <1>4, <2>10, <2>11
  <1> QED
    <2>1. \/ Refused /\ UNCHANGED stack
          \/ engine = "live" /\ stack' = t /\ raising' \in {"", "LeafBudgetExceeded"}
      BY DEF CountLeaf
    <2> QED
      BY <1>3, <1>4, <2>1

\* The root of a recursive draw finds its attempt mispriced: spans are cut, and the unwind begins.
LEMMA MispricedKeeps == ASSUME CaseInv, Mispriced PROVE CaseInv'
  <1> DEFINE c == Len(stack) - 1
             f == [stack[c] EXCEPT !.n = 0, !.r = @ + 1]
             t == [stack EXCEPT ![c] = f]
             sq == CutTo(stack[c].base[2])
  <1>1. Free /\ Top.k = "subtree" /\ Top.m = 0 /\ engine = "live" /\ raising' = "AttemptMispriced"
        /\ UNCHANGED <<inst, engine, data, doc, seen, result>>
    BY DEF Mispriced, Calling, Free
  <1>2. /\ StackOK(stack) /\ Len(stack) >= 2 /\ Len(stack) \in Nat /\ Top = stack[Len(stack)]
        /\ Top.scope = c /\ stack[c].k = "recursive" /\ c \in 1..Len(stack) /\ spans \in Seq(Nat)
        /\ FrameOK(stack[c]) /\ stack[c] \in Frames /\ Root \in Int /\ Child \in Int
    <2>1. Above(stack[c], Top, Len(stack)) /\ Len(stack) >= 2 /\ Len(stack) \in Nat /\ StackOK(stack)
          /\ Top = stack[Len(stack)] /\ spans \in Seq(Nat) /\ Root \in Int /\ Child \in Int
      BY <1>1, TopFacts
    <2>2. c \in 1..Len(stack)
      BY <2>1
    <2>3. Top.scope = c /\ stack[c].k = "recursive"
      BY <1>1, <2>1 DEF Above
    <2> QED
      BY <2>1, <2>2, <2>3, StackFacts
  <1>3. spans' = sq
    BY <1>2 DEF Mispriced
  <1>4. stack' = t
    <2>1. stack' = [stack EXCEPT ![c].n = 0, ![c].r = @ + 1]
      BY <1>2 DEF Mispriced
    <2>2. stack \in Seq(Frames) /\ c \in DOMAIN stack
      BY <1>2, StackFacts
    <2> HIDE DEF c
    <2> QED
      BY <2>1, <2>2
  <1> HIDE DEF c, t
  <1>5. Kept(stack[c], f) /\ f.stage = stack[c].stage /\ f.plan = stack[c].plan
    <2> DEFINE x == stack[c].r + 1
    <2>1. x \in Int /\ stack[c].k # "subtree"
      BY <1>2 DEF Frames
    <2>2. f = [stack[c] EXCEPT !.n = 0, !.r = x]
      OBVIOUS
    <2> HIDE DEF x, f
    <2> QED
      BY <1>2, <2>1, <2>2, RepriceKept
  <1> HIDE DEF f
  <1>6. Steady(stack, t) /\ Steps(stack, t)
    BY <1>2, <1>5, ChangeSteady DEF Steady, t
  <1>7. StackOK(t) /\ \A i \in Instances : DrawsOf(t, i) = DrawsOf(stack, i)
    BY <1>2, <1>6, StepsOK
  <1>8. Len(t) = Len(stack) /\ \A n \in 1..Len(stack) : t[n].k = stack[n].k /\ t[n].base = stack[n].base
        /\ (FrameOpened(t[n]) <=> FrameOpened(stack[n]))
    BY <1>6 DEF Steady, Steps, Role
  <1>9. sq \in Seq(Nat)
    <2>1. stack[c].base[2] \in Nat
      BY <1>2, OffsetTyped
    <2> QED
      BY <2>1, <1>2, CutFacts
  <1>10. CaseTypes'
    BY <1>1, <1>3, <1>9, TopFacts DEF CaseTypes, doc, seen, Free, Payloads
  <1>11. NotesInv'
    BY <1>1, <1>4, <1>7, TopFacts, NotesSame DEF doc
  <1>12. ASSUME swallowed = FALSE PROVE Left(t, sq, Root, Child, "AttemptMispriced")
    <2>1. Good(stack, spans, Root, Child)
      BY <1>1, <1>12, GoodNow
    <2>2. Increasing(spans) /\ Based(stack, spans) /\ Counted(stack, Root, Child)
          /\ \A n \in 1..(Len(stack) - 1) : FrameOpened(stack[n]) <=> Holds(spans, n)
      BY <2>1, <1>2 DEF Good
    <2>9. sq = SubSeq(spans, 1, stack[c].base[2])
      <3>1. stack[c].base[2] \in Nat /\ stack[c].base[2] <= Len(spans)
        BY <1>2, <2>2, OffsetTyped DEF Based
      <3> QED
        BY <1>2, <3>1, CutFacts
    <2> HIDE DEF sq
    <2>3. /\ Len(sq) = stack[c].base[2] /\ Increasing(sq)
          /\ \A n \in 1..(c - 1) : FrameOpened(stack[n]) <=> Holds(sq, n)
          /\ ~FrameOpened(stack[c]) /\ ~Holds(sq, c)
          /\ \A n \in 1..c : stack[n].k \in {"recursive", "iteration", "rule"} =>
                stack[n].base[2] <= Len(sq) /\ \A a \in DOMAIN sq : sq[a] < n <=> a <= stack[n].base[2]
      BY <1>2, <2>2, <2>9, SpansCut
    <2>4. Based(stack, sq)
      <3>1. \A n \in 1..Len(stack) : n \in 1..c \/ n = Len(stack)
        BY <1>2 DEF c
      <3>2. stack[Len(stack)].k = "subtree"
        BY <1>1, <1>2
      <3> QED
        BY <2>2, <2>3, <3>1, <3>2 DEF Based
    <2>5. Based(t, sq) /\ Counted(t, Root, Child)
      BY <1>2, <1>6, <1>8, <2>2, <2>4, BasedSame, CountedSame
    <2>6. \A n \in 1..(Len(t) - 1) : FrameOpened(t[n]) <=> Holds(sq, n)
      <3>1. \A n \in 1..(Len(t) - 1) : n \in 1..Len(stack) /\ (n \in 1..(c - 1) \/ n = c)
        BY <1>2, <1>8 DEF c
      <3> QED
        BY <1>8, <2>3, <3>1
    <2>7. /\ c \in {Len(t) - 1, Len(t)} \cap 1..Len(t) /\ t[c].k = "recursive" /\ Len(sq) = t[c].base[2]
          /\ t[Len(t)].k = "subtree"
      BY <1>1, <1>2, <1>8, <2>3 DEF c
    <2> QED
      BY <2>3, <2>5, <2>6, <2>7 DEF Left
  <1>13. SpansInv'
    BY <1>1, <1>3, <1>4, <1>12 DEF SpansInv, Root, Child, seen
  <1>14. VerdictInv' /\ LineIsTheValue'
    BY <1>1, TopFacts DEF VerdictInv, doc, LineIsTheValue
  <1>15. MispricedInv'
    <2>1. Top' = t[Len(t)] /\ Len(t) = Len(stack) /\ t[Len(stack)].k = "subtree" /\ t[Len(stack) - 1].k = "recursive"
      <3>1. Top' = t[Len(t)]
        BY <1>4 DEF Top, Last
      <3>2. Len(t) = Len(stack) /\ Len(stack) \in 1..Len(stack) /\ Len(stack) - 1 \in 1..Len(stack)
        BY <1>2, <1>8
      <3>3. t[Len(stack)].k = "subtree"
        BY <1>1, <1>2, <1>8, <3>2
      <3>4. c = Len(stack) - 1
        BY DEF c
      <3>5. t[Len(stack) - 1].k = "recursive"
        BY <1>2, <1>8, <3>2, <3>4
      <3> QED
        BY <3>1, <3>2, <3>3, <3>5
    <2> QED
      BY <2>1, <1>2, <1>4 DEF MispricedInv
  <1> QED
    BY <1>4, <1>7, <1>10, <1>11, <1>13, <1>14, <1>15 DEF CaseInv

-----------------------------------------------------------------------------
(* The sequential state machine. *)

\* The machine is the second frame, and its span is open except between two steps.
LEMMA MachineFacts ==
    ASSUME CaseInv, Top.k = "machine"
    PROVE  /\ Len(stack) = 2 /\ Top.i = "root" /\ Top.span = FALSE
           /\ FrameOpened(Top) <=> Top.stage \in {"group", "rule", "joined", "last"}
           /\ ~OnRule(stack) /\ DrawsOf(stack, "child") = {}
  <1>1. Place(stack, Len(stack)) /\ Top = stack[Len(stack)] /\ Len(stack) \in Nat /\ SpanFits(Top)
    BY TopFacts, TopValues
  <1>2. Len(stack) = 2
    BY <1>1 DEF Place
  <1>3. ~OnRule(stack)
    BY <1>2 DEF OnRule
  <1>4. Top.i = "root"
    BY <1>3, TopFacts DEF Instances
  <1>5. \A n \in 1..Len(stack) : stack[n].i # "child"
    <2>1. \A n \in 1..Len(stack) : Place(stack, n)
      BY TopFacts, StackFacts
    <2> QED
      BY <1>3, <2>1 DEF Place
  <1> QED
    BY <1>1, <1>2, <1>3, <1>4, <1>5 DEF SpanFits, FrameOpened, DrawsOf

\* The body moves into the runner of a state machine.
LEMMA RunMachineKeeps == ASSUME CaseInv, RunMachine PROVE CaseInv'
  <1> DEFINE e == [Top EXCEPT !.stage = "moved"]
             s == SetTop(e)
             g == Frame("machine", "root", TRUE)
  <1>1. Free /\ Top.k = "body" /\ stack' = Append(s, g) /\ "machine" \in Kinds /\ "moved" \in Stages
        /\ "root" \in Instances /\ UNCHANGED <<inst, spans, engine, data, raising, doc, seen, result>>
    BY DEF RunMachine, UserFree, Free, Kinds, Stages, Instances
  <1>2. engine = "live" /\ Place(stack, Len(stack)) /\ Top = stack[Len(stack)] /\ Len(stack) \in Nat
    BY <1>1, LiveNow, TopFacts
  <1>3. Len(stack) = 1 /\ Top.i = "root"
    <2>1. Len(stack) = 1
      BY <1>1, <1>2 DEF Place
    <2> QED
      BY <2>1, TopFacts DEF Instances, OnRule
  <1>4. e.i = Top.i /\ e.stage = "moved"
    BY TopFacts DEF Frames
  <1>5. Kept(Top, e)
    BY <1>1, TopFacts, StageKept
  <1> HIDE DEF e
  <1>6. Fits(s, spans, Root, Child) /\ Len(s) = 1 /\ s[Len(s)] = e
    <2>1. FrameOK(e) /\ Role(Top, e) /\ e.base = Top.base
      BY <1>5 DEF Kept
    <2> QED
      BY <1>1, <1>2, <1>3, <1>5, <2>1, FitsTop, TopTurns
  <1> HIDE DEF s
  <1>7. /\ g \in Frames /\ g.k = "machine" /\ g.i = "root" /\ g.plan = <<>> /\ g.span = FALSE
        /\ g.quiet = TRUE /\ g.stage = "start"
    BY <1>1, FrameTyped
  <1> HIDE DEF g
  <1>8. SpanFits(g) /\ PlanFits(g) /\ TextFits(g) /\ ~FrameOpened(g)
    BY <1>7 DEF SpanFits, PlanFits, TextFits, Printing, FrameOpened
  <1>9. Enters(s, g)
    BY <1>3, <1>4, <1>6, <1>7, <1>8 DEF Enters, FrameOK, Above, Generators
  <1>10. Fits(Append(s, g), spans, Root, Child)
    BY <1>6, <1>7, <1>8, <1>9, FitsPush
  <1> QED
    BY <1>1, <1>2, <1>10, SilentKeeps

\* The machine at a stage.
LEMMA MachineAt ==
    ASSUME CaseInv, Top.k = "machine", NEW x \in {"start", "group", "rule", "joined", "last"}
    PROVE  LET f == [Top EXCEPT !.stage = x]
           IN  /\ FrameOK(f) /\ Role(Top, f) /\ f.base = Top.base
               /\ FrameOpened(f) <=> x # "start"
  <1> DEFINE f == [Top EXCEPT !.stage = x]
  <1>1. x \in Stages /\ Top.span = FALSE
    BY MachineFacts DEF Stages
  <1>2. /\ f \in Frames /\ f.k = Top.k /\ f.i = Top.i /\ f.quiet = Top.quiet /\ f.span = Top.span
        /\ f.acc = Top.acc /\ f.key = Top.key /\ f.new = Top.new /\ f.plan = Top.plan
        /\ f.base = Top.base /\ f.scope = Top.scope /\ f.kind = Top.kind /\ f.m = Top.m /\ f.stage = x
    BY <1>1, TopFacts DEF Frames
  <1> HIDE DEF f
  <1>3. SpanFits(f) /\ PlanFits(f) /\ TextFits(f) /\ Role(Top, f) /\ (FrameOpened(f) <=> x # "start")
    BY <1>1, <1>2, TopValues DEF SpanFits, PlanFits, TextFits, Printing, Hiding, Role, FrameOpened
  <1> QED
    BY <1>2, <1>3 DEF FrameOK, f

\* The runner opens the span of its step.
LEMMA OpenStepKeeps == ASSUME CaseInv, OpenStep PROVE CaseInv'
  <1> DEFINE f == [Top EXCEPT !.stage = "group"]
  <1>1. Free /\ Top.k = "machine" /\ Top.stage = "start" /\ StartSpan(SetTop(f))
    BY DEF OpenStep, Calling, Free
  <1>2. FrameOK(f) /\ Role(Top, f) /\ f.base = Top.base /\ FrameOpened(f)
    BY <1>1, MachineAt
  <1>3. ~FrameOpened(Top) /\ Top.k \notin {"recursive", "iteration", "rule"}
    BY <1>1, MachineFacts
  <1> HIDE DEF f
  <1> QED
    BY <1>1, <1>2, <1>3, ReopensTop

\* The runner draws whether to run another rule.
LEMMA NextGroupKeeps == ASSUME CaseInv, NextGroup PROVE CaseInv'
  <1>1. Free /\ Top.k = "machine" /\ Top.stage = "group"
    BY DEF NextGroup, Calling, Free
  <1>2. PICK x \in {"rule", "last"} : Choice(SetTop([Top EXCEPT !.stage = x]))
    <2>1. PICK go \in BOOLEAN : Choice(SetTop([Top EXCEPT !.stage = IF go THEN "rule" ELSE "last"]))
      BY DEF NextGroup
    <2>2. CASE go = TRUE
      BY <2>1, <2>2
    <2>3. CASE go = FALSE
      BY <2>1, <2>3
    <2> QED
      BY <2>2, <2>3
  <1> DEFINE f == [Top EXCEPT !.stage = x]
  <1>3. Kept(Top, f)
    BY <1>1, TopFacts, MachineKept
  <1> HIDE DEF f
  <1>4. engine = "live" => Fits(SetTop(f), spans, Root, Child)
    BY <1>1, <1>3, FitsTop
  <1> QED
    BY <1>1, <1>2, <1>4, ChoiceKeeps DEF f

\* The runner closes the span of its step after the rule joined.
LEMMA CloseStepKeeps == ASSUME CaseInv, CloseStep PROVE CaseInv'
  <1> DEFINE f == [Top EXCEPT !.stage = "start"]
  <1>1. Free /\ Top.k = "machine" /\ Top.stage = "joined" /\ StopSpan(SetTop(f))
    BY DEF CloseStep, Calling, Free
  <1>2. FrameOK(f) /\ Role(Top, f) /\ f.base = Top.base /\ ~FrameOpened(f)
    BY <1>1, MachineAt
  <1>3. FrameOpened(Top)
    BY <1>1, MachineFacts
  <1> HIDE DEF f
  <1> QED
    BY <1>1, <1>2, <1>3, ClosesTop

\* The runner closes its last span and returns.
LEMMA CloseLastKeeps == ASSUME CaseInv, CloseLast PROVE CaseInv'
  <1>1. Free /\ Top.k = "machine" /\ Top.stage = "last" /\ StopSpan(Rest)
    BY DEF CloseLast, Calling, Free
  <1>2. /\ StackOK(stack) /\ Len(stack) >= 2 /\ Top = stack[Len(stack)] /\ Root \in Int /\ Child \in Int
        /\ spans \in Seq(Nat) /\ ~OnRule(stack) /\ Top.i = "root" /\ FrameOpened(Top)
    BY <1>1, TopFacts, MachineFacts
  <1> DEFINE open == IF spans = <<>> THEN spans ELSE Front(spans)
  <1>3. StackOK(Rest) /\ \A i \in Instances : DrawsOf(Rest, i) = DrawsOf(stack, i)
    BY <1>1, <1>2, PopOK DEF Rest
  <1>4. Depth \in Int /\ Depth - 1 \in Int /\ Depth = Root
    BY <1>2 DEF Depth, Root
  <1>5. open \in Seq(Nat)
    <2>1. spans # <<>> => Len(spans) >= 1
      BY <1>2
    <2> QED
      BY <1>2, <2>1, EndsOf
  <1>6. Call(Rest, open, Depth - 1)
    BY <1>1 DEF StopSpan
  <1>7. ASSUME engine = "live", swallowed = FALSE
        PROVE  Good(Rest, open, RootNow(Depth - 1), ChildNow(Depth - 1))
    <2>1. Good(stack, spans, Root, Child)
      BY <1>1, <1>7, GoodNow
    <2>2. spans # <<>> /\ Good(Rest, Front(spans), Root - 1, Child)
      BY <1>2, <2>1, GoodClosePop DEF Rest
    <2> QED
      BY <1>2, <1>4, <2>2 DEF RootNow, ChildNow
  <1> HIDE DEF open
  <1>8. engine = "live" => Fits(Rest, open, RootNow(Depth - 1), ChildNow(Depth - 1))
    BY <1>3, <1>7 DEF Fits
  <1> QED
    BY <1>1, <1>4, <1>5, <1>6, <1>8, CallKeeps

\* The runner calls a rule on a child instance, which starts counting its spans from zero.
LEMMA CallRuleKeeps == ASSUME CaseInv, CallRule PROVE CaseInv'
  <1> DEFINE e == [Top EXCEPT !.stage = "joined"]
             s == SetTop(e)
             h == Frame("rule", "child", TRUE)
             b == <<0, Len(spans)>>
             g == [h EXCEPT !.base = b]
             t == Append(s, g)
  <1>1. Free /\ Top.k = "machine" /\ Top.stage = "rule" /\ "rule" \in Kinds /\ "child" \in Instances
        /\ stack' = t /\ inst' = [inst EXCEPT !.child = Fresh]
        /\ UNCHANGED <<spans, engine, data, raising, doc, seen, result>>
    BY DEF CallRule, Calling, Free, Kinds, Instances
  <1>2. engine = "live" /\ Len(stack) = 2 /\ DrawsOf(stack, "child") = {} /\ spans \in Seq(Nat)
        /\ Root \in Int /\ Child \in Int
    BY <1>1, LiveNow, TopFacts, MachineFacts
  <1>3. e.k = "machine" /\ e.stage = "joined"
    BY <1>1, TopFacts DEF Frames
  <1>4. Kept(Top, e)
    BY <1>1, TopFacts, MachineKept
  <1> HIDE DEF e
  <1>5. Fits(s, spans, Root, Child) /\ Len(s) = 2 /\ s[Len(s)] = e
    <2>1. FrameOK(e) /\ Role(Top, e) /\ e.base = Top.base
      BY <1>4 DEF Kept
    <2> QED
      BY <1>1, <1>2, <1>4, <2>1, FitsTop, TopTurns
  <1> HIDE DEF s
  <1>6. b \in Int \X Nat /\ b[2] = Len(spans)
    <2>1. 0 \in Int /\ Len(spans) \in Nat
      BY <1>2
    <2> QED
      BY <2>1
  <1>7. h \in Frames /\ h.k = "rule" /\ h.i = "child" /\ h.plan = <<>> /\ h.span = FALSE /\ h.quiet = TRUE
    BY <1>1, FrameTyped
  <1> HIDE DEF h, b
  <1>8. /\ g \in Frames /\ g.k = "rule" /\ g.i = "child" /\ g.plan = <<>> /\ g.span = FALSE /\ g.quiet = TRUE
        /\ g.base = b
    BY <1>6, <1>7 DEF Frames
  <1> HIDE DEF g
  <1>9. SpanFits(g) /\ PlanFits(g) /\ TextFits(g)
    BY <1>8 DEF SpanFits, PlanFits, TextFits, Printing
  <1>10. Enters(s, g)
    BY <1>3, <1>5, <1>8, <1>9 DEF Enters, FrameOK, Above, Generators
  <1>11. StackOK(s) /\ (swallowed = FALSE => Good(s, spans, Root, Child))
         /\ \A i \in Instances : DrawsOf(s, i) = DrawsOf(stack, i)
    BY <1>5 DEF Fits
  <1>12. StackOK(t) /\ \A i \in Instances : DrawsOf(t, i) = DrawsOf(stack, i)
    BY <1>8, <1>10, <1>11, PushOK
  <1>13. swallowed = FALSE => Good(t, spans, Root, 0)
    BY <1>2, <1>6, <1>8, <1>10, <1>11, GoodRule
  <1> HIDE DEF t
  <1>14. /\ inst' \in [Instances -> [span_depth : Int, printing_depth : Int, pending : Seq(Nat)]]
         /\ Root' = Root /\ Child' = 0
         /\ \A i \in Instances : inst'[i].printing_depth = inst[i].printing_depth
                                 /\ inst'[i].pending = inst[i].pending
    <2>1. inst \in [Instances -> [span_depth : Int, printing_depth : Int, pending : Seq(Nat)]]
          /\ inst["child"].printing_depth = 0 /\ inst["child"].pending = <<>>
      BY <1>1, <1>2, TopFacts DEF CaseTypes, NotesInv
    <2>2. Fresh \in [span_depth : Int, printing_depth : Int, pending : Seq(Nat)]
          /\ Fresh.span_depth = 0 /\ Fresh.printing_depth = 0 /\ Fresh.pending = <<>>
      BY DEF Fresh
    <2> QED
      BY <1>1, <2>1, <2>2 DEF Root, Child, Instances
  <1>15. CaseTypes'
    BY <1>1, <1>14, TopFacts DEF CaseTypes, doc, seen
  <1>16. NotesInv'
    BY <1>1, <1>12, <1>14, TopFacts, NotesSame DEF doc
  <1>17. SpansInv'
    BY <1>1, <1>13, <1>14 DEF SpansInv, Free, Root, Child, seen
  <1>18. VerdictInv' /\ MispricedInv' /\ LineIsTheValue'
    BY <1>1, <1>2, TopFacts DEF VerdictInv, MispricedInv, Free, doc, LineIsTheValue
  <1> QED
    BY <1>1, <1>12, <1>15, <1>16, <1>17, <1>18 DEF CaseInv

-----------------------------------------------------------------------------
(* Unwinding. *)

\* An unwind leaves the top frame behind: what was in step below it still is.
LEMMA LeftPop ==
    ASSUME NEW s, NEW sp \in Seq(Nat), NEW root, NEW child, NEW r, StackOK(s), Len(s) >= 2,
           Left(s, sp, root, child, r), s[Len(s)].k # "rule",
           r = "AttemptMispriced" => s[Len(s)].k # "recursive"
    PROVE  Left(Front(s), sp, root, child, r)
  <1> DEFINE t == Front(s)
  <1>1. /\ StackOK(t) /\ Len(t) = Len(s) - 1 /\ (OnRule(t) <=> OnRule(s)) /\ Len(s) \in Nat
        /\ \A n \in 1..(Len(s) - 1) : t[n] = s[n]
    BY PopOK, StackFacts
  <1>2. Increasing(sp) /\ Based(s, sp) /\ Counted(s, root, child)
        /\ \A n \in 1..(Len(s) - 1) : FrameOpened(s[n]) <=> Holds(sp, n)
    BY DEF Left
  <1>3. Based(t, sp) /\ Offset(t) = Offset(s)
    <2>1. \A n \in 1..(Len(s) - 1) : n \in 1..Len(s)
      BY <1>1
    <2>2. /\ \A n \in 1..(Len(s) - 1) : s[n].k \in {"recursive", "iteration", "rule"} =>
                s[n].base[2] <= Len(sp) /\ \A a \in DOMAIN sp : sp[a] < n <=> a <= s[n].base[2]
          /\ \A n \in 1..(Len(s) - 1) : s[n].k = "recursive" => s[n].base[1] = s[n].base[2] - Offset(s)
      BY <1>2, <2>1 DEF Based
    <2> QED
      BY <2>2, BasedPop
  <1> HIDE DEF t
  <1>4. Counted(t, root, child)
    BY <1>1, <1>2, <1>3 DEF Counted
  <1>5. \A n \in 1..(Len(t) - 1) : FrameOpened(t[n]) <=> Holds(sp, n)
    <2>1. \A n \in 1..(Len(t) - 1) : n \in 1..(Len(s) - 1)
      BY <1>1
    <2> QED
      BY <1>1, <1>2, <2>1
  <1>6. r # "AttemptMispriced" => root + child = Len(sp)
    BY DEF Left
  <1>7. ASSUME r = "AttemptMispriced"
        PROVE  \E n \in {Len(t) - 1, Len(t)} \cap 1..Len(t) :
                  /\ t[n].k = "recursive" /\ Len(sp) = t[n].base[2]
                  /\ n < Len(t) => t[Len(t)].k = "subtree"
    <2>1. PICK n \in {Len(s) - 1, Len(s)} \cap 1..Len(s) : s[n].k = "recursive" /\ Len(sp) = s[n].base[2]
      BY <1>7 DEF Left
    <2>2. n = Len(t) /\ n \in 1..(Len(s) - 1)
      BY <1>1, <1>7, <2>1
    <2>3. t[n] = s[n] /\ n \in {Len(t) - 1, Len(t)} \cap 1..Len(t) /\ ~(n < Len(t))
      BY <1>1, <2>2
    <2> QED
      BY <2>1, <2>3
  <1> QED
    BY <1>2, <1>3, <1>4, <1>5, <1>6, <1>7 DEF Left, t

\* What lies below the top.
LEMMA RestFacts ==
    ASSUME CaseInv, Top.k # "body"
    PROVE  /\ StackOK(Rest) /\ Len(Rest) = Len(stack) - 1 /\ Len(stack) \in Nat /\ Len(stack) >= 2
           /\ Last(Rest) = stack[Len(stack) - 1] /\ Last(Rest) = Rest[Len(Rest)] /\ Len(Rest) >= 1
           /\ FrameOK(Last(Rest)) /\ Place(Rest, Len(Rest)) /\ Above(Last(Rest), Top, Len(stack))
           /\ Top.k # "draw" => \A i \in Instances : DrawsOf(Rest, i) = DrawsOf(stack, i)
           /\ \A i \in Instances : DrawsOf(Rest, i) = DrawsOf(stack, i) \ {Len(stack)}
           /\ Top.k # "rule" => (OnRule(Rest) <=> OnRule(stack))
           /\ Top.k = "machine" => Last(Rest).k = "body"
  <1>1. /\ StackOK(stack) /\ Len(stack) >= 2 /\ Top = stack[Len(stack)] /\ Len(stack) \in Nat
        /\ Above(stack[Len(stack) - 1], Top, Len(stack)) /\ Place(stack, Len(stack))
    BY TopFacts
  <1>2. /\ StackOK(Rest) /\ Len(Rest) = Len(stack) - 1
        /\ \A n \in 1..(Len(stack) - 1) : Rest[n] = stack[n]
        /\ Top.k # "draw" => \A i \in Instances : DrawsOf(Rest, i) = DrawsOf(stack, i)
        /\ \A i \in Instances : DrawsOf(Rest, i) = DrawsOf(stack, i) \ {Len(stack)}
        /\ Top.k # "rule" => (OnRule(Rest) <=> OnRule(stack))
    BY <1>1, PopOK DEF Rest
  <1>3. Len(Rest) \in 1..Len(Rest) /\ Len(Rest) >= 1
    BY <1>1, <1>2
  <1>4. Last(Rest) = Rest[Len(Rest)] /\ Rest[Len(Rest)] = stack[Len(stack) - 1]
    BY <1>1, <1>2, <1>3 DEF Last
  <1>5. FrameOK(Last(Rest)) /\ Place(Rest, Len(Rest))
    BY <1>2, <1>3, <1>4, StackFacts
  <1>6. Top.k = "machine" => Last(Rest).k = "body"
    BY <1>1, <1>2, <1>4, <1>5 DEF Place
  <1> QED
    BY <1>1, <1>2, <1>3, <1>4, <1>5, <1>6

\* A frame unwinds; what it raised goes on, unless the engine's answer replaces it.
LEMMA Unwound ==
    ASSUME CaseInv, result = "", raising # "", Top.k \notin {"body", "rule", "draw"}, stack' = Rest,
           raising = "AttemptMispriced" => Top.k = "subtree",
           UNCHANGED <<inst, spans, doc, seen, result>>, data' \in Nat, engine' \in {"live", "stop", "assume"},
           (engine' = engine /\ raising' = raising) \/ (engine' # "live" /\ raising' = Conclusion')
    PROVE  CaseInv'
  <1>1. StackOK(stack') /\ \A i \in Instances : DrawsOf(stack', i) = DrawsOf(stack, i)
    BY RestFacts
  <1>2. raising' \in Payloads /\ raising' # "" /\ (engine' # "live" => raising' = Conclusion')
        /\ (engine' = "live" => engine = "live" /\ raising' = raising)
    <2>1. CASE engine' = engine /\ raising' = raising
      BY <2>1, LiveRaising, TopFacts DEF CaseTypes, Conclusion
    <2>2. CASE engine' # "live" /\ raising' = Conclusion'
      BY <2>2 DEF Conclusion, Payloads
    <2> QED
      BY <2>1, <2>2
  <1>3. CaseTypes'
    BY <1>2, TopFacts DEF CaseTypes, doc, seen
  <1>4. NotesInv'
    BY <1>1, TopFacts, NotesSame DEF doc
  <1>5. Top' = Last(Rest)
    BY DEF Top
  <1>6. ASSUME engine' = "live", swallowed = FALSE, Last(Rest).k \notin {"machine", "body"}
        PROVE  Left(Rest, spans, Root, Child, raising)
    <2>1. Top.k # "machine"
      BY <1>6, RestFacts
    <2>2. Left(stack, spans, Root, Child, raising)
      BY <1>2, <1>6, <2>1, TopFacts DEF SpansInv, Root, Child
    <2>3. StackOK(stack) /\ Len(stack) >= 2 /\ Top = stack[Len(stack)] /\ spans \in Seq(Nat)
      BY TopFacts
    <2>4. stack[Len(stack)].k # "rule" /\ (raising = "AttemptMispriced" => stack[Len(stack)].k # "recursive")
      BY <2>3
    <2> QED
      BY <2>2, <2>3, <2>4, LeftPop DEF Rest
  <1>7. SpansInv'
    BY <1>2, <1>5, <1>6 DEF SpansInv, Root, Child, seen
  <1>8. VerdictInv' /\ LineIsTheValue'
    BY <1>2, TopFacts DEF VerdictInv, doc, LineIsTheValue
  <1>9. MispricedInv'
    <2> SUFFICES ASSUME raising' = "AttemptMispriced" PROVE Last(Rest).k = "recursive"
      BY <1>5 DEF MispricedInv
    <2>1. raising = "AttemptMispriced" /\ Top.k = "subtree"
      BY <1>2 DEF Conclusion
    <2> QED
      BY <2>1, TopFacts, RestFacts DEF MispricedInv
  <1> QED
    BY <1>1, <1>3, <1>4, <1>7, <1>8, <1>9 DEF CaseInv

\* A payload unwinds a generator, a loop or the runner: its span stays open for whoever catches
\* it.
LEMMA UnwindGeneratorKeeps == ASSUME CaseInv, UnwindGenerator PROVE CaseInv'
  <1>1. /\ raising # "" /\ result = "" /\ stack' = Rest
        /\ Top.k \in {"combinator", "filter", "list", "sample", "subtree", "composite", "custom", "repeat", "machine"}
        /\ UNCHANGED <<inst, spans, engine, data, raising, doc, seen, result>>
    BY DEF UnwindGenerator, Unwinding
  <1>2. raising = "AttemptMispriced" => Top.k = "subtree"
    BY <1>1, TopFacts DEF MispricedInv
  <1>3. data' \in Nat /\ engine' \in {"live", "stop", "assume"}
    BY <1>1, TopFacts DEF CaseTypes
  <1> QED
    BY <1>1, <1>2, <1>3, Unwound

\* A payload that is not for a recursive generator passes it.
LEMMA UnwindRecursiveKeeps == ASSUME CaseInv, UnwindRecursive PROVE CaseInv'
  <1>1. /\ raising # "" /\ result = "" /\ stack' = Rest /\ Top.k = "recursive" /\ raising # "AttemptMispriced"
        /\ UNCHANGED <<inst, spans, engine, data, raising, doc, seen, result>>
    BY DEF UnwindRecursive, Unwinding
  <1>2. data' \in Nat /\ engine' \in {"live", "stop", "assume"}
    BY <1>1, TopFacts DEF CaseTypes
  <1> QED
    BY <1>1, <1>2, Unwound

\* A control payload unwinds the iteration of a repeat loop.
LEMMA IterationUnwindsKeeps == ASSUME CaseInv, IterationUnwinds PROVE CaseInv'
  <1>1. /\ raising = "StopTest" /\ result = "" /\ stack' = Rest /\ Top.k = "iteration"
        /\ UNCHANGED <<inst, spans, engine, data, raising, doc, seen, result>>
    BY DEF IterationUnwinds, Unwinding
  <1>2. data' \in Nat /\ engine' \in {"live", "stop", "assume"}
    BY <1>1, TopFacts DEF CaseTypes
  <1> QED
    BY <1>1, <1>2, Unwound

\* A failure in an iteration records the loop's decision and goes on unwinding; a draw that is
\* refused replaces it.
LEMMA IterationFailsKeeps == ASSUME CaseInv, IterationFails PROVE CaseInv'
  <1>1. /\ raising # "" /\ result = "" /\ stack' = Rest /\ Top.k = "iteration"
        /\ UNCHANGED <<inst, spans, doc, seen, result>>
    BY DEF IterationFails, Unwinding
  <1>2. raising = "AttemptMispriced" => Top.k = "subtree"
    BY <1>1, TopFacts DEF MispricedInv
  <1>3. data \in Nat /\ engine \in {"live", "stop", "assume"}
    BY TopFacts DEF CaseTypes
  <1>4. /\ data' \in Nat /\ engine' \in {"live", "stop", "assume"}
        /\ (engine' = engine /\ raising' = raising) \/ (engine' # "live" /\ raising' = Conclusion')
    <2>1. CASE Refused /\ UNCHANGED <<engine, data>>
      BY <1>3, <2>1 DEF Refused, Conclusion
    <2>2. CASE engine' = "stop" /\ raising' = "StopTest" /\ UNCHANGED data
      BY <1>3, <2>2 DEF Conclusion
    <2>3. CASE engine = "live" /\ data > 0 /\ data' = data - 1 /\ UNCHANGED <<engine, raising>>
      BY <1>3, <2>3, OneLess
    <2> QED
      BY <2>1, <2>2, <2>3 DEF IterationFails
  <1> QED
    BY <1>1, <1>2, <1>4, Unwound

\* Of a machine whose rule raised, nothing is said until the body has it.
LEMMA RuleUnwindsKeeps == ASSUME CaseInv, RuleUnwinds PROVE CaseInv'
  <1>1. /\ raising # "" /\ raising # "AssumeFailed" /\ result = "" /\ stack' = Rest /\ Top.k = "rule"
        /\ inst' = [inst EXCEPT !.root.span_depth = @ - 1] /\ UNCHANGED <<engine, data, doc, seen, result>>
    BY DEF RuleUnwinds, Unwinding
  <1>2. /\ StackOK(Rest) /\ Last(Rest).k = "machine" /\ \A i \in Instances : DrawsOf(Rest, i) = DrawsOf(stack, i)
    BY <1>1, RestFacts DEF Above
  <1>3. raising' \in Payloads /\ raising' # "" /\ raising' # "AttemptMispriced"
        /\ (engine # "live" => raising' = Conclusion)
    <2>1. raising \in Payloads /\ raising # "AttemptMispriced" /\ engine \in {"live", "stop", "assume"}
      BY <1>1, TopFacts DEF CaseTypes, MispricedInv
    <2>2. CASE Refused
      BY <2>1, <2>2 DEF Refused, Conclusion, Payloads
    <2>3. CASE engine = "live" /\ UNCHANGED raising
      BY <1>1, <2>1, <2>3
    <2> QED
      BY <2>2, <2>3 DEF RuleUnwinds
  <1>4. spans' \in Seq(Nat)
    <2>1. spans \in Seq(Nat) /\ (spans # <<>> => Len(spans) >= 1)
      BY TopFacts
    <2>2. spans' = spans \/ (spans # <<>> /\ spans' = Front(spans))
      BY DEF RuleUnwinds
    <2> QED
      BY <2>1, <2>2, EndsOf
  <1>5. /\ inst' \in [Instances -> [span_depth : Int, printing_depth : Int, pending : Seq(Nat)]]
        /\ \A i \in Instances : inst'[i].printing_depth = inst[i].printing_depth
                                /\ inst'[i].pending = inst[i].pending
    <2> DEFINE x == Root - 1
    <2>1. inst \in [Instances -> [span_depth : Int, printing_depth : Int, pending : Seq(Nat)]]
      BY TopFacts DEF CaseTypes
    <2>3. x \in Int
      <3>1. Root \in Int
        BY TopFacts
      <3> QED
        BY <3>1
    <2>2. inst' = [inst EXCEPT !["root"].span_depth = x]
      BY <1>1 DEF Root
    <2> HIDE DEF x
    <2> QED
      BY <2>1, <2>2, <2>3 DEF Instances
  <1>6. CaseTypes'
    BY <1>1, <1>3, <1>4, <1>5, TopFacts DEF CaseTypes, doc, seen
  <1>7. NotesInv'
    BY <1>1, <1>2, <1>5, TopFacts, NotesSame DEF doc
  <1>8. Top' = Last(Rest)
    BY <1>1 DEF Top
  <1>9. SpansInv' /\ VerdictInv' /\ MispricedInv' /\ LineIsTheValue'
    BY <1>1, <1>2, <1>3, <1>8, TopFacts DEF SpansInv, VerdictInv, MispricedInv, Conclusion, doc, LineIsTheValue
  <1> QED
    BY <1>1, <1>2, <1>6, <1>7, <1>9 DEF CaseInv

\* The case ends.
LEMMA BodyUnwindsKeeps == ASSUME CaseInv, BodyUnwinds PROVE CaseInv'
  <1>1. /\ raising # "" /\ result = "" /\ Top.k = "body" /\ result' = Verdict[raising] /\ raising' = ""
        /\ UNCHANGED <<stack, inst, spans, engine, data, doc, seen>>
    BY DEF BodyUnwinds, Unwinding
  <1>2. raising \in {"AssumeFailed", "StopTest", "LoopDone", "Panic", "LeafBudgetExceeded"}
    BY <1>1, TopFacts DEF CaseTypes, MispricedInv, Payloads
  <1>3. result' \in {"valid", "invalid", "overrun", "interesting"}
    <2>1. /\ Verdict["AssumeFailed"] = "invalid" /\ Verdict["StopTest"] = "overrun"
          /\ Verdict["LoopDone"] = "valid" /\ Verdict["Panic"] = "interesting"
          /\ Verdict["LeafBudgetExceeded"] = "interesting"
      BY DEF Verdict
    <2> QED
      BY <1>1, <1>2, <2>1
  <1>4. CaseTypes'
    BY <1>1, <1>3, TopFacts DEF CaseTypes, doc, seen, Payloads
  <1>5. NotesInv'
    BY <1>1, TopFacts, NotesSame DEF doc
  <1>6. VerdictInv'
    BY <1>1, LiveRaising DEF VerdictInv, Conclusion
  <1>7. SpansInv' /\ MispricedInv' /\ LineIsTheValue' /\ StackOK(stack')
    BY <1>1, <1>3, TopFacts DEF SpansInv, MispricedInv, doc, LineIsTheValue
  <1> QED
    BY <1>4, <1>5, <1>6, <1>7 DEF CaseInv

-----------------------------------------------------------------------------
(* Where an unwind is caught. *)

\* A frame of user code returns, or is left, with no span of its own open.
LEMMA LeftReturn ==
    ASSUME NEW s, NEW sp \in Seq(Nat), NEW root \in Int, NEW child \in Int, NEW r, StackOK(s), Len(s) >= 2,
           Left(s, sp, root, child, r), r # "AttemptMispriced", s[Len(s)].k \in {"iteration", "rule"},
           Len(sp) <= s[Len(s)].base[2]
    PROVE  Good(Front(s), sp, root, child)
  <1> DEFINE t == Front(s)
  <1>1. /\ StackOK(t) /\ Len(t) = Len(s) - 1 /\ (s[Len(s)].k # "rule" => (OnRule(t) <=> OnRule(s))) /\ Len(s) \in Nat
        /\ \A n \in 1..(Len(s) - 1) : t[n] = s[n]
    BY PopOK, StackFacts
  <1>2. Increasing(sp) /\ Based(s, sp) /\ Counted(s, root, child) /\ root + child = Len(sp)
        /\ \A n \in 1..(Len(s) - 1) : FrameOpened(s[n]) <=> Holds(sp, n)
    BY DEF Left
  <1>3. Len(s) \in 1..Len(s) /\ Len(sp) \in Nat /\ DOMAIN sp = 1..Len(sp) /\ \A a \in DOMAIN sp : sp[a] \in Nat
    BY <1>1
  <1>4. s[Len(s)].base[2] = Len(sp) /\ \A a \in DOMAIN sp : sp[a] < Len(s)
    <2>1. s[Len(s)].base[2] <= Len(sp) /\ \A a \in DOMAIN sp : sp[a] < Len(s) <=> a <= s[Len(s)].base[2]
      BY <1>2, <1>3 DEF Based
    <2>2. s[Len(s)].base[2] \in Nat
      BY <1>3, OffsetTyped
    <2>3. s[Len(s)].base[2] = Len(sp)
      BY <1>3, <2>1, <2>2
    <2>4. \A a \in DOMAIN sp : a <= Len(sp)
      BY <1>3
    <2> QED
      BY <2>1, <2>3, <2>4
  <1>5. Based(t, sp) /\ Counted(t, root, child)
    <2>1. CASE s[Len(s)].k = "rule"
      <3>1. Len(s) = 3 /\ OnRule(s)
        <4>1. Place(s, Len(s))
          BY <1>3, StackFacts
        <4>2. Len(s) = 3
          BY <4>1, <2>1 DEF Place
        <4> QED
          BY <4>2, <2>1 DEF OnRule
      <3>2. \A n \in 1..Len(t) : s[n] = t[n] /\ t[n].k \notin {"recursive", "iteration", "rule"}
        <4>1. \A n \in 1..Len(s) : Place(s, n)
          BY StackFacts
        <4>2. s[1].k = "body"
          BY <3>1, <4>1 DEF Place
        <4>3. s[2].k = "machine"
          <5>1. Above(s[2], s[3], 3)
            <6>1. \A n \in 2..Len(s) : Above(s[n-1], s[n], n)
              BY StackFacts
            <6>2. 3 \in 2..Len(s) /\ 3 - 1 = 2
              BY <3>1
            <6>3. Above(s[3 - 1], s[3], 3)
              BY <6>1, <6>2
            <6> QED
              BY <6>2, <6>3
          <5> QED
            BY <5>1, <2>1, <3>1 DEF Above
        <4>4. \A n \in 1..Len(t) : (n = 1 \/ n = 2) /\ s[n] = t[n]
          BY <1>1, <3>1
        <4> QED
          BY <4>2, <4>3, <4>4
      <3>3. Based(t, sp)
        BY <3>2 DEF Based
      <3>4. child = 0
        BY <1>2, <1>3, <1>4, <3>1 DEF Counted, Offset
      <3>5. ~OnRule(t)
        BY <1>1, <3>1 DEF OnRule
      <3> QED
        BY <3>3, <3>4, <3>5 DEF Counted
    <2>2. CASE s[Len(s)].k # "rule"
      <3>1. \A n \in 1..(Len(s) - 1) : n \in 1..Len(s)
        BY <1>1
      <3>2. /\ \A n \in 1..(Len(s) - 1) : s[n].k \in {"recursive", "iteration", "rule"} =>
                  s[n].base[2] <= Len(sp) /\ \A a \in DOMAIN sp : sp[a] < n <=> a <= s[n].base[2]
            /\ \A n \in 1..(Len(s) - 1) : s[n].k = "recursive" => s[n].base[1] = s[n].base[2] - Offset(s)
        BY <1>2, <3>1 DEF Based
      <3>3. Based(t, sp) /\ Offset(t) = Offset(s)
        BY <2>2, <3>2, BasedPop
      <3> HIDE DEF t
      <3> QED
        BY <1>1, <1>2, <2>2, <3>3 DEF Counted
    <2> QED
      BY <2>1, <2>2
  <1> HIDE DEF t
  <1>6. \A n \in 1..Len(t) : FrameOpened(t[n]) <=> Holds(sp, n)
    BY <1>1, <1>2
  <1>7. \A a \in DOMAIN sp : sp[a] <= Len(t)
    BY <1>1, <1>3, <1>4
  <1> QED
    BY <1>2, <1>5, <1>6, <1>7 DEF Good, t

\* A frame of user code that returns left nothing open.
LEMMA NothingLeft ==
    ASSUME NEW s, NEW sp \in Seq(Nat), NEW root, NEW child, StackOK(s), Good(s, sp, root, child),
           s[Len(s)].k \in {"iteration", "rule"}
    PROVE  Len(sp) <= s[Len(s)].base[2]
  <1>1. Len(s) \in Nat /\ Len(s) \in 1..Len(s) /\ Len(sp) \in Nat /\ DOMAIN sp = 1..Len(sp) /\ FrameOK(s[Len(s)])
    BY StackFacts
  <1>2. ~FrameOpened(s[Len(s)])
    BY <1>1, OpenedKind
  <1>3. \A a \in DOMAIN sp : sp[a] < Len(s)
    BY <1>2, SpansBelow
  <1>4. \A a \in DOMAIN sp : sp[a] < Len(s) <=> a <= s[Len(s)].base[2]
    BY <1>1 DEF Good, Based
  <1>5. s[Len(s)].base[2] \in Nat
    BY <1>1, OffsetTyped
  <1>6. CASE Len(sp) = 0
    BY <1>5, <1>6
  <1>7. CASE Len(sp) # 0
    <2>1. Len(sp) \in DOMAIN sp
      BY <1>1, <1>7
    <2> QED
      BY <2>1, <1>3, <1>4
  <1> QED
    BY <1>6, <1>7

\* A body, an iteration or a rule returns.
LEMMA ReturnsKeeps == ASSUME CaseInv, Returns PROVE CaseInv'
  <1>1. Free /\ Top.k \in BodyFrames /\ UNCHANGED <<inst, spans, engine, data, raising, doc, seen>>
    BY DEF Returns, Free
  <1>2. engine = "live"
    BY <1>1, LiveNow DEF BodyFrames
  <1>3. CASE Top.k = "body"
    <2>1. result' = "valid" /\ UNCHANGED stack
      BY <1>3 DEF Returns
    <2>2. CaseTypes'
      BY <1>1, <2>1, TopFacts DEF CaseTypes, doc, seen, Free
    <2>3. NotesInv'
      BY <1>1, <2>1, TopFacts, NotesSame DEF doc
    <2>4. SpansInv' /\ VerdictInv' /\ MispricedInv' /\ LineIsTheValue' /\ StackOK(stack')
      BY <1>1, <1>2, <2>1, TopFacts DEF SpansInv, VerdictInv, MispricedInv, doc, LineIsTheValue, Free
    <2> QED
      BY <2>2, <2>3, <2>4 DEF CaseInv
  <1>4. CASE Top.k # "body"
    <2>1. stack' = Rest /\ UNCHANGED result
      BY <1>4 DEF Returns
    <2>2. Top.k \in {"iteration", "rule"}
      BY <1>1, <1>4 DEF BodyFrames
    <2>3. /\ StackOK(stack) /\ Len(stack) >= 2 /\ Top = stack[Len(stack)] /\ Root \in Int /\ Child \in Int
          /\ spans \in Seq(Nat)
      BY <1>4, TopFacts
    <2>4. ASSUME swallowed = FALSE PROVE Good(Rest, spans, Root, Child)
      <3>1. Good(stack, spans, Root, Child)
        BY <1>1, <1>2, <2>4, GoodNow
      <3>2. Left(stack, spans, Root, Child, "") /\ "" # "AttemptMispriced"
        BY <2>3, <3>1, GoodLeft
      <3>3. stack[Len(stack)].k \in {"iteration", "rule"}
        BY <2>2, <2>3
      <3>4. Len(spans) <= stack[Len(stack)].base[2]
        BY <2>3, <3>1, <3>3, NothingLeft
      <3> QED
        BY <2>3, <3>2, <3>3, <3>4, LeftReturn DEF Rest
    <2>5. StackOK(Rest) /\ \A i \in Instances : DrawsOf(Rest, i) = DrawsOf(stack, i)
      BY <2>2, <1>4, RestFacts
    <2>6. Fits(Rest, spans, Root, Child)
      BY <2>4, <2>5 DEF Fits
    <2> QED
      BY <1>1, <1>2, <2>1, <2>6, SilentKeeps
  <1> QED
    BY <1>3, <1>4

\* What a frame may have left open.
LEMMA LeaksNot == ASSUME CaseInv PROVE ~Leaks => Len(spans) <= Top.base[2]
  <1>1. Len(spans) \in Nat
    BY TopFacts
  <1>2. Top.base[2] \in Nat
    BY TopValues
  <1> QED
    BY <1>1, <1>2 DEF Leaks

\* A rejection caught with no span open is forgotten.
LEMMA CaughtClean ==
    ASSUME CaseInv, result = "", raising = "AssumeFailed", engine = "live", swallowed = FALSE, Len(spans) <= Top.base[2],
           Top.k \in {"iteration", "rule"}
    PROVE  Good(Rest, spans, Root, Child)
  <1>1. /\ StackOK(stack) /\ Len(stack) >= 2 /\ Top = stack[Len(stack)] /\ Root \in Int /\ Child \in Int
        /\ spans \in Seq(Nat) /\ SpansInv /\ Len(stack) \in 1..Len(stack)
    BY TopFacts
  <1>2. Left(stack, spans, Root, Child, "AssumeFailed") /\ "AssumeFailed" # "AttemptMispriced"
    BY <1>1 DEF SpansInv, Root, Child
  <1>3. stack[Len(stack)].k \in {"iteration", "rule"}
    BY <1>1
  <1>4. Len(spans) <= stack[Len(stack)].base[2]
    BY <1>1
  <1> QED
    BY <1>1, <1>2, <1>3, <1>4, LeftReturn DEF Rest

\* repeat catches a rejection of its iteration; spans left open count as swallowed.
LEMMA IterationRejectedKeeps == ASSUME CaseInv, IterationRejected PROVE CaseInv'
  <1>1. /\ raising = "AssumeFailed" /\ result = "" /\ Top.k = "iteration" /\ stack' = Rest /\ raising' = ""
        /\ UNCHANGED <<inst, spans, engine, data, doc, missed, uses, result>>
    BY DEF IterationRejected, Unwinding, Caught
  <1>2. swallowed' \in BOOLEAN /\ (swallowed' = FALSE => swallowed = FALSE /\ Len(spans) <= Top.base[2])
    <2>1. swallowed \in BOOLEAN /\ swallowed' = (swallowed \/ Leaks)
      BY TopFacts DEF CaseTypes, IterationRejected
    <2>2. CASE Leaks
      BY <2>1, <2>2, Zenon
    <2>3. CASE ~Leaks
      BY <2>1, <2>3, LeaksNot, Zenon
    <2> QED
      BY <2>2, <2>3
  <1>3. /\ StackOK(Rest) /\ Last(Rest).k = "repeat" /\ Last(Rest).stage = "more"
        /\ \A i \in Instances : DrawsOf(Rest, i) = DrawsOf(stack, i)
    BY <1>1, RestFacts DEF Above
  <1>4. CaseTypes'
    BY <1>1, <1>2, TopFacts DEF CaseTypes, doc, Payloads
  <1>5. NotesInv'
    BY <1>1, <1>3, TopFacts, NotesSame DEF doc
  <1>6. engine = "live" /\ swallowed' = FALSE => Good(Rest, spans, Root, Child)
    BY <1>1, <1>2, CaughtClean
  <1>7. SpansInv'
    BY <1>1, <1>6 DEF SpansInv, Root, Child
  <1>8. Top' = Last(Rest)
    BY <1>1 DEF Top
  <1>9. VerdictInv' /\ MispricedInv' /\ LineIsTheValue'
    BY <1>1, <1>3, <1>8, TopFacts DEF VerdictInv, MispricedInv, doc, LineIsTheValue
  <1> QED
    BY <1>1, <1>3, <1>4, <1>5, <1>7, <1>9 DEF CaseInv

\* The runner catches a rejection of its rule; spans left open count as swallowed.
LEMMA RuleRejectedKeeps == ASSUME CaseInv, RuleRejected PROVE CaseInv'
  <1>1. /\ raising = "AssumeFailed" /\ result = "" /\ Top.k = "rule" /\ stack' = Rest
        /\ raising' = (IF engine = "live" THEN "" ELSE raising)
        /\ UNCHANGED <<inst, spans, engine, data, doc, missed, uses, result>>
    BY DEF RuleRejected, Unwinding
  <1>2. swallowed' \in BOOLEAN /\ (swallowed' = FALSE => swallowed = FALSE /\ Len(spans) <= Top.base[2])
    <2>1. swallowed \in BOOLEAN /\ swallowed' = (swallowed \/ Leaks)
      BY TopFacts DEF CaseTypes, RuleRejected
    <2>2. CASE Leaks
      BY <2>1, <2>2, Zenon
    <2>3. CASE ~Leaks
      BY <2>1, <2>3, LeaksNot, Zenon
    <2> QED
      BY <2>2, <2>3
  <1>3. StackOK(Rest) /\ \A i \in Instances : DrawsOf(Rest, i) = DrawsOf(stack, i)
    BY <1>1, RestFacts
  <1>4. CaseTypes'
    BY <1>1, <1>2, TopFacts DEF CaseTypes, doc, Payloads
  <1>5. NotesInv'
    BY <1>1, <1>3, TopFacts, NotesSame DEF doc
  <1>6. engine = "live" /\ swallowed' = FALSE => Good(Rest, spans, Root, Child)
    BY <1>1, <1>2, CaughtClean
  <1>7. SpansInv'
    BY <1>1, <1>6 DEF SpansInv, Root, Child
  <1>8. VerdictInv'
    BY <1>1, LiveRaising DEF VerdictInv, Conclusion
  <1>9. MispricedInv' /\ LineIsTheValue'
    BY <1>1, TopFacts DEF MispricedInv, doc, LineIsTheValue
  <1> QED
    BY <1>1, <1>3, <1>4, <1>5, <1>7, <1>8, <1>9 DEF CaseInv

\* The attempt begins again, in a live case, on the spans and the counter it began with.
LEMMA RetryKeeps == ASSUME CaseInv, Retry PROVE CaseInv'
  <1> DEFINE d == Top.base[1]
             sq == CutTo(Top.base[2])
             f == [Top EXCEPT !.n = 0, !.m = @ + 1]
  <1>1. /\ raising \in {"LeafBudgetExceeded", "AttemptMispriced"} /\ raising # "" /\ result = ""
        /\ Top.k = "recursive" /\ UNCHANGED <<data, doc, seen, result>>
    BY DEF Retry, Unwinding
  <1>2. engine = "live"
    BY <1>1, LiveRaising DEF Conclusion
  <1>3. /\ StackOK(stack) /\ Top = stack[Len(stack)] /\ spans \in Seq(Nat) /\ Root \in Int /\ Child \in Int
        /\ (Top.i = "child" <=> OnRule(stack)) /\ Top.i \in Instances /\ Len(stack) \in 1..Len(stack)
    BY TopFacts
  <1>4. d \in Int /\ Top.base[2] \in Nat
    BY TopValues
  <1>5. ASSUME swallowed = FALSE PROVE Left(stack, spans, Root, Child, raising)
    BY <1>1, <1>2, <1>5, TopFacts DEF SpansInv, Root, Child
  <1>6. sq \in Seq(Nat)
    BY <1>3, <1>4, CutFacts
  <1>7. ASSUME NEW sp \in Seq(Nat), Increasing(sp), Based(stack, sp), Counted(stack, Root, Child), Len(sp) = Top.base[2],
               \A n \in 1..(Len(stack) - 1) : FrameOpened(stack[n]) <=> Holds(sp, n)
        PROVE  Good(stack, sp, RootNow(d), ChildNow(d))
    <2>1. stack[Len(stack)].k = "recursive" /\ Len(sp) = stack[Len(stack)].base[2]
      BY <1>1, <1>3, <1>7
    <2>2. IF OnRule(stack) THEN Good(stack, sp, Root, stack[Len(stack)].base[1])
          ELSE Good(stack, sp, stack[Len(stack)].base[1], Child)
      BY <1>3, <1>7, <2>1, GoodCaught
    <2> QED
      BY <1>3, <2>2 DEF RootNow, ChildNow, Instances
  <1> HIDE DEF sq, f
  <1>8. CASE raising = "AttemptMispriced"
    <2>1. /\ stack' = stack /\ raising' = "" /\ inst' = [inst EXCEPT ![Top.i].span_depth = d]
          /\ UNCHANGED <<spans, engine>>
      BY <1>8 DEF Retry, Caught
    <2>2. /\ inst' \in [Instances -> [span_depth : Int, printing_depth : Int, pending : Seq(Nat)]]
          /\ \A i \in Instances : inst'[i].printing_depth = inst[i].printing_depth
                                  /\ inst'[i].pending = inst[i].pending
          /\ Root' = RootNow(d) /\ Child' = ChildNow(d)
      BY <1>4, <2>1, DepthSet
    <2> HIDE DEF d
    <2>3. CaseTypes'
      BY <1>1, <2>1, <2>2, TopFacts DEF CaseTypes, doc, seen, Payloads
    <2>4. NotesInv'
      BY <1>1, <2>1, <2>2, TopFacts, NotesSame DEF doc
    <2>5. ASSUME swallowed = FALSE PROVE Good(stack, spans, RootNow(d), ChildNow(d))
      <3>1. Left(stack, spans, Root, Child, "AttemptMispriced")
        BY <1>5, <1>8, <2>5
      <3>2. PICK n \in {Len(stack) - 1, Len(stack)} \cap 1..Len(stack) :
               /\ Len(spans) = stack[n].base[2]
               /\ n < Len(stack) => stack[Len(stack)].k = "subtree"
        BY <3>1 DEF Left
      <3>3. n = Len(stack)
        <4>1. Len(stack) \in Nat /\ stack[Len(stack)].k # "subtree"
          BY <1>1, <1>3, TopFacts
        <4>2. ~(n < Len(stack))
          BY <3>2, <4>1
        <4> QED
          BY <3>2, <4>1, <4>2
      <3>4. Len(spans) = Top.base[2]
        BY <1>3, <3>2, <3>3
      <3>5. Increasing(spans) /\ Based(stack, spans) /\ Counted(stack, Root, Child)
            /\ \A m \in 1..(Len(stack) - 1) : FrameOpened(stack[m]) <=> Holds(spans, m)
        BY <3>1 DEF Left
      <3> QED
        BY <1>3, <1>7, <3>4, <3>5
    <2>6. SpansInv'
      BY <1>1, <2>1, <2>2, <2>5 DEF SpansInv, Root, Child, seen
    <2>7. VerdictInv' /\ MispricedInv' /\ LineIsTheValue'
      BY <1>1, <1>2, <2>1, TopFacts DEF VerdictInv, MispricedInv, doc, LineIsTheValue
    <2> QED
      BY <1>3, <2>1, <2>3, <2>4, <2>6, <2>7 DEF CaseInv
  <1>9. CASE raising = "LeafBudgetExceeded" /\ Top.m + 1 >= MaxAttempts
    <2>1. spans' = sq /\ engine' = "assume" /\ raising' = "AssumeFailed" /\ stack' = Rest /\ UNCHANGED inst
      BY <1>9 DEF Retry, sq
    <2>2. StackOK(Rest) /\ \A i \in Instances : DrawsOf(Rest, i) = DrawsOf(stack, i)
      BY <1>1, RestFacts
    <2>3. CaseTypes'
      BY <1>1, <1>6, <2>1, TopFacts DEF CaseTypes, doc, seen, Payloads
    <2>4. NotesInv'
      BY <1>1, <2>1, <2>2, TopFacts, NotesSame DEF doc
    <2>5. SpansInv' /\ VerdictInv' /\ MispricedInv' /\ LineIsTheValue'
      BY <1>1, <2>1, TopFacts DEF SpansInv, VerdictInv, MispricedInv, Conclusion, doc, LineIsTheValue
    <2> QED
      BY <2>1, <2>2, <2>3, <2>4, <2>5 DEF CaseInv
  <1>10. CASE raising = "LeafBudgetExceeded" /\ ~(Top.m + 1 >= MaxAttempts)
    <2>1. /\ spans' = sq /\ stack' = SetTop(f) /\ raising' = "" /\ inst' = [inst EXCEPT ![Top.i].span_depth = d]
          /\ UNCHANGED engine
      BY <1>10 DEF Retry, Caught, sq, f
    <2>2. /\ inst' \in [Instances -> [span_depth : Int, printing_depth : Int, pending : Seq(Nat)]]
          /\ \A i \in Instances : inst'[i].printing_depth = inst[i].printing_depth
                                  /\ inst'[i].pending = inst[i].pending
          /\ Root' = RootNow(d) /\ Child' = ChildNow(d)
      BY <1>4, <2>1, DepthSet
    <2> HIDE DEF d
    <2>3. Kept(Top, f)
      <3> DEFINE x == Top.m + 1
      <3>1. FrameOK(Top) /\ Top.k # "subtree"
        BY <1>1, TopFacts
      <3>3. x \in Int
        <4>1. Top.m \in Int
          BY TopValues
        <4> QED
          BY <4>1
      <3>2. f = [Top EXCEPT !.n = 0, !.m = x]
        BY DEF f
      <3> HIDE DEF x
      <3> QED
        BY <3>1, <3>2, <3>3, RepriceKept
    <2>4. Steady(stack, SetTop(f)) /\ StackOK(SetTop(f)) /\ \A i \in Instances : DrawsOf(SetTop(f), i) = DrawsOf(stack, i)
      <3>1. Steady(stack, SetTop(f)) /\ Steps(stack, SetTop(f))
        BY <2>3, TopSteady DEF Steady
      <3> QED
        BY <1>3, <3>1, StepsOK
    <2>5. CaseTypes'
      BY <1>1, <1>6, <2>1, <2>2, TopFacts DEF CaseTypes, doc, seen, Payloads
    <2>6. NotesInv'
      BY <1>1, <2>1, <2>2, <2>4, TopFacts, NotesSame DEF doc
    <2>7. ASSUME swallowed = FALSE PROVE Good(SetTop(f), sq, RootNow(d), ChildNow(d))
      <3> DEFINE b == stack[Len(stack)].base[2]
      <3>1. Left(stack, spans, Root, Child, raising)
        BY <1>5, <2>7
      <3>2. Increasing(spans) /\ Based(stack, spans) /\ Counted(stack, Root, Child)
            /\ \A m \in 1..(Len(stack) - 1) : FrameOpened(stack[m]) <=> Holds(spans, m)
        BY <3>1 DEF Left
      <3>3. stack[Len(stack)].k = "recursive" /\ b = Top.base[2]
        BY <1>1, <1>3
      <3>4. b <= Len(spans) /\ b \in Nat
        BY <1>3, <1>4, <3>2, <3>3 DEF Based
      <3>5. sq = SubSeq(spans, 1, b)
        BY <1>3, <3>3, <3>4, CutFacts DEF sq
      <3>6. /\ Len(sq) = b /\ Increasing(sq)
            /\ \A n \in 1..(Len(stack) - 1) : FrameOpened(stack[n]) <=> Holds(sq, n)
            /\ \A n \in 1..Len(stack) : stack[n].k \in {"recursive", "iteration", "rule"} =>
                  stack[n].base[2] <= Len(sq) /\ \A a \in DOMAIN sq : sq[a] < n <=> a <= stack[n].base[2]
        BY <1>3, <3>2, <3>3, <3>5, SpansCut
      <3>7. Based(stack, sq)
        BY <3>2, <3>6 DEF Based
      <3>8. Good(stack, sq, RootNow(d), ChildNow(d))
        BY <1>6, <1>7, <3>2, <3>3, <3>6, <3>7
      <3> QED
        BY <1>3, <2>4, <3>8, GoodSteady
    <2>8. SpansInv'
      BY <1>1, <2>1, <2>2, <2>7 DEF SpansInv, Root, Child, seen
    <2>9. VerdictInv' /\ MispricedInv' /\ LineIsTheValue'
      BY <1>1, <1>2, <2>1, TopFacts DEF VerdictInv, MispricedInv, doc, LineIsTheValue
    <2> QED
      BY <2>1, <2>4, <2>5, <2>6, <2>8, <2>9 DEF CaseInv
  <1> QED
    BY <1>1, <1>8, <1>9, <1>10

-----------------------------------------------------------------------------
(* Notes. *)

\* Two sequences that share nothing, one after the other.
LEMMA ToldApart ==
    ASSUME NEW s \in Seq(Nat), NEW t \in Seq(Nat), IsInjective(s), IsInjective(t), ToSet(s) \cap ToSet(t) = {}
    PROVE  s \o t \in Seq(Nat) /\ IsInjective(s \o t) /\ ToSet(s \o t) = ToSet(s) \cup ToSet(t)
  <1> DEFINE u == s \o t
  <1>1. /\ Len(s) \in Nat /\ Len(t) \in Nat /\ DOMAIN s = 1..Len(s) /\ DOMAIN t = 1..Len(t)
        /\ u \in Seq(Nat) /\ DOMAIN u = 1..(Len(s) + Len(t))
        /\ \A a \in DOMAIN s : u[a] = s[a] /\ a \in DOMAIN u
        /\ \A a \in DOMAIN t : u[Len(s) + a] = t[a] /\ Len(s) + a \in DOMAIN u
    OBVIOUS
  <1> HIDE DEF u
  <1>2. ASSUME NEW a \in DOMAIN u
        PROVE  \/ a \in DOMAIN s /\ u[a] = s[a]
               \/ \E b \in DOMAIN t : a = Len(s) + b /\ u[a] = t[b]
    <2>1. CASE a <= Len(s)
      BY <1>1, <2>1
    <2>2. CASE ~(a <= Len(s))
      <3>1. a - Len(s) \in DOMAIN t /\ a = Len(s) + (a - Len(s))
        BY <1>1, <2>2
      <3> QED
        BY <1>1, <3>1
    <2> QED
      BY <2>1, <2>2
  <1>3. ToSet(u) = ToSet(s) \cup ToSet(t)
    BY <1>1, <1>2 DEF ToSet
  <1>4. \A a \in DOMAIN s, b \in DOMAIN t : s[a] # t[b]
    BY DEF ToSet
  <1>5. IsInjective(u)
    <2> SUFFICES ASSUME NEW a \in DOMAIN u, NEW b \in DOMAIN u, u[a] = u[b] PROVE a = b
      BY DEF IsInjective
    <2>1. CASE a \in DOMAIN s /\ u[a] = s[a] /\ b \in DOMAIN s /\ u[b] = s[b]
      BY <2>1 DEF IsInjective
    <2>2. CASE a \in DOMAIN s /\ u[a] = s[a] /\ \E c \in DOMAIN t : b = Len(s) + c /\ u[b] = t[c]
      BY <2>2, <1>4
    <2>3. CASE b \in DOMAIN s /\ u[b] = s[b] /\ \E c \in DOMAIN t : a = Len(s) + c /\ u[a] = t[c]
      BY <2>3, <1>4
    <2>4. CASE (\E c \in DOMAIN t : a = Len(s) + c /\ u[a] = t[c]) /\ (\E c \in DOMAIN t : b = Len(s) + c /\ u[b] = t[c])
      BY <2>4 DEF IsInjective
    <2> QED
      BY <1>2, <2>1, <2>2, <2>3, <2>4
  <1> QED
    BY <1>1, <1>3, <1>5 DEF u

\* The document of a new case has no notes.
LEMMA NothingShown == IsInjective(<<>>) /\ ToSet(<<>>) = {} /\ <<>> \in Seq(Nat)
  BY DEF IsInjective, ToSet

\* A note that is new, added at the end.
LEMMA OneMore ==
    ASSUME NEW s \in Seq(Nat), NEW x \in Nat, IsInjective(s), x \notin ToSet(s)
    PROVE  Append(s, x) \in Seq(Nat) /\ IsInjective(Append(s, x)) /\ ToSet(Append(s, x)) = ToSet(s) \cup {x}
  <1> DEFINE u == Append(s, x)
  <1>1. /\ Len(s) \in Nat /\ DOMAIN s = 1..Len(s) /\ u \in Seq(Nat) /\ DOMAIN u = 1..(Len(s) + 1)
        /\ \A a \in DOMAIN s : u[a] = s[a] /\ a \in DOMAIN u
        /\ u[Len(s) + 1] = x /\ Len(s) + 1 \in DOMAIN u
        /\ \A a \in DOMAIN u : a \in DOMAIN s \/ a = Len(s) + 1
    OBVIOUS
  <1> HIDE DEF u
  <1>2. ToSet(u) = ToSet(s) \cup {x}
    BY <1>1 DEF ToSet
  <1>3. \A a \in DOMAIN s : s[a] # x
    BY DEF ToSet
  <1>4. IsInjective(u)
    BY <1>1, <1>3 DEF IsInjective
  <1> QED
    BY <1>1, <1>2, <1>4 DEF u

\* What is noted, and where.
LEMMA NotesFacts ==
    ASSUME CaseInv
    PROVE  /\ inst \in [Instances -> [span_depth : Int, printing_depth : Int, pending : Seq(Nat)]]
           /\ notes \in Nat /\ shown \in Seq(Nat) /\ NotesInv
           /\ \A i \in Instances :
                 /\ inst[i].pending \in Seq(Nat) /\ inst[i].printing_depth \in {0, 1} /\ IsInjective(inst[i].pending)
                 /\ ToSet(shown) \cap ToSet(inst[i].pending) = {} /\ ToSet(inst[i].pending) \subseteq 1..notes
           /\ ToSet(shown) \subseteq 1..notes /\ IsInjective(shown)
  <1>1. inst \in [Instances -> [span_depth : Int, printing_depth : Int, pending : Seq(Nat)]] /\ notes \in Nat
        /\ shown \in Seq(Nat) /\ NotesInv
    BY TopFacts DEF CaseTypes
  <1>2. \A i \in Instances : inst[i].pending \in Seq(Nat)
    BY <1>1
  <1>3. \A i \in Instances :
           /\ inst[i].printing_depth \in {0, 1} /\ IsInjective(inst[i].pending)
           /\ ToSet(shown) \cap ToSet(inst[i].pending) = {} /\ ToSet(inst[i].pending) \subseteq 1..notes
    BY <1>1 DEF NotesInv, Instances
  <1>4. ToSet(shown) \subseteq 1..notes /\ IsInjective(shown)
    BY <1>1 DEF NotesInv
  <1> QED
    BY <1>1, <1>2, <1>3, <1>4

\* A printed draw ends: what waited for it follows its line.
LEMMA NotesEnd ==
    ASSUME CaseInv, Top.k = "draw", EndDraw, notes' = notes,
           \A i \in Instances : DrawsOf(stack', i) = DrawsOf(stack, i) \ {Len(stack)}
    PROVE  /\ NotesInv' /\ shown' \in Seq(Nat)
           /\ inst' \in [Instances -> [span_depth : Int, printing_depth : Int, pending : Seq(Nat)]]
           /\ Root' = Root /\ Child' = Child
  <1> DEFINE j == Top.i
             p == inst[j].pending
             x == inst[j].printing_depth - 1
  <1>1. /\ j \in Instances /\ Top = stack[Len(stack)] /\ Len(stack) \in 1..Len(stack) /\ NotesInv
        /\ inst \in [Instances -> [span_depth : Int, printing_depth : Int, pending : Seq(Nat)]]
    BY TopFacts, NotesFacts
  <1>2. Len(stack) \in DrawsOf(stack, j)
    BY <1>1 DEF DrawsOf
  <1>3. inst[j].printing_depth = 1 /\ x = 0
    <2>1. inst[j].printing_depth \in {0, 1} /\ inst[j].printing_depth # 0
      BY <1>1, <1>2 DEF NotesInv
    <2> QED
      BY <2>1
  <1>4. DrawsOf(stack', j) = {} /\ \A i \in Instances : i # j => DrawsOf(stack', i) = DrawsOf(stack, i)
    <2>1. \A m, n \in DrawsOf(stack, j) : m = n
      BY <1>1 DEF NotesInv
    <2>2. \A i \in Instances : i # j => Len(stack) \notin DrawsOf(stack, i)
      BY <1>1 DEF DrawsOf
    <2> HIDE DEF j
    <2>3. DrawsOf(stack', j) = DrawsOf(stack, j) \ {Len(stack)}
      BY <1>1
    <2>4. DrawsOf(stack', j) = {}
      BY <1>2, <2>1, <2>3, Zenon
    <2>5. ASSUME NEW i \in Instances, i # j PROVE DrawsOf(stack', i) = DrawsOf(stack, i)
      <3>1. DrawsOf(stack', i) = DrawsOf(stack, i) \ {Len(stack)} /\ Len(stack) \notin DrawsOf(stack, i)
        BY <2>2, <2>5
      <3> QED
        BY <3>1
    <2> QED
      BY <2>4, <2>5
  <1>5. inst' = [inst EXCEPT ![j].printing_depth = x, ![j].pending = <<>>] /\ shown' = shown \o p
    BY DEF EndDraw
  <1>6. /\ inst' \in [Instances -> [span_depth : Int, printing_depth : Int, pending : Seq(Nat)]]
        /\ inst'[j].printing_depth = 0 /\ inst'[j].pending = <<>>
        /\ \A i \in Instances : i # j => inst'[i] = inst[i]
        /\ \A i \in Instances : inst'[i].span_depth = inst[i].span_depth
    <2>1. 0 \in Int /\ <<>> \in Seq(Nat)
      OBVIOUS
    <2> HIDE DEF x, j
    <2> QED
      BY <1>1, <1>3, <1>5, <2>1
  <1>7. shown' \in Seq(Nat) /\ IsInjective(shown') /\ ToSet(shown') = ToSet(shown) \cup ToSet(p)
    BY <1>1, <1>5, NotesFacts, ToldApart
  <1> HIDE DEF p, x
  <1>8. NotesInv'
    <2>1. \A i \in Instances :
             /\ inst'[i].printing_depth \in {0, 1}
             /\ inst'[i].printing_depth = 0 <=> DrawsOf(stack', i) = {}
             /\ \A m, n \in DrawsOf(stack', i) : m = n
             /\ inst'[i].printing_depth = 0 => inst'[i].pending = <<>>
      <3> TAKE i \in Instances
      <3>1. CASE i = j
        BY <1>4, <1>6, <3>1
      <3>2. CASE i # j
        <4>1. inst'[i] = inst[i] /\ DrawsOf(stack', i) = DrawsOf(stack, i)
          BY <1>4, <1>6, <3>2
        <4> QED
          BY <1>1, <4>1 DEF NotesInv
      <3> QED
        BY <3>1, <3>2
    <2>2. CASE j = "root"
      <3>1. inst'["root"].pending = <<>> /\ inst'["child"] = inst["child"] /\ p = inst["root"].pending
        BY <1>6, <2>2 DEF Instances, p
      <3>2. IsInjective(inst'["root"].pending) /\ IsInjective(inst'["child"].pending)
            /\ ToSet(inst'["root"].pending) = {} /\ inst'["child"].pending = inst["child"].pending
        BY <1>1, <3>1, NothingShown DEF NotesInv
      <3>3. /\ ToSet(shown') \cap ToSet(inst'["root"].pending) = {}
            /\ ToSet(shown') \cap ToSet(inst'["child"].pending) = {}
            /\ ToSet(inst'["root"].pending) \cap ToSet(inst'["child"].pending) = {}
            /\ ToSet(shown') \cup ToSet(inst'["root"].pending) \cup ToSet(inst'["child"].pending) = 1..notes'
        BY <1>1, <1>7, <3>1, <3>2 DEF NotesInv
      <3> QED
        BY <1>7, <2>1, <3>2, <3>3 DEF NotesInv
    <2>3. CASE j = "child"
      <3>1. inst'["child"].pending = <<>> /\ inst'["root"] = inst["root"] /\ p = inst["child"].pending
        BY <1>6, <2>3 DEF Instances, p
      <3>2. IsInjective(inst'["root"].pending) /\ IsInjective(inst'["child"].pending)
            /\ ToSet(inst'["child"].pending) = {} /\ inst'["root"].pending = inst["root"].pending
        BY <1>1, <3>1, NothingShown DEF NotesInv
      <3>3. /\ ToSet(shown') \cap ToSet(inst'["root"].pending) = {}
            /\ ToSet(shown') \cap ToSet(inst'["child"].pending) = {}
            /\ ToSet(inst'["root"].pending) \cap ToSet(inst'["child"].pending) = {}
            /\ ToSet(shown') \cup ToSet(inst'["root"].pending) \cup ToSet(inst'["child"].pending) = 1..notes'
        BY <1>1, <1>7, <3>1, <3>2 DEF NotesInv
      <3> QED
        BY <1>7, <2>1, <3>2, <3>3 DEF NotesInv
    <2> QED
      BY <1>1, <2>2, <2>3 DEF Instances
  <1> QED
    BY <1>6, <1>7, <1>8 DEF Root, Child, Instances

\* A printed draw of the body ends: its line is committed, then the notes that waited for it.
LEMMA DrawDoneKeeps == ASSUME CaseInv, DrawDone PROVE CaseInv'
  <1> DEFINE t == Deliver(Rest, Top.new)
  <1>1. /\ Free /\ Top.k = "draw" /\ line' = Top.new /\ EndDraw /\ stack' = t
        /\ UNCHANGED <<spans, engine, data, raising, notes, seen, result>>
    BY DEF DrawDone, Calling, Free
  <1>2. engine = "live" /\ Top.quiet = FALSE /\ Top.new \in Values /\ Told(Top.new)
    <2>1. Top.quiet = FALSE
      BY <1>1, TopValues DEF TextFits
    <2> QED
      BY <1>1, <2>1, LiveNow, TopValues, TopTold
  <1>3. /\ StackOK(stack) /\ Len(stack) >= 2 /\ Top = stack[Len(stack)] /\ Root \in Int /\ Child \in Int
        /\ spans \in Seq(Nat) /\ ~FrameOpened(Top)
    BY <1>1, TopFacts, TopOpened
  <1>4. /\ Steady(Rest, t) /\ StackOK(Rest) /\ StackOK(t)
        /\ \A i \in Instances : DrawsOf(t, i) = DrawsOf(stack, i) \ {Len(stack)}
    <2>1. stack[Len(stack)].k \in Generators \cup {"draw"} /\ stack[Len(stack)].k \notin Generators
      BY <1>1, <1>3 DEF Generators
    <2> QED
      BY <1>2, <1>3, <2>1, Reaches DEF Rest
  <1> HIDE DEF t
  <1>5. ASSUME swallowed = FALSE PROVE Good(t, spans, Root, Child)
    <2>1. Good(stack, spans, Root, Child)
      BY <1>1, <1>2, <1>5, GoodNow
    <2>2. stack[Len(stack)].k # "rule" /\ ~FrameOpened(stack[Len(stack)])
      BY <1>1, <1>3
    <2>3. Good(Rest, spans, Root, Child)
      BY <1>3, <2>1, <2>2, GoodPop DEF Rest
    <2> QED
      BY <1>4, <2>3, GoodSteady
  <1>6. /\ NotesInv' /\ shown' \in Seq(Nat)
        /\ inst' \in [Instances -> [span_depth : Int, printing_depth : Int, pending : Seq(Nat)]]
        /\ Root' = Root /\ Child' = Child
    BY <1>1, <1>4, NotesEnd
  <1>7. CaseTypes'
    BY <1>1, <1>2, <1>6, TopFacts DEF CaseTypes, seen
  <1>8. SpansInv'
    BY <1>1, <1>5, <1>6 DEF SpansInv, Free, Root, Child, seen
  <1>9. VerdictInv' /\ MispricedInv'
    BY <1>1, <1>2 DEF VerdictInv, MispricedInv, Free
  <1>10. LineIsTheValue'
    BY <1>1, <1>2 DEF LineIsTheValue, Told
  <1> QED
    BY <1>1, <1>4, <1>6, <1>7, <1>8, <1>9, <1>10 DEF CaseInv

\* A printed draw unwinds: no line is committed, the notes that waited for it are shown.
LEMMA UnwindDrawKeeps == ASSUME CaseInv, UnwindDraw PROVE CaseInv'
  <1>1. /\ raising # "" /\ result = "" /\ Top.k = "draw" /\ EndDraw /\ stack' = Rest
        /\ UNCHANGED <<line, spans, engine, data, raising, notes, seen, result>>
    BY DEF UnwindDraw, Unwinding
  <1>2. /\ StackOK(stack) /\ Len(stack) >= 2 /\ Top = stack[Len(stack)] /\ spans \in Seq(Nat)
        /\ raising # "AttemptMispriced"
    BY <1>1, TopFacts DEF MispricedInv
  <1>3. StackOK(Rest) /\ \A i \in Instances : DrawsOf(Rest, i) = DrawsOf(stack, i) \ {Len(stack)}
    BY <1>1, RestFacts
  <1>4. ASSUME engine = "live", swallowed = FALSE PROVE Left(Rest, spans, Root, Child, raising)
    <2>1. Left(stack, spans, Root, Child, raising)
      BY <1>1, <1>4, TopFacts DEF SpansInv, Root, Child
    <2>2. stack[Len(stack)].k # "rule"
      BY <1>1, <1>2
    <2> QED
      BY <1>2, <2>1, <2>2, LeftPop DEF Rest
  <1>5. /\ NotesInv' /\ shown' \in Seq(Nat)
        /\ inst' \in [Instances -> [span_depth : Int, printing_depth : Int, pending : Seq(Nat)]]
        /\ Root' = Root /\ Child' = Child
    BY <1>1, <1>3, NotesEnd
  <1>6. CaseTypes'
    BY <1>1, <1>5, TopFacts DEF CaseTypes, seen
  <1>7. SpansInv'
    BY <1>1, <1>4, <1>5 DEF SpansInv, Root, Child, seen
  <1>8. VerdictInv'
    BY <1>1, LiveRaising DEF VerdictInv, Conclusion
  <1>9. MispricedInv' /\ LineIsTheValue'
    BY <1>1, <1>2, TopFacts DEF MispricedInv, LineIsTheValue
  <1> QED
    BY <1>1, <1>3, <1>5, <1>6, <1>7, <1>8, <1>9 DEF CaseInv

\* __draw_named: a draw of user code, printed or silent.
LEMMA DrawNamedKeeps == ASSUME CaseInv, DrawNamed PROVE CaseInv'
  <1> DEFINE e == [Top EXCEPT !.stage = "waiting"]
             s == SetTop(e)
             h == Frame("draw", Top.i, FALSE)
             g == [h EXCEPT !.stage = "waiting"]
             t == Append(s, g)
             j == Top.i
             x == inst[j].printing_depth + 1
  <1>1. /\ Free /\ Top.k \in UserFrames /\ "waiting" \in Stages /\ "draw" \in Kinds
        /\ UNCHANGED <<spans, engine, data, raising, doc, swallowed, uses, result>>
    BY DEF DrawNamed, UserFree, Free, Stages, Kinds
  <1>2. missed' \in BOOLEAN
    BY DEF DrawNamed
  <1>3. engine = "live"
    BY <1>1, LiveNow DEF UserFrames, BodyFrames
  <1>4. Kept(Top, e)
    BY <1>1, TopFacts, StageKept DEF UserFrames, BodyFrames
  <1>5. e.stage = "waiting" /\ e.k = Top.k /\ e.i = Top.i
    BY TopFacts DEF Frames
  <1> HIDE DEF e
  <1>6. Fits(s, spans, Root, Child) /\ Len(s) = Len(stack) /\ s[Len(s)] = e
    <2>1. FrameOK(e) /\ Role(Top, e) /\ e.base = Top.base
      BY <1>4 DEF Kept
    <2> QED
      BY <1>1, <1>3, <1>4, <2>1, FitsTop, TopTurns
  <1>7. StackOK(s) /\ (swallowed = FALSE => Good(s, spans, Root, Child))
        /\ \A i \in Instances : DrawsOf(s, i) = DrawsOf(stack, i)
    BY <1>6 DEF Fits
  <1> HIDE DEF s
  <1>8. CASE MidDraw(j)
    <2>1. stack' = s /\ UNCHANGED inst
      BY <1>8 DEF DrawNamed, s, e
    <2>2. CaseTypes'
      BY <1>1, <1>2, <2>1, TopFacts DEF CaseTypes, doc
    <2>3. NotesInv'
      BY <1>1, <1>7, <2>1, TopFacts, NotesSame DEF doc
    <2>4. SpansInv'
      BY <1>1, <1>7, <2>1 DEF SpansInv, Free, Root, Child
    <2>5. VerdictInv' /\ MispricedInv' /\ LineIsTheValue'
      BY <1>1, <1>3, TopFacts DEF VerdictInv, MispricedInv, Free, doc, LineIsTheValue
    <2> QED
      BY <1>7, <2>1, <2>2, <2>3, <2>4, <2>5 DEF CaseInv
  <1>9. CASE ~MidDraw(j)
    <2>1. stack' = t /\ inst' = [inst EXCEPT ![j].printing_depth = x]
      BY <1>9 DEF DrawNamed, s, e
    <2>2. /\ j \in Instances /\ NotesInv /\ inst[j].printing_depth \in {0, 1} /\ ~(inst[j].printing_depth > 0)
          /\ inst \in [Instances -> [span_depth : Int, printing_depth : Int, pending : Seq(Nat)]]
      BY <1>9, TopFacts, NotesFacts DEF MidDraw
    <2>3. inst[j].printing_depth = 0 /\ x = 1 /\ DrawsOf(stack, j) = {} /\ inst[j].pending = <<>>
      <3>1. inst[j].printing_depth = 0
        BY <2>2
      <3> QED
        BY <2>2, <3>1 DEF NotesInv
    <2>4. /\ h \in Frames /\ h.k = "draw" /\ h.i = j /\ h.plan = <<>> /\ h.span = FALSE /\ h.quiet = FALSE
          /\ h.acc = Nothing /\ h.key = Nothing /\ h.new = Nothing
      BY <1>1, <2>2, FrameTyped
    <2> HIDE DEF h
    <2>5. /\ g \in Frames /\ g.k = "draw" /\ g.i = j /\ g.plan = <<>> /\ g.span = FALSE /\ g.quiet = FALSE
          /\ g.acc = Nothing /\ g.key = Nothing /\ g.new = Nothing
      BY <1>1, <2>4 DEF Frames
    <2> HIDE DEF g
    <2>6. SpanFits(g) /\ PlanFits(g) /\ TextFits(g) /\ ~FrameOpened(g)
      BY <2>5, NothingTold DEF SpanFits, PlanFits, TextFits, Printing, FrameOpened
    <2>7. Enters(s, g)
      BY <1>1, <1>5, <1>6, <2>5, <2>6 DEF Enters, FrameOK, Above, Generators
    <2>8. /\ StackOK(t)
          /\ \A i \in Instances : DrawsOf(t, i) = IF i = j THEN DrawsOf(s, i) \cup {Len(s) + 1} ELSE DrawsOf(s, i)
      BY <1>7, <2>5, <2>7, PushOK
    <2>9. swallowed = FALSE => Good(t, spans, Root, Child)
      BY <1>7, <2>5, <2>6, <2>7, TopFacts, GoodPush
    <2> HIDE DEF t
    <2>10. DrawsOf(t, j) = {Len(s) + 1} /\ \A i \in Instances : i # j => DrawsOf(t, i) = DrawsOf(stack, i)
      <3> HIDE DEF j
      <3>1. DrawsOf(t, j) = DrawsOf(s, j) \cup {Len(s) + 1} /\ DrawsOf(s, j) = {}
        BY <1>7, <2>2, <2>3, <2>8
      <3> QED
        BY <1>7, <2>8, <3>1
    <2>11. /\ inst' \in [Instances -> [span_depth : Int, printing_depth : Int, pending : Seq(Nat)]]
           /\ inst'[j].printing_depth = 1 /\ inst'[j].pending = inst[j].pending
           /\ \A i \in Instances : i # j => inst'[i] = inst[i]
           /\ \A i \in Instances : inst'[i].span_depth = inst[i].span_depth /\ inst'[i].pending = inst[i].pending
      <3>1. 1 \in Int
        OBVIOUS
      <3> HIDE DEF x, j
      <3> QED
        BY <2>1, <2>2, <2>3, <3>1
    <2> HIDE DEF x, j
    <2>12. Root' = Root /\ Child' = Child
      BY <2>11 DEF Root, Child, Instances
    <2>13. CaseTypes'
      BY <1>1, <1>2, <2>11, TopFacts DEF CaseTypes, doc
    <2>14. NotesInv'
      <3>1. \A i \in Instances :
               /\ inst'[i].printing_depth \in {0, 1}
               /\ inst'[i].printing_depth = 0 <=> DrawsOf(stack', i) = {}
               /\ \A m, n \in DrawsOf(stack', i) : m = n
               /\ inst'[i].printing_depth = 0 => inst'[i].pending = <<>>
        <4> TAKE i \in Instances
        <4>1. CASE i = j
          <5>1. DrawsOf(stack', i) = {Len(s) + 1} /\ inst'[i].printing_depth = 1
            BY <2>1, <2>10, <2>11, <4>1
          <5> QED
            BY <5>1
        <4>2. CASE i # j
          <5>1. inst'[i] = inst[i] /\ DrawsOf(stack', i) = DrawsOf(stack, i)
            BY <2>1, <2>10, <2>11, <4>2
          <5> QED
            BY <2>2, <5>1 DEF NotesInv
        <4> QED
          BY <4>1, <4>2
      <3>2. inst'["root"].pending = inst["root"].pending /\ inst'["child"].pending = inst["child"].pending
            /\ shown' = shown /\ notes' = notes
        BY <1>1, <2>11 DEF Instances, doc
      <3> QED
        BY <2>2, <3>1, <3>2 DEF NotesInv
    <2>15. SpansInv'
      BY <1>1, <2>1, <2>9, <2>12 DEF SpansInv, Free, Root, Child
    <2>16. VerdictInv' /\ MispricedInv' /\ LineIsTheValue'
      BY <1>1, <1>3, TopFacts DEF VerdictInv, MispricedInv, Free, doc, LineIsTheValue
    <2> QED
      BY <2>1, <2>8, <2>13, <2>14, <2>15, <2>16 DEF CaseInv
  <1> QED
    BY <1>8, <1>9

\* note(): in the document, or waiting for the draw it was made in.
LEMMA NoteKeeps == ASSUME CaseInv, Note PROVE CaseInv'
  <1> DEFINE j == Top.i
             x == notes + 1
  <1>1. /\ Free /\ Top.k \in UserFrames /\ Emit(j) /\ notes' = x
        /\ UNCHANGED <<stack, spans, engine, data, raising, line, seen, result>>
    BY DEF Note, UserFree, Free
  <1>2. /\ inst \in [Instances -> [span_depth : Int, printing_depth : Int, pending : Seq(Nat)]]
        /\ notes \in Nat /\ shown \in Seq(Nat) /\ NotesInv /\ j \in Instances
        /\ \A i \in Instances :
              inst[i].pending \in Seq(Nat) /\ IsInjective(inst[i].pending) /\ ToSet(inst[i].pending) \subseteq 1..notes
        /\ ToSet(shown) \subseteq 1..notes /\ IsInjective(shown)
    BY NotesFacts, TopFacts
  <1>3. x \in Nat /\ x \notin 1..notes /\ 1..x = (1..notes) \cup {x}
    BY <1>2
  <1>7. engine = "live"
    BY <1>1, LiveNow DEF UserFrames, BodyFrames
  <1> HIDE DEF x
  <1>4. x \notin ToSet(shown) /\ \A i \in Instances : x \notin ToSet(inst[i].pending)
    BY <1>2, <1>3
  <1>5. CASE inst[j].printing_depth > 0
    <2> DEFINE p == Append(inst[j].pending, x)
    <2>1. inst' = [inst EXCEPT ![j].pending = p] /\ shown' = shown
      BY <1>1, <1>5 DEF Emit, x
    <2>2. p \in Seq(Nat) /\ IsInjective(p) /\ ToSet(p) = ToSet(inst[j].pending) \cup {x}
      BY <1>2, <1>3, <1>4, OneMore
    <2> HIDE DEF p, j
    <2>3. /\ inst' \in [Instances -> [span_depth : Int, printing_depth : Int, pending : Seq(Nat)]]
          /\ inst'[j].pending = p /\ \A i \in Instances : i # j => inst'[i] = inst[i]
          /\ \A i \in Instances : /\ inst'[i].span_depth = inst[i].span_depth
                                  /\ inst'[i].printing_depth = inst[i].printing_depth
      BY <1>2, <2>1, <2>2
    <2>4. \A i \in Instances : inst'[i].printing_depth = 0 => inst'[i].pending = <<>>
      <3> TAKE i \in Instances
      <3>1. i = j => inst'[i].printing_depth # 0
        BY <1>2, <1>5, <2>3
      <3> QED
        BY <1>2, <2>3, <3>1 DEF NotesInv
    <2>5. \A i \in Instances :
             /\ inst'[i].printing_depth \in {0, 1}
             /\ inst'[i].printing_depth = 0 <=> DrawsOf(stack', i) = {}
             /\ \A m, n \in DrawsOf(stack', i) : m = n
             /\ inst'[i].printing_depth = 0 => inst'[i].pending = <<>>
      BY <1>1, <1>2, <2>3, <2>4 DEF NotesInv
    <2>6. /\ IsInjective(shown') /\ IsInjective(inst'["root"].pending) /\ IsInjective(inst'["child"].pending)
          /\ ToSet(shown') \cap ToSet(inst'["root"].pending) = {}
          /\ ToSet(shown') \cap ToSet(inst'["child"].pending) = {}
          /\ ToSet(inst'["root"].pending) \cap ToSet(inst'["child"].pending) = {}
          /\ ToSet(shown') \cup ToSet(inst'["root"].pending) \cup ToSet(inst'["child"].pending) = 1..notes'
      <3>1. CASE j = "root"
        <4>1. inst'["child"].pending = inst["child"].pending /\ inst'["root"].pending = p
              /\ ToSet(p) = ToSet(inst["root"].pending) \cup {x} /\ x \notin ToSet(inst["child"].pending)
          BY <1>4, <2>2, <2>3, <3>1 DEF Instances
        <4> QED
          BY <1>1, <1>2, <1>3, <1>4, <2>1, <2>2, <4>1 DEF NotesInv
      <3>2. CASE j = "child"
        <4>1. inst'["root"].pending = inst["root"].pending /\ inst'["child"].pending = p
              /\ ToSet(p) = ToSet(inst["child"].pending) \cup {x} /\ x \notin ToSet(inst["root"].pending)
          BY <1>4, <2>2, <2>3, <3>2 DEF Instances
        <4> QED
          BY <1>1, <1>2, <1>3, <1>4, <2>1, <2>2, <4>1 DEF NotesInv
      <3> QED
        BY <1>2, <3>1, <3>2 DEF Instances
    <2>7. NotesInv'
      BY <2>5, <2>6 DEF NotesInv
    <2>8. CaseTypes'
      BY <1>1, <1>3, <2>1, <2>3, TopFacts DEF CaseTypes, seen
    <2>9. Root' = Root /\ Child' = Child
      BY <2>3 DEF Root, Child, Instances
    <2>10. SpansInv' /\ VerdictInv' /\ MispricedInv' /\ LineIsTheValue'
      <3>1. SpansInv'
        BY <1>1, <2>9, TopFacts DEF SpansInv, Free, Root, Child, seen
      <3>2. VerdictInv' /\ MispricedInv' /\ LineIsTheValue'
        BY <1>1, <1>7, TopFacts DEF VerdictInv, MispricedInv, LineIsTheValue, Free
      <3> QED
        BY <3>1, <3>2
    <2> QED
      BY <1>1, <2>7, <2>8, <2>10, TopFacts DEF CaseInv
  <1>6. CASE ~(inst[j].printing_depth > 0)
    <2>1. inst' = inst /\ shown' = Append(shown, x)
      BY <1>1, <1>6 DEF Emit, x
    <2>2. shown' \in Seq(Nat) /\ IsInjective(shown') /\ ToSet(shown') = ToSet(shown) \cup {x}
      BY <1>2, <1>3, <1>4, <2>1, OneMore
    <2>3. x \notin ToSet(inst["root"].pending) /\ x \notin ToSet(inst["child"].pending)
      BY <1>4 DEF Instances
    <2>4. NotesInv'
      <3>1. \A i \in Instances :
               /\ inst'[i].printing_depth \in {0, 1}
               /\ inst'[i].printing_depth = 0 <=> DrawsOf(stack', i) = {}
               /\ \A m, n \in DrawsOf(stack', i) : m = n
               /\ inst'[i].printing_depth = 0 => inst'[i].pending = <<>>
        BY <1>1, <1>2, <2>1 DEF NotesInv
      <3> QED
        BY <1>1, <1>2, <1>3, <2>1, <2>2, <2>3, <3>1 DEF NotesInv
    <2>5. CaseTypes'
      BY <1>1, <1>3, <2>1, <2>2, TopFacts DEF CaseTypes, seen
    <2>6. SpansInv' /\ VerdictInv' /\ MispricedInv' /\ LineIsTheValue'
      <3>1. SpansInv'
        BY <1>1, <2>1, TopFacts DEF SpansInv, Free, seen
      <3>2. VerdictInv' /\ MispricedInv' /\ LineIsTheValue'
        BY <1>1, <1>7, TopFacts DEF VerdictInv, MispricedInv, LineIsTheValue, Free
      <3> QED
        BY <3>1, <3>2
    <2> QED
      BY <1>1, <2>4, <2>5, <2>6, TopFacts DEF CaseInv
  <1> QED
    BY <1>5, <1>6

-----------------------------------------------------------------------------
(* The invariant holds, and what follows. *)

\* A new case is in the invariant.
LEMMA CaseInitially == ASSUME CaseInit PROVE CaseInv
  <1> DEFINE f == Frame("body", "root", TRUE)
  <1>1. stack = <<f>> /\ "body" \in Kinds /\ "root" \in Instances
    BY DEF CaseInit, Kinds, Instances
  <1>2. /\ f \in Frames /\ f.k = "body" /\ f.i = "root" /\ f.quiet = TRUE /\ f.stage = "start"
        /\ f.span = FALSE /\ f.plan = <<>>
    BY <1>1, FrameTyped
  <1> HIDE DEF f
  <1>3. Len(stack) = 1 /\ stack \in Seq(Frames) /\ stack[1] = f /\ 1..Len(stack) = {1} /\ 2..Len(stack) = {}
    BY <1>1, <1>2
  <1>4. FrameOK(f) /\ ~FrameOpened(f)
    BY <1>2 DEF FrameOK, SpanFits, PlanFits, TextFits, Printing, FrameOpened
  <1>5. ~OnRule(stack) /\ Place(stack, 1)
    BY <1>2, <1>3 DEF OnRule, Place
  <1>6. StackOK(stack)
    BY <1>3, <1>4, <1>5 DEF StackOK
  <1>7. \A i \in Instances : DrawsOf(stack, i) = {}
    BY <1>2, <1>3 DEF DrawsOf
  <1>8. /\ inst = [i \in {"root", "child"} |-> Fresh]
        /\ spans = <<>> /\ engine = "live" /\ raising = "" /\ line = Nothing /\ shown = <<>> /\ notes = 0
        /\ result = "" /\ missed = FALSE /\ swallowed = FALSE /\ \E t \in Tests : data = t.data
    BY DEF CaseInit
  <1>9. /\ Fresh \in [span_depth : Int, printing_depth : Int, pending : Seq(Nat)]
        /\ Fresh.span_depth = 0 /\ Fresh.printing_depth = 0 /\ Fresh.pending = <<>>
    BY DEF Fresh
  <1>10. /\ inst \in [Instances -> [span_depth : Int, printing_depth : Int, pending : Seq(Nat)]]
         /\ inst["root"] = Fresh /\ inst["child"] = Fresh
    BY <1>8, <1>9 DEF Instances
  <1>11. data \in Nat
    BY <1>8, ClientCaseAssumption DEF ClientCaseAssumption
  <1>12. CaseTypes
    BY <1>8, <1>10, <1>11, NothingTold, NothingShown DEF CaseTypes, Payloads
  <1>13. NotesInv
    <2>1. inst["root"].pending = <<>> /\ inst["child"].pending = <<>>
      BY <1>9, <1>10
    <2>3. 1..notes = {}
      <3>1. 1..0 = {}
        OBVIOUS
      <3> QED
        BY <1>8, <3>1
    <2>2. \A i \in Instances : inst[i].printing_depth = 0 /\ inst[i].pending = <<>>
      BY <1>9, <1>10 DEF Instances
    <2> QED
      BY <1>7, <1>8, <2>1, <2>2, <2>3, NothingShown DEF NotesInv
  <1>14. Good(stack, spans, 0, 0)
    <2>1. DOMAIN spans = {} /\ Len(spans) = 0
      <3>1. DOMAIN <<>> = {} /\ Len(<<>>) = 0
        OBVIOUS
      <3> QED
        BY <1>8, <3>1
    <2>2. ~Holds(spans, 1) /\ Increasing(spans)
      BY <2>1 DEF Holds, Increasing
    <2>3. Based(stack, spans) /\ Counted(stack, 0, 0)
      BY <1>2, <1>3, <1>5 DEF Based, Counted
    <2> QED
      BY <1>3, <1>4, <2>1, <2>2, <2>3 DEF Good
  <1>15. SpansInv
    BY <1>8, <1>9, <1>10, <1>14 DEF SpansInv
  <1>16. VerdictInv /\ MispricedInv /\ LineIsTheValue
    BY <1>8, NothingTold DEF VerdictInv, MispricedInv, LineIsTheValue, Told
  <1> QED
    BY <1>6, <1>12, <1>13, <1>15, <1>16 DEF CaseInv

\* A step that changes nothing keeps the invariant.
LEMMA CaseStuttered == ASSUME CaseInv, UNCHANGED caseVars PROVE CaseInv'
  <1>1. UNCHANGED <<stack, inst, spans, engine, data, raising, line, shown, notes, missed, swallowed, uses, result>>
    BY DEF caseVars, doc, seen
  <1>2. CaseTypes' /\ StackOK(stack')
    BY <1>1, TopFacts DEF CaseTypes
  <1>3. NotesInv'
    BY <1>1, TopFacts, NotesSame
  <1>4. Top' = Top
    BY <1>1 DEF Top
  <1>5. SpansInv'
    BY <1>1, <1>4, TopFacts DEF SpansInv
  <1>6. VerdictInv' /\ MispricedInv' /\ LineIsTheValue'
    BY <1>1, <1>4, TopFacts DEF VerdictInv, MispricedInv, Conclusion, LineIsTheValue
  <1> QED
    BY <1>2, <1>3, <1>5, <1>6 DEF CaseInv

\* The steps of user code.
LEMMA UserStepKeeps == ASSUME CaseInv, UserStep PROVE CaseInv'
  BY DrawNamedKeeps, DrawSilentKeeps, NoteKeeps, RejectKeeps, PanicKeeps, ReturnsKeeps,
     CompositeReturnsKeeps, CustomReturnsKeeps, Zenon DEF UserStep

\* The steps of generators.
LEMMA GeneratorStepKeeps == ASSUME CaseInv, GeneratorStep PROVE CaseInv'
  BY PrimitiveKeeps, EnterCombinatorKeeps, CombinatorChoiceKeeps, CombinatorGotKeeps, CombinatorDoneKeeps,
     EnterFilterKeeps, FilterAcceptsKeeps, FilterRejectsKeeps, FilterAgainKeeps, EnterListKeeps,
     CollectionMoreKeeps, KeyFreshKeeps, ElementKeptKeeps, ElementRejectedKeeps, ListDoneKeeps,
     EnterSampleKeeps, SampleMoreKeeps, SampleIndexKeeps, SampleDoneKeeps, EnterRecursiveKeeps, EnterRootKeeps,
     EnterSubtreeKeeps, BranchKeeps, CountLeafKeeps, SubtreeDoneKeeps, MispricedKeeps, RecursiveDoneKeeps,
     EnterCompositeKeeps, EnterCustomKeeps, DrawDoneKeeps, Zenon DEF GeneratorStep

\* The steps of repeat loops and of the state machine's runner.
LEMMA LoopStepKeeps == ASSUME CaseInv, LoopStep PROVE CaseInv'
  BY EnterRepeatKeeps, RepeatMoreKeeps, RepeatDoneKeeps, RunMachineKeeps, OpenStepKeeps, NextGroupKeeps,
     CallRuleKeeps, CloseStepKeeps, CloseLastKeeps, Zenon DEF LoopStep

\* The steps of returns and unwinds.
LEMMA UnwindStepKeeps == ASSUME CaseInv, UnwindStep PROVE CaseInv'
  BY UnwindGeneratorKeeps, UnwindDrawKeeps, RetryKeeps, UnwindRecursiveKeeps, IterationRejectedKeeps,
     IterationUnwindsKeeps, IterationFailsKeeps, RuleRejectedKeeps, RuleUnwindsKeeps, BodyUnwindsKeeps,
     Zenon DEF UnwindStep

\* Every step keeps the invariant.
LEMMA CaseStepKeeps == ASSUME CaseInv, [CaseNext]_caseVars PROVE CaseInv'
  BY UserStepKeeps, GeneratorStepKeeps, LoopStepKeeps, UnwindStepKeeps, CaseStuttered, Zenon DEF CaseNext, CaseEnded

\* The invariant holds throughout every test case.
LEMMA CaseInvHolds == CaseSpec => []CaseInv
  <1>1. CaseInit => CaseInv
    BY CaseInitially
  <1>2. CaseInv /\ [CaseNext]_caseVars => CaseInv'
    BY CaseStepKeeps
  <1> QED
    BY <1>1, <1>2, PTL DEF CaseSpec

\* While the case goes on, spans and counters agree.
LEMMA SpansNow ==
    ASSUME CaseInv, Free, engine = "live", swallowed = FALSE
    PROVE  /\ Len(spans) = inst["root"].span_depth + inst["child"].span_depth
           /\ ToSet(spans) = {n \in DOMAIN stack : Opened(n)}
           /\ \A a, b \in DOMAIN spans : a < b => spans[a] < spans[b]
  <1>1. Good(stack, spans, Root, Child)
    BY GoodNow
  <1>2. stack \in Seq(Frames) /\ DOMAIN stack = 1..Len(stack) /\ \A n \in 1..Len(stack) : FrameOK(stack[n])
    <2>1. StackOK(stack) /\ stack \in Seq(Frames)
      BY TopFacts
    <2>2. DOMAIN stack = 1..Len(stack)
      BY <2>1
    <2>3. \A n \in 1..Len(stack) : FrameOK(stack[n])
      BY <2>1, StackFacts
    <2> QED
      BY <2>1, <2>2, <2>3
  <1>3. spans \in Seq(Nat)
    BY TopFacts
  <1>4. Len(spans) = inst["root"].span_depth + inst["child"].span_depth
    BY <1>1 DEF Good, Root, Child
  <1>5. \A n \in 1..Len(stack) : Opened(n) <=> Holds(spans, n)
    <2> TAKE n \in 1..Len(stack)
    <2>1. FrameOpened(stack[n]) <=> Holds(spans, n)
      BY <1>1 DEF Good
    <2>2. stack[n].span \in BOOLEAN
      BY <1>2 DEF FrameOK, Frames
    <2> QED
      BY <2>1, <2>2 DEF Opened, FrameOpened
  <1>6. \A a \in DOMAIN spans : spans[a] \in 1..Len(stack)
    <2>1. \A a \in DOMAIN spans : spans[a] \in Nat
      BY <1>3
    <2>2. \A a \in DOMAIN spans : spans[a] <= Len(stack) /\ spans[a] # 0
      BY <1>1 DEF Good, Increasing
    <2>3. Len(stack) \in Nat
      BY <1>2
    <2> QED
      BY <2>1, <2>2, <2>3
  <1>7. ToSet(spans) = {n \in DOMAIN stack : Opened(n)}
    BY <1>2, <1>5, <1>6 DEF ToSet, Holds
  <1> QED
    BY <1>1, <1>4, <1>7 DEF Good, Increasing

\* The invariant says what the report and the unwinds promise.
LEMMA CleanNow == ASSUME CaseInv PROVE UnwindsClean
  <1>0. swallowed \in BOOLEAN
    BY TopFacts DEF CaseTypes
  <1>1. SpansInStep
    BY <1>0, SpansNow, Zenon DEF SpansInStep, Free
  <1>2. VerdictIsConclusion
    BY TopFacts DEF VerdictIsConclusion, VerdictInv, Conclusion, Verdict
  <1> QED
    BY <1>1, <1>2 DEF UnwindsClean

\* What the invariant says of notes and lines is what the report promises.
LEMMA FaithfulNow == ASSUME CaseInv PROVE ReportIsFaithful
  <1> DEFINE p == inst["root"].pending
             q == inst["child"].pending
  <1>1. /\ p \in Seq(Nat) /\ q \in Seq(Nat) /\ shown \in Seq(Nat) /\ NotesInv /\ DOMAIN inst = Instances
        /\ DOMAIN stack = 1..Len(stack)
    BY NotesFacts, TopFacts DEF Instances
  <1>2. /\ IsInjective(shown) /\ IsInjective(p) /\ IsInjective(q)
        /\ ToSet(shown) \cap ToSet(p) = {} /\ ToSet(shown) \cap ToSet(q) = {} /\ ToSet(p) \cap ToSet(q) = {}
        /\ ToSet(shown) \cup ToSet(p) \cup ToSet(q) = 1..notes
    BY <1>1 DEF NotesInv
  <1>3. \A i \in Instances : inst[i].pending # <<>> => DrawsOf(stack, i) # {}
    BY <1>1 DEF NotesInv
  <1> HIDE DEF p, q
  <1>4. p \o q \in Seq(Nat) /\ IsInjective(p \o q) /\ ToSet(p \o q) = ToSet(p) \cup ToSet(q)
    BY <1>1, <1>2, ToldApart
  <1>5. ToSet(shown) \cap ToSet(p \o q) = {}
    BY <1>2, <1>4
  <1>6. IsInjective(shown \o (p \o q)) /\ ToSet(shown \o (p \o q)) = 1..notes
    <2> DEFINE r == p \o q
    <2>1. r \in Seq(Nat) /\ IsInjective(r) /\ ToSet(r) = ToSet(p) \cup ToSet(q) /\ ToSet(shown) \cap ToSet(r) = {}
      BY <1>4, <1>5
    <2> HIDE DEF r
    <2>2. IsInjective(shown \o r) /\ ToSet(shown \o r) = ToSet(shown) \cup ToSet(r)
      BY <1>1, <1>2, <2>1, ToldApart
    <2>3. ToSet(shown \o r) = 1..notes
      BY <1>2, <2>1, <2>2
    <2> QED
      BY <2>2, <2>3 DEF r
  <1>7. \A i \in DOMAIN inst : inst[i].pending # <<>> => \E n \in DOMAIN stack : stack[n].k = "draw" /\ stack[n].i = i
    BY <1>1, <1>3 DEF DrawsOf
  <1>8. NotesKept
    BY <1>6, <1>7, Zenon DEF NotesKept, p, q
  <1> QED
    BY <1>8, TopFacts DEF ReportIsFaithful

\* Whatever catches a control payload (repeat, a rule, a recursive attempt, filter) leaves the
\* client's span counters and the engine's span stack in step, the open spans being those of
\* the frames still running, and a case the engine concluded is reported as it concluded it
\* (test_case.rs start_span and stop_span, recursive.rs, draws/mod.rs recursion_retry,
\* stateful.rs).
THEOREM UnwindsAreClean == CaseSpec => []UnwindsClean
  <1>1. CaseInv => UnwindsClean
    BY CleanNow
  <1> QED
    BY <1>1, CaseInvHolds, PTL

\* Every committed line shows the value its draw returned, and every note is in the report once
\* or waits for a running draw of its own instance, whatever was filtered, retried or unwound
\* on the way (generators.rs draw_filtered, test_case.rs note, pretty.rs).
THEOREM ReportTrue == CaseSpec => []ReportIsFaithful
  <1>1. CaseInv => ReportIsFaithful
    BY FaithfulNow
  <1> QED
    BY <1>1, CaseInvHolds, PTL
=============================================================================
