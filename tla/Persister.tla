--------------------------------- MODULE Persister ---------------------------------
(* What a run does to the example database (native/test_runner.rs): the reuse   *)
(* phase of Engine::run, Persister::record on every failure found, the          *)
(* secondary corpus that the shrink phase drains, and reconcile_database.       *)
(* Runs follow one another on one directory; between them the test may be       *)
(* edited, and a run may be killed between any two file operations.             *)
(*                                                                              *)
(* A test case is a number, the rank of its choices in the shrink order         *)
(* (sort_key); its serialised bytes are ordered by ByteRank (shortlex).  A      *)
(* version of the test is the function from the cases it can realise to what    *)
(* they conclude with.                                                          *)
EXTENDS ExampleDatabase, FiniteSetsExt

CONSTANTS
    Engine, Primary, Secondary,
    Cases, ByteRank,
    Origins, Valid, Overrun, Concurrent,    \* what an execution concludes with
    Versions, Settings,
    DesiredSize,    \* how many stored examples the reuse phase replays at least
    Cap,            \* SECONDARY_CORPUS_CAP
    MaxRuns, MaxExecutions, MaxKills    \* bounds: runs, free executions of a run, kills

None == 0

ASSUME PersisterOK ==
    /\ Users = {Engine} /\ Keys = {Primary, Secondary} /\ Primary # Secondary
    /\ Cases \subseteq Nat \ {None} /\ Entries = Cases \cup {Torn}
    /\ Torn \notin Cases
    /\ None \notin Origins \cup {Valid}
    /\ Valid \notin Origins /\ Concurrent \notin Origins \cup {Valid, Overrun}
    /\ Overrun \notin Origins \cup {Valid}
    /\ \A version \in Versions : \A c \in DOMAIN version :
          c \in Cases /\ version[c] \in Origins \cup {Valid}
    \* distinct byte strings have distinct places in shortlex; 0 is the cut-short one's
    /\ ByteRank \in [Cases -> Nat \ {0}]
    /\ \A c, d \in Cases : ByteRank[c] = ByteRank[d] => c = d
    /\ \A s \in Settings : \A f \in {"reuse", "generate", "shrink", "report_multiple"} :
          s[f] \in BOOLEAN
    /\ Settings # {} /\ Cap \in Nat

VARIABLES
    flaky,          \* may equal choices conclude differently, and a case turn concurrent?
    phase, settings, test,      \* where the run stands, its settings, the test's version
    preexisting, saved_this_run, last_saved,    \* the Persister
    interesting, nondeterministic, seen,        \* the Engine (seen: ExecCache::verdicts)
    replay_aligned, found_in_primary,
    queue,          \* the stored examples still to replay
    limit,          \* primary_max of the shrink phase
    executing,      \* the execution being recorded
    target, shrunk_origins,     \* the shrinker's origin and current case
    left,           \* what reconcile_database still has to save or displace
    executions, runs, kills,
    owed,           \* history: per origin the best case recorded, or the shrinker's result
    expected,       \* history: the origins the last run of this version recorded
    run_start       \* history: every entry that was primary when some run started

world == <<failing, flaky, dirs, files>>
persister == <<preexisting, saved_this_run, last_saved>>
verdicts == <<nondeterministic, seen>>
replaying == <<replay_aligned, found_in_primary, queue, limit>>
shrinking == <<target, shrunk_origins>>
memory == <<settings, persister, interesting, verdicts, replaying, shrinking, left>>
history == <<runs, kills, owed, expected, run_start>>

vars == <<world, todo, phase, test, memory, executing, executions, history>>

NoCase == [case |-> None, verdict |-> Valid, abort |-> FALSE]
NoTarget == [origin |-> Valid, case |-> None]
NoFailures == [o \in Origins |-> None]

Init ==
    /\ DbInit
    /\ failing = FALSE
    /\ flaky \in BOOLEAN
    /\ phase = "off"
    /\ settings = CHOOSE s \in Settings : TRUE
    /\ test \in Versions
    /\ preexisting = {} /\ saved_this_run = {} /\ last_saved = NoFailures
    /\ interesting = NoFailures /\ nondeterministic = FALSE
    /\ seen = [c \in Cases |-> None]
    /\ replay_aligned = FALSE /\ found_in_primary = FALSE
    /\ queue = {} /\ limit = 0
    /\ executing = NoCase
    /\ target = NoTarget /\ shrunk_origins = {}
    /\ left = {}
    /\ executions = 0 /\ runs = 0 /\ kills = 0
    /\ owed = NoFailures /\ expected = {} /\ run_start = {}

-----------------------------------------------------------------------------
\* The engine runs its own code: no file operation and no record is under way.
Ready == todo[Engine] = <<>> /\ executing = NoCase

Perform(ops) == todo' = [todo EXCEPT ![Engine] = ops]

Failures(map) == {o \in Origins : map[o] # None}
Incumbents(map) == {map[o] : o \in Failures(map)}

\* shortlex: bytes that were cut short come first.
Rank(raw) == IF raw = Torn THEN 0 ELSE ByteRank[raw]

Stage(raws, primary) == {[raw |-> raw, primary |-> primary] : raw \in raws}

\* Stored examples are replayed in shortlex order, the primary ones first.
Precedes(a, b) ==
    \/ a.primary /\ ~b.primary
    \/ a.primary = b.primary /\ Rank(a.raw) < Rank(b.raw)

Upcoming(entry) ==
    /\ entry \in queue
    /\ \A other \in queue \ {entry} : Precedes(entry, other)

\* What an execution that realises case c may conclude with.
Verdicts(c) ==
    IF flaky THEN Origins \cup {Valid, Concurrent} ELSE {test[c]}

Runs(cases) == UNION {{[case |-> c, verdict |-> v] : v \in Verdicts(c)} : c \in cases}

\* Replaying stored choices: they fit this version of the test, or the test goes its
\* own way from where they stop fitting (for_probe, for_choices).
Replays(raw) ==
    IF raw \in DOMAIN test THEN Runs({raw})
    ELSE Runs(DOMAIN test) \cup {[case |-> None, verdict |-> Overrun]}

\* record_execution: the same choices concluded differently before.
Mismatch(run) ==
    /\ ~nondeterministic
    /\ run.verdict \notin {Overrun, Concurrent}
    /\ seen[run.case] \notin {None, run.verdict}

Interesting(run) == run.verdict \in Origins

\* Mutant: the superseded bytes are removed before the new ones are saved.
RecordDeletesFirst(run) ==
    LET prev == last_saved[run.verdict] IN
    IF ~Interesting(run) \/ nondeterministic \/ (prev # None /\ ~(run.case < prev)) THEN <<>>
    ELSE (IF prev = None \/ prev = run.case THEN <<>>
          ELSE IF prev \in preexisting THEN <<MoveValue(Primary, Secondary, prev)>>
          ELSE <<Delete(Primary, prev)>>)
         \o <<Save(Primary, run.case)>>

\* Mutant: bytes that another origin shares are removed all the same.
RecordIgnoresSharing(run) ==
    LET prev == last_saved[run.verdict] IN
    IF ~Interesting(run) \/ nondeterministic \/ (prev # None /\ ~(run.case < prev)) THEN <<>>
    ELSE <<Save(Primary, run.case)>> \o
         IF prev = None \/ prev = run.case THEN <<>>
         ELSE IF prev \in preexisting THEN <<MoveValue(Primary, Secondary, prev)>>
         ELSE <<Delete(Primary, prev)>>

\* Persister::record: save the new incumbent, then take the one it supersedes out of
\* the primary key, unless another origin's last save is the same bytes.
Record(run) ==
    LET prev   == last_saved[run.verdict]
        shared == \E o \in Origins \ {run.verdict} : last_saved[o] = prev IN
    IF ~Interesting(run) \/ nondeterministic \/ (prev # None /\ ~(run.case < prev)) THEN <<>>
    ELSE <<Save(Primary, run.case)>> \o
         IF prev = None \/ prev = run.case \/ shared THEN <<>>
         ELSE IF prev \in preexisting THEN <<MoveValue(Primary, Secondary, prev)>>
         ELSE <<Delete(Primary, prev)>>

\* test_function: the run concludes, and record_run files it away.  `after` is what
\* the caller does to the database next.
Execute(run, abort, after) ==
    /\ executing' = [case |-> run.case, verdict |-> run.verdict, abort |-> abort]
    /\ Perform(Record(run) \o after)
    /\ nondeterministic' = (nondeterministic \/ run.verdict = Concurrent)
    /\ seen' = IF nondeterministic' THEN [c \in Cases |-> None]
               ELSE IF run.verdict # Overrun /\ seen[run.case] = None
               THEN [seen EXCEPT ![run.case] = run.verdict] ELSE seen

\* The record is complete: the maps of the Persister and the Engine are updated, and
\* a run that contradicted an earlier one ends the exploration.
Recorded ==
    LET o == executing.verdict
        c == executing.case
        better(map) == map[o] = None \/ c < map[o] IN
    /\ executing # NoCase
    /\ todo[Engine] = <<>>
    /\ IF Interesting(executing)
       THEN /\ IF ~nondeterministic /\ better(last_saved)
               THEN /\ last_saved' = [last_saved EXCEPT ![o] = c]
                    /\ saved_this_run' = saved_this_run \cup {c}
                    /\ owed' = [owed EXCEPT ![o] = c]
               ELSE UNCHANGED <<last_saved, saved_this_run, owed>>
            /\ interesting' = IF better(interesting) THEN [interesting EXCEPT ![o] = c]
                              ELSE interesting
       ELSE UNCHANGED <<last_saved, saved_this_run, owed, interesting>>
    /\ phase' = IF executing.abort THEN "aborted" ELSE phase
    /\ executing' = NoCase
    /\ UNCHANGED <<world, todo, test, settings, preexisting, verdicts, replaying,
                   shrinking, left, executions, runs, kills, expected, run_start>>

-----------------------------------------------------------------------------
\* The stored examples a run replays: the primary ones, then enough of the secondary.
ReplayPlans ==
    LET primary   == Fetch(Primary)
        extra     == Fetch(Secondary) \ primary
        shortfall == DesiredSize - Cardinality(primary)
        sizes     == IF shortfall <= 0 THEN 0
                     ELSE Min({shortfall, Cardinality(extra)}) IN
    {Stage(primary, TRUE) \cup Stage(sample, FALSE) : sample \in kSubset(sizes, extra)}

\* Engine::new and Persister::new; the reuse phase fetches what it will replay.
StartRun(s, version, plan) ==
    /\ phase \in {"off", "done", "aborted"}
    /\ runs < MaxRuns
    /\ runs' = runs + 1
    /\ settings' = s
    /\ test' = version
    /\ preexisting' = Fetch(Primary)
    /\ saved_this_run' = {} /\ last_saved' = NoFailures
    /\ interesting' = NoFailures /\ nondeterministic' = FALSE
    /\ seen' = [c \in Cases |-> None]
    /\ phase' = "reuse"
    /\ queue' = IF s.reuse THEN plan ELSE {}
    /\ replay_aligned' = (s.reuse /\ Fetch(Primary) # {})
    /\ found_in_primary' = FALSE
    /\ limit' = 0 /\ target' = NoTarget /\ shrunk_origins' = {} /\ left' = {}
    /\ executing' = NoCase
    /\ executions' = 0
    /\ owed' = NoFailures
    /\ expected' = IF version = test THEN Failures(owed) ELSE {}
    /\ run_start' = run_start \cup Fetch(Primary)
    /\ UNCHANGED <<world, todo, kills>>

Forget(raw) == <<Delete(Primary, raw), Delete(Secondary, raw)>>

\* A stored example that cannot be decoded is deleted from both keys.
DropUndecodable(entry) ==
    /\ phase = "reuse" /\ Ready
    /\ Upcoming(entry) /\ entry.raw = Torn
    /\ found_in_primary => entry.primary
    /\ Perform(Forget(Torn))
    /\ queue' = queue \ {entry}
    /\ UNCHANGED <<world, phase, test, settings, persister, interesting, verdicts,
                   replay_aligned, found_in_primary, limit, executing, shrinking, left,
                   executions, history>>

\* Mutant: the replay stops at the first failure whatever the settings say.
StopsReplayAtFirst(run) == Interesting(run)

\* The replay stops at a failure when only one is to be reported.
StopsReplay(run) == Interesting(run) /\ ~settings.report_multiple

\* The reuse phase replays one stored example; one that is not interesting any more is
\* deleted from both keys.
ReplayStored(entry, run) ==
    LET raw == entry.raw IN
    /\ phase = "reuse" /\ Ready
    /\ Upcoming(entry) /\ raw # Torn
    /\ found_in_primary => entry.primary
    /\ run \in Replays(raw)
    /\ Execute(run, Mismatch(run),
               IF ~Mismatch(run) /\ ~Interesting(run) THEN Forget(raw) ELSE <<>>)
    /\ found_in_primary' = (found_in_primary \/ (Interesting(run) /\ entry.primary))
    /\ replay_aligned' = (/\ replay_aligned
                          /\ ~nondeterministic'
                          /\ Interesting(run) => entry.primary /\ run.case = raw)
    /\ queue' = IF nondeterministic' \/ StopsReplay(run) THEN {} ELSE queue \ {entry}
    /\ UNCHANGED <<world, phase, test, settings, persister, interesting, limit,
                   shrinking, left, executions, history>>

\* The reuse phase is over; generation follows only if it found nothing.
ReuseEnds ==
    /\ phase = "reuse" /\ Ready
    /\ queue # {} => found_in_primary /\ \A entry \in queue : ~entry.primary
    /\ queue' = {}
    /\ replay_aligned' = (replay_aligned /\ Failures(interesting) # {})
    /\ phase' = IF settings.generate /\ Failures(interesting) = {} THEN "generate"
                ELSE "generated"
    /\ UNCHANGED <<world, todo, test, settings, persister, interesting, verdicts,
                   found_in_primary, limit, executing, shrinking, left, executions,
                   history>>

\* Any case the generation phase executes; after the first bug it goes on only to
\* look for further origins.
Generate(run) ==
    /\ phase = "generate" /\ Ready
    /\ executions < MaxExecutions
    /\ Failures(interesting) = {} \/
          (settings.shrink /\ ~nondeterministic /\ settings.report_multiple)
    /\ run \in Runs(DOMAIN test)
    /\ Execute(run, Mismatch(run), <<>>)
    /\ executions' = executions + 1
    /\ UNCHANGED <<world, phase, test, settings, persister, interesting, replaying,
                   shrinking, left, history>>

GenerateEnds ==
    /\ phase = "generate" /\ Ready
    /\ phase' = "generated"
    /\ UNCHANGED <<world, todo, test, memory, executing, executions, history>>

\* A health check fails, or no input satisfies the assumptions: the run ends with an
\* error and leaves the database as it is.  Only a run without a failure checks.
HealthCheckFails ==
    /\ phase = "generate" /\ Ready
    /\ Failures(interesting) = {}
    /\ phase' = "aborted"
    /\ UNCHANGED <<world, todo, test, memory, executing, executions, history>>

\* Is there anything to shrink?  If so, the secondary corpus is replayed first, up to
\* the largest of the current failures.
AfterGenerate ==
    /\ phase = "generated" /\ Ready
    /\ IF Failures(interesting) # {} /\ ~replay_aligned /\ settings.shrink /\ ~nondeterministic
       THEN /\ phase' = "downgrade"
            /\ queue' = Stage(Fetch(Secondary), FALSE)
            /\ limit' = Max({Rank(c) : c \in Incumbents(interesting)})
       ELSE phase' = "reconcile" /\ UNCHANGED <<queue, limit>>
    /\ UNCHANGED <<world, todo, test, settings, persister, interesting, verdicts,
                   replay_aligned, found_in_primary, executing, shrinking, left,
                   executions, history>>

\* The shrink phase replays one secondary entry, whatever it concludes with, and
\* deletes it.
Downgrade(entry, run) ==
    LET raw == entry.raw IN
    /\ phase = "downgrade" /\ Ready
    /\ Upcoming(entry) /\ Rank(raw) <= limit
    /\ IF raw = Torn
       THEN /\ run = NoCase
            /\ Perform(<<Delete(Secondary, raw)>>)
            /\ UNCHANGED <<executing, verdicts>>
       ELSE /\ run \in Replays(raw)
            /\ Execute(run, FALSE, <<Delete(Secondary, raw)>>)
    /\ queue' = queue \ {entry}
    /\ UNCHANGED <<world, phase, test, settings, persister, interesting, replay_aligned,
                   found_in_primary, limit, shrinking, left, executions, history>>

DowngradeEnds ==
    /\ phase = "downgrade" /\ Ready
    /\ \A entry \in queue : Rank(entry.raw) > limit
    /\ phase' = "shrink"
    /\ queue' = {}
    /\ UNCHANGED <<world, todo, test, settings, persister, interesting, verdicts,
                   replay_aligned, found_in_primary, limit, executing, shrinking, left,
                   executions, history>>

-----------------------------------------------------------------------------
\* The shrink phase verifies the incumbent of the next origin; one that does not fail
\* the same way again makes the run flaky.
Verify(o, run) ==
    /\ phase = "shrink" /\ Ready
    /\ target = NoTarget
    /\ o \in Failures(interesting) \ shrunk_origins
    /\ run \in Replays(interesting[o])
    /\ Execute(run, Mismatch(run) \/ run.verdict # o, <<>>)
    /\ target' = [origin |-> o, case |-> run.case]
    /\ UNCHANGED <<world, phase, test, settings, persister, interesting, replaying,
                   shrunk_origins, left, executions, history>>

\* The shrinker tries a case.  A smaller one with the same origin becomes its current,
\* unless a pass only inspects the run (coarse.rs, deletion.rs).
ShrinkProbe(run) ==
    /\ phase = "shrink" /\ Ready
    /\ target # NoTarget
    /\ executions < MaxExecutions
    /\ run \in Runs(DOMAIN test)
    /\ Execute(run, Mismatch(run), <<>>)
    /\ \/ target' = target
       \/ /\ ~Mismatch(run) /\ run.verdict = target.origin /\ run.case < target.case
          /\ target' = [target EXCEPT !.case = run.case]
    /\ executions' = executions + 1
    /\ UNCHANGED <<world, phase, test, settings, persister, interesting, replaying,
                   shrunk_origins, left, history>>

\* The shrinker has finished with an origin: its current case becomes the incumbent,
\* even of a smaller one that a pass inspected and did not adopt.
ShrinkEnds ==
    /\ phase = "shrink" /\ Ready
    /\ target # NoTarget
    /\ interesting' = [interesting EXCEPT ![target.origin] = target.case]
    /\ shrunk_origins' = shrunk_origins \cup {target.origin}
    /\ target' = NoTarget
    /\ owed' = IF owed[target.origin] = None THEN owed
               ELSE [owed EXCEPT ![target.origin] = target.case]
    /\ UNCHANGED <<world, todo, phase, test, settings, persister, verdicts, replaying,
                   left, executing, executions, runs, kills, expected, run_start>>

AllShrunk ==
    /\ phase = "shrink" /\ Ready
    /\ target = NoTarget
    /\ Failures(interesting) \subseteq shrunk_origins
    /\ phase' = "reconcile"
    /\ UNCHANGED <<world, todo, test, memory, executing, executions, history>>

-----------------------------------------------------------------------------
EnterPhase(next, work) ==
    /\ phase' = next
    /\ left' = work
    /\ UNCHANGED <<world, todo, test, settings, persister, interesting, verdicts,
                   replaying, shrinking, executing, executions, history>>

\* reconcile_database works on one entry of `left`.
WorkOn(entry, ops) ==
    /\ Ready
    /\ entry \in left
    /\ Perform(ops)
    /\ left' = left \ {entry}
    /\ UNCHANGED <<world, phase, test, settings, persister, interesting, verdicts,
                   replaying, shrinking, executing, executions, history>>

\* reconcile_database: nothing for a nondeterministic run.  It reads the primary key
\* before it saves, and keeps what is not one of the final failures as displaced.
Reconcile ==
    /\ phase = "reconcile" /\ Ready
    /\ IF nondeterministic THEN EnterPhase("done", {})
       ELSE EnterPhase("save", {<<"new", c>> : c \in Incumbents(interesting)} \cup
                   {<<"old", raw>> : raw \in Fetch(Primary) \ Incumbents(interesting)})

SaveNew(c) ==
    /\ phase = "save"
    /\ WorkOn(<<"new", c>>, <<Save(Primary, c)>>)

\* A displaced entry this run created is deleted, one it found is demoted.
Displacement(raw) ==
    IF raw \in saved_this_run \ preexisting THEN <<Delete(Primary, raw)>>
    ELSE <<MoveValue(Primary, Secondary, raw)>>

Displace(raw) ==
    /\ phase = "save"
    /\ \A c \in Cases : <<"new", c>> \notin left
    /\ WorkOn(<<"old", raw>>, Displacement(raw))

\* The entries of the secondary key beyond the cap.
Excess ==
    {raw \in Fetch(Secondary) :
        Cardinality({other \in Fetch(Secondary) : Rank(other) < Rank(raw)}) >= Cap}

Displaced ==
    /\ phase = "save" /\ Ready /\ left = {}
    /\ EnterPhase("evict", Excess)

Evict(raw) ==
    /\ phase = "evict"
    /\ WorkOn(raw, <<Delete(Secondary, raw)>>)

Evicted ==
    /\ phase = "evict" /\ Ready /\ left = {}
    /\ EnterPhase("done", {})

\* The process is killed; only the files remain.  (Bound: explored for tests that are
\* not flaky, the only ones a later run can be held to.)
Kill ==
    /\ ~flaky
    /\ phase \notin {"off", "done", "aborted"}
    /\ kills < MaxKills
    /\ kills' = kills + 1
    /\ phase' = "off"
    /\ Perform(<<>>)
    /\ settings' = CHOOSE s \in Settings : TRUE
    /\ preexisting' = {} /\ saved_this_run' = {} /\ last_saved' = NoFailures
    /\ interesting' = NoFailures /\ nondeterministic' = FALSE
    /\ seen' = [c \in Cases |-> None]
    /\ replay_aligned' = FALSE /\ found_in_primary' = FALSE
    /\ queue' = {} /\ limit' = 0 /\ target' = NoTarget /\ shrunk_origins' = {}
    /\ left' = {}
    /\ executing' = NoCase
    /\ executions' = 0
    /\ UNCHANGED <<world, test, runs, owed, expected, run_start>>

DatabaseStep ==
    /\ DbStep(Engine)
    /\ UNCHANGED <<flaky, phase, test, memory, executing, executions, history>>

Next ==
    \/ \E s \in Settings, version \in Versions, plan \in ReplayPlans :
          StartRun(s, version, plan)
    \/ DatabaseStep
    \/ Recorded
    \/ \E entry \in queue :
          \/ DropUndecodable(entry)
          \/ \E run \in Replays(entry.raw) : ReplayStored(entry, run)
          \/ \E run \in Replays(entry.raw) \cup {NoCase} : Downgrade(entry, run)
    \/ ReuseEnds
    \/ \E run \in Runs(DOMAIN test) : Generate(run) \/ ShrinkProbe(run)
    \/ GenerateEnds
    \/ HealthCheckFails
    \/ AfterGenerate
    \/ DowngradeEnds
    \/ \E o \in Failures(interesting) : \E run \in Replays(interesting[o]) : Verify(o, run)
    \/ ShrinkEnds
    \/ AllShrunk
    \/ Reconcile
    \/ \E c \in Cases : SaveNew(c)
    \/ \E raw \in Entries : Displace(raw) \/ Evict(raw)
    \/ Displaced
    \/ Evicted
    \/ Kill

Spec == Init /\ [][Next]_vars

-----------------------------------------------------------------------------
Phases == {"off", "reuse", "generate", "generated", "downgrade", "shrink", "reconcile",
           "save", "evict", "done", "aborted"}

TypeOK ==
    /\ phase \in Phases
    /\ settings \in Settings /\ test \in Versions
    /\ preexisting \subseteq Entries /\ saved_this_run \subseteq Cases
    /\ last_saved \in [Origins -> Cases \cup {None}]
    /\ interesting \in [Origins -> Cases \cup {None}]
    /\ \A c \in Cases : seen[c] # None => seen[c] \in Origins \cup {Valid} /\ ~nondeterministic
    /\ \A entry \in queue : entry.raw \in Entries
    /\ target = NoTarget \/ target.origin \in Origins
    /\ Stored(Primary) \cup Stored(Secondary) \subseteq Entries

\* At every instant of a run, and after it is killed at any of them, the primary key
\* holds for every origin a case that fails that way and is no larger than the best
\* one recorded or, once the origin was shrunk, than what the shrinker ended with ("a
\* Ctrl-C / SIGTERM mid-shrink loses nothing").
BestIsDurable ==
    ~flaky => \A o \in Failures(owed) :
        \E c \in Stored(Primary) \cap DOMAIN test : test[c] = o /\ c <= owed[o]

\* A run that replays the database finds again, in an unchanged test, the origins the
\* run before it had recorded, however that run ended: all of them when it reports
\* several failures, one of them otherwise.
FoundAgain ==
    ~flaky /\ phase \in {"generate", "generated"} /\ settings.reuse /\ expected # {} =>
        IF settings.report_multiple THEN expected \subseteq Failures(interesting)
        ELSE Failures(interesting) # {}

\* A same-run save is never demoted: what is in the secondary key was in the primary
\* key when a run started.
DemotedWereRunStart == Stored(Secondary) \subseteq run_start

\* A completed run leaves in the primary key exactly the failures it reports, and no
\* more than the cap in the secondary key (reconcile_database).
Reconciled ==
    phase = "done" /\ ~nondeterministic =>
        Stored(Primary) = Incumbents(interesting) /\ Cardinality(Stored(Secondary)) <= Cap

\* Until reconcile_database, the bytes an origin's last save points at stay in the
\* primary key although another origin may supersede the same bytes.  (A replay that
\* turns the run nondeterministic is forgotten even when an earlier replay realised
\* and saved the same bytes: such a run promises nothing of what it stored.)
LastSaveKept ==
    Ready /\ ~nondeterministic
    /\ phase \in {"reuse", "generate", "generated", "downgrade", "shrink"} =>
        Incumbents(last_saved) \subseteq Stored(Primary)

\* The bookkeeping of Persister and what is on disk agree: while the run goes on, in
\* what was demoted, and when it is over.
CorpusExact == LastSaveKept /\ DemotedWereRunStart /\ Reconciled
=============================================================================
