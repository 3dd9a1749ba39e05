# A TLA+ verification of Hegel

Hegel is a property-based testing library.  `libhegel` (`hegel-c/`) is the engine: it
generates test cases as sequences of typed choices, replays stored failures, shrinks
failing cases and reports the minimal ones.  It runs inside the client's process behind a
C ABI; the client (the Rust crate in `src/`, or any other language) drives it one test case
at a time, possibly from many threads.

The modules here model the parts of that system whose correctness depends on order
(threads, locks, callbacks into the client, files that survive a crash, unwinds that pass
through library frames, long sequences of counters and guards), and the pure algorithms
everything rests on (the shrinker's passes, the order of choices, the samplers, the regex
generator, the printer's layout).  Every definition is written from the source lines that
`PROJECT.json` gives for it under `map`.

## 1. Inventory

| Component | State | Operations | What makes it hard |
|---|---|---|---|
| Mutex (`sys/sync.rs`, `sys/unix.rs`) | the lock word | lock, try_lock, unlock, park, unpark | every atomic step races every other; lost wake-ups |
| Family of a test case (`lib.rs`, `native/core/state.rs`, `native/data_source.rs`) | conclusion, draw counter, streams (nodes, spans, abort latch), handles | draw, clone, start/stop span, mark complete, engine read-back | client threads race one another and the engine |
| C ABI (`hegel-c/src/lib.rs`) and exchange (`exchange.rs`) | handles, their locks and owners; the run, its case and result | every exported function | null, foreign and busy handles; a run freed under a straggler |
| Identifiers and pools (`native/core/state.rs`, `src/stateful.rs`) | identifiers ever drawn, pool members, the client's values | fresh id, draw from set, add, consume | streams race; replays carry stale values |
| Example database (`native/database.rs`) | files under a directory per key | save, fetch, delete, move | a crash between any two file operations |
| Persister (`native/test_runner.rs`) | per origin the bytes last saved | record, reconcile | the primary key must always hold the best failure |
| Engine (`native/test_runner.rs`) | phase, counters, interesting map, caches | reuse, simplest probe, generate, mutate, shrink, report | many guards, health checks, flaky and nondeterministic tests |
| Execution cache and kind ledger (`native/exec_cache.rs`) | verdict per digest, kind per prefix | record, serve, clear | stale verdicts after a mode flip |
| State machine and its runner (`native/core/state_machine.rs`, `src/stateful.rs`) | rounds, workers, feature flags | next group, next rule, rule rejected, join | concurrency of user rules, attempt caps |
| Shrinker (`native/shrinker/*`) | target, changed nodes, budgets | consider, adopt, inspect, 30 passes, scheduling | termination; state kept from a run of another shape |
| Choices (`native/core/choices.rs`), samplers (`native/core/state.rs`) | none | order, index codec, resolve a draw, sample | off-by-one at the ends of ranges |
| Regular expressions (`native/re`, `native/draws/regex.rs`) | the string so far, deferred checks | parse, draw, check | constraints decided after the text was emitted |
| Printer (`native/printer.rs`, `src/pretty.rs`) | document, regions, speculation | write, open a hole, retract, seal, lay out | straggling threads write while others retract |
| Client's test case and generators (`src/test_case.rs`, `src/generators/*`) | call stack, span counter, printed draws, notes | draw, filter, collect, recurse, repeat, note | control unwinds caught half way up the stack |
| Client lifecycle (`src/run_lifecycle.rs`, `src/runner.rs`) | run loop, panic information, stash | explicit examples, cases, final replay, verdict | stale panics, nondeterministic runs |

Not worth a model: likelihoods of distributions, Unicode and date tables, wide arithmetic,
wording of messages, the procedural macros, platform file and clock wrappers, settings as
values.  `PROJECT.json` lists them as `not_modelled`.

How they interact.  The client calls the C ABI from its threads; `hegel_next_test_case`
resumes the engine, a suspended future that offers one case through the exchange and is
resumed when the case is complete.  The engine reads the case back (nodes, spans, outcome),
records it in its counters, its caches and, for a failure, in the database, and chooses the
next case.  Everything the threads share is behind the mutex of `sys/sync.rs`.

What makes each part correct is what section 4 checks.

## 2. Plan

Done, in this order: `FutexMutex` with its proofs (everything else rests on it),
`TestCaseFamily`, `VariablePool`, `ExampleDatabase` with `DatabaseUse` and `Persister` on top
of it, `EngineRun`, `StateMachine`; then `ChoiceOrder`, `Shrinker` and `ShrinkLoop`,
`HandleAbi`, `Printer` with `PrinterLayout` and `DebugRepr`, `ClientCase` and `ClientRun`,
the regular expressions, and `ChoiceDraw`.

After these the proofs of section 6, and `FloatOrder`, `FloatRequest`, `ChoiceTree` and
`CalendarDraw`, the choices the first orders left out.

Left, in the order of their worth:

1. The shrink passes and the sampler of floats; clones as shrunk values.
2. The kind ledger and its abort of a run.

## 3. Modules

A module named after another with `Proofs` holds its theorems (section 6), one with `MC` in
front its instance for TLC (section 4).

**FutexMutex, AbstractLock.**  `word` is `Mutex::state`; `pc` says where a
thread stands in `lock`, `lock_contended`, `try_lock` or the drop of a guard.  Every atomic
operation is a step: `LockFast` and `LockSlow` (the compare-exchange of `lock`), `TryLock`,
`ContendedSwap`, `Park` (the kernel compares and sleeps atomically), `SpuriousReturn`,
`UnlockSwap`, `Unpark`.  `AbstractLock` is the promise: acquire when free, release by the
holder.

**TestCaseFamily.**  One test case from the offer to the read-back.  State: `FamilyCore`
(conclusion, draws), per stream the `NativeTestCase` (nodes, open spans, frozen, children),
the `aborted` latch of its data source, both levels of locks, and the flags of `FamilyShared`
and `LocalState`.  A client call is `TcGuard` (completed check, then `try_lock`) followed by
the steps of `Proceed`.  `NextTestCase` and `RunFree` resume or drop the engine, whose
`EngineStep` reads nodes (`reassemble` locks down the tree of clones), spans and outcome.
`mode` says how the case is run: generated, or replayed with child prefixes; with or without
spans.  Drawn values are abstract.

**VariablePool.**  `PoolAdd`, `PoolGenerate` and the steps of `draw_fresh_id` and
`draw_from_set`, cut where the registry's lock is taken and released; around them the
client's `ConcurrentPool`, whose lock is held across the call into the engine (`LockBoth`,
`Insert`, `Reuse`, `TakeOut`).  A stream replays a prefix, possibly stale, and then
generates.

**ExampleDatabase, DatabaseUse, Persister.**  `ExampleDatabase` has the files: every call is
a stack of atomic file operations.  Each of those that change the directory may fail, the removal
of a temporary file (`UnlinkTmp`) included; the test whether a file exists tells the truth.
`DatabaseUse` adds users who call save, delete and move in any order and may be killed.  Its
history is `moving`, the value a single user's last `move_value` found at its source, `setbacks`,
the operations that failed and the kill that call suffered, and `abandoned`, the temporary files
of killed users and of removals that failed.  `Persister` adds the engine's use of
it: three runs of a test that may be edited in between, with the reuse phase,
`Persister::record`, the drain of the secondary corpus, shrinking and `reconcile_database`,
killed anywhere.

**EngineRun.**  `Engine::run` without the database.  A case is its rank in the shrink order;
a test maps cases to verdicts, or is flaky.  Actions in the order of the code: `Reuse`,
`ReuseEnds`, `Simplest` or `SkipSimplest`, `Generate`, `Optimise`, `Mutate` (or
`MutationServed` from the cache), `GenerateEnds`, `Drain`, `Verify`, `ShrinkProbe` (or
`ShrinkServed`), `ShrinkEnds`, `AllShrunk`, `Report`.  Every execution goes through
`TestFunction`.  Time is a choice.

**StateMachine, RoundBarrier.**  A concurrent stateful case: the engine's
`NativeStateMachine` and the client's `run_concurrent` together, because what they promise is
a promise of both.  `main` is where the main thread stands: creation, the sweep over the
invariants, `NextGroup`, the loop that sends a round to every worker (`SendRound`, or
`SendFails` when the clone for one fails), the loop that receives an event of each
(`ReceiveEvent`), `ResolveRound`, and the end, where the dropped channels wake the workers and
the scope joins them.  `RoundBarrier` is the promise, rounds of one group each and nobody
active between them; `StateMachine` refines it.  When the send loop is cut short, the events
of the workers already started are never received, so a panic among them is not seen by
`resolve_round`; the conclusion is reported.

**ChoiceOrder, ChoiceDraw.**  Kinds of choices, their simplest value and unit, validation,
the shortlex order and the dense index codec; and one draw of a stream, forced, replayed from
a record of possibly another kind, taken from a template, or sampled.  A sampler is the set
of values it can return with a positive probability.  `i128` is the range `IMin..IMax`.  Machine
integers are drawn by inverting a distribution in floating point: `Floated` is the grid of
`SampleBits` significant bits on which that lands, and `NoShare` says when a range lies so far
from zero for its width that the code draws from it uniformly instead.

**Shrinker, ShrinkLoop.**  The shrinker as a record `s` (target nodes and spans, counters,
the set of changed nodes, the budgets) that `Consider`, `Inspect`, `Adopt` and the passes map
to a new one; a pass is a function, since a shrink has one thread of control and every
execution of the body ends in one place.  Randomised passes take the luck they have as a
parameter.  `ShrinkLoop` is the state machine: `CoarseReduction`, `StartRound`, `StartPass`,
`StepPass`, `EndRound`, `Finish`; `Work` says what a step executes, and every execution goes
through `Perform`.  The body being shrunk is given by operators on the values
drawn so far.

**FloatOrder, FloatRequest.**  `FloatOrder` is `float_index.rs` and `FloatChoice`: a float is
its bit fields, of widths that are constants, so that one format can be tried whole; the index
of a magnitude, the rank with its sign, `simplest`, `unit`, `validate`, `to_index` and
`from_index`.  `FloatRequest` is the way there: the builder calls of a `FloatGenerator`
(`SetMin`, `SetMax`, `AllowNan`, ...), the checks and defaults of `draw_params`, the
parameters it caches at its first draw, and `generate_float`'s own checks and adjustments.

**CalendarDraw.**  `special.rs`'s dates and times: validation, `days_from_civil` and
`civil_from_days` with the numbers of the code, and the bounded draws of a date, a time and a
datetime; and the generators of `extras/chrono` that draw one integer between the images of
their bounds (`NaiveTime` with its leap seconds, `TimeDelta`, `NaiveDateTime`, `NaiveWeek`).
A value is the tuple of its fields; the units of the clock are constants.

**ChoiceTree.**  A recorded stream with the streams of its clones among its choices: values
with and without their kinds, their equality, hash and order, the flattened length, the
simplest value of a clone, and `serialize_choices` and `deserialize_choices` down to the bytes
of a record (tags, counts and lengths; `ByteSize` and `CountBytes` are 256 and 4 in the code).
A float is its bits in `FloatBytes` bytes, ordered and hashed by the key of `FloatOrder`.
It has the kinds of `ChoiceOrder`; floats have their order in `FloatOrder`.

**HandleAbi.**  Every exported function is a record: the handle it is called on, how that
handle is taken, the checks in the order of the code, whether a second handle is locked, and
the effect.  `PlainCall`, `Enter`, `TakeHandle`, `TakeArgument` and `Effect` interpret it for
threads that overlap anywhere.  `heap` has the handles at their addresses, which are reused.

**Printer, PrinterLayout, DebugRepr.**  `Printer` is the recording document with its slots,
speculative regions and sealing, one step per operation, since each runs under the document's
mutex.  `PrinterLayout` is the renderer as a fold over the commands; `DebugRepr` the parser
that turns a `Debug` text into groups.

**ClientCase.**  One case seen from the client.  `stack` is the call stack: generators and
loops of the library are frames with a stage, user code runs in the frames of `UserFrames`.
An unwind (`AssumeFailed`, `StopTest`, a spent leaf budget, a mispriced attempt, a panic)
travels up frame by frame until one catches it.  A value and its printed text are the sequence
of choices they were made from, so that a printer showing a discarded part is seen.

**ClientRun.**  A test function from its first explicit example to its return or panic:
cases pulled from the engine, the body, panic capture (`panic_info`, the stash of a
nondeterministic run), verdicts, the replay of every failure, blobs.

**RegexParse, RegexMatch, RegexDraw.**  The parser threads one state through its recursion;
`RegexDraw` walks the operations with an explicit `todo` stack and puts off anchors and
look-arounds; `RegexMatch` has the code's own matcher, used for the deferred checks, and
`Ways`, the backtracking semantics it is measured against.

`MCClient`, `MCObjects` (with `MCGenerators`) and `MCShrinker` check several components side by
side: their variable `part` selects one, and the others stay put.

The variables a property needs and the code does not have are marked `history`.

## 4. Runs

| Run | Question | Bounds |
|---|---|---|
| `futex_mutex` | exclusion, no lost wake-up, progress, refinement of `AbstractLock` | 3 threads: two asleep, one barging in |
| `family` | the record of a case is exact and final, it is concluded once, a completed case is read back | 2 threads, 3 streams (a clone of a clone), every mode |
| `family_resume` | **violated**, see findings | as `family` |
| `database` | set semantics and listing for one user, moves under failures, whole entries and no debris for two | 2 users, 2 keys, 2 entries, 3 calls, 1 kill, any operations failing, 1 failed removal of a temporary file |
| `database_move` | **violated**, see findings | as `database` |
| `persist` | the best failure is on disk at every instant and found again; the corpus is exact | 3 cases, 2 origins, 3 versions of the test, 3 runs, 1 kill |
| `engine_run` | budgets, health checks, report, termination | 2 cases, 2 origins, every test on them; limits scaled to 1 - 3 |
| `state_machine` | refinement of `RoundBarrier`, flags, verdicts, every case ends | levels 1 and 2, groups of 2 and 1 rules, 2 counted rounds |
| `shrinker` | targets are runs, changes are tracked, a quiet shrink is a fixpoint, it ends; every draw is sound; a stored stream comes back equal and no cut of it; the order of values | 32 tests over 7 bodies, up to 6 nodes, three budgets; beside them single draws of every kind, and streams of up to 3 choices with clones nested 2 deep, in bytes of 16 and counts of 2 |
| `objects` | handles, holes, layout and `Debug` texts; what a regex draws matches, with references in scope; the order of floats, their index, and that what is drawn is what was asked for | 2 threads, 2 addresses; 3 commands, 2 holes; streams and texts of 4 pieces, 3 columns; patterns chosen to meet every construct, as trees and as texts; padding of 1, 2 rounds, 2 attempts; every float of 3 mantissa and 4 exponent bits, choices between 32 bounds, requests between 15 |
| `client` | unwinds, report, verdicts, identifiers and pools | 8 mixes of generators, stack of 6 frames; 3 cases; 2 threads, 2 pools, 4 draws |
| `client_draws` | **violated**, see findings | as `client` |

What the composite properties say:

- `RecordIsExact`: once the engine has read a stream nobody adds to it, and the streams of a
  generated case stay within the shared budget.  `ConcludedOnce`: one report, no stream gives
  up without a conclusion, and the engine goes by the first.
- `CorpusExact`: the last save of an origin is kept (while the run is deterministic: see
  `LastSaveKept`), what is demoted was there at the start, and a finished run leaves exactly the
  keys `reconcile_database` promises.
- `TraitKept`: the set semantics of the trait with its listing, for a single user whose
  operations succeed.  `WritesAreAtomic`: whatever fails, for any number of users, the file of a
  value holds it whole, and every temporary file is being written, or its writer was killed or
  could not remove it.
- `MoveKeepsValue`: what `move_value` does to the value of a single user when it suffers a setback.
  While nothing has failed the value is at its source or destination at every instant, so a kill
  then loses nothing; after one failure, which may be the one that leads to delete-then-save, it
  is stored when the call returns.  A second failure, or a kill after the first, may lose it.
- `ReportIsSound`: a report covers every origin found, and what it names did fail.
  `BudgetsKept`: valid and rejected cases stay within their limits, to the case.
- `TargetsAreRuns`: the shrinker's target is at all times a run of the body, with the spans of
  that run and the nodes that changed since the checkpoint, and every adopted one is simpler.
  `QuietIsFixed`: a shrink that ends by itself
  left no pass that would still improve.  `ChoiceIsSound`: a sampler draws only
  values of its kind and can draw each of them, except long strings of many different characters
  and, in a wide range of machine integers, the large ones off the grid of `SampleBits` bits
  (`PassedOver`); a range narrower than `CURATED_MIN_WIDTH` is reached whole wherever it lies, and
  so are the ends of every range.  A recorded value replays to itself, the index codec is the rank in the order,
  and a value punned into another kind is one of it.
- `FloatsOrdered`: the rank of floats is the shrinker's order and leads back to the float, the
  simplest valid float has the least rank, and an index taken from a choice leads to its float
  again.
- `BoundsKept`: a float draw honours what the caller last asked for, the cached parameters
  included (`RequestHonoured`); the engine's day numbers are those of the calendar, about
  every end of its cycles, and between two bounds of any date or time type lies exactly what
  may be drawn, on the first and last day, at a leap second and below zero alike; no week drawn
  between the default bounds leaves the calendar (`CalendarKept`).  Explicit bounds on weeks are
  outside it: with them a week may run over the end of the calendar.
- `DrawnMatches`: a drawn text is one its pattern means and the caller's alphabet allows, a
  text that means a pattern is not refused, and its references reach closed groups only.
- `RecordsRoundTrip`: a stored stream comes back equal in value, hash and bytes, and every cut
  of it is refused.  `OrderIsSound`: the order is total and respects clones, with the
  simplest values lowest.
- `HandlesSound`: two threads never operate on one handle, nor on one object behind two handles
  (which needs more addresses than the run has, so that `HandlesHold` alone covers it); handles of a case print into
  regions of their own; a straggler's case is complete.  `HolesSound`: a hole accepts writes
  exactly while it can still appear, the document is open exactly while one stands, and
  unbalanced groups are refused when written.  `RegionsCommute`: what two regions write does
  not depend on the order.
- `LaidOutAsWritten`: groups break wholly or not at all and from the outside in, a comment ends the line it was written
  on, nothing is lost or reordered, and what fits on a line stays on one; a parsed `Debug` text
  prints as it stood.
- `UnwindsClean`: the client's span counter equals the engine's open spans wherever control
  returns to user code, and the verdict is the one of the unwind that reached the top.
  `ReportIsFaithful`: a printed line is the value the user got, and no note is lost.
- `FailuresTold`: each failure of the run, or a single one for all of them when
  `report_multiple_failures` is off, is reported in a replay of its own and told apart by a panic
  of its own case, never by one an earlier case left behind, and the test function returns only when there is none.

Why the bounds are enough to be of interest: each was raised until a plausible slip in the
code the property is about is found under the very same configuration; `PROJECT.json` lists
these under `mutants`.  The limits of the engine (10, 20, 50, 1000, 458 in the code) are
scaled down in their order, so that every one of them is hit.  The selection of a rule has a
branch that takes a group of three; `MCStateMachine` evaluates it alone, as an assumption
(`SelectionSucceeds`).  `MaxCalls` of `EngineRun` only saturates a counter and is never
reached.  In the code the inverse of the distribution resolves somewhat over 40 bits, the share
of a range is too small below 1e-13, and `CURATED_MIN_WIDTH` is 256: a range narrower than that
is either resolved to every integer or has no share.  `SampleBits` 3, `UniformBits` 1 and
`CuratedMinWidth` 4 in `i128` of 6 bits keep that order, with ranges on every side of it.  `MaxShrinks`, `MaxDelete` and the budgets of `MCShrinker` are set once so that they
stop a shrink and once so that they do not.

Deadlock is not checked where the system may rightly stop: clients that make no further call,
users and runs that are finished or killed, cases, shrinks and draws that have ended.
`futex_mutex` and `engine_run` check it.

Fairness: a thread inside the mutex or inside a call continues (the scheduler runs it), the
engine continues once resumed, and a client that has completed a case asks for the next one or
frees the run; nothing is assumed of a client between its calls.  In `EngineRun` the engine is
one thread of control that always continues; in `StateMachine` every thread is scheduled and
the rules of the user end, without which no test ends.

## 5. Findings

- `family_resume`: `FamilyShared::complete` publishes `completed` before it calls
  `mark_complete`.  Another thread whose own completion is a no-op may resume the engine in
  between, which then reports a usage error the client did not make.
- `client_draws`: `repeat` catches a rejected assumption but leaves open the spans of the
  composite or filtered draw it unwound through.  `__draw_named` takes an open span for an
  enclosing draw, so the later draws of the case are missing from the report.
  `SpansInStep`, a part of `UnwindsClean`, excludes the cases in which this has happened.

- `database_move`: the trait is to surface failures as silent no-ops (`database.rs:13`).  Where the
  destination's directory cannot be made, `move_value` deletes the value at its source and then
  saves it into that same directory, which fails as well: a failed move is a deletion.

Disagreements met on the way that no run carries:

- "The draws layer rejects such constraints before constructing the `FloatChoice`"
  (`choices.rs:462`), but `generate_float` (`draws/mod.rs:125`) only rejects a minimum above the
  maximum.  `floats().min_value(INFINITY).max_value(INFINITY)`, or bounds between which only
  subnormals lie while they are not allowed, make a choice without a float; the draw ends in an
  internal error (`choices.rs:506`).  `IndexIsDense` is about choices that have a float.
- The unit of a float choice is called its second-simplest float (`choices.rs:510`); where none
  of the candidates it tries is valid (`min_value=5e-324`, `max_value=1.0`, no subnormals) it is
  the simplest again.
- A database save that falls between the two halves of a delete leaves its key unlisted
  (`database.rs:134`): `TraitKept` is about a single user.
- "Failures leave no partial file behind" (`database.rs:96`), but a removal that fails is ignored
  (`database.rs:103`), and what made the rename fail (permissions, a disk gone read-only) will often
  fail the removal too.  That file, or the one of a process killed between write and rename, is
  returned by `fetch` and cannot be removed by `delete`.  `WritesAreAtomic` allows both.
- A body that catches a panic of its own and then re-raises another thread's, within one case, is
  reported under the one it caught (`run_lifecycle.rs:297`).
- `try_shortening_via_increment` (`index_passes.rs:128`) is meant to try larger values for the
  sake of an earlier exit; `consider` (`shrinker/mod.rs:312`) turns a candidate of the same or
  greater length down when its prefix is larger, so the pass never runs such a candidate.
- After shrinking, the shrinker's case overwrites the incumbent of its origin
  (`test_runner.rs:553`).  A smaller case that a pass executed only to look at its shape is
  lost when the deadline passes, although the warning promises the smallest one found.
- A failure of a nondeterministic run is captured at discovery; when the engine concluded that
  case otherwise, the stash may hold a failure the engine did not count.
- `LeafBudgetExceeded` is said to unwind "back to the draw that opened the recursion scope"
  (`src/control.rs:11`); an inner recursive draw of the same case may catch it first.
- A name drawn repeatably gets a number (`x_1`); a draw named `x_1` itself is not kept apart
  from it (`test_case.rs:950-985`).
- A regex drawn in search mode does not honour a positive look-around: it is generated in
  place (`draws/regex.rs:506`), so `b(?=a)ab$` may yield text it does not match.
- Text that is to appear only when a group breaks (`if_break`) is decided when it is printed;
  a group that breaks later, at its next break point, has then left it out.
- A sampled string has at most ten different characters (`state.rs:1075`).

## 6. Proofs

Every theorem is about the specification the runs check, for all values of its constants under
the assumptions the module declares (`BoundsOK`, `PoolConstantsOK`, ...), which bound nothing
from above.  A property is seldom inductive; what had to be added to it is the argument.

**HandleAbiProofs** is about the engine mutex and about the handles.

`FutexMutex` (`MutexTypeCorrect`, `Exclusion`, `NoStrandedSleeper`, `Refinement`; any set
of threads).  Mutual exclusion ties the word to the holder (the word is `UNLOCKED` exactly when
nobody holds the guard), which is what makes it inductive.  While a thread sleeps, the word is
`CONTENDED` or some thread is about to swap `CONTENDED` into it or to wake someone; that needs
the type and the exclusion, so the induction is on `Inv`, their conjunction.  Refinement maps
the abstract holders to the threads at `held`.

`HandleAbi` (`TypeCorrect`, `HandlesHold`, `Fixed`; any threads, addresses, families,
widths and number of regions; `NullApart` says the null pointer is none of these).  A call ends
by returning some handles, a run and families: `ReturnsSoundly` says what these must be
(`ObjectsSound`), what they must leave to the calls under way in other threads (`Respects`) and
what must not change (`Settled`), and one lemma per effect shows it.  `Rooted` is what
`OwnRegion` rests on: the target of a handle is a region opened before, so that a new hole is
nobody's.  `CallFits` says of a call under way that its handles are still there, of the kinds it
asked for, and hold its thread's lock once it is past it; it holds because every call of the
table either locks what it operates on or operates on no stream and no region (`CallsSorted`),
and because a handle is never freed under a call.

**StatefulProofs** is about stateful tests: the rounds and the pools.

`StateMachine` (`TypeCorrect`, `CutShortTold`, `RuleAlwaysLeft`, `RoundsImplemented`;
any groups, levels and limits).  `RoundSound` says what the workers may be doing for each place
of the main thread: in the send loop those at or after its position are idle, in the receive
loop those before it.  `CutShortSound`: after a rule was cut short there is a worker that was
told and will say so before the round is resolved.  `FlagsOK`: the candidates of a group are
undecided rules of it, and there are none only when a rule of it is enabled; `is_enabled` keeps
it (`AskKeepsFlags`), a try and every walk of the fallback hand on what they know to be
disabled (`TryKeepsSelection`, `WalksSound`, by the least length at which it would fail), and
were every rule of the group disabled the last would have been forced on.  The refinement maps
a worker's activity to the group of its rule, which is the round's group (`RulesInGroup`), and
every step to a step of `RoundBarrier` or to none.

`VariablePool` (`PoolTypeCorrect`, `Lockstep`, `Stable`; any threads, pools and recorded
prefixes).  `CallSound`: what a call has read under a lock it still holds is not stale; a fresh
identifier in particular was computed from the registry as it is.  `MapSound`: the client's map
equals the engine's pool except for the one answer that is under way, which is added or taken
out.  `RegistrySound`: the registry holds exactly the identifiers drawn, each once, from which
it follows that a replay in which one addition was deleted realises the other identifiers
again.

**TestCaseFamilyProofs** (`TypeCorrect`, `FamilyConcludedOnce`, `RecordExact`; any threads,
streams, modes and budget).  `CallsSound`: a thread past `with_ntc` holds its stream's lock.
`PathLocked`: the engine holds the locks of the streams it is reassembling, and they are
distinct.  `ClonesYounger` orders the tree, so that descending ends.  `RecordSound` follows the
reassembly: a stream still waits among another one's clones, or it has been visited, and then
the family is concluded, no thread is choosing on it, and its record is its nodes; at the end
nobody waits, so that nothing is left out (`NothingLeftOut`, by the number of the stream).
`CompletionSound` has one case for each way the one report can be owed, made or claimed.
`DrawsCounted` relates the sum of the streams' choices to the counter they share, so that the
budget holds for their total.

**ExampleDatabaseProofs** has what holds of the directory whatever its users call: the types, what
one operation does to the values stored (`StepRuns`, `DbStepSound`), and `WriteInv`, whose owners
of temporary files `TmpInv` extends below.

**DatabaseUseProofs** (`TypeCorrect`, `AtomicWrites`, `MoveKeeps`,
`TraitHolds`; any users, keys, values, calls and kills).  `TmpInv`: files of one name are one
file, only the running operation of a user owns a temporary file, no two users own the same
one, a file about to be renamed holds its value, and every other temporary file is that of a
killed user or of one whose removal of it failed.  It rests on the fresh name of `temp_path`, which exists because there are more
names than files (`TempPathFresh`).  `MoveInv` follows the stack of a single user's `move_value`.
While nothing has failed (`MoveGoing`) the value is stored, at the source as long as the rename is
to come; after one failure that still holds, or the save at the destination is the last call on the
stack, nothing above it moves a value, and it will not fail, being the second (`FallbackGoing`).  `TraitInv`, for a single
user whose operations succeed: a key that has a directory is listed, whoever was killed when
(`ListingKept`); the stack of a call has one of a few shapes; and while nobody was killed,
each key has what the calls so far describe but for what the last operation of the stack still
owes (`LastFits`), a key that it does not touch being listed exactly when it has values.  One
lemma per operation then says what its step owes next.

**PersisterProofs** (`RunTypeCorrect`, `BestStaysDurable`, `FoundOnceMore`, `CorpusStaysExact`;
any versions of the test, cases, origins, settings, cap and numbers of runs, executions and
kills).  A file operation is not atomic, so the proof first reduces the stack of operations to
what it will add to a key and take from it (`Adds`, `Drops`); `Directory` says that the stack
fits the directory, so that every operation succeeds, and one lemma says how any of its steps
moves the stack (`StepMoves`).  From there a case is `Kept` (stored, and nothing on the stack
drops it) or `Coming` (the stack adds it, and drops what it supersedes only after that), and
both survive every file operation (`KeptStays`, `CoveredStays`).  `RunInv` is the inductive
invariant.  `Saved`: until `reconcile_database`, each origin's last save is kept, or what
supersedes it is kept or coming; it needs `SeenOnce`, that the verdict of everything saved in the
reuse phase is known, so that a replay which concludes otherwise ends the run and is not
forgotten.  `Ordered`: in a test that is not flaky the last save, the incumbent and what is owed
follow one another, the shrinker's target between them.  `Saving` and `Evicting` follow
`reconcile_database`: a final failure is in the primary key, or is left to save while the last
save is kept; what is left to displace is none of the final failures and was found or saved by
this run; what stays in the secondary key is no larger than the cap, since ranks differ
(`SmallCorpus`).  `Accountable`: every entry was there at the start or is this run's, so nothing
else is demoted.  `Found`: what the last run recorded is found, is being replayed, or is in the
queue; that it entered the queue is the durability of the run before.  `AtRest`: a kill changes no
file.  The actions are grouped by what they change (`Kinds`), and each part has one lemma per kind.

**EngineRunProofs** (`TypeCorrect`, `FailureComesFirst`, `BudgetsHold`, `ReportIsTrue`; any
test, flaky ones included, any settings and limits).  `FoundInv`: once an execution failed its
origin keeps an incumbent, and no phase with a health check follows.  `BudgetInv` counts what
each phase may still spend.  `CoverInv`: every origin that was found has an incumbent or is
reported, and only `Report` reports (`OnlyReportReports`).  `StandInv`: while the run is
deterministic, what the cache holds, what was concluded last and what is kept agree, except for
a case below which the shrinker has gone already; the report names what it keeps.

**ClientProofs** has two parts.

`ClientRun` (`TypeCorrect`, `FailuresAreTold`; any panic sites, bodies, engines and any settings
`ConfigurationsOK` describes).  `OriginSound`: during a body the captured panic is one of this
case, if it has raised any, because `run_test_case` forgets the last one first; so a panic that
skips the hook is never taken for that of an earlier case.  `VerdictSound` follows the one way a
run passes, and says where nothing may have been reported yet.  `ReplaysCounted`: of the failures
kept, each is printed, being replayed or left to replay, the prints are in the order of the
cases, and the last one is that of the last replay, which is what is raised.

`ClientCase` (`UnwindsAreClean`, `ReportTrue`; any bodies, call depths, budgets and limits
`ClientCaseAssumption` describes).  Neither property is inductive: what an unwind leaves behind
is cut by a frame that remembered, when it was entered, how many spans were open.  `CaseInv`
therefore says what the whole call stack looks like.  `StackOK` gives each frame its callers: a
rule only above the machine, a subtree only inside its recursive draw, a generator that prints
nothing only where its caller prints nothing or hides it.  `SpansInv` has two forms.  While the
case goes on (`Good`) the open spans are those of the frames that opened one, in the order of the
stack; the depth a recursion, an iteration or a rule remembers is the number of them below it
(`Based`); and while a rule runs, its child instance counts those above it and the body's
instance the others (`Counted`).  While a payload unwinds (`Left`) this holds below the top of
the stack only, the frames left behind having kept their spans open; cutting back to the
remembered depth restores the first form.  `MispricedInv` says that a mispriced attempt, whose
spans the engine cut before the unwind began, is thrown straight to the recursive draw that
owns them.  `VerdictInv`: a concluded case has its verdict, or its payload is under way, or it is
at a loop whose next decision the engine will refuse.  `NotesInv` parts the notes made so far
into those in the document and those waiting with the one printed draw of an instance;
`FrameOK` says which frames must have printed exactly what they keep, from which a committed
line is true.  One lemma per action (`RetryKeeps`, `RuleUnwindsKeeps`, ...) shows that it keeps
all of them; pushing, popping, opening and closing have lemmas of their own (`GoodPush`,
`GoodOpen`, `GoodClosePop`, `LeftPop`), which the generators share.

Only model-checked:

- everything under fairness: `SomeoneGetsIn`, `CompletedIsReadBack`, `RunEnds`, `CaseEnds`;
- what rests on recursive operators, out of the prover's reach: the printer with its layout
  and texts, the regular expressions, the shrinker with its bodies (`EndsByItself` included),
  the order and codec of `ChoiceTree`;
- `ChoiceIsSound`, `CalendarKept` and the properties of `FloatOrder`, which compute an order over
  all values of a kind: induction over data.

## 7. What is not modelled

- The sampler and the shrink passes of floats, the rounding of bounds to 32 bits; clones as
  shrunk values.
- Likelihoods: a sampler is the set of what it can return.
- The kind ledger's abort, the targeting schedule, eviction as such (a cached case may also be
  executed), the text encodings of a stored failure (`blob.rs`, `base64.rs`).
- Regular expressions: look-ahead bodies whose match must come back into a group
  (`(?!(a|ab)c)abc`), look-behind inside a look-ahead, and case folding of characters whose
  other case is not in the alphabet, are outside the patterns of `MCGenerators`: the code's matcher
  takes one way through a group, by its own comment.
- Memory orderings weaker than sequential consistency: the mutex's operations are acquire and
  release on one word, and everything else is behind it.
- Several threads in one client case: the frames of `ClientCase` are those of one thread;
  what threads share is in `TestCaseFamily`, `VariablePool`, `StateMachine` and `Printer`.
- Wording, formatting of standard types, tables, macros, platform wrappers, settings:
  `PROJECT.json` lists every component and, under `hazards`, what is hard to test in it.
