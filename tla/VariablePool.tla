------------------------------- MODULE VariablePool -------------------------------
(* The identifiers of a test case and the variable pools of stateful tests:      *)
(* hegel_pool_add / hegel_pool_generate (lib.rs), pool_add / pool_generate       *)
(* (native/data_source.rs), draw_fresh_id / draw_from_set and NativeVariables    *)
(* (native/core/state.rs).  Each thread draws from a stream of its own; pools    *)
(* and the registry of identifiers are shared by the streams of the family.      *)
(*                                                                               *)
(* The client's ConcurrentPool (stateful.rs) keeps the values: a map keyed by    *)
(* identifiers, whose lock is held across the call into the engine.              *)
(*                                                                               *)
(* A stream replays a prefix of recorded values and, past it, generates.  A      *)
(* recorded value may be stale: it was drawn by an earlier version of the test   *)
(* case, before the shrinker deleted or changed other choices.                   *)
EXTENDS Integers, Sequences, FiniteSets, FiniteSetsExt, Functions

CONSTANTS
    Threads,
    Pools,
    RecordedPrefixes, \* the recorded prefixes a stream may replay
    MaxDraws          \* bound: calls begin until the streams drew that many choices

Nobody == "Nobody"

ASSUME PoolConstantsOK ==
    /\ Nobody \notin Threads /\ Nobody \notin Pools
    /\ MaxDraws \in Nat /\ RecordedPrefixes \subseteq Seq(Nat)

VARIABLES
    prefix,         \* per thread, the values its stream replays
    nodes,          \* per thread, the recorded choices
    fresh_ids,      \* FamilyCore::fresh_ids, every identifier ever drawn
    registry_lock,
    variables,      \* per pool, NativeVariables::variables
    removed,        \* per pool, NativeVariables::removed
    pool_lock,
    values,         \* per pool, the identifiers ConcurrentPool::values maps
    values_lock,    \* per pool, who holds the lock of that map
    pc, pool_call,  \* where each thread stands; its call
    added, consumed \* history: identifiers each pool was given, and gave up

client == <<values, values_lock>>
poolVars == <<prefix, nodes, fresh_ids, registry_lock, variables, removed, pool_lock,
              client, pc, pool_call, added, consumed>>

NoId == -1
PoolCall(p, add, consume, active) ==
    [pool |-> p, add |-> add, consume |-> consume, active |-> active, hi |-> 0,
     fallback |-> 0, id |-> NoId]
NoCall == PoolCall(Nobody, FALSE, FALSE, {})

PoolInit ==
    /\ prefix \in [Threads -> RecordedPrefixes]
    /\ nodes = [t \in Threads |-> <<>>]
    /\ fresh_ids = {}
    /\ registry_lock = Nobody
    /\ variables = [p \in Pools |-> <<>>]
    /\ removed = [p \in Pools |-> {}]
    /\ pool_lock = [p \in Pools |-> Nobody]
    /\ values = [p \in Pools |-> {}]
    /\ values_lock = [p \in Pools |-> Nobody]
    /\ pc = [t \in Threads |-> "idle"]
    /\ pool_call = [t \in Threads |-> NoCall]
    /\ added = [p \in Pools |-> {}]
    /\ consumed = [p \in Pools |-> {}]

-----------------------------------------------------------------------------
\* smallest_unused_id: the smallest natural number not in the registry.
SmallestUnused(used) ==
    CHOOSE n \in 0 .. Cardinality(used) : n \notin used /\ \A m \in 0 .. n - 1 : m \in used

\* used.iter().next_back().unwrap_or(-1)
Largest(used) == IF used = {} THEN -1 ELSE Max(used)

\* NativeVariables::active, as a set.
Active(p) == Range(variables[p]) \ removed[p]

\* The value the stream replays for its next choice, if its prefix has one.
Replays(t) == Len(nodes[t]) < Len(prefix[t])

Replayed(t) == prefix[t][Len(nodes[t]) + 1]

\* A call begins: the client's map is locked, then the engine's pool.
\* Mutant: the client locks its map only to change it.
LockBothBriefly(t, p) ==
    /\ pool_lock[p] = Nobody
    /\ pool_lock' = [pool_lock EXCEPT ![p] = t]
    /\ UNCHANGED values_lock

LockBoth(t, p) ==
    /\ values_lock[p] = Nobody /\ pool_lock[p] = Nobody
    /\ pool_lock' = [pool_lock EXCEPT ![p] = t]
    /\ values_lock' = [values_lock EXCEPT ![p] = t]

ChoicesDrawn == MapThenSumSet(LAMBDA u : Len(nodes[u]), Threads)

Begin(t, p, where, args) ==
    /\ pc[t] = "idle"
    /\ ChoicesDrawn < MaxDraws
    /\ LockBoth(t, p) /\ UNCHANGED values
    /\ pc' = [pc EXCEPT ![t] = where]
    /\ pool_call' = [pool_call EXCEPT ![t] = args]

\* The engine returns an identifier, or an error, and drops the pool's guard.
Finish(t, id) ==
    /\ pc' = [pc EXCEPT ![t] = "back"]
    /\ pool_call' = [pool_call EXCEPT ![t].id = id]
    /\ pool_lock' = [pool_lock EXCEPT ![pool_call[t].pool] = Nobody]
    /\ UNCHANGED client

PushNode(t, kind, value, hi) ==
    nodes' = [nodes EXCEPT ![t] = Append(@, [kind |-> kind, value |-> value, hi |-> hi])]

\* The family has concluded, or does before pre_choice looks: the draw fails with
\* nothing recorded, and every guard it holds is dropped.
ChoiceFails(t) ==
    /\ pc[t] \notin {"idle", "back"}
    /\ registry_lock' = IF registry_lock = t THEN Nobody ELSE registry_lock
    /\ Finish(t, NoId)
    /\ UNCHANGED <<prefix, nodes, fresh_ids, variables, removed, added, consumed>>

\* hegel_pool_add: lock the pool and draw a fresh identifier.
PoolAdd(t, p) ==
    /\ Begin(t, p, "add", PoolCall(p, TRUE, FALSE, {}))
    /\ UNCHANGED <<prefix, nodes, fresh_ids, registry_lock, variables, removed, added,
                   consumed>>

\* Mutant: reads the registry without keeping its lock for the insertion.
LockRegistryBriefly(t) ==
    /\ pc[t] = "add"
    /\ registry_lock = Nobody
    /\ pool_call' = [pool_call EXCEPT ![t].hi = Largest(fresh_ids) + 2,
                            ![t].fallback = SmallestUnused(fresh_ids)]
    /\ pc' = [pc EXCEPT ![t] = "fresh"]
    /\ UNCHANGED <<prefix, nodes, fresh_ids, registry_lock, variables, removed,
                   pool_lock, client, added, consumed>>

\* draw_fresh_id: lock the registry, compute the window and the fallback.
LockRegistry(t) ==
    /\ pc[t] = "add"
    /\ registry_lock = Nobody
    /\ registry_lock' = t
    /\ pool_call' = [pool_call EXCEPT ![t].hi = Largest(fresh_ids) + 2,
                            ![t].fallback = SmallestUnused(fresh_ids)]
    /\ pc' = [pc EXCEPT ![t] = "fresh"]
    /\ UNCHANGED <<prefix, nodes, fresh_ids, variables, removed, pool_lock, client,
                   added, consumed>>

\* draw_fresh_id: a replayed value counts if it lies in the window and is unused;
\* anything else is repaired to the smallest unused identifier.
FreshId(t) ==
    IF Replays(t) /\ Replayed(t) \in (0 .. pool_call[t].hi) \ fresh_ids
    THEN Replayed(t)
    ELSE pool_call[t].fallback

\* draw_fresh_id records and registers the identifier, drops the registry's lock,
\* and pool_add puts it into the pool.
Register(t) ==
    LET id == FreshId(t)
        p  == pool_call[t].pool IN
    /\ pc[t] = "fresh"
    /\ PushNode(t, "fresh", id, pool_call[t].hi)
    /\ fresh_ids' = fresh_ids \cup {id}
    /\ registry_lock' = Nobody
    /\ variables' = [variables EXCEPT ![p] = Append(@, id)]
    /\ added' = [added EXCEPT ![p] = @ \cup {id}]
    /\ Finish(t, id)
    /\ UNCHANGED <<prefix, removed, consumed>>

\* hegel_pool_generate: lock the pool and list its active members.
PoolGenerate(t, p, consume) ==
    /\ Begin(t, p, "choose", PoolCall(p, FALSE, consume, Active(p)))
    /\ UNCHANGED <<prefix, nodes, fresh_ids, registry_lock, variables, removed, added,
                   consumed>>

\* pool_generate on an empty pool is a failed assumption.
PoolEmpty(t) ==
    /\ pc[t] = "choose"
    /\ pool_call[t].active = {}
    /\ Finish(t, NoId)
    /\ UNCHANGED <<prefix, nodes, fresh_ids, registry_lock, variables, removed, added,
                   consumed>>

\* draw_from_set: read the window under the registry's lock, and drop it.
ReadWindow(t) ==
    /\ pc[t] = "choose"
    /\ pool_call[t].active # {}
    /\ registry_lock = Nobody
    /\ pool_call' = [pool_call EXCEPT ![t].hi = Largest(fresh_ids) + 1]
    /\ pc' = [pc EXCEPT ![t] = "chosen"]
    /\ UNCHANGED <<prefix, nodes, fresh_ids, registry_lock, variables, removed,
                   pool_lock, client, added, consumed>>

\* draw_from_set: a value that is not a member any more is repaired to the largest
\* member below it, or to the smallest member.
Repair(raw, members) ==
    LET below == {m \in members : m <= raw} IN
    IF below = {} THEN Min(members) ELSE Max(below)

\* The members draw_from_set may return: the replayed one, or any when generating.
Eligible(t) ==
    LET members == pool_call[t].active IN
    IF ~Replays(t) THEN members
    ELSE IF Replayed(t) \in 0 .. pool_call[t].hi THEN {Repair(Replayed(t), members)}
    ELSE {Min(members)}

\* The variables left when the trailing removed ones are popped.
Trimmed(seq, gone) ==
    SubSeq(seq, 1, Max({0} \cup {i \in DOMAIN seq : seq[i] \notin gone}))

\* NativeVariables::consume: mark the variable removed, then pop removed variables
\* off the end, forgetting their marks.
Consume(p, id) ==
    LET gone == removed[p] \cup {id}
        kept == Trimmed(variables[p], gone) IN
    /\ variables' = [variables EXCEPT ![p] = kept]
    /\ removed' = [removed EXCEPT ![p] = gone \cap Range(kept)]

\* draw_from_set records the member by value, and pool_generate consumes it if asked.
Choose(t) ==
    LET p == pool_call[t].pool IN
    /\ pc[t] = "chosen"
    /\ \E id \in Eligible(t) :
          /\ PushNode(t, "choice", id, pool_call[t].hi)
          /\ IF pool_call[t].consume
             THEN Consume(p, id) /\ consumed' = [consumed EXCEPT ![p] = @ \cup {id}]
             ELSE UNCHANGED <<variables, removed, consumed>>
          /\ Finish(t, id)
    /\ UNCHANGED <<prefix, fresh_ids, registry_lock, added>>

\* The client's half: the map changes, or not, and its lock is dropped.  A value
\* whose copying panics leaves the map as it is and the lock usable.
Return(t) ==
    /\ pc' = [pc EXCEPT ![t] = "idle"]
    /\ pool_call' = [pool_call EXCEPT ![t] = NoCall]
    /\ values_lock' = [p \in Pools |-> IF values_lock[p] = t THEN Nobody ELSE values_lock[p]]
    /\ UNCHANGED <<prefix, nodes, fresh_ids, registry_lock, variables, removed, pool_lock,
                   added, consumed>>

\* ConcurrentPool::add.
Insert(t) ==
    /\ pc[t] = "back" /\ pool_call[t].add /\ pool_call[t].id # NoId
    /\ values' = [values EXCEPT ![pool_call[t].pool] = @ \cup {pool_call[t].id}]
    /\ Return(t)

\* ConcurrentValuesReusable: the value is copied and stays.
Reuse(t) ==
    /\ pc[t] = "back" /\ ~pool_call[t].add /\ ~pool_call[t].consume /\ pool_call[t].id # NoId
    /\ UNCHANGED values
    /\ Return(t)

\* ConcurrentValuesConsumed: the value leaves the map.
TakeOut(t) ==
    /\ pc[t] = "back" /\ pool_call[t].consume /\ pool_call[t].id # NoId
    /\ values' = [values EXCEPT ![pool_call[t].pool] = @ \ {pool_call[t].id}]
    /\ Return(t)

\* raise_for_rc, the lock dropped first.
Raised(t) == pc[t] = "back" /\ pool_call[t].id = NoId /\ UNCHANGED values /\ Return(t)

PoolNext ==
    \E t \in Threads :
        \/ \E p \in Pools : PoolAdd(t, p)
        \/ \E p \in Pools, consume \in BOOLEAN : PoolGenerate(t, p, consume)
        \/ ChoiceFails(t)
        \/ LockRegistry(t)
        \/ Register(t)
        \/ PoolEmpty(t)
        \/ ReadWindow(t)
        \/ Choose(t)
        \/ Insert(t)
        \/ Reuse(t)
        \/ TakeOut(t)
        \/ Raised(t)

PoolSpec == PoolInit /\ [][PoolNext]_poolVars

-----------------------------------------------------------------------------
FreshNodes ==
    UNION {{t} \X {i \in DOMAIN nodes[t] : nodes[t][i].kind = "fresh"} : t \in Threads}

\* No two draws of the family ever realise the same identifier, on whichever
\* streams they happen and whatever stale values those streams replay.
IdsUnique ==
    \A a, b \in FreshNodes :
        nodes[a[1]][a[2]].value = nodes[b[1]][b[2]].value => a = b

\* A pool offers exactly the variables it was given and has not yielded to a
\* consuming draw: trimming neither revives a consumed variable nor loses a live one.
ActiveExact == \A p \in Pools : Active(p) = added[p] \ consumed[p]

\* Every identifier the engine hands a thread has its value in the client's map
\* (the unwrap of values_reusable and values_consumed), and every identifier it
\* assigns is new to it (the assertion of add), whatever other workers do between
\* the engine's answer and the map.
DrawnHasValue ==
    \A t \in Threads :
        pc[t] = "back" /\ pool_call[t].id # NoId =>
            (pool_call[t].add <=> pool_call[t].id \notin values[pool_call[t].pool])

\* The engine's pool and the client's map hold the same variables, whichever threads add,
\* reuse and consume them (NativeVariables, Variables).
PoolsInLockstep == ActiveExact /\ DrawnHasValue

\* The recorded identifiers 0, 1, 2, ... with at most one of them deleted.
OneDeleted(seq) ==
    \E k \in 1 .. Len(seq) + 1 :
        \A i \in DOMAIN seq : seq[i] = IF i < k THEN i - 1 ELSE i

\* Deleting one addition from a generated record leaves every other identifier as
\* it was when a single stream replays the rest (the window's "+ 2").
StableUnderDeletion ==
    \A t \in Threads :
        LET own == nodes[t] IN
        /\ OneDeleted(prefix[t])
        /\ \A u \in Threads \ {t} : nodes[u] = <<>>
        /\ \A i \in DOMAIN own : own[i].kind = "fresh"
        => \A i \in DOMAIN own \cap DOMAIN prefix[t] : own[i].value = prefix[t][i]

\* An identifier names one variable of the test case, and names it still when another is
\* deleted (draw_fresh_id).
IdentifiersStable == IdsUnique /\ StableUnderDeletion
=============================================================================
