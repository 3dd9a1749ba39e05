------------------------------- MODULE DatabaseUse -------------------------------
(* Users who call save, delete and move_value on one database directory in any  *)
(* order (the contract of the trait TestCaseDatabase, native/database.rs).      *)
EXTENDS ExampleDatabase

CONSTANTS
    MaxCalls,       \* bound: calls made
    MaxKills,       \* bound: users killed in the middle of a call
    MaxDebris       \* bound: temporary files left behind, for a removal to fail

ASSUME BoundsOK == MaxCalls \in Nat /\ MaxKills \in Nat /\ MaxDebris \in Nat

VARIABLES
    active,         \* the users that take part
    calls, kills,
    moving,         \* history: the value a single user's last move_value found at its source
    setbacks,       \* history: what that call suffered, operations failed and kills
    expected,       \* history: per key, the set the calls so far describe
    abandoned       \* history: the temporary files of killed users and failed removals

vars == <<dbVars, active, calls, kills, moving, setbacks, expected, abandoned>>

NotMoving == [from |-> Metakeys, to |-> Metakeys, value |-> Metakeys]

Idle(u) == todo[u] = <<>>

Init ==
    /\ DbInit
    /\ failing \in BOOLEAN
    /\ active \in SUBSET Users \ {{}}
    /\ calls = 0
    /\ kills = 0
    /\ moving = NotMoving
    /\ setbacks = 0
    /\ expected = [k \in Keys |-> {}]
    /\ abandoned = {}

\* A user starts the call `op`; `want` is the set every key has when it returns.
Call(u, op, want, found) ==
    /\ u \in active /\ Idle(u)
    /\ calls < MaxCalls
    /\ calls' = calls + 1
    /\ todo' = [todo EXCEPT ![u] = <<op>>]
    /\ expected' = want
    /\ moving' = found
    /\ setbacks' = 0
    /\ UNCHANGED <<failing, dirs, files, active, kills, abandoned>>

CallSave(u, k, v) ==
    Call(u, Save(k, v), [expected EXCEPT ![k] = @ \cup {v}], NotMoving)

CallDelete(u, k, v) ==
    Call(u, Delete(k, v), [expected EXCEPT ![k] = @ \ {v}], NotMoving)

CallMove(u, src, dst, v) ==
    Call(u, MoveValue(src, dst, v),
         [k \in Keys |-> IF k = dst THEN expected[k] \cup {v}
                         ELSE IF k = src THEN expected[k] \ {v} ELSE expected[k]],
         IF active = {u} /\ v \in Stored(src) THEN [from |-> src, to |-> dst, value |-> v] ELSE NotMoving)

\* The temporary file the running operation of u works on, if it is there.
Debris(u) == {<<f.key, f.name>> : f \in {g \in files : g.key = Current(u).key /\ g.name = Current(u).tmp}}

\* The step of u fails to remove that file.
LeavesDebris(u) == Doing(u, "unlink") /\ Debris(u) # {} /\ files' = files

\* One more setback of the move_value (bound: two are counted).
SetBack == setbacks' = IF moving # NotMoving /\ setbacks < 2 THEN setbacks + 1 ELSE setbacks

Step(u) ==
    /\ DbStep(u)
    /\ IF Fails(u) THEN SetBack ELSE UNCHANGED setbacks
    /\ IF LeavesDebris(u)
       THEN Cardinality(abandoned) < MaxDebris /\ abandoned' = abandoned \cup Debris(u)
       ELSE UNCHANGED abandoned
    /\ UNCHANGED <<active, calls, kills, moving, expected>>

\* The process of a user dies: what it has written stays as it is.
Kill(u) ==
    /\ ~Idle(u)
    /\ kills < MaxKills
    /\ kills' = kills + 1
    /\ todo' = [todo EXCEPT ![u] = <<>>]
    /\ SetBack
    /\ expected' = [k \in Keys |-> Fetch(k)]
    /\ abandoned' = abandoned \cup Debris(u)
    /\ UNCHANGED <<failing, dirs, files, active, calls, moving>>

Next ==
    \E u \in Users :
        \/ \E k \in Keys, v \in Entries : CallSave(u, k, v)
        \/ \E k \in Keys, v \in Entries : CallDelete(u, k, v)
        \/ \E src, dst \in Keys, v \in Entries : CallMove(u, src, dst, v)
        \/ Step(u)
        \/ Kill(u)

Spec == Init /\ [][Next]_vars

-----------------------------------------------------------------------------
Moves == {NotMoving} \cup [from : Keys, to : Keys, value : Entries]

TypeOK ==
    /\ DbTypeOK
    /\ active \subseteq Users
    /\ calls \in 0 .. MaxCalls
    /\ kills \in 0 .. MaxKills
    /\ moving \in Moves
    /\ setbacks \in 0 .. 2
    /\ expected \in [Keys -> SUBSET (Values \cup {Torn})]

\* A temporary file is being written, or its writer was killed, or could not remove it
\* either: no other write leaves one behind (atomic_write).
NoStrayTmp ==
    \A f \in files : Len(f.name) = 2 =>
        \/ \E u \in Users : ~Idle(u) /\ Current(u).key = f.key /\ Current(u).tmp = f.name
        \/ <<f.key, f.name>> \in abandoned

\* What atomic_write is for: whole entries, and no debris but of a kill and of a removal
\* that failed.
WritesAreAtomic == WholeEntries /\ NoStrayTmp

\* A single user whose operations succeed.
Undisturbed == ~failing /\ \E u \in Users : active = {u}

\* For a single user every key that has a directory is listed in the metakeys, at
\* every instant and wherever the user is killed.
KeysListed == Undisturbed => dirs \ {Metakeys} \subseteq Stored(Metakeys)

AllIdle == \A u \in Users : Idle(u)

\* Between the calls of a single user the database is the set per key the trait
\* describes, nothing else is fetched, and exactly the keys that have a value are
\* listed in the metakeys.
SetSemantics ==
    Undisturbed /\ AllIdle /\ kills = 0 =>
        /\ \A k \in Keys : Stored(k) = expected[k] /\ Fetch(k) = expected[k]
        /\ Stored(Metakeys) = {k \in Keys : expected[k] # {}}
        /\ dirs = Stored(Metakeys) \cup IF Stored(Metakeys) = {} THEN {} ELSE {Metakeys}

\* What the trait promises a single user (ExampleDatabase), with the listing that lets
\* the keys be found again.
TraitKept == SetSemantics /\ KeysListed

\* The value that the last move_value of a single user found at its source is there or
\* at the destination.
StillStored == moving.value \in Stored(moving.from) \cup Stored(moving.to)

\* move_value takes one setback: while nothing has failed the value is at its source or
\* at its destination at every instant, so a kill then loses nothing; and after a single
\* failure, wherever it strikes, the value is stored when the call returns: what comes
\* after a failed rename, delete-then-save, succeeds.  (Two may lose it: the fallback
\* deletes first.)
MoveKeepsValue ==
    moving # NotMoving =>
        /\ setbacks = 0 => StillStored
        /\ setbacks = 1 /\ AllIdle => StillStored

-----------------------------------------------------------------------------

=============================================================================
