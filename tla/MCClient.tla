------------------------------- MODULE MCClient -------------------------------
(* The client library: one test case from inside (ClientCase), its variable      *)
(* pools (VariablePool), or a whole test function (ClientRun), whichever `part`   *)
(* is.                                                                            *)
EXTENDS ClientCase, ClientRun, VariablePool, TLC

VARIABLE part

\* Test bodies: the constructs each may use, and the choices it may record.
TestsDef ==
    {[uses |-> {"filter", "btree_set", "repeat"}, data |-> 6],
     [uses |-> {"recursive", "composite", "repeat"}, data |-> 6],
     [uses |-> {"machine", "hash_set", "panic"}, data |-> 5],
     [uses |-> {"custom", "silent", "composite"}, data |-> 3],
     [uses |-> {"btree_map", "sample", "mapped"}, data |-> 6],
     [uses |-> {"flat_map", "filter", "machine"}, data |-> 5],
     [uses |-> {"optional", "repeat", "panic"}, data |-> 5],
     [uses |-> {"vec", "repeat"}, data |-> 10]}

Written(q, m, s, t, e, b, ex) ==
    [quiet |-> q, multiple |-> m, single |-> s, test_cases |-> t, env |-> e,
     badEnv |-> e = 9, blob |-> b, example |-> ex]

\* Test functions: with and without examples, blobs, environment and settings.
ConfigurationsDef ==
    {Written(q, m, s, 2, e, None, {}) : q, m, s \in BOOLEAN, e \in {0, 3}}
        \cup {Written(FALSE, TRUE, FALSE, 1, 0, b, {}) : b \in {"good", "corrupt"}}
        \cup {Written(FALSE, TRUE, FALSE, 1, e, None, Names) : e \in {0, 9}}

\* A stream generates, replays values drawn by other versions, or replays a record
\* with one addition deleted.
SomePrefixes == {<<>>, <<1, 0>>, <<2, 2>>, <<0, 2, 3>>}

\* Threads and pools are interchangeable.
RaceSymmetry == Permutations(Threads) \cup Permutations(Pools)

\* The part that is not looked at stays in one initial state.
OneTest == CHOOSE t \in Tests : TRUE
OneConfiguration == CHOOSE c \in Configurations : TRUE

MCInit ==
    /\ part \in {"case", "function", "pools"}
    /\ CaseInit /\ DriveInit /\ PoolInit
    /\ part # "case" => uses = OneTest.uses /\ data = OneTest.data
    /\ part # "function" => settings = OneConfiguration
    /\ part # "pools" => \A t \in Threads : prefix[t] = <<>>

MCNext ==
    /\ \/ part = "case" /\ CaseNext /\ UNCHANGED <<driveVars, poolVars>>
       \/ part = "function" /\ DriveNext /\ UNCHANGED <<caseVars, poolVars>>
       \/ part = "pools" /\ PoolNext /\ UNCHANGED <<caseVars, driveVars>>
    /\ UNCHANGED part

MCSpec == MCInit /\ [][MCNext]_<<part, caseVars, driveVars, poolVars>>
===============================================================================
