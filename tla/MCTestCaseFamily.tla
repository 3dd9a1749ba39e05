----------------------------- MODULE MCTestCaseFamily -----------------------------
(* TestCaseFamily for TLC: two client threads on up to three streams.           *)
EXTENDS TestCaseFamily

\* A generated case with three streams, and a replay that reads a recorded clone.
SomeModes ==
    {[replay |-> FALSE, ops |-> {"draw", "clone"}, statuses |-> {"Valid", "Interesting"},
      streams |-> 3, max_size |-> 2, child_prefix |-> 0, max_clone_depth |-> 2],
     [replay |-> TRUE, ops |-> Ops, statuses |-> {"Interesting"},
      streams |-> 2, max_size |-> 1, child_prefix |-> 1, max_clone_depth |-> 1]}
=============================================================================
