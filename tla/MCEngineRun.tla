------------------------------- MODULE MCEngineRun -------------------------------
(* EngineRun for TLC: the constants of the engine scaled down.                   *)
EXTENDS EngineRun

Setting(generate, shrink, targeting, report_multiple, suppress, database) ==
    [reuse |-> database, database |-> database, generate |-> generate, shrink |-> shrink,
     target |-> targeting, report_multiple |-> report_multiple, suppress |-> suppress]

SomeSettings ==
    {Setting(TRUE, TRUE, FALSE, TRUE, FALSE, TRUE),
     Setting(TRUE, TRUE, TRUE, FALSE, FALSE, FALSE),
     Setting(TRUE, FALSE, FALSE, TRUE, TRUE, FALSE),
     Setting(FALSE, TRUE, FALSE, FALSE, FALSE, TRUE)}
=============================================================================
