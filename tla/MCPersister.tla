------------------------------- MODULE MCPersister -------------------------------
(* Persister for TLC: three test cases, two origins.                            *)
EXTENDS Persister, TLC

\* Shortlex on bytes and the shrink order disagree: 2, 3, 1.  So a stored case that no
\* longer fits is replayed before the cases it may now realise.
Ranks == 1 :> 3 @@ 2 :> 1 @@ 3 :> 2

AllEntries == Cases \cup {Torn}

CONSTANTS A, B

\* Two origins at once, an edit that makes a stored case pass and another fail, and
\* one after which a stored case no longer fits.
SomeVersions ==
    {1 :> Valid @@ 2 :> A @@ 3 :> B, 1 :> Valid @@ 2 :> A @@ 3 :> A, 1 :> B @@ 3 :> Valid}

SomeSettings ==
    {[reuse |-> TRUE, generate |-> TRUE, shrink |-> TRUE, report_multiple |-> r] : r \in BOOLEAN}
    \cup {[reuse |-> FALSE, generate |-> TRUE, shrink |-> FALSE, report_multiple |-> TRUE]}
=============================================================================
