--------------------------- MODULE MCStateMachine ---------------------------
\* Two rules that may overlap and one that may not.
EXTENDS StateMachine
CONSTANTS mixed, alone, r1, r2, r3
MCGroupRules == mixed :> <<r1, r2>> @@ alone :> <<r3>>

\* The selection alone, in a group of three rules of which one is enabled: its fallback
\* may then find fewer enabled rules than it speculated on.
Wide == INSTANCE StateMachine WITH
            Groups <- {mixed}, GroupRules <- mixed :> <<r1, r2, r3>>
WideFlags ==
    {[decided |-> d, candidates |-> mixed :> {}] :
       d \in {e \in [{r1, r2, r3} -> {"undecided", "enabled", "disabled"}] :
                  \E r \in DOMAIN e : e[r] = "enabled"}}
\* It returns an enabled rule, and may return any that is not disabled.
ASSUME SelectionSucceeds ==
    \A f \in WideFlags :
        LET found == Wide!SelectRule(f, mixed)
        IN  /\ \A s \in found : s.flags \in WideFlags /\ s.flags.decided[s.rule] = "enabled"
            /\ {s.rule : s \in found} = {r \in {r1, r2, r3} : f.decided[r] # "disabled"}
=============================================================================
