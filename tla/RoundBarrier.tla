---------------------------- MODULE RoundBarrier ----------------------------
(* What a concurrent stateful test promises: execution proceeds in rounds, a  *)
(* round has one concurrency group, only rules of that group run in it, and   *)
(* between two rounds the main thread is alone with the model.                *)
CONSTANTS Workers, Groups,
          NoGroup     \* not one of the groups

VARIABLES
    current,    \* group of the round in progress, NoGroup between rounds
    active      \* group of the rule each worker is running, NoGroup if none
vars == <<current, active>>

Nobody == [w \in Workers |-> NoGroup]

Init == current = NoGroup /\ active = Nobody

Begin == /\ current = NoGroup
         /\ current' \in Groups
         /\ UNCHANGED active

Start(w) == /\ current # NoGroup
            /\ active[w] = NoGroup
            /\ active' = [active EXCEPT ![w] = current]
            /\ UNCHANGED current

Finish(w) == /\ active[w] # NoGroup
             /\ active' = [active EXCEPT ![w] = NoGroup]
             /\ UNCHANGED current

Join == /\ current # NoGroup
        /\ active = Nobody
        /\ current' = NoGroup
        /\ UNCHANGED active

Next == Begin \/ Join \/ \E w \in Workers : Start(w) \/ Finish(w)
Spec == Init /\ [][Next]_vars
=============================================================================
