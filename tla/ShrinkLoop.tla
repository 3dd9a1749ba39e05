----------------------------- MODULE ShrinkLoop -----------------------------
(* One shrink (native/shrinker/scheduling.rs, mod.rs; started by               *)
(* test_runner.rs): the coarse reduction once, then rounds of all passes until *)
(* a round changes nothing. A pass is stepped until a step fails - a           *)
(* stochastic one until six steps in a row do - and the passes that deleted    *)
(* nodes go first in the next round. A spent budget ends the shrink anywhere.  *)
EXTENDS Shrinker

CONSTANTS Starts,        \* the (body, nodes, cap, fuel) a shrink may begin with
          Lucks,         \* what a series of random continuations may draw
          MaxFailures,   \* STOCHASTIC_MAX_FAILURES (6 in the code)
          Plenty         \* executions within which every shrink of a start ends

VARIABLES s,       \* the shrinker
          pc,      \* "coarse", "round", "pass", "step", "done"
          passes,  \* names in the order of this round
          at,      \* position of the pass at work
          round    \* what the round and the pass at work have seen
vars == <<s, pc, passes, at, round>>

Programs == [n \in 1..MaxProgram |-> <<"node_program", MaxProgram + 1 - n>>]
\* The order of the first round.
AllPasses ==
    <<Named("remove_discarded"), Named("delete_spans"), Named("try_trivial_spans"),
      Named("pass_to_descendant"), Named("reorder_spans")>> \o Programs \o
    <<Named("delete_chunks"), Named("delete_between_repeats"), Named("zero_choices"),
      Named("swap_integer_sign"), Named("binary_search_integer_towards_zero"),
      Named("bind_deletion"), Named("minimize_individual_choices"),
      Named("lower_common_node_offset"), Named("redistribute_integers"),
      Named("lower_integers_together"), Named("shrink_duplicates"), Named("sort_values"),
      Named("swap_adjacent_blocks"), Named("shrink_bytes"), Named("redistribute_bytes_pairs"),
      Named("shrink_strings"), Named("lower_duplicated_characters"),
      Named("normalize_unicode_chars"), Named("redistribute_string_pairs"),
      Named("lower_and_bump"), Named("try_shortening_via_increment"), Named("mutate_and_shrink")>>
Stochastic(pass) == pass[1] = "mutate_and_shrink"

Passing(from, pass, luck) == [what |-> "pass", from |-> from, arg |-> [pass |-> pass, luck |-> luck]]
Discarding(from) == Passing(from, Named("remove_discarded"), <<>>)
Performed(work) == Perform(work.from, work.what, work.arg)

\* The answers of the last attempt and search mean nothing between steps.
Settled(u) == [u EXCEPT !.ok = FALSE, !.n = 0]

\* calls_at_start, worst: of the round; size, improvements, failures: of the pass; keys: so far
NoRound == [ran |-> TRUE, discard |-> FALSE, calls_at_start |-> 0, worst |-> 1,
            size |-> 0, improvements |-> 0, failures |-> 0, keys |-> <<>>]
Init == /\ \E start \in Starts : s = NewShrinker(start.body, start.nodes, start.cap, start.fuel)
        /\ pc = "coarse"
        /\ passes = AllPasses
        /\ at = 1
        /\ round = NoRound

\* A step's outcome: a halt ends the shrink with what has been found.
Continue(u, next) == /\ s' = Settled(u)
                     /\ pc' = IF u.halt THEN "done" ELSE next

\* A pass that gains nothing for long is not held up by the window of an earlier one.
Widened == [s EXCEPT !.max_stall = AtLeast(@, 2 * round.worst + (s.calls - round.calls_at_start))]

\* What this step executes, if anything: the coarse reduction, a pass, or the removal of
\* discarded spans that opens a round and precedes every pass while it gains something.
Work ==
    CASE pc = "coarse" -> {[what |-> "coarse", from |-> s, arg |-> luck] : luck \in Lucks}
      [] pc = "round" -> {Discarding([s EXCEPT !.calls_at_last_shrink = s.calls])}
      [] pc = "pass" -> {Discarding(s)}
      [] pc = "step" -> {Passing(Widened, passes[at], luck) :
                            luck \in IF Stochastic(passes[at]) THEN Lucks ELSE {<<>>}}
      [] OTHER -> {}

CoarseReduction(u) ==
    /\ pc = "coarse"
    /\ Continue(u, "round")
    /\ UNCHANGED <<passes, at, round>>

\* A new round opens a new stall window, and ends the shrink when the last one was quiet.
StartRound(u) ==
    /\ pc = "round"
    /\ round.ran
    /\ Continue(u, "pass")
    /\ round' = [NoRound EXCEPT !.ran = FALSE, !.discard = u.ok, !.calls_at_start = u.calls]
    /\ at' = 1
    /\ UNCHANGED passes

Finish == /\ pc = "round"
          /\ ~round.ran
          /\ pc' = "done"
          /\ UNCHANGED <<s, passes, at, round>>

StartPass(found) ==
    /\ pc = "pass"
    /\ at <= Len(passes)
    /\ LET u == IF round.discard THEN found ELSE s
       IN /\ Continue(u, "step")
          /\ round' = [round EXCEPT !.discard = @ /\ u.ok, !.size = Len(u.nodes),
                                    !.improvements = u.improvements, !.failures = 0]
    /\ UNCHANGED <<passes, at>>

\* What a pass did to the target decides its place in the next round.
ReorderKey(u) == IF Len(u.nodes) < round.size THEN -1
                 ELSE IF u.improvements > round.improvements THEN 0 ELSE 1

\* One step of the pass, which left u; its failures end the pass, and so does a step that ran
\* nothing. Mutant: any step that ran something counts as progress.
StepBusy(u, pass) ==
    LET better == u.calls > s.calls
        failures == IF better THEN 0 ELSE round.failures + 1
        over == ~better /\ (u.calls = s.calls \/ failures >= IF Stochastic(pass) THEN MaxFailures ELSE 1)
    IN /\ Continue(u, IF over THEN "pass" ELSE "step")
       /\ round' = [round EXCEPT !.ran = @ \/ better, !.failures = failures,
                                 !.worst = IF better THEN @ ELSE AtLeast(@, u.calls - s.calls),
                                 !.keys = IF over THEN Append(@, ReorderKey(u)) ELSE @]
       /\ at' = IF over THEN at + 1 ELSE at
\* Mutant: only the last step of the round decides whether there is another.
StepForgetful(u, pass) ==
    LET better == u.improvements > s.improvements
        failures == IF better THEN 0 ELSE round.failures + 1
        over == ~better /\ (u.calls = s.calls \/ failures >= IF Stochastic(pass) THEN MaxFailures ELSE 1)
    IN /\ Continue(u, IF over THEN "pass" ELSE "step")
       /\ round' = [round EXCEPT !.ran = better, !.failures = failures,
                                 !.worst = IF better THEN @ ELSE AtLeast(@, u.calls - s.calls),
                                 !.keys = IF over THEN Append(@, ReorderKey(u)) ELSE @]
       /\ at' = IF over THEN at + 1 ELSE at
Step(u, pass) ==
    LET better == u.improvements > s.improvements
        failures == IF better THEN 0 ELSE round.failures + 1
        over == ~better /\ (u.calls = s.calls \/ failures >= IF Stochastic(pass) THEN MaxFailures ELSE 1)
    IN /\ Continue(u, IF over THEN "pass" ELSE "step")
       /\ round' = [round EXCEPT !.ran = @ \/ better, !.failures = failures,
                                 !.worst = IF better THEN @ ELSE AtLeast(@, u.calls - s.calls),
                                 !.keys = IF over THEN Append(@, ReorderKey(u)) ELSE @]
       /\ at' = IF over THEN at + 1 ELSE at

StepPass(u) ==
    /\ pc = "step"
    /\ Step(u, passes[at])
    /\ UNCHANGED passes

\* A stable sort by reorder key.
EndRound ==
    /\ pc = "pass"
    /\ at > Len(passes)
    /\ LET With(key) == SelectSeq(Up(1, Len(passes)), LAMBDA p : round.keys[p] = key)
           order == With(-1) \o With(0) \o With(1)
       IN passes' = [p \in DOMAIN order |-> passes[order[p]]]
    /\ pc' = "round"
    /\ UNCHANGED <<s, at, round>>

Done == pc = "done" /\ UNCHANGED vars
Next == \/ \E work \in Work : \E u \in {Performed(work)} :
              CoarseReduction(u) \/ StartRound(u) \/ StartPass(u) \/ StepPass(u)
        \/ Finish \/ EndRound \/ Done
Spec == Init /\ [][Next]_vars /\ WF_vars(Next)

(* Properties.                                                                *)
\* The target is a real failing run: replaying its own values draws exactly its nodes, records
\* its spans and is interesting. Every pass takes positions and spans from it for granted
\* (accept_improvement).
TargetIsARun ==
    Replay(s.body, s.nodes, "none", Len(s.nodes)) =
        [nodes |-> s.nodes, spans |-> s.spans, matches |-> TRUE]

\* The run that drew these values.
Relive(body, rec) ==
    [i \in DOMAIN rec |-> LET d == CHOOSE d \in Draw(body, SubSeq(rec, 1, i - 1)) : TRUE
                          IN Node(d.k, rec[i].v, d.forced # {})]

\* What the secondary key will be given: each displaced target once, failing, in order, the
\* last one above the present target (downgraded).
DowngradedChain ==
    LET runs == [i \in DOMAIN s.downgraded |-> Relive(s.body, s.downgraded[i])] \o <<s.nodes>>
    IN /\ Len(s.downgraded) = s.improvements
       /\ \A i \in DOMAIN s.downgraded : /\ Interesting(s.body, s.downgraded[i])
                                         /\ Smaller(runs[i + 1], runs[i])

\* The indices lower_common_node_offset trusts are those that differ from the checkpoint, and
\* none once the shape is another.
ChangesTracked ==
    IF SameShape(s.checkpoint, s.nodes)
    THEN {i \in DOMAIN s.nodes : s.nodes[i].v # s.checkpoint[i].v} \subseteq s.changed
    ELSE s.changed = {}

\* The target is a run of the test, and what is kept about it (the runs it displaced, the nodes
\* that changed) was not left behind by the target before it, whatever its shape (consider).
TargetsAreRuns == TargetIsARun /\ DowngradedChain /\ ChangesTracked

\* A shrink that ended by itself is at a fixed point: given a fresh window no deterministic pass
\* would gain anything more. What ends it is not a latched stall guard that dropped the
\* candidates of an all-quiet round (fixate_shrink_passes).
QuietIsFixed ==
    pc = "done" /\ ~s.halt =>
        LET fresh == [s EXCEPT !.max_stall = Plenty, !.calls_at_last_shrink = s.calls,
                               !.max_improvements = Plenty, !.fuel = Plenty]
        IN \A i \in DOMAIN passes :
              ~Stochastic(passes[i]) => Performed(Passing(fresh, passes[i], <<>>)).nodes = s.nodes

\* Passes and rounds are repeated only while they gain something: a deadline that leaves time
\* for Plenty executions is never what ends a shrink (fixate_shrink_passes).
EndsByItself == s.timed_out => s.calls < Plenty

=============================================================================
