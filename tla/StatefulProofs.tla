--------------------------- MODULE StatefulProofs -------------------------------
(* Proofs about StateMachine for any groups of rules, levels of concurrency and  *)
(* limits: it implements the rounds of RoundBarrier, and a rule cut short by a   *)
(* conclusion is never reported as a panic or a success.  The pools of variables  *)
(* such tests draw from (VariablePool) have their theorems at the end.           *)
EXTENDS StateMachine, VariablePool, FiniteSetTheorems, NaturalsInduction,
        WellFoundedInduction, TLAPS

Alone == {"create", "initial", "sampled", "group", "final", "resolve", "ended"}
MainPCs == Alone \cup {"send", "recv", "closing"}
Events == {"none", "done", "panic", "control", "overrun", "invalid"}
Results == {"none", "invariant", "ok", "panic", "control", "overrun", "invalid"}

TypeOK ==
    /\ concurrency \in Nat /\ at \in Nat \ {0}
    /\ currentGroup \in Groups \cup {NoGroup}
    /\ concluded \in {"no", "overrun", "invalid"} /\ abandoned \in BOOLEAN
    /\ main \in MainPCs /\ result \in Results
    /\ inbox \in [Workers -> BOOLEAN] /\ event \in [Workers -> Events]
    /\ wpc \in [Workers -> {"exited", "parked", "pulling", "running"}]
    /\ rule \in [Workers -> Rules \cup {NoRule}]

\* A worker with a round in its channel or in its hands has not sent its event yet.
Busy(w) == inbox[w] \/ wpc[w] \in {"pulling", "running"}

\* Where the main thread stands bounds what the workers may be doing: outside a round
\* they are idle, and the send and receive loops split them into those before and
\* those after the loop's position.
RoundSound ==
    /\ main \in Alone \ {"ended"} => at = 1
    /\ main \in Alone \ {"create", "ended"} => concurrency > 0
    /\ main \in {"send", "recv"} => currentGroup \in Groups /\ at <= concurrency
    /\ main = "closing" /\ at > 1 => currentGroup \in Groups
    /\ \A w \in Workers :
          /\ main \in Alone \/ (main = "closing" /\ at = 1) => ~Busy(w)
          /\ main = "send" /\ w >= at => ~Busy(w) /\ event[w] = "none"
          /\ main \in Alone \ {"resolve", "ended"} => event[w] = "none"
          /\ main = "recv" /\ w < at => ~Busy(w)
          /\ Busy(w) => event[w] = "none"
          /\ inbox[w] => wpc[w] = "parked"
          /\ Busy(w) => w <= concurrency
          /\ main \in {"create", "initial"} => wpc[w] = "exited"
          /\ wpc[w] # "exited" => w <= concurrency
          /\ w <= concurrency /\ wpc[w] = "exited" =>
                main \in {"create", "initial", "closing", "ended"}

\* Only a running worker has a rule, and the rule is of the round's group.
RulesInGroup ==
    \A w \in Workers :
        /\ rule[w] # NoRule <=> wpc[w] = "running"
        /\ rule[w] # NoRule => rule[w] \in Members(currentGroup)

\* A worker that a conclusion has caught up with, and that will say so.
Told(w) ==
    /\ w <= concurrency /\ wpc[w] # "running"
    /\ \/ event[w] \in {"overrun", "invalid"}
       \/ wpc[w] = "pulling"
       \/ concurrency = 1 /\ event[w] = "done"

\* After a rule was cut short the family is concluded, and until the round is resolved
\* there is a worker that was told.
CutShortSound ==
    /\ abandoned => concluded # "no" /\ main # "final"
    /\ abandoned /\ main \in {"send", "recv", "resolve"} => \E w \in Workers : Told(w)
    /\ result \in {"panic", "ok"} => ~abandoned /\ at = 1 /\ main \in {"closing", "ended"}

-----------------------------------------------------------------------------
(* The feature flags, and the selection of a rule.                              *)

\* The candidates of a group are rules of it nothing was decided about, and there are
\* none of them only when a rule of the group is enabled.
FlagsOK(f) ==
    /\ f \in [decided : [Rules -> {"undecided", "enabled", "disabled"}],
              candidates : [Groups -> SUBSET Rules]]
    /\ \A g \in Groups : \A r \in f.candidates[g] : r \in Members(g) /\ f.decided[r] = "undecided"
    /\ \A g \in Groups : f.candidates[g] = {} => \E r \in Members(g) : f.decided[r] = "enabled"

FlagsSound == DOMAIN flags = Workers /\ \A w \in Workers : FlagsOK(flags[w])

\* What was decided stays so.
Refines(f, h) == \A q \in Rules : f.decided[q] # "undecided" => h.decided[q] = f.decided[q]

\* The rules of a group are rules.
LEMMA MembersAreRules == ASSUME NEW g \in Groups PROVE Members(g) \subseteq Rules
  BY DEF Rules

\* In a group, sound flags leave a rule that is not disabled.
LEMMA OneIsLeft ==
    ASSUME NEW f, FlagsOK(f), NEW g \in Groups
    PROVE  \E r \in Members(g) : f.decided[r] # "disabled"
  <1>1. CASE f.candidates[g] = {}
    BY <1>1 DEF FlagsOK
  <1>2. CASE f.candidates[g] # {}
    BY <1>2 DEF FlagsOK
  <1> QED
    BY <1>1, <1>2

\* is_enabled keeps the flags sound, decides the rule and changes no earlier decision.
LEMMA AskKeepsFlags ==
    ASSUME NEW f, FlagsOK(f), NEW g \in Groups, NEW r \in Members(g), NEW h \in IsEnabled(f, g, r)
    PROVE  FlagsOK(h) /\ Refines(f, h) /\ h.decided[r] \in {"enabled", "disabled"}
  <1>1. r \in Rules /\ \A q \in Groups : Members(q) \subseteq Rules
    BY MembersAreRules
  <1>2. PICK d \in {"enabled", "disabled"} :
           /\ h = [decided    |-> [f.decided EXCEPT ![r] = d],
                   candidates |-> [f.candidates EXCEPT ![g] = IF d = "enabled" THEN {} ELSE @ \ {r}]]
           /\ f.candidates[g] = {r} => d = "enabled"
           /\ f.candidates[g] # {r} /\ f.decided[r] # "undecided" => d = f.decided[r]
    <2>1. \A d : d \in (IF f.candidates[g] = {r} THEN {"enabled"}
                        ELSE IF f.decided[r] # "undecided" THEN {f.decided[r]}
                        ELSE {"enabled", "disabled"}) =>
             /\ d \in {"enabled", "disabled"}
             /\ f.candidates[g] = {r} => d = "enabled"
             /\ f.candidates[g] # {r} /\ f.decided[r] # "undecided" => d = f.decided[r]
      BY <1>1 DEF FlagsOK
    <2> QED
      BY <2>1 DEF IsEnabled
  <1>3. /\ f.decided \in [Rules -> {"undecided", "enabled", "disabled"}]
        /\ f.candidates \in [Groups -> SUBSET Rules]
    BY DEF FlagsOK
  <1>4. /\ h.decided = [f.decided EXCEPT ![r] = d]
        /\ h.candidates = [f.candidates EXCEPT ![g] = IF d = "enabled" THEN {} ELSE @ \ {r}]
    BY <1>2
  <1>5. /\ h.decided \in [Rules -> {"undecided", "enabled", "disabled"}] /\ h.decided[r] = d
        /\ \A q \in Rules : q # r => h.decided[q] = f.decided[q]
    BY <1>1, <1>3, <1>4
  <1>6. /\ h.candidates \in [Groups -> SUBSET Rules]
        /\ h.candidates[g] = IF d = "enabled" THEN {} ELSE f.candidates[g] \ {r}
        /\ \A q \in Groups : q # g => h.candidates[q] = f.candidates[q]
    BY <1>3, <1>4
  <1>7. h \in [decided : [Rules -> {"undecided", "enabled", "disabled"}],
               candidates : [Groups -> SUBSET Rules]]
    BY <1>2, <1>4, <1>5, <1>6
  <1>8. Refines(f, h)
    <2>1. f.decided[r] # "undecided" => d = f.decided[r]
      BY <1>2 DEF FlagsOK
    <2> QED
      BY <1>5, <2>1 DEF Refines
  <1>9. \A q \in Groups : q # g => r \notin Members(q)
    BY GroupAssumption
  <1>10. ASSUME NEW q \in Groups, NEW c \in h.candidates[q]
         PROVE  c \in Members(q) /\ h.decided[c] = "undecided"
    <2>1. CASE q = g
      <3>1. c \in f.candidates[g] /\ c # r
        BY <1>6, <1>10, <2>1
      <3> QED
        BY <1>3, <1>5, <2>1, <3>1 DEF FlagsOK
    <2>2. CASE q # g
      <3>1. c \in f.candidates[q]
        BY <1>6, <1>10, <2>2
      <3>2. c \in Members(q) /\ f.decided[c] = "undecided" /\ c \in Rules
        BY <1>1, <3>1 DEF FlagsOK
      <3> QED
        BY <1>5, <1>9, <2>2, <3>2
    <2> QED
      BY <2>1, <2>2
  <1>11. ASSUME NEW q \in Groups, h.candidates[q] = {}
         PROVE  \E c \in Members(q) : h.decided[c] = "enabled"
    <2>1. CASE q = g /\ d = "enabled"
      BY <1>5, <2>1
    <2>2. CASE f.candidates[q] = {}
      <3>1. PICK c \in Members(q) : f.decided[c] = "enabled"
        BY <2>2 DEF FlagsOK
      <3> QED
        BY <1>1, <1>8, <3>1 DEF Refines
    <2>3. CASE q # g
      BY <1>6, <1>11, <2>2, <2>3
    <2>4. CASE q = g /\ d # "enabled"
      <3>1. f.candidates[g] # {r} /\ f.candidates[g] \ {r} = {}
        BY <1>2, <1>6, <1>11, <2>4
      <3> QED
        BY <2>2, <2>4, <3>1
    <2> QED
      BY <2>1, <2>3, <2>4
  <1> QED
    BY <1>5, <1>7, <1>8, <1>10, <1>11 DEF FlagsOK

\* A selection in progress: sound flags, rules known to be disabled, and an enabled rule
\* of the group or none.
SelectionOK(g, f, b, q) ==
    /\ FlagsOK(f) /\ b \subseteq Members(g) /\ \A r \in b : f.decided[r] = "disabled"
    /\ q \in Members(g) \cup {NoRule} /\ (q # NoRule => f.decided[q] = "enabled")
IsSelection(s, g) == \E f, b, q : SelectionOK(g, f, b, q) /\ s = [flags |-> f, bad |-> b, rule |-> q]

\* One try of rejection sampling leaves a selection.
LEMMA TryKeepsSelection ==
    ASSUME NEW g \in Groups, NEW s, IsSelection(s, g), NEW t \in Try(g, s)
    PROVE  IsSelection(t, g)
  <1>1. PICK f, b, q : SelectionOK(g, f, b, q) /\ s = [flags |-> f, bad |-> b, rule |-> q]
    BY DEF IsSelection
  <1>2. CASE t = s
    BY <1>2
  <1>3. ASSUME NEW r \in Members(g) \ b, NEW h \in IsEnabled(f, g, r), q = NoRule,
               t = IF h.decided[r] = "enabled" THEN [s EXCEPT !.flags = h, !.rule = r]
                   ELSE [s EXCEPT !.flags = h, !.bad = @ \cup {r}]
        PROVE  IsSelection(t, g)
    <2>1. FlagsOK(h) /\ Refines(f, h) /\ h.decided[r] \in {"enabled", "disabled"}
      BY <1>1, <1>3, AskKeepsFlags DEF SelectionOK
    <2>2. \A c \in b : h.decided[c] = "disabled"
      BY <1>1, <2>1, MembersAreRules DEF SelectionOK, Refines
    <2>3. CASE h.decided[r] = "enabled"
      <3>1. t = [flags |-> h, bad |-> b, rule |-> r]
        BY <1>1, <1>3, <2>3
      <3>2. SelectionOK(g, h, b, r)
        BY <1>1, <2>1, <2>2, <2>3 DEF SelectionOK
      <3> QED
        BY <3>1, <3>2 DEF IsSelection
    <2>4. CASE h.decided[r] = "disabled"
      <3>1. t = [flags |-> h, bad |-> b \cup {r}, rule |-> q]
        BY <1>1, <1>3, <2>4
      <3>2. SelectionOK(g, h, b \cup {r}, q)
        BY <1>1, <1>3, <2>1, <2>2, <2>4 DEF SelectionOK
      <3> QED
        BY <3>1, <3>2 DEF IsSelection
    <2> QED
      BY <2>1, <2>3, <2>4
  <1>4. \/ t = s
        \/ /\ s.rule = NoRule
           /\ \E r \in Members(g) \ s.bad : \E h \in IsEnabled(s.flags, g, r) :
                 t = IF h.decided[r] = "enabled"
                     THEN [s EXCEPT !.flags = h, !.rule = r]
                     ELSE [s EXCEPT !.flags = h, !.bad = @ \cup {r}]
    BY Zenon DEF Try
  <1>5. s.rule = q /\ s.bad = b /\ s.flags = f
    BY <1>1
  <1> QED
    BY <1>2, <1>3, <1>4, <1>5

\* A set of numbers has a least element.
LEMMA LeastNumber ==
    ASSUME NEW S, S \subseteq Nat, S # {}
    PROVE  \E n \in S : \A m \in S : n <= m
  <1>1. IsWellFoundedOn(OpToRel(<, Nat), Nat)
    BY NatLessThanWellFounded
  <1>2. PICK n \in S : \A m \in S : ~(<<m, n>> \in OpToRel(<, Nat))
    BY <1>1, WFMin
  <1>3. ASSUME NEW m \in S PROVE n <= m
    <2>1. ~(m < n)
      BY <1>2 DEF OpToRel
    <2> QED
      BY <2>1
  <1> QED
    BY <1>3

\* The walks of the fallback, by their recursion.
Step(g, s, k, n, W) == UNION {Visit(g, s, k, GroupRules[g][n], w) : w \in W}
Start(s) == {[flags |-> s.flags, allowed |-> {}, rule |-> NoRule]}
IsWalks(g, s, k, n, h) ==
    h = [m \in 0..n |-> IF m = 0 THEN Start(s) ELSE Step(g, s, k, m, h[m - 1])]

\* There are such walks.
LEMMA WalksExist ==
    ASSUME NEW g, NEW s, NEW k, NEW N \in Nat
    PROVE  \E h : IsWalks(g, s, k, N, h)
  <1> DEFINE T == {n \in Nat : ~\E h : IsWalks(g, s, k, n, h)}
  <1>1. ASSUME T # {} PROVE FALSE
    <2>1. PICK n \in T : \A m \in T : n <= m
      BY <1>1, LeastNumber
    <2>2. CASE n = 0
      <3> DEFINE h == [m \in 0..0 |-> Start(s)]
      <3>1. IsWalks(g, s, k, n, h)
        BY <2>2 DEF IsWalks
      <3> QED
        BY <2>1, <3>1
    <2>3. CASE n > 0
      <3>1. n - 1 \in Nat /\ n - 1 \notin T
        BY <2>1, <2>3
      <3>2. PICK h : IsWalks(g, s, k, n - 1, h)
        BY <3>1
      <3> DEFINE e == [m \in 0..n |-> IF m = 0 THEN Start(s) ELSE Step(g, s, k, m, h[m - 1])]
      <3>3. ASSUME NEW m \in 0..n, m # 0 PROVE e[m - 1] = h[m - 1]
        <4>1. m - 1 \in 0..n /\ m - 1 \in 0..(n - 1)
          BY <3>3
        <4>2. h[m - 1] = IF m - 1 = 0 THEN Start(s) ELSE Step(g, s, k, m - 1, h[(m - 1) - 1])
          BY <3>2, <4>1, Zenon DEF IsWalks
        <4> QED
          BY <4>1, <4>2
      <3>4. e = [m \in 0..n |-> IF m = 0 THEN Start(s) ELSE Step(g, s, k, m, e[m - 1])]
        <4> HIDE DEF e
        <4>1. \A m \in 0..n : (IF m = 0 THEN Start(s) ELSE Step(g, s, k, m, h[m - 1]))
                             = (IF m = 0 THEN Start(s) ELSE Step(g, s, k, m, e[m - 1]))
          BY <3>3
        <4> QED
          BY <4>1, Zenon DEF e
      <3> HIDE DEF e
      <3>5. IsWalks(g, s, k, n, e)
        BY <3>4 DEF IsWalks
      <3> QED
        BY <2>1, <3>5
    <2> QED
      BY <2>1, <2>2, <2>3
  <1> QED
    BY <1>1

\* The walks of select_rule are theirs.
LEMMA WalksUnfold ==
    ASSUME NEW g \in Groups, NEW s, NEW k
    PROVE  IsWalks(g, s, k, Len(GroupRules[g]), Walks(g, s, k))
  <1>1. Len(GroupRules[g]) \in Nat
    BY GroupAssumption
  <1>2. PICK h : IsWalks(g, s, k, Len(GroupRules[g]), h)
    BY <1>1, WalksExist
  <1>3. Walks(g, s, k) = CHOOSE e : IsWalks(g, s, k, Len(GroupRules[g]), e)
    BY Zenon DEF Walks, IsWalks, Step, Start
  <1> QED
    BY <1>2, <1>3

\* A walk over the first n rules: what it allows is enabled, and what it passed over is not.
WalkOK(g, b, n, f, a, q) ==
    /\ SelectionOK(g, f, b, q)
    /\ a \subseteq Members(g) /\ \A r \in a : f.decided[r] = "enabled"
    /\ a = {} /\ q = NoRule => \A m \in 1..n : f.decided[GroupRules[g][m]] = "disabled"
IsWalk(g, b, n, w) ==
    \E f, a, q : WalkOK(g, b, n, f, a, q) /\ w = [flags |-> f, allowed |-> a, rule |-> q]

\* The walk goes on over one more rule of the group.
LEMMA VisitKeepsWalk ==
    ASSUME NEW g \in Groups, NEW s, NEW k, NEW n \in 1..Len(GroupRules[g]),
           NEW w, IsWalk(g, s.bad, n - 1, w), NEW t \in Visit(g, s, k, GroupRules[g][n], w)
    PROVE  IsWalk(g, s.bad, n, t)
  <1> DEFINE r == GroupRules[g][n]
             b == s.bad
  <1>1. r \in Members(g) /\ r # NoRule
    BY GroupAssumption, MembersAreRules DEF Members
  <1>2. PICK f, a, q : WalkOK(g, b, n - 1, f, a, q) /\ w = [flags |-> f, allowed |-> a, rule |-> q]
    BY DEF IsWalk
  <1>3. SelectionOK(g, f, b, q) /\ FlagsOK(f)
    BY <1>2 DEF WalkOK, SelectionOK
  <1>4. CASE q # NoRule \/ r \in b
    <2>1. t = w
      BY <1>2, <1>4 DEF Visit
    <2>2. a = {} /\ q = NoRule => \A m \in 1..n : f.decided[GroupRules[g][m]] = "disabled"
      <3> SUFFICES ASSUME a = {}, q = NoRule, NEW m \in 1..n
                   PROVE  f.decided[GroupRules[g][m]] = "disabled"
        OBVIOUS
      <3>1. CASE m = n
        BY <1>3, <1>4, <3>1 DEF SelectionOK
      <3>2. CASE m # n
        <4>1. m \in 1..(n - 1)
          BY <3>2
        <4> QED
          BY <1>2, <4>1 DEF WalkOK
      <3> QED
        BY <3>1, <3>2
    <2>3. WalkOK(g, b, n, f, a, q)
      BY <1>2, <2>2 DEF WalkOK
    <2> QED
      BY <1>2, <2>1, <2>3 DEF IsWalk
  <1>5. ASSUME q = NoRule, r \notin b PROVE IsWalk(g, b, n, t)
    <2>1. PICK h \in IsEnabled(f, g, r) :
             t = IF h.decided[r] # "enabled" THEN [w EXCEPT !.flags = h]
                 ELSE [flags |-> h, allowed |-> a \cup {r},
                       rule |-> IF Cardinality(a) = k THEN r ELSE NoRule]
      BY <1>2, <1>5 DEF Visit
    <2>2. FlagsOK(h) /\ Refines(f, h) /\ h.decided[r] \in {"enabled", "disabled"}
      BY <1>1, <1>3, AskKeepsFlags
    <2>3. \A c \in Members(g) : f.decided[c] # "undecided" => h.decided[c] = f.decided[c]
      BY <2>2, MembersAreRules DEF Refines
    <2>4. b \subseteq Members(g) /\ \A c \in b : h.decided[c] = "disabled"
      BY <1>3, <2>3 DEF SelectionOK
    <2>5. a \subseteq Members(g) /\ \A c \in a : h.decided[c] = "enabled"
      BY <1>2, <2>3 DEF WalkOK
    <2>6. CASE h.decided[r] # "enabled"
      <3>1. t = [flags |-> h, allowed |-> a, rule |-> q]
        BY <1>2, <2>1, <2>6
      <3>2. SelectionOK(g, h, b, q)
        BY <1>5, <2>2, <2>4 DEF SelectionOK
      <3>3. a = {} => \A m \in 1..n : h.decided[GroupRules[g][m]] = "disabled"
        <4> SUFFICES ASSUME a = {}, NEW m \in 1..n PROVE h.decided[GroupRules[g][m]] = "disabled"
          OBVIOUS
        <4>1. CASE m = n
          BY <2>2, <2>6, <4>1
        <4>2. CASE m # n
          <5>1. m \in 1..(n - 1) /\ GroupRules[g][m] \in Members(g)
            BY <4>2, GroupAssumption DEF Members
          <5>2. f.decided[GroupRules[g][m]] = "disabled"
            BY <1>2, <1>5, <5>1 DEF WalkOK
          <5> QED
            BY <2>3, <5>1, <5>2
        <4> QED
          BY <4>1, <4>2
      <3>4. WalkOK(g, b, n, h, a, q)
        BY <2>5, <3>2, <3>3 DEF WalkOK
      <3> QED
        BY <3>1, <3>4 DEF IsWalk
    <2>7. CASE h.decided[r] = "enabled"
      <3> DEFINE p == IF Cardinality(a) = k THEN r ELSE NoRule
      <3>1. t = [flags |-> h, allowed |-> a \cup {r}, rule |-> p]
        BY <2>1, <2>7
      <3>2. SelectionOK(g, h, b, p)
        BY <1>1, <2>2, <2>4, <2>7 DEF SelectionOK
      <3>3. WalkOK(g, b, n, h, a \cup {r}, p)
        BY <1>1, <2>5, <2>7, <3>2 DEF WalkOK
      <3> QED
        BY <3>1, <3>3 DEF IsWalk
    <2> QED
      BY <2>6, <2>7
  <1> QED
    BY <1>4, <1>5

\* Every walk over the first n rules is one.
LEMMA WalksSound ==
    ASSUME NEW g \in Groups, NEW s, IsSelection(s, g), s.rule = NoRule, NEW k,
           NEW N \in 0..Len(GroupRules[g]), NEW v \in Walks(g, s, k)[N]
    PROVE  IsWalk(g, s.bad, N, v)
  <1> DEFINE len == Len(GroupRules[g])
             walks == Walks(g, s, k)
             T == {n \in 0..len : ~\A w \in walks[n] : IsWalk(g, s.bad, n, w)}
  <1>1. len \in Nat
    BY GroupAssumption
  <1>2. walks = [m \in 0..len |-> IF m = 0 THEN Start(s) ELSE Step(g, s, k, m, walks[m - 1])]
    BY WalksUnfold DEF IsWalks
  <1> HIDE DEF walks
  <1>3. ASSUME T # {} PROVE FALSE
    <2> T \subseteq Nat
      OBVIOUS
    <2> HIDE DEF T
    <2>1. PICK n \in T : \A m \in T : n <= m
      BY <1>3, LeastNumber
    <2> USE DEF T
    <2>2. PICK w \in walks[n] : ~IsWalk(g, s.bad, n, w)
      BY <2>1
    <2>3. walks[n] = IF n = 0 THEN Start(s) ELSE Step(g, s, k, n, walks[n - 1])
      BY <1>2, <2>1, Zenon
    <2>4. CASE n = 0
      <3>1. PICK f, b, q : SelectionOK(g, f, b, q) /\ s = [flags |-> f, bad |-> b, rule |-> q]
        BY DEF IsSelection
      <3>2. w = [flags |-> f, allowed |-> {}, rule |-> NoRule] /\ s.bad = b
        BY <2>2, <2>3, <2>4, <3>1 DEF Start
      <3>3. WalkOK(g, b, 0, f, {}, NoRule)
        BY <3>1 DEF WalkOK, SelectionOK
      <3> QED
        BY <2>2, <2>4, <3>2, <3>3 DEF IsWalk
    <2>5. CASE n # 0
      <3>1. n \in 1..len /\ n - 1 \in 0..len /\ n - 1 \notin T
        BY <1>1, <2>1, <2>5
      <3>2. PICK x \in walks[n - 1] : w \in Visit(g, s, k, GroupRules[g][n], x)
        BY <2>2, <2>3, <2>5 DEF Step
      <3>3. IsWalk(g, s.bad, n - 1, x)
        BY <3>1, <3>2
      <3> QED
        BY <2>2, <3>1, <3>2, <3>3, VisitKeepsWalk
    <2> QED
      BY <2>4, <2>5
  <1> QED
    BY <1>3 DEF walks

\* What a fresh selection hands out.
Handed(g, t) == \E f : \E r \in Members(g) :
    t = [flags |-> f, rule |-> r] /\ FlagsOK(f) /\ f.decided[r] = "enabled"

\* The fallback finds an enabled rule of the group: were every rule disabled, the last of
\* them would have been the group's last candidate and forced on.
LEMMA WalkPicks ==
    ASSUME NEW g \in Groups, NEW s, IsSelection(s, g), s.rule = NoRule, NEW k, NEW t \in Walk(g, s, k)
    PROVE  Handed(g, t)
  <1> DEFINE len == Len(GroupRules[g])
  <1>1. len \in 0..len
    BY GroupAssumption
  <1>2. PICK w \in Walks(g, s, k)[len] :
           \E r \in IF w.allowed = {} \/ w.rule # NoRule THEN {w.rule} ELSE w.allowed :
              t = [flags |-> w.flags, rule |-> r]
    BY Zenon DEF Walk
  <1>3. IsWalk(g, s.bad, len, w)
    BY <1>1, <1>2, WalksSound
  <1>4. PICK f, a, q : WalkOK(g, s.bad, len, f, a, q) /\ w = [flags |-> f, allowed |-> a, rule |-> q]
    BY <1>3 DEF IsWalk
  <1>5. PICK r \in IF a = {} \/ q # NoRule THEN {q} ELSE a : t = [flags |-> f, rule |-> r]
    BY <1>2, <1>4
  <1>6. FlagsOK(f) /\ (q # NoRule => q \in Members(g) /\ f.decided[q] = "enabled")
    BY <1>4 DEF WalkOK, SelectionOK
  <1>7. ASSUME a = {}, q = NoRule PROVE FALSE
    <2>1. \A m \in 1..len : f.decided[GroupRules[g][m]] = "disabled"
      BY <1>4, <1>7 DEF WalkOK
    <2>2. PICK c \in Members(g) : f.decided[c] # "disabled"
      BY <1>6, OneIsLeft
    <2>3. PICK m \in 1..len : c = GroupRules[g][m]
      BY GroupAssumption DEF Members
    <2> QED
      BY <2>1, <2>2, <2>3
  <1>8. r \in Members(g) /\ f.decided[r] = "enabled"
    BY <1>4, <1>5, <1>6, <1>7 DEF WalkOK
  <1> QED
    BY <1>5, <1>6, <1>8 DEF Handed

\* select_rule hands out an enabled rule of the group, and leaves the flags sound.
LEMMA SelectedRule ==
    ASSUME NEW f, FlagsOK(f), NEW g \in Groups, NEW t \in SelectRule(f, g)
    PROVE  Handed(g, t)
  <1> DEFINE TryAll(S) == UNION {Try(g, s) : s \in S}
             fresh == [flags |-> f, bad |-> {}, rule |-> NoRule]
             tried == TryAll(TryAll(TryAll({fresh})))
  <1>1. \A s \in {fresh} : IsSelection(s, g)
    BY DEF IsSelection, SelectionOK
  <1>2. ASSUME NEW S, \A s \in S : IsSelection(s, g)
        PROVE  \A s \in TryAll(S) : IsSelection(s, g)
    BY <1>2, TryKeepsSelection
  <1>3. \A s \in tried : IsSelection(s, g)
    <2> HIDE DEF TryAll, fresh
    <2> QED
      BY <1>1, <1>2
  <1>4. PICK s \in tried : t \in IF s.rule # NoRule
                                 THEN {[flags |-> s.flags, rule |-> s.rule]}
                                 ELSE UNION {Walk(g, s, k) : k \in {0} \cup 1 .. Cardinality(Members(g) \ s.bad) - 1}
    BY Zenon DEF SelectRule
  <1> HIDE DEF tried, TryAll, fresh
  <1>5. CASE s.rule # NoRule
    BY <1>3, <1>4, <1>5 DEF IsSelection, SelectionOK, Handed
  <1>6. CASE s.rule = NoRule
    BY <1>3, <1>4, <1>6, WalkPicks
  <1> QED
    BY <1>5, <1>6

-----------------------------------------------------------------------------
(* The steps.                                                                   *)

Inv == TypeOK /\ RoundSound /\ FlagsSound /\ RulesInGroup /\ CutShortSound

\* Every step keeps the types.
LEMMA StepTypeOK == TypeOK /\ RoundSound /\ FlagsSound /\ [Next]_vars => TypeOK'
  <1> SUFFICES ASSUME TypeOK, RoundSound, FlagsSound, [Next]_vars PROVE TypeOK'
    OBVIOUS
  <1> USE DEF TypeOK, MainPCs, Alone, Events, Results, machineVars, mainVars, Raise, Goto, Report,
          DrawFails
  <1>1. CASE Create
    BY <1>1, BoundAssumption DEF Create
  <1>2. CASE SweepFails
    BY <1>2 DEF SweepFails
  <1>3. CASE InitialSweep
    BY <1>3 DEF InitialSweep
  <1>4. CASE SampledSweep
    BY <1>4 DEF SampledSweep
  <1>5. CASE FinalSweep
    BY <1>5 DEF FinalSweep
  <1>6. CASE NextGroup
    BY <1>6 DEF NextGroup
  <1>7. CASE NoMoreGroups
    BY <1>7 DEF NoMoreGroups
  <1>8. CASE NextGroupFails
    BY <1>8 DEF NextGroupFails
  <1>9. CASE SendRound
    <2>1. at \in Nat /\ at' \in {at + 1, 1} /\ main' \in {"send", "recv"}
      BY <1>9 DEF SendRound
    <2>2. inbox' \in [Workers -> BOOLEAN]
      BY <1>9 DEF SendRound
    <2> QED
      BY <1>9, <2>1, <2>2 DEF SendRound
  <1>10. CASE SendFails
    BY <1>10 DEF SendFails
  <1>11. CASE ReceiveEvent
    BY <1>11 DEF ReceiveEvent
  <1>12. CASE ResolveRound
    BY <1>12 DEF ResolveRound
  <1>13. CASE JoinScope
    BY <1>13 DEF JoinScope
  <1>14. ASSUME NEW w \in Workers, TakeRound(w) PROVE TypeOK'
    BY <1>14 DEF TakeRound
  <1>15. ASSUME NEW w \in Workers, ExitLoop(w) PROVE TypeOK'
    BY <1>15 DEF ExitLoop
  <1>16. ASSUME NEW w \in Workers, PullRule(w) PROVE TypeOK'
    <2>1. currentGroup \in Groups
      BY <1>16 DEF PullRule, RoundSound, Busy
    <2>2. PICK s \in SelectRule(flags[w], currentGroup) :
             IF s.rule = NoRule THEN Report(w, "control") /\ UNCHANGED work
             ELSE /\ rule' = [rule EXCEPT ![w] = s.rule]
                  /\ wpc' = [wpc EXCEPT ![w] = "running"] /\ UNCHANGED event
      BY <1>16 DEF PullRule
    <2>3. s.rule \in Rules \cup {NoRule}
      BY <2>1, SelectedRule DEF FlagsSound, Handed, Rules
    <2>4. /\ event' \in [Workers -> Events] /\ rule' \in [Workers -> Rules \cup {NoRule}]
          /\ wpc' \in [Workers -> {"exited", "parked", "pulling", "running"}]
      BY <2>2, <2>3
    <2> QED
      BY <1>16, <2>4 DEF PullRule
  <1>17. ASSUME NEW w \in Workers, RoundOver(w) PROVE TypeOK'
    BY <1>17 DEF RoundOver
  <1>18. ASSUME NEW w \in Workers, PullFails(w) PROVE TypeOK'
    BY <1>18 DEF PullFails
  <1>19. ASSUME NEW w \in Workers, RuleReturns(w) PROVE TypeOK'
    BY <1>19 DEF RuleReturns
  <1>20. ASSUME NEW w \in Workers, RuleAssumes(w) PROVE TypeOK'
    BY <1>20 DEF RuleAssumes
  <1>21. ASSUME NEW w \in Workers, RuleCut(w) PROVE TypeOK'
    BY <1>21 DEF RuleCut
  <1>22. ASSUME NEW w \in Workers, RuleUnwinds(w) PROVE TypeOK'
    BY <1>22 DEF RuleUnwinds
  <1>23. CASE UNCHANGED vars
    BY <1>23 DEF vars
  <1> QED
    BY <1>1, <1>2, <1>3, <1>4, <1>5, <1>6, <1>7, <1>8, <1>9, <1>10, <1>11, <1>12, <1>13,
       <1>14, <1>15, <1>16, <1>17, <1>18, <1>19, <1>20, <1>21, <1>22, <1>23 DEF Next, MainStep, WorkerStep

\* The workers are numbered from 1.
LEMMA WorkersCounted == Workers \subseteq Nat \ {0}
  <1>1. \E l \in Levels : \A k \in Levels : k <= l
    BY BoundAssumption
  <1>2. (CHOOSE l \in Levels : \A k \in Levels : k <= l) \in Nat
    BY <1>1, BoundAssumption
  <1> QED
    BY <1>2 DEF Workers

\* Every step keeps the workers on the main thread's side of the round.
LEMMA StepRoundSound == TypeOK /\ RoundSound /\ [Next]_vars => RoundSound'
  <1> SUFFICES ASSUME TypeOK, RoundSound, [Next]_vars PROVE RoundSound'
    OBVIOUS
  <1> USE WorkersCounted, BoundAssumption DEF TypeOK, RoundSound, Busy, MainPCs, Alone, Events, machineVars, mainVars,
          Raise, Goto, Report, DrawFails
  <1>1. CASE Create
    <2>1. /\ main = "create" /\ at' = at /\ UNCHANGED <<currentGroup, wpc, event, inbox>>
          /\ \/ main' = "initial" /\ concurrency' \in Levels
             \/ main' = "closing"
      BY <1>1 DEF Create
    <2>2. concurrency' \in Levels => concurrency' > 0
      BY BoundAssumption
    <2> QED
      BY <2>1, <2>2
  <1>2. CASE SweepFails
    BY <1>2 DEF SweepFails
  <1>3. CASE InitialSweep
    BY <1>3 DEF InitialSweep, Present
  <1>4. CASE SampledSweep
    BY <1>4 DEF SampledSweep
  <1>5. CASE FinalSweep
    BY <1>5 DEF FinalSweep
  <1>6. CASE NextGroup
    BY <1>6 DEF NextGroup
  <1>7. CASE NoMoreGroups
    BY <1>7 DEF NoMoreGroups
  <1>8. CASE NextGroupFails
    BY <1>8 DEF NextGroupFails
  <1>9. CASE SendRound
    <2>1. /\ UNCHANGED <<concurrency, currentGroup, wpc, event>> /\ main = "send"
          /\ \A u \in Workers : inbox'[u] <=> inbox[u] \/ u = at
          /\ \/ at < concurrency /\ main' = "send" /\ at' = at + 1
             \/ at >= concurrency /\ main' = "recv" /\ at' = 1
      BY <1>9 DEF SendRound
    <2>2. \A u \in Workers : u = at => wpc[u] = "parked" /\ event'[u] = "none" /\ ~Busy(u)
      BY <2>1
    <2> QED
      BY <2>1, <2>2
  <1>10. CASE SendFails
    BY <1>10 DEF SendFails
  <1>11. CASE ReceiveEvent
    BY <1>11 DEF ReceiveEvent
  <1>12. CASE ResolveRound
    BY <1>12 DEF ResolveRound
  <1>13. CASE JoinScope
    BY <1>13 DEF JoinScope
  <1>14. ASSUME NEW w \in Workers, TakeRound(w) PROVE RoundSound'
    BY <1>14 DEF TakeRound
  <1>15. ASSUME NEW w \in Workers, ExitLoop(w) PROVE RoundSound'
    BY <1>15 DEF ExitLoop
  <1>16. ASSUME NEW w \in Workers, PullRule(w) PROVE RoundSound'
    <2>1. /\ UNCHANGED <<concurrency, currentGroup, main, at, inbox>> /\ wpc[w] = "pulling"
          /\ \A u \in Workers : u # w => event'[u] = event[u] /\ wpc'[u] = wpc[u]
          /\ \/ event'[w] = "control" /\ wpc'[w] = "parked"
             \/ event' = event /\ wpc'[w] = "running"
      BY <1>16 DEF PullRule
    <2> QED
      BY <2>1
  <1>17. ASSUME NEW w \in Workers, RoundOver(w) PROVE RoundSound'
    <2>1. PICK e \in Events : Report(w, e)
      BY <1>17 DEF RoundOver
    <2>2. /\ event'[w] = e /\ wpc'[w] = "parked"
          /\ \A u \in Workers : u # w => event'[u] = event[u] /\ wpc'[u] = wpc[u]
      BY <2>1
    <2>3. UNCHANGED <<concurrency, currentGroup, main, at, inbox>> /\ wpc[w] \in {"pulling", "running"}
      BY <1>17 DEF RoundOver
    <2> QED
      BY <2>2, <2>3
  <1>18. ASSUME NEW w \in Workers, PullFails(w) PROVE RoundSound'
    <2>1. PICK e \in Events : Report(w, e)
      BY <1>18 DEF PullFails
    <2>2. /\ event'[w] = e /\ wpc'[w] = "parked"
          /\ \A u \in Workers : u # w => event'[u] = event[u] /\ wpc'[u] = wpc[u]
      BY <2>1
    <2>3. UNCHANGED <<concurrency, currentGroup, main, at, inbox>> /\ wpc[w] \in {"pulling", "running"}
      BY <1>18 DEF PullFails
    <2> QED
      BY <2>2, <2>3
  <1>19. ASSUME NEW w \in Workers, RuleReturns(w) PROVE RoundSound'
    BY <1>19 DEF RuleReturns
  <1>20. ASSUME NEW w \in Workers, RuleAssumes(w) PROVE RoundSound'
    BY <1>20 DEF RuleAssumes
  <1>21. ASSUME NEW w \in Workers, RuleCut(w) PROVE RoundSound'
    <2>1. PICK e \in Events : Report(w, e)
      BY <1>21 DEF RuleCut
    <2>2. /\ event'[w] = e /\ wpc'[w] = "parked"
          /\ \A u \in Workers : u # w => event'[u] = event[u] /\ wpc'[u] = wpc[u]
      BY <2>1
    <2>3. UNCHANGED <<concurrency, currentGroup, main, at, inbox>> /\ wpc[w] \in {"pulling", "running"}
      BY <1>21 DEF RuleCut
    <2> QED
      BY <2>2, <2>3
  <1>22. ASSUME NEW w \in Workers, RuleUnwinds(w) PROVE RoundSound'
    <2>1. PICK e \in Events : Report(w, e)
      BY <1>22 DEF RuleUnwinds
    <2>2. /\ event'[w] = e /\ wpc'[w] = "parked"
          /\ \A u \in Workers : u # w => event'[u] = event[u] /\ wpc'[u] = wpc[u]
      BY <2>1
    <2>3. UNCHANGED <<concurrency, currentGroup, main, at, inbox>> /\ wpc[w] \in {"pulling", "running"}
      BY <1>22 DEF RuleUnwinds
    <2> QED
      BY <2>2, <2>3
  <1>23. CASE UNCHANGED vars
    BY <1>23 DEF vars
  <1> QED
    BY <1>1, <1>2, <1>3, <1>4, <1>5, <1>6, <1>7, <1>8, <1>9, <1>10, <1>11, <1>12, <1>13,
       <1>14, <1>15, <1>16, <1>17, <1>18, <1>19, <1>20, <1>21, <1>22, <1>23 DEF Next, MainStep, WorkerStep

\* Every step keeps the rules that run within the group of the round.
LEMMA StepRulesInGroup == TypeOK /\ RoundSound /\ FlagsSound /\ RulesInGroup /\ [Next]_vars => RulesInGroup'
  <1> SUFFICES ASSUME TypeOK, RoundSound, FlagsSound, RulesInGroup, [Next]_vars PROVE RulesInGroup'
    OBVIOUS
  <1> USE DEF TypeOK, RulesInGroup, machineVars, mainVars, Raise, Goto, Report
  <1>1. CASE Create
    BY <1>1 DEF Create
  <1>2. CASE SweepFails
    BY <1>2 DEF SweepFails
  <1>3. CASE InitialSweep
    <2>1. \A w \in Workers : rule[w] = NoRule
      BY <1>3 DEF InitialSweep, RoundSound
    <2> QED
      BY <1>3, <2>1 DEF InitialSweep
  <1>4. CASE SampledSweep
    BY <1>4 DEF SampledSweep
  <1>5. CASE FinalSweep
    BY <1>5 DEF FinalSweep
  <1>6. CASE NextGroup
    <2>1. \A w \in Workers : rule[w] = NoRule
      BY <1>6 DEF NextGroup, RoundSound, Busy, Alone
    <2> QED
      BY <1>6, <2>1 DEF NextGroup
  <1>7. CASE NoMoreGroups
    BY <1>7 DEF NoMoreGroups
  <1>8. CASE NextGroupFails
    BY <1>8 DEF NextGroupFails
  <1>9. CASE SendRound
    BY <1>9 DEF SendRound
  <1>10. CASE SendFails
    BY <1>10 DEF SendFails
  <1>11. CASE ReceiveEvent
    BY <1>11 DEF ReceiveEvent
  <1>12. CASE ResolveRound
    BY <1>12 DEF ResolveRound
  <1>13. CASE JoinScope
    BY <1>13 DEF JoinScope
  <1>14. ASSUME NEW w \in Workers, TakeRound(w) PROVE RulesInGroup'
    BY <1>14 DEF TakeRound
  <1>15. ASSUME NEW w \in Workers, ExitLoop(w) PROVE RulesInGroup'
    BY <1>15 DEF ExitLoop
  <1>16. ASSUME NEW w \in Workers, PullRule(w) PROVE RulesInGroup'
    <2>1. currentGroup \in Groups /\ rule[w] = NoRule
      BY <1>16 DEF PullRule, RoundSound, Busy, MainPCs, Alone
    <2>2. PICK s \in SelectRule(flags[w], currentGroup) :
             IF s.rule = NoRule THEN Report(w, "control") /\ UNCHANGED work
             ELSE /\ rule' = [rule EXCEPT ![w] = s.rule]
                  /\ wpc' = [wpc EXCEPT ![w] = "running"] /\ UNCHANGED event
      BY <1>16 DEF PullRule
    <2>3. s.rule \in Members(currentGroup) \cup {NoRule}
      BY <2>1, SelectedRule DEF FlagsSound, Handed
    <2> QED
      BY <1>16, <2>2, <2>3 DEF PullRule
  <1>17. ASSUME NEW w \in Workers, RoundOver(w) PROVE RulesInGroup'
    BY <1>17 DEF RoundOver
  <1>18. ASSUME NEW w \in Workers, PullFails(w) PROVE RulesInGroup'
    BY <1>18 DEF PullFails
  <1>19. ASSUME NEW w \in Workers, RuleReturns(w) PROVE RulesInGroup'
    BY <1>19 DEF RuleReturns
  <1>20. ASSUME NEW w \in Workers, RuleAssumes(w) PROVE RulesInGroup'
    BY <1>20 DEF RuleAssumes
  <1>21. ASSUME NEW w \in Workers, RuleCut(w) PROVE RulesInGroup'
    BY <1>21 DEF RuleCut
  <1>22. ASSUME NEW w \in Workers, RuleUnwinds(w) PROVE RulesInGroup'
    BY <1>22 DEF RuleUnwinds
  <1>23. CASE UNCHANGED vars
    BY <1>23 DEF vars
  <1> QED
    BY <1>1, <1>2, <1>3, <1>4, <1>5, <1>6, <1>7, <1>8, <1>9, <1>10, <1>11, <1>12, <1>13,
       <1>14, <1>15, <1>16, <1>17, <1>18, <1>19, <1>20, <1>21, <1>22, <1>23 DEF Next, MainStep, WorkerStep

\* Every step keeps the flags sound: only a rule handed out changes them.
LEMMA StepFlagsSound == TypeOK /\ RoundSound /\ FlagsSound /\ [Next]_vars => FlagsSound'
  <1> SUFFICES ASSUME TypeOK, RoundSound, FlagsSound, [Next]_vars PROVE FlagsSound'
    OBVIOUS
  <1>1. ASSUME NEW w \in Workers, PullRule(w) PROVE FlagsSound'
    <2>1. currentGroup \in Groups
      BY <1>1 DEF PullRule, RoundSound, TypeOK, Busy, MainPCs, Alone
    <2>2. PICK s \in SelectRule(flags[w], currentGroup) : flags' = [flags EXCEPT ![w] = s.flags]
      BY <1>1 DEF PullRule
    <2>3. FlagsOK(s.flags)
      BY <1>1, <2>1, SelectedRule DEF FlagsSound, Handed
    <2> QED
      BY <2>2, <2>3 DEF FlagsSound
  <1>2. ASSUME UNCHANGED flags PROVE FlagsSound'
    BY <1>2 DEF FlagsSound
  <1>3. CASE MainStep
    BY <1>2, <1>3 DEF MainStep, Create, SweepFails, InitialSweep, SampledSweep, FinalSweep, NextGroup,
       NoMoreGroups, NextGroupFails, SendRound, SendFails, ReceiveEvent, ResolveRound, JoinScope, machineVars
  <1>4. ASSUME NEW w \in Workers, WorkerStep(w) PROVE FlagsSound'
    BY <1>1, <1>2, <1>4 DEF WorkerStep, TakeRound, ExitLoop, RoundOver, PullFails, RuleReturns,
       RuleAssumes, RuleCut, RuleUnwinds, machineVars
  <1>5. CASE UNCHANGED vars
    BY <1>2, <1>5 DEF vars, machineVars
  <1> QED
    BY <1>3, <1>4, <1>5 DEF Next

\* Every step keeps a witness of the conclusion that cut a rule short.
LEMMA StepCutShort == TypeOK /\ RoundSound /\ CutShortSound /\ [Next]_vars => CutShortSound'
  <1> SUFFICES ASSUME TypeOK, RoundSound, CutShortSound, [Next]_vars PROVE CutShortSound'
    OBVIOUS
  <1> USE DEF TypeOK, CutShortSound, Told, machineVars, mainVars, Raise, Goto, Report, DrawFails
  <1>1. CASE Create
    BY <1>1 DEF Create
  <1>2. CASE SweepFails
    BY <1>2 DEF SweepFails
  <1>3. CASE InitialSweep
    BY <1>3 DEF InitialSweep
  <1>4. CASE SampledSweep
    BY <1>4 DEF SampledSweep
  <1>5. CASE FinalSweep
    BY <1>5 DEF FinalSweep, RoundSound, Alone
  <1>6. CASE NextGroup
    BY <1>6 DEF NextGroup
  <1>7. CASE NoMoreGroups
    BY <1>7 DEF NoMoreGroups
  <1>8. CASE NextGroupFails
    BY <1>8 DEF NextGroupFails
  <1>9. CASE SendRound
    BY <1>9 DEF SendRound
  <1>10. CASE SendFails
    BY <1>10 DEF SendFails
  <1>11. CASE ReceiveEvent
    BY <1>11 DEF ReceiveEvent
  <1>12. CASE ResolveRound
    <2> DEFINE seen == {event[w] : w \in Present}
    <2>1. /\ main = "resolve" /\ at = 1 /\ UNCHANGED <<abandoned, concluded, at>>
          /\ main' \in {"closing", "sampled"}
          /\ result' = result \/ (main' = "closing" /\ result' # "ok")
          /\ result' = "panic" /\ result # "panic" =>
                "panic" \in seen /\ seen \cap {"overrun", "invalid"} = {}
      BY <1>12 DEF ResolveRound, RoundSound, Alone
    <2>2. ASSUME result' = "panic", abandoned PROVE FALSE
      <3>1. "panic" \in seen /\ seen \cap {"overrun", "invalid"} = {}
        BY <2>1, <2>2
      <3>2. PICK w \in Workers : Told(w)
        BY <2>1, <2>2
      <3>3. w \in Present /\ wpc[w] # "pulling"
        BY <2>1, <3>2, WorkersCounted DEF RoundSound, Busy, Alone, Present
      <3>4. concurrency = 1 /\ event[w] = "done"
        BY <3>1, <3>2, <3>3
      <3>5. seen = {"done"}
        BY <3>3, <3>4 DEF Present
      <3> QED
        BY <3>1, <3>5
    <2> QED
      BY <2>1, <2>2
  <1>13. CASE JoinScope
    BY <1>13 DEF JoinScope
  <1>14. ASSUME NEW w \in Workers, TakeRound(w) PROVE CutShortSound'
    BY <1>14 DEF TakeRound
  <1>15. ASSUME NEW w \in Workers, ExitLoop(w) PROVE CutShortSound'
    BY <1>15 DEF ExitLoop
  <1>16. ASSUME NEW w \in Workers, PullRule(w) PROVE CutShortSound'
    BY <1>16 DEF PullRule
  <1>17. ASSUME NEW w \in Workers, RoundOver(w) PROVE CutShortSound'
    BY <1>17 DEF RoundOver
  <1>18. ASSUME NEW w \in Workers, PullFails(w) PROVE CutShortSound'
    BY <1>18 DEF PullFails
  <1>19. ASSUME NEW w \in Workers, RuleReturns(w) PROVE CutShortSound'
    BY <1>19 DEF RuleReturns
  <1>20. ASSUME NEW w \in Workers, RuleAssumes(w) PROVE CutShortSound'
    <2>1. ~(main = "closing" /\ at = 1) /\ main \notin Alone /\ w <= concurrency
      BY <1>20 DEF RuleAssumes, RoundSound, Busy
    <2>2. wpc'[w] = "pulling" /\ \A u \in Workers : u # w => wpc'[u] = wpc[u]
      BY <1>20 DEF RuleAssumes
    <2>3. abandoned' => concluded' # "no"
      BY <1>20 DEF RuleAssumes
    <2>4. UNCHANGED <<concurrency, main, at, result, event>>
      BY <1>20 DEF RuleAssumes
    <2>5. Told(w)'
      BY <2>1, <2>2, <2>4
    <2> QED
      BY <2>1, <2>3, <2>4, <2>5 DEF Alone
  <1>21. ASSUME NEW w \in Workers, RuleCut(w) PROVE CutShortSound'
    <2>1. ~(main = "closing" /\ at = 1) /\ main \notin Alone /\ w <= concurrency
      BY <1>21 DEF RuleCut, RoundSound, Busy
    <2>2. event'[w] \in {"overrun", "invalid"} /\ wpc'[w] = "parked" /\ concluded' # "no"
      BY <1>21 DEF RuleCut
    <2> QED
      BY <1>21, <2>1, <2>2 DEF RuleCut, Alone
  <1>22. ASSUME NEW w \in Workers, RuleUnwinds(w) PROVE CutShortSound'
    BY <1>22 DEF RuleUnwinds
  <1>23. CASE UNCHANGED vars
    BY <1>23 DEF vars
  <1> QED
    BY <1>1, <1>2, <1>3, <1>4, <1>5, <1>6, <1>7, <1>8, <1>9, <1>10, <1>11, <1>12, <1>13,
       <1>14, <1>15, <1>16, <1>17, <1>18, <1>19, <1>20, <1>21, <1>22, <1>23 DEF Next, MainStep, WorkerStep

\* Every case starts with the machine not created and all workers away.
LEMMA InitInv == Init => Inv
  <1> SUFFICES ASSUME Init PROVE Inv
    OBVIOUS
  <1>1. TypeOK
    <2>1. /\ wpc \in [Workers -> {"exited", "parked", "pulling", "running"}]
          /\ event \in [Workers -> Events] /\ inbox \in [Workers -> BOOLEAN]
          /\ rule \in [Workers -> Rules \cup {NoRule}]
      BY DEF Init, Events
    <2>2. main \in MainPCs /\ result \in Results
      BY DEF Init, MainPCs, Alone, Results
    <2>3. /\ concurrency \in Nat /\ at \in Nat \ {0} /\ currentGroup \in Groups \cup {NoGroup}
      BY DEF Init
    <2>4. concluded \in {"no", "overrun", "invalid"} /\ abandoned \in BOOLEAN
      BY DEF Init
    <2> QED
      BY <2>1, <2>2, <2>3, <2>4 DEF TypeOK
  <1>2. RoundSound
    BY DEF Init, RoundSound, Busy, Alone
  <1>3. RulesInGroup /\ CutShortSound
    BY DEF Init, RulesInGroup, CutShortSound
  <1>4. FlagsOK(FreshFlags)
    <2>1. FreshFlags.candidates = [g \in Groups |-> Members(g)]
          /\ FreshFlags.decided = [r \in Rules |-> "undecided"]
      BY DEF FreshFlags
    <2>2. ASSUME NEW g \in Groups PROVE Members(g) # {}
      <3>1. GroupRules[g] \in Seq(Rules) /\ GroupRules[g] # <<>>
        BY GroupAssumption
      <3>2. 1 \in DOMAIN GroupRules[g]
        BY <3>1
      <3> QED
        BY <3>2 DEF Members
    <2>3. FreshFlags \in [decided : [Rules -> {"undecided", "enabled", "disabled"}],
                          candidates : [Groups -> SUBSET Rules]]
      BY MembersAreRules DEF FreshFlags
    <2> QED
      BY <2>1, <2>2, <2>3, MembersAreRules DEF FlagsOK
  <1>5. FlagsSound
    BY <1>4 DEF Init, FlagsSound
  <1> QED
    BY <1>1, <1>2, <1>3, <1>5 DEF Inv

\* The four parts together are inductive over every step of run_concurrent and the engine.
LEMMA Invariance == Spec => []Inv
  <1>1. Inv /\ [Next]_vars => Inv'
    BY StepTypeOK, StepRoundSound, StepFlagsSound, StepRulesInGroup, StepCutShort DEF Inv
  <1> QED
    BY <1>1, InitInv, PTL DEF Spec

\* The variables keep their types.
THEOREM TypeCorrect == Spec => []TypeOK
  BY Invariance, PTL DEF Inv

\* A case in which the family's conclusion cut a rule short ends neither as a success nor,
\* for what that rule's threads did next, as a panic (resolve_round).
THEOREM CutShortTold == Spec => []CutShortIsNoVerdict
  <1>1. Inv => CutShortIsNoVerdict
    BY DEF Inv, CutShortSound, CutShortIsNoVerdict
  <1> QED
    BY <1>1, Invariance, PTL

\* Every worker keeps a rule of every group it may run, and select_rule always finds one
\* that is enabled, so that its internal assertion never fails (FeatureFlags::is_enabled).
THEOREM RuleAlwaysLeft == Spec => []SomeRuleEnabled
  <1>1. Inv => SomeRuleEnabled
    <2> SUFFICES ASSUME Inv, NEW w \in Workers, NEW g \in Groups
                 PROVE  /\ \E r \in Members(g) : flags[w].decided[r] # "disabled"
                        /\ \A s \in SelectRule(flags[w], g) :
                              s.rule \in Members(g) /\ s.flags.decided[s.rule] = "enabled"
      BY DEF SomeRuleEnabled
    <2>1. FlagsOK(flags[w])
      BY DEF Inv, FlagsSound
    <2>2. ASSUME NEW s \in SelectRule(flags[w], g)
          PROVE  s.rule \in Members(g) /\ s.flags.decided[s.rule] = "enabled"
      BY <2>1, SelectedRule DEF Handed
    <2> QED
      BY <2>1, <2>2, OneIsLeft
  <1> QED
    BY <1>1, Invariance, PTL

-----------------------------------------------------------------------------
(* The rounds.                                                                  *)

current == IF InRound THEN currentGroup ELSE NoGroup
GroupOf(r) == IF r = NoRule THEN NoGroup ELSE CHOOSE g \in Groups : r \in Members(g)
active == [w \in Workers |-> GroupOf(rule[w])]

\* A worker that has a rule is in a round, and its rule tells the round's group.
ActiveSound ==
    \A w \in Workers :
        /\ rule[w] = NoRule => active[w] = NoGroup
        /\ rule[w] # NoRule => /\ InRound /\ currentGroup \in Groups
                              /\ active[w] = currentGroup /\ active[w] # NoGroup

\* A worker with a rule is active in the round's group, any other in none.
LEMMA ActiveIsCurrent == Inv => ActiveSound
  <1> SUFFICES ASSUME Inv, NEW w \in Workers
               PROVE  /\ rule[w] = NoRule => active[w] = NoGroup
                      /\ rule[w] # NoRule => /\ InRound /\ currentGroup \in Groups
                                            /\ active[w] = currentGroup /\ active[w] # NoGroup
    BY DEF ActiveSound
  <1>1. CASE rule[w] = NoRule
    BY <1>1 DEF active, GroupOf
  <1>2. CASE rule[w] # NoRule
    <2>1. Busy(w) /\ rule[w] \in Members(currentGroup)
      BY <1>2 DEF Inv, RulesInGroup, Busy
    <2>2. InRound /\ currentGroup \in Groups
      BY <2>1 DEF Inv, RoundSound, TypeOK, MainPCs, Alone, InRound
    <2>3. \A g \in Groups : rule[w] \in Members(g) => g = currentGroup
      BY <2>1, <2>2, GroupAssumption
    <2>4. (CHOOSE g \in Groups : rule[w] \in Members(g)) = currentGroup
      BY <2>1, <2>2, <2>3
    <2> QED
      BY <1>2, <2>2, <2>4, GroupAssumption DEF active, GroupOf
  <1> QED
    BY <1>1, <1>2

\* Between the rounds no worker has a rule.
BetweenRounds == main \in Alone \/ (main = "closing" /\ at = 1)
AllIdle == active = Barrier!Nobody

\* While the main thread is outside of a round (before SendRound, after the last event)
\* no worker is active.
LEMMA AloneBetweenRounds == Inv /\ BetweenRounds => AllIdle
  <1> SUFFICES ASSUME Inv, BetweenRounds PROVE AllIdle
    OBVIOUS
  <1>1. \A w \in Workers : rule[w] = NoRule
    BY DEF Inv, RoundSound, RulesInGroup, Busy, BetweenRounds
  <1> QED
    BY <1>1 DEF active, GroupOf, AllIdle, Barrier!Nobody

\* The same of the state a step leads to.
LEMMA AloneAfter == Inv' /\ BetweenRounds' => AllIdle'
  BY AloneBetweenRounds, PTL

LEMMA ActiveAfter == Inv' => ActiveSound'
  BY ActiveIsCurrent, PTL

\* A step that leaves the round and the rules alone.
LEMMA SilentStep ==
    UNCHANGED <<current, active>> => [Barrier!Next]_(Barrier!vars)
  BY DEF current, active, GroupOf, Barrier!vars

\* A step of a worker that takes its rule away.
LEMMA RuleDropped ==
    ASSUME Inv, NEW w \in Workers, rule[w] # NoRule, rule' = [rule EXCEPT ![w] = NoRule],
           UNCHANGED <<main, at, currentGroup>>
    PROVE  Barrier!Next
  <1>1. rule'[w] = NoRule /\ \A u \in Workers : u # w => rule'[u] = rule[u]
    BY DEF Inv, TypeOK
  <1>2. active' = [active EXCEPT ![w] = NoGroup]
    <2>1. GroupOf(NoRule) = NoGroup
      BY DEF GroupOf
    <2>2. active' = [u \in Workers |-> IF u = w THEN NoGroup ELSE active[u]]
      BY <1>1, <2>1 DEF active
    <2> QED
      BY <2>2 DEF active
  <1>4. current' = current
    BY DEF current, InRound
  <1>3. active[w] # NoGroup
    BY ActiveIsCurrent DEF ActiveSound
  <1> QED
    BY <1>2, <1>3, <1>4 DEF Barrier!Next, Barrier!Finish, current, active, GroupOf

\* The abstract state before and after a step of the main thread: no rule changes hands.
LEMMA RuleKept == ASSUME UNCHANGED rule PROVE active' = active
  BY DEF active

\* Every step is a step of the rounds, or leaves them alone: a round begins and ends with
\* no rule running, and in between rules of its group alone start and finish.
LEMMA StepImplementsRounds == Inv /\ Inv' /\ [Next]_vars => [Barrier!Next]_(Barrier!vars)
  <1> SUFFICES ASSUME Inv, Inv', [Next]_vars PROVE [Barrier!Next]_(Barrier!vars)
    OBVIOUS
  <1> USE DEF machineVars, mainVars, Raise, Goto, Report
  <1>1. ASSUME UNCHANGED <<rule, currentGroup>>, InRound <=> InRound'
        PROVE  [Barrier!Next]_(Barrier!vars)
    <2>1. current' = current
      BY <1>1 DEF current
    <2> QED
      BY <1>1, <2>1, RuleKept, SilentStep
  <1>2. CASE Create \/ SweepFails \/ InitialSweep \/ SampledSweep \/ FinalSweep
    BY <1>1, <1>2 DEF Create, SweepFails, InitialSweep, SampledSweep, FinalSweep, InRound,
       Inv, RoundSound, Alone
  <1>3. CASE NoMoreGroups \/ NextGroupFails \/ SendRound
    BY <1>1, <1>3 DEF NoMoreGroups, NextGroupFails, SendRound, InRound, Inv, RoundSound, Alone
  <1>4. CASE NextGroup
    <2>1. current = NoGroup /\ current' \in Groups
      BY <1>4 DEF NextGroup, current, InRound
    <2>2. active' = active
      BY <1>4, RuleKept DEF NextGroup
    <2> QED
      BY <2>1, <2>2 DEF Barrier!Next, Barrier!Begin, current, active, GroupOf
  <1>5. ASSUME UNCHANGED rule, InRound, ~InRound', AllIdle
        PROVE  [Barrier!Next]_(Barrier!vars)
    <2>1. current = NoGroup \/ (current # NoGroup /\ current' = NoGroup)
      BY <1>5 DEF current
    <2>2. current' = NoGroup
      BY <1>5 DEF current
    <2> QED
      BY <1>5, <2>1, <2>2, RuleKept
         DEF Barrier!Next, Barrier!Join, Barrier!vars, AllIdle, Barrier!Nobody, current, active,
             GroupOf
  <1>6. CASE SendFails
    <2>1. InRound /\ UNCHANGED <<rule, currentGroup, at>> /\ main' = "closing"
      BY <1>6 DEF SendFails, InRound
    <2>2. CASE at > 1
      BY <1>1, <2>1, <2>2 DEF InRound
    <2>3. CASE ~(at > 1)
      <3>1. ~InRound' /\ at' = 1 /\ main' = "closing"
        BY <2>1, <2>3 DEF InRound, Inv, TypeOK
      <3>2. AllIdle'
        BY <3>1, AloneAfter DEF BetweenRounds
      <3> QED
        BY <1>5, <2>1, <3>1, <3>2, RuleKept DEF AllIdle, Barrier!Nobody
    <2> QED
      BY <2>2, <2>3
  <1>7. CASE ReceiveEvent
    <2>1. InRound /\ UNCHANGED <<rule, currentGroup>> /\ main' \in {"recv", "resolve"}
      BY <1>7 DEF ReceiveEvent, InRound
    <2>2. CASE main' = "recv"
      BY <1>1, <2>1, <2>2 DEF InRound
    <2>3. CASE main' = "resolve"
      <3>1. AllIdle'
        BY <2>3, AloneAfter DEF Alone, BetweenRounds
      <3> QED
        BY <1>5, <2>1, <2>3, <3>1, RuleKept DEF AllIdle, Barrier!Nobody, InRound
    <2> QED
      BY <2>1, <2>2, <2>3
  <1>8. CASE ResolveRound
    BY <1>1, <1>8 DEF ResolveRound, InRound, Inv, RoundSound, Alone
  <1>9. CASE JoinScope
    <2>1. UNCHANGED <<rule, currentGroup>> /\ main' = "ended"
      BY <1>9 DEF JoinScope
    <2>2. CASE InRound
      <3>1. AllIdle'
        BY <2>1, AloneAfter DEF Alone, BetweenRounds
      <3> QED
        BY <1>5, <2>1, <2>2, <3>1, RuleKept DEF AllIdle, Barrier!Nobody, InRound
    <2>3. CASE ~InRound
      BY <1>1, <2>1, <2>3 DEF InRound
    <2> QED
      BY <2>2, <2>3
  <1>10. ASSUME NEW w \in Workers,
                TakeRound(w) \/ ExitLoop(w) \/ RoundOver(w) \/ PullFails(w) \/ PullRule(w)
         PROVE  [Barrier!Next]_(Barrier!vars)
    <2>1. UNCHANGED <<currentGroup, main, at>>
      BY <1>10 DEF TakeRound, ExitLoop, RoundOver, PullFails, PullRule
    <2>2. rule[w] = NoRule /\ \A u \in Workers : u # w => rule'[u] = rule[u]
      BY <1>10 DEF TakeRound, ExitLoop, RoundOver, PullFails, PullRule, Inv, RulesInGroup, TypeOK
    <2>3. current' = current
      BY <2>1 DEF current, InRound
    <2>4. CASE rule'[w] = NoRule
      <3>1. active' = active
        BY <2>2, <2>4 DEF active
      <3> QED
        BY <2>3, <3>1, SilentStep
    <2>5. CASE rule'[w] # NoRule
      <3>1. InRound /\ currentGroup \in Groups
        BY <2>1, <2>5, ActiveAfter DEF InRound, ActiveSound
      <3>2. active'[w] = currentGroup /\ \A u \in Workers : u # w => active'[u] = active[u]
        BY <2>1, <2>2, <2>5, ActiveAfter DEF active, ActiveSound
      <3>3. active[w] = NoGroup /\ active' = [active EXCEPT ![w] = currentGroup]
        <4>1. GroupOf(NoRule) = NoGroup
          BY DEF GroupOf
        <4> QED
          BY <2>2, <3>2, <4>1 DEF active
      <3>4. current = currentGroup /\ current # NoGroup
        BY <3>1, GroupAssumption DEF current
      <3> QED
        BY <2>3, <3>3, <3>4 DEF Barrier!Next, Barrier!Start, current, active, GroupOf
    <2> QED
      BY <2>4, <2>5
  <1>11. ASSUME NEW w \in Workers,
                RuleReturns(w) \/ RuleAssumes(w) \/ RuleCut(w) \/ RuleUnwinds(w)
         PROVE  [Barrier!Next]_(Barrier!vars)
    <2>1. /\ rule[w] # NoRule /\ rule' = [rule EXCEPT ![w] = NoRule]
          /\ UNCHANGED <<main, at, currentGroup>>
      BY <1>11 DEF RuleReturns, RuleAssumes, RuleCut, RuleUnwinds, Inv, RulesInGroup
    <2> QED
      BY <2>1, RuleDropped
  <1>12. CASE UNCHANGED vars
    BY <1>1, <1>12 DEF vars, InRound
  <1> QED
    BY <1>2, <1>3, <1>4, <1>6, <1>7, <1>8, <1>9, <1>10, <1>11, <1>12
       DEF Next, MainStep, WorkerStep

\* A case starts outside any round.
LEMMA InitImplementsRounds == Init => Barrier!Init
  BY DEF Init, Barrier!Init, Barrier!Nobody, InRound

\* A concurrent stateful case goes through the rounds of RoundBarrier: rules of different
\* groups never overlap, and the main thread is alone with the model between two rounds.
THEOREM RoundsImplemented == Spec => ImplementsRounds
  BY Invariance, InitImplementsRounds, StepImplementsRounds, PTL
     DEF Spec, ImplementsRounds, Barrier!Spec

-----------------------------------------------------------------------------
(* The variable pools (VariablePool).                                              *)

Draws == [kind : {"fresh", "choice"}, value : Nat, hi : Int]
PoolCalls == [pool : Pools \cup {Nobody}, add : BOOLEAN, consume : BOOLEAN, active : SUBSET Nat,
              hi : Int, fallback : Nat, id : Nat \cup {NoId}]

StreamsOK ==
    /\ prefix \in [Threads -> Seq(Nat)] /\ nodes \in [Threads -> Seq(Draws)]
    /\ fresh_ids \subseteq Nat /\ registry_lock \in Threads \cup {Nobody}
    /\ \E n \in Nat : fresh_ids \subseteq 0 .. n

PoolsOK ==
    /\ variables \in [Pools -> Seq(Nat)]
    /\ removed \in [Pools -> SUBSET fresh_ids] /\ values \in [Pools -> SUBSET fresh_ids]
    /\ added \in [Pools -> SUBSET fresh_ids] /\ consumed \in [Pools -> SUBSET fresh_ids]
    /\ pool_lock \in [Pools -> Threads \cup {Nobody}]
    /\ values_lock \in [Pools -> Threads \cup {Nobody}]

ThreadsOK ==
    /\ pc \in [Threads -> {"idle", "add", "fresh", "choose", "chosen", "back"}]
    /\ pool_call \in [Threads -> PoolCalls]

PoolTypeOK == StreamsOK /\ PoolsOK /\ ThreadsOK

\* A call holds the client's map from beginning to end, the engine's pool until the engine
\* answers, and the registry over the draw of a fresh identifier; what it has read under a
\* lock it still holds is not stale.
CallSound(t) ==
    LET c == pool_call[t] IN
    /\ pc[t] # "idle" => c.pool \in Pools /\ values_lock[c.pool] = t
    /\ pc[t] \in {"add", "fresh", "choose", "chosen"} => pool_lock[c.pool] = t
    /\ pc[t] \in {"add", "fresh"} => c.add
    /\ pc[t] \in {"choose", "chosen"} => ~c.add /\ c.active = Active(c.pool)
    /\ pc[t] = "chosen" => c.active # {}
    /\ pc[t] \notin {"idle", "back"} => c.id = NoId
    /\ c.add => ~c.consume
    /\ pc[t] = "fresh" => /\ registry_lock = t
                          /\ c.hi = Largest(fresh_ids) + 2
                          /\ c.fallback = SmallestUnused(fresh_ids)

CallsSound == \A t \in Threads : CallSound(t)

\* The engine has answered with an identifier and the client's map does not know yet.
Answered(t, p) == pc[t] = "back" /\ pool_call[t].pool = p /\ pool_call[t].id # NoId

\* The client's map holds the pool's variables, but for the answer under way.
MapAt(p) ==
    /\ (\A t \in Threads : ~Answered(t, p)) => values[p] = Active(p)
    /\ \A t \in Threads : Answered(t, p) =>
          LET id == pool_call[t].id IN
          IF pool_call[t].add THEN id \in Active(p) /\ values[p] = Active(p) \ {id}
          ELSE IF pool_call[t].consume
          THEN id \notin Active(p) /\ values[p] = Active(p) \cup {id}
          ELSE id \in Active(p) /\ values[p] = Active(p)

MapSound == \A p \in Pools : MapAt(p)

\* The registry holds the identifiers drawn, and each was drawn once.
RegistrySound ==
    /\ \A t \in Threads : \A i \in DOMAIN nodes[t] :
          nodes[t][i].kind = "fresh" => nodes[t][i].value \in fresh_ids
    /\ \A x \in fresh_ids : \E t \in Threads : \E i \in DOMAIN nodes[t] :
          nodes[t][i].kind = "fresh" /\ nodes[t][i].value = x
    /\ \A t, u \in Threads : \A i \in DOMAIN nodes[t], j \in DOMAIN nodes[u] :
          /\ nodes[t][i].kind = "fresh" /\ nodes[u][j].kind = "fresh"
          /\ nodes[t][i].value = nodes[u][j].value
          => t = u /\ i = j

PoolInv == PoolTypeOK /\ CallsSound /\ ActiveExact /\ MapSound /\ RegistrySound /\ StableUnderDeletion

-----------------------------------------------------------------------------
(* Least and greatest numbers, and sequences.                                   *)

\* A set of natural numbers has a least one.
LEMMA LeastExists ==
    ASSUME NEW S, S \subseteq Nat, S # {}
    PROVE  \E m \in S : \A k \in S : m <= k
  <1>1. \E x \in S : \A y \in S : ~(<<y, x>> \in OpToRel(<, Nat))
    BY NatLessThanWellFounded, WFMin
  <1>2. \E x \in S : \A y \in S : ~(y < x)
    BY <1>1 DEF OpToRel
  <1> QED
    BY <1>2

\* Min is the least member.
LEMMA MinIs ==
    ASSUME NEW S, S \subseteq Nat, S # {}
    PROVE  Min(S) \in S /\ \A k \in S : Min(S) <= k
  BY LeastExists DEF Min

\* A bounded set of natural numbers has a greatest one.
LEMMA MaxIs ==
    ASSUME NEW n \in Nat, NEW S, S \subseteq 0 .. n, S # {}
    PROVE  Max(S) \in S /\ \A k \in S : k <= Max(S)
  <1> DEFINE T == {n - x : x \in S}
  <1>0. \A x \in S : x \in Nat /\ n - x \in Nat
    OBVIOUS
  <1>1. T \subseteq Nat /\ T # {}
    BY <1>0, Zenon
  <1>2. PICK m \in T : \A k \in T : m <= k
    BY <1>1, LeastExists
  <1>3. PICK x \in S : m = n - x
    BY <1>2
  <1>4. \A k \in S : n - x <= n - k
    BY <1>2, <1>3
  <1>5. \A k \in S : x >= k
    BY <1>0, <1>4
  <1> QED
    BY <1>0, <1>5 DEF Max

\* What the window is computed from.
LEMMA LargestIs ==
    ASSUME NEW n \in Nat, NEW S, S \subseteq 0 .. n
    PROVE  Largest(S) \in Nat \cup {-1} /\ \A x \in S : x <= Largest(S)
  <1>1. CASE S = {}
    BY <1>1 DEF Largest
  <1>2. CASE S # {}
    <2>1. Max(S) \in S /\ \A k \in S : k <= Max(S)
      BY <1>2, MaxIs
    <2>2. Largest(S) = Max(S)
      BY <1>2 DEF Largest
    <2>3. \A x \in S : x \in Nat
      OBVIOUS
    <2> QED
      BY <2>1, <2>2, <2>3, Zenon
  <1> QED
    BY <1>1, <1>2

\* Among one more numbers than there are identifiers, one is unused.
LEMMA SmallestUnusedIs ==
    ASSUME NEW used, IsFiniteSet(used)
    PROVE  SmallestUnused(used) \in Nat /\ SmallestUnused(used) \notin used
  <1> DEFINE c == Cardinality(used)
             unused == {n \in 0 .. c : n \notin used}
  <1>1. c \in Nat
    BY FS_CardinalityType
  <1>2. unused # {}
    <2> SUFFICES ASSUME unused = {} PROVE FALSE
      OBVIOUS
    <2>1. 0 .. c \subseteq used
      OBVIOUS
    <2>2. Cardinality(0 .. c) <= c
      BY <2>1, FS_Subset
    <2>3. Cardinality(0 .. c) = c + 1
      BY <1>1, FS_Interval
    <2> QED
      BY <1>1, <2>2, <2>3
  <1>3. unused \subseteq Nat
    BY <1>1
  <1>4. PICK n \in unused : \A m \in unused : n <= m
    BY <1>2, <1>3, LeastExists
  <1>5. n \in 0 .. c /\ n \notin used /\ \A m \in 0 .. n - 1 : m \in used
    BY <1>1, <1>4
  <1> QED
    BY <1>1, <1>5 DEF SmallestUnused

\* What appending to a sequence leaves of it.
LEMMA AppendFacts ==
    ASSUME NEW S, NEW s \in Seq(S), NEW c \in S
    PROVE  /\ Append(s, c) \in Seq(S) /\ Len(Append(s, c)) = Len(s) + 1
           /\ DOMAIN Append(s, c) = DOMAIN s \cup {Len(s) + 1} /\ Len(s) + 1 \notin DOMAIN s
           /\ \A i \in DOMAIN s : Append(s, c)[i] = s[i]
           /\ Append(s, c)[Len(s) + 1] = c
           /\ Range(Append(s, c)) = Range(s) \cup {c}
  <1>1. DOMAIN s = 1 .. Len(s) /\ Len(s) \in Nat
    OBVIOUS
  <1>2. /\ DOMAIN Append(s, c) = 1 .. Len(s) + 1 /\ Append(s, c) \in Seq(S)
        /\ Len(Append(s, c)) = Len(s) + 1
    OBVIOUS
  <1>3. \A i \in DOMAIN s : Append(s, c)[i] = s[i]
    BY <1>1
  <1>4. Append(s, c)[Len(s) + 1] = c
    OBVIOUS
  <1>5. PICK t : t = Append(s, c)
    OBVIOUS
  <1>6. DOMAIN t = DOMAIN s \cup {Len(s) + 1} /\ Len(s) + 1 \notin DOMAIN s
    BY <1>1, <1>2, <1>5
  <1>7. (\A i \in DOMAIN s : t[i] = s[i]) /\ t[Len(s) + 1] = c
    BY <1>3, <1>4, <1>5
  <1>8. Range(t) = Range(s) \cup {c}
    BY <1>6, <1>7 DEF Range
  <1> QED
    BY <1>2, <1>3, <1>4, <1>5, <1>6, <1>8

\* Popping the removed variables off the end leaves the others.
LEMMA TrimmedKeepsRest ==
    ASSUME NEW seq \in Seq(Nat), NEW gone
    PROVE  /\ Trimmed(seq, gone) \in Seq(Nat)
           /\ Range(Trimmed(seq, gone)) \subseteq Range(seq)
           /\ Range(Trimmed(seq, gone)) \ gone = Range(seq) \ gone
  <1> DEFINE S == {0} \cup {i \in DOMAIN seq : seq[i] \notin gone}
  <1>1. DOMAIN seq = 1 .. Len(seq) /\ Len(seq) \in Nat
    OBVIOUS
  <1>2. S \subseteq 0 .. Len(seq) /\ S # {}
    BY <1>1
  <1>3. Max(S) \in 0 .. Len(seq) /\ \A k \in S : k <= Max(S)
    BY <1>1, <1>2, MaxIs
  <1> HIDE DEF S
  <1>4. PICK m \in 0 .. Len(seq) : m = Max(S)
    BY <1>3
  <1>5. Trimmed(seq, gone) = SubSeq(seq, 1, m)
    BY <1>4 DEF Trimmed, S
  <1>6. /\ SubSeq(seq, 1, m) \in Seq(Nat) /\ DOMAIN SubSeq(seq, 1, m) = 1 .. m
        /\ \A i \in 1 .. m : SubSeq(seq, 1, m)[i] = seq[i]
    BY <1>1, <1>4
  <1>7. \A i \in DOMAIN seq : seq[i] \notin gone => i \in 1 .. m
    BY <1>1, <1>3, <1>4 DEF S
  <1>8. 1 .. m \subseteq DOMAIN seq
    BY <1>1
  <1> QED
    BY <1>5, <1>6, <1>7, <1>8 DEF Range

-----------------------------------------------------------------------------
(* The identifiers a call may draw.                                             *)

\* A call is of its type.
LEMMA CallTyped ==
    ASSUME NEW p \in Pools \cup {Nobody}, NEW add \in BOOLEAN, NEW consume \in BOOLEAN,
           NEW live \in SUBSET Nat
    PROVE  PoolCall(p, add, consume, live) \in PoolCalls
  BY DEF PoolCall, PoolCalls, NoId

\* A fresh identifier is one that was never drawn (draw_fresh_id's repair included).
LEMMA FreshIsUnused ==
    ASSUME PoolTypeOK, CallsSound, NEW t \in Threads, pc[t] = "fresh"
    PROVE  FreshId(t) \in Nat /\ FreshId(t) \notin fresh_ids
  <1>1. PICK n \in Nat : fresh_ids \subseteq 0 .. n
    BY DEF PoolTypeOK, StreamsOK
  <1>5. IsFiniteSet(0 .. n)
    BY FS_Interval
  <1>2. IsFiniteSet(fresh_ids)
    BY <1>1, <1>5, FS_Subset
  <1>3. pool_call[t].fallback \in Nat /\ pool_call[t].fallback \notin fresh_ids
    BY <1>2, SmallestUnusedIs DEF CallsSound, CallSound
  <1>4. Replays(t) => Replayed(t) \in Nat
    BY DEF Replays, Replayed, PoolTypeOK, StreamsOK
  <1> QED
    BY <1>3, <1>4 DEF FreshId

\* What a pool offers are identifiers of the registry.
LEMMA ActiveIsDrawn ==
    ASSUME PoolTypeOK, ActiveExact, NEW p \in Pools
    PROVE  Active(p) \subseteq fresh_ids /\ fresh_ids \subseteq Nat
  BY DEF PoolTypeOK, StreamsOK, PoolsOK, ActiveExact

\* A draw from a pool returns one of its variables, whatever the stream replays.
LEMMA EligibleIsActive ==
    ASSUME PoolTypeOK, CallsSound, ActiveExact, NEW t \in Threads, pc[t] = "chosen"
    PROVE  /\ pool_call[t].pool \in Pools
           /\ Eligible(t) \subseteq Active(pool_call[t].pool)
           /\ Eligible(t) \subseteq fresh_ids
  <1> DEFINE members == pool_call[t].active
  <1>1. /\ pool_call[t].pool \in Pools /\ members = Active(pool_call[t].pool) /\ members # {}
    BY DEF CallsSound, CallSound
  <1>2. members \subseteq Nat /\ members \subseteq fresh_ids
    BY <1>1, ActiveIsDrawn
  <1>3. Min(members) \in members
    BY <1>1, <1>2, MinIs
  <1>4. ASSUME NEW raw \in Nat PROVE Repair(raw, members) \in members
    <2> DEFINE below == {m \in members : m <= raw}
    <2>1. below \subseteq 0 .. raw
      BY <1>2
    <2>2. below # {} => Max(below) \in below
      BY <1>4, <2>1, MaxIs
    <2> QED
      BY <1>3, <2>2 DEF Repair
  <1>5. Replays(t) => Replayed(t) \in Nat
    BY DEF Replays, Replayed, PoolTypeOK, StreamsOK
  <1> HIDE DEF members
  <1>6. Eligible(t) \subseteq members
    BY <1>3, <1>4, <1>5 DEF Eligible, members
  <1> QED
    BY <1>1, <1>2, <1>6

-----------------------------------------------------------------------------
(* The steps.                                                                   *)

\* Every step keeps the types of the streams and of the registry.
LEMMA StepStreamsOK == PoolTypeOK /\ CallsSound /\ ActiveExact /\ [PoolNext]_poolVars => StreamsOK'
  <1> SUFFICES ASSUME PoolTypeOK, CallsSound, ActiveExact, [PoolNext]_poolVars PROVE StreamsOK'
    OBVIOUS
  <1>1. ASSUME NEW t \in Threads, NEW p \in Pools, PoolAdd(t, p) PROVE StreamsOK'
    BY <1>1 DEF PoolAdd, PoolTypeOK, StreamsOK
  <1>2. ASSUME NEW t \in Threads, NEW p \in Pools, NEW consume \in BOOLEAN, PoolGenerate(t, p, consume)
        PROVE  StreamsOK'
    BY <1>2 DEF PoolGenerate, PoolTypeOK, StreamsOK
  <1>3. ASSUME NEW t \in Threads, ChoiceFails(t) PROVE StreamsOK'
    BY <1>3 DEF ChoiceFails, PoolTypeOK, StreamsOK
  <1>4. ASSUME NEW t \in Threads, LockRegistry(t) PROVE StreamsOK'
    BY <1>4 DEF LockRegistry, PoolTypeOK, StreamsOK
  <1>5. ASSUME NEW t \in Threads, Register(t) PROVE StreamsOK'
    <2>1. FreshId(t) \in Nat
      BY <1>5, FreshIsUnused DEF Register
    <2>2. [kind |-> "fresh", value |-> FreshId(t), hi |-> pool_call[t].hi] \in Draws
      BY <2>1 DEF Draws, PoolTypeOK, ThreadsOK, PoolCalls
    <2>3. nodes' \in [Threads -> Seq(Draws)]
      BY <1>5, <2>2 DEF Register, PushNode, PoolTypeOK, StreamsOK
    <2>4. PICK n \in Nat : fresh_ids \subseteq 0 .. n
      BY DEF PoolTypeOK, StreamsOK
    <2>5. PICK m \in Nat : m >= n /\ m >= FreshId(t)
      BY <2>1, <2>4
    <2>8. fresh_ids' = fresh_ids \cup {FreshId(t)}
      BY <1>5 DEF Register
    <2>6. fresh_ids' \subseteq 0 .. m
      <3>1. \A x \in fresh_ids : x \in 0 .. m
        BY <2>4, <2>5
      <3>2. FreshId(t) \in 0 .. m
        BY <2>1, <2>5
      <3> QED
        BY <2>8, <3>1, <3>2
    <2>7. fresh_ids' \subseteq Nat
      BY <2>6
    <2> QED
      BY <1>5, <2>3, <2>6, <2>7 DEF Register, PoolTypeOK, StreamsOK
  <1>6. ASSUME NEW t \in Threads, PoolEmpty(t) PROVE StreamsOK'
    BY <1>6 DEF PoolEmpty, PoolTypeOK, StreamsOK
  <1>7. ASSUME NEW t \in Threads, ReadWindow(t) PROVE StreamsOK'
    BY <1>7 DEF ReadWindow, PoolTypeOK, StreamsOK
  <1>8. ASSUME NEW t \in Threads, Choose(t) PROVE StreamsOK'
    <2>1. PICK id \in Eligible(t) : PushNode(t, "choice", id, pool_call[t].hi)
      BY <1>8 DEF Choose
    <2>2. id \in Nat
      BY <1>8, <2>1, EligibleIsActive DEF Choose, PoolTypeOK, StreamsOK
    <2>3. [kind |-> "choice", value |-> id, hi |-> pool_call[t].hi] \in Draws
      BY <2>2 DEF Draws, PoolTypeOK, ThreadsOK, PoolCalls
    <2>4. nodes' \in [Threads -> Seq(Draws)]
      BY <2>1, <2>3 DEF PushNode, PoolTypeOK, StreamsOK
    <2> QED
      BY <1>8, <2>4 DEF Choose, PoolTypeOK, StreamsOK
  <1>9. ASSUME NEW t \in Threads, Insert(t) PROVE StreamsOK'
    BY <1>9 DEF Insert, PoolTypeOK, StreamsOK, Return
  <1>10. ASSUME NEW t \in Threads, Reuse(t) PROVE StreamsOK'
    BY <1>10 DEF Reuse, PoolTypeOK, StreamsOK, Return
  <1>11. ASSUME NEW t \in Threads, TakeOut(t) PROVE StreamsOK'
    BY <1>11 DEF TakeOut, PoolTypeOK, StreamsOK, Return
  <1>12. ASSUME NEW t \in Threads, Raised(t) PROVE StreamsOK'
    BY <1>12 DEF Raised, PoolTypeOK, StreamsOK, Return
  <1>13. CASE UNCHANGED poolVars
    BY <1>13 DEF poolVars, PoolTypeOK, StreamsOK
  <1> QED
    BY <1>1, <1>2, <1>3, <1>4, <1>5, <1>6, <1>7, <1>8, <1>9, <1>10, <1>11, <1>12, <1>13
       DEF PoolNext

\* Every step keeps the types of the pools and of the client's maps.
LEMMA StepPoolsOK ==
    PoolTypeOK /\ CallsSound /\ ActiveExact /\ MapSound /\ [PoolNext]_poolVars => PoolsOK'
  <1> SUFFICES ASSUME PoolTypeOK, CallsSound, ActiveExact, MapSound, [PoolNext]_poolVars
               PROVE PoolsOK'
    OBVIOUS
  <1>1. ASSUME NEW t \in Threads, NEW p \in Pools, PoolAdd(t, p) PROVE PoolsOK'
    BY <1>1 DEF PoolAdd, PoolTypeOK, PoolsOK, Begin, LockBoth
  <1>2. ASSUME NEW t \in Threads, NEW p \in Pools, NEW consume \in BOOLEAN, PoolGenerate(t, p, consume)
        PROVE  PoolsOK'
    BY <1>2 DEF PoolGenerate, PoolTypeOK, PoolsOK, Begin, LockBoth
  <1>3. ASSUME NEW t \in Threads, ChoiceFails(t) PROVE PoolsOK'
    BY <1>3 DEF ChoiceFails, PoolTypeOK, PoolsOK, Finish, client
  <1>4. ASSUME NEW t \in Threads, LockRegistry(t) PROVE PoolsOK'
    BY <1>4 DEF LockRegistry, PoolTypeOK, PoolsOK, client
  <1>5. ASSUME NEW t \in Threads, Register(t) PROVE PoolsOK'
    <2>1. pool_call[t].pool \in Pools /\ FreshId(t) \in Nat
      BY <1>5, FreshIsUnused DEF Register, CallsSound, CallSound
    <2>2. fresh_ids' = fresh_ids \cup {FreshId(t)}
      BY <1>5 DEF Register
    <2>3. variables' \in [Pools -> Seq(Nat)]
      BY <1>5, <2>1 DEF Register, PoolTypeOK, PoolsOK
    <2>4. added' \in [Pools -> SUBSET fresh_ids']
      BY <1>5, <2>1, <2>2 DEF Register, PoolTypeOK, PoolsOK
    <2>5. removed' \in [Pools -> SUBSET fresh_ids'] /\ consumed' \in [Pools -> SUBSET fresh_ids']
      BY <1>5, <2>2 DEF Register, PoolTypeOK, PoolsOK
    <2>6. values' \in [Pools -> SUBSET fresh_ids']
      BY <1>5, <2>2 DEF Register, Finish, client, PoolTypeOK, PoolsOK
    <2>7. /\ pool_lock' \in [Pools -> Threads \cup {Nobody}]
          /\ values_lock' \in [Pools -> Threads \cup {Nobody}]
      BY <1>5, <2>1 DEF Register, Finish, client, PoolTypeOK, PoolsOK
    <2> QED
      BY <2>3, <2>4, <2>5, <2>6, <2>7 DEF PoolsOK
  <1>6. ASSUME NEW t \in Threads, PoolEmpty(t) PROVE PoolsOK'
    BY <1>6 DEF PoolEmpty, PoolTypeOK, PoolsOK, Finish, client
  <1>7. ASSUME NEW t \in Threads, ReadWindow(t) PROVE PoolsOK'
    BY <1>7 DEF ReadWindow, PoolTypeOK, PoolsOK, client
  <1>8. ASSUME NEW t \in Threads, Choose(t) PROVE PoolsOK'
    <2> DEFINE p == pool_call[t].pool
    <2>1. PICK id \in Eligible(t) :
             /\ pool_call[t].consume => /\ Consume(p, id)
                                       /\ consumed' = [consumed EXCEPT ![p] = consumed[p] \cup {id}]
             /\ ~pool_call[t].consume => UNCHANGED <<variables, removed, consumed>>
      BY <1>8 DEF Choose
    <2> DEFINE gone == removed[p] \cup {id}
               kept == Trimmed(variables[p], gone)
    <2>2. p \in Pools /\ id \in fresh_ids
      BY <1>8, EligibleIsActive DEF Choose
    <2>3. kept \in Seq(Nat)
      BY <2>2, TrimmedKeepsRest DEF PoolTypeOK, PoolsOK
    <2>4. /\ UNCHANGED <<fresh_ids, added, values, values_lock>>
          /\ pool_lock' = [pool_lock EXCEPT ![p] = Nobody]
      BY <1>8 DEF Choose, Finish, client
    <2>5. gone \subseteq fresh_ids
      BY <2>2 DEF PoolTypeOK, PoolsOK
    <2>6. CASE pool_call[t].consume
      <3>1. /\ variables' = [variables EXCEPT ![p] = kept]
            /\ removed' = [removed EXCEPT ![p] = gone \cap Range(kept)]
            /\ consumed' = [consumed EXCEPT ![p] = consumed[p] \cup {id}]
        BY <2>1, <2>6 DEF Consume
      <3> HIDE DEF p, gone, kept
      <3>2. variables' \in [Pools -> Seq(Nat)]
        BY <2>2, <2>3, <3>1 DEF PoolTypeOK, PoolsOK
      <3>3. removed' \in [Pools -> SUBSET fresh_ids]
        BY <2>2, <2>5, <3>1 DEF PoolTypeOK, PoolsOK
      <3>4. consumed' \in [Pools -> SUBSET fresh_ids]
        BY <2>2, <3>1 DEF PoolTypeOK, PoolsOK
      <3> QED
        BY <2>2, <2>4, <3>2, <3>3, <3>4 DEF PoolTypeOK, PoolsOK
    <2>7. CASE ~pool_call[t].consume
      <3>1. UNCHANGED <<variables, removed, consumed>>
        BY <2>1, <2>7
      <3> HIDE DEF p
      <3> QED
        BY <2>2, <2>4, <3>1 DEF PoolTypeOK, PoolsOK
    <2> QED
      BY <2>6, <2>7
  <1>9. ASSUME NEW t \in Threads, Insert(t) PROVE PoolsOK'
    <2>1. pool_call[t].pool \in Pools
      BY <1>9 DEF Insert, CallsSound, CallSound
    <2>2. pool_call[t].id \in fresh_ids
      BY <1>9, <2>1, ActiveIsDrawn DEF Insert, MapSound, MapAt, Answered
    <2> QED
      BY <1>9, <2>1, <2>2 DEF Insert, Return, PoolTypeOK, PoolsOK
  <1>10. ASSUME NEW t \in Threads, Reuse(t) PROVE PoolsOK'
    BY <1>10 DEF Reuse, PoolTypeOK, PoolsOK, Return
  <1>11. ASSUME NEW t \in Threads, TakeOut(t) PROVE PoolsOK'
    BY <1>11 DEF TakeOut, Return, PoolTypeOK, PoolsOK
  <1>12. ASSUME NEW t \in Threads, Raised(t) PROVE PoolsOK'
    BY <1>12 DEF Raised, PoolTypeOK, PoolsOK, Return
  <1>13. CASE UNCHANGED poolVars
    BY <1>13 DEF poolVars, client, PoolTypeOK, PoolsOK
  <1> QED
    BY <1>1, <1>2, <1>3, <1>4, <1>5, <1>6, <1>7, <1>8, <1>9, <1>10, <1>11, <1>12, <1>13
       DEF PoolNext

\* Every step keeps the types of the calls.
LEMMA StepThreadsOK == PoolTypeOK /\ CallsSound /\ ActiveExact /\ [PoolNext]_poolVars => ThreadsOK'
  <1> SUFFICES ASSUME PoolTypeOK, CallsSound, ActiveExact, [PoolNext]_poolVars PROVE ThreadsOK'
    OBVIOUS
  <1>1. ASSUME NEW t \in Threads, NEW p \in Pools, PoolAdd(t, p) PROVE ThreadsOK'
    <2>1. PoolCall(p, TRUE, FALSE, {}) \in PoolCalls
      BY CallTyped
    <2> QED
      BY <1>1, <2>1 DEF PoolAdd, Begin, PoolTypeOK, ThreadsOK
  <1>2. ASSUME NEW t \in Threads, NEW p \in Pools, NEW consume \in BOOLEAN, PoolGenerate(t, p, consume)
        PROVE  ThreadsOK'
    <2>1. Active(p) \subseteq Nat
      BY ActiveIsDrawn
    <2>2. PoolCall(p, FALSE, consume, Active(p)) \in PoolCalls
      BY <2>1, CallTyped
    <2> QED
      BY <1>2, <2>2 DEF PoolGenerate, Begin, PoolTypeOK, ThreadsOK
  <1>3. ASSUME NEW t \in Threads, ChoiceFails(t) PROVE ThreadsOK'
    BY <1>3 DEF ChoiceFails, Finish, PoolCalls, NoId, PoolTypeOK, ThreadsOK
  <1>4. ASSUME NEW t \in Threads, LockRegistry(t) PROVE ThreadsOK'
    <2>1. PICK n \in Nat : fresh_ids \subseteq 0 .. n
      BY DEF PoolTypeOK, StreamsOK
    <2>5. Largest(fresh_ids) \in Nat \cup {-1}
      BY <2>1, LargestIs
    <2>2. Largest(fresh_ids) + 2 \in Int
      BY <2>5
    <2>3. IsFiniteSet(0 .. n)
      BY FS_Interval
    <2>4. SmallestUnused(fresh_ids) \in Nat
      BY <2>1, <2>3, FS_Subset, SmallestUnusedIs
    <2>6. PICK c \in PoolCalls : c = pool_call[t]
      BY DEF PoolTypeOK, ThreadsOK
    <2>7. [c EXCEPT !.hi = Largest(fresh_ids) + 2, !.fallback = SmallestUnused(fresh_ids)]
              \in PoolCalls
      BY <2>2, <2>4, <2>6 DEF PoolCalls
    <2>8. pool_call' = [pool_call EXCEPT ![t] =
              [c EXCEPT !.hi = Largest(fresh_ids) + 2, !.fallback = SmallestUnused(fresh_ids)]]
      BY <1>4, <2>6 DEF LockRegistry
    <2> QED
      BY <1>4, <2>7, <2>8 DEF LockRegistry, PoolTypeOK, ThreadsOK
  <1>5. ASSUME NEW t \in Threads, Register(t) PROVE ThreadsOK'
    <2>1. FreshId(t) \in Nat
      BY <1>5, FreshIsUnused DEF Register
    <2> QED
      BY <1>5, <2>1 DEF Register, Finish, PoolCalls, PoolTypeOK, ThreadsOK
  <1>6. ASSUME NEW t \in Threads, PoolEmpty(t) PROVE ThreadsOK'
    BY <1>6 DEF PoolEmpty, Finish, PoolCalls, NoId, PoolTypeOK, ThreadsOK
  <1>7. ASSUME NEW t \in Threads, ReadWindow(t) PROVE ThreadsOK'
    <2>1. PICK n \in Nat : fresh_ids \subseteq 0 .. n
      BY DEF PoolTypeOK, StreamsOK
    <2>3. Largest(fresh_ids) \in Nat \cup {-1}
      BY <2>1, LargestIs
    <2>2. Largest(fresh_ids) + 1 \in Int
      BY <2>3
    <2> QED
      BY <1>7, <2>2 DEF ReadWindow, PoolCalls, PoolTypeOK, ThreadsOK
  <1>8. ASSUME NEW t \in Threads, Choose(t) PROVE ThreadsOK'
    <2>1. \E id \in Nat : Finish(t, id)
      BY <1>8, EligibleIsActive DEF Choose, PoolTypeOK, StreamsOK
    <2> QED
      BY <1>8, <2>1 DEF Finish, PoolCalls, PoolTypeOK, ThreadsOK
  <1>9. ASSUME NEW t \in Threads, Insert(t) PROVE ThreadsOK'
    <2>1. NoCall \in PoolCalls
      BY CallTyped DEF NoCall
    <2> QED
      BY <1>9, <2>1 DEF Insert, Return, PoolTypeOK, ThreadsOK
  <1>10. ASSUME NEW t \in Threads, Reuse(t) PROVE ThreadsOK'
    <2>1. NoCall \in PoolCalls
      BY CallTyped DEF NoCall
    <2> QED
      BY <1>10, <2>1 DEF Reuse, Return, PoolTypeOK, ThreadsOK
  <1>11. ASSUME NEW t \in Threads, TakeOut(t) PROVE ThreadsOK'
    <2>1. NoCall \in PoolCalls
      BY CallTyped DEF NoCall
    <2> QED
      BY <1>11, <2>1 DEF TakeOut, Return, PoolTypeOK, ThreadsOK
  <1>12. ASSUME NEW t \in Threads, Raised(t) PROVE ThreadsOK'
    <2>1. NoCall \in PoolCalls
      BY CallTyped DEF NoCall
    <2> QED
      BY <1>12, <2>1 DEF Raised, Return, PoolTypeOK, ThreadsOK
  <1>13. CASE UNCHANGED poolVars
    BY <1>13 DEF poolVars, PoolTypeOK, ThreadsOK
  <1> QED
    BY <1>1, <1>2, <1>3, <1>4, <1>5, <1>6, <1>7, <1>8, <1>9, <1>10, <1>11, <1>12, <1>13
       DEF PoolNext

\* The other threads' calls stay sound when no lock they hold is taken from them.
LEMMA OthersKept ==
    ASSUME PoolTypeOK, CallsSound, NEW t \in Threads,
           \A u \in Threads : u # t => pc'[u] = pc[u] /\ pool_call'[u] = pool_call[u],
           \A p \in Pools : values_lock[p] \in {Nobody, t} \/ values_lock'[p] = values_lock[p],
           \A p \in Pools : pool_lock[p] \in {Nobody, t} \/ pool_lock'[p] = pool_lock[p],
           \A p \in Pools : pool_lock[p] = t \/ (variables'[p] = variables[p] /\ removed'[p] = removed[p]),
           registry_lock \in {Nobody, t} \/ registry_lock' = registry_lock,
           registry_lock = t \/ fresh_ids' = fresh_ids
    PROVE  \A u \in Threads : u # t => CallSound(u)'
  <1> SUFFICES ASSUME NEW u \in Threads, u # t PROVE CallSound(u)'
    OBVIOUS
  <1> DEFINE p == pool_call[u].pool
  <1>1. CallSound(u) /\ pc'[u] = pc[u] /\ pool_call'[u] = pool_call[u]
    BY DEF CallsSound
  <1>2. u # Nobody /\ t # Nobody
    BY PoolConstantsOK
  <1>3. pc[u] # "idle" => p \in Pools /\ values_lock'[p] = u
    BY <1>1, <1>2 DEF CallSound
  <1>4. pc[u] \in {"add", "fresh", "choose", "chosen"} => pool_lock[p] = u /\ pool_lock'[p] = u
    BY <1>1, <1>2, <1>3 DEF CallSound
  <1>5. pc[u] \in {"choose", "chosen"} => Active(p)' = Active(p)
    BY <1>1, <1>3, <1>4 DEF Active
  <1>6. pc[u] = "fresh" => registry_lock' = u /\ fresh_ids' = fresh_ids
    BY <1>1, <1>2 DEF CallSound
  <1> QED
    BY <1>1, <1>3, <1>4, <1>5, <1>6 DEF CallSound

\* What a call under way holds.
LEMMA OwnCall ==
    ASSUME PoolTypeOK, CallsSound, NEW t \in Threads, pc[t] # "idle"
    PROVE  /\ pool_call[t].pool \in Pools /\ values_lock[pool_call[t].pool] = t
           /\ pc[t] # "back" => pool_lock[pool_call[t].pool] = t
           /\ pc[t] = "fresh" => registry_lock = t
           /\ pool_call[t] \in PoolCalls
  BY DEF CallsSound, CallSound, PoolTypeOK, ThreadsOK

\* An answer of the engine leaves every call sound.
LEMMA FinishKeeps ==
    ASSUME PoolTypeOK, CallsSound, NEW t \in Threads, pc[t] \notin {"idle", "back"}, NEW id,
           Finish(t, id),
           \A p \in Pools : p = pool_call[t].pool
                            \/ (variables'[p] = variables[p] /\ removed'[p] = removed[p]),
           registry_lock' = registry_lock \/ registry_lock = t,
           fresh_ids' = fresh_ids \/ registry_lock = t
    PROVE  CallsSound'
  <1>1. PICK c \in PoolCalls : c = pool_call[t]
    BY OwnCall
  <1>2. c.pool \in Pools /\ values_lock[c.pool] = t /\ pool_lock[c.pool] = t
    BY <1>1, OwnCall
  <1>3. /\ pc' = [pc EXCEPT ![t] = "back"] /\ pool_lock' = [pool_lock EXCEPT ![c.pool] = Nobody]
        /\ values_lock' = values_lock
        /\ pool_call' = [pool_call EXCEPT ![t] = [c EXCEPT !.id = id]]
    BY <1>1 DEF Finish, client
  <1>4. pc'[t] = "back" /\ pool_call'[t] = [c EXCEPT !.id = id]
    BY <1>3 DEF PoolTypeOK, ThreadsOK
  <1>5. pool_call'[t].pool = c.pool /\ pool_call'[t].add = c.add /\ pool_call'[t].consume = c.consume
    BY <1>4 DEF PoolCalls
  <1>6. c.add => ~c.consume
    BY <1>1 DEF CallsSound, CallSound
  <1>7. CallSound(t)'
    BY <1>2, <1>3, <1>4, <1>5, <1>6 DEF CallSound
  <1>8. \A u \in Threads : u # t => pc'[u] = pc[u] /\ pool_call'[u] = pool_call[u]
    BY <1>3 DEF PoolTypeOK, ThreadsOK
  <1>9. \A p \in Pools : p # c.pool => pool_lock'[p] = pool_lock[p]
    BY <1>3 DEF PoolTypeOK, PoolsOK
  <1>10. \A u \in Threads : u # t => CallSound(u)'
    BY <1>1, <1>2, <1>3, <1>8, <1>9, OthersKept
  <1> QED
    BY <1>7, <1>10 DEF CallsSound

\* Every step keeps the calls under way sound.
LEMMA StepCallsSound == PoolTypeOK /\ CallsSound /\ ActiveExact /\ [PoolNext]_poolVars => CallsSound'
  <1> SUFFICES ASSUME PoolTypeOK, CallsSound, ActiveExact, [PoolNext]_poolVars PROVE CallsSound'
    OBVIOUS
  <1> USE DEF PoolTypeOK, StreamsOK, PoolsOK, ThreadsOK
  <1>1. ASSUME NEW t \in Threads, NEW p \in Pools, PoolAdd(t, p) PROVE CallsSound'
    <2>1. CallSound(t)'
      BY <1>1 DEF PoolAdd, Begin, LockBoth, PoolCall, CallSound
    <2>2. \A u \in Threads : u # t => CallSound(u)'
      BY <1>1, OthersKept, PoolConstantsOK DEF PoolAdd, Begin, LockBoth
    <2> QED
      BY <2>1, <2>2 DEF CallsSound
  <1>2. ASSUME NEW t \in Threads, NEW p \in Pools, NEW consume \in BOOLEAN, PoolGenerate(t, p, consume)
        PROVE  CallsSound'
    <2>1. CallSound(t)'
      BY <1>2 DEF PoolGenerate, Begin, LockBoth, PoolCall, CallSound, Active
    <2>2. \A u \in Threads : u # t => CallSound(u)'
      BY <1>2, OthersKept, PoolConstantsOK DEF PoolGenerate, Begin, LockBoth
    <2> QED
      BY <2>1, <2>2 DEF CallsSound
  <1>3. ASSUME NEW t \in Threads, ChoiceFails(t) PROVE CallsSound'
    <2>1. pc[t] \notin {"idle", "back"} /\ pool_call[t].pool \in Pools
      BY <1>3, OwnCall DEF ChoiceFails
    <2> QED
      BY <1>3, <2>1, FinishKeeps DEF ChoiceFails
  <1>4. ASSUME NEW t \in Threads, LockRegistry(t) PROVE CallsSound'
    <2>1. PICK c \in PoolCalls : c = pool_call[t]
      BY <1>4, OwnCall DEF LockRegistry
    <2>2. /\ c.pool \in Pools /\ values_lock[c.pool] = t /\ pool_lock[c.pool] = t
          /\ c.add /\ ~c.consume /\ c.id = NoId
      BY <1>4, <2>1, OwnCall DEF LockRegistry, CallsSound, CallSound
    <2>3. /\ pc' = [pc EXCEPT ![t] = "fresh"] /\ registry_lock' = t /\ registry_lock = Nobody
          /\ pool_call' = [pool_call EXCEPT ![t] = [c EXCEPT !.hi = Largest(fresh_ids) + 2,
                                                   !.fallback = SmallestUnused(fresh_ids)]]
          /\ UNCHANGED <<fresh_ids, variables, removed, pool_lock, values_lock>>
      BY <1>4, <2>1 DEF LockRegistry, client
    <2>4. /\ pc'[t] = "fresh" /\ pool_call'[t].pool = c.pool /\ pool_call'[t].add = c.add
          /\ pool_call'[t].consume = c.consume /\ pool_call'[t].id = c.id
          /\ pool_call'[t].hi = Largest(fresh_ids) + 2
          /\ pool_call'[t].fallback = SmallestUnused(fresh_ids)
      BY <2>3 DEF PoolCalls
    <2>5. CallSound(t)'
      BY <2>2, <2>3, <2>4 DEF CallSound
    <2>6. \A u \in Threads : u # t => pc'[u] = pc[u] /\ pool_call'[u] = pool_call[u]
      BY <2>3
    <2>7. \A u \in Threads : u # t => CallSound(u)'
      BY <2>3, <2>6, OthersKept
    <2> QED
      BY <2>5, <2>7 DEF CallsSound
  <1>5. ASSUME NEW t \in Threads, Register(t) PROVE CallsSound'
    <2>1. pc[t] \notin {"idle", "back"} /\ pool_call[t].pool \in Pools
      BY <1>5, OwnCall DEF Register
    <2>2. registry_lock = t
      BY <1>5, OwnCall DEF Register
    <2>3. Finish(t, FreshId(t)) /\ UNCHANGED removed
      BY <1>5 DEF Register
    <2>4. \A p \in Pools : p = pool_call[t].pool \/ variables'[p] = variables[p]
      BY <1>5 DEF Register, PoolTypeOK, PoolsOK
    <2> QED
      BY <1>5, <2>1, <2>2, <2>3, <2>4, FinishKeeps
  <1>6. ASSUME NEW t \in Threads, PoolEmpty(t) PROVE CallsSound'
    <2>1. pc[t] \notin {"idle", "back"} /\ pool_call[t].pool \in Pools
      BY <1>6, OwnCall DEF PoolEmpty
    <2> QED
      BY <1>6, <2>1, FinishKeeps DEF PoolEmpty
  <1>7. ASSUME NEW t \in Threads, ReadWindow(t) PROVE CallsSound'
    <2>1. PICK c \in PoolCalls : c = pool_call[t]
      BY <1>7, OwnCall DEF ReadWindow
    <2>2. /\ c.pool \in Pools /\ values_lock[c.pool] = t /\ pool_lock[c.pool] = t
          /\ ~c.add /\ c.id = NoId /\ c.active = Active(c.pool) /\ c.active # {}
      BY <1>7, <2>1, OwnCall DEF ReadWindow, CallsSound, CallSound
    <2>3. /\ pc' = [pc EXCEPT ![t] = "chosen"]
          /\ pool_call' = [pool_call EXCEPT ![t] = [c EXCEPT !.hi = Largest(fresh_ids) + 1]]
          /\ UNCHANGED <<fresh_ids, registry_lock, variables, removed, pool_lock, values_lock>>
      BY <1>7, <2>1 DEF ReadWindow, client
    <2>4. /\ pc'[t] = "chosen" /\ pool_call'[t].pool = c.pool /\ pool_call'[t].add = c.add
          /\ pool_call'[t].active = c.active /\ pool_call'[t].id = c.id
      BY <2>3 DEF PoolCalls
    <2>8. Active(c.pool)' = Active(c.pool)
      BY <2>3 DEF Active
    <2>5. CallSound(t)'
      BY <2>2, <2>3, <2>4, <2>8 DEF CallSound
    <2>6. \A u \in Threads : u # t => pc'[u] = pc[u] /\ pool_call'[u] = pool_call[u]
      BY <2>3
    <2>7. \A u \in Threads : u # t => CallSound(u)'
      BY <2>3, <2>6, OthersKept
    <2> QED
      BY <2>5, <2>7 DEF CallsSound
  <1>8. ASSUME NEW t \in Threads, Choose(t) PROVE CallsSound'
    <2>1. pc[t] \notin {"idle", "back"} /\ pool_call[t].pool \in Pools
      BY <1>8, OwnCall DEF Choose
    <2>2. PICK id \in Eligible(t) :
             /\ Finish(t, id)
             /\ Consume(pool_call[t].pool, id) \/ UNCHANGED <<variables, removed>>
      BY <1>8 DEF Choose
    <2>3. UNCHANGED <<fresh_ids, registry_lock>>
      BY <1>8 DEF Choose
    <2>4. \A p \in Pools : p = pool_call[t].pool
                            \/ (variables'[p] = variables[p] /\ removed'[p] = removed[p])
      BY <2>2 DEF Consume, PoolTypeOK, PoolsOK
    <2> QED
      BY <1>8, <2>1, <2>2, <2>3, <2>4, FinishKeeps
  <1>9. ASSUME NEW t \in Threads, Insert(t) PROVE CallsSound'
    <2>1. CallSound(t)'
      BY <1>9 DEF CallSound, Insert, Return, NoCall, PoolCall
    <2>2. \A u \in Threads : u # t => CallSound(u)'
      BY <1>9, OthersKept, PoolConstantsOK DEF Insert, Return, NoCall, PoolCall
    <2> QED
      BY <2>1, <2>2 DEF CallsSound
  <1>10. ASSUME NEW t \in Threads, Reuse(t) PROVE CallsSound'
    <2>1. CallSound(t)'
      BY <1>10 DEF CallSound, Reuse, Return, NoCall, PoolCall
    <2>2. \A u \in Threads : u # t => CallSound(u)'
      BY <1>10, OthersKept, PoolConstantsOK DEF Reuse, Return, NoCall, PoolCall
    <2> QED
      BY <2>1, <2>2 DEF CallsSound
  <1>11. ASSUME NEW t \in Threads, TakeOut(t) PROVE CallsSound'
    <2>1. CallSound(t)'
      BY <1>11 DEF CallSound, TakeOut, Return, NoCall, PoolCall
    <2>2. \A u \in Threads : u # t => CallSound(u)'
      BY <1>11, OthersKept, PoolConstantsOK DEF TakeOut, Return, NoCall, PoolCall
    <2> QED
      BY <2>1, <2>2 DEF CallsSound
  <1>12. ASSUME NEW t \in Threads, Raised(t) PROVE CallsSound'
    <2>1. CallSound(t)'
      BY <1>12 DEF CallSound, Raised, Return, NoCall, PoolCall
    <2>2. \A u \in Threads : u # t => CallSound(u)'
      BY <1>12, OthersKept, PoolConstantsOK DEF Raised, Return, NoCall, PoolCall
    <2> QED
      BY <2>1, <2>2 DEF CallsSound
  <1>13. CASE UNCHANGED poolVars
    BY <1>13 DEF poolVars, client, CallsSound, CallSound, Active
  <1> QED
    BY <1>1, <1>2, <1>3, <1>4, <1>5, <1>6, <1>7, <1>8, <1>9, <1>10, <1>11, <1>12, <1>13
       DEF PoolNext

\* An added identifier joins its pool, and no other pool changes (pool_add).
LEMMA RegisterAdds ==
    ASSUME PoolTypeOK, CallsSound, NEW t \in Threads, Register(t),
           NEW p, p = pool_call[t].pool, NEW id, id = FreshId(t)
    PROVE  /\ p \in Pools /\ id \in Nat /\ id \notin fresh_ids
           /\ Active(p)' = Active(p) \cup {id}
           /\ \A q \in Pools : q # p => Active(q)' = Active(q)
           /\ added' = [added EXCEPT ![p] = added[p] \cup {id}] /\ consumed' = consumed
  <1>1. p \in Pools /\ id \in Nat /\ id \notin fresh_ids
    BY OwnCall, FreshIsUnused DEF Register
  <1>2. /\ variables' = [variables EXCEPT ![p] = Append(variables[p], id)] /\ removed' = removed
        /\ added' = [added EXCEPT ![p] = added[p] \cup {id}] /\ consumed' = consumed
    BY DEF Register
  <1>3. variables'[p] = Append(variables[p], id) /\ variables[p] \in Seq(Nat)
    BY <1>1, <1>2 DEF PoolTypeOK, PoolsOK
  <1>4. Range(variables'[p]) = Range(variables[p]) \cup {id}
    BY <1>1, <1>3, AppendFacts
  <1>5. id \notin removed[p]
    BY <1>1 DEF PoolTypeOK, PoolsOK
  <1>6. Active(p)' = Active(p) \cup {id}
    BY <1>2, <1>4, <1>5 DEF Active
  <1>7. \A q \in Pools : q # p => Active(q)' = Active(q)
    BY <1>2 DEF Active, PoolTypeOK, PoolsOK
  <1> QED
    BY <1>1, <1>2, <1>6, <1>7

\* A consumed identifier leaves its pool, a reused one stays, and no other pool changes
\* (pool_generate, NativeVariables::consume).
LEMMA ChooseRemoves ==
    ASSUME PoolTypeOK, CallsSound, ActiveExact, NEW t \in Threads, Choose(t),
           NEW p, p = pool_call[t].pool
    PROVE  /\ p \in Pools
           /\ \A q \in Pools : q # p => Active(q)' = Active(q)
           /\ \E id \in Active(p) :
                 /\ PushNode(t, "choice", id, pool_call[t].hi) /\ Finish(t, id)
                 /\ IF pool_call[t].consume
                    THEN /\ Active(p)' = Active(p) \ {id}
                         /\ consumed' = [consumed EXCEPT ![p] = consumed[p] \cup {id}]
                    ELSE Active(p)' = Active(p) /\ consumed' = consumed
           /\ added' = added
  <1>1. p \in Pools /\ Eligible(t) \subseteq Active(p)
    BY EligibleIsActive DEF Choose
  <1>2. PICK id \in Eligible(t) :
           /\ PushNode(t, "choice", id, pool_call[t].hi) /\ Finish(t, id)
           /\ IF pool_call[t].consume
              THEN Consume(p, id) /\ consumed' = [consumed EXCEPT ![p] = consumed[p] \cup {id}]
              ELSE UNCHANGED <<variables, removed, consumed>>
    BY DEF Choose
  <1>3. added' = added
    BY DEF Choose
  <1>4. CASE pool_call[t].consume
    <2>1. PICK gone : gone = removed[p] \cup {id}
      OBVIOUS
    <2>2. PICK kept : kept = Trimmed(variables[p], gone)
      OBVIOUS
    <2>3. /\ variables' = [variables EXCEPT ![p] = kept]
          /\ removed' = [removed EXCEPT ![p] = gone \cap Range(kept)]
      BY <1>2, <1>4, <2>1, <2>2 DEF Consume
    <2>4. variables[p] \in Seq(Nat)
      BY <1>1 DEF PoolTypeOK, PoolsOK
    <2>5. Range(kept) \ gone = Range(variables[p]) \ gone
      BY <2>2, <2>4, TrimmedKeepsRest
    <2>6. variables'[p] = kept /\ removed'[p] = gone \cap Range(kept)
      BY <1>1, <2>3 DEF PoolTypeOK, PoolsOK
    <2>7. Active(p)' = Range(kept) \ gone
      BY <2>6 DEF Active
    <2>8. Active(p)' = Active(p) \ {id}
      BY <2>1, <2>5, <2>7 DEF Active
    <2>9. \A q \in Pools : q # p => Active(q)' = Active(q)
      BY <2>3 DEF Active, PoolTypeOK, PoolsOK
    <2> QED
      BY <1>1, <1>2, <1>3, <1>4, <2>8, <2>9
  <1>5. CASE ~pool_call[t].consume
    <2>1. UNCHANGED <<variables, removed, consumed>>
      BY <1>2, <1>5
    <2>2. \A q \in Pools : Active(q)' = Active(q)
      BY <2>1 DEF Active
    <2> QED
      BY <1>1, <1>2, <1>3, <1>5, <2>1, <2>2
  <1> QED
    BY <1>4, <1>5

\* Every step changes what a pool offers as the history of its calls says.
LEMMA StepActiveExact ==
    PoolTypeOK /\ CallsSound /\ ActiveExact /\ [PoolNext]_poolVars => ActiveExact'
  <1> SUFFICES ASSUME PoolTypeOK, CallsSound, ActiveExact, [PoolNext]_poolVars PROVE ActiveExact'
    OBVIOUS
  <1>1. ASSUME NEW t \in Threads, NEW p \in Pools, PoolAdd(t, p) PROVE ActiveExact'
    BY <1>1 DEF PoolAdd, Active, ActiveExact
  <1>2. ASSUME NEW t \in Threads, NEW p \in Pools, NEW consume \in BOOLEAN, PoolGenerate(t, p, consume)
        PROVE  ActiveExact'
    BY <1>2 DEF PoolGenerate, Active, ActiveExact
  <1>3. ASSUME NEW t \in Threads, ChoiceFails(t) PROVE ActiveExact'
    BY <1>3 DEF ChoiceFails, Active, ActiveExact
  <1>4. ASSUME NEW t \in Threads, LockRegistry(t) PROVE ActiveExact'
    BY <1>4 DEF LockRegistry, Active, ActiveExact
  <1>5. ASSUME NEW t \in Threads, Register(t) PROVE ActiveExact'
    <2>1. PICK p, id : p = pool_call[t].pool /\ id = FreshId(t)
      OBVIOUS
    <2>2. /\ p \in Pools /\ id \notin fresh_ids /\ Active(p)' = Active(p) \cup {id}
          /\ \A q \in Pools : q # p => Active(q)' = Active(q)
          /\ added' = [added EXCEPT ![p] = added[p] \cup {id}] /\ consumed' = consumed
      BY <1>5, <2>1, RegisterAdds
    <2>3. id \notin consumed[p]
      BY <2>2 DEF PoolTypeOK, PoolsOK
    <2> QED
      BY <2>2, <2>3 DEF ActiveExact, PoolTypeOK, PoolsOK
  <1>6. ASSUME NEW t \in Threads, PoolEmpty(t) PROVE ActiveExact'
    BY <1>6 DEF PoolEmpty, Active, ActiveExact
  <1>7. ASSUME NEW t \in Threads, ReadWindow(t) PROVE ActiveExact'
    BY <1>7 DEF ReadWindow, Active, ActiveExact
  <1>8. ASSUME NEW t \in Threads, Choose(t) PROVE ActiveExact'
    <2>1. PICK p : p = pool_call[t].pool
      OBVIOUS
    <2>2. /\ p \in Pools /\ added' = added
          /\ \A q \in Pools : q # p => Active(q)' = Active(q)
          /\ \E id \in Active(p) :
                 IF pool_call[t].consume
                 THEN /\ Active(p)' = Active(p) \ {id}
                      /\ consumed' = [consumed EXCEPT ![p] = consumed[p] \cup {id}]
                 ELSE Active(p)' = Active(p) /\ consumed' = consumed
      BY <1>8, <2>1, ChooseRemoves
    <2> QED
      BY <2>2 DEF ActiveExact, PoolTypeOK, PoolsOK
  <1>9. ASSUME NEW t \in Threads, Insert(t) PROVE ActiveExact'
    BY <1>9 DEF Insert, Active, ActiveExact, Return
  <1>10. ASSUME NEW t \in Threads, Reuse(t) PROVE ActiveExact'
    BY <1>10 DEF Reuse, Active, ActiveExact, Return
  <1>11. ASSUME NEW t \in Threads, TakeOut(t) PROVE ActiveExact'
    BY <1>11 DEF TakeOut, Active, ActiveExact, Return
  <1>12. ASSUME NEW t \in Threads, Raised(t) PROVE ActiveExact'
    BY <1>12 DEF Raised, Active, ActiveExact, Return
  <1>13. CASE UNCHANGED poolVars
    BY <1>13 DEF poolVars, Active, ActiveExact
  <1> QED
    BY <1>1, <1>2, <1>3, <1>4, <1>5, <1>6, <1>7, <1>8, <1>9, <1>10, <1>11, <1>12, <1>13
       DEF PoolNext

\* A pool no answer is about keeps its map.
LEMMA MapKept ==
    ASSUME PoolTypeOK, NEW q \in Pools, MapAt(q), Active(q)' = Active(q), values'[q] = values[q],
           \A u \in Threads :
               \/ pc'[u] = pc[u] /\ pool_call'[u] = pool_call[u]
               \/ ~Answered(u, q) /\ ~Answered(u, q)'
    PROVE  MapAt(q)'
  <1>1. \A u \in Threads : Answered(u, q)' <=> Answered(u, q)
    BY DEF Answered
  <1>2. \A u \in Threads : Answered(u, q) => pool_call'[u] = pool_call[u]
    BY DEF Answered
  <1> QED
    BY <1>1, <1>2 DEF MapAt

\* The engine's answer: the pool has changed and the client's map has yet to.
LEMMA MapAnswered ==
    ASSUME PoolTypeOK, CallsSound, MapSound, NEW t \in Threads, pc[t] \notin {"idle", "back"},
           NEW p \in Pools, p = pool_call[t].pool, NEW id \in Nat, Finish(t, id),
           \A q \in Pools : q # p => Active(q)' = Active(q),
           IF pool_call[t].add THEN id \notin Active(p) /\ Active(p)' = Active(p) \cup {id}
           ELSE /\ id \in Active(p)
                /\ Active(p)' = IF pool_call[t].consume THEN Active(p) \ {id} ELSE Active(p)
    PROVE  MapSound'
  <1>1. PICK c \in PoolCalls : c = pool_call[t]
    BY OwnCall
  <1>2. /\ pc' = [pc EXCEPT ![t] = "back"] /\ values' = values
        /\ pool_call' = [pool_call EXCEPT ![t] = [c EXCEPT !.id = id]]
    BY <1>1 DEF Finish, client
  <1>3. /\ pc'[t] = "back" /\ pool_call'[t].id = id /\ pool_call'[t].pool = p
        /\ pool_call'[t].add = c.add /\ pool_call'[t].consume = c.consume
    BY <1>1, <1>2 DEF PoolCalls, PoolTypeOK, ThreadsOK
  <1>4. \A u \in Threads : u # t => pc'[u] = pc[u] /\ pool_call'[u] = pool_call[u]
    BY <1>2 DEF PoolTypeOK, ThreadsOK
  <1>5. values_lock[p] = t
    BY OwnCall
  <1>6. \A u \in Threads : ~Answered(u, p)
    BY <1>5 DEF Answered, CallsSound, CallSound
  <1>7. values[p] = Active(p)
    BY <1>6 DEF MapSound, MapAt
  <1>8. \A u \in Threads : Answered(u, p)' <=> u = t
    BY <1>3, <1>4, <1>6 DEF Answered, NoId
  <1>9. MapAt(p)'
    <2>1. IF c.add THEN id \in Active(p)' /\ values'[p] = Active(p)' \ {id}
          ELSE IF c.consume THEN id \notin Active(p)' /\ values'[p] = Active(p)' \cup {id}
          ELSE id \in Active(p)' /\ values'[p] = Active(p)'
      BY <1>1, <1>2, <1>7
    <2> QED
      BY <1>3, <1>8, <2>1 DEF MapAt
  <1>10. ASSUME NEW q \in Pools, q # p PROVE MapAt(q)'
    <2>1. ~Answered(t, q) /\ ~Answered(t, q)'
      BY <1>3, <1>10 DEF Answered
    <2> QED
      BY <1>2, <1>4, <1>10, <2>1, MapKept DEF MapSound
  <1> QED
    BY <1>9, <1>10 DEF MapSound

\* The client's half of a call: its map follows the pool.
LEMMA MapFollows ==
    ASSUME PoolTypeOK, CallsSound, MapSound, NEW t \in Threads, Return(t),
           NEW p \in Pools, p = pool_call[t].pool, pc[t] = "back", pool_call[t].id # NoId,
           values'[p] = Active(p), \A q \in Pools : q # p => values'[q] = values[q]
    PROVE  MapSound'
  <1>1. /\ pc' = [pc EXCEPT ![t] = "idle"] /\ pool_call' = [pool_call EXCEPT ![t] = NoCall]
        /\ UNCHANGED <<variables, removed>>
    BY DEF Return
  <1>2. pc'[t] = "idle" /\ \A u \in Threads : u # t => pc'[u] = pc[u] /\ pool_call'[u] = pool_call[u]
    BY <1>1 DEF PoolTypeOK, ThreadsOK
  <1>3. \A q \in Pools : Active(q)' = Active(q)
    BY <1>1 DEF Active
  <1>4. values_lock[p] = t
    BY OwnCall
  <1>5. \A u \in Threads : u # t => ~Answered(u, p)
    BY <1>4 DEF Answered, CallsSound, CallSound
  <1>6. \A u \in Threads : ~Answered(u, p)'
    BY <1>2, <1>5 DEF Answered
  <1>7. MapAt(p)'
    BY <1>3, <1>6 DEF MapAt
  <1>8. ASSUME NEW q \in Pools, q # p PROVE MapAt(q)'
    <2>1. ~Answered(t, q) /\ ~Answered(t, q)'
      BY <1>2, <1>8 DEF Answered
    <2> QED
      BY <1>2, <1>3, <1>8, <2>1, MapKept DEF MapSound
  <1> QED
    BY <1>7, <1>8 DEF MapSound

\* Every step keeps the client's maps and the engine's pools in step.
LEMMA StepMapSound ==
    PoolTypeOK /\ CallsSound /\ ActiveExact /\ MapSound /\ [PoolNext]_poolVars => MapSound'
  <1> SUFFICES ASSUME PoolTypeOK, CallsSound, ActiveExact, MapSound, [PoolNext]_poolVars
               PROVE MapSound'
    OBVIOUS
  <1>1. ASSUME NEW t \in Threads, NEW p \in Pools, PoolAdd(t, p) PROVE MapSound'
    <2>1. /\ UNCHANGED <<variables, removed, values>>
          /\ \A u \in Threads : u # t => pc'[u] = pc[u] /\ pool_call'[u] = pool_call[u]
      BY <1>1 DEF PoolAdd, Begin, PoolTypeOK, ThreadsOK
    <2>2. \A q \in Pools : Active(q)' = Active(q)
      BY <2>1 DEF Active
    <2>3. \A q \in Pools : ~Answered(t, q) /\ ~Answered(t, q)'
      BY <1>1 DEF PoolAdd, Begin, Answered, PoolTypeOK, ThreadsOK
    <2> QED
      BY <2>1, <2>2, <2>3, MapKept DEF MapSound
  <1>2. ASSUME NEW t \in Threads, NEW p \in Pools, NEW consume \in BOOLEAN, PoolGenerate(t, p, consume)
        PROVE  MapSound'
    <2>1. /\ UNCHANGED <<variables, removed, values>>
          /\ \A u \in Threads : u # t => pc'[u] = pc[u] /\ pool_call'[u] = pool_call[u]
      BY <1>2 DEF PoolGenerate, Begin, PoolTypeOK, ThreadsOK
    <2>2. \A q \in Pools : Active(q)' = Active(q)
      BY <2>1 DEF Active
    <2>3. \A q \in Pools : ~Answered(t, q) /\ ~Answered(t, q)'
      BY <1>2 DEF PoolGenerate, Begin, Answered, PoolTypeOK, ThreadsOK
    <2> QED
      BY <2>1, <2>2, <2>3, MapKept DEF MapSound
  <1>3. ASSUME NEW t \in Threads, ChoiceFails(t) PROVE MapSound'
    <2>1. /\ UNCHANGED <<variables, removed, values>>
          /\ \A u \in Threads : u # t => pc'[u] = pc[u] /\ pool_call'[u] = pool_call[u]
      BY <1>3 DEF ChoiceFails, Finish, client, PoolTypeOK, ThreadsOK
    <2>2. \A q \in Pools : Active(q)' = Active(q)
      BY <2>1 DEF Active
    <2>3. \A q \in Pools : ~Answered(t, q) /\ ~Answered(t, q)'
      BY <1>3 DEF ChoiceFails, Finish, client, Answered, PoolTypeOK, ThreadsOK, PoolCalls
    <2> QED
      BY <2>1, <2>2, <2>3, MapKept DEF MapSound
  <1>4. ASSUME NEW t \in Threads, LockRegistry(t) PROVE MapSound'
    <2>1. /\ UNCHANGED <<variables, removed, values>>
          /\ \A u \in Threads : u # t => pc'[u] = pc[u] /\ pool_call'[u] = pool_call[u]
      BY <1>4 DEF LockRegistry, client, PoolTypeOK, ThreadsOK
    <2>2. \A q \in Pools : Active(q)' = Active(q)
      BY <2>1 DEF Active
    <2>3. \A q \in Pools : ~Answered(t, q) /\ ~Answered(t, q)'
      BY <1>4 DEF LockRegistry, client, Answered, PoolTypeOK, ThreadsOK
    <2> QED
      BY <2>1, <2>2, <2>3, MapKept DEF MapSound
  <1>5. ASSUME NEW t \in Threads, Register(t) PROVE MapSound'
    <2>1. PICK p, id : p = pool_call[t].pool /\ id = FreshId(t)
      OBVIOUS
    <2>2. /\ p \in Pools /\ id \in Nat /\ id \notin fresh_ids /\ Active(p)' = Active(p) \cup {id}
          /\ \A q \in Pools : q # p => Active(q)' = Active(q)
      BY <1>5, <2>1, RegisterAdds
    <2>3. id \notin Active(p)
      BY <2>2, ActiveIsDrawn
    <2>4. pc[t] = "fresh" /\ Finish(t, id)
      BY <1>5, <2>1 DEF Register
    <2>5. pool_call[t].add
      BY <2>4 DEF CallsSound, CallSound
    <2> QED
      BY <2>1, <2>2, <2>3, <2>4, <2>5, MapAnswered
  <1>6. ASSUME NEW t \in Threads, PoolEmpty(t) PROVE MapSound'
    <2>1. /\ UNCHANGED <<variables, removed, values>>
          /\ \A u \in Threads : u # t => pc'[u] = pc[u] /\ pool_call'[u] = pool_call[u]
      BY <1>6 DEF PoolEmpty, Finish, client, PoolTypeOK, ThreadsOK
    <2>2. \A q \in Pools : Active(q)' = Active(q)
      BY <2>1 DEF Active
    <2>3. \A q \in Pools : ~Answered(t, q) /\ ~Answered(t, q)'
      BY <1>6 DEF PoolEmpty, Finish, client, Answered, PoolTypeOK, ThreadsOK, PoolCalls
    <2> QED
      BY <2>1, <2>2, <2>3, MapKept DEF MapSound
  <1>7. ASSUME NEW t \in Threads, ReadWindow(t) PROVE MapSound'
    <2>1. /\ UNCHANGED <<variables, removed, values>>
          /\ \A u \in Threads : u # t => pc'[u] = pc[u] /\ pool_call'[u] = pool_call[u]
      BY <1>7 DEF ReadWindow, client, PoolTypeOK, ThreadsOK
    <2>2. \A q \in Pools : Active(q)' = Active(q)
      BY <2>1 DEF Active
    <2>3. \A q \in Pools : ~Answered(t, q) /\ ~Answered(t, q)'
      BY <1>7 DEF ReadWindow, client, Answered, PoolTypeOK, ThreadsOK
    <2> QED
      BY <2>1, <2>2, <2>3, MapKept DEF MapSound
  <1>8. ASSUME NEW t \in Threads, Choose(t) PROVE MapSound'
    <2>1. PICK p : p = pool_call[t].pool
      OBVIOUS
    <2>2. /\ p \in Pools /\ \A q \in Pools : q # p => Active(q)' = Active(q)
          /\ \E id \in Active(p) :
                /\ Finish(t, id)
                /\ Active(p)' = IF pool_call[t].consume THEN Active(p) \ {id} ELSE Active(p)
      BY <1>8, <2>1, ChooseRemoves
    <2>3. PICK id \in Active(p) :
                /\ Finish(t, id)
                /\ Active(p)' = IF pool_call[t].consume THEN Active(p) \ {id} ELSE Active(p)
      BY <2>2
    <2>4. id \in Nat
      BY <2>2, <2>3, ActiveIsDrawn
    <2>5. pc[t] = "chosen"
      BY <1>8 DEF Choose
    <2>6. ~pool_call[t].add
      BY <2>5 DEF CallsSound, CallSound
    <2> QED
      BY <2>1, <2>2, <2>3, <2>4, <2>5, <2>6, MapAnswered
  <1>9. ASSUME NEW t \in Threads, Insert(t) PROVE MapSound'
    <2>1. PICK p : p = pool_call[t].pool
      OBVIOUS
    <2>2. pc[t] = "back" /\ pool_call[t].id # NoId /\ Return(t)
      BY <1>9 DEF Insert
    <2>3. p \in Pools /\ Answered(t, p) /\ MapAt(p)
      BY <2>1, <2>2, OwnCall DEF Answered, MapSound
    <2>4. values'[p] = Active(p)
      <3>1. PICK id : id = pool_call[t].id
        OBVIOUS
      <3>2. pool_call[t].add
        BY <1>9 DEF Insert, CallsSound, CallSound
      <3>3. values' = [values EXCEPT ![p] = values[p] \cup {id}]
        BY <1>9, <2>1, <3>1 DEF Insert
      <3>4. values'[p] = values[p] \cup {id}
        BY <2>3, <3>3 DEF PoolTypeOK, PoolsOK
      <3> QED
        BY <2>3, <3>1, <3>2, <3>4 DEF MapAt
    <2>5. \A q \in Pools : q # p => values'[q] = values[q]
      BY <1>9, <2>1 DEF Insert, PoolTypeOK, PoolsOK
    <2> QED
      BY <2>1, <2>2, <2>3, <2>4, <2>5, MapFollows
  <1>10. ASSUME NEW t \in Threads, Reuse(t) PROVE MapSound'
    <2>1. PICK p : p = pool_call[t].pool
      OBVIOUS
    <2>2. pc[t] = "back" /\ pool_call[t].id # NoId /\ Return(t)
      BY <1>10 DEF Reuse
    <2>3. p \in Pools /\ Answered(t, p) /\ MapAt(p)
      BY <2>1, <2>2, OwnCall DEF Answered, MapSound
    <2>4. values'[p] = Active(p)
      BY <1>10, <2>1, <2>3 DEF Reuse, MapAt, CallsSound, CallSound, PoolTypeOK, PoolsOK
    <2>5. \A q \in Pools : q # p => values'[q] = values[q]
      BY <1>10, <2>1 DEF Reuse, PoolTypeOK, PoolsOK
    <2> QED
      BY <2>1, <2>2, <2>3, <2>4, <2>5, MapFollows
  <1>11. ASSUME NEW t \in Threads, TakeOut(t) PROVE MapSound'
    <2>1. PICK p : p = pool_call[t].pool
      OBVIOUS
    <2>2. pc[t] = "back" /\ pool_call[t].id # NoId /\ Return(t)
      BY <1>11 DEF TakeOut
    <2>3. p \in Pools /\ Answered(t, p) /\ MapAt(p)
      BY <2>1, <2>2, OwnCall DEF Answered, MapSound
    <2>4. values'[p] = Active(p)
      <3>1. PICK id : id = pool_call[t].id
        OBVIOUS
      <3>2. ~pool_call[t].add /\ pool_call[t].consume
        BY <1>11 DEF TakeOut, CallsSound, CallSound
      <3>3. values' = [values EXCEPT ![p] = values[p] \ {id}]
        BY <1>11, <2>1, <3>1 DEF TakeOut
      <3>4. values'[p] = values[p] \ {id}
        BY <2>3, <3>3 DEF PoolTypeOK, PoolsOK
      <3> QED
        BY <2>3, <3>1, <3>2, <3>4 DEF MapAt
    <2>5. \A q \in Pools : q # p => values'[q] = values[q]
      BY <1>11, <2>1 DEF TakeOut, PoolTypeOK, PoolsOK
    <2> QED
      BY <2>1, <2>2, <2>3, <2>4, <2>5, MapFollows
  <1>12. ASSUME NEW t \in Threads, Raised(t) PROVE MapSound'
    <2>1. /\ UNCHANGED <<variables, removed, values>>
          /\ \A u \in Threads : u # t => pc'[u] = pc[u] /\ pool_call'[u] = pool_call[u]
      BY <1>12 DEF Raised, Return, PoolTypeOK, ThreadsOK
    <2>2. \A q \in Pools : Active(q)' = Active(q)
      BY <2>1 DEF Active
    <2>3. \A q \in Pools : ~Answered(t, q) /\ ~Answered(t, q)'
      BY <1>12 DEF Raised, Return, Answered, PoolTypeOK, ThreadsOK
    <2> QED
      BY <2>1, <2>2, <2>3, MapKept DEF MapSound
  <1>13. CASE UNCHANGED poolVars
    BY <1>13 DEF poolVars, client, MapSound, MapAt, Answered, Active
  <1> QED
    BY <1>1, <1>2, <1>3, <1>4, <1>5, <1>6, <1>7, <1>8, <1>9, <1>10, <1>11, <1>12, <1>13
       DEF PoolNext

\* The stream of t has one more node than before, the one at n.
NodeAppended(t, kind, value, n) ==
    /\ \A u \in Threads : u # t => nodes'[u] = nodes[u]
    /\ DOMAIN nodes'[t] = DOMAIN nodes[t] \cup {n} /\ n \notin DOMAIN nodes[t]
    /\ \A i \in DOMAIN nodes[t] : nodes'[t][i] = nodes[t][i]
    /\ nodes'[t][n].kind = kind /\ nodes'[t][n].value = value

\* A recorded choice is appended to the stream that draws it.
LEMMA NodePushed ==
    ASSUME PoolTypeOK, NEW t \in Threads, NEW kind \in {"fresh", "choice"}, NEW value \in Nat,
           NEW hi \in Int,
           PushNode(t, kind, value, hi), NEW n, n = Len(nodes[t]) + 1
    PROVE  NodeAppended(t, kind, value, n)
  <1>1. PICK old \in Seq(Draws) : old = nodes[t]
    BY DEF PoolTypeOK, StreamsOK
  <1>2. PICK node \in Draws : node = [kind |-> kind, value |-> value, hi |-> hi]
    BY DEF Draws
  <1>3. nodes' = [nodes EXCEPT ![t] = Append(old, node)]
    BY <1>1, <1>2 DEF PushNode
  <1>4. nodes'[t] = Append(old, node) /\ \A u \in Threads : u # t => nodes'[u] = nodes[u]
    BY <1>3 DEF PoolTypeOK, StreamsOK
  <1>5. /\ DOMAIN Append(old, node) = DOMAIN old \cup {Len(old) + 1} /\ Len(old) + 1 \notin DOMAIN old
        /\ \A i \in DOMAIN old : Append(old, node)[i] = old[i]
        /\ Append(old, node)[Len(old) + 1] = node
    BY <1>1, <1>2, AppendFacts
  <1>6. PICK new : new = Append(old, node)
    OBVIOUS
  <1>7. /\ DOMAIN new = DOMAIN old \cup {n} /\ n \notin DOMAIN old
        /\ \A i \in DOMAIN old : new[i] = old[i]
        /\ new[n] = node
    BY <1>1, <1>5, <1>6
  <1>8. nodes'[t] = new
    BY <1>4, <1>6
  <1>9. node.kind = kind /\ node.value = value
    BY <1>2
  <1> QED
    BY <1>1, <1>4, <1>7, <1>8, <1>9 DEF NodeAppended

\* A choice from a pool leaves the registry sound.
LEMMA ChoiceKeepsRegistry ==
    ASSUME PoolTypeOK, RegistrySound, fresh_ids' = fresh_ids, NEW t \in Threads, NEW n,
           \A u \in Threads : u # t => nodes'[u] = nodes[u],
           DOMAIN nodes'[t] = DOMAIN nodes[t] \cup {n}, n \notin DOMAIN nodes[t],
           \A i \in DOMAIN nodes[t] : nodes'[t][i] = nodes[t][i], nodes'[t][n].kind # "fresh"
    PROVE  RegistrySound'
  <1>1. \A u \in Threads : \A i \in DOMAIN nodes'[u] :
           nodes'[u][i].kind = "fresh" => i \in DOMAIN nodes[u] /\ nodes'[u][i] = nodes[u][i]
    OBVIOUS
  <1>2. \A u \in Threads : \A i \in DOMAIN nodes[u] : i \in DOMAIN nodes'[u] /\ nodes'[u][i] = nodes[u][i]
    OBVIOUS
  <1>3. \A u \in Threads : \A i \in DOMAIN nodes'[u] :
           nodes'[u][i].kind = "fresh" => nodes'[u][i].value \in fresh_ids'
    BY <1>1 DEF RegistrySound
  <1>4. \A x \in fresh_ids' : \E u \in Threads : \E i \in DOMAIN nodes'[u] :
           nodes'[u][i].kind = "fresh" /\ nodes'[u][i].value = x
    <2> SUFFICES ASSUME NEW x \in fresh_ids
                 PROVE  \E u \in Threads : \E i \in DOMAIN nodes'[u] :
                            nodes'[u][i].kind = "fresh" /\ nodes'[u][i].value = x
      OBVIOUS
    <2>1. PICK u \in Threads : \E i \in DOMAIN nodes[u] : nodes[u][i].kind = "fresh" /\ nodes[u][i].value = x
      BY DEF RegistrySound
    <2>2. PICK i \in DOMAIN nodes[u] : nodes[u][i].kind = "fresh" /\ nodes[u][i].value = x
      BY <2>1
    <2> QED
      BY <1>2, <2>2
  <1>5. \A u, v \in Threads : \A i \in DOMAIN nodes'[u], j \in DOMAIN nodes'[v] :
          /\ nodes'[u][i].kind = "fresh" /\ nodes'[v][j].kind = "fresh"
          /\ nodes'[u][i].value = nodes'[v][j].value
          => u = v /\ i = j
    BY <1>1 DEF RegistrySound
  <1> QED
    BY <1>3, <1>4, <1>5 DEF RegistrySound

\* A fresh identifier, being unused, leaves the registry sound.
LEMMA FreshKeepsRegistry ==
    ASSUME PoolTypeOK, RegistrySound, NEW t \in Threads, NEW n, NEW id, id \notin fresh_ids,
           fresh_ids' = fresh_ids \cup {id},
           \A u \in Threads : u # t => nodes'[u] = nodes[u],
           DOMAIN nodes'[t] = DOMAIN nodes[t] \cup {n}, n \notin DOMAIN nodes[t],
           \A i \in DOMAIN nodes[t] : nodes'[t][i] = nodes[t][i],
           nodes'[t][n].kind = "fresh", nodes'[t][n].value = id
    PROVE  RegistrySound'
  <1>1. \A u \in Threads : \A i \in DOMAIN nodes'[u] :
           \/ u = t /\ i = n
           \/ i \in DOMAIN nodes[u] /\ nodes'[u][i] = nodes[u][i]
    OBVIOUS
  <1>2. \A u \in Threads : \A i \in DOMAIN nodes[u] : i \in DOMAIN nodes'[u] /\ nodes'[u][i] = nodes[u][i]
    OBVIOUS
  <1>3. \A u \in Threads : \A i \in DOMAIN nodes'[u] :
           nodes'[u][i].kind = "fresh" => nodes'[u][i].value \in fresh_ids'
    BY <1>1 DEF RegistrySound
  <1>4. \A x \in fresh_ids' : \E u \in Threads : \E i \in DOMAIN nodes'[u] :
           nodes'[u][i].kind = "fresh" /\ nodes'[u][i].value = x
    <2>1. ASSUME NEW x \in fresh_ids
          PROVE  \E u \in Threads : \E i \in DOMAIN nodes'[u] :
                     nodes'[u][i].kind = "fresh" /\ nodes'[u][i].value = x
      <3>1. PICK u \in Threads : \E i \in DOMAIN nodes[u] : nodes[u][i].kind = "fresh" /\ nodes[u][i].value = x
        BY DEF RegistrySound
      <3>2. PICK i \in DOMAIN nodes[u] : nodes[u][i].kind = "fresh" /\ nodes[u][i].value = x
        BY <3>1
      <3> QED
        BY <1>2, <3>2
    <2>2. n \in DOMAIN nodes'[t] /\ nodes'[t][n].kind = "fresh" /\ nodes'[t][n].value = id
      OBVIOUS
    <2> QED
      BY <2>1, <2>2
  <1>5. ASSUME NEW u \in Threads, NEW v \in Threads, NEW i \in DOMAIN nodes'[u], NEW j \in DOMAIN nodes'[v],
               nodes'[u][i].kind = "fresh", nodes'[v][j].kind = "fresh",
               nodes'[u][i].value = nodes'[v][j].value
        PROVE  u = v /\ i = j
    <2>1. \A w \in Threads : \A k \in DOMAIN nodes[w] : nodes[w][k].kind = "fresh" => nodes[w][k].value # id
      BY DEF RegistrySound
    <2>2. CASE u = t /\ i = n
      BY <1>1, <1>5, <2>1, <2>2
    <2>3. CASE v = t /\ j = n
      BY <1>1, <1>5, <2>1, <2>3
    <2>4. CASE /\ i \in DOMAIN nodes[u] /\ nodes'[u][i] = nodes[u][i]
               /\ j \in DOMAIN nodes[v] /\ nodes'[v][j] = nodes[v][j]
      BY <1>5, <2>4 DEF RegistrySound
    <2> QED
      BY <1>1, <2>2, <2>3, <2>4
  <1> QED
    BY <1>3, <1>4, <1>5 DEF RegistrySound

\* Every step keeps the registry to the identifiers drawn, each drawn once.
LEMMA StepRegistrySound ==
    PoolTypeOK /\ CallsSound /\ ActiveExact /\ RegistrySound /\ [PoolNext]_poolVars => RegistrySound'
  <1> SUFFICES ASSUME PoolTypeOK, CallsSound, ActiveExact, RegistrySound, [PoolNext]_poolVars
               PROVE RegistrySound'
    OBVIOUS
  <1>1. ASSUME NEW t \in Threads, NEW p \in Pools, PoolAdd(t, p)
        PROVE  RegistrySound'
    BY <1>1 DEF PoolAdd, RegistrySound
  <1>2. ASSUME NEW t \in Threads, NEW p \in Pools, NEW consume \in BOOLEAN, PoolGenerate(t, p, consume)
        PROVE  RegistrySound'
    BY <1>2 DEF PoolGenerate, RegistrySound
  <1>3. ASSUME NEW t \in Threads, ChoiceFails(t) PROVE RegistrySound'
    BY <1>3 DEF ChoiceFails, RegistrySound
  <1>4. ASSUME NEW t \in Threads, LockRegistry(t) PROVE RegistrySound'
    BY <1>4 DEF LockRegistry, RegistrySound
  <1>5. ASSUME NEW t \in Threads, Register(t) PROVE RegistrySound'
    <2>1. PICK id \in Nat : id = FreshId(t) /\ id \notin fresh_ids
      BY <1>5, FreshIsUnused DEF Register
    <2>2. PICK n : n = Len(nodes[t]) + 1
      OBVIOUS
    <2>3. PICK hi \in Int : hi = pool_call[t].hi
      BY DEF PoolTypeOK, ThreadsOK, PoolCalls
    <2>4. PushNode(t, "fresh", id, hi) /\ fresh_ids' = fresh_ids \cup {id}
      BY <1>5, <2>1, <2>3 DEF Register
    <2>5. /\ \A u \in Threads : u # t => nodes'[u] = nodes[u]
          /\ DOMAIN nodes'[t] = DOMAIN nodes[t] \cup {n} /\ n \notin DOMAIN nodes[t]
          /\ \A i \in DOMAIN nodes[t] : nodes'[t][i] = nodes[t][i]
          /\ nodes'[t][n].kind = "fresh" /\ nodes'[t][n].value = id
      <3>1. NodeAppended(t, "fresh", id, n)
        BY <2>2, <2>4, NodePushed
      <3> QED
        BY <3>1 DEF NodeAppended
    <2> QED
      BY <2>1, <2>4, <2>5, FreshKeepsRegistry
  <1>6. ASSUME NEW t \in Threads, PoolEmpty(t) PROVE RegistrySound'
    BY <1>6 DEF PoolEmpty, RegistrySound
  <1>7. ASSUME NEW t \in Threads, ReadWindow(t) PROVE RegistrySound'
    BY <1>7 DEF ReadWindow, RegistrySound
  <1>8. ASSUME NEW t \in Threads, Choose(t) PROVE RegistrySound'
    <2>1. PICK id \in Eligible(t) : PushNode(t, "choice", id, pool_call[t].hi)
      BY <1>8 DEF Choose
    <2>2. id \in Nat /\ fresh_ids' = fresh_ids
      BY <1>8, <2>1, EligibleIsActive DEF Choose, PoolTypeOK, StreamsOK
    <2>3. PICK hi \in Int : hi = pool_call[t].hi
      BY DEF PoolTypeOK, ThreadsOK, PoolCalls
    <2>4. PICK n : n = Len(nodes[t]) + 1
      OBVIOUS
    <2>5. /\ \A u \in Threads : u # t => nodes'[u] = nodes[u]
          /\ DOMAIN nodes'[t] = DOMAIN nodes[t] \cup {n} /\ n \notin DOMAIN nodes[t]
          /\ \A i \in DOMAIN nodes[t] : nodes'[t][i] = nodes[t][i]
          /\ nodes'[t][n].kind = "choice"
      <3>1. NodeAppended(t, "choice", id, n)
        BY <2>1, <2>2, <2>3, <2>4, NodePushed
      <3> QED
        BY <3>1 DEF NodeAppended
    <2> QED
      BY <2>2, <2>5, ChoiceKeepsRegistry
  <1>9. ASSUME NEW t \in Threads, Insert(t) PROVE RegistrySound'
    BY <1>9 DEF Insert, RegistrySound, Return
  <1>10. ASSUME NEW t \in Threads, Reuse(t) PROVE RegistrySound'
    BY <1>10 DEF Reuse, RegistrySound, Return
  <1>11. ASSUME NEW t \in Threads, TakeOut(t) PROVE RegistrySound'
    BY <1>11 DEF TakeOut, RegistrySound, Return
  <1>12. ASSUME NEW t \in Threads, Raised(t) PROVE RegistrySound'
    BY <1>12 DEF Raised, RegistrySound, Return
  <1>13. CASE UNCHANGED poolVars
    BY <1>13 DEF poolVars, RegistrySound
  <1> QED
    BY <1>1, <1>2, <1>3, <1>4, <1>5, <1>6, <1>7, <1>8, <1>9, <1>10, <1>11, <1>12, <1>13
       DEF PoolNext

\* A single stream that replays a record with one identifier deleted replays every other one
\* as it was: the window reaches over the gap, and the identifier is unused (draw_fresh_id).
LEMMA ReplayedIsFresh ==
    ASSUME PoolTypeOK, CallsSound, RegistrySound, NEW t \in Threads, pc[t] = "fresh",
           OneDeleted(prefix[t]), \A u \in Threads \ {t} : nodes[u] = <<>>,
           \A i \in DOMAIN nodes[t] : nodes[t][i].kind = "fresh",
           \A i \in DOMAIN nodes[t] \cap DOMAIN prefix[t] : nodes[t][i].value = prefix[t][i],
           Replays(t)
    PROVE  FreshId(t) = Replayed(t)
  <1>1. PICK seq \in Seq(Nat) : seq = prefix[t]
    BY DEF PoolTypeOK, StreamsOK
  <1>2. PICK own \in Seq(Draws) : own = nodes[t]
    BY DEF PoolTypeOK, StreamsOK
  <1>3. PICK n \in Nat : n = Len(own)
    OBVIOUS
  <1>4. n < Len(seq) /\ DOMAIN own = 1 .. n /\ DOMAIN seq = 1 .. Len(seq)
    BY <1>1, <1>2, <1>3 DEF Replays
  <1>5. PICK x \in Nat : x = seq[n + 1] /\ x = Replayed(t)
    BY <1>1, <1>2, <1>3, <1>4 DEF Replayed
  <1>6. PICK k \in 1 .. Len(seq) + 1 : \A i \in DOMAIN seq : seq[i] = IF i < k THEN i - 1 ELSE i
    BY <1>1 DEF OneDeleted
  <1>15. n + 1 \in DOMAIN seq /\ \A i \in 1 .. n : i \in DOMAIN seq /\ i \in Nat /\ i <= n
    BY <1>4
  <1>16. x = IF n + 1 < k THEN n ELSE n + 1
    <2>1. PICK m \in DOMAIN seq : m = n + 1
      BY <1>15
    <2>2. x = seq[m]
      BY <1>5, <2>1
    <2>3. seq[m] = IF m < k THEN m - 1 ELSE m
      BY <1>6
    <2>4. m - 1 = n
      BY <2>1
    <2> QED
      BY <2>1, <2>2, <2>3, <2>4
  <1>17. \A i \in 1 .. n : seq[i] = IF i < k THEN i - 1 ELSE i
    BY <1>6, <1>15
  <1>18. k \in Nat
    OBVIOUS
  <1>7. \A i \in 1 .. n : seq[i] < x /\ (i = n => x <= seq[i] + 2)
    BY <1>16, <1>17, <1>18
  <1>8. n = 0 => x <= 1
    BY <1>16
  <1>9. \A y \in fresh_ids : \E i \in 1 .. n : y = seq[i]
    <2> SUFFICES ASSUME NEW y \in fresh_ids PROVE \E i \in 1 .. n : y = seq[i]
      OBVIOUS
    <2>1. PICK u \in Threads : \E i \in DOMAIN nodes[u] : nodes[u][i].value = y
      BY DEF RegistrySound
    <2>2. u = t
      BY <2>1
    <2>3. PICK i \in DOMAIN own : own[i].value = y
      BY <1>2, <2>1, <2>2
    <2>4. i \in 1 .. n /\ i \in DOMAIN nodes[t] \cap DOMAIN prefix[t]
      BY <1>1, <1>2, <1>4, <1>15
    <2>5. own[i].value = seq[i]
      BY <1>1, <1>2, <2>4
    <2> QED
      BY <2>3, <2>4, <2>5
  <1>10. x \notin fresh_ids
    BY <1>7, <1>9
  <1>11. PICK m \in Nat : fresh_ids \subseteq 0 .. m
    BY DEF PoolTypeOK, StreamsOK
  <1>12. PICK top \in Nat \cup {-1} : top = Largest(fresh_ids) /\ \A y \in fresh_ids : y <= top
    BY <1>11, LargestIs
  <1>13. pool_call[t].hi = top + 2
    BY <1>12 DEF CallsSound, CallSound
  <1>14. x <= top + 2
    <2>1. CASE n = 0
      BY <1>8, <2>1
    <2>2. CASE n # 0
      <3>1. n \in 1 .. n /\ n \in DOMAIN own /\ n \in DOMAIN seq
        BY <1>4, <2>2
      <3>2. nodes[t][n].value = seq[n]
        BY <1>1, <1>2, <3>1
      <3>3. nodes[t][n].kind = "fresh"
        BY <1>2, <3>1
      <3>4. seq[n] \in fresh_ids
        BY <1>2, <3>1, <3>2, <3>3 DEF RegistrySound
      <3> QED
        BY <1>7, <1>12, <3>1, <3>4
    <2> QED
      BY <2>1, <2>2
  <1> QED
    BY <1>5, <1>10, <1>13, <1>14 DEF FreshId

\* Every step keeps the identifiers of a replayed record when one was deleted.
LEMMA StepStable ==
    PoolTypeOK /\ CallsSound /\ ActiveExact /\ RegistrySound /\ StableUnderDeletion /\
    [PoolNext]_poolVars =>
        StableUnderDeletion'
  <1> SUFFICES ASSUME PoolTypeOK, CallsSound, ActiveExact, RegistrySound, StableUnderDeletion,
                      [PoolNext]_poolVars
               PROVE StableUnderDeletion'
    OBVIOUS
  <1>1. ASSUME NEW t \in Threads, NEW p \in Pools, PoolAdd(t, p)
        PROVE  StableUnderDeletion'
    BY <1>1 DEF PoolAdd, StableUnderDeletion
  <1>2. ASSUME NEW t \in Threads, NEW p \in Pools, NEW consume \in BOOLEAN, PoolGenerate(t, p, consume)
        PROVE  StableUnderDeletion'
    BY <1>2 DEF PoolGenerate, StableUnderDeletion
  <1>3. ASSUME NEW t \in Threads, ChoiceFails(t) PROVE StableUnderDeletion'
    BY <1>3 DEF ChoiceFails, StableUnderDeletion
  <1>4. ASSUME NEW t \in Threads, LockRegistry(t) PROVE StableUnderDeletion'
    BY <1>4 DEF LockRegistry, StableUnderDeletion
  <1>5. ASSUME NEW t \in Threads, Register(t) PROVE StableUnderDeletion'
    <2>1. PICK id \in Nat : id = FreshId(t)
      BY <1>5, FreshIsUnused DEF Register
    <2>2. PICK n : n = Len(nodes[t]) + 1
      OBVIOUS
    <2>3. PICK hi \in Int : hi = pool_call[t].hi
      BY DEF PoolTypeOK, ThreadsOK, PoolCalls
    <2>4. PushNode(t, "fresh", id, hi) /\ prefix' = prefix
      BY <1>5, <2>1, <2>3 DEF Register
    <2>5. /\ \A v \in Threads : v # t => nodes'[v] = nodes[v]
          /\ DOMAIN nodes'[t] = DOMAIN nodes[t] \cup {n} /\ n \notin DOMAIN nodes[t]
          /\ \A j \in DOMAIN nodes[t] : nodes'[t][j] = nodes[t][j]
          /\ nodes'[t][n].kind = "fresh" /\ nodes'[t][n].value = id
      <3>1. NodeAppended(t, "fresh", id, n)
        BY <2>2, <2>4, NodePushed
      <3> QED
        BY <3>1 DEF NodeAppended
    <2> SUFFICES ASSUME NEW u \in Threads, OneDeleted(prefix'[u]),
                        \A v \in Threads \ {u} : nodes'[v] = <<>>,
                        \A i \in DOMAIN nodes'[u] : nodes'[u][i].kind = "fresh",
                        NEW i \in DOMAIN nodes'[u] \cap DOMAIN prefix'[u]
                 PROVE  nodes'[u][i].value = prefix'[u][i]
      BY DEF StableUnderDeletion
    <2>6. u = t
      BY <2>5
    <2>7. \A v \in Threads \ {t} : nodes[v] = <<>>
      BY <2>5, <2>6
    <2>8. \A j \in DOMAIN nodes[t] : nodes[t][j].kind = "fresh"
      BY <2>5, <2>6
    <2>9. \A j \in DOMAIN nodes[t] \cap DOMAIN prefix[t] : nodes[t][j].value = prefix[t][j]
      BY <2>4, <2>6, <2>7, <2>8 DEF StableUnderDeletion
    <2>10. CASE i # n
      BY <2>4, <2>5, <2>6, <2>9, <2>10
    <2>11. CASE i = n
      <3>1. Replays(t) /\ Replayed(t) = prefix[t][n]
        BY <2>2, <2>4, <2>6, <2>11 DEF Replays, Replayed, PoolTypeOK, StreamsOK
      <3>2. FreshId(t) = Replayed(t)
        BY <1>5, <2>4, <2>6, <2>7, <2>8, <2>9, <3>1, ReplayedIsFresh DEF Register
      <3> QED
        BY <2>1, <2>4, <2>5, <2>6, <2>11, <3>1, <3>2
    <2> QED
      BY <2>10, <2>11
  <1>6. ASSUME NEW t \in Threads, PoolEmpty(t) PROVE StableUnderDeletion'
    BY <1>6 DEF PoolEmpty, StableUnderDeletion
  <1>7. ASSUME NEW t \in Threads, ReadWindow(t) PROVE StableUnderDeletion'
    BY <1>7 DEF ReadWindow, StableUnderDeletion
  <1>8. ASSUME NEW t \in Threads, Choose(t) PROVE StableUnderDeletion'
    <2>1. PICK id \in Eligible(t) : PushNode(t, "choice", id, pool_call[t].hi)
      BY <1>8 DEF Choose
    <2>2. id \in Nat /\ prefix' = prefix
      BY <1>8, <2>1, EligibleIsActive DEF Choose, PoolTypeOK, StreamsOK
    <2>3. PICK hi \in Int : hi = pool_call[t].hi
      BY DEF PoolTypeOK, ThreadsOK, PoolCalls
    <2>4. PICK n : n = Len(nodes[t]) + 1
      OBVIOUS
    <2>5. n \in DOMAIN nodes'[t] /\ nodes'[t][n].kind = "choice"
      <3>1. PushNode(t, "choice", id, hi)
        BY <2>1, <2>3
      <3>2. DOMAIN nodes'[t] = DOMAIN nodes[t] \cup {n} /\ nodes'[t][n].kind = "choice"
        <4>1. NodeAppended(t, "choice", id, n)
          BY <2>2, <2>4, <3>1, NodePushed
        <4> QED
          BY <4>1 DEF NodeAppended
      <3> QED
        BY <3>2
    <2> QED
      BY <2>5 DEF StableUnderDeletion
  <1>9. ASSUME NEW t \in Threads, Insert(t) PROVE StableUnderDeletion'
    BY <1>9 DEF Insert, StableUnderDeletion, Return
  <1>10. ASSUME NEW t \in Threads, Reuse(t) PROVE StableUnderDeletion'
    BY <1>10 DEF Reuse, StableUnderDeletion, Return
  <1>11. ASSUME NEW t \in Threads, TakeOut(t) PROVE StableUnderDeletion'
    BY <1>11 DEF TakeOut, StableUnderDeletion, Return
  <1>12. ASSUME NEW t \in Threads, Raised(t) PROVE StableUnderDeletion'
    BY <1>12 DEF Raised, StableUnderDeletion, Return
  <1>13. CASE UNCHANGED poolVars
    BY <1>13 DEF poolVars, StableUnderDeletion
  <1> QED
    BY <1>1, <1>2, <1>3, <1>4, <1>5, <1>6, <1>7, <1>8, <1>9, <1>10, <1>11, <1>12, <1>13
       DEF PoolNext

-----------------------------------------------------------------------------
(* The theorems.                                                                *)

\* The invariant holds at the start: no draws, empty pools, no call under way.
LEMMA PoolInitInv == PoolInit => PoolInv
  <1> SUFFICES ASSUME PoolInit PROVE PoolInv
    OBVIOUS
  <1>1. NoCall \in PoolCalls /\ NoCall.add = FALSE /\ NoCall.consume = FALSE
    BY CallTyped DEF NoCall, PoolCall
  <1>2. StreamsOK
    <2>1. prefix \in [Threads -> Seq(Nat)]
      BY PoolConstantsOK DEF PoolInit
    <2>2. nodes \in [Threads -> Seq(Draws)]
      BY DEF PoolInit
    <2>3. fresh_ids \subseteq 0 .. 0 /\ fresh_ids \subseteq Nat /\ registry_lock \in Threads \cup {Nobody}
      BY DEF PoolInit
    <2> QED
      BY <2>1, <2>2, <2>3 DEF StreamsOK
  <1>3. PoolsOK
    BY DEF PoolInit, PoolsOK
  <1>4. ThreadsOK
    BY <1>1 DEF PoolInit, ThreadsOK
  <1>5. CallsSound
    BY <1>1 DEF PoolInit, CallsSound, CallSound
  <1>6. \A p \in Pools : Active(p) = {}
    BY DEF PoolInit, Active, Range
  <1>7. ActiveExact
    BY <1>6 DEF PoolInit, ActiveExact
  <1>8. MapSound
    BY <1>6 DEF PoolInit, MapSound, MapAt, Answered
  <1>9. \A t \in Threads : DOMAIN nodes[t] = {}
    BY DEF PoolInit
  <1>10. RegistrySound
    BY <1>9 DEF PoolInit, RegistrySound
  <1>11. StableUnderDeletion
    BY <1>9 DEF StableUnderDeletion
  <1> QED
    BY <1>2, <1>3, <1>4, <1>5, <1>7, <1>8, <1>10, <1>11 DEF PoolInv, PoolTypeOK

\* Every call of the pools, by whichever thread and in whichever order, keeps the invariant.
LEMMA PoolInvariance == PoolSpec => []PoolInv
  <1>1. PoolInv /\ [PoolNext]_poolVars => PoolInv'
    BY StepStreamsOK, StepPoolsOK, StepThreadsOK, StepCallsSound, StepActiveExact, StepMapSound,
       StepRegistrySound, StepStable DEF PoolInv, PoolTypeOK
  <1> QED
    BY <1>1, PoolInitInv, PTL DEF PoolSpec

\* Streams, registry, pools and calls keep their types.
THEOREM PoolTypeCorrect == PoolSpec => []PoolTypeOK
  <1>1. PoolInv => PoolTypeOK
    BY DEF PoolInv
  <1> QED
    BY <1>1, PoolInvariance, PTL

\* The engine's pool and the client's map of values never part, whatever the threads' adding,
\* reusing and consuming draws interleave to: every identifier the engine hands out has its
\* value, and every one it assigns is new (NativeVariables, ConcurrentPool).
THEOREM Lockstep == PoolSpec => []PoolsInLockstep
  <1>1. PoolInv => PoolsInLockstep
    <2> SUFFICES ASSUME PoolInv, NEW t \in Threads, pc[t] = "back", pool_call[t].id # NoId
                 PROVE  pool_call[t].add <=> pool_call[t].id \notin values[pool_call[t].pool]
      BY DEF PoolInv, PoolsInLockstep, DrawnHasValue
    <2>1. PICK c \in PoolCalls : c = pool_call[t]
      BY DEF PoolInv, PoolTypeOK, ThreadsOK
    <2>2. c.pool \in Pools /\ MapAt(c.pool) /\ Answered(t, c.pool)
      BY <2>1, OwnCall DEF PoolInv, MapSound, Answered
    <2> QED
      BY <2>1, <2>2 DEF MapAt
  <1> QED
    BY <1>1, PoolInvariance, PTL

\* No two draws realise the same identifier, and deleting one addition from a record leaves
\* the others as they were (draw_fresh_id's window and its repair).
THEOREM Stable == PoolSpec => []IdentifiersStable
  <1>1. PoolInv => IdentifiersStable
    <2> SUFFICES ASSUME PoolInv, NEW a \in FreshNodes, NEW b \in FreshNodes,
                        nodes[a[1]][a[2]].value = nodes[b[1]][b[2]].value
                 PROVE  a = b
      BY DEF PoolInv, IdentifiersStable, IdsUnique
    <2>1. \A c \in FreshNodes : \E t \in Threads : \E i \in DOMAIN nodes[t] :
             c = <<t, i>> /\ nodes[t][i].kind = "fresh"
      BY DEF FreshNodes
    <2>2. PICK t \in Threads : \E i \in DOMAIN nodes[t] : a = <<t, i>> /\ nodes[t][i].kind = "fresh"
      BY <2>1
    <2>3. PICK u \in Threads : \E j \in DOMAIN nodes[u] : b = <<u, j>> /\ nodes[u][j].kind = "fresh"
      BY <2>1
    <2>5. PICK i \in DOMAIN nodes[t] : a = <<t, i>> /\ nodes[t][i].kind = "fresh"
      BY <2>2
    <2>6. PICK j \in DOMAIN nodes[u] : b = <<u, j>> /\ nodes[u][j].kind = "fresh"
      BY <2>3
    <2>7. nodes[t][i].value = nodes[u][j].value
      BY <2>5, <2>6
    <2>4. t = u /\ i = j
      BY <2>5, <2>6, <2>7 DEF PoolInv, RegistrySound
    <2> QED
      BY <2>4, <2>5, <2>6
  <1> QED
    BY <1>1, PoolInvariance, PTL
=============================================================================
