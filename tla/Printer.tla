------------------------------ MODULE Printer ------------------------------
(* The recording half of the pretty printer (native/printer.rs): a document   *)
(* whose main output and deferred holes ("slots") are written by handles on   *)
(* any threads, with speculative regions that are committed or retracted,     *)
(* and that is sealed when it is read. Every operation runs under the         *)
(* document's mutex, so an operation is one step.                             *)
(* A command is [op |-> "text" | "begin" | "end" | "splice" | ..., n |-> its  *)
(* width, indent or slot]; a target is 0 for the main output, i for slot i.   *)
EXTENDS Integers, Sequences, FiniteSets
LOCAL INSTANCE SequencesExt

CONSTANTS Written,      \* the commands other than splices that handles write
          MaxCommands,  \* bound on the commands a document records
          MaxHoles      \* bound on the holes opened in it
ASSUME PrinterBounds == MaxCommands \in Nat /\ MaxHoles \in Nat

VARIABLES
    doc,    \* the Printer
    last    \* result of the last operation
printerVars == <<doc, last>>

Main == 0
Splice(i) == [op |-> "splice", n |-> i]

NewSlot == [commands |-> <<>>, speculation |-> <<>>, dead |-> FALSE]
NewPrinter == [main |-> <<>>, open_groups |-> 0, speculation |-> <<>>, slots |-> <<>>,
               pending_resolve |-> FALSE, sealed |-> FALSE]

Slots(d) == DOMAIN d.slots
Targets(d) == {Main} \cup Slots(d)
IsLive(d, t) == ~d.sealed /\ (t # Main => ~d.slots[t].dead)
Speculation(d, t) == IF t = Main THEN d.speculation ELSE d.slots[t].speculation

Ok(d) == [doc |-> d, res |-> "ok"]
Err(d, e) == [doc |-> d, res |-> e]

SpliceIds(cmds) == {cmds[k].n : k \in {j \in DOMAIN cmds : cmds[j].op = "splice"}}

\* Writing to a region: into its innermost speculative buffer if one is open.
\* Mutant: a write to a slot skips the slot's own open speculation.
DispatchToCommands(d, t, cmd) ==
    IF t = Main \/ ~IsLive(d, t) THEN Err(d, "DeadSlot")
    ELSE Ok([d EXCEPT !.main = Append(@, cmd)])
Dispatch(d, t, cmd) ==
    CASE ~IsLive(d, t) -> Err(d, "DeadSlot")
      [] IsLive(d, t) /\ Speculation(d, t) # <<>> ->
            IF t = Main
            THEN Ok([d EXCEPT !.speculation[Len(d.speculation)] = Append(@, cmd)])
            ELSE Ok([d EXCEPT !.slots[t].speculation[Len(d.slots[t].speculation)] =
                                  Append(@, cmd)])
      [] IsLive(d, t) /\ Speculation(d, t) = <<>> /\ t # Main ->
            Ok([d EXCEPT !.slots[t].commands = Append(@, cmd)])
      [] OTHER ->
            IF cmd.op = "end" /\ d.slots = <<>> /\ d.open_groups = 0
            THEN Err(d, "UnbalancedGroup")
            ELSE Ok([d EXCEPT !.main = Append(@, cmd),
                              !.open_groups = CASE cmd.op = "begin" -> @ + 1
                                                [] cmd.op = "end" -> @ - 1
                                                [] OTHER -> @,
                              !.pending_resolve = @ \/ cmd.op = "splice"])

\* deferred: opens a hole at the current position of the region.
Deferred(d, t) ==
    IF ~IsLive(d, t) THEN Err(d, "DeadSlot")
    ELSE Dispatch([d EXCEPT !.slots = Append(@, NewSlot)], t, Splice(Len(d.slots) + 1))

BeginSpeculative(d, t) ==
    CASE ~IsLive(d, t) -> Err(d, "DeadSlot")
      [] IsLive(d, t) /\ t = Main -> Ok([d EXCEPT !.speculation = Append(@, <<>>)])
      [] OTHER -> Ok([d EXCEPT !.slots[t].speculation = Append(@, <<>>)])

\* The group balance after each command of a buffer, from balance b.
Balances(b, buf) ==
    [k \in DOMAIN buf |->
        b + Cardinality({j \in 1..k : buf[j].op = "begin"})
          - Cardinality({j \in 1..k : buf[j].op = "end"})]

\* commit_speculative: the innermost buffer joins the buffer around it or the region.
CommitSpeculative(d, t) ==
    LET spec == Speculation(d, t)
        buf == Last(spec)
        outer == [Front(spec) EXCEPT ![Len(spec) - 1] = @ \o buf]
        balances == Balances(d.open_groups, buf)
    IN  CASE ~IsLive(d, t) -> Err(d, "DeadSlot")
          [] IsLive(d, t) /\ spec = <<>> -> Err(d, "NoSpeculation")
          [] IsLive(d, t) /\ Len(spec) > 1 ->
                IF t = Main THEN Ok([d EXCEPT !.speculation = outer])
                ELSE Ok([d EXCEPT !.slots[t].speculation = outer])
          [] IsLive(d, t) /\ Len(spec) = 1 /\ t # Main ->
                Ok([d EXCEPT !.slots[t].speculation = <<>>, !.slots[t].commands = @ \o buf])
          [] OTHER ->
                IF d.slots = <<>> /\ \E k \in DOMAIN buf : balances[k] < 0 /\ buf[k].op = "end"
                THEN Err(d, "UnbalancedGroup")
                ELSE Ok([d EXCEPT
                            !.speculation = <<>>,
                            !.main = @ \o buf,
                            !.open_groups = IF buf = <<>> THEN @ ELSE balances[Len(buf)],
                            !.pending_resolve = @ \/ SpliceIds(buf) # {}])

\* The slots under a set of slots: those spliced, transitively, into what they recorded.
InSlot(d, i) == SpliceIds(d.slots[i].commands)
                \cup UNION {SpliceIds(d.slots[i].speculation[k]) : k \in DOMAIN d.slots[i].speculation}
RECURSIVE Under(_, _)
Under(d, S) == LET more == S \cup UNION {InSlot(d, i) : i \in S}
               IN  IF more = S THEN S ELSE Under(d, more)

\* Mutant: only the holes of the retracted buffer itself die.
KillSplicesShallow(d, buf) ==
    [d EXCEPT !.slots = [i \in Slots(d) |-> [@[i] EXCEPT !.dead = @ \/ i \in SpliceIds(buf)]]]
KillSplices(d, buf) ==
    [d EXCEPT !.slots = [i \in Slots(d) |-> [@[i] EXCEPT !.dead = @ \/ i \in Under(d, SpliceIds(buf))]]]

AbortSpeculative(d, t) ==
    LET spec == Speculation(d, t)
        popped == IF t = Main THEN [d EXCEPT !.speculation = Front(spec)]
                  ELSE [d EXCEPT !.slots[t].speculation = Front(spec)]
    IN  CASE ~IsLive(d, t) -> Err(d, "DeadSlot")
          [] IsLive(d, t) /\ spec = <<>> -> Err(d, "NoSpeculation")
          [] OTHER -> Ok(KillSplices(popped, Last(spec)))

\* Reading the document retracts what is uncommitted and kills every region.
Seal(d) ==
    [d EXCEPT !.speculation = <<>>,
              !.slots = [i \in Slots(d) |-> [@[i] EXCEPT !.speculation = <<>>, !.dead = TRUE]],
              !.sealed = TRUE]

\* The commands a reader lays out: main with every hole replaced by its content.
RECURSIVE Flatten(_, _)
Flatten(d, cmds) ==
    IF cmds = <<>> THEN <<>>
    ELSE (IF Head(cmds).op = "splice" THEN Flatten(d, d.slots[Head(cmds).n].commands)
          ELSE <<Head(cmds)>>) \o Flatten(d, Tail(cmds))
Content(d) == Flatten(d, d.main)
Balanced(cmds) == \A k \in DOMAIN cmds : Balances(0, cmds)[k] >= 0

Rendered(d) == IF Balanced(Content(d)) THEN Ok(d) ELSE Err(d, "UnbalancedGroup")

\* resolve and value both seal the document; a deferred session is resolved first.
Resolve(d) == IF ~d.pending_resolve THEN Err(d, "NothingToResolve")
              ELSE Rendered([Seal(d) EXCEPT !.pending_resolve = FALSE])
Value(d) == IF d.pending_resolve THEN Err(d, "UnresolvedDeferred") ELSE Rendered(Seal(d))
-----------------------------------------------------------------------------
Size(d) == Len(d.main) + Len(FlattenSeq(d.speculation))
           + Len(FlattenSeq([i \in Slots(d) |-> d.slots[i].commands \o FlattenSeq(d.slots[i].speculation)]))
Depth(d) == Len(FlattenSeq([t \in 1..(Len(d.slots) + 1) |-> Speculation(d, t - 1)]))

\* What a handle on region t may ask of the document.
Ops(d, t) ==
    (IF Size(d) < MaxCommands THEN {[do |-> "write", cmd |-> c] : c \in Written} ELSE {})
    \cup (IF Size(d) < MaxCommands /\ Len(d.slots) < MaxHoles THEN {[do |-> "deferred"]} ELSE {})
    \cup (IF Depth(d) < MaxHoles THEN {[do |-> "begin"]} ELSE {})
    \cup {[do |-> "commit"], [do |-> "abort"]}
Apply(d, t, o) ==
    CASE o.do = "write" -> Dispatch(d, t, o.cmd)
      [] o.do = "deferred" -> Deferred(d, t)
      [] o.do = "begin" -> BeginSpeculative(d, t)
      [] o.do = "commit" -> CommitSpeculative(d, t)
      [] o.do = "abort" -> AbortSpeculative(d, t)

PrinterInit == doc = NewPrinter /\ last = "ok"

Becomes(r) == doc' = r.doc /\ last' = r.res

Operate == \E t \in Targets(doc) : \E o \in Ops(doc, t) : Becomes(Apply(doc, t, o))
ReadValue == Becomes(Value(doc))
ReadResolve == Becomes(Resolve(doc))

PrinterNext == Operate \/ ReadValue \/ ReadResolve
PrinterSpec == PrinterInit /\ [][PrinterNext]_printerVars
-----------------------------------------------------------------------------
\* Every hole the document still holds, committed or not.
Anchored(d) == Under(d, SpliceIds(d.main) \cup UNION {SpliceIds(d.speculation[k]) :
                                                         k \in DOMAIN d.speculation})
\* Until the document is read, a slot accepts writes exactly while its hole can still
\* appear: retracting a buffer kills the holes in it, in those holes, and no other
\* (abort_speculative, kill_splices), so nothing is written into the void.
LiveIffAnchored == ~doc.sealed => \A i \in Slots(doc) : ~doc.slots[i].dead <=> i \in Anchored(doc)

\* A document cannot be read past an open deferred session: the session is open exactly
\* when a committed hole stands in the main output (dispatch, commit_speculative).
SessionIffHole == ~doc.sealed => (doc.pending_resolve <=> SpliceIds(doc.main) # {})

\* Unbalanced groups are reported when written, not when the document is read, as long as
\* it has no holes: whatever was accepted lays out (dispatch, commit_speculative).
EagerBalance == doc.slots = <<>> => Balanced(Content(doc))

\* A document accounts for its holes and groups at every write, not only when it is read.
HolesSound == LiveIffAnchored /\ SessionIffHole /\ EagerBalance

\* Handles on different regions do not disturb each other: two operations give the same
\* document, and to each caller the same result, in either order, so what a document says
\* does not depend on how the threads that print into it are scheduled. A retraction may
\* kill the other's region, and two new holes are numbered in the order they are opened:
\* then what a reader sees is the same.
RegionsCommute ==
    \A t1, t2 \in Targets(doc) : t1 < t2 =>
        \A o1 \in Ops(doc, t1), o2 \in Ops(doc, t2) :
            LET a1 == Apply(doc, t1, o1)
                a2 == Apply(a1.doc, t2, o2)
                b2 == Apply(doc, t2, o2)
                b1 == Apply(b2.doc, t1, o1)
            IN  /\ Content(a2.doc) = Content(b1.doc)
                /\ "abort" \in {o1.do, o2.do} \/ {o1.do, o2.do} = {"deferred"}
                   \/ (a2.doc = b1.doc /\ a1.res = b1.res /\ a2.res = b2.res)

=============================================================================
