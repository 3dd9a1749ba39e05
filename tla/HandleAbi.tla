----------------------------- MODULE HandleAbi -----------------------------
(* The C ABI of libhegel (hegel-c/src/lib.rs): the handles it gives out, what *)
(* each call checks and in which order, which lock it takes, and the life of  *)
(* runs, test-case families and print regions behind the handles.             *)
(*                                                                            *)
(* A call is described by a record: the handle it is made on and how it is    *)
(* taken (mode), its checks in the order of the code (chk: "on", "arg" for    *)
(* the two handles being NULL, "bad" for every other argument), whether the   *)
(* second handle is locked and how (hold), and its effect. Handles that own   *)
(* their data and that no call holds on to (string generators, options,       *)
(* results, failures) are of one kind, "value"; recursions, pools and state   *)
(* machines, whose calls wait for one another, are "shared". Of a document    *)
(* only which of its regions are live is kept (the rest is Printer):          *)
(* MainRegion and the holes 1, 2, ... opened in it. The client keeps the      *)
(* header's rules: it frees a handle once, and never while a call uses it,    *)
(* and drives a run from one thread at a time.                                *)
EXTENDS Naturals, Sequences, FiniteSets

CONSTANTS Callers,
          Ids,        \* addresses of handles; a freed one is used again
          Families,   \* addresses of FamilyShared
          Widths,     \* widths a client may ask of a document
          MaxRegions,   \* bound on the print regions of a document
          Null        \* the null pointer: in neither of the above

ASSUME NullApart == Null \notin Callers \cup Ids \cup Families \cup Widths

VARIABLES
    heap,   \* the handle at each address
    run,    \* the HegelRun, one at a time
    fam,    \* the family (and document) at each address
    call    \* the call each thread is in
abiVars == <<heap, run, fam, call>>

MainRegion == 0
Unused == [kind |-> "unused"]
Idle == [at |-> "idle"]
NoRun == [on |-> FALSE]

Codes == {"OK", "STOP_TEST", "ASSUME", "INVALID_HANDLE", "INVALID_ARG", "ALREADY_COMPLETE",
          "NOT_COMPLETE", "INTERNAL", "CONCURRENT_USE", "RETRY"}
-----------------------------------------------------------------------------
(* The calls. *)
Call(on, mode, arg, hold, chk, eff) ==
    [on |-> on, mode |-> mode, arg |-> arg, hold |-> hold, chk |-> chk, eff |-> eff]

\* On a test case: tc_guard refuses, tc_lock waits.
Guarded(chk, eff) == Call("tc", "guard", "none", "none", chk, eff)
GuardedOn(arg, hold, chk, eff) == Call("tc", "guard", arg, hold, chk, eff)
\* On handles nothing else refers to, which the caller alone uses.
Plain(on, chk, eff) == Call(on, "plain", "none", "none", chk, eff)

hegel_settings_new == Plain("none", <<"bad">>, "settings")
hegel_settings_free == Plain("settings", <<>>, "free")
settings_mut == Plain("settings", <<"on", "bad">>, "none")
hegel_settings_set_backend == settings_mut
hegel_settings_set_test_cases == Plain("settings", <<"on">>, "none")
hegel_settings_set_stateful_step_count == settings_mut
hegel_settings_set_verbosity == settings_mut
hegel_settings_set_seed == Plain("settings", <<"on">>, "none")
hegel_settings_set_derandomize == Plain("settings", <<"on">>, "none")
hegel_settings_set_report_multiple_failures == Plain("settings", <<"on">>, "none")
hegel_settings_set_show_statistics == Plain("settings", <<"on">>, "none")
hegel_settings_set_database == settings_mut
hegel_settings_set_database_key == settings_mut
hegel_settings_set_phases == Plain("settings", <<"on">>, "none")
hegel_settings_set_suppress_health_check == Plain("settings", <<"on">>, "none")

hegel_run_start == Plain("settings", <<"bad", "on">>, "run_start")
hegel_next_test_case == Plain("run", <<"on", "bad">>, "next")
hegel_run_result == Plain("run", <<"on", "bad">>, "result")
hegel_run_result_free == Plain("value", <<>>, "free")
hegel_run_free == Plain("run", <<>>, "run_free")
hegel_test_case_from_blob == Plain("settings", <<"on", "bad">>, "from_blob")
hegel_test_case_free == Plain("tc", <<>>, "free")
hegel_test_case_is_nondeterministic == Guarded(<<"bad">>, "none")
hegel_test_case_clone == Guarded(<<"bad">>, "clone")

hegel_start_span == Guarded(<<>>, "draw")
hegel_stop_span == Guarded(<<>>, "draw")
hegel_new_collection == Guarded(<<"bad">>, "collection")
hegel_collection_more == GuardedOn("collection", "try", <<"arg", "bad">>, "draw")
hegel_collection_reject == GuardedOn("collection", "try", <<"arg", "bad">>, "draw")
hegel_collection_free == Plain("collection", <<>>, "free")
hegel_new_recursion == Guarded(<<"bad">>, "shared")
hegel_recursion_branch == GuardedOn("shared", "wait", <<"arg", "bad">>, "draw")
hegel_recursion_leaf == GuardedOn("shared", "wait", <<"arg">>, "draw_or_retry")
hegel_recursion_retry == GuardedOn("shared", "wait", <<"arg">>, "draw")
hegel_recursion_finish == GuardedOn("shared", "wait", <<"arg">>, "draw_or_retry")
hegel_recursion_free == Plain("shared", <<>>, "free")
hegel_new_pool == Guarded(<<"bad">>, "shared")
hegel_pool_add == GuardedOn("shared", "wait", <<"arg", "bad">>, "draw")
hegel_pool_generate == GuardedOn("shared", "wait", <<"arg", "bad">>, "draw")
hegel_pool_free == Plain("shared", <<>>, "free")
hegel_new_state_machine == Guarded(<<"bad">>, "shared")
hegel_state_machine_next_group == GuardedOn("shared", "wait", <<"arg", "bad">>, "draw")
hegel_state_machine_next_rule == GuardedOn("shared", "wait", <<"arg", "bad">>, "draw")
hegel_state_machine_rule_rejected == GuardedOn("shared", "wait", <<"arg">>, "draw")
hegel_state_machine_should_check_invariant == GuardedOn("shared", "wait", <<"arg", "bad">>, "draw")
hegel_state_machine_free == Plain("shared", <<>>, "free")

typed_draw == Guarded(<<"bad">>, "draw")
hegel_generate_boolean == typed_draw
hegel_generate_integer == typed_draw
hegel_generate_integer_big == Guarded(<<"bad">>, "draw")
hegel_generate_float == typed_draw
hegel_generate_bytes == typed_draw
hegel_string_generator_text == Plain("none", <<"bad">>, "value")
hegel_string_generator_regex == Plain("none", <<"bad">>, "value")
hegel_string_generator_email == Plain("none", <<"bad">>, "value")
hegel_string_generator_url == Plain("none", <<"bad">>, "value")
hegel_string_generator_domain == Plain("none", <<"bad">>, "value")
hegel_string_generator_free == Plain("value", <<>>, "free")
hegel_generate_string == GuardedOn("value", "none", <<"arg", "bad">>, "draw")
hegel_generate_date == typed_draw
hegel_generate_time == typed_draw
hegel_generate_datetime == typed_draw
hegel_generate_uuid == typed_draw
hegel_generate_ipv4 == typed_draw
hegel_generate_ipv6 == typed_draw
hegel_target == Guarded(<<"bad">>, "draw")
event_observation == Guarded(<<"bad">>, "draw")

\* On a printer handle: printer_guard marks it busy and refuses a second thread.
OnPrinter(chk, eff) == Call("printer", "busy", "none", "none", chk, eff)
hegel_printer_options_new == Plain("none", <<"bad">>, "value")
hegel_printer_options_free == Plain("value", <<>>, "free")
hegel_printer_options_set_max_width == Plain("value", <<"on", "bad">>, "none")
hegel_printer_new == Plain("none", <<"bad">>, "document")
hegel_printer_free == Plain("printer", <<>>, "free")
hegel_printer_if_break == OnPrinter(<<"bad">>, "write")
hegel_printer_text == OnPrinter(<<"bad">>, "write")
hegel_printer_breakable == OnPrinter(<<"bad">>, "write")
hegel_printer_comment == OnPrinter(<<"bad">>, "write")
hegel_printer_hard_break == OnPrinter(<<>>, "write")
hegel_printer_begin_group == OnPrinter(<<"bad">>, "write")
hegel_printer_end_group == OnPrinter(<<"bad">>, "write")
hegel_printer_shift_indent == OnPrinter(<<>>, "write")
hegel_printer_deferred == OnPrinter(<<"bad">>, "deferred")
hegel_printer_begin_speculative == OnPrinter(<<>>, "write")
hegel_printer_commit_speculative == OnPrinter(<<>>, "write")
hegel_printer_abort_speculative == OnPrinter(<<>>, "abort")
hegel_printer_resolve == OnPrinter(<<>>, "read")
hegel_printer_is_live == OnPrinter(<<"bad">>, "none")
hegel_printer_value == OnPrinter(<<"bad">>, "read")
hegel_test_case_printer == Call("tc", "plain", "none", "none", <<"on", "bad">>, "printer")
hegel_note == Call("tc", "plain", "none", "none", <<"on", "bad">>, "note")
hegel_mark_complete == Call("tc", "lock", "none", "none", <<>>, "complete")
hegel_run_result_status == Plain("value", <<"on", "bad">>, "none")
hegel_run_result_error == Plain("value", <<"on", "bad">>, "none")
hegel_run_result_failure_count == Plain("value", <<"on", "bad">>, "none")
hegel_run_result_failure == Plain("value", <<"on", "bad">>, "value")
hegel_failure_free == Plain("value", <<>>, "free")
hegel_failure_origin == Plain("value", <<"on", "bad">>, "none")
hegel_failure_reproduction_blob == Plain("value", <<"on", "bad">>, "none")
hegel_version == Plain("none", <<"bad">>, "none")

Calls == {
    hegel_settings_new, hegel_settings_free, hegel_settings_set_backend,
    hegel_settings_set_test_cases, hegel_settings_set_stateful_step_count,
    hegel_settings_set_verbosity, hegel_settings_set_seed, hegel_settings_set_derandomize,
    hegel_settings_set_report_multiple_failures, hegel_settings_set_show_statistics,
    hegel_settings_set_database, hegel_settings_set_database_key, hegel_settings_set_phases,
    hegel_settings_set_suppress_health_check, hegel_run_start, hegel_next_test_case,
    hegel_run_result, hegel_run_result_free, hegel_run_free, hegel_test_case_from_blob,
    hegel_test_case_free, hegel_test_case_is_nondeterministic, hegel_test_case_clone,
    hegel_start_span, hegel_stop_span, hegel_new_collection, hegel_collection_more,
    hegel_collection_reject, hegel_collection_free, hegel_new_recursion, hegel_recursion_branch,
    hegel_recursion_leaf, hegel_recursion_retry, hegel_recursion_finish, hegel_recursion_free,
    hegel_new_pool, hegel_pool_add, hegel_pool_generate, hegel_pool_free, hegel_new_state_machine,
    hegel_state_machine_next_group, hegel_state_machine_next_rule,
    hegel_state_machine_rule_rejected, hegel_state_machine_should_check_invariant,
    hegel_state_machine_free, hegel_generate_boolean, hegel_generate_integer,
    hegel_generate_integer_big, hegel_generate_float, hegel_generate_bytes,
    hegel_string_generator_text, hegel_string_generator_regex, hegel_string_generator_email,
    hegel_string_generator_url, hegel_string_generator_domain, hegel_string_generator_free,
    hegel_generate_string, hegel_generate_date, hegel_generate_time, hegel_generate_datetime,
    hegel_generate_uuid, hegel_generate_ipv4, hegel_generate_ipv6, hegel_target,
    event_observation, hegel_printer_options_new, hegel_printer_options_free,
    hegel_printer_options_set_max_width, hegel_printer_new, hegel_printer_free,
    hegel_printer_if_break, hegel_printer_text, hegel_printer_breakable, hegel_printer_comment,
    hegel_printer_hard_break, hegel_printer_begin_group, hegel_printer_end_group,
    hegel_printer_shift_indent, hegel_printer_deferred, hegel_printer_begin_speculative,
    hegel_printer_commit_speculative, hegel_printer_abort_speculative, hegel_printer_resolve,
    hegel_printer_is_live, hegel_printer_value, hegel_test_case_printer, hegel_note,
    hegel_mark_complete, hegel_run_result_status, hegel_run_result_error,
    hegel_run_result_failure_count, hegel_run_result_failure, hegel_failure_free,
    hegel_failure_origin, hegel_failure_reproduction_blob, hegel_version}
-----------------------------------------------------------------------------
(* Objects. A lock is the thread that holds it, or Null. *)
Object(kind) == [kind |-> kind, by |-> Null]
TestCase(f, target) == [kind |-> "tc", fam |-> f, target |-> target, done |-> FALSE, by |-> Null]
Printing(f, target) == [kind |-> "printer", fam |-> f, target |-> target, by |-> Null]
NewFamily(owned) ==
    [kind |-> "family", owned |-> owned, completed |-> FALSE, width |-> Null,
     slots |-> 0, live |-> {MainRegion}]

\* A family and its document go with the last reference to them: of the run, of a test
\* case, of a printer.
Referenced(h, r, f) == (r.on /\ r.cur = f) \/ \E i \in Ids : h[i].kind \in {"tc", "printer"} /\ h[i].fam = f
Dropped(h, r, F) == [f \in Families |-> IF Referenced(h, r, f) THEN F[f] ELSE Unused]

Free(id) == heap[id] = Unused
UsedBy(id) == {t \in Callers : call[t].at # "idle" /\ id \in {call[t].p, call[t].q}}

\* The first check a call fails, as the code it returns; "OK" if it passes them all.
CodeOf(c) == IF c = "bad" THEN "INVALID_ARG" ELSE "INVALID_HANDLE"
Fails(c, p, q, bad) == CASE c = "on" -> p = Null
                         [] c = "arg" -> q = Null
                         [] c = "bad" -> bad
Checked(f, p, q, bad) ==
    LET failed == {k \in DOMAIN f.chk : Fails(f.chk[k], p, q, bad)}
    IN  IF failed = {} THEN "OK" ELSE CodeOf(f.chk[CHOOSE k \in failed : \A l \in failed : k <= l])

\* The call of t returns a code, which the state does not keep, leaving these handles, this
\* run and these families.
Returns(t, code, h, r, F) ==
    /\ heap' = [i \in Ids |-> IF h[i].kind \in {"tc", "printer", "collection", "shared"} /\ h[i].by = t
                               THEN [h[i] EXCEPT !.by = Null] ELSE h[i]]
    /\ run' = r
    /\ fam' = Dropped(h, r, F)
    /\ call' = [call EXCEPT ![t] = Idle]
    /\ code \in Codes
Answers(t, code) == Returns(t, code, heap, run, fam)

\* The call of t returns a new handle.
Gives(t, object, r, F) == \E n \in Ids : Free(n) /\ Returns(t, "OK", [heap EXCEPT ![n] = object], r, F)

DrawErrors == {"STOP_TEST", "ASSUME", "INVALID_ARG", "INTERNAL"}
-----------------------------------------------------------------------------
(* Effects, one per kind of call: what a call does once its checks have passed. *)
NextTestCase(t) ==
    LET left == [run EXCEPT !.cur = Null]   \* the run's reference to a completed case is dropped
        resumable == run.cur # Null => fam[run.cur].completed
    IN  \/ ~resumable /\ Answers(t, "NOT_COMPLETE")
        \/ resumable /\ ~run.engine /\ Returns(t, "OK", heap, left, fam)
        \/ /\ resumable /\ run.engine      \* the engine offers a case ...
           /\ \E f \in Families :
                /\ fam[f] = Unused
                /\ Gives(t, TestCase(f, MainRegion), [run EXCEPT !.cur = f],
                         [fam EXCEPT ![f] = NewFamily(TRUE)])
        \/ /\ resumable /\ run.engine      \* ... or ends
           /\ \E res \in {"passed", "failed", "error"} :
                Returns(t, "OK", heap, [left EXCEPT !.engine = FALSE, !.result = res], fam)

\* A case still in flight is claimed complete, so the handles left on it see a concluded case.
RunFree(t) ==
    Returns(t, "OK", heap, NoRun,
            IF run.cur = Null THEN fam
            ELSE [fam EXCEPT ![run.cur].completed = TRUE])

RunResult(t) == IF run.result = Null THEN Answers(t, "NOT_COMPLETE")
                ELSE Gives(t, Object("value"), run, fam)

FromBlob(t) == \/ Answers(t, "INVALID_ARG")
               \/ \E f \in Families : /\ fam[f] = Unused
                                      /\ Gives(t, TestCase(f, MainRegion), run,
                                               [fam EXCEPT ![f] = NewFamily(FALSE)])

\* A hole opened in a live region of a family.
WithDeferred(F, f) == [F EXCEPT ![f].slots = @ + 1, ![f].live = @ \cup {F[f].slots + 1}]

\* A clone prints into a hole of its own in its parent's region, or, once that region is
\* dead, into the dead region.
Clone(t, p) ==
    LET f == heap[p].fam
        target == heap[p].target
    IN  \/ \E e \in DrawErrors : Answers(t, e)
        \/ /\ target \in fam[f].live /\ fam[f].slots < MaxRegions
           /\ Gives(t, TestCase(f, fam[f].slots + 1), run, WithDeferred(fam, f))
        \/ target \notin fam[f].live /\ Gives(t, TestCase(f, target), run, fam)

\* The document's width is fixed by the first call that asks for one.
\* Mutant: a later call may change it.
TestCasePrinterResizing(t, p) ==
    LET f == heap[p].fam
    IN  \E w \in Widths \cup {Null} :
            Gives(t, Printing(f, heap[p].target), run,
                  [fam EXCEPT ![f].width = IF w = Null THEN @ ELSE w])
TestCasePrinter(t, p) ==
    LET f == heap[p].fam
    IN  \E w \in Widths \cup {Null} :
            \/ w # Null /\ fam[f].width \notin {Null, w} /\ Answers(t, "INVALID_ARG")
            \/ (w = Null \/ fam[f].width \in {Null, w})
               /\ Gives(t, Printing(f, heap[p].target), run,
                        [fam EXCEPT ![f].width = IF w = Null THEN @ ELSE w])

\* Text, breaks, groups, notes, speculation begun and committed: recorded if the region lives.
Write(t, p) ==
    IF heap[p].target \notin fam[heap[p].fam].live THEN Answers(t, "INVALID_HANDLE")
    ELSE \E e \in {"OK", "INVALID_ARG"} : Answers(t, e)

\* Retracting a region's innermost speculation kills the holes in it.
Abort(t, p) ==
    LET f == heap[p].fam
    IN  \/ heap[p].target \notin fam[f].live /\ Answers(t, "INVALID_HANDLE")
        \/ heap[p].target \in fam[f].live /\ Answers(t, "INVALID_ARG")
        \/ /\ heap[p].target \in fam[f].live
           /\ \E dead \in SUBSET (fam[f].live \ {MainRegion, heap[p].target}) :
                 Returns(t, "OK", heap, run, [fam EXCEPT ![f].live = @ \ dead])

\* Only a handle on the main output reads the document, which kills every region; an open
\* session, or none, is refused before, unbalanced groups after.
Read(t, p) ==
    LET f == heap[p].fam
    IN  \/ Answers(t, "INVALID_ARG")
        \/ /\ heap[p].target = MainRegion
           /\ \E e \in {"OK", "INVALID_ARG"} : Returns(t, e, heap, run, [fam EXCEPT ![f].live = {}])

OpenHole(t, p) ==
    LET f == heap[p].fam
    IN  \/ heap[p].target \notin fam[f].live /\ Answers(t, "INVALID_HANDLE")
        \/ /\ heap[p].target \in fam[f].live /\ fam[f].slots < MaxRegions
           /\ Gives(t, Printing(f, fam[f].slots + 1), run, WithDeferred(fam, f))

\* hegel_mark_complete: the first handle of the family to complete records the outcome.
MarkComplete(t, p) ==
    \/ heap[p].done /\ Answers(t, "ALREADY_COMPLETE")
    \/ ~heap[p].done /\ Answers(t, "INVALID_ARG")      \* an unknown status, an origin not UTF-8
    \/ /\ ~heap[p].done
       /\ Returns(t, "OK", [heap EXCEPT ![p].done = TRUE], run,
                  [fam EXCEPT ![heap[p].fam].completed = TRUE])

Perform(t, f, p) ==
    \/ f.eff = "none" /\ Answers(t, "OK")
    \/ f.eff \in {"settings", "value"} /\ Gives(t, Object(f.eff), run, fam)
    \/ f.eff = "value" /\ f.on = "none" /\ Answers(t, "INVALID_ARG")      \* a specification the engine refuses
    \/ f.eff = "document" /\ \E d \in Families :
           /\ fam[d] = Unused
           /\ Gives(t, Printing(d, MainRegion), run, [fam EXCEPT ![d] = [NewFamily(FALSE) EXCEPT !.completed = TRUE]])
    \/ f.eff = "free" /\ p = Null /\ Answers(t, "OK")
    \/ f.eff = "free" /\ p # Null /\ UsedBy(p) = {} /\ Returns(t, "OK", [heap EXCEPT ![p] = Unused], run, fam)
    \/ f.eff = "run_start" /\ ~run.on
       /\ Returns(t, "OK", heap, [on |-> TRUE, engine |-> TRUE, cur |-> Null, result |-> Null], fam)
    \/ f.eff = "next" /\ NextTestCase(t)
    \/ f.eff = "result" /\ RunResult(t)
    \/ f.eff = "run_free" /\ (IF p = Null THEN Answers(t, "OK") ELSE RunFree(t))
    \/ f.eff = "from_blob" /\ FromBlob(t)
    \/ f.eff = "clone" /\ Clone(t, p)
    \/ f.eff \in {"collection", "shared"} /\ (Gives(t, Object(f.eff), run, fam)
                                              \/ \E e \in DrawErrors : Answers(t, e))
    \/ f.eff \in {"draw", "draw_or_retry"} /\ \E e \in {"OK"} \cup DrawErrors : Answers(t, e)
    \/ f.eff = "draw_or_retry" /\ Answers(t, "RETRY")
    \/ f.eff = "printer" /\ TestCasePrinter(t, p)
    \/ f.eff = "complete" /\ MarkComplete(t, p)
    \/ f.eff \in {"note", "write"} /\ Write(t, p)
    \/ f.eff = "abort" /\ Abort(t, p)
    \/ f.eff = "read" /\ Read(t, p)
    \/ f.eff = "deferred" /\ OpenHole(t, p)
-----------------------------------------------------------------------------
(* Calls in progress. *)
AbiInit ==
    /\ heap = [i \in Ids |-> Unused]
    /\ run = NoRun
    /\ fam = [f \in Families |-> Unused]
    /\ call = [t \in Callers |-> Idle]

\* The pointers a client may pass where a handle of this kind is asked for.
Pointers(kind) ==
    CASE kind = "none" -> {Null}
      [] kind = "run" -> {Null} \cup (IF run.on THEN {"run"} ELSE {})
      [] OTHER -> {Null} \cup {i \in Ids : heap[i].kind = kind}

\* A call on handles that no lock protects is one step.
PlainCall(t) ==
    /\ call[t] = Idle
    /\ \E f \in {c \in Calls : c.mode = "plain"} : \E p \in Pointers(f.on) : \E bad \in BOOLEAN :
          IF Checked(f, p, Null, bad) # "OK" THEN Answers(t, Checked(f, p, Null, bad))
          ELSE Perform(t, f, p)

\* Entering a call that takes a lock: the handle is not NULL, and for tc_guard the family is
\* not complete, which is looked at before the lock is. The checks that follow under the
\* lock look at nothing it protects: their outcome is settled here.
Enter(t) ==
    /\ call[t] = Idle
    /\ \E f \in {c \in Calls : c.mode # "plain"} : \E p \in Pointers(f.on) : \E q \in Pointers(f.arg) :
       \E bad \in BOOLEAN :
          LET code == Checked(f, p, q, bad)
          IN  IF p = Null THEN Answers(t, "INVALID_HANDLE")
              ELSE IF f.mode = "guard" /\ fam[heap[p].fam].completed THEN Answers(t, "ALREADY_COMPLETE")
              ELSE /\ call' = [call EXCEPT ![t] =
                          IF code = "OK" THEN [at |-> "handle", mode |-> f.mode, hold |-> f.hold,
                                               on |-> f.on, eff |-> f.eff, p |-> p, q |-> q]
                          ELSE [at |-> "refused", mode |-> f.mode, code |-> code, p |-> p, q |-> q]]
                   /\ UNCHANGED <<heap, run, fam>>

\* tc_guard and printer_guard refuse a handle another thread is using; tc_lock waits for it.
Locks(t, id, at) == /\ heap' = [heap EXCEPT ![id].by = t]
                    /\ call' = [call EXCEPT ![t].at = at]
                    /\ UNCHANGED <<run, fam>>
Locked(t) ==
    IF call[t].at = "refused" THEN Answers(t, call[t].code)
    ELSE Locks(t, call[t].p, IF call[t].hold = "none" THEN "effect" ELSE "argument")
\* Mutant: the handle is used whoever holds it.
TakeHandleAnyway(t) == call[t].at \in {"handle", "refused"} /\ Locked(t)
TakeHandle(t) ==
    /\ call[t].at \in {"handle", "refused"}
    /\ \/ heap[call[t].p].by = Null /\ Locked(t)
       \/ /\ heap[call[t].p].by # Null /\ call[t].mode # "lock"
          /\ Answers(t, "CONCURRENT_USE")

\* collection_lock refuses a collection another thread is using; the others are waited for.
TakeArgument(t) ==
    LET q == call[t].q
    IN  /\ call[t].at = "argument"
        /\ \/ heap[q].by = Null /\ Locks(t, q, "effect")
           \/ /\ heap[q].by # Null /\ call[t].hold = "try"
              /\ Answers(t, "CONCURRENT_USE")

Effect(t) == call[t].at = "effect" /\ Perform(t, call[t], call[t].p)

Proceed(t) == TakeHandle(t) \/ TakeArgument(t) \/ Effect(t)
AbiNext == \E t \in Callers : PlainCall(t) \/ Enter(t) \/ Proceed(t)

AbiSpec == AbiInit /\ [][AbiNext]_abiVars
-----------------------------------------------------------------------------
Working(t) == call[t].at \in {"argument", "effect"}

\* Two threads never operate on one handle, and so on one stream or print region, at the
\* same time, nor on one collection, pool, recursion or state machine (tc_guard,
\* collection_lock, printer_guard).
HandlesExclusive ==
    \A t, u \in Callers : t # u =>
        /\ Working(t) /\ Working(u) => call[t].p # call[u].p
        /\ call[t].at = "effect" /\ call[u].at = "effect" /\ call[t].hold # "none"
             => call[t].q # call[u].q

\* Once the run has moved on from a case or is gone, the case is complete: what still holds
\* a handle on it is told so and can draw nothing more (hegel_next_test_case, hegel_run_free).
StragglersStopped ==
    \A f \in Families : fam[f] # Unused /\ fam[f].owned /\ ~(run.on /\ run.cur = f) => fam[f].completed

\* Handles on one test case print into regions of their own, as long as these can be written
\* to (hegel_test_case_clone).
OwnRegion ==
    \A i, j \in Ids :
        /\ i # j /\ heap[i].kind = "tc" /\ heap[j].kind = "tc"
        /\ heap[i].fam = heap[j].fam /\ heap[i].target = heap[j].target
        => heap[i].target \notin fam[heap[i].fam].live

\* A handle is one thread's while it is used, prints into a region of its own, and outlives its
\* case only to be told so.
HandlesSound == HandlesExclusive /\ OwnRegion /\ StragglersStopped

\* A width once asked for is the document's width for good, and a run's result, there as
\* soon as its engine is gone, never changes (hegel_test_case_printer, hegel_next_test_case).
FixedForGood ==
    [][/\ \A f \in Families : fam[f] # Unused /\ fam'[f] # Unused /\ fam[f].width # Null
                                => fam'[f].width = fam[f].width
       /\ run.on /\ run'.on /\ run.result # Null => run'.result = run.result /\ ~run'.engine]_abiVars
=============================================================================
