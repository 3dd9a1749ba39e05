-------------------------- MODULE HandleAbiProofs --------------------------
(* Handles of the C ABI are sound for any threads, addresses and regions. A   *)
(* call ends by returning some handles h, a run r and families F: what is     *)
(* sound of these is stated of any h, r and F (ObjectsSound), and so is what  *)
(* they must leave to the calls other threads are in (Respects).  The mutex   *)
(* behind them (FutexMutex) has its theorems at the end.                      *)
EXTENDS HandleAbi, FutexMutex, TLAPS

Holders == Callers \cup {Null}
TestCases == [kind : {"tc"}, fam : Families, target : Nat, done : BOOLEAN, by : Holders]
Printers == [kind : {"printer"}, fam : Families, target : Nat, by : Holders]
ObjectKinds == {"settings", "value", "collection", "shared"}
Objects == [kind : ObjectKinds, by : Holders]
Handles == {Unused} \cup TestCases \cup Printers \cup Objects
Runs == {NoRun} \cup [on : {TRUE}, engine : BOOLEAN, cur : Families \cup {Null},
                      result : {Null, "passed", "failed", "error"}]
FamilyRecords == [kind : {"family"}, owned : BOOLEAN, completed : BOOLEAN,
                  width : Widths \cup {Null}, slots : Nat, live : SUBSET Nat]

Modes == {"guard", "busy", "lock"}
Holds == {"none", "try", "wait"}
CaseEffects == {"none", "clone", "draw", "collection", "shared", "draw_or_retry", "complete"}
PrinterEffects == {"none", "write", "deferred", "abort", "read"}
CallRecords == [at : {"handle", "argument", "effect"}, mode : Modes, hold : Holds,
                on : {"tc", "printer"}, eff : CaseEffects \cup PrinterEffects,
                p : Ids, q : Ids \cup {Null}]
Refusals == [at : {"refused"}, mode : Modes, code : Codes, p : Ids, q : Ids \cup {Null}]
CallStates == {Idle} \cup CallRecords \cup Refusals

\* The types of the handles, the run, the families and the calls.
AbiTypeOK ==
    /\ heap \in [Ids -> Handles] /\ run \in Runs
    /\ fam \in [Families -> {Unused} \cup FamilyRecords]
    /\ call \in [Callers -> CallStates]

\* What a test case or a printer refers to is there, and so are its region and the run's case.
InCase(x) == x.kind \in {"tc", "printer"}
Rooted(h, r, F) ==
    /\ \A i \in Ids : InCase(h[i]) => F[h[i].fam] \in FamilyRecords /\ h[i].target <= F[h[i].fam].slots
    /\ r.on /\ r.cur # Null => F[r.cur] \in FamilyRecords
    /\ \A f \in Families : F[f] \in FamilyRecords => \A n \in F[f].live : n <= F[f].slots

\* OwnRegion and StragglersStopped, of any handles, run and families.
Apart(h, F) ==
    \A i, j \in Ids :
        /\ i # j /\ h[i].kind = "tc" /\ h[j].kind = "tc"
        /\ h[i].fam = h[j].fam /\ h[i].target = h[j].target
        => h[i].target \notin F[h[i].fam].live
Concluded(r, F) ==
    \A f \in Families : F[f] # Unused /\ F[f].owned /\ ~(r.on /\ r.cur = f) => F[f].completed

ObjectsSound(h, r, F) ==
    /\ h \in [Ids -> Handles] /\ r \in Runs /\ F \in [Families -> {Unused} \cup FamilyRecords]
    /\ Rooted(h, r, F) /\ Apart(h, F) /\ Concluded(r, F)
    /\ r.on /\ r.result # Null => ~r.engine

\* A call under way: its handles are there, of their kinds, and locked once it is past them.
CallFits(h, c, t) ==
    /\ c \in Refusals => InCase(h[c.p])
    /\ c \in CallRecords =>
          /\ h[c.p].kind = c.on
          /\ c.on = "tc" => c.eff \in CaseEffects
          /\ c.on = "printer" => c.eff \in PrinterEffects
          /\ c.at = "argument" => c.hold # "none"
          /\ c.hold = "none" /\ c.q # Null => h[c.q].kind = "value"
          /\ c.hold # "none" => c.q \in Ids /\ h[c.q].kind \in {"collection", "shared"}
          /\ c.at \in {"argument", "effect"} => h[c.p].by = t
          /\ c.at = "effect" /\ c.hold # "none" => h[c.q].by = t
CallsSound == call \in [Callers -> CallStates] /\ \A t \in Callers : CallFits(heap, call[t], t)

IInv == ObjectsSound(heap, run, fam) /\ CallsSound

-----------------------------------------------------------------------------
(* The calls. *)

\* A call that locks nothing operates on no stream and no region ...
PlainSound(c) ==
    /\ c.mode = "plain"
    /\ c.eff \in {"printer", "note"} => c.on = "tc"
    /\ c.eff \in {"next", "result", "run_free"} => c.on = "run"
    /\ c.eff = "free" => c.on \notin {"none", "run"}
    /\ c.eff \notin {"clone", "complete", "write", "abort", "read", "deferred"}
    /\ c.eff \in {"next", "result", "printer", "note"} => c.chk = <<"on", "bad">>
\* ... and one that does is on a test case or a printer.
LockedSound(c) ==
    /\ c.mode \in Modes /\ c.on \in {"tc", "printer"} /\ c.hold \in Holds
    /\ c.on = "tc" => c.eff \in CaseEffects
    /\ c.on = "printer" => c.eff \in PrinterEffects
    /\ c.hold = "none" => c.arg \in {"none", "value"}
    /\ c.hold # "none" =>
          c.arg \in {"collection", "shared"} /\ c.chk \in {<<"arg", "bad">>, <<"arg">>}

\* Every call keeps to what its handles allow: no call but one that locks them operates on them.
LEMMA CallsSorted == \A c \in Calls : PlainSound(c) \/ LockedSound(c)
  <1> USE DEF Call, Plain, Guarded, GuardedOn, OnPrinter, settings_mut, typed_draw
  <1>1. \A c \in {hegel_settings_new, hegel_settings_free, hegel_settings_set_backend,
              hegel_settings_set_test_cases, hegel_settings_set_stateful_step_count,
              hegel_settings_set_verbosity, hegel_settings_set_seed,
              hegel_settings_set_derandomize, hegel_settings_set_report_multiple_failures,
              hegel_settings_set_show_statistics, hegel_settings_set_database,
              hegel_settings_set_database_key, hegel_settings_set_phases,
              hegel_settings_set_suppress_health_check, hegel_run_start, hegel_next_test_case} :
         PlainSound(c)
    BY DEF hegel_settings_new, hegel_settings_free, hegel_settings_set_backend,
           hegel_settings_set_test_cases, hegel_settings_set_stateful_step_count,
           hegel_settings_set_verbosity, hegel_settings_set_seed, hegel_settings_set_derandomize,
           hegel_settings_set_report_multiple_failures, hegel_settings_set_show_statistics,
           hegel_settings_set_database, hegel_settings_set_database_key,
           hegel_settings_set_phases, hegel_settings_set_suppress_health_check, hegel_run_start,
           hegel_next_test_case, PlainSound
  <1>2. \A c \in {hegel_run_result, hegel_run_result_free, hegel_run_free,
              hegel_test_case_from_blob, hegel_test_case_free, hegel_collection_free,
              hegel_recursion_free, hegel_pool_free, hegel_state_machine_free,
              hegel_string_generator_text, hegel_string_generator_regex,
              hegel_string_generator_email, hegel_string_generator_url,
              hegel_string_generator_domain, hegel_string_generator_free,
              hegel_printer_options_new} :
         PlainSound(c)
    BY DEF hegel_run_result, hegel_run_result_free, hegel_run_free, hegel_test_case_from_blob,
           hegel_test_case_free, hegel_collection_free, hegel_recursion_free, hegel_pool_free,
           hegel_state_machine_free, hegel_string_generator_text, hegel_string_generator_regex,
           hegel_string_generator_email, hegel_string_generator_url,
           hegel_string_generator_domain, hegel_string_generator_free, hegel_printer_options_new, PlainSound
  <1>3. \A c \in {hegel_printer_options_free, hegel_printer_options_set_max_width,
              hegel_printer_new, hegel_printer_free, hegel_test_case_printer, hegel_note,
              hegel_run_result_status, hegel_run_result_error, hegel_run_result_failure_count,
              hegel_run_result_failure, hegel_failure_free, hegel_failure_origin,
              hegel_failure_reproduction_blob, hegel_version} :
         PlainSound(c)
    BY DEF hegel_printer_options_free, hegel_printer_options_set_max_width, hegel_printer_new,
           hegel_printer_free, hegel_test_case_printer, hegel_note, hegel_run_result_status,
           hegel_run_result_error, hegel_run_result_failure_count, hegel_run_result_failure,
           hegel_failure_free, hegel_failure_origin, hegel_failure_reproduction_blob,
           hegel_version, PlainSound
  <1>4. \A c \in {hegel_test_case_is_nondeterministic, hegel_test_case_clone, hegel_start_span,
              hegel_stop_span, hegel_new_collection, hegel_collection_more,
              hegel_collection_reject, hegel_new_recursion, hegel_recursion_branch,
              hegel_recursion_leaf, hegel_recursion_retry, hegel_recursion_finish, hegel_new_pool} :
         LockedSound(c)
    BY DEF hegel_test_case_is_nondeterministic, hegel_test_case_clone, hegel_start_span,
           hegel_stop_span, hegel_new_collection, hegel_collection_more, hegel_collection_reject,
           hegel_new_recursion, hegel_recursion_branch, hegel_recursion_leaf,
           hegel_recursion_retry, hegel_recursion_finish, hegel_new_pool, LockedSound, Modes, Holds, CaseEffects, PrinterEffects
  <1>5. \A c \in {hegel_pool_add, hegel_pool_generate, hegel_new_state_machine,
              hegel_state_machine_next_group, hegel_state_machine_next_rule,
              hegel_state_machine_rule_rejected, hegel_state_machine_should_check_invariant,
              hegel_generate_boolean, hegel_generate_integer, hegel_generate_integer_big,
              hegel_generate_float, hegel_generate_bytes, hegel_generate_string} :
         LockedSound(c)
    BY DEF hegel_pool_add, hegel_pool_generate, hegel_new_state_machine,
           hegel_state_machine_next_group, hegel_state_machine_next_rule,
           hegel_state_machine_rule_rejected, hegel_state_machine_should_check_invariant,
           hegel_generate_boolean, hegel_generate_integer, hegel_generate_integer_big,
           hegel_generate_float, hegel_generate_bytes, hegel_generate_string, LockedSound, Modes, Holds, CaseEffects, PrinterEffects
  <1>6. \A c \in {hegel_generate_date, hegel_generate_time, hegel_generate_datetime,
              hegel_generate_uuid, hegel_generate_ipv4, hegel_generate_ipv6, hegel_target,
              event_observation, hegel_printer_if_break, hegel_printer_text,
              hegel_printer_breakable, hegel_printer_comment, hegel_printer_hard_break} :
         LockedSound(c)
    BY DEF hegel_generate_date, hegel_generate_time, hegel_generate_datetime,
           hegel_generate_uuid, hegel_generate_ipv4, hegel_generate_ipv6, hegel_target,
           event_observation, hegel_printer_if_break, hegel_printer_text,
           hegel_printer_breakable, hegel_printer_comment, hegel_printer_hard_break, LockedSound, Modes, Holds, CaseEffects, PrinterEffects
  <1>7. \A c \in {hegel_printer_begin_group, hegel_printer_end_group, hegel_printer_shift_indent,
              hegel_printer_deferred, hegel_printer_begin_speculative,
              hegel_printer_commit_speculative, hegel_printer_abort_speculative,
              hegel_printer_resolve, hegel_printer_is_live, hegel_printer_value,
              hegel_mark_complete} :
         LockedSound(c)
    BY DEF hegel_printer_begin_group, hegel_printer_end_group, hegel_printer_shift_indent,
           hegel_printer_deferred, hegel_printer_begin_speculative,
           hegel_printer_commit_speculative, hegel_printer_abort_speculative,
           hegel_printer_resolve, hegel_printer_is_live, hegel_printer_value, hegel_mark_complete, LockedSound, Modes, Holds, CaseEffects, PrinterEffects
  <1> HIDE DEF Call, Plain, Guarded, GuardedOn, OnPrinter, settings_mut, typed_draw
  <1> QED
    BY <1>1, <1>2, <1>3, <1>4, <1>5, <1>6, <1>7 DEF Calls

\* A call whose checks all pass was given the handles it checks for.
LEMMA CheckedPass ==
    ASSUME NEW f, NEW p, NEW q, NEW bad \in BOOLEAN, Checked(f, p, q, bad) = "OK"
    PROVE  /\ f.chk = <<"on", "bad">> => p # Null
           /\ f.chk \in {<<"arg", "bad">>, <<"arg">>} => q # Null
  <1>1. {k \in DOMAIN f.chk : Fails(f.chk[k], p, q, bad)} = {}
    BY DEF Checked, CodeOf
  <1>2. CASE f.chk = <<"on", "bad">>
    <2>1. 1 \in DOMAIN f.chk /\ f.chk[1] = "on"
      BY <1>2
    <2>2. ~Fails("on", p, q, bad)
      BY <1>1, <2>1
    <2> QED
      BY <1>2, <2>2 DEF Fails
  <1>3. CASE f.chk \in {<<"arg", "bad">>, <<"arg">>}
    <2>1. 1 \in DOMAIN f.chk /\ f.chk[1] = "arg"
      BY <1>3
    <2>2. ~Fails("arg", p, q, bad)
      BY <1>1, <2>1
    <2> QED
      BY <1>3, <2>1, <2>2 DEF Fails
  <1> QED
    BY <1>2, <1>3

\* What a check answers is a code.
LEMMA CheckedCode ==
    ASSUME NEW f, NEW p, NEW q, NEW bad \in BOOLEAN
    PROVE  Checked(f, p, q, bad) \in Codes
  BY DEF Checked, CodeOf, Codes

-----------------------------------------------------------------------------
(* Kinds and types. *)

\* A handle is told by its kind.
LEMMA HandleKinds ==
    ASSUME NEW x \in Handles
    PROVE  /\ x = Unused <=> x.kind = "unused"
           /\ x \in TestCases <=> x.kind = "tc"
           /\ x \in Printers <=> x.kind = "printer"
           /\ x \in Objects <=> x.kind \in ObjectKinds
  <1>1. CASE x = Unused
    BY <1>1 DEF Unused, TestCases, Printers, Objects, ObjectKinds
  <1>2. CASE x \in TestCases
    BY <1>2 DEF Unused, TestCases, Printers, Objects, ObjectKinds
  <1>3. CASE x \in Printers
    BY <1>3 DEF Unused, TestCases, Printers, Objects, ObjectKinds
  <1>4. CASE x \in Objects
    BY <1>4 DEF Unused, TestCases, Printers, Objects, ObjectKinds
  <1> QED
    BY <1>1, <1>2, <1>3, <1>4 DEF Handles

\* What a test case or a printer refers to.
LEMMA CaseTyped ==
    ASSUME NEW x \in Handles, InCase(x)
    PROVE  x.fam \in Families /\ x.target \in Nat
  BY HandleKinds DEF InCase, TestCases, Printers

\* A call is told by the place it is at.
LEMMA CallKinds ==
    ASSUME NEW c \in CallStates
    PROVE  /\ c = Idle <=> c.at = "idle"
           /\ c \in CallRecords <=> c.at \in {"handle", "argument", "effect"}
           /\ c \in Refusals <=> c.at = "refused"
  <1>1. CASE c = Idle
    BY <1>1 DEF Idle, CallRecords, Refusals
  <1>2. CASE c \in CallRecords
    BY <1>2 DEF Idle, CallRecords, Refusals
  <1>3. CASE c \in Refusals
    BY <1>3 DEF Idle, CallRecords, Refusals
  <1> QED
    BY <1>1, <1>2, <1>3 DEF CallStates

\* No family is unused, and NoRun is no run.
LEMMA RecordsApart ==
    /\ \A x \in FamilyRecords : x # Unused
    /\ \A r \in Runs : r.on => /\ r.engine \in BOOLEAN /\ r.cur \in Families \cup {Null}
                               /\ r.result \in {Null, "passed", "failed", "error"}
    /\ ~NoRun.on /\ NoRun \in Runs
  <1>1. \A x \in FamilyRecords : x.kind = "family"
    BY DEF FamilyRecords
  <1>2. \A x \in FamilyRecords : x # Unused
    BY <1>1 DEF Unused
  <1>3. ~NoRun.on /\ NoRun \in Runs
    BY DEF NoRun, Runs
  <1>4. ASSUME NEW r \in Runs, r.on
        PROVE  /\ r.engine \in BOOLEAN /\ r.cur \in Families \cup {Null}
               /\ r.result \in {Null, "passed", "failed", "error"}
    BY <1>3, <1>4 DEF Runs
  <1> QED
    BY <1>2, <1>3, <1>4

-----------------------------------------------------------------------------
(* Returning. *)

\* No handle a call uses changes its kind or its lock under it.
Respects(h) ==
    \A i \in Ids : heap[i] # Unused => \/ UsedBy(i) = {}
                                       \/ h[i].kind = heap[i].kind /\ h[i].by = heap[i].by

\* FixedForGood, of a step that leaves this run and these families.
Settled(r, F) ==
    /\ \A f \in Families : fam[f] # Unused /\ F[f] # Unused /\ fam[f].width # Null
                             => F[f].width = fam[f].width
    /\ run.on /\ r.on /\ run.result # Null => r.result = run.result /\ ~r.engine

ReturnsSoundly(t) ==
    \E code, h, r, F : /\ Returns(t, code, h, r, F)
                       /\ ObjectsSound(h, r, F) /\ Respects(h) /\ Settled(r, F)

\* Handles after the locks of t are released.
Released(t, h) ==
    [i \in Ids |-> IF h[i].kind \in {"tc", "printer", "collection", "shared"} /\ h[i].by = t
                     THEN [h[i] EXCEPT !.by = Null] ELSE h[i]]

\* Releasing its lock changes nothing else of a handle.
LEMMA ReleaseKeeps ==
    ASSUME NEW t \in Callers, NEW h \in [Ids -> Handles], NEW i \in Ids
    PROVE  /\ Released(t, h)[i] \in Handles
           /\ Released(t, h)[i].kind = h[i].kind
           /\ InCase(h[i]) => /\ Released(t, h)[i].fam = h[i].fam
                              /\ Released(t, h)[i].target = h[i].target
           /\ h[i].by # t => Released(t, h)[i] = h[i]
  <1>1. h[i] \in Handles
    OBVIOUS
  <1>2. CASE h[i].kind \in {"tc", "printer", "collection", "shared"} /\ h[i].by = t
    <2>1. Released(t, h)[i] = [h[i] EXCEPT !.by = Null]
      BY <1>2 DEF Released
    <2>2. CASE h[i] \in TestCases
      BY <2>1, <2>2, <1>2 DEF TestCases, Holders, Handles, InCase
    <2>3. CASE h[i] \in Printers
      BY <2>1, <2>3, <1>2 DEF Printers, Holders, Handles, InCase
    <2>4. CASE h[i] \in Objects
      BY <2>1, <2>4, <1>2 DEF Objects, ObjectKinds, Holders, Handles, InCase
    <2>5. h[i] # Unused
      BY <1>2 DEF Unused
    <2> QED
      BY <1>1, <2>2, <2>3, <2>4, <2>5 DEF Handles
  <1>3. CASE ~(h[i].kind \in {"tc", "printer", "collection", "shared"} /\ h[i].by = t)
    BY <1>1, <1>3 DEF Released
  <1> QED
    BY <1>2, <1>3

\* A family goes with its last reference.
LEMMA DropKeeps ==
    ASSUME NEW h, NEW r, NEW F \in [Families -> {Unused} \cup FamilyRecords]
    PROVE  /\ Dropped(h, r, F) \in [Families -> {Unused} \cup FamilyRecords]
           /\ \A f \in Families : Dropped(h, r, F)[f] # Unused => Dropped(h, r, F)[f] = F[f]
           /\ \A i \in Ids : InCase(h[i]) /\ h[i].fam \in Families => Dropped(h, r, F)[h[i].fam] = F[h[i].fam]
           /\ r.on /\ r.cur \in Families => Dropped(h, r, F)[r.cur] = F[r.cur]
  BY DEF Dropped, Referenced, InCase

\* What is sound when a call returns is sound once its locks are released and what nothing
\* refers to is gone.
LEMMA ReleaseSound ==
    ASSUME NEW t \in Callers, NEW h, NEW r, NEW F, ObjectsSound(h, r, F)
    PROVE  ObjectsSound(Released(t, h), r, Dropped(h, r, F))
  <1> DEFINE hh == Released(t, h)
             FF == Dropped(h, r, F)
  <1>1. h \in [Ids -> Handles] /\ r \in Runs /\ F \in [Families -> {Unused} \cup FamilyRecords]
    BY DEF ObjectsSound
  <1>2. /\ FF \in [Families -> {Unused} \cup FamilyRecords]
        /\ \A f \in Families : FF[f] # Unused => FF[f] = F[f]
        /\ \A i \in Ids : InCase(h[i]) /\ h[i].fam \in Families => FF[h[i].fam] = F[h[i].fam]
        /\ r.on /\ r.cur \in Families => FF[r.cur] = F[r.cur]
    BY <1>1, DropKeeps
  <1>3. \A i \in Ids : /\ hh[i] \in Handles /\ hh[i].kind = h[i].kind
                       /\ InCase(h[i]) => hh[i].fam = h[i].fam /\ hh[i].target = h[i].target
    BY <1>1, ReleaseKeeps
  <1>4. hh \in [Ids -> Handles]
    BY <1>3 DEF Released
  <1>5. \A i \in Ids : InCase(h[i]) => h[i].fam \in Families /\ h[i].target \in Nat
    BY <1>1, CaseTyped
  <1> HIDE DEF hh, FF
  <1>6. Rooted(hh, r, FF)
    <2>1. ASSUME NEW i \in Ids, InCase(hh[i])
          PROVE  FF[hh[i].fam] \in FamilyRecords /\ hh[i].target <= FF[hh[i].fam].slots
      <3>1. InCase(h[i])
        BY <1>3, <2>1 DEF InCase
      <3> QED
        BY <3>1, <1>2, <1>3, <1>5 DEF ObjectsSound, Rooted
    <2>2. r.on /\ r.cur # Null => FF[r.cur] \in FamilyRecords
      BY <1>1, <1>2, RecordsApart DEF ObjectsSound, Rooted
    <2>3. ASSUME NEW f \in Families, FF[f] \in FamilyRecords
          PROVE  \A n \in FF[f].live : n <= FF[f].slots
      BY <1>2, <2>3, RecordsApart DEF ObjectsSound, Rooted
    <2> QED
      BY <2>1, <2>2, <2>3 DEF Rooted
  <1>7. Apart(hh, FF)
    <2> SUFFICES ASSUME NEW i \in Ids, NEW j \in Ids, i # j, hh[i].kind = "tc", hh[j].kind = "tc",
                        hh[i].fam = hh[j].fam, hh[i].target = hh[j].target
                 PROVE  hh[i].target \notin FF[hh[i].fam].live
      BY DEF Apart
    <2>1. InCase(h[i]) /\ InCase(h[j]) /\ h[i].kind = "tc" /\ h[j].kind = "tc"
      BY <1>3 DEF InCase
    <2>2. h[i].target \notin F[h[i].fam].live
      BY <1>3, <2>1 DEF ObjectsSound, Apart
    <2> QED
      BY <1>2, <1>3, <1>5, <2>1, <2>2
  <1>8. Concluded(r, FF)
    BY <1>2 DEF ObjectsSound, Concluded
  <1> QED
    BY <1>1, <1>2, <1>4, <1>6, <1>7, <1>8 DEF ObjectsSound, hh, FF

\* So a call that returns soundly leaves the invariant as it was.
LEMMA ReturnKeeps ==
    ASSUME IInv, NEW t \in Callers, ReturnsSoundly(t)
    PROVE  ObjectsSound(heap', run', fam') /\ CallsSound' /\ Settled(run', fam')
  <1>1. PICK code, h, r, F : /\ Returns(t, code, h, r, F)
                             /\ ObjectsSound(h, r, F) /\ Respects(h) /\ Settled(r, F)
    BY DEF ReturnsSoundly
  <1>2. heap' = Released(t, h) /\ run' = r /\ fam' = Dropped(h, r, F)
        /\ call' = [call EXCEPT ![t] = Idle]
    BY <1>1 DEF Returns, Released
  <1>3. ObjectsSound(heap', run', fam')
    BY <1>1, <1>2, ReleaseSound
  <1>4. Settled(run', fam')
    <2>1. F \in [Families -> {Unused} \cup FamilyRecords]
      BY <1>1 DEF ObjectsSound
    <2>2. \A f \in Families : fam'[f] # Unused => fam'[f] = F[f]
      BY <1>2, <2>1, DropKeeps
    <2> QED
      BY <1>1, <1>2, <2>2 DEF Settled
  <1>5. call' \in [Callers -> CallStates]
    BY <1>2 DEF IInv, CallsSound, CallStates
  <1>6. ASSUME NEW u \in Callers
        PROVE  CallFits(heap', call'[u], u)
    <2>1. CASE u = t
      <3>1. call'[u] = Idle
        BY <1>2, <2>1 DEF IInv, CallsSound
      <3> QED
        BY <3>1, CallKinds DEF CallFits, CallStates, Idle
    <2>2. CASE u # t
      <3> DEFINE c == call[u]
      <3>1. call'[u] = c /\ c \in CallStates /\ CallFits(heap, c, u)
        BY <1>2, <2>2 DEF IInv, CallsSound
      <3>2. h \in [Ids -> Handles]
        BY <1>1 DEF ObjectsSound
      <3>3. ASSUME NEW i \in Ids, heap[i] # Unused, u \in UsedBy(i)
            PROVE  heap'[i].kind = heap[i].kind /\ (heap[i].by = u => heap'[i].by = u)
        <4>1. h[i].kind = heap[i].kind /\ h[i].by = heap[i].by
          BY <1>1, <3>3 DEF Respects
        <4>2. heap'[i].kind = h[i].kind /\ (h[i].by # t => heap'[i] = h[i])
          BY <1>2, <3>2, ReleaseKeeps
        <4> QED
          BY <2>2, <4>1, <4>2
      <3>4. \A i \in Ids : heap[i].kind # "unused" => heap[i] # Unused
        BY DEF Unused
      <3> HIDE DEF c
      <3>5. CASE c \in Refusals
        <4>1. c.at # "idle" /\ c.p \in Ids /\ c \notin CallRecords
          BY <3>5, CallKinds DEF Refusals, CallStates
        <4>2. InCase(heap[c.p]) /\ u \in UsedBy(c.p)
          BY <3>1, <3>5, <4>1 DEF CallFits, UsedBy, c
        <4>3. heap'[c.p].kind = heap[c.p].kind
          BY <3>3, <3>4, <4>1, <4>2 DEF InCase
        <4> QED
          BY <3>1, <4>1, <4>2, <4>3 DEF CallFits, InCase
      <3>6. CASE c \in CallRecords
        <4>1. c.at # "idle" /\ c.p \in Ids /\ c \notin Refusals /\ c.on \in {"tc", "printer"}
          BY <3>6, CallKinds DEF CallRecords, CallStates
        <4>2. u \in UsedBy(c.p) /\ (c.q \in Ids => u \in UsedBy(c.q))
          BY <4>1 DEF UsedBy, c
        <4>3. heap[c.p].kind = c.on
          BY <3>1, <3>6 DEF CallFits
        <4>4. heap'[c.p].kind = c.on /\ (heap[c.p].by = u => heap'[c.p].by = u)
          BY <3>3, <3>4, <4>1, <4>2, <4>3
        <4>5. c.hold # "none" => /\ c.q \in Ids /\ heap'[c.q].kind \in {"collection", "shared"}
                                 /\ heap[c.q].by = u => heap'[c.q].by = u
          BY <3>1, <3>3, <3>4, <3>6, <4>2 DEF CallFits
        <4>6. c.hold = "none" /\ c.q # Null => heap'[c.q].kind = "value"
          BY <3>1, <3>3, <3>4, <3>6, <4>2 DEF CallFits, CallRecords
        <4> QED
          BY <3>1, <3>6, <4>1, <4>4, <4>5, <4>6 DEF CallFits
      <3>7. CASE c = Idle
        BY <3>1, <3>7, CallKinds DEF CallFits, Idle, CallStates
      <3> QED
        BY <3>1, <3>5, <3>6, <3>7 DEF CallStates
    <2> QED
      BY <2>1, <2>2
  <1> QED
    BY <1>3, <1>4, <1>5, <1>6 DEF CallsSound

-----------------------------------------------------------------------------
(* What a call may return: the handles it found, a new handle, a family more  *)
(* or changed, a run that goes on.                                            *)

\* A new handle x is of a region that is there, which no test case has while it lives.
Fits(x, h, F) ==
    /\ x \in Handles
    /\ InCase(x) => F[x.fam] \in FamilyRecords /\ x.target <= F[x.fam].slots
    /\ x.kind = "tc" =>
          \A j \in Ids : h[j].kind = "tc" /\ h[j].fam = x.fam /\ h[j].target = x.target
                           => x.target \notin F[x.fam].live

\* A handle more leaves what is sound sound.
LEMMA HandleAdded ==
    ASSUME NEW h, NEW r, NEW F, ObjectsSound(h, r, F),
           NEW n \in Ids, NEW x, Fits(x, h, F)
    PROVE  ObjectsSound([h EXCEPT ![n] = x], r, F)
  <1> DEFINE hh == [h EXCEPT ![n] = x]
  <1>1. h \in [Ids -> Handles] /\ hh \in [Ids -> Handles]
    BY DEF ObjectsSound, Fits
  <1>2. hh[n] = x /\ \A i \in Ids : i # n => hh[i] = h[i]
    BY <1>1
  <1> HIDE DEF hh
  <1>3. Rooted(hh, r, F)
    BY <1>2 DEF ObjectsSound, Rooted, Fits
  <1>4. Apart(hh, F)
    BY <1>2 DEF ObjectsSound, Apart, Fits
  <1> QED
    BY <1>1, <1>3, <1>4 DEF ObjectsSound, hh

\* A call that only answers a code returns what it found.
LEMMA AnswerSound ==
    ASSUME IInv, NEW t \in Callers, NEW code, Answers(t, code)
    PROVE  ReturnsSoundly(t)
  <1>1. Respects(heap)
    BY DEF Respects
  <1>2. Settled(run, fam)
    BY DEF Settled, IInv, ObjectsSound
  <1> QED
    BY <1>1, <1>2 DEF IInv, Answers, ReturnsSoundly

\* A call that gives a handle that fits returns soundly.
LEMMA GivesSound ==
    ASSUME IInv, NEW t \in Callers, NEW x, NEW r, NEW F, Gives(t, x, r, F),
           ObjectsSound(heap, r, F), Fits(x, heap, F), Settled(r, F)
    PROVE  ReturnsSoundly(t)
  <1>1. PICK n \in Ids : Free(n) /\ Returns(t, "OK", [heap EXCEPT ![n] = x], r, F)
    BY DEF Gives
  <1>2. ObjectsSound([heap EXCEPT ![n] = x], r, F)
    BY HandleAdded
  <1>3. Respects([heap EXCEPT ![n] = x])
    BY <1>1 DEF Respects, Free, IInv, ObjectsSound
  <1> QED
    BY <1>1, <1>2, <1>3 DEF ReturnsSoundly

\* A handle that owns its data.
LEMMA ObjectSound ==
    ASSUME IInv, NEW t \in Callers, NEW kind \in ObjectKinds, Gives(t, Object(kind), run, fam)
    PROVE  ReturnsSoundly(t)
  <1>1. Object(kind) \in Objects /\ Object(kind).kind = kind
    BY DEF Object, Objects, Holders
  <1>2. Fits(Object(kind), heap, fam)
    BY <1>1 DEF Fits, Handles, InCase, ObjectKinds
  <1>3. Settled(run, fam)
    BY DEF Settled, IInv, ObjectsSound
  <1> QED
    BY <1>2, <1>3, GivesSound DEF IInv

\* The first handle on a family.
LEMMA FirstHandle ==
    ASSUME NEW h, NEW r, NEW F, ObjectsSound(h, r, F), NEW f \in Families, F[f] = Unused,
           NEW x \in FamilyRecords, x.slots = 0
    PROVE  /\ Fits(TestCase(f, MainRegion), h, [F EXCEPT ![f] = x])
           /\ Fits(Printing(f, MainRegion), h, [F EXCEPT ![f] = x])
  <1> DEFINE FF == [F EXCEPT ![f] = x]
  <1>1. FF[f] = x
    BY DEF ObjectsSound
  <1>2. TestCase(f, MainRegion) \in TestCases /\ TestCase(f, MainRegion).fam = f
        /\ TestCase(f, MainRegion).target = 0 /\ TestCase(f, MainRegion).kind = "tc"
    BY DEF TestCase, TestCases, MainRegion, Holders
  <1>3. Printing(f, MainRegion) \in Printers /\ Printing(f, MainRegion).fam = f
        /\ Printing(f, MainRegion).target = 0 /\ Printing(f, MainRegion).kind = "printer"
    BY DEF Printing, Printers, MainRegion, Holders
  <1>4. \A j \in Ids : h[j].kind = "tc" => h[j].fam # f
    BY RecordsApart DEF ObjectsSound, Rooted, InCase
  <1> HIDE DEF FF
  <1>5. Fits(TestCase(f, MainRegion), h, FF)
    BY <1>1, <1>2, <1>4 DEF Fits, Handles
  <1>6. Fits(Printing(f, MainRegion), h, FF)
    BY <1>1, <1>3 DEF Fits, Handles
  <1> QED
    BY <1>5, <1>6 DEF FF

\* A family more, which the run may move on to, leaves what is sound sound.
LEMMA FamilyAdded ==
    ASSUME NEW h, NEW r, NEW F, ObjectsSound(h, r, F), NEW f \in Families, F[f] = Unused,
           NEW x \in FamilyRecords, x.slots = 0, x.live = {MainRegion},
           NEW rr \in Runs, rr.on /\ rr.cur # Null => rr.cur = f \/ (r.on /\ rr.cur = r.cur),
           rr.on /\ rr.result # Null => ~rr.engine,
           Concluded(rr, [F EXCEPT ![f] = x])
    PROVE  ObjectsSound(h, rr, [F EXCEPT ![f] = x])
  <1> DEFINE FF == [F EXCEPT ![f] = x]
  <1>1. F \in [Families -> {Unused} \cup FamilyRecords] /\ FF \in [Families -> {Unused} \cup FamilyRecords]
    BY DEF ObjectsSound
  <1>2. FF[f] = x /\ \A g \in Families : g # f => FF[g] = F[g]
    BY <1>1
  <1>3. \A i \in Ids : InCase(h[i]) => h[i].fam # f /\ h[i].fam \in Families
    BY CaseTyped, RecordsApart DEF ObjectsSound, Rooted
  <1>4. rr.on /\ rr.cur # Null => rr.cur \in Families
    BY RecordsApart
  <1> HIDE DEF FF
  <1>5. Rooted(h, rr, FF)
    <2>1. \A i \in Ids : InCase(h[i]) => FF[h[i].fam] \in FamilyRecords /\ h[i].target <= FF[h[i].fam].slots
      BY <1>2, <1>3 DEF ObjectsSound, Rooted
    <2>2. rr.on /\ rr.cur # Null => FF[rr.cur] \in FamilyRecords
      BY <1>2, <1>4 DEF ObjectsSound, Rooted
    <2>3. \A g \in Families : FF[g] \in FamilyRecords => \A n \in FF[g].live : n <= FF[g].slots
      BY <1>2 DEF ObjectsSound, Rooted, MainRegion
    <2> QED
      BY <2>1, <2>2, <2>3 DEF Rooted
  <1>6. Apart(h, FF)
    BY <1>2, <1>3 DEF ObjectsSound, Apart, InCase
  <1> QED
    BY <1>1, <1>5, <1>6 DEF ObjectsSound, FF

\* A family that is written to: its regions are those it had and new ones.
LEMMA FamilyChanged ==
    ASSUME NEW h, NEW r, NEW F, ObjectsSound(h, r, F), NEW f \in Families, F[f] \in FamilyRecords,
           NEW x \in FamilyRecords, x.owned = F[f].owned, F[f].completed => x.completed,
           F[f].slots <= x.slots,
           \A n \in x.live : (n \in F[f].live \/ n > F[f].slots) /\ n <= x.slots
    PROVE  ObjectsSound(h, r, [F EXCEPT ![f] = x])
  <1> DEFINE FF == [F EXCEPT ![f] = x]
  <1>1. F \in [Families -> {Unused} \cup FamilyRecords] /\ FF \in [Families -> {Unused} \cup FamilyRecords]
    BY DEF ObjectsSound
  <1>2. FF[f] = x /\ \A g \in Families : g # f => FF[g] = F[g]
    BY <1>1
  <1>3. \A i \in Ids : InCase(h[i]) => h[i].target \in Nat /\ h[i].fam \in Families
    BY CaseTyped DEF ObjectsSound
  <1>4. F[f].slots \in Nat /\ x.slots \in Nat
    BY DEF FamilyRecords
  <1> HIDE DEF FF
  <1>5. Rooted(h, r, FF)
    <2>1. \A i \in Ids : InCase(h[i]) => FF[h[i].fam] \in FamilyRecords /\ h[i].target <= FF[h[i].fam].slots
      BY <1>2, <1>3, <1>4 DEF ObjectsSound, Rooted
    <2>2. r.on /\ r.cur # Null => FF[r.cur] \in FamilyRecords
      BY <1>2, RecordsApart DEF ObjectsSound, Rooted
    <2>3. \A g \in Families : FF[g] \in FamilyRecords => \A n \in FF[g].live : n <= FF[g].slots
      BY <1>2 DEF ObjectsSound, Rooted
    <2> QED
      BY <2>1, <2>2, <2>3 DEF Rooted
  <1>6. Apart(h, FF)
    <2> SUFFICES ASSUME NEW i \in Ids, NEW j \in Ids, i # j, h[i].kind = "tc", h[j].kind = "tc",
                        h[i].fam = h[j].fam, h[i].target = h[j].target
                 PROVE  h[i].target \notin FF[h[i].fam].live
      BY DEF Apart
    <2>1. h[i].target \notin F[h[i].fam].live
      BY DEF ObjectsSound, Apart
    <2>2. InCase(h[i])
      BY DEF InCase
    <2>3. h[i].target <= F[h[i].fam].slots /\ h[i].target \in Nat /\ h[i].fam \in Families
      BY <1>3, <2>2 DEF ObjectsSound, Rooted
    <2>4. CASE h[i].fam = f
      BY <1>2, <1>4, <2>1, <2>3, <2>4
    <2>5. CASE h[i].fam # f
      BY <1>2, <2>1, <2>3, <2>5
    <2> QED
      BY <2>4, <2>5
  <1>7. Concluded(r, FF)
    BY <1>2, RecordsApart DEF ObjectsSound, Concluded
  <1> QED
    BY <1>1, <1>5, <1>6, <1>7 DEF ObjectsSound, FF

\* A run that holds on to its case or leaves it, once it is complete.
LEMMA RunChanged ==
    ASSUME NEW h, NEW r, NEW F, ObjectsSound(h, r, F), NEW rr \in Runs,
           rr.on /\ rr.cur # Null => r.on /\ rr.cur = r.cur,
           rr.on /\ rr.result # Null => ~rr.engine,
           Concluded(rr, F)
    PROVE  ObjectsSound(h, rr, F)
  BY DEF ObjectsSound, Rooted

-----------------------------------------------------------------------------
(* Effects on the run. *)

\* A run that is on has one case at most, which is complete when the next is asked for.
LEMMA NextTestCaseSound ==
    ASSUME IInv, run.on, NEW t \in Callers, NextTestCase(t)
    PROVE  ReturnsSoundly(t)
  <1> DEFINE left == [run EXCEPT !.cur = Null]
             resumable == run.cur # Null => fam[run.cur].completed
  <1>1. /\ run \in [on : {TRUE}, engine : BOOLEAN, cur : Families \cup {Null},
                    result : {Null, "passed", "failed", "error"}]
        /\ ObjectsSound(heap, run, fam) /\ fam \in [Families -> {Unused} \cup FamilyRecords]
    BY RecordsApart DEF IInv, ObjectsSound, Runs
  <1>2. run.result # Null => ~run.engine
    BY <1>1 DEF ObjectsSound
  <1>3. \A f \in Families : f # Null
    BY NullApart
  <1>4. ASSUME resumable, NEW f \in Families, fam[f] # Unused, fam[f].owned
        PROVE  fam[f].completed
    BY <1>1, <1>3, <1>4 DEF ObjectsSound, Concluded
  <1>5. CASE ~resumable /\ Answers(t, "NOT_COMPLETE")
    BY <1>5, AnswerSound
  <1>6. CASE resumable /\ ~run.engine /\ Returns(t, "OK", heap, left, fam)
    <2>1. left \in Runs /\ left.on /\ left.cur = Null /\ left.result = run.result /\ ~left.engine
      BY <1>1, <1>6 DEF Runs
    <2> HIDE DEF left
    <2>2. Concluded(left, fam)
      BY <1>4, <1>6 DEF Concluded
    <2>3. ObjectsSound(heap, left, fam)
      BY <1>1, <2>1, <2>2, RunChanged
    <2>4. Respects(heap) /\ Settled(left, fam)
      BY <2>1 DEF Respects, Settled
    <2> QED
      BY <1>6, <2>3, <2>4 DEF ReturnsSoundly
  <1>7. ASSUME resumable, run.engine, NEW f \in Families, fam[f] = Unused,
               Gives(t, TestCase(f, MainRegion), [run EXCEPT !.cur = f],
                     [fam EXCEPT ![f] = NewFamily(TRUE)])
        PROVE  ReturnsSoundly(t)
    <2> DEFINE r == [run EXCEPT !.cur = f]
               x == NewFamily(TRUE)
               F == [fam EXCEPT ![f] = x]
    <2>1. r \in Runs /\ r.on /\ r.cur = f /\ r.result = Null
      BY <1>1, <1>2, <1>7 DEF Runs
    <2>2. x \in FamilyRecords /\ x.slots = 0 /\ x.live = {MainRegion}
      BY DEF NewFamily, FamilyRecords, MainRegion
    <2> HIDE DEF r, x
    <2>3. F \in [Families -> {Unused} \cup FamilyRecords] /\ F[f] = x /\ \A g \in Families : g # f => F[g] = fam[g]
      BY <1>1, <2>2
    <2> HIDE DEF F
    <2>4. Concluded(r, F)
      BY <1>4, <1>7, <2>1, <2>3 DEF Concluded
    <2>5. ObjectsSound(heap, r, F)
      BY <1>1, <1>7, <2>1, <2>2, <2>4, FamilyAdded DEF F
    <2>6. Fits(TestCase(f, MainRegion), heap, F)
      BY <1>1, <1>7, <2>2, FirstHandle DEF F
    <2>7. Settled(r, F)
      BY <1>2, <1>7, <2>1, <2>3 DEF Settled
    <2>8. Gives(t, TestCase(f, MainRegion), r, F)
      BY <1>7 DEF r, F, x
    <2> QED
      BY <2>5, <2>6, <2>7, <2>8, GivesSound
  <1>8. ASSUME resumable, run.engine, NEW res \in {"passed", "failed", "error"},
               Returns(t, "OK", heap, [left EXCEPT !.engine = FALSE, !.result = res], fam)
        PROVE  ReturnsSoundly(t)
    <2> DEFINE r == [left EXCEPT !.engine = FALSE, !.result = res]
    <2>1. r \in Runs /\ r.on /\ r.cur = Null /\ ~r.engine
      BY <1>1 DEF Runs
    <2> HIDE DEF r
    <2>2. Concluded(r, fam)
      BY <1>4, <1>8 DEF Concluded
    <2>3. ObjectsSound(heap, r, fam)
      BY <1>1, <2>1, <2>2, RunChanged
    <2>4. Respects(heap) /\ Settled(r, fam)
      BY <1>2, <1>8 DEF Respects, Settled
    <2>5. Returns(t, "OK", heap, r, fam)
      BY <1>8 DEF r
    <2> QED
      BY <2>3, <2>4, <2>5 DEF ReturnsSoundly
  <1> QED
    BY <1>5, <1>6, <1>7, <1>8 DEF NextTestCase

\* The case a run is freed with is claimed complete.
LEMMA RunFreeSound ==
    ASSUME IInv, run.on, NEW t \in Callers, RunFree(t)
    PROVE  ReturnsSoundly(t)
  <1>1. /\ run.cur \in Families \cup {Null} /\ run \in Runs
        /\ ObjectsSound(heap, run, fam) /\ fam \in [Families -> {Unused} \cup FamilyRecords]
    BY RecordsApart DEF IInv, ObjectsSound
  <1>2. NoRun \in Runs /\ ~NoRun.on /\ Respects(heap)
    BY RecordsApart DEF Respects
  <1>3. \A f \in Families : f # Null
    BY NullApart
  <1>4. CASE run.cur = Null
    <2>1. Concluded(NoRun, fam)
      BY <1>1, <1>2, <1>3, <1>4 DEF ObjectsSound, Concluded
    <2>2. ObjectsSound(heap, NoRun, fam)
      BY <1>1, <1>2, <2>1, RunChanged
    <2>3. Settled(NoRun, fam)
      BY <1>2 DEF Settled
    <2> QED
      BY <1>2, <1>4, <2>2, <2>3 DEF RunFree, ReturnsSoundly
  <1>5. CASE run.cur # Null
    <2> DEFINE f == run.cur
               x == [fam[f] EXCEPT !.completed = TRUE]
               F == [fam EXCEPT ![f] = x]
    <2>1. f \in Families /\ fam[f] \in FamilyRecords
      BY <1>1, <1>5 DEF ObjectsSound, Rooted
    <2>2. /\ x \in FamilyRecords /\ x.owned = fam[f].owned /\ x.completed
          /\ x.slots = fam[f].slots /\ x.live = fam[f].live /\ x.width = fam[f].width
      BY <2>1 DEF FamilyRecords
    <2>3. fam[f].slots <= fam[f].slots /\ \A n \in x.live : n \in fam[f].live /\ n <= x.slots
      BY <1>1, <2>1, <2>2 DEF ObjectsSound, Rooted, FamilyRecords
    <2>4. Returns(t, "OK", heap, NoRun, F)
      BY <1>5 DEF RunFree
    <2> HIDE DEF x
    <2>5. F[f] = x /\ \A g \in Families : g # f => F[g] = fam[g]
      BY <1>1, <2>1
    <2>6. ObjectsSound(heap, run, F)
      BY <1>1, <2>1, <2>2, <2>3, FamilyChanged
    <2> HIDE DEF F
    <2>7. Concluded(NoRun, F)
      BY <1>1, <2>2, <2>5 DEF ObjectsSound, Concluded
    <2>8. ObjectsSound(heap, NoRun, F)
      BY <1>2, <2>6, <2>7, RunChanged
    <2>9. Settled(NoRun, F)
      BY <1>2, <2>2, <2>5 DEF Settled
    <2> QED
      BY <1>2, <2>4, <2>8, <2>9 DEF ReturnsSoundly
  <1> QED
    BY <1>4, <1>5

\* A new run has no case and no result.
LEMMA RunStartSound ==
    ASSUME IInv, ~run.on, NEW t \in Callers,
           Returns(t, "OK", heap, [on |-> TRUE, engine |-> TRUE, cur |-> Null, result |-> Null], fam)
    PROVE  ReturnsSoundly(t)
  <1> DEFINE r == [on |-> TRUE, engine |-> TRUE, cur |-> Null, result |-> Null]
  <1>1. r \in Runs /\ r.on /\ r.cur = Null /\ r.result = Null
    BY DEF Runs
  <1>2. Concluded(r, fam)
    BY DEF IInv, ObjectsSound, Concluded
  <1> HIDE DEF r
  <1>3. ObjectsSound(heap, r, fam)
    BY <1>1, <1>2, RunChanged DEF IInv
  <1>4. Respects(heap) /\ Settled(r, fam)
    BY DEF Respects, Settled
  <1>5. Returns(t, "OK", heap, r, fam)
    BY DEF r
  <1> QED
    BY <1>3, <1>4, <1>5 DEF ReturnsSoundly

\* A result is a handle of its own, or is not there yet.
LEMMA RunResultSound ==
    ASSUME IInv, NEW t \in Callers, RunResult(t)
    PROVE  ReturnsSoundly(t)
  BY AnswerSound, ObjectSound DEF RunResult, ObjectKinds

\* A document of its own, or a case made from a blob: no run owns the family.
LEMMA OwnFamilySound ==
    ASSUME IInv, NEW t \in Callers, NEW f \in Families, fam[f] = Unused,
           NEW x \in FamilyRecords, x.slots = 0, x.live = {MainRegion}, ~x.owned,
           \/ Gives(t, TestCase(f, MainRegion), run, [fam EXCEPT ![f] = x])
           \/ Gives(t, Printing(f, MainRegion), run, [fam EXCEPT ![f] = x])
    PROVE  ReturnsSoundly(t)
  <1> DEFINE F == [fam EXCEPT ![f] = x]
  <1>1. ObjectsSound(heap, run, fam) /\ run \in Runs /\ fam \in [Families -> {Unused} \cup FamilyRecords]
    BY DEF IInv, ObjectsSound
  <1>2. F[f] = x /\ \A g \in Families : g # f => F[g] = fam[g]
    BY <1>1
  <1>3. Fits(TestCase(f, MainRegion), heap, F) /\ Fits(Printing(f, MainRegion), heap, F)
    BY <1>1, FirstHandle
  <1>4. Concluded(run, F)
    BY <1>1, <1>2 DEF ObjectsSound, Concluded
  <1>5. run.on /\ run.result # Null => ~run.engine
    BY <1>1 DEF ObjectsSound
  <1>6. ObjectsSound(heap, run, F)
    BY <1>1, <1>4, <1>5, FamilyAdded
  <1>7. Settled(run, F)
    BY <1>2, <1>5 DEF Settled
  <1> HIDE DEF F
  <1>8. \/ Gives(t, TestCase(f, MainRegion), run, F)
        \/ Gives(t, Printing(f, MainRegion), run, F)
    BY DEF F
  <1> QED
    BY <1>3, <1>6, <1>7, <1>8, GivesSound

\* A case made from a blob is of a family no run owns.
LEMMA FromBlobSound ==
    ASSUME IInv, NEW t \in Callers, FromBlob(t)
    PROVE  ReturnsSoundly(t)
  <1>1. NewFamily(FALSE) \in FamilyRecords /\ NewFamily(FALSE).slots = 0
        /\ NewFamily(FALSE).live = {MainRegion} /\ ~NewFamily(FALSE).owned
    BY DEF NewFamily, FamilyRecords, MainRegion
  <1> QED
    BY <1>1, AnswerSound, OwnFamilySound DEF FromBlob

-----------------------------------------------------------------------------
(* Effects on a test case or a print region. *)

\* What a test case or a printer refers to while the invariant holds.
LEMMA Referents ==
    ASSUME IInv, NEW p \in Ids, InCase(heap[p])
    PROVE  /\ heap[p].fam \in Families /\ heap[p].target \in Nat
           /\ fam[heap[p].fam] \in FamilyRecords /\ heap[p].target <= fam[heap[p].fam].slots
  BY CaseTyped DEF IInv, ObjectsSound, Rooted

\* A family one of whose parts is written: its regions may die, its width is kept.
LEMMA FamilyWritten ==
    ASSUME IInv, NEW f \in Families, fam[f] \in FamilyRecords,
           NEW x \in FamilyRecords, x.owned = fam[f].owned, fam[f].completed => x.completed,
           fam[f].slots = x.slots, x.live \subseteq fam[f].live,
           fam[f].width \in {Null, x.width}
    PROVE  /\ ObjectsSound(heap, run, [fam EXCEPT ![f] = x])
           /\ Settled(run, [fam EXCEPT ![f] = x])
  <1> DEFINE F == [fam EXCEPT ![f] = x]
  <1>1. ObjectsSound(heap, run, fam) /\ fam \in [Families -> {Unused} \cup FamilyRecords]
    BY DEF IInv, ObjectsSound
  <1>2. F[f] = x /\ \A g \in Families : g # f => F[g] = fam[g]
    BY <1>1
  <1>3. fam[f].slots <= x.slots /\ \A n \in x.live : n \in fam[f].live /\ n <= x.slots
    BY <1>1 DEF ObjectsSound, Rooted, FamilyRecords
  <1>4. ObjectsSound(heap, run, F)
    BY <1>1, <1>3, FamilyChanged
  <1>5. Settled(run, F)
    BY <1>1, <1>2 DEF ObjectsSound, Settled
  <1> QED
    BY <1>4, <1>5

\* A hole opened in a region is a region no handle has yet.
LEMMA RegionOpened ==
    ASSUME IInv, NEW f \in Families, fam[f] \in FamilyRecords
    PROVE  LET F == WithDeferred(fam, f)
               n == fam[f].slots + 1
           IN  /\ ObjectsSound(heap, run, F) /\ Settled(run, F)
               /\ Fits(TestCase(f, n), heap, F) /\ Fits(Printing(f, n), heap, F)
  <1> DEFINE n == fam[f].slots + 1
             x == [fam[f] EXCEPT !.slots = n, !.live = @ \cup {n}]
             F == WithDeferred(fam, f)
  <1>1. ObjectsSound(heap, run, fam) /\ fam \in [Families -> {Unused} \cup FamilyRecords]
    BY DEF IInv, ObjectsSound
  <1>2. fam[f].slots \in Nat /\ fam[f].live \subseteq Nat /\ n \in Nat
    BY DEF FamilyRecords
  <1>3. /\ x \in FamilyRecords /\ x.owned = fam[f].owned /\ (fam[f].completed => x.completed)
        /\ x.slots = n /\ x.live = fam[f].live \cup {n} /\ x.width = fam[f].width
    BY <1>2 DEF FamilyRecords
  <1>4. F = [fam EXCEPT ![f] = x]
    BY <1>1 DEF WithDeferred
  <1>5. \A m \in fam[f].live : m <= fam[f].slots
    BY <1>1 DEF ObjectsSound, Rooted
  <1> HIDE DEF x, F
  <1>6. F[f] = x /\ \A g \in Families : g # f => F[g] = fam[g]
    BY <1>1, <1>4
  <1>7. \A m \in x.live : (m \in fam[f].live \/ m > fam[f].slots) /\ m <= x.slots
    BY <1>2, <1>3, <1>5
  <1>8. ObjectsSound(heap, run, F)
    <2>1. fam[f].slots <= x.slots
      BY <1>2, <1>3
    <2>2. ObjectsSound(heap, run, [fam EXCEPT ![f] = x])
      BY <1>1, <1>3, <1>7, <2>1, FamilyChanged
    <2> QED
      BY <1>4, <2>2
  <1>9. Settled(run, F)
    BY <1>1, <1>3, <1>6 DEF ObjectsSound, Settled
  <1>10. \A j \in Ids : heap[j].kind = "tc" /\ heap[j].fam = f => heap[j].target # n
    BY <1>2, Referents DEF InCase
  <1>11. TestCase(f, n) \in TestCases /\ TestCase(f, n).fam = f /\ TestCase(f, n).target = n
    BY <1>2 DEF TestCase, TestCases, Holders
  <1>12. Printing(f, n) \in Printers /\ Printing(f, n).fam = f /\ Printing(f, n).target = n
         /\ Printing(f, n).kind = "printer"
    BY <1>2 DEF Printing, Printers, Holders
  <1>13. Fits(TestCase(f, n), heap, F)
    BY <1>2, <1>3, <1>6, <1>10, <1>11 DEF Fits, Handles
  <1>14. Fits(Printing(f, n), heap, F)
    BY <1>2, <1>3, <1>6, <1>12 DEF Fits, Handles
  <1> QED
    BY <1>8, <1>9, <1>13, <1>14 DEF F

\* A clone has a hole of its own, or shares the dead region of its parent.
LEMMA CloneSound ==
    ASSUME IInv, NEW t \in Callers, NEW p \in Ids, heap[p].kind = "tc", Clone(t, p)
    PROVE  ReturnsSoundly(t)
  <1> DEFINE f == heap[p].fam
             target == heap[p].target
  <1>1. f \in Families /\ target \in Nat /\ fam[f] \in FamilyRecords /\ target <= fam[f].slots
    BY Referents DEF InCase
  <1>2. ASSUME NEW e \in DrawErrors, Answers(t, e)
        PROVE  ReturnsSoundly(t)
    BY <1>2, AnswerSound
  <1>3. CASE Gives(t, TestCase(f, fam[f].slots + 1), run, WithDeferred(fam, f))
    BY <1>1, <1>3, RegionOpened, GivesSound
  <1>4. CASE target \notin fam[f].live /\ Gives(t, TestCase(f, target), run, fam)
    <2>1. TestCase(f, target) \in TestCases /\ TestCase(f, target).fam = f /\ TestCase(f, target).target = target
      BY <1>1 DEF TestCase, TestCases, Holders
    <2>2. Fits(TestCase(f, target), heap, fam)
      BY <1>1, <1>4, <2>1 DEF Fits, Handles
    <2>3. ObjectsSound(heap, run, fam) /\ Settled(run, fam)
      BY DEF IInv, ObjectsSound, Settled
    <2> QED
      BY <1>4, <2>2, <2>3, GivesSound
  <1> QED
    BY <1>2, <1>3, <1>4 DEF Clone

\* A printer keeps the width the document has, or gives it one.
LEMMA PrinterSound ==
    ASSUME IInv, NEW t \in Callers, NEW p \in Ids, heap[p].kind = "tc", TestCasePrinter(t, p)
    PROVE  ReturnsSoundly(t)
  <1> DEFINE f == heap[p].fam
             target == heap[p].target
  <1>1. f \in Families /\ target \in Nat /\ fam[f] \in FamilyRecords /\ target <= fam[f].slots
    BY Referents DEF InCase
  <1>2. CASE Answers(t, "INVALID_ARG")
    BY <1>2, AnswerSound
  <1>3. ASSUME NEW w \in Widths \cup {Null}, w = Null \/ fam[f].width \in {Null, w},
               Gives(t, Printing(f, target), run, [fam EXCEPT ![f].width = IF w = Null THEN @ ELSE w])
        PROVE  ReturnsSoundly(t)
    <2> DEFINE x == [fam[f] EXCEPT !.width = IF w = Null THEN @ ELSE w]
               F == [fam EXCEPT ![f] = x]
    <2>1. /\ x \in FamilyRecords /\ x.owned = fam[f].owned /\ (fam[f].completed => x.completed)
          /\ x.slots = fam[f].slots /\ x.live = fam[f].live /\ fam[f].width \in {Null, x.width}
      BY <1>1, <1>3 DEF FamilyRecords
    <2>2. Gives(t, Printing(f, target), run, F)
      BY <1>1, <1>3 DEF IInv, ObjectsSound
    <2> HIDE DEF x
    <2>3. ObjectsSound(heap, run, F) /\ Settled(run, F)
      BY <1>1, <2>1, FamilyWritten
    <2>4. F[f] = x
      BY <1>1 DEF IInv, ObjectsSound
    <2> HIDE DEF F
    <2>5. Printing(f, target) \in Printers /\ Printing(f, target).fam = f
          /\ Printing(f, target).target = target /\ Printing(f, target).kind = "printer"
      BY <1>1 DEF Printing, Printers, Holders
    <2>6. Fits(Printing(f, target), heap, F)
      BY <1>1, <2>1, <2>4, <2>5 DEF Fits, Handles
    <2> QED
      BY <2>2, <2>3, <2>6, GivesSound
  <1> QED
    BY <1>2, <1>3 DEF TestCasePrinter

\* Writing changes no handle, run or family.
LEMMA WriteSound ==
    ASSUME IInv, NEW t \in Callers, NEW p, Write(t, p)
    PROVE  ReturnsSoundly(t)
  BY AnswerSound DEF Write

\* Regions die, by a retracted speculation or by the document being read.
LEMMA RegionsDie ==
    ASSUME IInv, NEW t \in Callers, NEW p \in Ids, heap[p].kind = "printer", NEW code, NEW live,
           live \subseteq fam[heap[p].fam].live,
           Returns(t, code, heap, run, [fam EXCEPT ![heap[p].fam].live = live])
    PROVE  ReturnsSoundly(t)
  <1> DEFINE f == heap[p].fam
             x == [fam[f] EXCEPT !.live = live]
             F == [fam EXCEPT ![f] = x]
  <1>1. f \in Families /\ fam[f] \in FamilyRecords
    BY Referents DEF InCase
  <1>2. /\ x \in FamilyRecords /\ x.owned = fam[f].owned /\ (fam[f].completed => x.completed)
        /\ x.slots = fam[f].slots /\ x.live = live /\ x.width = fam[f].width
    BY <1>1 DEF FamilyRecords
  <1>3. Returns(t, code, heap, run, F)
    BY <1>1 DEF IInv, ObjectsSound
  <1> HIDE DEF x
  <1>4. ObjectsSound(heap, run, F) /\ Settled(run, F)
    BY <1>1, <1>2, FamilyWritten
  <1>5. Respects(heap)
    BY DEF Respects
  <1> QED
    BY <1>3, <1>4, <1>5 DEF ReturnsSoundly

\* Retracting a speculation kills regions.
LEMMA AbortSound ==
    ASSUME IInv, NEW t \in Callers, NEW p \in Ids, heap[p].kind = "printer", Abort(t, p)
    PROVE  ReturnsSoundly(t)
  <1> DEFINE f == heap[p].fam
  <1>1. ASSUME NEW dead \in SUBSET (fam[f].live \ {MainRegion, heap[p].target}),
               Returns(t, "OK", heap, run, [fam EXCEPT ![f].live = @ \ dead])
        PROVE  ReturnsSoundly(t)
    <2> DEFINE live == fam[f].live \ dead
    <2>1. Returns(t, "OK", heap, run, [fam EXCEPT ![f].live = live])
      BY <1>1
    <2>2. live \subseteq fam[f].live
      OBVIOUS
    <2> HIDE DEF live
    <2> QED
      BY <2>1, <2>2, RegionsDie
  <1> QED
    BY <1>1, AnswerSound DEF Abort

\* Reading the document kills its regions.
LEMMA ReadSound ==
    ASSUME IInv, NEW t \in Callers, NEW p \in Ids, heap[p].kind = "printer", Read(t, p)
    PROVE  ReturnsSoundly(t)
  <1>1. ASSUME NEW e \in {"OK", "INVALID_ARG"},
               Returns(t, e, heap, run, [fam EXCEPT ![heap[p].fam].live = {}])
        PROVE  ReturnsSoundly(t)
    <2> DEFINE none == {}
    <2>1. none \subseteq fam[heap[p].fam].live
      OBVIOUS
    <2>2. Returns(t, e, heap, run, [fam EXCEPT ![heap[p].fam].live = none])
      BY <1>1
    <2> HIDE DEF none
    <2> QED
      BY <2>1, <2>2, RegionsDie
  <1> QED
    BY <1>1, AnswerSound DEF Read

\* A printer gets a hole of its own.
LEMMA OpenHoleSound ==
    ASSUME IInv, NEW t \in Callers, NEW p \in Ids, heap[p].kind = "printer", OpenHole(t, p)
    PROVE  ReturnsSoundly(t)
  <1> DEFINE f == heap[p].fam
  <1>1. f \in Families /\ fam[f] \in FamilyRecords
    BY Referents DEF InCase
  <1>2. CASE Answers(t, "INVALID_HANDLE")
    BY <1>2, AnswerSound
  <1>3. CASE Gives(t, Printing(f, fam[f].slots + 1), run, WithDeferred(fam, f))
    BY <1>1, <1>3, RegionOpened, GivesSound
  <1> QED
    BY <1>2, <1>3 DEF OpenHole

\* A case is concluded once, for all its handles.
LEMMA MarkCompleteSound ==
    ASSUME IInv, NEW t \in Callers, NEW p \in Ids, heap[p].kind = "tc", MarkComplete(t, p)
    PROVE  ReturnsSoundly(t)
  <1> DEFINE f == heap[p].fam
             h == [heap EXCEPT ![p].done = TRUE]
             x == [fam[f] EXCEPT !.completed = TRUE]
             F == [fam EXCEPT ![f] = x]
  <1>1. f \in Families /\ fam[f] \in FamilyRecords /\ heap[p].target <= fam[f].slots
    BY Referents DEF InCase
  <1>2. CASE Answers(t, "ALREADY_COMPLETE") \/ Answers(t, "INVALID_ARG")
    BY <1>2, AnswerSound
  <1>3. CASE Returns(t, "OK", h, run, [fam EXCEPT ![f].completed = TRUE])
    <2>1. /\ x \in FamilyRecords /\ x.owned = fam[f].owned /\ (fam[f].completed => x.completed)
          /\ x.slots = fam[f].slots /\ x.live = fam[f].live /\ x.width = fam[f].width
      BY <1>1 DEF FamilyRecords
    <2>2. Returns(t, "OK", h, run, F)
      BY <1>1, <1>3 DEF IInv, ObjectsSound
    <2> HIDE DEF x
    <2>3. ObjectsSound(heap, run, F) /\ Settled(run, F)
      BY <1>1, <2>1, FamilyWritten
    <2>4. heap \in [Ids -> Handles] /\ heap[p] \in TestCases
      BY HandleKinds DEF IInv, ObjectsSound
    <2>5. /\ h[p] \in TestCases /\ h[p].kind = heap[p].kind /\ h[p].by = heap[p].by
          /\ h[p].fam = f /\ h[p].target = heap[p].target
          /\ \A i \in Ids : i # p => h[i] = heap[i]
      BY <2>4 DEF TestCases
    <2>6. h \in [Ids -> Handles]
      BY <2>4, <2>5 DEF Handles
    <2> HIDE DEF h, F
    <2>7. Respects(h)
      BY <2>5 DEF Respects
    <2>8. Rooted(h, run, F)
      BY <2>3, <2>5 DEF ObjectsSound, Rooted, InCase
    <2>9. Apart(h, F)
      <3> SUFFICES ASSUME NEW i \in Ids, NEW j \in Ids, i # j, h[i].kind = "tc", h[j].kind = "tc",
                          h[i].fam = h[j].fam, h[i].target = h[j].target
                   PROVE  h[i].target \notin F[h[i].fam].live
        BY DEF Apart
      <3>1. \A k \in Ids : h[k].kind = heap[k].kind /\ (h[k].kind = "tc" => h[k].fam = heap[k].fam /\ h[k].target = heap[k].target)
        BY <2>5
      <3> QED
        BY <2>3, <3>1 DEF ObjectsSound, Apart
    <2>10. ObjectsSound(h, run, F)
      BY <2>3, <2>6, <2>8, <2>9 DEF ObjectsSound
    <2> QED
      BY <2>2, <2>3, <2>7, <2>10 DEF ReturnsSoundly
  <1> QED
    BY <1>2, <1>3 DEF MarkComplete

-----------------------------------------------------------------------------
(* The steps of a call. *)

\* A handle no call uses may be freed.
LEMMA FreeSound ==
    ASSUME IInv, NEW t \in Callers, NEW p \in Ids, UsedBy(p) = {},
           Returns(t, "OK", [heap EXCEPT ![p] = Unused], run, fam)
    PROVE  ReturnsSoundly(t)
  <1>1. Fits(Unused, heap, fam)
    BY DEF Fits, Handles, InCase, Unused
  <1>2. ObjectsSound([heap EXCEPT ![p] = Unused], run, fam)
    BY <1>1, HandleAdded DEF IInv
  <1>3. Respects([heap EXCEPT ![p] = Unused])
    BY DEF Respects, IInv, ObjectsSound
  <1>4. Settled(run, fam)
    BY DEF Settled, IInv, ObjectsSound
  <1> QED
    BY <1>2, <1>3, <1>4 DEF ReturnsSoundly

\* An effect is on what its call asks for.
Allowed(f, p) ==
    /\ f.eff \in {"clone", "complete", "printer"} => p \in Ids /\ heap[p].kind = "tc"
    /\ f.eff \in {"abort", "read", "deferred"} => p \in Ids /\ heap[p].kind = "printer"
    /\ f.eff = "next" => run.on
    /\ f.eff = "run_free" /\ p # Null => run.on
    /\ f.eff = "free" /\ p # Null => p \in Ids

\* Every effect returns soundly on what its call asks for.
LEMMA PerformSound ==
    ASSUME IInv, NEW t \in Callers, NEW f, NEW p, Allowed(f, p), Perform(t, f, p)
    PROVE  ReturnsSoundly(t)
  <1>1. ASSUME NEW code, Answers(t, code) PROVE ReturnsSoundly(t)
    BY <1>1, AnswerSound
  <1>2. ASSUME f.eff \in ObjectKinds, Gives(t, Object(f.eff), run, fam) PROVE ReturnsSoundly(t)
    BY <1>2, ObjectSound
  <1>3. ASSUME NEW d \in Families, fam[d] = Unused,
               Gives(t, Printing(d, MainRegion), run,
                     [fam EXCEPT ![d] = [NewFamily(FALSE) EXCEPT !.completed = TRUE]])
        PROVE  ReturnsSoundly(t)
    <2> DEFINE x == [NewFamily(FALSE) EXCEPT !.completed = TRUE]
    <2>1. x \in FamilyRecords /\ x.slots = 0 /\ x.live = {MainRegion} /\ ~x.owned
      <3> DEFINE y == NewFamily(FALSE)
      <3>1. y \in FamilyRecords /\ y.slots = 0 /\ y.live = {MainRegion} /\ ~y.owned
        BY DEF NewFamily, FamilyRecords, MainRegion
      <3> HIDE DEF y
      <3>2. x = [y EXCEPT !.completed = TRUE]
        BY DEF y
      <3> QED
        BY <3>1, <3>2 DEF FamilyRecords
    <2>2. Gives(t, Printing(d, MainRegion), run, [fam EXCEPT ![d] = x])
      BY <1>3
    <2> HIDE DEF x
    <2> QED
      BY <1>3, <2>1, <2>2, OwnFamilySound
  <1>4. CASE f.eff = "free" /\ p # Null /\ UsedBy(p) = {} /\ Returns(t, "OK", [heap EXCEPT ![p] = Unused], run, fam)
    BY <1>4, FreeSound DEF Allowed
  <1>5. CASE f.eff = "run_start" /\ ~run.on
             /\ Returns(t, "OK", heap, [on |-> TRUE, engine |-> TRUE, cur |-> Null, result |-> Null], fam)
    BY <1>5, RunStartSound
  <1>6. CASE f.eff = "next" /\ NextTestCase(t)
    BY <1>6, NextTestCaseSound DEF Allowed
  <1>7. CASE f.eff = "result" /\ RunResult(t)
    BY <1>7, RunResultSound
  <1>8. CASE f.eff = "run_free" /\ p # Null /\ RunFree(t)
    BY <1>8, RunFreeSound DEF Allowed
  <1>9. CASE f.eff = "from_blob" /\ FromBlob(t)
    BY <1>9, FromBlobSound
  <1>10. CASE f.eff = "clone" /\ Clone(t, p)
    BY <1>10, CloneSound DEF Allowed
  <1>11. CASE f.eff = "printer" /\ TestCasePrinter(t, p)
    BY <1>11, PrinterSound DEF Allowed
  <1>12. CASE f.eff = "complete" /\ MarkComplete(t, p)
    BY <1>12, MarkCompleteSound DEF Allowed
  <1>13. CASE f.eff \in {"note", "write"} /\ Write(t, p)
    BY <1>13, WriteSound
  <1>14. CASE f.eff = "abort" /\ Abort(t, p)
    BY <1>14, AbortSound DEF Allowed
  <1>15. CASE f.eff = "read" /\ Read(t, p)
    BY <1>15, ReadSound DEF Allowed
  <1>16. CASE f.eff = "deferred" /\ OpenHole(t, p)
    BY <1>16, OpenHoleSound DEF Allowed
  <1> QED
    BY <1>1, <1>2, <1>3, <1>4, <1>5, <1>6, <1>7, <1>8, <1>9, <1>10, <1>11, <1>12, <1>13, <1>14,
       <1>15, <1>16 DEF Perform, ObjectKinds

\* A call on handles no lock protects.
LEMMA PlainCallSound ==
    ASSUME IInv, NEW t \in Callers, PlainCall(t)
    PROVE  ReturnsSoundly(t)
  <1>0. PICK f \in {c \in Calls : c.mode = "plain"} : \E p \in Pointers(f.on) : \E bad \in BOOLEAN :
          IF Checked(f, p, Null, bad) # "OK" THEN Answers(t, Checked(f, p, Null, bad))
          ELSE Perform(t, f, p)
    BY DEF PlainCall
  <1>1. PICK p \in Pointers(f.on), bad \in BOOLEAN :
          IF Checked(f, p, Null, bad) # "OK" THEN Answers(t, Checked(f, p, Null, bad))
          ELSE Perform(t, f, p)
    BY <1>0
  <1>2. CASE Answers(t, Checked(f, p, Null, bad))
    BY <1>2, AnswerSound
  <1>3. CASE Checked(f, p, Null, bad) = "OK" /\ Perform(t, f, p)
    <2>1. PlainSound(f)
      BY CallsSorted DEF LockedSound, Modes
    <2>2. f.chk = <<"on", "bad">> => p # Null
      BY <1>3, CheckedPass
    <2>3. f.on = "run" /\ p # Null => run.on
      BY DEF Pointers
    <2>4. f.on \notin {"none", "run"} /\ p # Null => p \in Ids /\ heap[p].kind = f.on
      BY DEF Pointers
    <2>5. Allowed(f, p)
      BY <2>1, <2>2, <2>3, <2>4 DEF PlainSound, Allowed
    <2> QED
      BY <1>3, <2>5, PerformSound
  <1> QED
    BY <1>1, <1>2, <1>3

\* A call that has its locks operates on a handle of the kind it asked for.
LEMMA EffectSound ==
    ASSUME IInv, NEW t \in Callers, Effect(t)
    PROVE  ReturnsSoundly(t)
  <1> DEFINE c == call[t]
  <1>1. c \in CallRecords
    BY CallKinds DEF Effect, IInv, CallsSound
  <1>2. /\ c.p \in Ids /\ c.on \in {"tc", "printer"} /\ heap[c.p].kind = c.on
        /\ c.on = "tc" => c.eff \in CaseEffects
        /\ c.on = "printer" => c.eff \in PrinterEffects
    BY <1>1 DEF IInv, CallsSound, CallFits, CallRecords
  <1>3. Perform(t, c, c.p)
    BY DEF Effect
  <1> HIDE DEF c
  <1>4. Allowed(c, c.p)
    BY <1>2 DEF Allowed, CaseEffects, PrinterEffects
  <1> QED
    BY <1>3, <1>4, PerformSound

\* One way a call enters.
Enters(t, f, p, q, bad) ==
    LET code == Checked(f, p, q, bad)
    IN  \/ Answers(t, "INVALID_HANDLE")
        \/ Answers(t, "ALREADY_COMPLETE")
        \/ /\ p # Null
           /\ call' = [call EXCEPT ![t] =
                  IF code = "OK" THEN [at |-> "handle", mode |-> f.mode, hold |-> f.hold,
                                       on |-> f.on, eff |-> f.eff, p |-> p, q |-> q]
                  ELSE [at |-> "refused", mode |-> f.mode, code |-> code, p |-> p, q |-> q]]
           /\ UNCHANGED <<heap, run, fam>>

\* A call that enters uses the handles it was given.
LEMMA EnterSound ==
    ASSUME IInv, NEW t \in Callers, Enter(t)
    PROVE  ReturnsSoundly(t) \/ (CallsSound' /\ UNCHANGED <<heap, run, fam>>)
  <1>0. PICK f \in {c \in Calls : c.mode # "plain"} :
          \E p \in Pointers(f.on) : \E q \in Pointers(f.arg) : \E bad \in BOOLEAN : Enters(t, f, p, q, bad)
    BY DEF Enter, Enters
  <1>1. PICK p \in Pointers(f.on), q \in Pointers(f.arg), bad \in BOOLEAN : Enters(t, f, p, q, bad)
    BY <1>0
  <1> DEFINE code == Checked(f, p, q, bad)
             c == [at |-> "handle", mode |-> f.mode, hold |-> f.hold, on |-> f.on, eff |-> f.eff, p |-> p, q |-> q]
             d == [at |-> "refused", mode |-> f.mode, code |-> code, p |-> p, q |-> q]
  <1>2. CASE Answers(t, "INVALID_HANDLE") \/ Answers(t, "ALREADY_COMPLETE")
    BY <1>2, AnswerSound
  <1>3. CASE p # Null /\ call' = [call EXCEPT ![t] = IF code = "OK" THEN c ELSE d] /\ UNCHANGED <<heap, run, fam>>
    <2>1. LockedSound(f)
      BY CallsSorted DEF PlainSound
    <2>2. code \in Codes
      BY CheckedCode
    <2>3. p \in Ids /\ heap[p].kind = f.on /\ f.on \in {"tc", "printer"}
      BY <1>3, <2>1 DEF Pointers, LockedSound
    <2>4. q \in Ids \cup {Null}
      BY <2>1 DEF Pointers, LockedSound
    <2>5. f.hold # "none" /\ q # Null => q \in Ids /\ heap[q].kind \in {"collection", "shared"}
      BY <2>1 DEF Pointers, LockedSound
    <2>6. code = "OK" /\ f.hold # "none" => q # Null
      BY <2>1, CheckedPass DEF LockedSound
    <2>7. f.hold = "none" /\ q # Null => heap[q].kind = "value"
      BY <2>1 DEF Pointers, LockedSound
    <2>8. ASSUME code = "OK" PROVE c \in CallRecords /\ CallFits(heap, c, t)
      BY <2>1, <2>3, <2>4, <2>5, <2>6, <2>7, <2>8 DEF CallRecords, Refusals, CallFits, LockedSound
    <2>9. d \in Refusals /\ CallFits(heap, d, t)
      BY <2>1, <2>2, <2>3, <2>4 DEF CallRecords, Refusals, CallFits, LockedSound, InCase
    <2> QED
      BY <1>3, <2>8, <2>9 DEF IInv, CallsSound, CallStates
  <1> QED
    BY <1>1, <1>2, <1>3 DEF Enters

\* A lock is taken of a handle nobody holds, and no call uses a handle less for it.
LEMMA LockKeeps ==
    ASSUME IInv, NEW t \in Callers, NEW id \in Ids, NEW at, heap[id].by = Null,
           heap[id].kind \in {"tc", "printer", "collection", "shared"},
           heap' = [heap EXCEPT ![id].by = t], run' = run, fam' = fam,
           call' = [call EXCEPT ![t].at = at],
           [call[t] EXCEPT !.at = at] \in CallRecords,
           CallFits(heap', [call[t] EXCEPT !.at = at], t)
    PROVE  ObjectsSound(heap', run', fam') /\ CallsSound'
  <1>1. heap \in [Ids -> Handles] /\ heap[id] \in Handles /\ ObjectsSound(heap, run, fam)
    BY DEF IInv, ObjectsSound
  <1>2. /\ heap'[id] \in Handles /\ heap'[id].kind = heap[id].kind /\ heap'[id].by = t
        /\ InCase(heap[id]) => heap'[id].fam = heap[id].fam /\ heap'[id].target = heap[id].target
    <2>1. heap'[id] = [heap[id] EXCEPT !.by = t]
      BY <1>1
    <2>2. CASE heap[id] \in TestCases
      BY <2>1, <2>2 DEF TestCases, Holders, Handles, InCase
    <2>3. CASE heap[id] \in Printers
      BY <2>1, <2>3 DEF Printers, Holders, Handles, InCase
    <2>4. CASE heap[id] \in Objects
      BY <2>1, <2>4 DEF Objects, ObjectKinds, Holders, Handles, InCase
    <2> QED
      BY <1>1, <2>2, <2>3, <2>4, HandleKinds DEF ObjectKinds
  <1>3. \A i \in Ids : i # id => heap'[i] = heap[i]
    BY <1>1
  <1>4. heap' \in [Ids -> Handles]
    BY <1>1, <1>2, <1>3
  <1>5. ObjectsSound(heap', run', fam')
    <2>1. \A i \in Ids : /\ heap'[i].kind = heap[i].kind
                         /\ InCase(heap[i]) => heap'[i].fam = heap[i].fam /\ heap'[i].target = heap[i].target
      BY <1>2, <1>3
    <2>2. Rooted(heap', run', fam')
      BY <1>1, <2>1 DEF ObjectsSound, Rooted, InCase
    <2>3. Apart(heap', fam')
      BY <1>1, <2>1 DEF ObjectsSound, Apart, InCase
    <2> QED
      BY <1>1, <1>4, <2>2, <2>3 DEF ObjectsSound
  <1>6. call' \in [Callers -> CallStates]
    BY DEF IInv, CallsSound, CallStates
  <1>7. ASSUME NEW u \in Callers PROVE CallFits(heap', call'[u], u)
    <2>1. CASE u = t
      <3>1. call'[u] = [call[t] EXCEPT !.at = at]
        BY <2>1 DEF IInv, CallsSound
      <3> QED
        BY <2>1, <3>1
    <2>2. CASE u # t
      <3>1. call'[u] = call[u] /\ CallFits(heap, call[u], u) /\ u # Null
        BY <2>2, NullApart DEF IInv, CallsSound
      <3>2. \A i \in Ids : heap'[i].kind = heap[i].kind /\ (heap[i].by = u => heap'[i].by = u)
        BY <1>2, <1>3, <3>1
      <3> DEFINE c == call[u]
      <3>3. c \in Refusals \cup CallRecords => c.p \in Ids
        BY DEF Refusals, CallRecords
      <3> HIDE DEF c
      <3>4. c \in Refusals => InCase(heap'[c.p])
        BY <3>1, <3>2, <3>3 DEF CallFits, InCase, c
      <3>5. c \in CallRecords =>
              /\ heap'[c.p].kind = c.on
              /\ c.at = "argument" => c.hold # "none"
              /\ c.hold = "none" /\ c.q # Null => heap'[c.q].kind = "value"
              /\ c.hold # "none" => c.q \in Ids /\ heap'[c.q].kind \in {"collection", "shared"}
              /\ c.at \in {"argument", "effect"} => heap'[c.p].by = u
              /\ c.at = "effect" /\ c.hold # "none" => heap'[c.q].by = u
        BY <3>1, <3>2, <3>3 DEF CallFits, CallRecords, c
      <3> QED
        BY <3>1, <3>4, <3>5 DEF CallFits, c
    <2> QED
      BY <2>1, <2>2
  <1> QED
    BY <1>5, <1>6, <1>7 DEF CallsSound

\* The lock changes no kind.
LEMMA LockKinds ==
    ASSUME IInv, NEW t \in Callers, NEW id \in Ids, heap[id] # Unused,
           heap' = [heap EXCEPT ![id].by = t]
    PROVE  /\ \A i \in Ids : heap'[i].kind = heap[i].kind
           /\ heap'[id].by = t /\ \A i \in Ids : i # id => heap'[i] = heap[i]
  <1>1. heap[id] \in Handles /\ heap \in [Ids -> Handles]
    BY DEF IInv, ObjectsSound
  <1>2. heap'[id] = [heap[id] EXCEPT !.by = t]
    BY <1>1
  <1>3. heap'[id].kind = heap[id].kind /\ heap'[id].by = t
    BY <1>1, <1>2 DEF Handles, TestCases, Printers, Objects
  <1> QED
    BY <1>1, <1>3

\* A call takes the lock of its handle or is refused.
LEMMA TakeHandleSound ==
    ASSUME IInv, NEW t \in Callers, TakeHandle(t)
    PROVE  \/ ReturnsSoundly(t)
           \/ ObjectsSound(heap', run', fam') /\ CallsSound' /\ run' = run /\ fam' = fam
  <1> DEFINE c == call[t]
             at == IF c.hold = "none" THEN "effect" ELSE "argument"
  <1>1. CASE Answers(t, c.code) \/ Answers(t, "CONCURRENT_USE")
    BY <1>1, AnswerSound
  <1>2. CASE c.at = "handle" /\ heap[c.p].by = Null /\ Locks(t, c.p, at)
    <2>1. c \in CallRecords /\ CallFits(heap, c, t) /\ c \in CallStates
      BY <1>2, CallKinds DEF IInv, CallsSound
    <2>2. c.p \in Ids /\ c.on \in {"tc", "printer"} /\ c.hold \in Holds
      BY <2>1 DEF CallRecords
    <2>3. heap[c.p].kind = c.on
      BY <2>1 DEF CallFits
    <2>4. heap' = [heap EXCEPT ![c.p].by = t] /\ run' = run /\ fam' = fam
          /\ call' = [call EXCEPT ![t].at = at]
      BY <1>2 DEF Locks
    <2> DEFINE d == [c EXCEPT !.at = at]
    <2>5. /\ d \in CallRecords /\ d.p = c.p /\ d.q = c.q /\ d.hold = c.hold /\ d.on = c.on /\ d.eff = c.eff
          /\ d.at = at
      BY <2>1 DEF CallRecords
    <2>6. heap'[c.p].kind = heap[c.p].kind /\ heap'[c.p].by = t
          /\ \A i \in Ids : heap'[i].kind = heap[i].kind
      <3>1. heap[c.p] # Unused
        BY <2>2, <2>3 DEF Unused
      <3> HIDE DEF c
      <3> QED
        BY <2>2, <2>4, <3>1, LockKinds
    <2>7. d \notin Refusals
      BY <2>5, CallKinds DEF CallStates
    <2> HIDE DEF d
    <2>8. CallFits(heap', d, t)
      <3>1. c.hold = "none" /\ c.q # Null => heap'[c.q].kind = "value"
        BY <2>1, <2>2, <2>6 DEF CallFits, CallRecords
      <3>2. c.hold # "none" => c.q \in Ids /\ heap'[c.q].kind \in {"collection", "shared"}
        BY <2>1, <2>6 DEF CallFits
      <3>3. c.on = "tc" => c.eff \in CaseEffects
        BY <2>1 DEF CallFits
      <3>4. c.on = "printer" => c.eff \in PrinterEffects
        BY <2>1 DEF CallFits
      <3>5. heap'[c.p].kind = c.on
        BY <2>3, <2>2, <2>6
      <3> QED
        BY <2>5, <2>6, <2>7, <3>1, <3>2, <3>3, <3>4, <3>5 DEF CallFits
    <2>9. ObjectsSound(heap', run', fam') /\ CallsSound'
      BY <1>2, <2>2, <2>3, <2>4, <2>5, <2>8, LockKeeps DEF d
    <2> QED
      BY <2>4, <2>9
  <1> QED
    BY <1>1, <1>2 DEF TakeHandle, Locked

\* A call takes the lock of its second handle or is refused.
LEMMA TakeArgumentSound ==
    ASSUME IInv, NEW t \in Callers, TakeArgument(t)
    PROVE  \/ ReturnsSoundly(t)
           \/ ObjectsSound(heap', run', fam') /\ CallsSound' /\ run' = run /\ fam' = fam
  <1> DEFINE c == call[t]
  <1>1. CASE Answers(t, "CONCURRENT_USE")
    BY <1>1, AnswerSound
  <1>2. CASE c.at = "argument" /\ heap[c.q].by = Null /\ Locks(t, c.q, "effect")
    <2>1. c \in CallRecords /\ CallFits(heap, c, t) /\ c \in CallStates
      BY <1>2, CallKinds DEF IInv, CallsSound
    <2>2. c.p \in Ids /\ c.on \in {"tc", "printer"} /\ c.hold \in Holds /\ c.q \in Ids \cup {Null}
      BY <2>1 DEF CallRecords
    <2>3. heap[c.p].kind = c.on /\ heap[c.p].by = t
      BY <1>2, <2>1 DEF CallFits
    <2>4. c.hold # "none" /\ c.q \in Ids /\ heap[c.q].kind \in {"collection", "shared"}
      BY <1>2, <2>1 DEF CallFits
    <2>5. heap' = [heap EXCEPT ![c.q].by = t] /\ run' = run /\ fam' = fam
          /\ call' = [call EXCEPT ![t].at = "effect"]
      BY <1>2 DEF Locks
    <2> DEFINE d == [c EXCEPT !.at = "effect"]
    <2>6. /\ d \in CallRecords /\ d.p = c.p /\ d.q = c.q /\ d.hold = c.hold /\ d.on = c.on /\ d.eff = c.eff
          /\ d.at = "effect"
      BY <2>1 DEF CallRecords
    <2>7. /\ \A i \in Ids : heap'[i].kind = heap[i].kind
          /\ heap'[c.q].by = t /\ \A i \in Ids : i # c.q => heap'[i] = heap[i]
      <3>1. heap[c.q] # Unused
        BY <2>4 DEF Unused
      <3> HIDE DEF c
      <3> QED
        BY <2>4, <2>5, <3>1, LockKinds
    <2>8. d \notin Refusals
      BY <2>6, CallKinds DEF CallStates
    <2> HIDE DEF d
    <2>9. CallFits(heap', d, t)
      <3>1. heap'[c.p].kind = c.on /\ heap'[c.p].by = t
        BY <2>2, <2>3, <2>7
      <3> QED
        BY <2>1, <2>4, <2>6, <2>7, <2>8, <3>1 DEF CallFits
    <2>10. ObjectsSound(heap', run', fam') /\ CallsSound'
      BY <1>2, <2>4, <2>5, <2>6, <2>9, LockKeeps DEF d
    <2> QED
      BY <2>5, <2>10
  <1> QED
    BY <1>1, <1>2 DEF TakeArgument

-----------------------------------------------------------------------------
(* The theorems. *)

\* At first there is no handle, run, family or call.
LEMMA InitSound == AbiInit => IInv
  <1> SUFFICES ASSUME AbiInit PROVE IInv
    OBVIOUS
  <1>1. heap \in [Ids -> Handles] /\ run \in Runs /\ fam \in [Families -> {Unused} \cup FamilyRecords]
    BY RecordsApart DEF AbiInit, Handles
  <1>2. ~run.on
    BY RecordsApart DEF AbiInit
  <1>3. \A i \in Ids : heap[i].kind = "unused"
    BY DEF AbiInit, Unused
  <1>4. \A f \in Families : fam[f] = Unused
    BY DEF AbiInit
  <1>5. ObjectsSound(heap, run, fam)
    BY <1>1, <1>2, <1>3, <1>4, RecordsApart DEF ObjectsSound, Rooted, Apart, Concluded, InCase
  <1>6. ASSUME NEW t \in Callers PROVE CallFits(heap, call[t], t)
    <2>1. call[t] = Idle
      BY DEF AbiInit
    <2> QED
      BY <2>1, CallKinds DEF CallFits, CallStates, Idle
  <1>7. call \in [Callers -> CallStates]
    BY DEF AbiInit, CallStates
  <1> QED
    BY <1>5, <1>6, <1>7 DEF IInv, CallsSound

\* Every step keeps the invariant, the widths and the result.
LEMMA StepSound ==
    ASSUME IInv, [AbiNext]_abiVars
    PROVE  IInv' /\ Settled(run', fam')
  <1> SUFFICES /\ ObjectsSound(heap', run', fam') /\ CallsSound'
               /\ Settled(run', fam')
    BY DEF IInv
  <1>1. Settled(run, fam)
    BY DEF Settled, IInv, ObjectsSound
  <1>2. ASSUME NEW t \in Callers, ReturnsSoundly(t)
        PROVE  ObjectsSound(heap', run', fam') /\ CallsSound' /\ Settled(run', fam')
    BY <1>2, ReturnKeeps
  <1>3. ASSUME NEW t \in Callers, PlainCall(t)
        PROVE  ObjectsSound(heap', run', fam') /\ CallsSound' /\ Settled(run', fam')
    BY <1>2, <1>3, PlainCallSound
  <1>4. ASSUME NEW t \in Callers, Enter(t)
        PROVE  ObjectsSound(heap', run', fam') /\ CallsSound' /\ Settled(run', fam')
    BY <1>1, <1>2, <1>4, EnterSound DEF IInv
  <1>5. ASSUME NEW t \in Callers, TakeHandle(t)
        PROVE  ObjectsSound(heap', run', fam') /\ CallsSound' /\ Settled(run', fam')
    BY <1>1, <1>2, <1>5, TakeHandleSound
  <1>6. ASSUME NEW t \in Callers, TakeArgument(t)
        PROVE  ObjectsSound(heap', run', fam') /\ CallsSound' /\ Settled(run', fam')
    BY <1>1, <1>2, <1>6, TakeArgumentSound
  <1>7. ASSUME NEW t \in Callers, Effect(t)
        PROVE  ObjectsSound(heap', run', fam') /\ CallsSound' /\ Settled(run', fam')
    BY <1>2, <1>7, EffectSound
  <1>8. CASE UNCHANGED abiVars
    BY <1>1, <1>8 DEF abiVars, IInv, CallsSound
  <1> QED
    BY <1>3, <1>4, <1>5, <1>6, <1>7, <1>8 DEF AbiNext, Proceed

\* Who operates on a handle has its lock.
LEMMA SoundIsExclusive == IInv => HandlesExclusive
  <1> SUFFICES ASSUME IInv PROVE HandlesExclusive
    OBVIOUS
  <1>1. ASSUME NEW t \in Callers, Working(t)
        PROVE  /\ heap[call[t].p].by = t
               /\ call[t].at = "effect" /\ call[t].hold # "none" => heap[call[t].q].by = t
    <2>1. call[t] \in CallRecords /\ CallFits(heap, call[t], t)
      BY <1>1, CallKinds DEF IInv, CallsSound, Working
    <2> QED
      BY <1>1, <2>1 DEF CallFits, Working
  <1>2. ASSUME NEW t \in Callers, NEW u \in Callers, t # u, call[t].at = "effect", call[u].at = "effect",
               call[t].hold # "none", call[t].q = call[u].q
        PROVE  FALSE
    <2>1. heap[call[t].q].by = t
      BY <1>1, <1>2 DEF Working
    <2>2. /\ call[t] \in CallRecords /\ CallFits(heap, call[t], t)
          /\ call[u] \in CallRecords /\ CallFits(heap, call[u], u)
      BY <1>2, CallKinds DEF IInv, CallsSound
    <2>3. call[t].q \in Ids /\ heap[call[t].q].kind \in {"collection", "shared"}
      BY <1>2, <2>2 DEF CallFits
    <2>4. CASE call[u].hold = "none"
      BY <1>2, <2>2, <2>3, <2>4, NullApart DEF CallFits
    <2>5. CASE call[u].hold # "none"
      BY <1>1, <1>2, <2>1, <2>5 DEF Working
    <2> QED
      BY <2>4, <2>5
  <1> QED
    BY <1>1, <1>2 DEF Working, HandlesExclusive

\* Every handle, run, family and call has its type.
THEOREM TypeCorrect == AbiSpec => []AbiTypeOK
  <1>1. IInv => AbiTypeOK
    BY DEF IInv, ObjectsSound, CallsSound, AbiTypeOK
  <1>2. IInv /\ [AbiNext]_abiVars => IInv'
    BY StepSound
  <1> QED
    BY <1>1, <1>2, InitSound, PTL DEF AbiSpec

\* A handle is one thread's while it is used, prints into a region of its own, and outlives
\* its case only to be told so (tc_guard, hegel_test_case_clone, hegel_next_test_case,
\* hegel_run_free), whatever threads call and in which order.
THEOREM HandlesHold == AbiSpec => []HandlesSound
  <1>1. IInv => HandlesSound
    BY SoundIsExclusive DEF IInv, ObjectsSound, Apart, Concluded, HandlesSound, OwnRegion, StragglersStopped
  <1>2. IInv /\ [AbiNext]_abiVars => IInv'
    BY StepSound
  <1> QED
    BY <1>1, <1>2, InitSound, PTL DEF AbiSpec

\* A document's width once asked for, and a run's result once it has one, stay what they are
\* (hegel_test_case_printer, hegel_next_test_case).
THEOREM Fixed == AbiSpec => FixedForGood
  <1> DEFINE Step == /\ \A f \in Families : fam[f] # Unused /\ fam'[f] # Unused /\ fam[f].width # Null
                                => fam'[f].width = fam[f].width
                     /\ run.on /\ run'.on /\ run.result # Null => run'.result = run.result /\ ~run'.engine
  <1>1. IInv /\ [AbiNext]_abiVars => IInv'
    BY StepSound
  <1>2. IInv /\ [AbiNext]_abiVars => [Step]_abiVars
    BY StepSound DEF Settled
  <1>3. AbiSpec => []IInv
    BY <1>1, InitSound, PTL DEF AbiSpec
  <1> QED
    BY <1>2, <1>3, PTL DEF AbiSpec, FixedForGood

-----------------------------------------------------------------------------
(* The engine mutex (FutexMutex) for any set of threads: its type, mutual          *)
(* exclusion, the absence of lost wake-ups, and the refinement of AbstractLock.    *)

\* The inductive invariant: the type, mutual exclusion in its word-exact form
\* (the word is UNLOCKED exactly when nobody holds a guard) and the wake-up debt.
MutexInv == TypeOK /\ MutualExclusion /\ NoLostWakeup

\* A fresh mutex (Mutex::new) satisfies the invariant.
LEMMA MutexInitInv == Init => MutexInv
  BY DEF Init, MutexInv, TypeOK, MutualExclusion, NoLostWakeup, PCs, UNLOCKED, LOCKED, CONTENDED

\* Every atomic step of lock, try_lock, park, unlock and unpark keeps the type.
LEMMA MutexStepType == TypeOK /\ [Next]_vars => TypeOK'
  <1> SUFFICES ASSUME TypeOK, [Next]_vars PROVE TypeOK'
    OBVIOUS
  <1> USE DEF TypeOK, PCs, UNLOCKED, LOCKED, CONTENDED
  <1>1. CASE UNCHANGED vars
    BY <1>1 DEF vars
  <1>2. ASSUME NEW t \in Threads, LockFast(t) \/ LockSlow(t) \/ TryLock(t)
        PROVE TypeOK'
    BY <1>2 DEF LockFast, LockSlow, TryLock, vars
  <1>3. ASSUME NEW t \in Threads,
               ContendedSwap(t) \/ Park(t) \/ SpuriousReturn(t) \/ UnlockSwap(t)
        PROVE TypeOK'
    BY <1>3 DEF ContendedSwap, Park, SpuriousReturn, UnlockSwap
  <1>4. ASSUME NEW t \in Threads, Unpark(t) PROVE TypeOK'
    BY <1>4 DEF Unpark
  <1> QED
    BY <1>1, <1>2, <1>3, <1>4 DEF Next

\* Only LockFast, TryLock and ContendedSwap create a guard, each from UNLOCKED.
LEMMA StepExclusion ==
    TypeOK /\ MutualExclusion /\ [Next]_vars => MutualExclusion'
  <1> SUFFICES ASSUME TypeOK, MutualExclusion, [Next]_vars PROVE MutualExclusion'
    OBVIOUS
  <1> USE DEF TypeOK, PCs, MutualExclusion, UNLOCKED, LOCKED, CONTENDED
  <1>1. CASE UNCHANGED vars
    BY <1>1 DEF vars
  <1>2. ASSUME NEW t \in Threads, LockFast(t) PROVE MutualExclusion'
    BY <1>2 DEF LockFast
  <1>3. ASSUME NEW t \in Threads, LockSlow(t) PROVE MutualExclusion'
    BY <1>3 DEF LockSlow
  <1>4. ASSUME NEW t \in Threads, TryLock(t) PROVE MutualExclusion'
    BY <1>4 DEF TryLock, vars
  <1>5. ASSUME NEW t \in Threads, ContendedSwap(t) PROVE MutualExclusion'
    BY <1>5 DEF ContendedSwap
  <1>6. ASSUME NEW t \in Threads, Park(t) PROVE MutualExclusion'
    BY <1>6 DEF Park
  <1>7. ASSUME NEW t \in Threads, SpuriousReturn(t) PROVE MutualExclusion'
    BY <1>7 DEF SpuriousReturn
  <1>8. ASSUME NEW t \in Threads, UnlockSwap(t) PROVE MutualExclusion'
    BY <1>8 DEF UnlockSwap
  <1>9. ASSUME NEW t \in Threads, Unpark(t) PROVE MutualExclusion'
    BY <1>9 DEF Unpark
  <1> QED
    BY <1>1, <1>2, <1>3, <1>4, <1>5, <1>6, <1>7, <1>8, <1>9 DEF Next

\* A thread that falls asleep, and a step that takes CONTENDED off the word,
\* always leave somebody who owes a wake-up or another swap.
LEMMA StepWakeup ==
    TypeOK /\ NoLostWakeup /\ [Next]_vars => NoLostWakeup'
  <1> SUFFICES ASSUME TypeOK, NoLostWakeup, [Next]_vars PROVE NoLostWakeup'
    OBVIOUS
  <1> USE DEF TypeOK, PCs, NoLostWakeup, UNLOCKED, LOCKED, CONTENDED
  <1>1. CASE UNCHANGED vars
    BY <1>1 DEF vars
  <1>2. ASSUME NEW t \in Threads, LockFast(t) PROVE NoLostWakeup'
    BY <1>2 DEF LockFast
  <1>3. ASSUME NEW t \in Threads, LockSlow(t) PROVE NoLostWakeup'
    BY <1>3 DEF LockSlow
  <1>4. ASSUME NEW t \in Threads, TryLock(t) PROVE NoLostWakeup'
    BY <1>4 DEF TryLock, vars
  <1>5. ASSUME NEW t \in Threads, ContendedSwap(t) PROVE NoLostWakeup'
    BY <1>5 DEF ContendedSwap
  <1>6. ASSUME NEW t \in Threads, Park(t) PROVE NoLostWakeup'
    BY <1>6 DEF Park
  <1>7. ASSUME NEW t \in Threads, SpuriousReturn(t) PROVE NoLostWakeup'
    BY <1>7 DEF SpuriousReturn
  <1>8. ASSUME NEW t \in Threads, UnlockSwap(t) PROVE NoLostWakeup'
    BY <1>8 DEF UnlockSwap
  <1>9. ASSUME NEW t \in Threads, Unpark(t) PROVE NoLostWakeup'
    BY <1>9 DEF Unpark
  <1> QED
    BY <1>1, <1>2, <1>3, <1>4, <1>5, <1>6, <1>7, <1>8, <1>9 DEF Next

\* MutexInv is inductive, so every reachable state satisfies it.
LEMMA MutexInvariance == Spec => []MutexInv
  <1>1. MutexInv /\ [Next]_vars => MutexInv'
    BY MutexStepType, StepExclusion, StepWakeup DEF MutexInv
  <1> QED
    BY MutexInitInv, <1>1, PTL DEF Spec

\* The lock word and the threads' positions keep their types.
THEOREM MutexTypeCorrect == Spec => []TypeOK
  <1>1. MutexInv => TypeOK
    BY DEF MutexInv
  <1> QED
    BY MutexInvariance, <1>1, PTL

\* Mutex::lock and try_lock never hand out two guards at once.
THEOREM Exclusion == Spec => []MutualExclusion
  <1>1. MutexInv => MutualExclusion
    BY DEF MutexInv
  <1> QED
    BY MutexInvariance, <1>1, PTL

\* No thread sleeps in park on a word whose next unlock would not wake it,
\* unless another thread already owes the wake-up.
THEOREM NoStrandedSleeper == Spec => []NoLostWakeup
  <1>1. MutexInv => NoLostWakeup
    BY DEF MutexInv
  <1> QED
    BY MutexInvariance, <1>1, PTL

\* The futex mutex implements the abstract lock: the guard goes from nobody to
\* one thread and from that thread back to nobody.
THEOREM Refinement == Spec => ImplementsLock
  <1> DEFINE H == {t \in Threads : pc[t] = "held"}
  <1>1. Init => Abstract!Init
    BY DEF Init, Abstract!Init
  <1>2. ASSUME MutexInv, [Next]_vars
        PROVE  [Abstract!Next]_H
    <2> USE <1>2 DEF MutexInv, TypeOK, PCs, MutualExclusion, UNLOCKED, LOCKED, CONTENDED
    <2>1. CASE UNCHANGED vars
      BY <2>1 DEF vars
    <2>2. ASSUME NEW t \in Threads, word = UNLOCKED, pc' = [pc EXCEPT ![t] = "held"]
          PROVE  Abstract!Acquire(t)
      BY <2>2 DEF Abstract!Acquire
    <2>3. ASSUME NEW t \in Threads, pc[t] = "held", UnlockSwap(t)
          PROVE  Abstract!Release(t)
      BY <2>3 DEF UnlockSwap, Abstract!Release
    <2>4. ASSUME NEW t \in Threads,
                 LockSlow(t) \/ Park(t) \/ SpuriousReturn(t) \/ Unpark(t)
          PROVE  H' = H
      BY <2>4 DEF LockSlow, Park, SpuriousReturn, Unpark
    <2>5. ASSUME NEW t \in Threads, ContendedSwap(t), word # UNLOCKED
          PROVE  H' = H
      BY <2>5 DEF ContendedSwap
    <2>6. ASSUME NEW t \in Threads,
                 LockFast(t) \/ TryLock(t) \/ ContendedSwap(t) \/ UnlockSwap(t)
          PROVE  Abstract!Acquire(t) \/ Abstract!Release(t) \/ H' = H
      BY <2>2, <2>3, <2>5, <2>6 DEF LockFast, TryLock, ContendedSwap, UnlockSwap, vars
    <2> QED
      BY <2>1, <2>4, <2>6 DEF Next, Abstract!Next
  <1> QED
    BY MutexInvariance, <1>1, <1>2, PTL DEF Spec, ImplementsLock, Abstract!Spec
=============================================================================
