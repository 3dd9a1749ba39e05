--------------------------- MODULE TestCaseFamilyProofs ---------------------------
(* Proofs about TestCaseFamily for any client threads, any modes and any bounds: *)
(* the family is concluded once, what the engine records of it is final, and the *)
(* streams together respect the budget they share.                               *)
EXTENDS TestCaseFamily, FiniteSetTheorems, NaturalsInduction, TLAPS

\* What a thread in the middle of a call may rely on: its handle's stream exists, it
\* holds the stream's lock from with_ntc to the end of the draw, and a completion
\* carries an outcome.
CallsSound ==
    \A t \in Threads :
        /\ call[t].handle \in Created
        /\ pc[t] \in {"locked", "choosing"} => stream_lock[call[t].handle] = t
        /\ pc[t] \in {"completing", "reporting"} => call[t].status \in Status

\* Clones are younger than the stream they come from, and only created streams have any.
ClonesYounger ==
    \A p \in StreamIds : \A i \in DOMAIN clone_children[p] :
        /\ p \in Created /\ clone_children[p][i] \in Created
        /\ clone_children[p][i] > p

\* The engine holds the locks of the streams it is reassembling, the root at the bottom.
PathLocked ==
    /\ epc = "reassemble" => Len(path) > 0 /\ path[1] = Root
    /\ epc # "reassemble" => Len(path) = 0
    /\ \A i \in DOMAIN path :
          /\ path[i] \in Created
          /\ stream_lock[path[i]] = Engine
          /\ \A j \in DOMAIN path : path[i] = path[j] => i = j

Pending(s) == \E p \in Created : \E i \in DOMAIN clone_children[p] : clone_children[p][i] = s
OnPath(s) == \E i \in DOMAIN path : path[i] = s
Reassembling == epc = "reassemble" \/ reassembled

\* A stream the engine has come to: nobody is drawing from it and nobody will, and its
\* record is complete once its lock is dropped.
Visited(s) ==
    /\ conclusion # None
    /\ \A t \in Threads : pc[t] = "choosing" => call[t].handle # s
    /\ ~OnPath(s) => record[s] = nodes[s] /\ clone_children[s] = <<>>

\* Every stream still waits among the clones of another one, or has been visited.
RecordSound ==
    /\ reassembled => epc \in {"take_outcome", "done"}
    /\ ~Reassembling => \A s \in Created \ {Root} : Pending(s)
    /\ Reassembling => \A s \in Created : Pending(s) \/ Visited(s)

\* The conclusion is the family's from the first stream that gives up to the end.
ConclusionSound ==
    (\A s \in StreamIds : aborted[s] => conclusion # None) /\ OutcomeIsConclusion

\* The one that claimed the completion: a thread, hegel_run_free, or nobody any more.
Claimants == {t \in Threads : pc[t] = "reporting"}
CompletionSound ==
    \/ ~completed /\ Claimants = {} /\ reports = 0 /\ epc # "free_report"
    \/ completed /\ reports = 0 /\ epc # "free_report" /\ \E t \in Threads : Claimants = {t}
    \/ completed /\ Claimants = {} /\ reports = 1 /\ epc # "free_report"
    \/ completed /\ Claimants = {} /\ reports = 0 /\ epc = "free_report"

\* Each recorded choice was counted by a fetch_add below the budget.
DrawsCounted ==
    /\ IsFiniteSet(Drawn)
    /\ Cardinality(Drawn) <= total_draws
    /\ Cardinality(Drawn) <= Budget

Inv == TypeOK /\ CallsSound /\ ClonesYounger /\ PathLocked /\ RecordSound
       /\ ConclusionSound /\ CompletionSound /\ DrawsCounted

\* The variables change together with the mode fixed: one step of the specification.
Step == [Next /\ UNCHANGED mode]_<<mode, vars>>

-----------------------------------------------------------------------------
\* What appending to a sequence, and dropping its last element, leave of it.
LEMMA AppendFacts ==
    ASSUME NEW S, NEW s \in Seq(S), NEW c \in S, NEW t, t = Append(s, c)
    PROVE  /\ t \in Seq(S) /\ Len(t) = Len(s) + 1
           /\ DOMAIN t = DOMAIN s \cup {Len(s) + 1} /\ Len(s) + 1 \notin DOMAIN s
           /\ \A i \in DOMAIN s : t[i] = s[i]
           /\ t[Len(s) + 1] = c
  <1>1. DOMAIN s = 1 .. Len(s) /\ Len(s) \in Nat
    OBVIOUS
  <1>2. /\ DOMAIN Append(s, c) = 1 .. Len(s) + 1 /\ Append(s, c) \in Seq(S)
        /\ Len(Append(s, c)) = Len(s) + 1
    OBVIOUS
  <1>3. \A i \in DOMAIN s : Append(s, c)[i] = s[i]
    BY <1>1
  <1>4. Append(s, c)[Len(s) + 1] = c
    OBVIOUS
  <1> QED
    BY <1>1, <1>2, <1>3, <1>4

\* The path without the stream the engine comes back from.
LEMMA FrontFacts ==
    ASSUME NEW S, NEW s \in Seq(S), Len(s) > 0
    PROVE  /\ Front(s) \in Seq(S) /\ Len(Front(s)) = Len(s) - 1
           /\ \A i \in DOMAIN Front(s) : i \in DOMAIN s /\ i # Len(s) /\ Front(s)[i] = s[i]
           /\ \A i \in DOMAIN s : i # Len(s) => i \in DOMAIN Front(s)
           /\ Len(s) \in DOMAIN s
  <1>1. DOMAIN s = 1 .. Len(s) /\ Len(s) \in Nat
    OBVIOUS
  <1>2. Front(s) \in Seq(S) /\ Len(Front(s)) = Len(s) - 1 /\ DOMAIN Front(s) = 1 .. Len(s) - 1
    BY <1>1 DEF Front
  <1>3. \A i \in DOMAIN Front(s) : Front(s)[i] = s[i]
    BY <1>1, <1>2 DEF Front
  <1> QED
    BY <1>1, <1>2, <1>3

\* A case just offered satisfies the invariant.
LEMMA InitInv == Init => Inv
  <1> SUFFICES ASSUME Init PROVE Inv
    OBVIOUS
  <1> USE ConstantsOK DEF Init, ModeOK, StreamIds, Created, Root, NoCall, NoRecord
  <1>1. FamilyOK
    BY DEF FamilyOK
  <1>7. ControlOK
    <2>1. call \in [Threads -> Calls]
      BY DEF Calls
    <2> QED
      BY <2>1 DEF ControlOK, ThreadPCs, EnginePCs
  <1>5. StreamsOK
    BY DEF StreamsOK
  <1>6. ContentsOK
    BY DEF ContentsOK
  <1>2. CallsSound /\ ClonesYounger /\ PathLocked /\ RecordSound
    BY DEF CallsSound, ClonesYounger, PathLocked, RecordSound, Reassembling
  <1>3. ConclusionSound /\ CompletionSound
    BY DEF ConclusionSound, OutcomeIsConclusion, Status, None, CompletionSound, Claimants
  <1>4. DrawsCounted
    <2>1. Drawn = {}
      BY DEF Drawn
    <2>2. Budget \in Nat
      BY DEF Budget
    <2> QED
      BY <2>1, <2>2, FS_EmptySet DEF DrawsCounted
  <1> QED
    BY <1>1, <1>2, <1>3, <1>4, <1>5, <1>6, <1>7 DEF Inv, TypeOK

\* Every step keeps the type of what the family shares.
LEMMA StepFamilyOK == TypeOK /\ Step => FamilyOK'
  <1> SUFFICES ASSUME TypeOK, Step PROVE FamilyOK'
    OBVIOUS
  <1> USE ConstantsOK DEF TypeOK, FamilyOK, ModeOK, Status, Conclude, CountDraw, family,
                          streamVars
  <1>1. CASE UNCHANGED <<mode, vars>>
    BY <1>1 DEF vars
  <1> SUFFICES ASSUME Next, UNCHANGED mode PROVE FamilyOK'
    BY <1>1 DEF Step
  <1>2. ASSUME NEW t \in Threads, NEW h \in Created, NEW op \in mode.ops, TcGuard(t, h, op)
        PROVE  FamilyOK'
    BY <1>2 DEF TcGuard
  <1>3. ASSUME NEW t \in Threads, NEW h \in Created, NEW status \in mode.statuses,
               MarkComplete(t, h, status)
        PROVE  FamilyOK'
    BY <1>3 DEF MarkComplete
  <1>4. ASSUME NEW t \in Threads, AbortedReturn(t) \/ LockStream(t) \/ PreChoiceRefuses(t)
                                   \/ PreChoicePasses(t) \/ Overrun(t)
        PROVE  FamilyOK'
    BY <1>4 DEF AbortedReturn, LockStream, PreChoiceRefuses, PreChoicePasses, Overrun
  <1>5. ASSUME NEW t \in Threads, Draw(t) \/ CloneTooDeep(t) PROVE FamilyOK'
    BY <1>5 DEF Draw, CloneTooDeep
  <1>6. ASSUME NEW t \in Threads, CloneStream(t) PROVE FamilyOK'
    BY <1>6 DEF CloneStream
  <1>7. ASSUME NEW t \in Threads, StartSpan(t) \/ StopSpan(t) PROVE FamilyOK'
    BY <1>7 DEF StartSpan, StopSpan
  <1>8. ASSUME NEW t \in Threads, ClaimCompletion(t) \/ ReportOutcome(t) PROVE FamilyOK'
    BY <1>8 DEF ClaimCompletion, ReportOutcome, ControlOK, Calls
  <1>9. CASE NextTestCase \/ RunFree \/ EngineStep
    BY <1>9 DEF NextTestCase, RunFree, EngineStep, RunFreeReport, TakeNodesUnconcluded,
       TakeNodes, TakeOutcome, ReassembleChild, RecordStream
  <1> QED
    BY <1>2, <1>3, <1>4, <1>5, <1>6, <1>7, <1>8, <1>9 DEF Next, Proceed

\* The streams created so far are among the family's, the root first.
LEMMA CreatedStreams ==
    FamilyOK => /\ Root \in Created /\ Created \subseteq StreamIds
                /\ \A c \in StreamIds : c = streams => c \notin Created
  BY ConstantsOK DEF FamilyOK, Created, StreamIds, Root

\* The bounds of a mode are numbers, and a clone is made only while there is a stream left.
LEMMA CloneFits ==
    FamilyOK => /\ mode.max_size \in Nat /\ mode.child_prefix \in Nat
                /\ \A t \in Threads : CloneStream(t) => streams \in StreamIds
  <1> SUFFICES ASSUME FamilyOK
               PROVE  /\ mode.max_size \in Nat /\ mode.child_prefix \in Nat
                      /\ \A t \in Threads : CloneStream(t) => streams \in StreamIds
    OBVIOUS
  <1>1. mode.max_size \in Nat /\ mode.child_prefix \in Nat /\ mode.streams \in 1 .. MaxStreams
    BY ConstantsOK DEF ModeOK, FamilyOK
  <1> QED
    BY <1>1, ConstantsOK DEF CloneStream, FamilyOK, StreamIds

\* Every step keeps the type of the streams' bookkeeping and locks.
LEMMA StepStreamsOK == TypeOK /\ CallsSound /\ Step => StreamsOK'
  <1> SUFFICES ASSUME TypeOK, CallsSound, Step PROVE StreamsOK'
    OBVIOUS
  <1> USE DEF TypeOK, StreamsOK, DropStreamLock, family, streamVars
  <1>0. \A t \in Threads : call[t].handle \in StreamIds
    BY CreatedStreams DEF CallsSound
  <1>1. CASE UNCHANGED <<mode, vars>>
    BY <1>1 DEF vars
  <1> SUFFICES ASSUME Next, UNCHANGED mode PROVE StreamsOK'
    BY <1>1 DEF Step
  <1>2. ASSUME NEW t \in Threads, NEW h \in Created, NEW op \in mode.ops, TcGuard(t, h, op)
        PROVE  StreamsOK'
    BY <1>2 DEF TcGuard
  <1>3. ASSUME NEW t \in Threads, NEW h \in Created, NEW status \in mode.statuses,
               MarkComplete(t, h, status)
        PROVE  StreamsOK'
    BY <1>3 DEF MarkComplete
  <1>4. ASSUME NEW t \in Threads, AbortedReturn(t) PROVE StreamsOK'
    BY <1>4 DEF AbortedReturn
  <1>5. ASSUME NEW t \in Threads, LockStream(t) PROVE StreamsOK'
    BY <1>5 DEF LockStream
  <1>6. ASSUME NEW t \in Threads, PreChoiceRefuses(t) PROVE StreamsOK'
    BY <1>6 DEF PreChoiceRefuses
  <1>7. ASSUME NEW t \in Threads, PreChoicePasses(t) PROVE StreamsOK'
    BY <1>7 DEF PreChoicePasses
  <1>8. ASSUME NEW t \in Threads, Overrun(t) PROVE StreamsOK'
    BY <1>8 DEF Overrun
  <1>9. ASSUME NEW t \in Threads, Draw(t) PROVE StreamsOK'
    BY <1>9 DEF Draw
  <1>10. ASSUME NEW t \in Threads, CloneTooDeep(t) PROVE StreamsOK'
    BY <1>10 DEF CloneTooDeep
  <1>11. ASSUME NEW t \in Threads, CloneStream(t) PROVE StreamsOK'
    <2>1. streams \in StreamIds /\ mode.max_size \in Nat /\ mode.child_prefix \in Nat
      BY <1>11, CloneFits
    <2>2. max_size' \in [StreamIds -> Nat]
      BY <1>11, <2>1, ConstantsOK DEF CloneStream
    <2>3. depth[call[t].handle] + 1 \in Nat
      BY <1>0
    <2>4. depth' \in [StreamIds -> Nat]
      BY <1>11, <2>1, <2>3 DEF CloneStream
    <2> QED
      BY <1>11, <2>2, <2>4 DEF CloneStream
  <1>12. ASSUME NEW t \in Threads, StartSpan(t) PROVE StreamsOK'
    <2> DEFINE s == call[t].handle
    <2>1. open_spans[s] + 1 \in Nat
      BY <1>0
    <2>2. PICK n \in Nat : open_spans' = [open_spans EXCEPT ![s] = n]
      BY <1>12, <2>1 DEF StartSpan
    <2>3. frozen' \in [StreamIds -> BOOLEAN]
      BY <1>12 DEF StartSpan
    <2> QED
      BY <1>12, <2>2, <2>3 DEF StartSpan
  <1>13. ASSUME NEW t \in Threads, StopSpan(t) PROVE StreamsOK'
    <2> DEFINE n == open_spans[call[t].handle]
    <2>1. (IF n = 0 THEN 0 ELSE n - 1) \in Nat
      BY <1>0
    <2> QED
      BY <1>13, <2>1 DEF StopSpan
  <1>14. ASSUME NEW t \in Threads, ClaimCompletion(t) PROVE StreamsOK'
    BY <1>14 DEF ClaimCompletion
  <1>15. ASSUME NEW t \in Threads, ReportOutcome(t) PROVE StreamsOK'
    BY <1>15 DEF ReportOutcome
  <1>16. CASE NextTestCase
    BY <1>16 DEF NextTestCase
  <1>17. CASE RunFree
    BY <1>17 DEF RunFree
  <1>18. CASE TakeNodesUnconcluded
    BY <1>18 DEF TakeNodesUnconcluded
  <1>19. CASE TakeNodes
    BY <1>19 DEF TakeNodes
  <1>20. CASE ReassembleChild
    BY <1>20 DEF ReassembleChild
  <1>21. CASE RecordStream
    BY <1>21 DEF RecordStream
  <1>22. CASE TakeOutcome
    BY <1>22 DEF TakeOutcome
  <1>23. CASE RunFreeReport
    BY <1>23 DEF RunFreeReport
  <1> QED
    BY <1>1, <1>2, <1>3, <1>4, <1>5, <1>6, <1>7, <1>8, <1>9, <1>10, <1>11, <1>12, <1>13,
       <1>14, <1>15, <1>16, <1>17, <1>18, <1>19, <1>20, <1>21, <1>22, <1>23 DEF Next,
       Proceed, EngineStep

\* Every step keeps the type of what the streams hold and of what the engine reads of it.
LEMMA StepContentsOK == TypeOK /\ CallsSound /\ PathLocked /\ Step => ContentsOK'
  <1> SUFFICES ASSUME TypeOK, CallsSound, PathLocked, Step PROVE ContentsOK'
    OBVIOUS
  <1> USE DEF TypeOK, ContentsOK, streamVars, engineVars
  <1>0. Root \in StreamIds /\ \A t \in Threads : call[t].handle \in StreamIds
    BY CreatedStreams DEF CallsSound
  <1>1. CASE UNCHANGED <<nodes, clone_children, record, path>>
    BY <1>1
  <1>2. ASSUME NEW t \in Threads, Draw(t) PROVE ContentsOK'
    BY <1>2, <1>0 DEF Draw
  <1>3. ASSUME NEW t \in Threads, CloneStream(t) PROVE ContentsOK'
    <2>1. streams \in StreamIds
      BY <1>3, CloneFits
    <2>4. PICK h \in StreamIds : h = call[t].handle
      BY <1>0
    <2>5. /\ nodes' = [nodes EXCEPT ![h] = Append(nodes[h], streams)]
          /\ clone_children' = [clone_children EXCEPT ![h] = Append(clone_children[h], streams)]
      BY <1>3, <2>4 DEF CloneStream
    <2>6. /\ Append(nodes[h], streams) \in Seq(StreamIds \cup {Value})
          /\ Append(clone_children[h], streams) \in Seq(StreamIds)
      BY <2>1
    <2>3. clone_children' \in [StreamIds -> Seq(StreamIds)]
      BY <2>5, <2>6
    <2>2. nodes' \in [StreamIds -> Seq(StreamIds \cup {Value})]
      BY <2>5, <2>6
    <2> QED
      BY <1>3, <2>2, <2>3 DEF CloneStream
  <1>4. CASE TakeNodesUnconcluded
    BY <1>4, <1>0 DEF TakeNodesUnconcluded
  <1>5. CASE TakeNodes
    BY <1>5, <1>0 DEF TakeNodes
  <1>6. CASE ReassembleChild
    <2> DEFINE c == Head(clone_children[Top])
    <2>1. Top \in StreamIds
      BY <1>6 DEF ReassembleChild, PathLocked, Top
    <2>2. c \in StreamIds /\ Tail(clone_children[Top]) \in Seq(StreamIds)
      BY <1>6, <2>1 DEF ReassembleChild
    <2>3. path' \in Seq(StreamIds)
      BY <1>6, <2>2 DEF ReassembleChild
    <2> QED
      BY <1>6, <2>2, <2>3 DEF ReassembleChild
  <1>7. CASE RecordStream
    <2>1. Top \in StreamIds /\ Front(path) \in Seq(StreamIds)
      BY <1>7 DEF RecordStream, PathLocked, Top, Front
    <2> QED
      BY <1>7, <2>1 DEF RecordStream
  <1> QED
    BY <1>1, <1>2, <1>3, <1>4, <1>5, <1>6, <1>7 DEF Step, vars, Next, Proceed, EngineStep,
       TcGuard, MarkComplete, AbortedReturn, LockStream, PreChoiceRefuses, PreChoicePasses,
       Overrun, CloneTooDeep, StartSpan, StopSpan, ClaimCompletion, ReportOutcome,
       NextTestCase, RunFree, RunFreeReport, TakeOutcome

\* Every step keeps the type of the handles, the calls and the engine's position.
LEMMA StepControlOK == TypeOK /\ Step => ControlOK'
  <1> SUFFICES ASSUME TypeOK, Step PROVE ControlOK'
    OBVIOUS
  <1> USE DEF TypeOK, ControlOK, handleVars, threadVars, engineVars, Goto, Return
  <1>0. NoCall \in Calls
    BY CreatedStreams DEF Calls, NoCall
  <1>1. CASE UNCHANGED <<mode, vars>>
    BY <1>1 DEF vars
  <1> SUFFICES ASSUME Next, UNCHANGED mode PROVE ControlOK'
    BY <1>1 DEF Step
  <1>2. ASSUME NEW t \in Threads, NEW h \in Created, NEW op \in mode.ops, TcGuard(t, h, op)
        PROVE  ControlOK'
    <2>1. [op |-> op, handle |-> h, status |-> None] \in Calls
      BY ConstantsOK, CreatedStreams DEF Calls, ModeOK, FamilyOK
    <2> QED
      BY <1>2, <2>1 DEF TcGuard, ThreadPCs
  <1>3. ASSUME NEW t \in Threads, NEW h \in Created, NEW status \in mode.statuses,
               MarkComplete(t, h, status)
        PROVE  ControlOK'
    <2>1. [op |-> None, handle |-> h, status |-> status] \in Calls
      BY ConstantsOK, CreatedStreams DEF Calls, ModeOK, FamilyOK
    <2> QED
      BY <1>3, <2>1 DEF MarkComplete, ThreadPCs
  <1>4. ASSUME NEW t \in Threads, AbortedReturn(t) PROVE ControlOK'
    BY <1>4, <1>0 DEF AbortedReturn, ThreadPCs
  <1>5. ASSUME NEW t \in Threads, LockStream(t) PROVE ControlOK'
    BY <1>5, <1>0 DEF LockStream, ThreadPCs
  <1>6. ASSUME NEW t \in Threads, PreChoiceRefuses(t) PROVE ControlOK'
    BY <1>6, <1>0 DEF PreChoiceRefuses, ThreadPCs
  <1>7. ASSUME NEW t \in Threads, PreChoicePasses(t) PROVE ControlOK'
    BY <1>7, <1>0 DEF PreChoicePasses, ThreadPCs
  <1>8. ASSUME NEW t \in Threads, Overrun(t) PROVE ControlOK'
    BY <1>8, <1>0 DEF Overrun, ThreadPCs
  <1>9. ASSUME NEW t \in Threads, Draw(t) PROVE ControlOK'
    BY <1>9, <1>0 DEF Draw, ThreadPCs
  <1>10. ASSUME NEW t \in Threads, CloneTooDeep(t) PROVE ControlOK'
    BY <1>10, <1>0 DEF CloneTooDeep, ThreadPCs
  <1>11. ASSUME NEW t \in Threads, CloneStream(t) PROVE ControlOK'
    BY <1>11, <1>0 DEF CloneStream, ThreadPCs
  <1>12. ASSUME NEW t \in Threads, StartSpan(t) PROVE ControlOK'
    BY <1>12, <1>0 DEF StartSpan, ThreadPCs
  <1>13. ASSUME NEW t \in Threads, StopSpan(t) PROVE ControlOK'
    BY <1>13, <1>0 DEF StopSpan, ThreadPCs
  <1>14. ASSUME NEW t \in Threads, ClaimCompletion(t) PROVE ControlOK'
    BY <1>14, <1>0 DEF ClaimCompletion, ThreadPCs
  <1>15. ASSUME NEW t \in Threads, ReportOutcome(t) PROVE ControlOK'
    BY <1>15, <1>0 DEF ReportOutcome, ThreadPCs
  <1>16. CASE NextTestCase
    BY <1>16, <1>0 DEF NextTestCase, EnginePCs
  <1>17. CASE RunFree
    BY <1>17, <1>0 DEF RunFree, EnginePCs
  <1>18. CASE TakeNodesUnconcluded
    BY <1>18, <1>0 DEF TakeNodesUnconcluded, EnginePCs
  <1>19. CASE TakeNodes
    BY <1>19, <1>0 DEF TakeNodes, EnginePCs
  <1>20. CASE ReassembleChild
    BY <1>20, <1>0 DEF ReassembleChild, EnginePCs
  <1>21. CASE RecordStream
    BY <1>21, <1>0 DEF RecordStream, EnginePCs
  <1>22. CASE TakeOutcome
    BY <1>22, <1>0 DEF TakeOutcome, EnginePCs, FamilyOK
  <1>23. CASE RunFreeReport
    BY <1>23, <1>0 DEF RunFreeReport, EnginePCs
  <1> QED
    BY <1>1, <1>2, <1>3, <1>4, <1>5, <1>6, <1>7, <1>8, <1>9, <1>10, <1>11, <1>12, <1>13,
       <1>14, <1>15, <1>16, <1>17, <1>18, <1>19, <1>20, <1>21, <1>22, <1>23 DEF Next,
       Proceed, EngineStep
\* A call works on a stream that exists, and nobody but its holder drops its lock.
LEMMA StepCallsSound == TypeOK /\ PathLocked /\ CallsSound /\ Step => CallsSound'
  <1> SUFFICES ASSUME TypeOK, PathLocked, CallsSound, Step PROVE CallsSound'
    OBVIOUS
  <1> USE ConstantsOK DEF TypeOK, StreamsOK, ControlOK, CallsSound, DropStreamLock, Goto, Return,
                          family, streamVars, handleVars, threadVars, engineVars
  <1>0. /\ Root \in Created /\ Created \subseteq StreamIds
        /\ \A m \in Modes : m.statuses \subseteq Status
    BY CreatedStreams DEF ModeOK
  <1>1. CASE UNCHANGED <<call, pc, stream_lock, streams>>
    BY <1>1 DEF Created
  <1>2. ASSUME NEW t \in Threads, NEW h \in Created, NEW op \in mode.ops, TcGuard(t, h, op)
        PROVE  CallsSound'
    BY <1>2, <1>0 DEF TcGuard, Created, NoCall
  <1>3. ASSUME NEW t \in Threads, NEW h \in Created, NEW status \in mode.statuses,
               MarkComplete(t, h, status)
        PROVE  CallsSound'
    BY <1>3, <1>0 DEF MarkComplete, Created, FamilyOK
  <1>4. ASSUME NEW t \in Threads, AbortedReturn(t) PROVE CallsSound'
    BY <1>4, <1>0 DEF AbortedReturn, Created, NoCall
  <1>5. ASSUME NEW t \in Threads, LockStream(t) PROVE CallsSound'
    BY <1>5, <1>0 DEF LockStream, Created, NoCall
  <1>6. ASSUME NEW t \in Threads, PreChoiceRefuses(t) PROVE CallsSound'
    BY <1>6, <1>0 DEF PreChoiceRefuses, Created, NoCall
  <1>7. ASSUME NEW t \in Threads, PreChoicePasses(t) PROVE CallsSound'
    BY <1>7, <1>0 DEF PreChoicePasses, Created, NoCall
  <1>8. ASSUME NEW t \in Threads, Overrun(t) PROVE CallsSound'
    BY <1>8, <1>0 DEF Overrun, Created, NoCall
  <1>9. ASSUME NEW t \in Threads, Draw(t) PROVE CallsSound'
    BY <1>9, <1>0 DEF Draw, Created, NoCall
  <1>10. ASSUME NEW t \in Threads, CloneTooDeep(t) PROVE CallsSound'
    BY <1>10, <1>0 DEF CloneTooDeep, Created, NoCall
  <1>11. ASSUME NEW t \in Threads, CloneStream(t) PROVE CallsSound'
    <2>1. Created \subseteq Created'
      BY <1>11, CreatedStreams, ConstantsOK DEF CloneStream, Created, FamilyOK
    <2> QED
      BY <1>11, <1>0, <2>1 DEF CloneStream, NoCall
  <1>12. ASSUME NEW t \in Threads, StartSpan(t) PROVE CallsSound'
    BY <1>12, <1>0 DEF StartSpan, Created, NoCall
  <1>13. ASSUME NEW t \in Threads, StopSpan(t) PROVE CallsSound'
    BY <1>13, <1>0 DEF StopSpan, Created, NoCall
  <1>14. ASSUME NEW t \in Threads, ClaimCompletion(t) PROVE CallsSound'
    BY <1>14, <1>0 DEF ClaimCompletion, Created, NoCall
  <1>15. ASSUME NEW t \in Threads, ReportOutcome(t) PROVE CallsSound'
    BY <1>15, <1>0 DEF ReportOutcome, Created, NoCall
  <1>16. CASE TakeNodes
    BY <1>16, <1>0 DEF TakeNodes, Created, Engine, Nobody
  <1>17. CASE ReassembleChild
    BY <1>17, <1>0 DEF ReassembleChild, Created, Engine, Nobody
  <1>18. CASE RecordStream
    <2>1. Len(path) \in DOMAIN path
      BY <1>18 DEF RecordStream, PathLocked, ContentsOK
    <2>2. stream_lock[Top] = Engine
      BY <2>1 DEF PathLocked, Top
    <2> QED
      BY <1>18, <1>0, <2>2 DEF RecordStream, Created, Engine, Nobody
  <1> QED
    BY <1>1, <1>2, <1>3, <1>4, <1>5, <1>6, <1>7, <1>8, <1>9, <1>10, <1>11, <1>12, <1>13,
       <1>14, <1>15, <1>16, <1>17, <1>18 DEF Step, vars, Next, Proceed, EngineStep,
       NextTestCase, RunFree, TakeNodesUnconcluded, TakeOutcome, RunFreeReport

\* A clone gets the next number, and is registered with the stream it comes from.
LEMMA StepClonesYounger ==
    TypeOK /\ CallsSound /\ PathLocked /\ ClonesYounger /\ Step => ClonesYounger'
  <1> SUFFICES ASSUME TypeOK, CallsSound, PathLocked, ClonesYounger, Step PROVE ClonesYounger'
    OBVIOUS
  <1> USE DEF TypeOK, ContentsOK, streamVars
  <1>1. CASE UNCHANGED <<clone_children, streams>>
    BY <1>1 DEF ClonesYounger, Created
  <1>2. ASSUME NEW t \in Threads, CloneStream(t) PROVE ClonesYounger'
    <2> DEFINE s == call[t].handle
    <2>1. s \in StreamIds /\ s \in Created /\ streams > s /\ streams \in Nat
      BY CreatedStreams DEF CallsSound, FamilyOK, Created
    <2>2. streams' = streams + 1
      BY <1>2 DEF CloneStream
    <2>4. Created' = Created \cup {streams}
      BY <2>1, <2>2 DEF Created
    <2>3. ASSUME NEW p \in StreamIds, NEW i \in DOMAIN clone_children'[p]
          PROVE  \/ i \in DOMAIN clone_children[p] /\ clone_children'[p][i] = clone_children[p][i]
                 \/ p = s /\ clone_children'[p][i] = streams
      <3>1. CASE p = s
        <4>1. clone_children'[p] = Append(clone_children[p], streams) /\ streams \in StreamIds
          BY <1>2, <2>1, <3>1, CloneFits DEF CloneStream
        <4>2. clone_children[p] \in Seq(StreamIds)
          OBVIOUS
        <4> HIDE DEF TypeOK, ContentsOK
        <4> QED
          BY <2>1, <3>1, <4>1, <4>2, AppendFacts
      <3>2. CASE p # s
        BY <1>2, <2>1, <3>2 DEF CloneStream
      <3> QED
        BY <3>1, <3>2
    <2> QED
      BY <2>1, <2>3, <2>4 DEF ClonesYounger
  <1>3. CASE ReassembleChild
    <2>1. Created' = Created
      BY <1>3 DEF ReassembleChild, Created
    <2>2. Top \in StreamIds /\ clone_children[Top] # <<>>
      BY <1>3, CreatedStreams DEF ReassembleChild, PathLocked, Top
    <2>3. ASSUME NEW p \in StreamIds, NEW i \in DOMAIN clone_children'[p]
          PROVE  \E j \in DOMAIN clone_children[p] : clone_children'[p][i] = clone_children[p][j]
      <3>1. CASE p = Top
        <4>1. clone_children'[p] = Tail(clone_children[p]) /\ clone_children[p] \in Seq(StreamIds)
          BY <1>3, <2>2, <3>1 DEF ReassembleChild
        <4>2. i + 1 \in DOMAIN clone_children[p]
              /\ clone_children'[p][i] = clone_children[p][i + 1]
          BY <4>1, <2>2, <3>1
        <4> QED
          BY <4>2
      <3>2. CASE p # Top
        BY <1>3, <3>2 DEF ReassembleChild
      <3> QED
        BY <3>1, <3>2
    <2> QED
      BY <2>1, <2>3 DEF ClonesYounger
  <1> QED
    BY <1>1, <1>2, <1>3 DEF Step, vars, Next, Proceed, EngineStep, TcGuard, MarkComplete,
       AbortedReturn, LockStream, PreChoiceRefuses, PreChoicePasses, Overrun, Draw,
       CloneTooDeep, StartSpan, StopSpan, ClaimCompletion, ReportOutcome, NextTestCase,
       RunFree, TakeNodesUnconcluded, TakeNodes, RecordStream, TakeOutcome, RunFreeReport

\* The engine takes a lock before it descends, and drops it as it comes back up.
LEMMA StepPathLocked ==
    TypeOK /\ CallsSound /\ ClonesYounger /\ PathLocked /\ Step => PathLocked'
  <1> SUFFICES ASSUME TypeOK, CallsSound, ClonesYounger, PathLocked, Step PROVE PathLocked'
    OBVIOUS
  <1> USE ConstantsOK DEF TypeOK, StreamsOK, ContentsOK, PathLocked, DropStreamLock, streamVars,
                          engineVars
  <1>0. Root \in Created /\ Created \subseteq StreamIds
    BY CreatedStreams
  <1>1. CASE UNCHANGED <<epc, path, stream_lock, streams>>
    BY <1>1 DEF Created
  <1>2. ASSUME NEW t \in Threads, LockStream(t) PROVE PathLocked'
    BY <1>2, <1>0 DEF LockStream, Created, CallsSound, Engine, Nobody
  <1>3. ASSUME NEW t \in Threads, PreChoiceRefuses(t) PROVE PathLocked'
    BY <1>3, <1>0 DEF PreChoiceRefuses, Created, CallsSound, Engine, Nobody
  <1>4. ASSUME NEW t \in Threads, Overrun(t) PROVE PathLocked'
    BY <1>4, <1>0 DEF Overrun, Created, CallsSound, Engine, Nobody
  <1>5. ASSUME NEW t \in Threads, Draw(t) PROVE PathLocked'
    BY <1>5, <1>0 DEF Draw, Created, CallsSound, Engine, Nobody
  <1>6. ASSUME NEW t \in Threads, CloneTooDeep(t) PROVE PathLocked'
    BY <1>6, <1>0 DEF CloneTooDeep, Created, CallsSound, Engine, Nobody
  <1>7. ASSUME NEW t \in Threads, CloneStream(t) PROVE PathLocked'
    <2>1. Created \subseteq Created'
      BY <1>7, ConstantsOK DEF CloneStream, Created, FamilyOK
    <2>2. \A i \in DOMAIN path : stream_lock'[path[i]] = Engine
      BY <1>7, <1>0 DEF CloneStream, CallsSound, Engine, Nobody
    <2> QED
      BY <1>7, <2>1, <2>2 DEF CloneStream
  <1>8. ASSUME NEW t \in Threads, StartSpan(t) PROVE PathLocked'
    <2>1. \A i \in DOMAIN path : stream_lock'[path[i]] = Engine
      BY <1>8, <1>0 DEF StartSpan, CallsSound, Engine, Nobody
    <2> QED
      BY <1>8, <2>1 DEF StartSpan, Created
  <1>9. ASSUME NEW t \in Threads, StopSpan(t) PROVE PathLocked'
    BY <1>9, <1>0 DEF StopSpan, Created, CallsSound, Engine, Nobody
  <1>10. CASE NextTestCase
    BY <1>10, <1>0 DEF NextTestCase, Created
  <1>11. CASE RunFree
    BY <1>11, <1>0 DEF RunFree, Created
  <1>12. CASE TakeNodesUnconcluded
    BY <1>12, <1>0 DEF TakeNodesUnconcluded, Created
  <1>13. CASE TakeNodes
    <2>1. path' = <<Root>> /\ Created' = Created /\ epc' = "reassemble"
      BY <1>13 DEF TakeNodes, Created
    <2>2. stream_lock'[Root] = Engine
      BY <1>13, <1>0 DEF TakeNodes
    <2>3. Len(path') = 1 /\ DOMAIN path' = {1} /\ path'[1] = Root
      BY <2>1
    <2> HIDE DEF TypeOK, StreamsOK, ContentsOK
    <2> QED
      BY <1>0, <2>1, <2>2, <2>3
  <1>14. CASE ReassembleChild
    <2> DEFINE c == Head(clone_children[Top])
    <2>12. Len(path) \in DOMAIN path /\ Created' = Created
      BY <1>14 DEF ReassembleChild, Created
    <2>1. Top \in StreamIds /\ Created' = Created
      BY <2>12 DEF Top
    <2>6. clone_children[Top] \in Seq(StreamIds) /\ clone_children[Top] # <<>>
      BY <1>14, <2>1 DEF ReassembleChild
    <2>7. 1 \in DOMAIN clone_children[Top] /\ c = clone_children[Top][1]
      BY <2>6
    <2>2. c \in Created
      BY <2>1, <2>7 DEF ClonesYounger
    <2>3. \A i \in DOMAIN path : path[i] # c
      BY <1>14 DEF ReassembleChild, Engine, Nobody
    <2>4. path' = Append(path, c) /\ epc = "reassemble" /\ epc' = "reassemble"
      BY <1>14 DEF ReassembleChild
    <2>5. stream_lock' = [stream_lock EXCEPT ![c] = Engine]
      BY <1>14 DEF ReassembleChild
    <2>13. path \in Seq(StreamIds) /\ Len(path) > 0 /\ path[1] = Root /\ 1 \in DOMAIN path
      BY <2>4
    <2>14. /\ stream_lock \in [StreamIds -> Threads \cup {Engine, Nobody}]
           /\ \A i \in DOMAIN path : path[i] \in Created /\ stream_lock[path[i]] = Engine
           /\ \A i, j \in DOMAIN path : path[i] = path[j] => i = j
      OBVIOUS
    <2>15. c \in StreamIds
      BY <2>6
    <2> HIDE DEF TypeOK, StreamsOK, ContentsOK, PathLocked, streamVars, engineVars, c
    <2>8. \A i \in DOMAIN path' :
              \/ i \in DOMAIN path /\ path'[i] = path[i]
              \/ i = Len(path) + 1 /\ i \notin DOMAIN path /\ path'[i] = c
      BY <2>4, <2>13, <2>15, AppendFacts
    <2>9. Len(path') > 0 /\ path'[1] = Root
      BY <2>4, <2>13, <2>15, AppendFacts
    <2>10. \A i \in DOMAIN path' : path'[i] \in Created /\ stream_lock'[path'[i]] = Engine
      BY <1>0, <2>2, <2>5, <2>8, <2>14
    <2>11. \A i, j \in DOMAIN path' : path'[i] = path'[j] => i = j
      BY <2>3, <2>8, <2>14
    <2> QED
      BY <2>1, <2>4, <2>9, <2>10, <2>11 DEF PathLocked
  <1>15. CASE RecordStream
    <2>1. path \in Seq(StreamIds) /\ Len(path) > 0 /\ epc = "reassemble" /\ path[1] = Root
      BY <1>15 DEF RecordStream
    <2>2. path' = Front(path)
      BY <1>15 DEF RecordStream
    <2>4. stream_lock' = [stream_lock EXCEPT ![Top] = Nobody] /\ Created' = Created
      BY <1>15 DEF RecordStream, Created
    <2>5. Top = path[Len(path)] /\ Len(path) \in Nat
      BY <1>15, <2>1 DEF RecordStream, Top
    <2>10. /\ stream_lock \in [StreamIds -> Threads \cup {Engine, Nobody}]
           /\ \A i \in DOMAIN path : path[i] \in Created /\ stream_lock[path[i]] = Engine
           /\ \A i, j \in DOMAIN path : path[i] = path[j] => i = j
           /\ 1 \in DOMAIN path
      BY <2>1
    <2>11. /\ epc' = IF Top = Root THEN "take_outcome" ELSE epc
      BY <1>15 DEF RecordStream
    <2> HIDE DEF TypeOK, StreamsOK, ContentsOK, PathLocked, streamVars, engineVars
    <2>3. /\ Len(path') = Len(path) - 1 /\ Len(path) \in DOMAIN path /\ path' \in Seq(StreamIds)
          /\ \A i \in DOMAIN path' : path'[i] = path[i] /\ i \in DOMAIN path /\ i # Len(path)
      BY <2>1, <2>2, FrontFacts
    <2>12. Len(path') > 0 => 1 \in DOMAIN path'
      BY <2>3
    <2>9. Top = Root <=> Len(path) = 1
      BY <2>1, <2>3, <2>5, <2>10
    <2>6. epc' = "reassemble" => Len(path') > 0 /\ path'[1] = Root
      BY <2>1, <2>3, <2>5, <2>9, <2>11, <2>12
    <2>7. epc' # "reassemble" => Len(path') = 0
      BY <2>1, <2>3, <2>5, <2>9, <2>11
    <2>8. \A i \in DOMAIN path' : stream_lock'[path'[i]] = stream_lock[path[i]]
      BY <2>3, <2>4, <2>5, <2>10, <1>0
    <2> QED
      BY <2>3, <2>4, <2>6, <2>7, <2>8, <2>10 DEF PathLocked
  <1>16. CASE TakeOutcome
    BY <1>16, <1>0 DEF TakeOutcome, Created
  <1>17. CASE RunFreeReport
    BY <1>17, <1>0 DEF RunFreeReport, Created
  <1> QED
    BY <1>1, <1>2, <1>3, <1>4, <1>5, <1>6, <1>7, <1>8, <1>9, <1>10, <1>11, <1>12, <1>13,
       <1>14, <1>15, <1>16, <1>17 DEF Step, vars, Next, Proceed, EngineStep, TcGuard,
       MarkComplete, AbortedReturn, PreChoicePasses, ClaimCompletion, ReportOutcome

\* The steps of the client threads that add neither a choice nor a clone: none of them
\* starts a draw once the family has a conclusion (pre_choice).
LEMMA QuietStep ==
    ASSUME RecordSound,
           UNCHANGED <<nodes, clone_children, streams, record, path, epc, reassembled>>,
           conclusion # None => conclusion' # None,
           \A t \in Threads : pc'[t] = "choosing" =>
               conclusion = None \/ (pc[t] = "choosing" /\ call'[t].handle = call[t].handle)
    PROVE  RecordSound'
  <1>1. \A s \in Created : Pending(s) => Pending(s)'
    BY DEF Pending, Created
  <1>2. \A s \in Created : Visited(s) => Visited(s)'
    BY DEF Visited, OnPath
  <1> QED
    BY <1>1, <1>2 DEF RecordSound, Reassembling, Created

\* A choice is added to a stream the engine has not come to.
LEMMA DrawKeepsRecord ==
    ASSUME TypeOK, CallsSound, RecordSound, NEW t \in Threads, Draw(t)
    PROVE  RecordSound'
  <1> DEFINE s == call[t].handle
  <1>1. s \in Created /\ pc[t] = "choosing" /\ ~Visited(s)
    BY DEF Draw, CallsSound, Visited
  <1>2. /\ UNCHANGED <<conclusion, clone_children, streams, record, path, epc, reassembled>>
        /\ \A x : x # s => nodes'[x] = nodes[x]
    BY DEF Draw, streamVars, engineVars
  <1>3. \A u \in Threads : pc'[u] = "choosing" => pc[u] = "choosing" /\ call'[u] = call[u]
    BY DEF Draw, Return, Goto, TypeOK, ControlOK
  <1> HIDE DEF s
  <1>4. \A x \in Created : Pending(x) => Pending(x)'
    BY <1>2 DEF Pending, Created
  <1>5. \A x \in Created : Visited(x) => Visited(x)'
    BY <1>1, <1>2, <1>3 DEF Visited, OnPath
  <1> QED
    BY <1>2, <1>4, <1>5 DEF RecordSound, Reassembling, Created

\* A clone hangs on a stream the engine has not come to, and waits there for it.
LEMMA CloneKeepsRecord ==
    ASSUME TypeOK, CallsSound, RecordSound, NEW t \in Threads, CloneStream(t)
    PROVE  RecordSound'
  <1> DEFINE s == call[t].handle
  <1>1. s \in Created /\ s \in StreamIds /\ pc[t] = "choosing" /\ ~Visited(s)
    BY CreatedStreams DEF CloneStream, CallsSound, Visited, TypeOK
  <1>2. /\ UNCHANGED <<conclusion, record, path, epc, reassembled>>
        /\ \A x : x # s => nodes'[x] = nodes[x]
        /\ \A x : x # s => clone_children'[x] = clone_children[x]
    BY DEF CloneStream, engineVars
  <1>3. \A u \in Threads : pc'[u] = "choosing" => pc[u] = "choosing" /\ call'[u] = call[u]
    BY DEF CloneStream, Return, Goto, TypeOK, ControlOK
  <1>4. /\ clone_children[s] \in Seq(StreamIds) /\ streams \in StreamIds
        /\ clone_children'[s] = Append(clone_children[s], streams)
    BY <1>1, CloneFits DEF CloneStream, TypeOK, ContentsOK
  <1>5. Created' = Created \cup {streams}
    <2>1. streams' = streams + 1
      BY DEF CloneStream
    <2> QED
      BY <2>1 DEF Created, TypeOK, FamilyOK
  <1> HIDE DEF s
  <1>6. /\ \A i \in DOMAIN clone_children[s] :
              i \in DOMAIN clone_children'[s] /\ clone_children'[s][i] = clone_children[s][i]
        /\ \E i \in DOMAIN clone_children'[s] : clone_children'[s][i] = streams
    BY <1>4, AppendFacts
  <1>7. \A x \in Created : Pending(x) => Pending(x)'
    BY <1>2, <1>5, <1>6 DEF Pending
  <1>8. ASSUME NEW c \in Created', c \notin Created PROVE Pending(c)'
    BY <1>8, <1>1, <1>5, <1>6 DEF Pending
  <1>9. \A x \in Created : Visited(x) => Visited(x)'
    BY <1>1, <1>2, <1>3 DEF Visited, OnPath
  <1> QED
    BY <1>2, <1>5, <1>7, <1>8, <1>9 DEF RecordSound, Reassembling

\* The root is the first stream the engine comes to: its lock was free.
LEMMA TakeNodesKeepsRecord ==
    ASSUME TypeOK, CallsSound, RecordSound, TakeNodes
    PROVE  RecordSound'
  <1>1. /\ ~Reassembling /\ Reassembling' /\ conclusion # None /\ ~reassembled'
        /\ UNCHANGED <<conclusion, pc, call, streams, clone_children>>
    BY DEF TakeNodes, RecordSound, Reassembling, family, streamVars, threadVars
  <1>2. \A t \in Threads : pc[t] = "choosing" => call[t].handle # Root
    BY ConstantsOK DEF TakeNodes, CallsSound, Nobody
  <1>3. OnPath(Root)'
    BY DEF TakeNodes, OnPath
  <1>4. Visited(Root)'
    BY <1>1, <1>2, <1>3 DEF Visited
  <1>5. \A x \in Created : Pending(x) => Pending(x)'
    BY <1>1 DEF Pending, Created
  <1>6. Created' = Created
    BY <1>1 DEF Created
  <1> QED
    BY <1>1, <1>4, <1>5, <1>6 DEF RecordSound

\* The stream the engine descends into had no holder, and no draw can start on it.
LEMMA DescentKeepsRecord ==
    ASSUME TypeOK, CallsSound, PathLocked, RecordSound, ReassembleChild
    PROVE  RecordSound'
  <1> PICK c : c = Head(clone_children[Top])
    OBVIOUS
  <1>1. /\ epc = "reassemble" /\ stream_lock[c] = Nobody /\ clone_children[Top] # <<>>
        /\ UNCHANGED <<pc, call, streams, nodes, record, epc, reassembled>>
        /\ path' = Append(path, c)
        /\ clone_children' = [clone_children EXCEPT ![Top] = Tail(@)]
    BY DEF ReassembleChild, threadVars
  <1>2. Created' = Created
    BY <1>1 DEF Created
  <1>3. conclusion' # None
    BY DEF ReassembleChild, Conclude, None
  <1>4. Len(path) \in DOMAIN path /\ Top \in Created /\ Top \in StreamIds /\ OnPath(Top)
    BY <1>1, CreatedStreams DEF PathLocked, TypeOK, ContentsOK, Top, OnPath
  <1>5. clone_children[Top] \in Seq(StreamIds) /\ c \in StreamIds
    BY <1>1, <1>4 DEF TypeOK, ContentsOK
  <1>6. \A i \in DOMAIN clone_children[Top] :
           \/ clone_children[Top][i] = c
           \/ i - 1 \in DOMAIN Tail(clone_children[Top])
              /\ Tail(clone_children[Top])[i - 1] = clone_children[Top][i]
    BY <1>1, <1>5
  <1>7. path \in Seq(StreamIds)
    BY DEF TypeOK, ContentsOK
  <1>8. \A t \in Threads : pc[t] = "choosing" => call[t].handle # c
    BY <1>1, ConstantsOK DEF CallsSound, Nobody
  <1>9. clone_children'[Top] = Tail(clone_children[Top])
        /\ \A x : x # Top => clone_children'[x] = clone_children[x]
    BY <1>1, <1>4 DEF TypeOK, ContentsOK
  <1>10. \A x \in Created : Pending(x) /\ x # c => Pending(x)'
    <2> SUFFICES ASSUME NEW x \in Created, Pending(x), x # c PROVE Pending(x)'
      OBVIOUS
    <2>1. PICK p \in Created : \E i \in DOMAIN clone_children[p] : clone_children[p][i] = x
      BY DEF Pending
    <2>2. \E i \in DOMAIN clone_children'[p] : clone_children'[p][i] = x
      BY <2>1, <1>6, <1>9
    <2> QED
      BY <2>2, <1>2 DEF Pending
  <1>11. \A x : OnPath(x) => OnPath(x)'
    BY <1>1, <1>5, <1>7, AppendFacts DEF OnPath
  <1>12. OnPath(c)'
    BY <1>1, <1>5, <1>7, AppendFacts DEF OnPath
  <1>13. Visited(c)'
    BY <1>1, <1>3, <1>8, <1>12 DEF Visited
  <1>14. \A x \in Created : Visited(x) => Visited(x)'
    BY <1>1, <1>3, <1>4, <1>9, <1>11 DEF Visited
  <1> QED
    BY <1>1, <1>2, <1>10, <1>13, <1>14 DEF RecordSound, Reassembling

\* The stream the engine comes back from is recorded under its lock.
LEMMA AscentKeepsRecord ==
    ASSUME TypeOK, PathLocked, RecordSound, RecordStream
    PROVE  RecordSound'
  <1>1. /\ epc = "reassemble" /\ clone_children[Top] = <<>> /\ path' = Front(path)
        /\ UNCHANGED <<conclusion, pc, call, streams, nodes, clone_children>>
        /\ record' = [record EXCEPT ![Top] = nodes[Top]]
    BY DEF RecordStream, family, streamVars, threadVars
  <1>9. \/ epc' = "reassemble" /\ reassembled' = reassembled
        \/ epc' = "take_outcome" /\ reassembled' = TRUE
    BY DEF RecordStream
  <1>2. Created' = Created
    BY <1>1 DEF Created
  <1>3. path \in Seq(StreamIds) /\ Len(path) > 0
    BY <1>1 DEF PathLocked, TypeOK, ContentsOK
  <1>4. Len(path) \in DOMAIN path /\ Top \in StreamIds
    BY <1>3 DEF PathLocked, Top
  <1>5. record'[Top] = nodes'[Top] /\ \A x : x # Top => record'[x] = record[x]
    BY <1>1, <1>4 DEF TypeOK, ContentsOK
  <1>6. \A x : OnPath(x) /\ x # Top => OnPath(x)'
    BY <1>1, <1>3, FrontFacts DEF OnPath, Top
  <1>7. \A x \in Created : Pending(x) => Pending(x)'
    BY <1>1, <1>2 DEF Pending
  <1>8. \A x \in Created : Visited(x) => Visited(x)'
    BY <1>1, <1>5, <1>6 DEF Visited
  <1> QED
    BY <1>1, <1>2, <1>7, <1>8, <1>9 DEF RecordSound, Reassembling

\* A stream waits among its parent's clones until the engine comes to it, and what the
\* engine has come to stays as it is.
LEMMA StepRecordSound ==
    TypeOK /\ CallsSound /\ PathLocked /\ RecordSound /\ Step => RecordSound'
  <1> SUFFICES ASSUME TypeOK, CallsSound, PathLocked, RecordSound, Step PROVE RecordSound'
    OBVIOUS
  <1>1. CASE UNCHANGED <<mode, vars>>
    BY <1>1, QuietStep DEF vars, family, streamVars, threadVars, engineVars
  <1> SUFFICES ASSUME Next, UNCHANGED mode PROVE RecordSound'
    BY <1>1 DEF Step
  <1> USE DEF family, streamVars, threadVars, engineVars, Return, Goto
  <1>2. ASSUME NEW t \in Threads, NEW h \in Created, NEW op \in mode.ops, TcGuard(t, h, op)
        PROVE  RecordSound'
    BY <1>2, QuietStep DEF TcGuard, TypeOK, ControlOK
  <1>3. ASSUME NEW t \in Threads, NEW h \in Created, NEW status \in mode.statuses,
               MarkComplete(t, h, status)
        PROVE  RecordSound'
    BY <1>3, QuietStep DEF MarkComplete, TypeOK, ControlOK
  <1>4. ASSUME NEW t \in Threads, AbortedReturn(t) \/ LockStream(t) PROVE RecordSound'
    BY <1>4, QuietStep DEF AbortedReturn, LockStream, TypeOK, ControlOK
  <1>5. ASSUME NEW t \in Threads, PreChoiceRefuses(t) \/ PreChoicePasses(t)
        PROVE  RecordSound'
    BY <1>5, QuietStep DEF PreChoiceRefuses, PreChoicePasses, TypeOK, ControlOK
  <1>6. ASSUME NEW t \in Threads, Overrun(t) \/ CloneTooDeep(t) PROVE RecordSound'
    BY <1>6, QuietStep DEF Overrun, CloneTooDeep, Conclude, None, TypeOK, ControlOK
  <1>7. ASSUME NEW t \in Threads, StartSpan(t) \/ StopSpan(t) PROVE RecordSound'
    BY <1>7, QuietStep DEF StartSpan, StopSpan, Conclude, None, TypeOK, ControlOK
  <1>8. ASSUME NEW t \in Threads, ClaimCompletion(t) \/ ReportOutcome(t) PROVE RecordSound'
    BY <1>8, QuietStep DEF ClaimCompletion, ReportOutcome, Conclude, TypeOK, ControlOK
  <1>9. CASE NextTestCase \/ RunFree \/ RunFreeReport \/ TakeNodesUnconcluded \/ TakeOutcome
    <2>1. /\ UNCHANGED <<clone_children, streams, path, nodes, reassembled, pc, call>>
          /\ conclusion # None => conclusion' # None
          /\ Reassembling <=> Reassembling'
          /\ reassembled => record' = record /\ epc' = "done"
          /\ reassembled <=> Reassembling
      BY <1>9 DEF NextTestCase, RunFree, RunFreeReport, TakeNodesUnconcluded, TakeOutcome,
                  Conclude, None, Reassembling, RecordSound
    <2>2. \A s \in Created : Pending(s) => Pending(s)'
      BY <2>1 DEF Pending, Created
    <2>3. ASSUME Reassembling, NEW s \in Created, Visited(s) PROVE Visited(s)'
      BY <2>1, <2>3 DEF Visited, OnPath
    <2> QED
      BY <2>1, <2>2, <2>3 DEF RecordSound, Created
  <1> QED
    BY <1>2, <1>3, <1>4, <1>5, <1>6, <1>7, <1>8, <1>9, DrawKeepsRecord, CloneKeepsRecord,
       TakeNodesKeepsRecord, DescentKeepsRecord, AscentKeepsRecord
       DEF Next, Proceed, EngineStep

\* No stream is left waiting once the engine is back from the root: the youngest such
\* stream would hang on one that was recorded without clones.
LEMMA NothingLeftOut ==
    TypeOK /\ ClonesYounger /\ PathLocked /\ RecordSound => RecordIsFinal
  <1> SUFFICES ASSUME TypeOK, ClonesYounger, PathLocked, RecordSound, reassembled
               PROVE  \A s \in Created : record[s] = nodes[s]
    BY DEF RecordIsFinal
  <1> DEFINE Waiting == {s \in Created : Pending(s)}
  <1>1. \A s : ~OnPath(s)
    BY DEF RecordSound, PathLocked, OnPath, TypeOK, ContentsOK
  <1>2. \A s \in Created : Pending(s) \/ Visited(s)
    BY DEF RecordSound, Reassembling
  <1>3. Waiting = {}
    <2> SUFFICES ASSUME Waiting # {} PROVE FALSE
      OBVIOUS
    <2>1. Waiting \subseteq Nat
      BY DEF Created, TypeOK, FamilyOK
    <2>2. PICK s \in Waiting : \A r \in Waiting : ~(r < s)
      <3>1. \E x \in Waiting : \A y \in Waiting : ~(<<y, x>> \in OpToRel(<, Nat))
        BY <2>1, NatLessThanWellFounded, WFMin
      <3> QED
        BY <3>1, <2>1 DEF OpToRel
    <2>3. PICK p \in Created : \E i \in DOMAIN clone_children[p] : clone_children[p][i] = s
      BY DEF Pending
    <2>4. s > p /\ p \in StreamIds
      BY <2>3, CreatedStreams DEF ClonesYounger, TypeOK
    <2>5. Pending(p)
      BY <1>1, <1>2, <2>3 DEF Visited
    <2> QED
      BY <2>1, <2>2, <2>4, <2>5
  <1> QED
    BY <1>1, <1>2, <1>3 DEF Visited

\* A conclusion is written once: whoever concludes later leaves it alone.
LEMMA ConclusionKept ==
    ASSUME ConclusionSound,
           conclusion' = conclusion \/ (conclusion = None /\ conclusion' # None),
           \A s \in StreamIds : aborted'[s] => aborted[s] \/ conclusion' # None,
           outcome' = outcome
    PROVE  ConclusionSound'
  BY DEF ConclusionSound, OutcomeIsConclusion, Status, None

\* Every step leaves what was concluded as it was, and no stream gives up before it.
LEMMA StepConclusionSound ==
    TypeOK /\ CallsSound /\ ConclusionSound /\ Step => ConclusionSound'
  <1> SUFFICES ASSUME TypeOK, CallsSound, ConclusionSound, Step PROVE ConclusionSound'
    OBVIOUS
  <1>1. CASE UNCHANGED <<mode, vars>>
    BY <1>1, ConclusionKept DEF vars, family, streamVars, engineVars
  <1> SUFFICES ASSUME Next, UNCHANGED mode PROVE ConclusionSound'
    BY <1>1 DEF Step
  <1> USE DEF family, streamVars, engineVars
  <1>2. ASSUME NEW t \in Threads, NEW h \in Created, NEW op \in mode.ops, TcGuard(t, h, op)
        PROVE  ConclusionSound'
    BY <1>2, ConclusionKept DEF TcGuard
  <1>3. ASSUME NEW t \in Threads, NEW h \in Created, NEW status \in mode.statuses,
               MarkComplete(t, h, status)
        PROVE  ConclusionSound'
    BY <1>3, ConclusionKept DEF MarkComplete
  <1>4. ASSUME NEW t \in Threads,
               AbortedReturn(t) \/ LockStream(t) \/ PreChoicePasses(t) \/ Draw(t)
               \/ CloneStream(t) \/ StopSpan(t) \/ ClaimCompletion(t)
        PROVE  ConclusionSound'
    BY <1>4, ConclusionKept DEF AbortedReturn, LockStream, PreChoicePasses, Draw,
       CloneStream, StopSpan, ClaimCompletion
  <1>5. ASSUME NEW t \in Threads, PreChoiceRefuses(t) PROVE ConclusionSound'
    BY <1>5, ConclusionKept DEF PreChoiceRefuses
  <1>6. ASSUME NEW t \in Threads, Overrun(t) \/ CloneTooDeep(t) PROVE ConclusionSound'
    BY <1>6, ConclusionKept DEF Overrun, CloneTooDeep, Conclude, None
  <1>7. ASSUME NEW t \in Threads, StartSpan(t) PROVE ConclusionSound'
    BY <1>7, ConclusionKept DEF StartSpan, Conclude, None
  <1>8. ASSUME NEW t \in Threads, ReportOutcome(t) PROVE ConclusionSound'
    BY <1>8, ConclusionKept DEF ReportOutcome, Conclude, CallsSound, Status, None
  <1>9. CASE NextTestCase \/ RunFree \/ TakeNodesUnconcluded \/ TakeNodes \/ RecordStream
    BY <1>9, ConclusionKept DEF NextTestCase, RunFree, TakeNodesUnconcluded, TakeNodes,
       RecordStream
  <1>10. CASE ReassembleChild \/ RunFreeReport
    BY <1>10, ConclusionKept DEF ReassembleChild, RunFreeReport, Conclude, None
  <1>11. CASE TakeOutcome
    BY <1>11 DEF TakeOutcome, ConclusionSound, OutcomeIsConclusion, Status
  <1> QED
    BY <1>2, <1>3, <1>4, <1>5, <1>6, <1>7, <1>8, <1>9, <1>10, <1>11
       DEF Next, Proceed, EngineStep

\* A step that moves no thread in or out of FamilyShared::complete.
LEMMA CompletionKept ==
    ASSUME CompletionSound, UNCHANGED <<completed, reports>>,
           \A t \in Threads : pc'[t] = "reporting" <=> pc[t] = "reporting",
           (epc' # "free_report" /\ epc # "free_report") \/ epc' = epc
    PROVE  CompletionSound'
  <1>1. Claimants' = Claimants
    BY DEF Claimants
  <1> QED
    BY <1>1 DEF CompletionSound

\* Every step keeps the count of who claimed the completion and who reported it.
LEMMA StepCompletionSound == TypeOK /\ CompletionSound /\ Step => CompletionSound'
  <1> SUFFICES ASSUME TypeOK, CompletionSound, Step PROVE CompletionSound'
    OBVIOUS
  <1>1. CASE UNCHANGED <<mode, vars>>
    BY <1>1, CompletionKept DEF vars, handleVars, threadVars, engineVars
  <1> SUFFICES ASSUME Next, UNCHANGED mode PROVE CompletionSound'
    BY <1>1 DEF Step
  <1>0. pc \in [Threads -> ThreadPCs] /\ completed \in BOOLEAN
    BY DEF TypeOK, ControlOK
  <1> HIDE DEF TypeOK
  <1> USE <1>0 DEF handleVars, threadVars, engineVars, Return, Goto
  <1>2. ASSUME NEW t \in Threads, NEW h \in Created, NEW op \in mode.ops, TcGuard(t, h, op)
        PROVE  CompletionSound'
    BY <1>2, CompletionKept DEF TcGuard
  <1>3. ASSUME NEW t \in Threads, NEW h \in Created, NEW status \in mode.statuses,
               MarkComplete(t, h, status)
        PROVE  CompletionSound'
    BY <1>3, CompletionKept DEF MarkComplete
  <1>4. ASSUME NEW t \in Threads, AbortedReturn(t) \/ LockStream(t) PROVE CompletionSound'
    BY <1>4, CompletionKept DEF AbortedReturn, LockStream
  <1>5. ASSUME NEW t \in Threads, PreChoiceRefuses(t) \/ PreChoicePasses(t) \/ Overrun(t)
        PROVE  CompletionSound'
    BY <1>5, CompletionKept DEF PreChoiceRefuses, PreChoicePasses, Overrun
  <1>6. ASSUME NEW t \in Threads, Draw(t) \/ CloneTooDeep(t) \/ CloneStream(t)
        PROVE  CompletionSound'
    BY <1>6, CompletionKept DEF Draw, CloneTooDeep, CloneStream
  <1>7. ASSUME NEW t \in Threads, StartSpan(t) \/ StopSpan(t) PROVE CompletionSound'
    BY <1>7, CompletionKept DEF StartSpan, StopSpan
  <1>8. ASSUME NEW t \in Threads, ClaimCompletion(t) PROVE CompletionSound'
    <2>1. CASE completed
      BY <1>8, <2>1, CompletionKept DEF ClaimCompletion
    <2>2. CASE ~completed
      <3>1. completed' = TRUE /\ UNCHANGED <<reports, epc>>
            /\ pc' = [pc EXCEPT ![t] = "reporting"]
        BY <1>8, <2>2 DEF ClaimCompletion
      <3>2. Claimants = {} /\ reports = 0 /\ epc # "free_report"
        BY <2>2 DEF CompletionSound
      <3>3. Claimants' = {t}
        BY <3>1, <3>2 DEF Claimants
      <3> QED
        BY <3>1, <3>2, <3>3 DEF CompletionSound
    <2> QED
      BY <2>1, <2>2
  <1>9. ASSUME NEW t \in Threads, ReportOutcome(t) PROVE CompletionSound'
    <2>1. /\ pc[t] = "reporting" /\ reports' = reports + 1 /\ UNCHANGED <<completed, epc>>
          /\ pc' = [pc EXCEPT ![t] = "idle"]
      BY <1>9 DEF ReportOutcome
    <2>2. completed /\ reports = 0 /\ epc # "free_report" /\ Claimants = {t}
      BY <2>1 DEF CompletionSound, Claimants
    <2>3. Claimants' = {}
      BY <2>1, <2>2 DEF Claimants
    <2> QED
      BY <2>1, <2>2, <2>3 DEF CompletionSound
  <1>10. CASE NextTestCase \/ TakeNodesUnconcluded \/ TakeNodes \/ ReassembleChild
    BY <1>10, CompletionKept DEF NextTestCase, TakeNodesUnconcluded, TakeNodes,
       ReassembleChild
  <1>11. CASE RecordStream \/ TakeOutcome
    BY <1>11, CompletionKept DEF RecordStream, TakeOutcome
  <1>12. CASE RunFree
    <2>1. /\ completed' = TRUE /\ epc = "offered" /\ UNCHANGED <<reports, pc>>
          /\ epc' = IF completed THEN "dropped" ELSE "free_report"
      BY <1>12 DEF RunFree
    <2>2. Claimants' = Claimants
      BY <2>1 DEF Claimants
    <2> QED
      BY <2>1, <2>2 DEF CompletionSound
  <1>13. CASE RunFreeReport
    <2>1. /\ epc = "free_report" /\ epc' = "dropped" /\ reports' = reports + 1
          /\ UNCHANGED <<completed, pc>>
      BY <1>13 DEF RunFreeReport
    <2>2. Claimants' = Claimants
      BY <2>1 DEF Claimants
    <2> QED
      BY <2>1, <2>2 DEF CompletionSound
  <1> QED
    BY <1>2, <1>3, <1>4, <1>5, <1>6, <1>7, <1>8, <1>9, <1>10, <1>11, <1>12, <1>13
       DEF Next, Proceed, EngineStep

\* One completion at most has been reported, and a claimed one is pending or reported.
LEMMA CompletionCounted == CompletionSound => ReportedOnce
  <1> SUFFICES ASSUME CompletionSound PROVE ReportedOnce
    OBVIOUS
  <1>1. Claimants = {} => Cardinality(Claimants) = 0
    BY FS_EmptySet
  <1>2. \A t \in Threads : Claimants = {t} => Cardinality(Claimants) = 1
    BY FS_Singleton
  <1>3. Cardinality(Claimants) + reports + (IF epc = "free_report" THEN 1 ELSE 0)
            = IF completed THEN 1 ELSE 0
    BY <1>1, <1>2 DEF CompletionSound
  <1> QED
    BY <1>3 DEF ReportedOnce, Claimants

\* A step that adds no choice and takes no count back.
LEMMA CountKept ==
    ASSUME DrawsCounted, UNCHANGED <<mode, nodes>>, total_draws \in Nat, total_draws' \in Nat,
           total_draws' >= total_draws
    PROVE  DrawsCounted'
  <1>1. Drawn' = Drawn /\ Budget' = Budget
    BY DEF Drawn, Budget
  <1>2. IsFiniteSet(Drawn) => Cardinality(Drawn) \in Nat
    BY FS_CardinalityType
  <1> QED
    BY <1>1, <1>2 DEF DrawsCounted

\* A step that records one more choice after counting it below the budget.
LEMMA ChoiceCounted ==
    ASSUME DrawsCounted, TypeOK, UNCHANGED mode, NEW s \in StreamIds,
           NEW x \in StreamIds \cup {Value}, ChoiceFits(s), CountDraw(s),
           nodes' = [nodes EXCEPT ![s] = Append(@, x)]
    PROVE  DrawsCounted'
  <1>1. nodes[s] \in Seq(StreamIds \cup {Value})
    BY DEF TypeOK, ContentsOK
  <1>2. nodes'[s] = Append(nodes[s], x) /\ \A r \in StreamIds : r # s => nodes'[r] = nodes[r]
    BY DEF TypeOK, ContentsOK
  <1>3. DOMAIN nodes'[s] = DOMAIN nodes[s] \cup {Len(nodes[s]) + 1}
        /\ Len(nodes[s]) + 1 \notin DOMAIN nodes[s]
    BY <1>1, <1>2, AppendFacts
  <1>4. Drawn' = Drawn \cup {<<s, Len(nodes[s]) + 1>>}
    BY <1>2, <1>3 DEF Drawn
  <1>5. <<s, Len(nodes[s]) + 1>> \notin Drawn
    BY <1>3 DEF Drawn
  <1>6. IsFiniteSet(Drawn') /\ Cardinality(Drawn') = Cardinality(Drawn) + 1
    BY <1>4, <1>5, FS_AddElement DEF DrawsCounted
  <1>7. Budget' = Budget /\ Cardinality(Drawn) \in Nat
    BY FS_CardinalityType DEF Budget, DrawsCounted
  <1>8. total_draws < Budget /\ total_draws' = total_draws + 1 /\ total_draws \in Nat
    BY DEF ChoiceFits, CountDraw, TypeOK, FamilyOK
  <1>9. Budget \in Nat
    BY ConstantsOK DEF Budget, ModeOK, TypeOK, FamilyOK
  <1> QED
    BY <1>6, <1>7, <1>8, <1>9 DEF DrawsCounted

\* Every step keeps the recorded choices within the counted ones and the budget.
LEMMA StepDrawsCounted == TypeOK /\ CallsSound /\ DrawsCounted /\ Step => DrawsCounted'
  <1> SUFFICES ASSUME TypeOK, CallsSound, DrawsCounted, Step PROVE DrawsCounted'
    OBVIOUS
  <1>0. total_draws \in Nat
    BY DEF TypeOK, FamilyOK
  <1>1. CASE UNCHANGED <<mode, vars>>
    BY <1>0, <1>1, CountKept DEF vars, family, streamVars
  <1> SUFFICES ASSUME Next, UNCHANGED mode PROVE DrawsCounted'
    BY <1>1 DEF Step
  <1> USE DEF family, streamVars
  <1>2. ASSUME NEW t \in Threads, NEW h \in Created, NEW op \in mode.ops, TcGuard(t, h, op)
        PROVE  DrawsCounted'
    BY <1>0, <1>2, CountKept DEF TcGuard
  <1>3. ASSUME NEW t \in Threads, NEW h \in Created, NEW status \in mode.statuses,
               MarkComplete(t, h, status)
        PROVE  DrawsCounted'
    BY <1>0, <1>3, CountKept DEF MarkComplete
  <1>4. ASSUME NEW t \in Threads, AbortedReturn(t) \/ LockStream(t) \/ PreChoiceRefuses(t)
               \/ PreChoicePasses(t)
        PROVE  DrawsCounted'
    BY <1>0, <1>4, CountKept DEF AbortedReturn, LockStream, PreChoiceRefuses, PreChoicePasses
  <1>5. ASSUME NEW t \in Threads, Overrun(t) \/ CloneTooDeep(t) PROVE DrawsCounted'
    BY <1>0, <1>5, CountKept DEF Overrun, CloneTooDeep, CountDraw
  <1>6. ASSUME NEW t \in Threads, Draw(t) PROVE DrawsCounted'
    <2>1. call[t].handle \in StreamIds
      BY DEF TypeOK, ControlOK, Calls
    <2> QED
      BY <1>6, <2>1, ChoiceCounted DEF Draw
  <1>7. ASSUME NEW t \in Threads, CloneStream(t) PROVE DrawsCounted'
    <2>1. call[t].handle \in StreamIds
      BY DEF TypeOK, ControlOK, Calls
    <2>2. streams \in StreamIds
      BY <1>7, CloneFits DEF TypeOK
    <2> QED
      BY <1>7, <2>1, <2>2, ChoiceCounted DEF CloneStream
  <1>8. ASSUME NEW t \in Threads,
               StartSpan(t) \/ StopSpan(t) \/ ClaimCompletion(t) \/ ReportOutcome(t)
        PROVE  DrawsCounted'
    BY <1>0, <1>8, CountKept DEF StartSpan, StopSpan, ClaimCompletion, ReportOutcome
  <1>9. CASE NextTestCase \/ TakeNodesUnconcluded \/ TakeNodes \/ ReassembleChild
             \/ RecordStream
    BY <1>0, <1>9, CountKept DEF NextTestCase, TakeNodesUnconcluded, TakeNodes,
       ReassembleChild, RecordStream
  <1>10. CASE TakeOutcome \/ RunFree \/ RunFreeReport
    BY <1>0, <1>10, CountKept DEF TakeOutcome, RunFree, RunFreeReport
  <1> QED
    BY <1>2, <1>3, <1>4, <1>5, <1>6, <1>7, <1>8, <1>9, <1>10 DEF Next, Proceed, EngineStep

\* Every state of a family satisfies the invariant.
LEMMA Invariance == Spec => []Inv
  <1>1. Inv /\ Step => Inv'
    <2> SUFFICES ASSUME Inv, Step PROVE Inv'
      OBVIOUS
    <2>1. TypeOK'
      BY StepFamilyOK, StepStreamsOK, StepContentsOK, StepControlOK DEF Inv, TypeOK
    <2>2. CallsSound' /\ ClonesYounger' /\ PathLocked'
      BY StepCallsSound, StepClonesYounger, StepPathLocked DEF Inv
    <2>3. RecordSound' /\ ConclusionSound'
      BY StepRecordSound, StepConclusionSound DEF Inv
    <2>4. CompletionSound' /\ DrawsCounted'
      BY StepCompletionSound, StepDrawsCounted DEF Inv
    <2> QED
      BY <2>1, <2>2, <2>3, <2>4 DEF Inv
  <1> QED
    BY <1>1, InitInv, PTL DEF Spec, Step

\* The family's variables keep their types, whichever calls race.
THEOREM TypeCorrect == Spec => []TypeOK
  BY Invariance, PTL DEF Inv

\* However many threads complete the family and report on it, ds.mark_complete runs once;
\* no stream gives up on a family without a conclusion, and the engine goes by the first
\* conclusion (FamilyShared::complete, FamilyCore::conclude, take_outcome).
THEOREM FamilyConcludedOnce == Spec => []ConcludedOnce
  <1>1. Inv => ConcludedOnce
    <2> SUFFICES ASSUME Inv PROVE ConcludedOnce
      OBVIOUS
    <2>1. ReportedOnce
      BY CompletionCounted DEF Inv
    <2>2. AbortedMeansConcluded /\ OutcomeIsConclusion
      BY CreatedStreams DEF Inv, TypeOK, ConclusionSound, AbortedMeansConcluded
    <2> QED
      BY <2>1, <2>2 DEF ConcludedOnce
  <1> QED
    BY <1>1, Invariance, PTL

\* What the engine reads back of every stream is all that stream ever draws, however long
\* stragglers keep calling, and the streams of a generated case never outdraw the budget
\* they share (reassemble, take_nodes, try_take_draw).
THEOREM RecordExact == Spec => []RecordIsExact
  <1>1. Inv => RecordIsFinal
    BY NothingLeftOut DEF Inv
  <1>2. Inv => BudgetRespected
    BY DEF Inv, DrawsCounted, BudgetRespected
  <1> QED
    BY <1>1, <1>2, Invariance, PTL DEF RecordIsExact
=============================================================================
