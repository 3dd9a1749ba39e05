------------------------------ MODULE DatabaseUseProofs ------------------------------
(* Proofs about the example database (ExampleDatabase) under any number of users,    *)
(* calls and kills (DatabaseUse): its types, that writes are atomic, that move_value  *)
(* loses nothing by one setback, and the contract of the trait for a single user.    *)
EXTENDS DatabaseUse, ExampleDatabaseProofs

-----------------------------------------------------------------------------
(* Who owns the temporary files, calls and kills included.                        *)

\* A temporary file is being written, or its writer was killed or could not remove it.
TmpInv == WriteInv /\ TmpsOwned(abandoned)

\* A call: only an idle user starts one.
LEMMA CallTmpInv ==
    ASSUME TypeOK, TmpInv, NEW u \in Users, NEW c \in Ops, c.op \notin LiveOps,
           NEW want, NEW found, Call(u, c, want, found)
    PROVE  TmpInv' /\ todo' \in [Users -> Seq(Ops)]
  <1>1. ~Writing(u) /\ todo' = [todo EXCEPT ![u] = <<c>>] /\ files' = files /\ abandoned' = abandoned
    BY DEF Call, Idle, Writing
  <1>d. DbTypeOK /\ WriteInv /\ TmpsOwned(abandoned)
    BY DEF TypeOK, TmpInv
  <1>l. PICK lost : lost = abandoned
    OBVIOUS
  <1>2. todo' \in [Users -> Seq(Ops)] /\ OneWrite' /\ ~Writing(u)' /\ OthersIdle(u)
    BY <1>1, <1>d, CallStack DEF WriteInv, OthersIdle
  <1>3. FilesSound' /\ OtherTmpsKept(Metakeys, <<>>)
    BY <1>1, <1>d, FilesRemoved DEF WriteInv, OtherTmpsKept
  <1>4. WritersHaveFiles' /\ WritersApart' /\ TmpsOwned(lost)'
    BY <1>1, <1>2, <1>3, <1>d, <1>l, NoTmpTouched
  <1>5. TmpsOwned(abandoned)'
    BY <1>1, <1>4, <1>l DEF TmpsOwned
  <1> QED
    BY <1>2, <1>3, <1>4, <1>5 DEF TmpInv, WriteInv

\* Kill: the temporary file of the killed user is abandoned.
LEMMA KillTmpInv ==
    ASSUME TypeOK, TmpInv, NEW u \in Users, Kill(u)
    PROVE  TmpInv' /\ todo' \in [Users -> Seq(Ops)]
  <1>1. todo[u] # <<>> /\ todo' = [todo EXCEPT ![u] = <<>>] /\ files' = files
    BY DEF Kill, Idle
  <1>d. DbTypeOK /\ WriteInv /\ TmpsOwned(abandoned)
    BY DEF TypeOK, TmpInv
  <1>l. PICK lost, more : lost = abandoned /\ more = abandoned'
    OBVIOUS
  <1>2. PICK c \in Ops : c = Current(u)
    BY <1>1, <1>d, RunningTyped
  <1>3. abandoned' = abandoned \cup {<<f.key, f.name>> : f \in {g \in files :
                                        g.key = c.key /\ g.name = c.tmp}}
    BY <1>2 DEF Kill, Debris
  <1>4. todo' \in [Users -> Seq(Ops)] /\ OneWrite' /\ ~Writing(u)' /\ OthersIdle(u)
    <2>1. PICK d : d \in Ops /\ d.op \notin LiveOps
      <3>1. PICK v \in Values : v = c.value
        BY <1>2 DEF Ops
      <3>2. Save(Metakeys, v) \in Ops /\ Save(Metakeys, v).op \notin LiveOps
        BY OpsTyped DEF Save, Op, LiveOps
      <3> QED
        BY <3>2
    <2> QED
      BY <1>1, <1>d, <2>1, CallStack DEF WriteInv, OthersIdle
  <1>5. FilesSound' /\ (\A k, t : OtherTmpsKept(k, t)) /\ abandoned \subseteq abandoned'
    BY <1>1, <1>3, <1>d, FilesRemoved DEF WriteInv, OtherTmpsKept
  <1>6. CASE ~Writing(u)
    <2>1. WritersHaveFiles' /\ WritersApart' /\ TmpsOwned(more)'
      BY <1>4, <1>5, <1>6, <1>d, <1>l, NoTmpTouched
    <2>2. TmpsOwned(abandoned)'
      BY <1>l, <2>1 DEF TmpsOwned
    <2> QED
      BY <1>4, <1>5, <2>1, <2>2 DEF TmpInv, WriteInv
  <1>7. CASE Writing(u)
    <2>1. NobodyElse(u, c.key, c.tmp)
      BY <1>2, <1>7, <1>d, WriterOwns
    <2>2. \A f \in files' : f.key = c.key /\ f.name = c.tmp => <<c.key, c.tmp>> \in abandoned'
      BY <1>1, <1>3
    <2>3. Claims(u, c.key, c.tmp)' /\ Accounted(u, c.key, c.tmp, more)'
      BY <1>4, <1>l, <2>2 DEF Claims, Accounted
    <2>4. WritersHaveFiles' /\ WritersApart' /\ TmpsOwned(more)'
      BY <1>2, <1>4, <1>5, <1>d, <1>l, <1>7, <2>1, <2>3, OthersKept
    <2>5. TmpsOwned(abandoned)'
      BY <1>l, <2>4 DEF TmpsOwned
    <2> QED
      BY <1>4, <1>5, <2>4, <2>5 DEF TmpInv, WriteInv
  <1> QED
    BY <1>6, <1>7

-----------------------------------------------------------------------------
(* Types and atomic writes.                                                       *)

\* The operations a call of a user begins with.
LEMMA CallsTyped ==
    /\ \A k \in Keys, v \in Entries : Save(k, v) \in Ops /\ Delete(k, v) \in Ops
    /\ \A k, d \in Keys, v \in Entries : MoveValue(k, d, v) \in Ops
    /\ \A k, d, v : /\ Save(k, v).op = "save" /\ Delete(k, v).op = "delete"
                    /\ MoveValue(k, d, v).op = "move"
    /\ {"save", "delete", "move"} \cap LiveOps = {}
  <1>1. Keys \subseteq AllKeys /\ Entries \subseteq Values
    BY DEF AllKeys, Values
  <1>2. \A k \in Keys, v \in Entries : Save(k, v) \in Ops /\ Delete(k, v) \in Ops
    BY <1>1, OpsTyped
  <1>3. \A k, d \in Keys, v \in Entries : MoveValue(k, d, v) \in Ops
    BY <1>1, OpsTyped
  <1>4. \A k, d, v : /\ Save(k, v).op = "save" /\ Delete(k, v).op = "delete"
                     /\ MoveValue(k, d, v).op = "move"
    BY DEF Save, Delete, MoveValue, Op
  <1>5. {"save", "delete", "move"} \cap LiveOps = {}
    BY DEF LiveOps
  <1> QED
    BY <1>2, <1>3, <1>4, <1>5

\* A call of a user, whatever it is.
UserCall(u) ==
    \/ \E k \in Keys, v \in Entries : CallSave(u, k, v) \/ CallDelete(u, k, v)
    \/ \E src, dst \in Keys, v \in Entries : CallMove(u, src, dst, v)

\* A call is one operation, with the sets it asks for and the value it found.
LEMMA CallShape ==
    ASSUME TypeOK, NEW u \in Users, UserCall(u)
    PROVE  \E c \in Ops, found \in Moves, want \in [Keys -> SUBSET (Values \cup {Torn})] :
              c.op \notin LiveOps /\ Call(u, c, want, found)
  <1>1. expected \in [Keys -> SUBSET (Values \cup {Torn})] /\ Entries \subseteq Values
    BY DEF TypeOK, Values
  <1>2. NotMoving \in Moves
    BY DEF Moves
  <1>3. ASSUME NEW k \in Keys, NEW v \in Entries, CallSave(u, k, v) \/ CallDelete(u, k, v)
        PROVE  \E c \in Ops, found \in Moves, want \in [Keys -> SUBSET (Values \cup {Torn})] :
                  c.op \notin LiveOps /\ Call(u, c, want, found)
    <2>1. /\ [expected EXCEPT ![k] = @ \cup {v}] \in [Keys -> SUBSET (Values \cup {Torn})]
          /\ [expected EXCEPT ![k] = @ \ {v}] \in [Keys -> SUBSET (Values \cup {Torn})]
      BY <1>1
    <2>2. \/ Call(u, Save(k, v), [expected EXCEPT ![k] = @ \cup {v}], NotMoving)
          \/ Call(u, Delete(k, v), [expected EXCEPT ![k] = @ \ {v}], NotMoving)
      BY <1>3 DEF CallSave, CallDelete
    <2>3. /\ Save(k, v) \in Ops /\ Delete(k, v) \in Ops
          /\ Save(k, v).op \notin LiveOps /\ Delete(k, v).op \notin LiveOps
      BY CallsTyped
    <2> QED
      BY <1>2, <2>1, <2>2, <2>3
  <1>4. ASSUME NEW src \in Keys, NEW dst \in Keys, NEW v \in Entries, CallMove(u, src, dst, v)
        PROVE  \E c \in Ops, found \in Moves, want \in [Keys -> SUBSET (Values \cup {Torn})] :
                  c.op \notin LiveOps /\ Call(u, c, want, found)
    <2>1. PICK want : want = [k \in Keys |-> IF k = dst THEN expected[k] \cup {v}
                                             ELSE IF k = src THEN expected[k] \ {v} ELSE expected[k]]
      OBVIOUS
    <2>2. want \in [Keys -> SUBSET (Values \cup {Torn})]
      BY <1>1, <2>1
    <2>3. PICK found : found = IF active = {u} /\ v \in Stored(src)
                               THEN [from |-> src, to |-> dst, value |-> v] ELSE NotMoving
      OBVIOUS
    <2>4. found \in Moves
      BY <1>2, <2>3 DEF Moves
    <2>5. Call(u, MoveValue(src, dst, v), want, found)
      BY <1>4, <2>1, <2>3 DEF CallMove
    <2>6. MoveValue(src, dst, v) \in Ops /\ MoveValue(src, dst, v).op \notin LiveOps
      BY CallsTyped
    <2> QED
      BY <2>2, <2>4, <2>5, <2>6
  <1> QED
    BY <1>3, <1>4 DEF UserCall

\* The temporary file that a step fails to remove is abandoned.
LEMMA StepAbandons ==
    ASSUME NEW u \in Users, Step(u)
    PROVE  Abandons(u, abandoned, abandoned')
  <1>1. abandoned \subseteq abandoned'
    BY DEF Step
  <1>2. ASSUME Doing(u, "unlink"), files' = files, NEW f \in files, f.key = Current(u).key,
               f.name = Current(u).tmp
        PROVE  <<f.key, f.name>> \in abandoned'
    <2>1. <<f.key, f.name>> \in Debris(u)
      BY <1>2 DEF Debris
    <2> QED
      BY <1>2, <2>1 DEF Step, LeavesDebris
  <1> QED
    BY <1>1, <1>2 DEF Abandons

\* Every step keeps the types and the temporary files' owners.
LEMMA StepSound ==
    ASSUME TypeOK, TmpInv, [Next]_vars
    PROVE  TypeOK' /\ TmpInv'
  <1>d. DbTypeOK /\ WriteInv /\ TmpsOwned(abandoned)
    BY DEF TypeOK, TmpInv
  <1>l. PICK lost : lost = abandoned
    OBVIOUS
  <1>t. /\ active \subseteq Users /\ calls \in 0 .. MaxCalls /\ kills \in 0 .. MaxKills
        /\ moving \in Moves /\ setbacks \in 0 .. 2
        /\ expected \in [Keys -> SUBSET (Values \cup {Torn})]
        /\ MaxCalls \in Nat /\ MaxKills \in Nat
    BY BoundsOK DEF TypeOK
  <1>n. NotMoving \in Moves
    BY DEF Moves
  <1>b. SetBack => setbacks' \in 0 .. 2
    BY <1>t DEF SetBack
  <1>f. ASSUME WriteInv', todo' \in [Users -> Seq(Ops)], UNCHANGED <<failing, dirs>>
        PROVE  DbTypeOK'
    <2>1. FilesSound'
      BY <1>f DEF WriteInv
    <2> QED
      BY <1>d, <1>f, <2>1 DEF DbTypeOK, FilesSound, FileRecords, AllKeys, Values, OwnNames,
                              TmpNames, Ops, OpNames, MoveOps
  <1>1. CASE UNCHANGED vars
    <2>1. UNCHANGED <<dbVars, active, calls, kills, moving, setbacks, expected, abandoned>>
      BY <1>1 DEF vars
    <2>2. DbTypeOK' /\ WriteInv' /\ TmpsOwned(lost)'
      BY <1>d, <1>l, <2>1, DbUnchanged
    <2>3. TmpsOwned(abandoned)'
      BY <1>l, <2>1, <2>2 DEF TmpsOwned
    <2> QED
      BY <1>t, <2>1, <2>2, <2>3 DEF TypeOK, TmpInv, Moves, NotMoving, Values
  <1>2. ASSUME NEW u \in Users, UserCall(u)
        PROVE  TypeOK' /\ TmpInv'
    <2>1. PICK c \in Ops, found \in Moves, want \in [Keys -> SUBSET (Values \cup {Torn})] :
              c.op \notin LiveOps /\ Call(u, c, want, found)
      BY <1>2, CallShape
    <2>2. TmpInv' /\ todo' \in [Users -> Seq(Ops)]
      BY <2>1, CallTmpInv
    <2>3. /\ calls' \in 0 .. MaxCalls /\ UNCHANGED <<failing, dirs, active, kills>>
          /\ expected' = want /\ moving' \in Moves /\ setbacks' \in 0 .. 2
      BY <1>t, <2>1 DEF Call
    <2>4. DbTypeOK'
      BY <1>f, <2>2, <2>3 DEF TmpInv
    <2> QED
      BY <1>t, <2>1, <2>2, <2>3, <2>4 DEF TypeOK, Moves, NotMoving, Values
  <1>3. ASSUME NEW u \in Users, Step(u)
        PROVE  TypeOK' /\ TmpInv'
    <2>1. DbStep(u) /\ UNCHANGED <<active, calls, kills, moving, expected>>
      BY <1>3 DEF Step
    <2>2. PICK more : more = abandoned'
      OBVIOUS
    <2>3. Abandons(u, lost, more)
      BY <1>3, <1>l, <2>2, StepAbandons
    <2>4. DbTypeOK' /\ WriteInv' /\ TmpsOwned(more)'
      BY <1>d, <1>l, <2>1, <2>3, DbStepSound
    <2>5. TmpsOwned(abandoned)'
      BY <2>2, <2>4 DEF TmpsOwned
    <2>6. setbacks' \in 0 .. 2
      BY <1>t, <1>b, <1>3 DEF Step
    <2> QED
      BY <1>t, <2>1, <2>4, <2>5, <2>6 DEF TypeOK, TmpInv, Moves, NotMoving, Values
  <1>4. ASSUME NEW u \in Users, Kill(u)
        PROVE  TypeOK' /\ TmpInv'
    <2>1. TmpInv' /\ todo' \in [Users -> Seq(Ops)]
      BY <1>4, KillTmpInv
    <2>2. /\ kills' \in 0 .. MaxKills /\ UNCHANGED <<failing, dirs, active, calls, moving>>
          /\ setbacks' \in 0 .. 2
      BY <1>t, <1>b, <1>4 DEF Kill
    <2>3. expected' \in [Keys -> SUBSET (Values \cup {Torn})]
      <3>1. \A k \in Keys : Fetch(k) \subseteq Values \cup {Torn}
        BY <1>d DEF WriteInv, FilesSound, FileRecords, Fetch
      <3> QED
        BY <1>4, <3>1 DEF Kill
    <2>4. DbTypeOK'
      BY <1>f, <2>1, <2>2 DEF TmpInv
    <2> QED
      BY <1>t, <2>1, <2>2, <2>3, <2>4 DEF TypeOK, Moves, NotMoving, Values
  <1> QED
    BY <1>1, <1>2, <1>3, <1>4 DEF Next, UserCall

\* An empty database and idle users.
LEMMA InitSound == Init => TypeOK /\ TmpInv
  <1> SUFFICES ASSUME Init PROVE TypeOK /\ TmpInv
    OBVIOUS
  <1>1. /\ DbInit /\ failing \in BOOLEAN /\ active \subseteq Users /\ calls = 0 /\ kills = 0
        /\ moving = NotMoving /\ setbacks = 0 /\ expected = [k \in Keys |-> {}]
    BY DEF Init
  <1>2. DbTypeOK /\ WriteInv /\ \A lost : TmpsOwned(lost)
    BY <1>1, DbInitSound
  <1>3. TypeOK
    BY <1>1, <1>2, BoundsOK DEF TypeOK, Moves
  <1> QED
    BY <1>2, <1>3 DEF TmpInv

\* The types of the database's state, with the temporary files' owners.
LEMMA DatabaseSound == Spec => [](TypeOK /\ TmpInv)
  <1>1. Init => TypeOK /\ TmpInv
    BY InitSound
  <1>2. (TypeOK /\ TmpInv) /\ [Next]_vars => (TypeOK /\ TmpInv)'
    BY StepSound
  <1> QED
    BY <1>1, <1>2, PTL DEF Spec

\* Whatever the users call, and wherever they fail or are killed, the database's state has
\* its types (DirectoryTestCaseDatabase).
THEOREM TypeCorrect == Spec => []TypeOK
  <1>1. TypeOK /\ TmpInv => TypeOK
    OBVIOUS
  <1> QED
    BY <1>1, DatabaseSound, PTL

\* atomic_write is atomic for every number of users, keys and values: the file of a value
\* always holds that value, and a temporary file is being written, or its writer was killed
\* or could not remove it.
THEOREM AtomicWrites == Spec => []WritesAreAtomic
  <1>1. TypeOK /\ TmpInv => WritesAreAtomic
    <2> SUFFICES ASSUME TypeOK, TmpInv PROVE WritesAreAtomic
      OBVIOUS
    <2>1. WholeEntries
      BY DEF TmpInv, WriteInv, FilesSound
    <2>2. \A f \in files : Len(f.name) = 2 => f.name \in TmpNames
      BY NamesApart DEF TmpInv, WriteInv, FilesSound, FileRecords
    <2>3. NoStrayTmp
      BY <2>2 DEF TmpInv, TmpsOwned, NoStrayTmp, Writing, Idle
    <2> QED
      BY <2>1, <2>3 DEF WritesAreAtomic
  <1> QED
    BY <1>1, DatabaseSound, PTL


-----------------------------------------------------------------------------
(* move_value keeps the value it moves.                                           *)

\* An operation that takes no value away from a key of the callers.
Calm(c) == c \in Ops /\ c.op \notin MoveOps /\ (c.op = "delete" => c.key = Metakeys)

Still(next) == next \in Seq(Ops) /\ \A i \in 1 .. Len(next) : Calm(next[i])

\* The stack of a move: the move is the last thing on it, and its rename runs as soon as
\* the directory is there.
StackFits(s, m) ==
    \A i \in 1 .. Len(s) :
        /\ s[i].op = "delete" => s[i].key = Metakeys
        /\ s[i].op \in MoveOps =>
              i = Len(s) /\ s[i].key = m.from /\ s[i].to = m.to /\ s[i].value = m.value
        /\ s[i].op = "move_rename" => i = 1

\* The move is still to come, or is the next operation.
Pending(s) == \E i \in 1 .. Len(s) : s[i].op \in MoveOps
Ready(s) == s # <<>> /\ Head(s).op = "move_rename"

Moved(m) == m.value \in Stored(m.from) \cup Stored(m.to)

MoveGoing(s, m) ==
    /\ StackFits(s, m)
    /\ Moved(m)
    /\ Pending(s) => m.value \in Stored(m.from)
    /\ Ready(s) => m.to \in dirs

\* Delete-then-save: the save of the value at the destination is the last thing on the
\* stack, and nothing on it moves a value.
FallbackGoing(s, m) ==
    /\ s # <<>>
    /\ \A i \in 1 .. Len(s) : s[i].op \notin MoveOps
    /\ s[Len(s)].key = m.to /\ s[Len(s)].value = m.value /\ s[Len(s)].op \in WriteOps
    /\ s[Len(s)].op \in InDir => Len(s) = 1 /\ m.to \in dirs

\* A move goes on as long as nothing has failed, and falls back on the first failure.
MoveInv ==
    /\ \A u \in Users : u \notin active => todo[u] = <<>>
    /\ moving # NotMoving => \E u \in Users : active = {u} /\
          /\ setbacks = 0 => MoveGoing(todo[u], moving)
          /\ setbacks = 1 => MoveGoing(todo[u], moving) \/ FallbackGoing(todo[u], moving)

\* At most two operations follow another.
LEMMA FewStill ==
    /\ Still(<<>>)
    /\ \A a \in Ops : Calm(a) => Still(<<a>>) /\ <<>> \o <<a>> = <<a>>
    /\ \A a, b \in Ops : Calm(a) /\ Calm(b) => Still(<<a>> \o <<b>>)
  <1>1. Still(<<>>)
    BY DEF Still
  <1>2. ASSUME NEW a \in Ops, Calm(a) PROVE Still(<<a>>) /\ <<>> \o <<a>> = <<a>>
    <2>1. <<a>> \in Seq(Ops) /\ Len(<<a>>) = 1 /\ <<a>>[1] = a
      OBVIOUS
    <2>2. \A i \in 1 .. Len(<<a>>) : Calm(<<a>>[i])
      BY <1>2, <2>1
    <2> QED
      BY <2>1, <2>2, FewOps DEF Still
  <1>3. ASSUME NEW a \in Ops, NEW b \in Ops, Calm(a), Calm(b) PROVE Still(<<a>> \o <<b>>)
    <2>1. <<a>> \o <<b>> = <<a, b>>
      BY FewOps
    <2>2. PICK s : s = <<a, b>>
      OBVIOUS
    <2>3. s \in Seq(Ops) /\ Len(s) = 2 /\ s[1] = a /\ s[2] = b
      BY <2>2
    <2>4. \A i \in 1 .. 2 : i = 1 \/ i = 2
      OBVIOUS
    <2>5. \A i \in 1 .. Len(s) : Calm(s[i])
      BY <1>3, <2>3, <2>4
    <2> QED
      BY <2>1, <2>2, <2>3, <2>5 DEF Still
  <1> QED
    BY <1>1, <1>2, <1>3

\* What calm operations leave of the stack of a move.
LEMMA StackKept ==
    ASSUME NEW s \in Seq(Ops), s # <<>>, NEW m, StackFits(s, m), NEW next, Still(next),
           NEW t, t = next \o Tail(s)
    PROVE  /\ StackFits(t, m)
           /\ Pending(t) => Pending(s)
           /\ ~Ready(t)
  <1> DEFINE r == Tail(s)
  <1>1. /\ r \in Seq(Ops) /\ Len(r) = Len(s) - 1 /\ Len(s) \in Nat /\ Len(s) > 0
        /\ \A i \in 1 .. Len(r) : r[i] = s[i + 1]
    BY StackPopped
  <1>2. next \in Seq(Ops) /\ \A i \in 1 .. Len(next) : Calm(next[i])
    BY DEF Still
  <1>3. t = next \o r
    OBVIOUS
  <1> HIDE DEF r
  <1>4. /\ t \in Seq(Ops) /\ Len(t) = Len(next) + Len(r) /\ Len(next) \in Nat /\ Len(r) \in Nat
        /\ \A i \in 1 .. Len(t) : t[i] = IF i <= Len(next) THEN next[i] ELSE r[i - Len(next)]
    BY <1>1, <1>2, <1>3, ConcatProperties
  <1>5. ASSUME NEW i \in 1 .. Len(t)
        PROVE  \/ Calm(t[i])
               \/ /\ i > Len(next) /\ i - Len(next) \in 1 .. Len(r)
                  /\ i - Len(next) + 1 \in 1 .. Len(s)
                  /\ t[i] = s[i - Len(next) + 1]
    <2>1. CASE i <= Len(next)
      BY <1>2, <1>4, <2>1
    <2>2. CASE i > Len(next)
      <3>1. t[i] = r[i - Len(next)] /\ i - Len(next) \in 1 .. Len(r)
        BY <1>4, <2>2
      <3> QED
        BY <1>1, <2>2, <3>1
    <2> QED
      BY <1>4, <2>1, <2>2
  <1>6. ASSUME NEW i \in 1 .. Len(t)
        PROVE  /\ t[i].op = "delete" => t[i].key = Metakeys
               /\ t[i].op \in MoveOps =>
                     /\ i = Len(t) /\ t[i].key = m.from /\ t[i].to = m.to /\ t[i].value = m.value
                     /\ Pending(s)
               /\ t[i].op # "move_rename"
    <2>1. CASE Calm(t[i])
      BY <2>1 DEF Calm, MoveOps
    <2>2. CASE ~Calm(t[i])
      <3>1. PICK j \in 1 .. Len(s) : j = i - Len(next) + 1 /\ j > 1 /\ t[i] = s[j]
        BY <1>1, <1>4, <1>5, <2>2
      <3>2. j = Len(s) => i = Len(t)
        BY <1>1, <1>4, <3>1
      <3> QED
        BY <3>1, <3>2 DEF StackFits, Pending
    <2> QED
      BY <2>1, <2>2
  <1>7. StackFits(t, m)
    BY <1>6 DEF StackFits
  <1>8. Pending(t) => Pending(s)
    BY <1>6 DEF Pending
  <1>9. ~Ready(t)
    <2>1. t # <<>> => Head(t) = t[1] /\ 1 \in 1 .. Len(t)
      BY <1>4
    <2> QED
      BY <1>6, <2>1 DEF Ready
  <1> QED
    BY <1>7, <1>8, <1>9

\* Outside the steps of move_value itself, what follows an operation takes no value away
\* from a key of the callers.
LEMMA CalmContinues ==
    ASSUME DbTypeOK, WriteInv, NEW u \in Users, DbStep(u), Current(u).op \notin MoveOps
    PROVE  todo[u] # <<>> /\ \E next : Still(next) /\ Continue(u, next)
  <1>1. todo[u] # <<>>
    <2>1. QuietStep(u) \/ WriteStep(u)
      BY DEF DbStep, QuietStep, WriteStep
    <2>2. WriteStep(u) => todo[u] # <<>>
      BY DEF WriteStep, OpenTmp, FillTmp, RenameTmp, UnlinkTmp, Doing
    <2> QED
      BY <2>1, <2>2, QuietContinues
  <1>2. PICK c \in Ops : c = Current(u)
    BY <1>1, RunningTyped
  <1>3. c.key \in AllKeys /\ c.value \in Values /\ (c.key # Metakeys => c.key \in Values)
    BY <1>2 DEF Ops, AllKeys, Values
  <1>4. \A name \in {"mkdir", "probe", "open", "rename", "unlink", "rmdir"} :
           /\ name \in OpNames \ MoveOps
           /\ [c EXCEPT !.op = name] \in Ops /\ [c EXCEPT !.op = name].op = name
           /\ Calm([c EXCEPT !.op = name])
    <2>1. ASSUME NEW name \in {"mkdir", "probe", "open", "rename", "unlink", "rmdir"}
          PROVE  name \in OpNames /\ name \notin MoveOps /\ name # "delete"
      BY DEF OpNames, MoveOps
    <2>2. ASSUME NEW name \in {"mkdir", "probe", "open", "rename", "unlink", "rmdir"}
          PROVE  [c EXCEPT !.op = name] \in Ops
      BY <1>2, <2>1, OpsTyped, Zenon
    <2>3. \A name : [c EXCEPT !.op = name].op = name
      BY <1>2 DEF Ops
    <2> QED
      BY <2>1, <2>2, <2>3 DEF Calm
  <1>5. \A k \in AllKeys, v \in Values : /\ Save(k, v) \in Ops /\ Calm(Save(k, v))
                                         /\ Delete(Metakeys, v) \in Ops /\ Calm(Delete(Metakeys, v))
    <2>1. \A k \in AllKeys, v \in Values : Save(k, v) \in Ops /\ Delete(Metakeys, v) \in Ops
      BY OpsTyped
    <2>2. \A k, v : Save(k, v).op = "save" /\ Delete(Metakeys, v).key = Metakeys
                    /\ Delete(Metakeys, v).op = "delete"
      BY DEF Save, Delete, Op
    <2> QED
      BY <2>1, <2>2 DEF Calm, MoveOps
  <1>6. \A name \in {"mkdir", "probe", "open", "rename", "unlink", "rmdir"} :
           Still(<<[c EXCEPT !.op = name]>>)
    BY <1>4, FewStill
  <1> SUFFICES \E next : Still(next) /\ Continue(u, next)
    BY <1>1
  <1>7. CASE SaveBegins(u)
    <2>1. Continue(u, (IF c.key # Metakeys /\ c.key \notin dirs
                       THEN <<Save(Metakeys, c.key)>> ELSE <<>>) \o <<[c EXCEPT !.op = "mkdir"]>>)
      BY <1>2, <1>7 DEF SaveBegins
    <2>2. PICK d \in Ops : d = [c EXCEPT !.op = "mkdir"] /\ Calm(d)
      BY <1>4
    <2>3. CASE c.key # Metakeys /\ c.key \notin dirs
      <3>1. Continue(u, <<Save(Metakeys, c.key)>> \o <<d>>)
        BY <2>1, <2>2, <2>3
      <3>2. Save(Metakeys, c.key) \in Ops /\ Calm(Save(Metakeys, c.key))
        BY <1>3, <1>5, <2>3, OpsTyped
      <3>3. Still(<<Save(Metakeys, c.key)>> \o <<d>>)
        BY <2>2, <3>2, FewStill
      <3> QED
        BY <3>1, <3>3
    <2>4. CASE ~(c.key # Metakeys /\ c.key \notin dirs)
      <3>1. Continue(u, <<>> \o <<d>>)
        BY <2>1, <2>2, <2>4
      <3> QED
        BY <2>2, <3>1, FewStill
    <2> QED
      BY <2>3, <2>4
  <1>8. CASE MakeDir(u)
    BY <1>2, <1>6, <1>8, FewStill DEF MakeDir
  <1>9. CASE Probe(u)
    BY <1>2, <1>6, <1>9, FewStill DEF Probe
  <1>10. CASE OpenTmp(u)
    <2>1. PICK t : t = TempPath(c.key, c.value)
      OBVIOUS
    <2>2. t \in TmpNames
      BY <1>3, <2>1, TempPathFresh DEF WriteInv, FilesSound
    <2>3. PICK d : d = [c EXCEPT !.op = "fill", !.tmp = t]
      OBVIOUS
    <2>4. "fill" \in OpNames \ MoveOps /\ "fill" # "delete"
      BY DEF OpNames, MoveOps
    <2>5. d \in Ops
      BY <1>2, <2>2, <2>3, <2>4, OpsTyped, Zenon
    <2>6. d.op = "fill"
      BY <1>2, <2>3 DEF Ops
    <2>7. Still(<<d>>)
      BY <2>4, <2>5, <2>6, FewStill DEF Calm
    <2>8. Continue(u, <<d>>) \/ Continue(u, <<>>)
      BY <1>2, <1>10, <2>1, <2>3 DEF OpenTmp
    <2> QED
      BY <2>7, <2>8, FewStill
  <1>11. CASE FillTmp(u)
    BY <1>2, <1>6, <1>11 DEF FillTmp
  <1>12. CASE RenameTmp(u)
    BY <1>2, <1>6, <1>12, FewStill DEF RenameTmp
  <1>13. CASE UnlinkTmp(u)
    BY <1>13, FewStill DEF UnlinkTmp
  <1>14. CASE RemoveFile(u)
    BY <1>2, <1>6, <1>14, FewStill DEF RemoveFile
  <1>15. CASE RemoveDir(u)
    <2>1. Continue(u, <<>>) \/ (c.key # Metakeys /\ Continue(u, <<Delete(Metakeys, c.key)>>))
      BY <1>2, <1>15 DEF RemoveDir
    <2>2. c.key # Metakeys => Still(<<Delete(Metakeys, c.key)>>)
      BY <1>3, <1>5, FewStill
    <2> QED
      BY <2>1, <2>2, FewStill
  <1>16. CASE MoveBegins(u) \/ MoveMakeDir(u) \/ MoveRename(u)
    BY <1>16 DEF MoveBegins, MoveMakeDir, MoveRename, Doing, Current, MoveOps
  <1> QED
    BY <1>7, <1>8, <1>9, <1>10, <1>11, <1>12, <1>13, <1>14, <1>15, <1>16 DEF DbStep

\* A value's own file stays where it is, unless a delete or a move of a key takes it.
LEMMA OwnFilesKept ==
    ASSUME DbTypeOK, WriteInv, NEW u \in Users, DbStep(u), Current(u).op # "move_rename",
           Current(u).op = "delete" => Current(u).key = Metakeys, NEW k \in Keys
    PROVE  Stored(k) \subseteq Stored(k)'
  <1> SUFFICES ASSUME NEW f \in files, f.key = k, f.name \in OwnNames
               PROVE  \E g \in files' : g.key = k /\ g.name = f.name
    BY NamesApart DEF Stored, Exists, Values
  <1>1. CASE files' = files
    BY <1>1
  <1>2. CASE OpenTmp(u)
    <2>1. todo[u] # <<>>
      BY <1>2 DEF OpenTmp, Doing
    <2>2. PICK c \in Ops : c = Current(u)
      BY <2>1, RunningTyped
    <2>3. TempPath(c.key, c.value) \in TmpNames
      <3>1. c.value \in Values
        BY <2>2 DEF Ops
      <3> QED
        BY <3>1, TempPathFresh DEF WriteInv, FilesSound
    <2>4. f.name # TempPath(c.key, c.value)
      BY <2>3, NamesApart
    <2>5. f \in files'
      BY <1>2, <2>2, <2>4 DEF OpenTmp, FilesNamed
    <2> QED
      BY <2>5
  <1>3. CASE FillTmp(u) \/ UnlinkTmp(u) \/ RenameTmp(u)
    <2>1. Writing(u)
      BY <1>3 DEF FillTmp, UnlinkTmp, RenameTmp, Doing, Current, Writing, LiveOps
    <2>2. PICK c \in Ops : /\ c = Current(u) /\ c.key \in AllKeys /\ c.value \in Values
                           /\ c.tmp \in TmpNames /\ Exists(c.key, c.tmp)
      BY <2>1, WriterOwns
    <2>3. f.name # c.tmp
      BY <2>2, NamesApart
    <2>4. CASE FillTmp(u)
      <3>1. f \in files'
        BY <2>2, <2>3, <2>4 DEF FillTmp, FilesNamed
      <3> QED
        BY <3>1
    <2>5. CASE UnlinkTmp(u)
      <3>1. f \in files'
        BY <2>2, <2>3, <2>5 DEF UnlinkTmp, FilesNamed
      <3> QED
        BY <3>1
    <2>6. CASE RenameTmp(u)
      <3>1. PICK path : path = ValuePath(c.value)
        OBVIOUS
      <3>2. \/ files' = files
            \/ files' = {h \in files : h.key # c.key \/ h.name \notin {c.tmp, path}}
                           \cup {[h EXCEPT !.name = path] : h \in FilesNamed(c.key, c.tmp)}
        BY <2>2, <2>6, <3>1 DEF RenameTmp
      <3>3. CASE f.key # c.key \/ f.name # path
        BY <2>3, <3>2, <3>3
      <3>4. CASE f.key = c.key /\ f.name = path
        <4>1. PICK h \in files : h.key = c.key /\ h.name = c.tmp
          BY <2>2 DEF Exists
        <4>2. h \in FileRecords
          BY DEF WriteInv, FilesSound
        <4>3. PICK g : g = [h EXCEPT !.name = path]
          OBVIOUS
        <4>4. g.key = k /\ g.name = f.name
          BY <3>4, <4>1, <4>2, <4>3 DEF FileRecords
        <4>5. files' = files \/ g \in files'
          BY <3>2, <4>1, <4>3 DEF FilesNamed
        <4> QED
          BY <4>4, <4>5
      <3> QED
        BY <3>3, <3>4
    <2> QED
      BY <1>3, <2>4, <2>5, <2>6
  <1>4. CASE RemoveFile(u)
    <2>1. Current(u).key = Metakeys
      BY <1>4 DEF RemoveFile, Doing, Current
    <2>2. f.key # Metakeys
      BY MetakeysIsNoKey
    <2>3. f \in files'
      BY <1>4, <2>1, <2>2 DEF RemoveFile, FilesNamed
    <2> QED
      BY <2>3
  <1>5. ASSUME SaveBegins(u) \/ MakeDir(u) \/ Probe(u) \/ RemoveDir(u) \/ MoveBegins(u) \/ MoveMakeDir(u)
        PROVE  files' = files
    BY <1>5 DEF SaveBegins, MakeDir, Probe, RemoveDir, MoveBegins, MoveMakeDir
  <1>6. ~MoveRename(u)
    BY DEF MoveRename, Doing, Current
  <1> QED
    BY <1>1, <1>2, <1>3, <1>4, <1>5, <1>6 DEF DbStep

\* A move that runs is the last thing its user has to do.
LEMMA MoveIsLast ==
    ASSUME DbTypeOK, NEW u \in Users, todo[u] # <<>>, Current(u).op \in MoveOps,
           NEW m \in [from : Keys, to : Keys, value : Entries], MoveGoing(todo[u], m)
    PROVE  /\ Current(u).key = m.from /\ Current(u).to = m.to /\ Current(u).value = m.value
           /\ m.value \in Stored(m.from)
           /\ \A next \in Seq(Ops) : Continue(u, next) => todo'[u] = next
           /\ Len(todo[u]) = 1
  <1>1. todo \in [Users -> Seq(Ops)] /\ todo[u] \in Seq(Ops)
    BY DEF DbTypeOK
  <1>2. PICK s \in Seq(Ops) : s = todo[u]
    BY <1>1
  <1>3. s # <<>> /\ s[1] = Current(u) /\ 1 \in 1 .. Len(s)
    BY <1>2, StackPopped DEF Current
  <1>4. Len(s) = 1 /\ s[1].key = m.from /\ s[1].to = m.to /\ s[1].value = m.value
    BY <1>2, <1>3 DEF MoveGoing, StackFits
  <1>5. Pending(s)
    BY <1>3 DEF Pending
  <1>6. Tail(s) \in Seq(Ops) /\ Len(Tail(s)) = 0
    BY <1>3, <1>4, StackPopped
  <1>7. ASSUME NEW next \in Seq(Ops) PROVE next \o Tail(s) = next
    <2>1. PICK t \in Seq(Ops) : t = Tail(s) /\ Len(t) = 0
      BY <1>6
    <2>2. /\ next \o t \in Seq(Ops) /\ Len(next \o t) = Len(next) /\ Len(next) \in Nat
          /\ \A i \in 1 .. Len(next) : (next \o t)[i] = next[i]
      BY <2>1, ConcatProperties
    <2> QED
      BY <2>1, <2>2, SeqEqual
  <1>8. \A next \in Seq(Ops) : Continue(u, next) => todo'[u] = next
    BY <1>1, <1>2, <1>7 DEF Continue
  <1> QED
    BY <1>2, <1>3, <1>4, <1>5, <1>8 DEF MoveGoing

\* One operation, or a listing and one operation, as the stack of a move.
LEMMA ShortStacks ==
    ASSUME NEW m
    PROVE  /\ \A a \in Ops : Calm(a) =>
                 StackFits(<<a>>, m) /\ ~Pending(<<a>>) /\ ~Ready(<<a>>)
           /\ \A a \in Ops :
                 a.op \in MoveOps /\ a.key = m.from /\ a.to = m.to /\ a.value = m.value =>
                    /\ StackFits(<<a>>, m)
                    /\ \A b \in Ops : Calm(b) /\ a.op # "move_rename" =>
                          /\ StackFits(<<b>> \o <<a>>, m) /\ ~Ready(<<b>> \o <<a>>)
           /\ \A a \in Ops : Ready(<<a>>) => a.op = "move_rename"
           /\ \A a, b \in Ops : <<b>> \o <<a>> \in Seq(Ops)
  <1>1. ASSUME NEW a \in Ops
        PROVE  /\ <<a>> \in Seq(Ops) /\ Len(<<a>>) = 1 /\ <<a>>[1] = a /\ Head(<<a>>) = a
               /\ \A i \in 1 .. Len(<<a>>) : i = 1 /\ <<a>>[i] = a
    OBVIOUS
  <1>2. ASSUME NEW a \in Ops, Calm(a)
        PROVE  StackFits(<<a>>, m) /\ ~Pending(<<a>>) /\ ~Ready(<<a>>)
    <2>1. a.op # "move_rename" /\ a.op \notin MoveOps /\ (a.op = "delete" => a.key = Metakeys)
      BY <1>2 DEF Calm, MoveOps
    <2> QED
      BY <1>1, <2>1 DEF StackFits, Pending, Ready
  <1>3. "delete" \notin MoveOps
    BY DEF MoveOps
  <1>4. ASSUME NEW a \in Ops, a.op \in MoveOps, a.key = m.from, a.to = m.to, a.value = m.value
        PROVE  StackFits(<<a>>, m)
    BY <1>1, <1>3, <1>4 DEF StackFits
  <1>5. ASSUME NEW a \in Ops, a.op \in MoveOps, a.key = m.from, a.to = m.to, a.value = m.value,
               NEW b \in Ops, Calm(b), a.op # "move_rename"
        PROVE  StackFits(<<b>> \o <<a>>, m) /\ ~Ready(<<b>> \o <<a>>)
    <2>1. PICK s : s = <<b, a>>
      OBVIOUS
    <2>2. s \in Seq(Ops) /\ Len(s) = 2 /\ s[1] = b /\ s[2] = a /\ Head(s) = b
      BY <2>1
    <2>3. <<b>> \o <<a>> = s
      BY <2>1, FewOps
    <2>4. \A i \in 1 .. 2 : i = 1 \/ i = 2
      OBVIOUS
    <2>5. b.op # "move_rename" /\ b.op \notin MoveOps /\ (b.op = "delete" => b.key = Metakeys)
      BY <1>5 DEF Calm, MoveOps
    <2>6. StackFits(s, m) /\ ~Ready(s)
      BY <1>3, <1>5, <2>2, <2>4, <2>5 DEF StackFits, Ready
    <2> QED
      BY <2>3, <2>6
  <1>6. \A a \in Ops : Ready(<<a>>) => a.op = "move_rename"
    BY <1>1 DEF Ready
  <1>7. \A a, b \in Ops : <<b>> \o <<a>> \in Seq(Ops)
    BY <1>1, ConcatProperties
  <1> QED
    BY <1>2, <1>4, <1>5, <1>6, <1>7

\* An operation of a move that leaves delete-then-save to do has failed.
LEMMA FallsBack ==
    ASSUME DbTypeOK, NEW u \in Users, NEW m \in [from : Keys, to : Keys, value : Entries],
           todo'[u] = <<Delete(m.from, m.value), Save(m.to, m.value)>>,
           Len(todo[u]) = 1, Doing(u, "move_mkdir") \/ Doing(u, "move_rename")
    PROVE  Fails(u) /\ FallbackGoing(todo[u], m)'
  <1>1. PICK a, b : a = Delete(m.from, m.value) /\ b = Save(m.to, m.value)
    OBVIOUS
  <1>2. PICK t : t = <<a, b>>
    OBVIOUS
  <1>3. t # <<>> /\ Len(t) = 2 /\ t[1] = a /\ t[2] = b /\ \A i \in 1 .. 2 : i = 1 \/ i = 2
    BY <1>2
  <1>4. a.op = "delete" /\ b.op = "save" /\ b.key = m.to /\ b.value = m.value
    BY <1>1 DEF Save, Delete, Op
  <1>5. FallbackGoing(t, m)'
    BY <1>3, <1>4 DEF FallbackGoing, MoveOps, WriteOps, InDir
  <1>6. FallbackGoing(todo[u], m)'
    BY <1>1, <1>2, <1>5
  <1>7. Fails(u)
    BY <1>1, <1>2, <1>3 DEF Fails
  <1> QED
    BY <1>6, <1>7

\* A step of the only user, while it moves a value: it goes on, or an operation of the move
\* itself fails and it falls back.
LEMMA MoveGoesOn ==
    ASSUME DbTypeOK, WriteInv, NEW u \in Users, DbStep(u),
           NEW m \in [from : Keys, to : Keys, value : Entries], MoveGoing(todo[u], m)
    PROVE  MoveGoing(todo[u], m)' \/ (Fails(u) /\ FallbackGoing(todo[u], m)')
  <1>1. todo[u] # <<>> /\ todo \in [Users -> Seq(Ops)]
    <2>1. QuietStep(u) \/ WriteStep(u)
      BY DEF DbStep, QuietStep, WriteStep
    <2>2. WriteStep(u) => todo[u] # <<>>
      BY DEF WriteStep, OpenTmp, FillTmp, RenameTmp, UnlinkTmp, Doing
    <2> QED
      BY <2>1, <2>2, QuietContinues DEF DbTypeOK
  <1>2. PICK c \in Ops : c = Current(u) /\ c = todo[u][1] /\ 1 \in 1 .. Len(todo[u])
    BY <1>1, RunningTyped
  <1>3. m.from \in Keys /\ m.to \in Keys /\ m.value \in Entries
    OBVIOUS
  <1>4. \A op \in OpNames : [c EXCEPT !.op = op].op = op /\ [c EXCEPT !.op = op].key = c.key
           /\ [c EXCEPT !.op = op].to = c.to /\ [c EXCEPT !.op = op].value = c.value
    BY <1>2 DEF Ops
  <1>5. \A k \in AllKeys, v \in Values : Save(k, v) \in Ops /\ Calm(Save(k, v))
    <2>1. \A k, v : Save(k, v).op = "save"
      BY DEF Save, Op
    <2> QED
      BY <2>1, OpsTyped DEF Calm, MoveOps
  <1>6. CASE c.op \notin MoveOps
    <2>1. PICK next : Still(next) /\ Continue(u, next)
      BY <1>2, <1>6, CalmContinues
    <2>2. PICK t : t = todo'[u]
      OBVIOUS
    <2>3. t = next \o Tail(todo[u])
      BY <1>1, <2>1, <2>2 DEF Continue
    <2>4. todo[u] \in Seq(Ops) /\ StackFits(todo[u], m)
      BY <1>1 DEF MoveGoing
    <2>5. StackFits(t, m) /\ (Pending(t) => Pending(todo[u])) /\ ~Ready(t)
      BY <1>1, <2>1, <2>3, <2>4, StackKept
    <2>6. c.op = "delete" => c.key = Metakeys
      BY <1>2, <2>4 DEF StackFits
    <2>7. c.op # "move_rename"
      BY <1>6 DEF MoveOps
    <2>8. Stored(m.from) \subseteq Stored(m.from)' /\ Stored(m.to) \subseteq Stored(m.to)'
      BY <1>2, <1>3, <2>6, <2>7, OwnFilesKept
    <2>9. /\ StackFits(todo[u], m)' /\ (Pending(todo[u])' => Pending(todo[u])) /\ ~Ready(todo[u])'
      BY <2>2, <2>5 DEF StackFits, Pending, Ready
    <2> QED
      BY <2>8, <2>9 DEF MoveGoing, Moved
  <1>7. ASSUME c.op \in MoveOps
        PROVE  /\ c.key = m.from /\ c.to = m.to /\ c.value = m.value
               /\ m.value \in Stored(m.from)
               /\ \A next \in Seq(Ops) : Continue(u, next) => todo'[u] = next
               /\ Len(todo[u]) = 1
    BY <1>1, <1>2, <1>7, MoveIsLast
  <1>f. ASSUME c.op \in MoveOps, Doing(u, "move_mkdir") \/ Doing(u, "move_rename"),
               Continue(u, MoveFallback(c))
        PROVE  Fails(u) /\ FallbackGoing(todo[u], m)'
    <2>1. PICK a, b : a = Delete(m.from, m.value) /\ b = Save(m.to, m.value)
      OBVIOUS
    <2>2. a \in Ops /\ b \in Ops
      BY <1>3, <2>1, OpsTyped DEF AllKeys, Values
    <2>3. <<a, b>> \in Seq(Ops)
      BY <2>2
    <2>4. Continue(u, <<a, b>>)
      BY <1>f, <1>7, <2>1 DEF MoveFallback
    <2>5. todo'[u] = <<a, b>>
      BY <1>f, <1>7, <2>3, <2>4
    <2> QED
      BY <1>f, <1>7, <2>1, <2>5, FallsBack
  <1>8. CASE MoveBegins(u)
    <2>1. c.op = "move" /\ c.op \in MoveOps /\ files' = files
      BY <1>2, <1>8 DEF MoveBegins, Doing, Current, MoveOps
    <2>2. PICK mm : mm = [c EXCEPT !.op = "move_mkdir"]
      OBVIOUS
    <2>3. /\ mm \in Ops /\ mm.op = "move_mkdir" /\ mm.op \in MoveOps /\ mm.op # "move_rename"
          /\ mm.key = m.from /\ mm.to = m.to /\ mm.value = m.value
      <3>1. "move_mkdir" \in OpNames /\ "move_mkdir" \in MoveOps
        BY DEF OpNames, MoveOps
      <3>2. mm \in Ops
        BY <2>1, <2>2, <3>1, OpsTyped, Zenon
      <3> QED
        BY <1>4, <1>7, <2>1, <2>2, <3>1, <3>2
    <2>4. Continue(u, IF c.to = c.key THEN <<Save(c.key, c.value)>>
                      ELSE (IF c.to \notin dirs THEN <<Save(Metakeys, c.to)>> ELSE <<>>) \o <<mm>>)
      BY <1>2, <1>8, <2>2 DEF MoveBegins
    <2>5. /\ Save(c.key, c.value) \in Ops /\ Calm(Save(c.key, c.value))
          /\ Save(Metakeys, c.to) \in Ops /\ Calm(Save(Metakeys, c.to))
      <3>1. c.key \in AllKeys /\ c.value \in Values /\ Metakeys \in AllKeys /\ c.to \in Values
        BY <1>3, <1>7, <2>1 DEF AllKeys, Values
      <3> QED
        BY <1>5, <3>1
    <2>6. \A next : next \in {<<Save(c.key, c.value)>>, <<Save(Metakeys, c.to)>> \o <<mm>>, <<mm>>} =>
             next \in Seq(Ops) /\ StackFits(next, m) /\ ~Ready(next)
      <3>1. <<Save(c.key, c.value)>> \in Seq(Ops) /\ <<mm>> \in Seq(Ops)
        BY <2>3, <2>5
      <3>2. ~Ready(<<mm>>)
        BY <2>3, ShortStacks
      <3> QED
        BY <2>3, <2>5, <3>1, <3>2, ShortStacks
    <2>7. <<>> \o <<mm>> = <<mm>>
      BY <2>3, FewOps
    <2>8. \/ Continue(u, <<Save(c.key, c.value)>>)
          \/ Continue(u, <<Save(Metakeys, c.to)>> \o <<mm>>)
          \/ Continue(u, <<mm>>)
      <3>1. CASE c.to = c.key
        BY <2>4, <3>1
      <3>2. CASE c.to # c.key /\ c.to \notin dirs
        BY <2>4, <3>2
      <3>3. CASE c.to # c.key /\ c.to \in dirs
        BY <2>4, <2>7, <3>3
      <3> QED
        BY <3>1, <3>2, <3>3
    <2>9. PICK t : t = todo'[u] /\ StackFits(t, m) /\ ~Ready(t)
      BY <1>7, <2>1, <2>6, <2>8
    <2>10. m.value \in Stored(m.from)'
      BY <1>7, <2>1 DEF Stored, Exists
    <2>11. StackFits(todo[u], m)' /\ ~Ready(todo[u])'
      BY <2>9 DEF StackFits, Ready
    <2> QED
      BY <2>10, <2>11 DEF MoveGoing, Moved
  <1>9. CASE MoveMakeDir(u)
    <2>1. c.op = "move_mkdir" /\ c.op \in MoveOps /\ files' = files
      BY <1>2, <1>9 DEF MoveMakeDir, Doing, Current, MoveOps
    <2>2. PICK mr : mr = [c EXCEPT !.op = "move_rename"]
      OBVIOUS
    <2>3. /\ mr \in Ops /\ mr.op \in MoveOps
          /\ mr.key = m.from /\ mr.to = m.to /\ mr.value = m.value
      <3>1. "move_rename" \in OpNames /\ "move_rename" \in MoveOps
        BY DEF OpNames, MoveOps
      <3>2. mr \in Ops
        BY <2>1, <2>2, <3>1, OpsTyped, Zenon
      <3> QED
        BY <1>4, <1>7, <2>1, <2>2, <3>1, <3>2
    <2>4. CASE Continue(u, MoveFallback(c))
      <3>1. Doing(u, "move_mkdir")
        BY <1>9 DEF MoveMakeDir
      <3> QED
        BY <1>f, <2>1, <2>4, <3>1
    <2>5. CASE dirs' = dirs \cup {m.to} /\ Continue(u, <<mr>>)
      <3>1. <<mr>> \in Seq(Ops) /\ StackFits(<<mr>>, m)
        <4>1. <<mr>> \in Seq(Ops)
          BY <2>3
        <4>2. StackFits(<<mr>>, m)
          BY <2>3, ShortStacks
        <4> QED
          BY <4>1, <4>2
      <3>2. PICK t : t = todo'[u] /\ StackFits(t, m)
        BY <1>7, <2>1, <2>5, <3>1
      <3>3. m.value \in Stored(m.from)' /\ m.to \in dirs'
        BY <1>7, <2>1, <2>5 DEF Stored, Exists
      <3>4. StackFits(todo[u], m)'
        BY <3>2 DEF StackFits
      <3> QED
        BY <3>3, <3>4 DEF MoveGoing, Moved
    <2> QED
      BY <1>2, <1>7, <1>9, <2>1, <2>2, <2>4, <2>5 DEF MoveMakeDir
  <1>10. CASE MoveRename(u)
    <2>1. c.op = "move_rename" /\ c.op \in MoveOps
      BY <1>2, <1>10 DEF MoveRename, Doing, Current, MoveOps
    <2>2. m.to \in dirs
      BY <1>1, <1>2, <2>1 DEF MoveGoing, Ready, Current
    <2>3. PICK path : path = ValuePath(c.value)
      OBVIOUS
    <2>4. Exists(m.from, path)
      BY <1>7, <2>1, <2>3 DEF Stored
    <2>5. PICK rmdir : rmdir = [c EXCEPT !.op = "rmdir"]
      OBVIOUS
    <2>6. CASE Continue(u, MoveFallback(c))
      <3>1. Doing(u, "move_rename")
        BY <1>10 DEF MoveRename
      <3> QED
        BY <1>f, <2>1, <2>6, <3>1
    <2>7. CASE /\ files' = (files \ (FilesNamed(m.from, path) \cup FilesNamed(m.to, path)))
                              \cup {[f EXCEPT !.key = m.to] : f \in FilesNamed(m.from, path)}
               /\ Continue(u, <<rmdir>>)
      <3>1. rmdir \in Ops /\ Calm(rmdir)
        <4>1. "rmdir" \in OpNames /\ "rmdir" \notin MoveOps /\ "rmdir" # "delete"
          BY DEF OpNames, MoveOps
        <4>2. rmdir \in Ops
          BY <2>5, <4>1, OpsTyped, Zenon
        <4> QED
          BY <1>4, <2>5, <4>1, <4>2 DEF Calm
      <3>2. PICK t : t = todo'[u] /\ StackFits(t, m) /\ ~Pending(t) /\ ~Ready(t)
        <4>1. <<rmdir>> \in Seq(Ops)
          BY <3>1
        <4> QED
          BY <1>7, <2>1, <2>7, <3>1, <4>1, ShortStacks
      <3>3. m.value \in Stored(m.to)'
        <4>1. PICK f \in files : f.key = m.from /\ f.name = path
          BY <2>4 DEF Exists
        <4>2. f \in FileRecords
          BY DEF WriteInv, FilesSound
        <4>3. PICK g : g = [f EXCEPT !.key = m.to]
          OBVIOUS
        <4>4. g.key = m.to /\ g.name = path /\ g \in files'
          BY <2>7, <4>1, <4>2, <4>3 DEF FileRecords, FilesNamed
        <4>5. \E h \in files' : h.key = m.to /\ h.name = ValuePath(m.value)
          BY <1>7, <2>1, <2>3, <4>4
        <4>6. m.value \in Values
          BY <1>3 DEF Values
        <4> QED
          BY <4>5, <4>6 DEF Stored, Exists, ValuePath, Values
      <3>4. StackFits(todo[u], m)' /\ ~Pending(todo[u])' /\ ~Ready(todo[u])'
        BY <3>2 DEF StackFits, Pending, Ready
      <3> QED
        BY <3>3, <3>4 DEF MoveGoing, Moved
    <2> QED
      BY <1>2, <1>7, <1>10, <2>1, <2>2, <2>3, <2>4, <2>5, <2>6, <2>7 DEF MoveRename
  <1>11. c.op \in MoveOps => MoveBegins(u) \/ MoveMakeDir(u) \/ MoveRename(u)
    <2>1. ASSUME SaveBegins(u) \/ MakeDir(u) \/ Probe(u) \/ OpenTmp(u) \/ FillTmp(u) \/ RenameTmp(u)
          PROVE  c.op \notin MoveOps
      BY <1>2, <2>1
        DEF SaveBegins, MakeDir, Probe, OpenTmp, FillTmp, RenameTmp, Doing, Current, MoveOps
    <2>2. ASSUME UnlinkTmp(u) \/ RemoveFile(u) \/ RemoveDir(u)
          PROVE  c.op \notin MoveOps
      BY <1>2, <2>2 DEF UnlinkTmp, RemoveFile, RemoveDir, Doing, Current, MoveOps
    <2> QED
      BY <2>1, <2>2 DEF DbStep
  <1> QED
    BY <1>6, <1>8, <1>9, <1>10, <1>11

\* What follows the operation of a stack of one or two.
LEMMA ShortContinues ==
    ASSUME DbTypeOK, NEW u \in Users
    PROVE  /\ Len(todo[u]) = 1 =>
                 \A next \in Seq(Ops) : Continue(u, next) => todo'[u] = next
           /\ Len(todo[u]) = 2 =>
                 /\ Continue(u, <<>>) => todo'[u] = <<todo[u][2]>>
                 /\ \A a \in Ops : Continue(u, <<a>>) => todo'[u] = <<a, todo[u][2]>>
           /\ todo[u] \in Seq(Ops)
  <1>1. todo \in [Users -> Seq(Ops)] /\ todo[u] \in Seq(Ops)
    BY DEF DbTypeOK
  <1>2. PICK s \in Seq(Ops) : s = todo[u]
    BY <1>1
  <1>3. \A next : Continue(u, next) => todo'[u] = next \o Tail(s)
    BY <1>1, <1>2 DEF Continue
  <1>p. Len(s) > 0 => /\ Tail(s) \in Seq(Ops) /\ Len(Tail(s)) = Len(s) - 1
                      /\ \A i \in 1 .. Len(Tail(s)) : Tail(s)[i] = s[i + 1]
    <2>1. s = <<>> => Len(s) = 0
      OBVIOUS
    <2>2. s # <<>> => /\ Tail(s) \in Seq(Ops) /\ Len(Tail(s)) = Len(s) - 1
                      /\ \A i \in 1 .. Len(Tail(s)) : Tail(s)[i] = s[i + 1]
      BY StackPopped
    <2> QED
      BY <2>1, <2>2
  <1>4. ASSUME Len(s) = 1, NEW next \in Seq(Ops) PROVE next \o Tail(s) = next
    <2>a. Tail(s) \in Seq(Ops) /\ Len(Tail(s)) = 0
      BY <1>4, <1>p
    <2>1. PICK t \in Seq(Ops) : t = Tail(s) /\ Len(t) = 0
      BY <2>a
    <2>2. /\ next \o t \in Seq(Ops) /\ Len(next \o t) = Len(next) /\ Len(next) \in Nat
          /\ \A i \in 1 .. Len(next) : (next \o t)[i] = next[i]
      BY <2>1, ConcatProperties
    <2> QED
      BY <2>1, <2>2, SeqEqual
  <1>5. ASSUME Len(s) = 2
        PROVE  Tail(s) = <<s[2]>> /\ s[2] \in Ops
    <2>a. Tail(s) \in Seq(Ops) /\ Len(Tail(s)) = 1
      BY <1>5, <1>p
    <2>b. \A i \in 1 .. 1 : Tail(s)[i] = s[i + 1]
      <3>1. \A i \in 1 .. Len(Tail(s)) : Tail(s)[i] = s[i + 1]
        <4>1. Len(s) > 0
          BY <1>5
        <4> QED
          BY <1>p, <4>1, Zenon
      <3> QED
        BY <2>a, <3>1, Zenon
    <2>c. Tail(s)[1] = s[2]
      <3>1. 1 \in 1 .. 1 /\ 1 + 1 = 2
        OBVIOUS
      <3>2. Tail(s)[1] = s[1 + 1]
        BY <2>b, <3>1
      <3> QED
        BY <3>1, <3>2
    <2>1. PICK t \in Seq(Ops) : t = Tail(s) /\ Len(t) = 1 /\ t[1] = s[2]
      BY <2>a, <2>c
    <2>2. s[2] \in Ops
      BY <1>5
    <2>3. <<s[2]>> \in Seq(Ops) /\ Len(<<s[2]>>) = 1 /\ <<s[2]>>[1] = s[2]
      BY <2>2
    <2>4. \A i \in 1 .. 1 : t[i] = <<s[2]>>[i]
      <3>1. \A i \in 1 .. 1 : i = 1
        OBVIOUS
      <3> QED
        BY <2>1, <2>3, <3>1
    <2> QED
      BY <2>1, <2>2, <2>3, <2>4, SeqEqual
  <1>6. Len(s) = 2 => /\ Continue(u, <<>>) => todo'[u] = <<s[2]>>
                      /\ \A a \in Ops : Continue(u, <<a>>) => todo'[u] = <<a, s[2]>>
    <2>1. \A a, b \in Ops : <<a>> \o <<b>> = <<a, b>> /\ <<>> \o <<b>> = <<b>>
      BY FewOps
    <2> QED
      BY <1>3, <1>5, <2>1
  <1> QED
    BY <1>1, <1>2, <1>3, <1>4, <1>6

\* A step of the only user after one failure, when nothing else fails: the save at the
\* destination is still to be done, or it is done.
LEMMA FallbackStores ==
    ASSUME DbTypeOK, WriteInv, NEW u \in Users, DbStep(u), ~Fails(u),
           NEW m \in [from : Keys, to : Keys, value : Entries], FallbackGoing(todo[u], m)
    PROVE  FallbackGoing(todo[u], m)' \/ MoveGoing(todo[u], m)'
  <1>1. todo[u] # <<>> /\ todo \in [Users -> Seq(Ops)]
    BY StepRuns DEF DbTypeOK
  <1>2. PICK s \in Seq(Ops) : s = todo[u] /\ s # <<>>
    BY <1>1
  <1>3. /\ Tail(s) \in Seq(Ops) /\ Len(Tail(s)) = Len(s) - 1 /\ Len(s) \in Nat /\ Len(s) > 0
        /\ \A i \in 1 .. Len(Tail(s)) : Tail(s)[i] = s[i + 1]
        /\ \A i \in 1 .. Len(s) : s[i] \in Ops
    BY <1>2, StackPopped
  <1>4. PICK c \in Ops : c = Current(u) /\ c = s[1] /\ 1 \in 1 .. Len(s)
    BY <1>1, <1>2, RunningTyped
  <1>5. /\ \A i \in 1 .. Len(s) : s[i].op \notin MoveOps
        /\ s[Len(s)].key = m.to /\ s[Len(s)].value = m.value /\ s[Len(s)].op \in WriteOps
        /\ s[Len(s)].op \in InDir => Len(s) = 1 /\ m.to \in dirs
    BY <1>2 DEF FallbackGoing
  <1>6. CASE Len(s) > 1
    <2>1. PICK next : Still(next) /\ Continue(u, next)
      BY <1>4, <1>5, CalmContinues
    <2>2. PICK r \in Seq(Ops) : r = Tail(s)
      BY <1>3
    <2>3. next \in Seq(Ops) /\ \A i \in 1 .. Len(next) : next[i].op \notin MoveOps
      BY <2>1 DEF Still, Calm
    <2>4. PICK t : t = next \o r
      OBVIOUS
    <2>5. /\ t \in Seq(Ops) /\ Len(t) = Len(next) + Len(r) /\ Len(next) \in Nat /\ Len(r) \in Nat
          /\ \A i \in 1 .. Len(t) : t[i] = IF i <= Len(next) THEN next[i] ELSE r[i - Len(next)]
      BY <2>2, <2>3, <2>4, ConcatProperties
    <2>6. t[Len(t)] = s[Len(s)] /\ Len(t) > 0 /\ t # <<>>
      <3>1. Len(t) \in 1 .. Len(t) /\ ~(Len(t) <= Len(next)) /\ Len(t) - Len(next) = Len(r)
        BY <1>3, <1>6, <2>2, <2>5
      <3>2. t[Len(t)] = r[Len(r)]
        BY <2>5, <3>1
      <3>3. r[Len(r)] = s[Len(s)]
        BY <1>3, <1>6, <2>2
      <3> QED
        BY <1>3, <1>6, <2>2, <2>5, <3>2, <3>3
    <2>7. ASSUME NEW i \in 1 .. Len(t) PROVE t[i].op \notin MoveOps
      <3>1. CASE i <= Len(next)
        BY <2>3, <2>5, <3>1
      <3>2. CASE i > Len(next)
        <4>1. t[i] = r[i - Len(next)] /\ i - Len(next) \in 1 .. Len(r)
          BY <2>5, <3>2
        <4>2. r[i - Len(next)] = s[i - Len(next) + 1] /\ i - Len(next) + 1 \in 1 .. Len(s)
          BY <1>3, <2>2, <2>5, <4>1
        <4> QED
          BY <1>5, <4>1, <4>2
      <3> QED
        BY <2>5, <3>1, <3>2
    <2>8. s[Len(s)].op \notin InDir
      BY <1>5, <1>6
    <2>9. FallbackGoing(t, m)'
      BY <1>5, <2>6, <2>7, <2>8 DEF FallbackGoing
    <2>10. todo'[u] = t
      BY <1>1, <1>2, <2>1, <2>2, <2>4 DEF Continue
    <2> QED
      BY <2>9, <2>10
  <1>7. CASE Len(s) = 1
    <2>1. /\ c.key = m.to /\ c.value = m.value /\ c.op \in WriteOps
          /\ c.op \in InDir => c.key \in dirs
      BY <1>4, <1>5, <1>7
    <2>2. \A next \in Seq(Ops) : Continue(u, next) => todo'[u] = next
      BY <1>2, <1>7, ShortContinues
    <2>3. CASE \E d : /\ NextStage(c, d) /\ Continue(u, <<d>>)
                      /\ d.op \in InDir => c.key \in dirs'
      <3>1. PICK d : /\ NextStage(c, d) /\ Continue(u, <<d>>)
                     /\ d.op \in InDir => c.key \in dirs'
        BY <2>3
      <3>2. d \in Ops /\ d.key = m.to /\ d.value = m.value /\ d.op \in WriteOps
        BY <2>1, <3>1 DEF NextStage
      <3>a. <<d>> \in Seq(Ops)
        BY <3>2
      <3>3. PICK t : t = <<d>> /\ t \in Seq(Ops)
        BY <3>a
      <3>4. t # <<>> /\ Len(t) = 1 /\ t[1] = d /\ \A i \in 1 .. 1 : i = 1
        BY <3>2, <3>3
      <3>5. d.op \notin MoveOps
        BY <3>2 DEF WriteOps, MoveOps
      <3>6. FallbackGoing(t, m)'
        BY <2>1, <3>1, <3>2, <3>4, <3>5 DEF FallbackGoing
      <3>7. todo'[u] = t
        BY <2>2, <3>1, <3>3
      <3> QED
        BY <3>6, <3>7
    <2>4. CASE Continue(u, <<>>) /\ Stored(c.key)' = Stored(c.key) \cup {c.value}
      <3>a. <<>> \in Seq(Ops)
        OBVIOUS
      <3>1. PICK t : t = <<>> /\ Len(t) = 0 /\ 1 .. Len(t) = {}
        OBVIOUS
      <3>2. t \in Seq(Ops) /\ Len(t) = 0 /\ 1 .. Len(t) = {}
        BY <3>a, <3>1
      <3>3. m.value \in Stored(m.to)'
        BY <2>1, <2>4
      <3>4. MoveGoing(t, m)'
        BY <3>1, <3>2, <3>3 DEF MoveGoing, Moved, StackFits, Pending, Ready
      <3>5. todo'[u] = t
        BY <2>2, <2>4, <3>1, <3>2
      <3> QED
        BY <3>4, <3>5
    <2>5. CASE \E d : /\ NextStage(c, d) /\ d.op = "mkdir"
                      /\ Continue(u, <<Save(Metakeys, c.key), d>>) /\ c.key \in Keys
      <3>1. PICK d : /\ NextStage(c, d) /\ d.op = "mkdir"
                     /\ Continue(u, <<Save(Metakeys, c.key), d>>) /\ c.key \in Keys
        BY <2>5
      <3>2. PICK a \in Ops : a = Save(Metakeys, c.key)
        BY <3>1, OpsTyped DEF AllKeys, Values
      <3>3. d \in Ops /\ d.key = m.to /\ d.value = m.value /\ d.op \in WriteOps
        BY <2>1, <3>1 DEF NextStage
      <3>b. <<a, d>> \in Seq(Ops)
        BY <3>2, <3>3
      <3>4. PICK t : t = <<a, d>> /\ t \in Seq(Ops)
        BY <3>b
      <3>5. t # <<>> /\ Len(t) = 2 /\ t[1] = a /\ t[2] = d /\ \A i \in 1 .. 2 : i = 1 \/ i = 2
        BY <3>4
      <3>6. a.op \notin MoveOps /\ d.op \notin MoveOps /\ d.op \notin InDir
        <4>1. a.op = "save"
          BY <3>2 DEF Save, Op
        <4> QED
          BY <3>1, <4>1 DEF MoveOps, InDir
      <3>7. FallbackGoing(t, m)'
        BY <3>3, <3>5, <3>6 DEF FallbackGoing
      <3>8. todo'[u] = t
        BY <2>2, <3>1, <3>2, <3>4
      <3> QED
        BY <3>7, <3>8
    <2> QED
      BY <1>4, <2>1, <2>3, <2>4, <2>5, WriteOutcome
  <1> QED
    BY <1>3, <1>6, <1>7

\* A user that moves a value is the only one, and what has failed says how far it is.
LEMMA MoveStep ==
    ASSUME TypeOK, TmpInv, MoveInv, [Next]_vars
    PROVE  MoveInv'
  <1>t. /\ todo \in [Users -> Seq(Ops)] /\ moving \in Moves /\ setbacks \in 0 .. 2
        /\ DbTypeOK /\ WriteInv /\ \A u \in Users : u \notin active => todo[u] = <<>>
    BY DEF TypeOK, DbTypeOK, TmpInv, MoveInv
  <1> DEFINE Going(s, m, n) == /\ n = 0 => MoveGoing(s, m)
                               /\ n = 1 => MoveGoing(s, m) \/ FallbackGoing(s, m)
  <1>i. moving # NotMoving => \E u \in Users : active = {u} /\ Going(todo[u], moving, setbacks)
    BY DEF MoveInv
  <1>s. SetBack => /\ moving # NotMoving /\ setbacks = 0 => setbacks' = 1
                   /\ moving # NotMoving /\ setbacks > 0 => setbacks' = 2
    BY <1>t DEF SetBack
  <1>1. CASE UNCHANGED vars
    <2>1. UNCHANGED <<failing, dirs, files, todo, active, moving, setbacks>>
      BY <1>1 DEF vars, dbVars
    <2> QED
      BY <1>t, <1>i, <2>1 DEF MoveInv, MoveGoing, FallbackGoing, Moved, Stored, Exists, StackFits,
                              Pending, Ready, Values, MoveOps, WriteOps, InDir, ValuePath
  <1>2. ASSUME NEW u \in Users, NEW c \in Ops, NEW want, NEW found, Call(u, c, want, found),
               found # NotMoving =>
                  /\ active = {u}
                  /\ found \in [from : Keys, to : Keys, value : Entries]
                  /\ found.value \in Stored(found.from)
                  /\ c.op = "move" /\ c.key = found.from /\ c.to = found.to /\ c.value = found.value
        PROVE  MoveInv'
    <2>1. /\ u \in active /\ UNCHANGED <<failing, dirs, files, active>>
          /\ todo' = [todo EXCEPT ![u] = <<c>>] /\ moving' = found /\ setbacks' = 0
      BY <1>2 DEF Call
    <2>2. /\ todo'[u] = <<c>>
          /\ \A w \in Users : w # u => todo'[w] = todo[w]
      BY <1>t, <2>1
    <2>3. ASSUME found # NotMoving PROVE MoveGoing(todo[u], moving)'
      <3>1. c.op \in MoveOps /\ c.op # "move_rename"
        BY <1>2, <2>3 DEF MoveOps
      <3>2. StackFits(<<c>>, found) /\ ~Ready(<<c>>)
        BY <1>2, <2>3, <3>1, ShortStacks
      <3>3. StackFits(todo[u], moving)' /\ ~Ready(todo[u])'
        BY <2>1, <2>2, <3>2 DEF StackFits, Ready
      <3>4. (moving.value \in Stored(moving.from))'
        BY <1>2, <2>1, <2>3 DEF Stored, Exists
      <3> QED
        BY <3>3, <3>4 DEF MoveGoing, Moved
    <2>4. \A w \in Users : w \notin active' => todo'[w] = <<>>
      BY <1>t, <2>1, <2>2
    <2>5. moving' # NotMoving => active' = {u} /\ setbacks' = 0 /\ MoveGoing(todo[u], moving)'
      BY <1>2, <2>1, <2>3
    <2>6. NotMoving' = NotMoving
      BY DEF NotMoving
    <2> QED
      BY <2>4, <2>5, <2>6 DEF MoveInv
  <1>3. ASSUME NEW u \in Users, UserCall(u)
        PROVE  MoveInv'
    <2>1. CASE \E k \in Keys, v \in Entries : CallSave(u, k, v) \/ CallDelete(u, k, v)
      <3>1. PICK k \in Keys, v \in Entries : CallSave(u, k, v) \/ CallDelete(u, k, v)
        BY <2>1
      <3>2. Save(k, v) \in Ops /\ Delete(k, v) \in Ops
        BY CallsTyped
      <3>3. \/ Call(u, Save(k, v), [expected EXCEPT ![k] = @ \cup {v}], NotMoving)
            \/ Call(u, Delete(k, v), [expected EXCEPT ![k] = @ \ {v}], NotMoving)
        BY <3>1 DEF CallSave, CallDelete
      <3> QED
        BY <1>2, <3>2, <3>3
    <2>2. CASE \E src, dst \in Keys, v \in Entries : CallMove(u, src, dst, v)
      <3>1. PICK src \in Keys, dst \in Keys, v \in Entries : CallMove(u, src, dst, v)
        BY <2>2
      <3>2. PICK c \in Ops : c = MoveValue(src, dst, v)
        BY CallsTyped
      <3>3. c.op = "move" /\ c.key = src /\ c.to = dst /\ c.value = v
        BY <3>2 DEF MoveValue, Op
      <3>4. PICK found : found = IF active = {u} /\ v \in Stored(src)
                                 THEN [from |-> src, to |-> dst, value |-> v] ELSE NotMoving
        OBVIOUS
      <3>5. \E want : Call(u, c, want, found)
        BY <3>1, <3>2, <3>4 DEF CallMove
      <3>6. found # NotMoving =>
              /\ active = {u}
              /\ found \in [from : Keys, to : Keys, value : Entries]
              /\ found.value \in Stored(found.from)
              /\ c.op = "move" /\ c.key = found.from /\ c.to = found.to /\ c.value = found.value
        BY <3>3, <3>4
      <3> QED
        BY <1>2, <3>5, <3>6
    <2> QED
      BY <1>3, <2>1, <2>2 DEF UserCall
  <1>4. ASSUME NEW u \in Users, Step(u)
        PROVE  MoveInv'
    <2>1. /\ DbStep(u) /\ UNCHANGED <<failing, active, moving>>
          /\ IF Fails(u) THEN SetBack ELSE setbacks' = setbacks
      BY <1>4 DEF Step, DbStep
    <2>2. todo[u] # <<>> /\ OthersIdle(u)
      <3>1. QuietStep(u) \/ WriteStep(u)
        BY <2>1 DEF DbStep, QuietStep, WriteStep
      <3>2. WriteStep(u) => todo[u] # <<>>
        BY DEF WriteStep, OpenTmp, FillTmp, RenameTmp, UnlinkTmp, Doing
      <3>3. \E next : Continue(u, next)
        <4>1. WriteStep(u) => \E next : Continue(u, next)
          BY DEF WriteStep, OpenTmp, FillTmp, RenameTmp, UnlinkTmp
        <4> QED
          BY <1>t, <3>1, <4>1, QuietContinues
      <3> QED
        BY <1>t, <3>1, <3>2, <3>3, QuietContinues DEF Continue, OthersIdle
    <2>3. u \in active
      BY <1>t, <2>2
    <2>4. \A w \in Users : w \notin active' => todo'[w] = <<>>
      BY <1>t, <2>1, <2>2, <2>3 DEF OthersIdle
    <2>5. CASE moving = NotMoving
      BY <2>1, <2>4, <2>5 DEF MoveInv, NotMoving
    <2>6. CASE moving # NotMoving
      <3>1. active = {u} /\ Going(todo[u], moving, setbacks)
        BY <1>i, <2>3, <2>6
      <3>2. PICK m \in [from : Keys, to : Keys, value : Entries] : m = moving /\ m = moving'
        BY <1>t, <2>1, <2>6 DEF Moves
      <3>3. MoveGoing(todo[u], m) => MoveGoing(todo[u], m)' \/ (Fails(u) /\ FallbackGoing(todo[u], m)')
        BY <1>t, <2>1, MoveGoesOn
      <3>4. ~Fails(u) /\ FallbackGoing(todo[u], m) =>
               FallbackGoing(todo[u], m)' \/ MoveGoing(todo[u], m)'
        BY <1>t, <2>1, FallbackStores
      <3>5. /\ setbacks' = 0 => setbacks = 0 /\ ~Fails(u)
            /\ setbacks' = 1 => (setbacks = 0 /\ Fails(u)) \/ (setbacks = 1 /\ ~Fails(u))
        <4>1. CASE Fails(u)
          BY <1>t, <1>s, <2>1, <2>6, <4>1
        <4>2. CASE ~Fails(u)
          BY <1>t, <2>1, <4>2
        <4> QED
          BY <4>1, <4>2
      <3>6. /\ setbacks' = 0 => MoveGoing(todo[u], m)'
            /\ setbacks' = 1 => MoveGoing(todo[u], m)' \/ FallbackGoing(todo[u], m)'
        BY <3>1, <3>2, <3>3, <3>4, <3>5
      <3>7. /\ setbacks' = 0 => MoveGoing(todo[u], moving)'
            /\ setbacks' = 1 => MoveGoing(todo[u], moving)' \/ FallbackGoing(todo[u], moving)'
        BY <3>2, <3>6
      <3> QED
        BY <2>1, <2>4, <3>1, <3>7 DEF MoveInv
    <2> QED
      BY <2>5, <2>6
  <1>5. ASSUME NEW u \in Users, Kill(u)
        PROVE  MoveInv'
    <2>1. /\ todo[u] # <<>> /\ UNCHANGED <<failing, files, active, moving>>
          /\ todo' = [todo EXCEPT ![u] = <<>>] /\ SetBack
      BY <1>5 DEF Kill, Idle
    <2>2. u \in active /\ todo'[u] = <<>> /\ \A w \in Users : w # u => todo'[w] = todo[w]
      BY <1>t, <2>1
    <2>3. \A w \in Users : w \notin active' => todo'[w] = <<>>
      BY <1>t, <2>1, <2>2
    <2>4. CASE moving = NotMoving
      BY <2>1, <2>3, <2>4 DEF MoveInv, NotMoving
    <2>5. CASE moving # NotMoving
      <3>1. active = {u} /\ Going(todo[u], moving, setbacks)
        BY <1>i, <2>2, <2>5
      <3>2. PICK m : m = moving /\ m = moving'
        BY <2>1
      <3>3. setbacks' # 0 /\ (setbacks' = 1 => setbacks = 0)
        BY <1>t, <1>s, <2>1, <2>5
      <3>4. ASSUME setbacks = 0 PROVE MoveGoing(todo[u], m)'
        <4>1. Moved(m)
          BY <3>1, <3>2, <3>4 DEF MoveGoing
        <4>2. Moved(m)'
          BY <2>1, <4>1 DEF Moved, Stored, Exists, Values, ValuePath
        <4>3. PICK t : t = <<>> /\ Len(t) = 0 /\ 1 .. Len(t) = {}
          OBVIOUS
        <4>4. MoveGoing(t, m)'
          BY <4>2, <4>3 DEF MoveGoing, StackFits, Pending, Ready
        <4> QED
          BY <2>2, <4>3, <4>4
      <3>5. /\ setbacks' = 0 => MoveGoing(todo[u], moving)'
            /\ setbacks' = 1 => MoveGoing(todo[u], moving)' \/ FallbackGoing(todo[u], moving)'
        BY <3>2, <3>3, <3>4
      <3> QED
        BY <2>1, <2>3, <3>1, <3>5 DEF MoveInv
    <2> QED
      BY <2>4, <2>5
  <1> QED
    BY <1>1, <1>3, <1>4, <1>5 DEF Next, UserCall

\* move_value takes one setback, for a single user and whatever else happens: as long as
\* nothing has failed, a value found at its source is at the source or at the destination at
\* every instant, so that a kill then loses nothing; and after one failure, of any operation
\* and wherever it strikes, it is stored when the call returns, delete-then-save included.
THEOREM MoveKeeps == Spec => []MoveKeepsValue
  <1>1. Init => MoveInv
    BY DEF Init, DbInit, MoveInv
  <1>2. TypeOK /\ TmpInv /\ MoveInv /\ [Next]_vars => MoveInv'
    BY MoveStep
  <1>3. TypeOK /\ MoveInv => MoveKeepsValue
    <2> SUFFICES ASSUME TypeOK, MoveInv, moving # NotMoving
                 PROVE  /\ setbacks = 0 => Moved(moving)
                        /\ setbacks = 1 /\ AllIdle => Moved(moving)
      BY DEF MoveKeepsValue, StillStored, Moved
    <2>1. PICK u \in Users : /\ setbacks = 0 => MoveGoing(todo[u], moving)
                             /\ setbacks = 1 => \/ MoveGoing(todo[u], moving)
                                                \/ FallbackGoing(todo[u], moving)
      BY DEF MoveInv
    <2>2. AllIdle => ~FallbackGoing(todo[u], moving)
      BY DEF AllIdle, Idle, FallbackGoing
    <2> QED
      BY <2>1, <2>2 DEF MoveGoing
  <1> QED
    BY <1>1, <1>2, <1>3, DatabaseSound, PTL DEF Spec
-----------------------------------------------------------------------------
(* A single user sees a set of values per key.                                    *)

Listed == Stored(Metakeys)

\* What an operation needs to find, for a single user whose operations succeed: a key is
\* listed before its directory is made, and unlisted after it is removed.
WriteFits(c) ==
    /\ c.op \in WriteOps /\ c.key \in Keys /\ c.value \in Values
    /\ c.op = "mkdir" => c.key \in Listed
    /\ c.op \in InDir => c.key \in dirs

ListingFits(c, k) ==
    /\ c.op \in WriteOps /\ c.key = Metakeys /\ c.value = k /\ k \in Keys
    /\ c.op \in InDir => Metakeys \in dirs

MoveFits(c) ==
    /\ c.op \in MoveOps /\ c.key \in Keys /\ c.to \in Keys /\ c.value \in Values
    /\ c.op # "move" => c.key # c.to
    /\ c.op = "move_mkdir" => c.to \in Listed
    /\ c.op = "move_rename" => c.to \in dirs

\* The last operation of a stack, when it is the only one.
OneFits(c) ==
    \/ WriteFits(c)
    \/ MoveFits(c)
    \/ c.op = "delete" /\ c.key \in Keys
    \/ c.op = "delete" /\ c.key = Metakeys /\ c.value \in Keys /\ c.value \notin dirs
    \/ c.op = "rmdir" /\ c.key \in AllKeys

\* An operation and what it was put in front of.
TwoFit(c, d) ==
    \/ ListingFits(c, d.key) /\ d.op = "mkdir"
    \/ ListingFits(c, d.to) /\ d.op = "move_mkdir" /\ d.key \in Keys /\ d.key # d.to
    \/ /\ c.op = "delete" /\ c.key \in Keys /\ c.value \notin Stored(c.key)
       /\ d.op = "save" /\ d.key \in Keys /\ d.value \in Values

StackFitsTrait(s) ==
    \/ s = <<>>
    \/ Len(s) = 1 /\ OneFits(s[1])
    \/ Len(s) = 2 /\ TwoFit(s[1], s[2])

\* Kept wherever users are killed.
ListingKept ==
    /\ \A k \in Keys : k \in dirs => k \in Listed
    /\ Listed \subseteq Keys
    /\ \A f \in files : f.key \in dirs
    /\ kills = 0 => abandoned = {}

AtRest(k) == (k \in dirs <=> k \in Listed) /\ (k \in dirs <=> Stored(k) # {})

MetaAtRest == Metakeys \in dirs => Listed # {}

\* The values of `k` once the last operation of a stack is done.
Gains(c, k) == (c.op \in WriteOps /\ c.key = k) \/ (c.op \in MoveOps /\ c.to = k)
Loses(c, k) == c.op \in MoveOps \cup {"delete"} /\ c.key = k /\ (c.op = "delete" \/ c.to # k)

Owed(c, k) ==
    {v \in Stored(k) : Loses(c, k) => v # c.value} \cup {v \in {c.value} : Gains(c, k)}

\* The keys whose directory or listing it will still change.
Touches(c, k) ==
    \/ c.op \in WriteOps \cup {"rmdir"} /\ c.key = k
    \/ c.op \in MoveOps /\ c.to = k
    \/ c.op = "delete" /\ c.key = Metakeys /\ c.value = k

LastFits(c) ==
    /\ \A k \in Keys : expected[k] = Owed(c, k)
    /\ \A k \in Keys : ~Touches(c, k) => AtRest(k)
    /\ c.op = "delete" /\ c.key \in Keys => MetaAtRest
    /\ c.op = "delete" /\ c.key = Metakeys => c.value \in Listed
    /\ c.op = "rmdir" /\ c.key \in Keys => c.key \in dirs

NothingOwed ==
    /\ \A k \in Keys : expected[k] = Stored(k) /\ AtRest(k)
    /\ MetaAtRest

TraitGoing(s) ==
    /\ ListingKept
    /\ StackFitsTrait(s)
    /\ kills = 0 => IF s = <<>> THEN NothingOwed ELSE LastFits(s[Len(s)])

TraitInv == \A u \in Users : ~failing /\ active = {u} => TraitGoing(todo[u])

\* A single user whose operations succeed makes a step of its call.
Alone(u) ==
    /\ DbTypeOK /\ TmpInv /\ ~failing /\ active = {u} /\ TraitGoing(todo[u])
    /\ \A w \in Users : w # u => todo[w] = <<>>

AloneStep(u) ==
    Alone(u) /\ DbStep(u) /\ UNCHANGED <<kills, expected, abandoned>>

\* A user that is alone leaves no temporary file but the one it writes.
LEMMA OwnFilesOnly ==
    ASSUME TmpInv, NEW u \in Users, \A w \in Users : w # u => todo[w] = <<>>,
           ~Writing(u),
           abandoned = {}, NEW k, \E f \in files : f.key = k
    PROVE  Stored(k) # {}
  <1>1. PICK f \in files : f.key = k
    OBVIOUS
  <1>2. \A w \in Users : ~Writing(w)
    BY DEF Writing
  <1>3. f.name \in OwnNames
    BY <1>2 DEF TmpInv, TmpsOwned, WriteInv, FilesSound, FileRecords
  <1>4. PICK v \in Values : f.name = <<v>>
    BY <1>3 DEF OwnNames
  <1>5. v \in Stored(k)
    BY <1>1, <1>4 DEF Stored, Exists, ValuePath
  <1> QED
    BY <1>5

\* Files are stored in directories that exist.
LEMMA StoredInDirs ==
    ASSUME \A f \in files : f.key \in dirs, NEW k, k \notin dirs
    PROVE  Stored(k) = {}
  BY DEF Stored, Exists

\* A stack of one operation, after a step.
LEMMA OneGoing ==
    ASSUME NEW u, NEW d \in Ops, todo'[u] = <<d>>, ListingKept', OneFits(d)',
           kills = 0 => LastFits(d)',
           kills' = kills
    PROVE  TraitGoing(todo[u])'
  <1>1. PICK t : t = <<d>>
    OBVIOUS
  <1>2. t # <<>> /\ Len(t) = 1 /\ t[1] = d
    BY <1>1
  <1>3. StackFitsTrait(t)'
    BY <1>2 DEF StackFitsTrait
  <1>4. kills = 0 => LastFits(t[Len(t)])'
    BY <1>2
  <1>5. TraitGoing(t)'
    BY <1>2, <1>3, <1>4 DEF TraitGoing
  <1> QED
    BY <1>1, <1>5

\* A stack of two operations, after a step.
LEMMA TwoGoing ==
    ASSUME NEW u, NEW c \in Ops, NEW d \in Ops, todo'[u] = <<c, d>>, ListingKept', TwoFit(c, d)',
           kills = 0 => LastFits(d)', kills' = kills
    PROVE  TraitGoing(todo[u])'
  <1>1. PICK t : t = <<c, d>>
    OBVIOUS
  <1>2. t # <<>> /\ Len(t) = 2 /\ t[1] = c /\ t[2] = d
    BY <1>1
  <1>3. StackFitsTrait(t)'
    BY <1>2 DEF StackFitsTrait
  <1>4. kills = 0 => LastFits(t[Len(t)])'
    BY <1>2
  <1>5. TraitGoing(t)'
    BY <1>2, <1>3, <1>4 DEF TraitGoing
  <1> QED
    BY <1>1, <1>5

\* A call that is done, after a step.
LEMMA NoneGoing ==
    ASSUME NEW u, todo'[u] = <<>>, ListingKept', kills = 0 => NothingOwed', kills' = kills
    PROVE  TraitGoing(todo[u])'
  <1>1. PICK t : t = <<>>
    OBVIOUS
  <1>2. StackFitsTrait(t)'
    BY <1>1 DEF StackFitsTrait
  <1>3. TraitGoing(t)'
    BY <1>1, <1>2 DEF TraitGoing
  <1> QED
    BY <1>1, <1>3

\* The last operation owes the same when neither the values nor the keys at rest change.
LEMMA OwesTheSame ==
    ASSUME NEW c, NEW d, LastFits(c), expected' = expected,
           \A k : Gains(c, k) <=> Gains(d, k), \A k : Loses(c, k) <=> Loses(d, k),
           c.value = d.value,
           \A k \in Keys : Stored(k)' = Stored(k),
           \A k \in Keys : ~Touches(d, k) =>
              ~Touches(c, k) /\ (k \in dirs' <=> k \in dirs) /\ (k \in Listed' <=> k \in Listed),
           d.op \in WriteOps \cup MoveOps
    PROVE  LastFits(d)'
  <1>1. \A k \in Keys : Owed(d, k)' = Owed(c, k)
    BY DEF Owed, Gains, Loses, WriteOps, MoveOps
  <1>2. \A k \in Keys : (expected[k] = Owed(d, k))'
    BY <1>1 DEF LastFits
  <1>3. \A k \in Keys : ~Touches(d, k) => AtRest(k)'
    BY DEF LastFits, AtRest
  <1>4. \A k \in Keys : ~Touches(d, k)' => AtRest(k)'
    BY <1>3 DEF Touches, WriteOps, MoveOps
  <1>5. d.op # "delete" /\ d.op # "rmdir"
    BY DEF WriteOps, MoveOps
  <1> QED
    BY <1>2, <1>4, <1>5 DEF LastFits

\* A step of a save of a key of the callers.
LEMMA SaveGoesOn ==
    ASSUME NEW u \in Users, AloneStep(u), Len(todo[u]) = 1, WriteFits(todo[u][1])
    PROVE  TraitGoing(todo[u])'
  <1>1. /\ DbTypeOK /\ WriteInv /\ ~failing /\ ListingKept /\ DbStep(u)
        /\ kills' = kills /\ expected' = expected /\ abandoned' = abandoned
        /\ todo[u] # <<>> /\ todo[u] \in Seq(Ops)
        /\ kills = 0 => LastFits(todo[u][1])
    <2>1. TraitGoing(todo[u]) /\ todo[u] \in Seq(Ops)
      BY ShortContinues DEF AloneStep, Alone, TmpInv
    <2> QED
      BY <2>1 DEF AloneStep, Alone, TmpInv, TraitGoing
  <1>2. PICK c \in Ops : c = Current(u) /\ c = todo[u][1]
    BY <1>1, RunningTyped
  <1>3. WriteFits(c) /\ (kills = 0 => LastFits(c))
    BY <1>1, <1>2
  <1>4. /\ c.key \in Keys /\ c.key # Metakeys /\ c.value \in Values /\ c.op \in WriteOps
        /\ c.op \in InDir => c.key \in dirs
        /\ c.op = "mkdir" => c.key \in Listed
    BY <1>3, MetakeysIsNoKey DEF WriteFits
  <1>5. (\A f \in files : f.key \in dirs)'
    BY <1>1, FilesInDirs DEF ListingKept
  <1>6. \A next \in Seq(Ops) : Continue(u, next) => todo'[u] = next
    BY <1>1, ShortContinues
  <1>7. CASE \E d : /\ NextStage(c, d) /\ Continue(u, <<d>>)
                    /\ d.op \in InDir => c.key \in dirs'
                    /\ d.op = "mkdir" => c.key = Metakeys \/ c.key \in dirs
                    /\ dirs' = dirs \/ (c.op = "mkdir" /\ dirs' = dirs \cup {c.key})
                    /\ \A k : Stored(k)' = Stored(k)
    <2>1. PICK d : /\ NextStage(c, d) /\ Continue(u, <<d>>)
                   /\ d.op \in InDir => c.key \in dirs'
                   /\ d.op = "mkdir" => c.key = Metakeys \/ c.key \in dirs
                   /\ dirs' = dirs \/ (c.op = "mkdir" /\ dirs' = dirs \cup {c.key})
                   /\ \A k : Stored(k)' = Stored(k)
      BY <1>7
    <2>2. d \in Ops /\ d.key = c.key /\ d.value = c.value /\ d.op \in WriteOps
      BY <2>1 DEF NextStage
    <2>a. <<d>> \in Seq(Ops)
      BY <2>2
    <2>3. todo'[u] = <<d>>
      BY <1>6, <2>1, <2>a
    <2>4. Listed' = Listed
      BY <2>1 DEF Listed
    <2>5. ListingKept'
      BY <1>1, <1>4, <1>5, <2>1, <2>4 DEF ListingKept
    <2>6. WriteFits(d)'
      <3>1. d.op = "mkdir" => c.key \in Listed
        BY <1>1, <1>4, <2>1 DEF ListingKept
      <3> QED
        BY <1>4, <2>1, <2>2, <2>4, <3>1 DEF WriteFits, Values
    <2>7. OneFits(d)'
      BY <2>6 DEF OneFits
    <2>8. kills = 0 => LastFits(d)'
      <3>1. \A k : (Gains(c, k) <=> Gains(d, k)) /\ (Loses(c, k) <=> Loses(d, k))
        BY <1>4, <2>2 DEF Gains, Loses, WriteOps, MoveOps
      <3>2. \A k \in Keys : ~Touches(d, k) =>
               ~Touches(c, k) /\ (k \in dirs' <=> k \in dirs) /\ (k \in Listed' <=> k \in Listed)
        BY <1>4, <2>1, <2>2, <2>4 DEF Touches, WriteOps, MoveOps
      <3> QED
        BY <1>1, <1>3, <2>1, <2>2, <3>1, <3>2, OwesTheSame
    <2> QED
      BY <1>1, <2>2, <2>3, <2>5, <2>7, <2>8, OneGoing
  <1>8. CASE /\ Continue(u, <<>>) /\ dirs' = dirs /\ c.key \in dirs
             /\ Stored(c.key)' = Stored(c.key) \cup {c.value}
             /\ \A k : k # c.key => Stored(k)' = Stored(k)
    <2>a. <<>> \in Seq(Ops)
      OBVIOUS
    <2>1. todo'[u] = <<>>
      BY <1>6, <1>8, <2>a
    <2>2. Listed' = Listed
      BY <1>4, <1>8 DEF Listed
    <2>3. ListingKept'
      BY <1>1, <1>5, <1>8, <2>2 DEF ListingKept
    <2>4. c.key \in Listed
      BY <1>1, <1>4, <1>8 DEF ListingKept
    <2>5. kills = 0 => NothingOwed'
      <3> SUFFICES ASSUME kills = 0 PROVE NothingOwed'
        OBVIOUS
      <3>1. ASSUME NEW k \in Keys PROVE (expected[k] = Stored(k))'
        <4>1. expected[k] = Owed(c, k)
          BY <1>3 DEF LastFits
        <4>2. Owed(c, k) = IF k = c.key THEN Stored(k) \cup {c.value} ELSE Stored(k)
          BY <1>4 DEF Owed, Gains, Loses, WriteOps, MoveOps
        <4> QED
          BY <1>1, <1>8, <4>1, <4>2
      <3>2. ASSUME NEW k \in Keys PROVE AtRest(k)'
        <4>1. CASE k = c.key
          BY <1>8, <2>2, <2>4, <4>1 DEF AtRest
        <4>2. CASE k # c.key
          <5>1. AtRest(k)
            BY <1>3, <1>4, <4>2 DEF LastFits, Touches, WriteOps, MoveOps
          <5> QED
            BY <1>8, <2>2, <4>2, <5>1 DEF AtRest
        <4> QED
          BY <4>1, <4>2
      <3>3. MetaAtRest'
        BY <2>2, <2>4 DEF MetaAtRest
      <3> QED
        BY <3>1, <3>2, <3>3 DEF NothingOwed
    <2> QED
      BY <1>1, <2>1, <2>3, <2>5, NoneGoing
  <1>9. CASE \E d : /\ NextStage(c, d) /\ d.op = "mkdir" /\ Continue(u, <<Save(Metakeys, c.key), d>>)
                    /\ c.op = "save" /\ c.key \in Keys /\ dirs' = dirs
                    /\ \A k : Stored(k)' = Stored(k)
    <2>1. PICK d : /\ NextStage(c, d) /\ d.op = "mkdir" /\ Continue(u, <<Save(Metakeys, c.key), d>>)
                   /\ c.op = "save" /\ c.key \in Keys /\ dirs' = dirs
                   /\ \A k : Stored(k)' = Stored(k)
      BY <1>9
    <2>2. d \in Ops /\ d.key = c.key /\ d.value = c.value /\ d.op \in WriteOps
      BY <2>1 DEF NextStage
    <2>3. PICK e \in Ops : e = Save(Metakeys, c.key)
      BY <1>4, OpsTyped DEF Values
    <2>a. <<e, d>> \in Seq(Ops)
      BY <2>2
    <2>4. todo'[u] = <<e, d>>
      BY <1>6, <2>1, <2>3, <2>a
    <2>5. Listed' = Listed
      BY <2>1 DEF Listed
    <2>6. ListingKept'
      BY <1>1, <1>5, <2>1, <2>5 DEF ListingKept
    <2>7. TwoFit(e, d)'
      <3>1. e.op = "save" /\ e.key = Metakeys /\ e.value = c.key
        BY <2>3 DEF Save, Op
      <3> QED
        BY <1>4, <2>1, <2>2, <3>1 DEF TwoFit, ListingFits, WriteOps, InDir
    <2>8. kills = 0 => LastFits(d)'
      <3>1. \A k : (Gains(c, k) <=> Gains(d, k)) /\ (Loses(c, k) <=> Loses(d, k))
        BY <1>4, <2>2 DEF Gains, Loses, WriteOps, MoveOps
      <3>2. \A k \in Keys : ~Touches(d, k) =>
               ~Touches(c, k) /\ (k \in dirs' <=> k \in dirs) /\ (k \in Listed' <=> k \in Listed)
        BY <1>4, <2>1, <2>2, <2>5 DEF Touches, WriteOps, MoveOps
      <3> QED
        BY <1>1, <1>3, <2>1, <2>2, <3>1, <3>2, OwesTheSame
    <2> QED
      BY <1>1, <2>2, <2>3, <2>4, <2>6, <2>7, <2>8, TwoGoing
  <1> QED
    BY <1>1, <1>2, <1>4, <1>7, <1>8, <1>9, WriteOutcome

\* A step of the listing of a key.
LEMMA ListingGoesOn ==
    ASSUME NEW u \in Users, AloneStep(u), Len(todo[u]) = 2, NEW k \in Keys,
           ListingFits(todo[u][1], k),
           \/ todo[u][2].op = "mkdir" /\ todo[u][2].key = k
           \/ /\ todo[u][2].op = "move_mkdir" /\ todo[u][2].to = k
              /\ todo[u][2].key \in Keys /\ todo[u][2].key # k
    PROVE  TraitGoing(todo[u])'
  <1>1. /\ DbTypeOK /\ WriteInv /\ ~failing /\ ListingKept /\ DbStep(u)
        /\ kills' = kills /\ expected' = expected /\ abandoned' = abandoned
        /\ todo[u] # <<>> /\ todo[u] \in Seq(Ops)
        /\ kills = 0 => LastFits(todo[u][2])
    <2>1. TraitGoing(todo[u]) /\ todo[u] \in Seq(Ops)
      BY ShortContinues DEF AloneStep, Alone, TmpInv
    <2> QED
      BY <2>1 DEF AloneStep, Alone, TmpInv, TraitGoing
  <1>2. PICK c \in Ops : c = Current(u) /\ c = todo[u][1]
    BY <1>1, RunningTyped
  <1>3. PICK d \in Ops : d = todo[u][2]
    BY <1>1
  <1>4. /\ c.op \in WriteOps /\ c.key = Metakeys /\ c.value = k
        /\ c.op \in InDir => c.key \in dirs
    BY <1>2 DEF ListingFits
  <1>5. /\ kills = 0 => LastFits(d)
        /\ \/ d.op = "mkdir" /\ d.key = k
           \/ d.op = "move_mkdir" /\ d.to = k /\ d.key \in Keys /\ d.key # k
        /\ d.value \in Values /\ d.op \in WriteOps \cup MoveOps
        /\ Touches(d, k)
    BY <1>1, <1>3 DEF Ops, WriteOps, MoveOps, Touches
  <1>6. (\A f \in files : f.key \in dirs)'
    BY <1>1, FilesInDirs DEF ListingKept
  <1>7. \A j \in Keys : j # Metakeys
    BY MetakeysIsNoKey
  <1>8. CASE \E e : /\ NextStage(c, e) /\ Continue(u, <<e>>)
                    /\ e.op \in InDir => c.key \in dirs'
                    /\ e.op = "mkdir" => c.key = Metakeys \/ c.key \in dirs
                    /\ dirs' = dirs \/ (c.op = "mkdir" /\ dirs' = dirs \cup {c.key})
                    /\ \A j : Stored(j)' = Stored(j)
    <2>1. PICK e : /\ NextStage(c, e) /\ Continue(u, <<e>>)
                   /\ e.op \in InDir => c.key \in dirs'
                   /\ dirs' = dirs \/ (c.op = "mkdir" /\ dirs' = dirs \cup {c.key})
                   /\ \A j : Stored(j)' = Stored(j)
      BY <1>8
    <2>2. e \in Ops /\ e.key = Metakeys /\ e.value = k /\ e.op \in WriteOps
      BY <1>4, <2>1 DEF NextStage
    <2>3. todo'[u] = <<e, d>>
      BY <1>1, <1>3, <2>1, <2>2, ShortContinues
    <2>4. Listed' = Listed /\ \A j \in Keys : j \in dirs' <=> j \in dirs
      BY <1>4, <1>7, <2>1 DEF Listed
    <2>5. ListingKept'
      BY <1>1, <1>6, <2>4 DEF ListingKept
    <2>6. ListingFits(e, k)'
      BY <1>4, <2>1, <2>2 DEF ListingFits
    <2>7. TwoFit(e, d)'
      BY <1>5, <2>6 DEF TwoFit
    <2>8. kills = 0 => LastFits(d)'
      BY <1>1, <1>5, <2>1, <2>4, OwesTheSame
    <2> QED
      BY <1>1, <2>2, <2>3, <2>5, <2>7, <2>8, TwoGoing
  <1>9. CASE /\ Continue(u, <<>>) /\ dirs' = dirs /\ c.key \in dirs
             /\ Stored(c.key)' = Stored(c.key) \cup {c.value}
             /\ \A j : j # c.key => Stored(j)' = Stored(j)
    <2>1. todo'[u] = <<d>>
      BY <1>1, <1>3, <1>9, ShortContinues
    <2>2. Listed' = Listed \cup {k}
      BY <1>4, <1>9 DEF Listed
    <2>3. ListingKept'
      BY <1>1, <1>6, <1>9, <2>2 DEF ListingKept
    <2>4. OneFits(d)'
      <3>1. CASE d.op = "mkdir" /\ d.key = k
        <4>1. WriteFits(d)'
          BY <1>5, <2>2, <3>1 DEF WriteFits, WriteOps, InDir, Values
        <4> QED
          BY <4>1 DEF OneFits
      <3>2. CASE d.op = "move_mkdir" /\ d.to = k /\ d.key \in Keys /\ d.key # k
        <4>1. MoveFits(d)'
          BY <1>5, <2>2, <3>2 DEF MoveFits, MoveOps, Values
        <4> QED
          BY <4>1 DEF OneFits
      <3> QED
        BY <1>5, <3>1, <3>2
    <2>5. kills = 0 => LastFits(d)'
      <3>1. \A j \in Keys : Stored(j)' = Stored(j)
        BY <1>4, <1>7, <1>9
      <3>2. \A j \in Keys : ~Touches(d, j) =>
               (j \in dirs' <=> j \in dirs) /\ (j \in Listed' <=> j \in Listed)
        BY <1>5, <1>9, <2>2
      <3> QED
        BY <1>1, <1>5, <3>1, <3>2, OwesTheSame
    <2> QED
      BY <1>1, <2>1, <2>3, <2>4, <2>5, OneGoing
  <1>10. c.key \notin Keys
    BY <1>4, MetakeysIsNoKey
  <1> QED
    BY <1>1, <1>2, <1>4, <1>8, <1>9, <1>10, WriteOutcome

\* What a user that is alone goes on from.
LEMMA AloneFrom ==
    ASSUME NEW u \in Users, AloneStep(u)
    PROVE  /\ DbTypeOK /\ WriteInv /\ TmpInv /\ ~failing /\ ListingKept /\ StackFitsTrait(todo[u]) /\ DbStep(u)
           /\ kills' = kills /\ expected' = expected /\ abandoned' = abandoned
           /\ todo[u] # <<>> /\ todo[u] \in Seq(Ops)
           /\ kills = 0 => LastFits(todo[u][Len(todo[u])])
           /\ (\A f \in files : f.key \in dirs)'
           /\ Len(todo[u]) \in {1, 2}
           /\ \E c \in Ops : c = Current(u) /\ c = todo[u][1]
  <1>1. DbTypeOK /\ TraitGoing(todo[u]) /\ DbStep(u) /\ TmpInv /\ WriteInv
    BY DEF AloneStep, Alone, TmpInv
  <1>2. todo[u] # <<>>
    <2>1. QuietStep(u) \/ WriteStep(u)
      BY <1>1 DEF DbStep, QuietStep, WriteStep
    <2>2. WriteStep(u) => todo[u] # <<>>
      BY DEF WriteStep, OpenTmp, FillTmp, RenameTmp, UnlinkTmp, Doing
    <2> QED
      BY <1>1, <2>1, <2>2, QuietContinues
  <1>3. todo[u] \in Seq(Ops)
    BY <1>1, ShortContinues
  <1>4. (\A f \in files : f.key \in dirs)'
    BY <1>1, FilesInDirs DEF TraitGoing, ListingKept
  <1>5. \E c \in Ops : c = Current(u) /\ c = todo[u][1]
    BY <1>1, <1>2, RunningTyped
  <1>6. StackFitsTrait(todo[u]) /\ Len(todo[u]) \in {1, 2}
    BY <1>1, <1>2 DEF TraitGoing, StackFitsTrait
  <1> QED
    BY <1>1, <1>2, <1>3, <1>4, <1>5, <1>6 DEF AloneStep, Alone, TraitGoing

\* A delete of a value of the callers.
LEMMA DeleteGoesOn ==
    ASSUME NEW u \in Users, AloneStep(u), Len(todo[u]) = 1,
           todo[u][1].op = "delete", todo[u][1].key \in Keys
    PROVE  TraitGoing(todo[u])'
  <1>1. PICK c \in Ops : c = Current(u) /\ c = todo[u][1]
    BY AloneFrom
  <1>2. /\ ~failing /\ ListingKept /\ kills' = kills /\ expected' = expected
        /\ abandoned' = abandoned /\ (\A f \in files : f.key \in dirs)'
        /\ (kills = 0 => LastFits(c)) /\ DbTypeOK /\ WriteInv /\ DbStep(u)
    BY <1>1, AloneFrom
  <1>3. c.op = "delete" /\ c.key \in Keys /\ c.key # Metakeys /\ c.key \in AllKeys
    BY <1>1, MetakeysIsNoKey DEF AllKeys
  <1>4. \A next \in Seq(Ops) : Continue(u, next) => todo'[u] = next
    BY <1>2, ShortContinues
  <1>5. ASSUME NEW k \in Keys, kills = 0
        PROVE  AtRest(k) /\ expected[k] = IF k = c.key THEN Stored(k) \ {c.value} ELSE Stored(k)
    <2>1. ~Touches(c, k)
      BY <1>3 DEF Touches, WriteOps, MoveOps
    <2>2. Owed(c, k) = IF k = c.key THEN Stored(k) \ {c.value} ELSE Stored(k)
      BY <1>3 DEF Owed, Gains, Loses, WriteOps, MoveOps
    <2> QED
      BY <1>2, <1>5, <2>1, <2>2 DEF LastFits
  <1>6. CASE /\ dirs' = dirs /\ c.value \notin Stored(c.key) /\ Continue(u, <<>>)
             /\ \A k : Stored(k)' = Stored(k)
    <2>1. <<>> \in Seq(Ops)
      OBVIOUS
    <2>2. todo'[u] = <<>>
      BY <1>4, <1>6, <2>1
    <2>3. Listed' = Listed
      BY <1>6 DEF Listed
    <2>4. ListingKept'
      BY <1>2, <1>6, <2>3 DEF ListingKept
    <2>5. kills = 0 => NothingOwed'
      <3> SUFFICES ASSUME kills = 0 PROVE NothingOwed'
        OBVIOUS
      <3>1. ASSUME NEW k \in Keys PROVE (expected[k] = Stored(k))'
        BY <1>2, <1>5, <1>6
      <3>2. ASSUME NEW k \in Keys PROVE AtRest(k)'
        BY <1>5, <1>6, <2>3 DEF AtRest
      <3>3. MetaAtRest'
        BY <1>2, <1>3, <1>6, <2>3 DEF LastFits, MetaAtRest
      <3> QED
        BY <3>1, <3>2, <3>3 DEF NothingOwed
    <2> QED
      BY <1>2, <2>2, <2>4, <2>5, NoneGoing
  <1>7. CASE /\ dirs' = dirs /\ c.value \in Stored(c.key)
             /\ \E d \in Ops : d.op = "rmdir" /\ d.key = c.key /\ Continue(u, <<d>>)
             /\ Stored(c.key)' = Stored(c.key) \ {c.value}
             /\ \A k : k # c.key => Stored(k)' = Stored(k)
    <2>1. PICK d \in Ops : d.op = "rmdir" /\ d.key = c.key /\ Continue(u, <<d>>)
      BY <1>7
    <2>a. <<d>> \in Seq(Ops)
      BY <2>1
    <2>2. todo'[u] = <<d>>
      BY <1>4, <2>1, <2>a
    <2>3. Listed' = Listed
      BY <1>3, <1>7 DEF Listed
    <2>4. ListingKept'
      BY <1>2, <1>7, <2>3 DEF ListingKept
    <2>5. OneFits(d)'
      BY <1>3, <2>1 DEF OneFits, AllKeys
    <2>6. kills = 0 => LastFits(d)'
      <3> SUFFICES ASSUME kills = 0 PROVE LastFits(d)'
        OBVIOUS
      <3>1. ASSUME NEW k \in Keys PROVE (expected[k] = Owed(d, k))'
        <4>1. Owed(d, k)' = Stored(k)'
          BY <2>1 DEF Owed, Gains, Loses, WriteOps, MoveOps
        <4> QED
          BY <1>2, <1>5, <1>7, <4>1
      <3>2. ASSUME NEW k \in Keys, ~Touches(d, k) PROVE AtRest(k)'
        <4>1. k # c.key
          BY <2>1, <3>2 DEF Touches
        <4> QED
          BY <1>5, <1>7, <2>3, <4>1 DEF AtRest
      <3>3. c.key \in dirs'
        BY <1>2, <1>7, StoredInDirs DEF ListingKept
      <3>4. d.op # "delete"
        BY <2>1
      <3>5. \A k \in Keys : ~Touches(d, k)' => AtRest(k)'
        BY <3>2 DEF Touches, WriteOps, MoveOps
      <3> QED
        BY <2>1, <3>1, <3>3, <3>4, <3>5 DEF LastFits
    <2> QED
      BY <1>2, <2>2, <2>4, <2>5, <2>6, OneGoing
  <1> QED
    BY <1>1, <1>2, <1>3, <1>6, <1>7, RemoveOutcome

\* A key without a directory leaves the metakeys.
LEMMA UnlistGoesOn ==
    ASSUME NEW u \in Users, AloneStep(u), Len(todo[u]) = 1,
           todo[u][1].op = "delete", todo[u][1].key = Metakeys,
           todo[u][1].value \in Keys, todo[u][1].value \notin dirs
    PROVE  TraitGoing(todo[u])'
  <1>1. PICK c \in Ops : c = Current(u) /\ c = todo[u][1]
    BY AloneFrom
  <1>2. /\ ~failing /\ ListingKept /\ kills' = kills /\ expected' = expected
        /\ abandoned' = abandoned /\ (\A f \in files : f.key \in dirs)'
        /\ (kills = 0 => LastFits(c)) /\ DbTypeOK /\ WriteInv /\ DbStep(u)
    BY <1>1, AloneFrom
  <1>3. /\ c.op = "delete" /\ c.key = Metakeys /\ c.value \in Keys /\ c.value \notin dirs
        /\ \A k \in Keys : k # Metakeys
    BY <1>1, MetakeysIsNoKey
  <1>4. \A next \in Seq(Ops) : Continue(u, next) => todo'[u] = next
    BY <1>2, ShortContinues
  <1>5. ASSUME NEW k \in Keys, kills = 0
        PROVE  (k # c.value => AtRest(k)) /\ expected[k] = Stored(k)
    <2>1. k # c.value => ~Touches(c, k)
      BY <1>3 DEF Touches, WriteOps, MoveOps
    <2>2. Owed(c, k) = Stored(k)
      BY <1>3 DEF Owed, Gains, Loses, WriteOps, MoveOps
    <2> QED
      BY <1>2, <1>5, <2>1, <2>2 DEF LastFits
  <1>6. CASE /\ dirs' = dirs /\ c.value \notin Stored(c.key) /\ Continue(u, <<>>)
             /\ \A k : Stored(k)' = Stored(k)
    <2>1. <<>> \in Seq(Ops)
      OBVIOUS
    <2>2. todo'[u] = <<>>
      BY <1>4, <1>6, <2>1
    <2>3. Listed' = Listed
      BY <1>6 DEF Listed
    <2>4. ListingKept'
      BY <1>2, <1>6, <2>3 DEF ListingKept
    <2>5. kills # 0
      BY <1>2, <1>3, <1>6 DEF LastFits, Listed
    <2> QED
      BY <1>2, <2>2, <2>4, <2>5, NoneGoing
  <1>7. CASE /\ dirs' = dirs /\ c.value \in Stored(c.key)
             /\ \E d \in Ops : d.op = "rmdir" /\ d.key = c.key /\ Continue(u, <<d>>)
             /\ Stored(c.key)' = Stored(c.key) \ {c.value}
             /\ \A k : k # c.key => Stored(k)' = Stored(k)
    <2>1. PICK d \in Ops : d.op = "rmdir" /\ d.key = c.key /\ Continue(u, <<d>>)
      BY <1>7
    <2>a. <<d>> \in Seq(Ops)
      BY <2>1
    <2>2. todo'[u] = <<d>>
      BY <1>4, <2>1, <2>a
    <2>3. Listed' = Listed \ {c.value} /\ \A k \in Keys : Stored(k)' = Stored(k)
      BY <1>3, <1>7 DEF Listed
    <2>4. ListingKept'
      BY <1>2, <1>3, <1>7, <2>3 DEF ListingKept
    <2>5. OneFits(d)'
      BY <1>3, <2>1 DEF OneFits, AllKeys
    <2>6. kills = 0 => LastFits(d)'
      <3> SUFFICES ASSUME kills = 0 PROVE LastFits(d)'
        OBVIOUS
      <3>1. ASSUME NEW k \in Keys PROVE (expected[k] = Owed(d, k))'
        <4>1. Owed(d, k)' = Stored(k)'
          BY <2>1 DEF Owed, Gains, Loses, WriteOps, MoveOps
        <4> QED
          BY <1>2, <1>5, <2>3, <4>1
      <3>2. ASSUME NEW k \in Keys PROVE AtRest(k)'
        <4>1. CASE k = c.value
          <5>1. Stored(k) = {}
            BY <1>2, <1>3, <4>1, StoredInDirs DEF ListingKept
          <5> QED
            BY <1>3, <1>7, <2>3, <4>1, <5>1 DEF AtRest
        <4>2. CASE k # c.value
          BY <1>5, <1>7, <2>3, <4>2 DEF AtRest
        <4> QED
          BY <4>1, <4>2
      <3>3. d.op # "delete" /\ d.key \notin Keys
        BY <1>3, <2>1
      <3> QED
        BY <3>1, <3>2, <3>3 DEF LastFits
    <2> QED
      BY <1>2, <2>2, <2>4, <2>5, <2>6, OneGoing
  <1> QED
    BY <1>1, <1>2, <1>3, <1>6, <1>7, RemoveOutcome

\* What move_value does when its value is not there: there is nothing to delete.
LEMMA FallbackGoesOn ==
    ASSUME NEW u \in Users, AloneStep(u), Len(todo[u]) = 2,
           todo[u][1].op = "delete", todo[u][1].value \notin Stored(todo[u][1].key),
           todo[u][2].op = "save", todo[u][2].key \in Keys, todo[u][2].value \in Values
    PROVE  TraitGoing(todo[u])'
  <1>1. PICK c \in Ops : c = Current(u) /\ c = todo[u][1]
    BY AloneFrom
  <1>2. /\ ~failing /\ ListingKept /\ kills' = kills /\ expected' = expected
        /\ abandoned' = abandoned /\ (\A f \in files : f.key \in dirs)'
        /\ (kills = 0 => LastFits(todo[u][2])) /\ DbTypeOK /\ WriteInv /\ DbStep(u)
        /\ todo[u] \in Seq(Ops)
    BY <1>1, AloneFrom
  <1>3. PICK d \in Ops : d = todo[u][2]
    BY <1>2
  <1>4. dirs' = dirs /\ Continue(u, <<>>) /\ \A k : Stored(k)' = Stored(k)
    BY <1>1, <1>2, RemoveOutcome
  <1>5. todo'[u] = <<d>>
    BY <1>2, <1>3, <1>4, ShortContinues
  <1>6. Listed' = Listed
    BY <1>4 DEF Listed
  <1>7. ListingKept'
    BY <1>2, <1>4, <1>6 DEF ListingKept
  <1>8. d.op = "save" /\ d.key \in Keys /\ d.value \in Values
    BY <1>3
  <1>9. WriteFits(d)'
    BY <1>8 DEF WriteFits, WriteOps, InDir, Values
  <1>10. OneFits(d)'
    BY <1>9 DEF OneFits
  <1>11. kills = 0 => LastFits(d)'
    <2>1. d.op \in WriteOps \cup MoveOps
      BY <1>8 DEF WriteOps
    <2> QED
      BY <1>2, <1>3, <1>4, <1>6, <2>1, OwesTheSame
  <1> QED
    BY <1>2, <1>5, <1>7, <1>10, <1>11, OneGoing

\* An emptied directory is removed, and the key is taken out of the metakeys.
LEMMA RemoveDirGoesOn ==
    ASSUME NEW u \in Users, AloneStep(u), Len(todo[u]) = 1, todo[u][1].op = "rmdir",
           todo[u][1].key \in AllKeys
    PROVE  TraitGoing(todo[u])'
  <1>1. PICK c \in Ops : c = Current(u) /\ c = todo[u][1]
    BY AloneFrom
  <1>2. /\ ~failing /\ ListingKept /\ kills' = kills /\ expected' = expected
        /\ abandoned' = abandoned /\ (\A f \in files : f.key \in dirs)'
        /\ (kills = 0 => LastFits(c)) /\ DbTypeOK /\ WriteInv /\ TmpInv /\ DbStep(u)
        /\ \A w \in Users : w # u => todo[w] = <<>>
    <2>1. \A w \in Users : w # u => todo[w] = <<>>
      BY DEF AloneStep, Alone
    <2> QED
      BY <1>1, <2>1, AloneFrom
  <1>3. c.op = "rmdir" /\ c.key \in AllKeys /\ \A k \in Keys : k # Metakeys
    BY <1>1, MetakeysIsNoKey
  <1>4. \A next \in Seq(Ops) : Continue(u, next) => todo'[u] = next
    BY <1>2, ShortContinues
  <1>5. RemoveDir(u) /\ files' = files
    <2>1. /\ ~SaveBegins(u) /\ ~MakeDir(u) /\ ~Probe(u) /\ ~OpenTmp(u) /\ ~FillTmp(u)
          /\ ~RenameTmp(u)
      BY <1>1, <1>3 DEF SaveBegins, MakeDir, Probe, OpenTmp, FillTmp, RenameTmp, Doing, Current
    <2>2. /\ ~UnlinkTmp(u) /\ ~RemoveFile(u) /\ ~MoveBegins(u) /\ ~MoveMakeDir(u) /\ ~MoveRename(u)
      BY <1>1, <1>3
        DEF UnlinkTmp, RemoveFile, MoveBegins, MoveMakeDir, MoveRename, Doing, Current
    <2>3. RemoveDir(u)
      BY <1>2, <2>1, <2>2 DEF DbStep
    <2> QED
      BY <2>3 DEF RemoveDir
  <1>6. (\A k : Stored(k)' = Stored(k)) /\ Listed' = Listed
    BY <1>5, SameFiles DEF Listed
  <1>7. ASSUME NEW k \in Keys, kills = 0
        PROVE  (k # c.key => AtRest(k)) /\ expected[k] = Stored(k)
    <2>1. k # c.key => ~Touches(c, k)
      BY <1>3 DEF Touches, WriteOps, MoveOps
    <2>2. Owed(c, k) = Stored(k)
      BY <1>3 DEF Owed, Gains, Loses, WriteOps, MoveOps
    <2> QED
      BY <1>2, <1>7, <2>1, <2>2 DEF LastFits
  <1>8. CASE c.key \in dirs /\ \A f \in files : f.key # c.key
    <2>1. dirs' = dirs \ {c.key}
          /\ Continue(u, IF c.key = Metakeys THEN <<>> ELSE <<Delete(Metakeys, c.key)>>)
      BY <1>1, <1>2, <1>5, <1>8 DEF RemoveDir
    <2>2. Stored(c.key) = {}
      BY <1>8 DEF Stored, Exists
    <2>3. ListingKept'
      BY <1>2, <1>6, <2>1 DEF ListingKept
    <2>4. CASE c.key = Metakeys
      <3>1. <<>> \in Seq(Ops)
        OBVIOUS
      <3>2. todo'[u] = <<>>
        BY <1>4, <2>1, <2>4, <3>1
      <3>3. kills = 0 => NothingOwed'
        <4> SUFFICES ASSUME kills = 0 PROVE NothingOwed'
          OBVIOUS
        <4>1. ASSUME NEW k \in Keys PROVE (expected[k] = Stored(k))' /\ AtRest(k)'
          <5>1. AtRest(k) /\ expected[k] = Stored(k) /\ (k \in dirs' <=> k \in dirs)
            BY <1>3, <1>7, <2>1, <2>4
          <5> QED
            BY <1>2, <1>6, <5>1 DEF AtRest
        <4>2. MetaAtRest'
          BY <2>1, <2>4 DEF MetaAtRest
        <4> QED
          BY <4>1, <4>2 DEF NothingOwed
      <3> QED
        BY <1>2, <2>3, <3>2, <3>3, NoneGoing
    <2>5. CASE c.key # Metakeys
      <3>1. c.key \in Keys /\ c.key \in Values
        BY <1>3, <2>5 DEF AllKeys, Values
      <3>2. PICK d \in Ops : d = Delete(Metakeys, c.key)
        BY <3>1, OpsTyped
      <3>3. <<d>> \in Seq(Ops)
        BY <3>2
      <3>4. todo'[u] = <<d>>
        BY <1>4, <2>1, <2>5, <3>2, <3>3
      <3>5. d.op = "delete" /\ d.key = Metakeys /\ d.value = c.key
        BY <3>2 DEF Delete, Op
      <3>6. OneFits(d)'
        BY <2>1, <3>1, <3>5 DEF OneFits
      <3>7. kills = 0 => LastFits(d)'
        <4> SUFFICES ASSUME kills = 0 PROVE LastFits(d)'
          OBVIOUS
        <4>1. ASSUME NEW k \in Keys PROVE (expected[k] = Owed(d, k))'
          <5>1. Owed(d, k)' = Stored(k)'
            BY <1>3, <3>5 DEF Owed, Gains, Loses, WriteOps, MoveOps
          <5> QED
            BY <1>2, <1>6, <1>7, <5>1
        <4>2. ASSUME NEW k \in Keys, ~Touches(d, k) PROVE AtRest(k)'
          <5>1. k # c.key
            BY <3>5, <4>2 DEF Touches
          <5>2. AtRest(k) /\ (k \in dirs' <=> k \in dirs)
            BY <1>7, <2>1, <5>1
          <5> QED
            BY <1>6, <5>2 DEF AtRest
        <4>3. c.key \in Listed'
          BY <1>2, <1>6, <1>8, <3>1 DEF ListingKept
        <4>4. \A k \in Keys : ~Touches(d, k)' => AtRest(k)'
          BY <4>2 DEF Touches, WriteOps, MoveOps
        <4>5. Metakeys \notin Keys /\ d.op # "rmdir"
          BY <1>3, <3>5
        <4> QED
          BY <3>5, <4>1, <4>3, <4>4, <4>5 DEF LastFits
      <3> QED
        BY <1>2, <2>3, <3>4, <3>6, <3>7, OneGoing
    <2> QED
      BY <2>4, <2>5
  <1>9. CASE ~(c.key \in dirs /\ \A f \in files : f.key # c.key)
    <2>1. dirs' = dirs /\ Continue(u, <<>>)
      BY <1>1, <1>2, <1>5, <1>9 DEF RemoveDir
    <2>2. <<>> \in Seq(Ops)
      OBVIOUS
    <2>3. todo'[u] = <<>>
      BY <1>4, <2>1, <2>2
    <2>4. ListingKept'
      BY <1>2, <1>6, <2>1 DEF ListingKept
    <2>5. kills = 0 => NothingOwed'
      <3> SUFFICES ASSUME kills = 0 PROVE NothingOwed'
        OBVIOUS
      <3>1. c.key \in dirs => Stored(c.key) # {}
        <4>1. ~Writing(u) /\ abandoned = {}
          BY <1>1, <1>2, <1>3 DEF Writing, LiveOps, ListingKept
        <4> QED
          BY <1>2, <1>9, <4>1, OwnFilesOnly
      <3>2. ASSUME NEW k \in Keys PROVE AtRest(k)
        <4>1. CASE k = c.key
          <5>1. k \in dirs
            BY <1>2, <1>3, <4>1 DEF LastFits
          <5> QED
            BY <1>2, <3>1, <4>1, <5>1 DEF AtRest, ListingKept
        <4>2. CASE k # c.key
          BY <1>7, <4>2
        <4> QED
          BY <4>1, <4>2
      <3>3. MetaAtRest
        <4>1. CASE c.key = Metakeys
          BY <3>1, <4>1 DEF MetaAtRest, Listed
        <4>2. CASE c.key \in Keys
          <5>1. c.key \in dirs
            BY <1>2, <1>3, <4>2 DEF LastFits
          <5> QED
            BY <1>2, <4>2, <5>1 DEF MetaAtRest, ListingKept
        <4> QED
          BY <1>3, <4>1, <4>2 DEF AllKeys
      <3>4. \A k \in Keys : (expected[k] = Stored(k))' /\ AtRest(k)'
        BY <1>2, <1>6, <1>7, <2>1, <3>2 DEF AtRest
      <3>5. MetaAtRest'
        BY <1>6, <2>1, <3>3 DEF MetaAtRest
      <3> QED
        BY <3>4, <3>5 DEF NothingOwed
    <2> QED
      BY <1>2, <2>3, <2>4, <2>5, NoneGoing
  <1> QED
    BY <1>8, <1>9

\* The next stage of a move: the same value, source and destination.
LEMMA MoveStages ==
    ASSUME NEW c \in Ops, c.op \in MoveOps
    PROVE  \A name \in {"move_mkdir", "move_rename"} : \E d \in Ops :
              /\ d = [c EXCEPT !.op = name] /\ d.op = name /\ d.op \in MoveOps
              /\ d.key = c.key /\ d.to = c.to /\ d.value = c.value
  <1>1. ASSUME NEW name \in {"move_mkdir", "move_rename"}
        PROVE  name \in OpNames /\ name \in MoveOps
    BY DEF OpNames, MoveOps
  <1>2. ASSUME NEW name \in {"move_mkdir", "move_rename"}
        PROVE  [c EXCEPT !.op = name] \in Ops
    BY <1>1, OpsTyped, Zenon
  <1>3. \A name : /\ [c EXCEPT !.op = name].op = name /\ [c EXCEPT !.op = name].key = c.key
                  /\ [c EXCEPT !.op = name].to = c.to /\ [c EXCEPT !.op = name].value = c.value
    BY DEF Ops
  <1> QED
    BY <1>1, <1>2, <1>3

\* A step of move_value.
LEMMA MoveValueGoesOn ==
    ASSUME NEW u \in Users, AloneStep(u), Len(todo[u]) = 1, MoveFits(todo[u][1])
    PROVE  TraitGoing(todo[u])'
  <1>1. PICK c \in Ops : c = Current(u) /\ c = todo[u][1]
    BY AloneFrom
  <1>2. /\ ~failing /\ ListingKept /\ kills' = kills /\ expected' = expected
        /\ abandoned' = abandoned /\ (\A f \in files : f.key \in dirs)'
        /\ (kills = 0 => LastFits(c)) /\ DbTypeOK /\ WriteInv /\ DbStep(u) /\ todo[u] # <<>>
    BY <1>1, AloneFrom
  <1>3. /\ c.op \in MoveOps /\ c.key \in Keys /\ c.to \in Keys /\ c.value \in Values
        /\ c.key # Metakeys /\ c.to # Metakeys
        /\ c.op # "move" => c.key # c.to
        /\ c.op = "move_mkdir" => c.to \in Listed
        /\ c.op = "move_rename" => c.to \in dirs
        /\ c.key \in AllKeys /\ c.to \in AllKeys /\ Metakeys \in AllKeys /\ c.to \in Values
        /\ c.op \notin WriteOps /\ c.op # "delete" /\ c.op # "rmdir"
    BY <1>1, MetakeysIsNoKey DEF MoveFits, MoveOps, WriteOps, AllKeys, Values
  <1>4. \A next \in Seq(Ops) : Continue(u, next) => todo'[u] = next
    BY <1>2, ShortContinues
  <1>5. \A d : d.op \in MoveOps /\ d.key = c.key /\ d.to = c.to =>
           \A k : /\ Gains(c, k) <=> Gains(d, k)
                  /\ Loses(c, k) <=> Loses(d, k)
                  /\ Touches(c, k) <=> Touches(d, k)
    BY <1>3 DEF Gains, Loses, Touches, WriteOps, MoveOps
  <1>6. CASE MoveBegins(u)
    <2>1. PICK d \in Ops : /\ d = [c EXCEPT !.op = "move_mkdir"] /\ d.op = "move_mkdir"
                           /\ d.op \in MoveOps
                           /\ d.key = c.key /\ d.to = c.to /\ d.value = c.value
      BY <1>3, MoveStages
    <2>2. /\ Continue(u, IF c.to = c.key THEN <<Save(c.key, c.value)>>
                         ELSE (IF c.to \notin dirs THEN <<Save(Metakeys, c.to)>> ELSE <<>>)
                              \o <<d>>)
          /\ files' = files /\ dirs' = dirs
      BY <1>1, <1>6, <2>1 DEF MoveBegins
    <2>3. (\A k : Stored(k)' = Stored(k)) /\ Listed' = Listed
      BY <2>2, SameFiles DEF Listed
    <2>4. ListingKept'
      BY <1>2, <2>2, <2>3 DEF ListingKept
    <2>5. kills = 0 => LastFits(d)'
      <3>1. d.op \in WriteOps \cup MoveOps
        BY <2>1
      <3>2. \A k \in Keys : ~Touches(d, k) =>
               ~Touches(c, k) /\ (k \in dirs' <=> k \in dirs) /\ (k \in Listed' <=> k \in Listed)
        BY <1>5, <2>1, <2>2, <2>3
      <3> QED
        BY <1>2, <1>5, <2>1, <2>3, <3>1, <3>2, OwesTheSame
    <2>6. CASE c.to = c.key
      <3>1. PICK e \in Ops : e = Save(c.key, c.value)
        BY <1>3, OpsTyped
      <3>2. e.op = "save" /\ e.key = c.key /\ e.value = c.value
        BY <3>1 DEF Save, Op
      <3>3. <<e>> \in Seq(Ops)
        BY <3>1
      <3>a. Continue(u, <<e>>)
        BY <2>2, <2>6, <3>1
      <3>4. todo'[u] = <<e>>
        BY <1>4, <3>3, <3>a
      <3>5. WriteFits(e)'
        BY <1>3, <3>2 DEF WriteFits, WriteOps, InDir, Values
      <3>6. OneFits(e)'
        BY <3>5 DEF OneFits
      <3>7. kills = 0 => LastFits(e)'
        <4>1. e.op \in WriteOps \cup MoveOps
          BY <3>2 DEF WriteOps
        <4>2. \A k : /\ Gains(c, k) <=> Gains(e, k)
                     /\ Loses(c, k) <=> Loses(e, k)
                     /\ Touches(c, k) <=> Touches(e, k)
          BY <1>3, <2>6, <3>2 DEF Gains, Loses, Touches, WriteOps, MoveOps
        <4>3. \A k \in Keys : ~Touches(e, k) =>
                 ~Touches(c, k) /\ (k \in dirs' <=> k \in dirs) /\ (k \in Listed' <=> k \in Listed)
          BY <2>2, <2>3, <4>2
        <4> QED
          BY <1>2, <2>3, <3>2, <4>1, <4>2, <4>3, OwesTheSame
      <3> QED
        BY <1>2, <2>4, <3>4, <3>6, <3>7, OneGoing
    <2>7. CASE c.to # c.key /\ c.to \notin dirs
      <3>1. PICK e \in Ops : e = Save(Metakeys, c.to)
        BY <1>3, OpsTyped
      <3>2. e.op = "save" /\ e.key = Metakeys /\ e.value = c.to
        BY <3>1 DEF Save, Op
      <3>3. <<e, d>> \in Seq(Ops) /\ <<e>> \o <<d>> = <<e, d>>
        BY <2>1, <3>1, FewOps
      <3>a. Continue(u, <<e, d>>)
        BY <2>2, <2>7, <3>1, <3>3
      <3>4. todo'[u] = <<e, d>>
        BY <1>4, <3>3, <3>a
      <3>5. TwoFit(e, d)'
        BY <1>3, <2>1, <2>7, <3>2 DEF TwoFit, ListingFits, WriteOps, InDir
      <3> QED
        BY <1>2, <2>1, <2>4, <2>5, <3>4, <3>5, TwoGoing
    <2>8. CASE c.to # c.key /\ c.to \in dirs
      <3>1. <<d>> \in Seq(Ops) /\ <<>> \o <<d>> = <<d>>
        BY <2>1, FewOps
      <3>2. Continue(u, <<d>>)
        BY <2>2, <2>8, <3>1
      <3>3. todo'[u] = <<d>>
        BY <1>4, <3>1, <3>2
      <3>4. c.to \in Listed'
        BY <1>2, <1>3, <2>3, <2>8 DEF ListingKept
      <3>5. MoveFits(d)'
        BY <1>3, <2>1, <2>8, <3>4 DEF MoveFits, Values
      <3>6. OneFits(d)'
        BY <3>5 DEF OneFits
      <3> QED
        BY <1>2, <2>4, <2>5, <3>3, <3>6, OneGoing
    <2> QED
      BY <2>6, <2>7, <2>8
  <1>7. CASE MoveMakeDir(u)
    <2>1. PICK d \in Ops : /\ d = [c EXCEPT !.op = "move_rename"] /\ d.op = "move_rename"
                           /\ d.op \in MoveOps
                           /\ d.key = c.key /\ d.to = c.to /\ d.value = c.value
      BY <1>3, MoveStages
    <2>2. /\ Continue(u, <<d>>) /\ files' = files /\ dirs' = dirs \cup {c.to}
          /\ c.op = "move_mkdir"
      BY <1>1, <1>2, <1>7, <2>1 DEF MoveMakeDir, Doing, Current
    <2>3. (\A k : Stored(k)' = Stored(k)) /\ Listed' = Listed
      BY <2>2, SameFiles DEF Listed
    <2>4. ListingKept'
      BY <1>2, <1>3, <2>2, <2>3 DEF ListingKept
    <2>5. <<d>> \in Seq(Ops)
      BY <2>1
    <2>6. todo'[u] = <<d>>
      BY <1>4, <2>2, <2>5
    <2>7. MoveFits(d)'
      BY <1>3, <2>1, <2>2 DEF MoveFits, Values
    <2>8. OneFits(d)'
      BY <2>7 DEF OneFits
    <2>9. kills = 0 => LastFits(d)'
      <3>1. d.op \in WriteOps \cup MoveOps
        BY <2>1
      <3>2. \A k \in Keys : ~Touches(d, k) =>
               ~Touches(c, k) /\ (k \in dirs' <=> k \in dirs) /\ (k \in Listed' <=> k \in Listed)
        <4>1. ASSUME NEW k \in Keys, ~Touches(d, k) PROVE k # c.to
          BY <2>1, <4>1 DEF Touches
        <4> QED
          BY <1>5, <2>1, <2>2, <2>3, <4>1
      <3> QED
        BY <1>2, <1>5, <2>1, <2>3, <3>1, <3>2, OwesTheSame
    <2> QED
      BY <1>2, <2>1, <2>4, <2>6, <2>8, <2>9, OneGoing
  <1>8. CASE MoveRename(u)
    <2>1. c.op = "move_rename" /\ c.key # c.to /\ c.to \in dirs
      BY <1>1, <1>3, <1>8 DEF MoveRename, Doing, Current
    <2>2. CASE /\ dirs' = dirs /\ c.value \notin Stored(c.key)
               /\ Continue(u, <<Delete(c.key, c.value), Save(c.to, c.value)>>)
               /\ \A k : Stored(k)' = Stored(k)
      <3>1. PICK e \in Ops : e = Delete(c.key, c.value)
        BY <1>3, OpsTyped
      <3>2. PICK d \in Ops : d = Save(c.to, c.value)
        BY <1>3, OpsTyped
      <3>3. /\ e.op = "delete" /\ e.key = c.key /\ e.value = c.value
            /\ d.op = "save" /\ d.key = c.to /\ d.value = c.value
        BY <3>1, <3>2 DEF Delete, Save, Op
      <3>4. <<e, d>> \in Seq(Ops)
        BY <3>1, <3>2
      <3>5. todo'[u] = <<e, d>>
        BY <1>4, <2>2, <3>1, <3>2, <3>4
      <3>6. Listed' = Listed
        BY <2>2 DEF Listed
      <3>7. ListingKept'
        BY <1>2, <2>2, <3>6 DEF ListingKept
      <3>8. TwoFit(e, d)'
        <4>1. e.value \notin Stored(e.key)'
          BY <2>2, <3>3
        <4> QED
          BY <1>3, <3>3, <4>1 DEF TwoFit, Values
      <3>9. kills = 0 => LastFits(d)'
        <4> SUFFICES ASSUME kills = 0 PROVE LastFits(d)'
          OBVIOUS
        <4>1. ASSUME NEW k \in Keys PROVE (expected[k] = Owed(d, k))'
          <5>1. expected[k] = Owed(c, k)
            BY <1>2 DEF LastFits
          <5>2. Owed(c, k) = IF k = c.to THEN Stored(k) \cup {c.value} ELSE Stored(k)
            BY <1>3, <2>1, <2>2 DEF Owed, Gains, Loses, WriteOps, MoveOps
          <5>3. Owed(d, k)' = IF k = c.to THEN Stored(k)' \cup {c.value} ELSE Stored(k)'
            BY <3>3 DEF Owed, Gains, Loses, WriteOps, MoveOps
          <5> QED
            BY <1>2, <2>2, <5>1, <5>2, <5>3
        <4>2. ASSUME NEW k \in Keys, ~Touches(d, k) PROVE AtRest(k)'
          <5>1. k # c.to
            BY <3>3, <4>2 DEF Touches, WriteOps
          <5>2. AtRest(k)
            BY <1>2, <1>3, <5>1 DEF LastFits, Touches
          <5> QED
            BY <2>2, <3>6, <5>2 DEF AtRest
        <4>3. \A k \in Keys : ~Touches(d, k)' => AtRest(k)'
          BY <4>2 DEF Touches, WriteOps, MoveOps
        <4>4. d.op # "delete" /\ d.op # "rmdir"
          BY <3>3
        <4> QED
          BY <4>1, <4>3, <4>4 DEF LastFits
      <3> QED
        BY <1>2, <3>5, <3>7, <3>8, <3>9, TwoGoing
    <2>3. CASE /\ dirs' = dirs /\ c.value \in Stored(c.key)
               /\ \E d \in Ops : d.op = "rmdir" /\ d.key = c.key /\ Continue(u, <<d>>)
               /\ Stored(c.key)' = Stored(c.key) \ {c.value}
               /\ Stored(c.to)' = Stored(c.to) \cup {c.value}
               /\ \A k : k # c.key /\ k # c.to => Stored(k)' = Stored(k)
      <3>1. PICK d \in Ops : d.op = "rmdir" /\ d.key = c.key /\ Continue(u, <<d>>)
        BY <2>3
      <3>2. <<d>> \in Seq(Ops)
        BY <3>1
      <3>3. todo'[u] = <<d>>
        BY <1>4, <3>1, <3>2
      <3>4. Listed' = Listed
        BY <1>3, <2>3 DEF Listed
      <3>5. ListingKept'
        BY <1>2, <2>3, <3>4 DEF ListingKept
      <3>6. OneFits(d)'
        BY <1>3, <3>1 DEF OneFits, AllKeys
      <3>7. kills = 0 => LastFits(d)'
        <4> SUFFICES ASSUME kills = 0 PROVE LastFits(d)'
          OBVIOUS
        <4>1. ASSUME NEW k \in Keys PROVE (expected[k] = Owed(d, k))'
          <5>1. expected[k] = Owed(c, k)
            BY <1>2 DEF LastFits
          <5>2. Owed(c, k) = IF k = c.to THEN Stored(k) \cup {c.value}
                             ELSE IF k = c.key THEN Stored(k) \ {c.value} ELSE Stored(k)
            BY <1>3, <2>1 DEF Owed, Gains, Loses, WriteOps, MoveOps
          <5>3. Owed(d, k)' = Stored(k)'
            BY <3>1 DEF Owed, Gains, Loses, WriteOps, MoveOps
          <5>4. Stored(k)' = IF k = c.to THEN Stored(k) \cup {c.value}
                             ELSE IF k = c.key THEN Stored(k) \ {c.value} ELSE Stored(k)
            BY <2>1, <2>3
          <5> QED
            BY <1>2, <5>1, <5>2, <5>3, <5>4
        <4>2. ASSUME NEW k \in Keys, ~Touches(d, k) PROVE AtRest(k)'
          <5>1. k # c.key
            BY <3>1, <4>2 DEF Touches
          <5>2. CASE k = c.to
            BY <1>2, <2>1, <2>3, <3>4, <5>2 DEF AtRest, ListingKept
          <5>3. CASE k # c.to
            <6>1. AtRest(k)
              BY <1>2, <1>3, <5>3 DEF LastFits, Touches
            <6> QED
              BY <2>3, <3>4, <5>1, <5>3, <6>1 DEF AtRest
          <5> QED
            BY <5>2, <5>3
        <4>3. \A k \in Keys : ~Touches(d, k)' => AtRest(k)'
          BY <4>2 DEF Touches, WriteOps, MoveOps
        <4>4. c.key \in dirs'
          BY <1>2, <2>3, StoredInDirs DEF ListingKept
        <4>5. d.op # "delete"
          BY <3>1
        <4> QED
          BY <3>1, <4>1, <4>3, <4>4, <4>5 DEF LastFits
      <3> QED
        BY <1>2, <3>1, <3>3, <3>5, <3>6, <3>7, OneGoing
    <2> QED
      BY <1>1, <1>2, <2>1, <2>2, <2>3, MoveOutcome
  <1>9. MoveBegins(u) \/ MoveMakeDir(u) \/ MoveRename(u)
    <2>1. /\ ~SaveBegins(u) /\ ~MakeDir(u) /\ ~Probe(u) /\ ~OpenTmp(u) /\ ~FillTmp(u)
          /\ ~RenameTmp(u)
      BY <1>1, <1>3 DEF SaveBegins, MakeDir, Probe, OpenTmp, FillTmp, RenameTmp, Doing, Current,
                        MoveOps
    <2>2. ~UnlinkTmp(u) /\ ~RemoveFile(u) /\ ~RemoveDir(u)
      BY <1>1, <1>3 DEF UnlinkTmp, RemoveFile, RemoveDir, Doing, Current, MoveOps
    <2> QED
      BY <1>2, <2>1, <2>2 DEF DbStep
  <1> QED
    BY <1>6, <1>7, <1>8, <1>9

\* A step of a user that is alone, whatever its call.
LEMMA TraitGoesOn ==
    ASSUME NEW u \in Users, AloneStep(u)
    PROVE  TraitGoing(todo[u])'
  <1>1. StackFitsTrait(todo[u]) /\ Len(todo[u]) \in {1, 2} /\ todo[u] # <<>>
    BY AloneFrom
  <1>2. CASE Len(todo[u]) = 1
    <2>1. OneFits(todo[u][1])
      BY <1>1, <1>2 DEF StackFitsTrait
    <2> QED
      BY <1>2, <2>1, SaveGoesOn, MoveValueGoesOn, DeleteGoesOn, UnlistGoesOn, RemoveDirGoesOn
      DEF OneFits
  <1>3. CASE Len(todo[u]) = 2
    <2>1. TwoFit(todo[u][1], todo[u][2])
      BY <1>1, <1>3 DEF StackFitsTrait
    <2>2. CASE ListingFits(todo[u][1], todo[u][2].key) /\ todo[u][2].op = "mkdir"
      <3>1. PICK k \in Keys : k = todo[u][2].key /\ ListingFits(todo[u][1], k)
        BY <2>2 DEF ListingFits
      <3> QED
        BY <1>3, <2>2, <3>1, ListingGoesOn
    <2>3. CASE /\ ListingFits(todo[u][1], todo[u][2].to) /\ todo[u][2].op = "move_mkdir"
               /\ todo[u][2].key \in Keys /\ todo[u][2].key # todo[u][2].to
      <3>1. PICK k \in Keys : k = todo[u][2].to /\ ListingFits(todo[u][1], k)
        BY <2>3 DEF ListingFits
      <3> QED
        BY <1>3, <2>3, <3>1, ListingGoesOn
    <2>4. CASE /\ todo[u][1].op = "delete" /\ todo[u][1].value \notin Stored(todo[u][1].key)
               /\ todo[u][2].op = "save" /\ todo[u][2].key \in Keys /\ todo[u][2].value \in Values
      BY <1>3, <2>4, FallbackGoesOn
    <2> QED
      BY <2>1, <2>2, <2>3, <2>4 DEF TwoFit
  <1> QED
    BY <1>1, <1>2, <1>3

\* One more call of a user that has nothing to do.
LEMMA CallGoing ==
    ASSUME TypeOK, NEW u \in Users, Idle(u), TraitGoing(todo[u]), NEW c \in Ops,
           todo'[u] = <<c>>, UNCHANGED <<files, dirs, kills, abandoned>>, OneFits(c)',
           c.op # "rmdir", c.op = "delete" => c.key \in Keys,
           NothingOwed => \A k \in Keys : expected'[k] = Owed(c, k)
    PROVE  TraitGoing(todo[u])'
  <1>1. ListingKept /\ (kills = 0 => NothingOwed)
    BY DEF TraitGoing, Idle
  <1>2. (\A k : Stored(k)' = Stored(k)) /\ Listed' = Listed
    BY SameFiles DEF Listed
  <1>3. ListingKept'
    BY <1>1, <1>2 DEF ListingKept
  <1>4. ASSUME kills = 0 PROVE LastFits(c)'
    <2>1. NothingOwed
      BY <1>1, <1>4
    <2>2. \A k : Owed(c, k)' = Owed(c, k)
      BY <1>2 DEF Owed, Gains, Loses, WriteOps, MoveOps
    <2>3. \A k \in Keys : AtRest(k)'
      BY <1>2, <2>1 DEF NothingOwed, AtRest
    <2>4. MetaAtRest'
      BY <1>2, <2>1 DEF NothingOwed, MetaAtRest
    <2>5. c.op = "delete" => c.key # Metakeys
      BY MetakeysIsNoKey
    <2> QED
      BY <2>1, <2>2, <2>3, <2>4, <2>5 DEF LastFits
  <1> QED
    BY <1>3, <1>4, OneGoing

\* The calls of the trait (CallSave, CallDelete, CallMove) ask for the sets that their first
\* operation owes.
LEMMA CallsGoOn ==
    ASSUME TypeOK, NEW u \in Users, TraitGoing(todo[u]), UserCall(u)
    PROVE  TraitGoing(todo[u])'
  <1>1. ASSUME NEW c \in Ops, NEW want, NEW found, Call(u, c, want, found), OneFits(c)',
               c.op # "rmdir", c.op = "delete" => c.key \in Keys,
               NothingOwed => \A k \in Keys : want[k] = Owed(c, k)
        PROVE  TraitGoing(todo[u])'
    <2>1. /\ Idle(u) /\ UNCHANGED <<files, dirs, kills, abandoned>> /\ expected' = want
          /\ todo' = [todo EXCEPT ![u] = <<c>>]
      BY <1>1 DEF Call
    <2>2. todo'[u] = <<c>>
      BY <2>1 DEF TypeOK, DbTypeOK
    <2> QED
      BY <1>1, <2>1, <2>2, CallGoing
  <1>2. expected \in [Keys -> SUBSET (Values \cup {Torn})] /\ Entries \subseteq Values
    BY OpsTyped DEF TypeOK
  <1>3. CASE \E k \in Keys, v \in Entries : CallSave(u, k, v)
    <2>1. PICK k \in Keys, v \in Entries : CallSave(u, k, v)
      BY <1>3
    <2>2. PICK c \in Ops : c = Save(k, v)
      BY CallsTyped
    <2>3. c.op = "save" /\ c.key = k /\ c.value = v
      BY <2>2 DEF Save, Op
    <2>4. OneFits(c)'
      BY <1>2, <2>3 DEF OneFits, WriteFits, WriteOps, InDir, Values
    <2>5. PICK want : want = [expected EXCEPT ![k] = @ \cup {v}]
      OBVIOUS
    <2>6. Call(u, c, want, NotMoving)
      BY <2>1, <2>2, <2>5 DEF CallSave
    <2>7. NothingOwed => \A j \in Keys : want[j] = Owed(c, j)
      BY <1>2, <2>3, <2>5 DEF NothingOwed, Owed, Gains, Loses, WriteOps, MoveOps
    <2> QED
      BY <1>1, <2>3, <2>4, <2>6, <2>7
  <1>4. CASE \E k \in Keys, v \in Entries : CallDelete(u, k, v)
    <2>1. PICK k \in Keys, v \in Entries : CallDelete(u, k, v)
      BY <1>4
    <2>2. PICK c \in Ops : c = Delete(k, v)
      BY CallsTyped
    <2>3. c.op = "delete" /\ c.key = k /\ c.value = v
      BY <2>2 DEF Delete, Op
    <2>4. OneFits(c)'
      BY <2>3 DEF OneFits
    <2>5. PICK want : want = [expected EXCEPT ![k] = @ \ {v}]
      OBVIOUS
    <2>6. Call(u, c, want, NotMoving)
      BY <2>1, <2>2, <2>5 DEF CallDelete
    <2>7. NothingOwed => \A j \in Keys : want[j] = Owed(c, j)
      BY <1>2, <2>3, <2>5 DEF NothingOwed, Owed, Gains, Loses, WriteOps, MoveOps
    <2> QED
      BY <1>1, <2>3, <2>4, <2>6, <2>7
  <1>5. CASE \E src, dst \in Keys, v \in Entries : CallMove(u, src, dst, v)
    <2>1. PICK src \in Keys, dst \in Keys, v \in Entries : CallMove(u, src, dst, v)
      BY <1>5
    <2>2. PICK c \in Ops : c = MoveValue(src, dst, v)
      BY CallsTyped
    <2>3. c.op = "move" /\ c.key = src /\ c.to = dst /\ c.value = v
      BY <2>2 DEF MoveValue, Op
    <2>4. OneFits(c)'
      BY <1>2, <2>3 DEF OneFits, MoveFits, MoveOps, Values
    <2>5. PICK want : want = [k \in Keys |-> IF k = dst THEN expected[k] \cup {v}
                                             ELSE IF k = src THEN expected[k] \ {v} ELSE expected[k]]
      OBVIOUS
    <2>6. \E found : Call(u, c, want, found)
      BY <2>1, <2>2, <2>5 DEF CallMove
    <2>7. NothingOwed => \A j \in Keys : want[j] = Owed(c, j)
      BY <1>2, <2>3, <2>5 DEF NothingOwed, Owed, Gains, Loses, WriteOps, MoveOps
    <2> QED
      BY <1>1, <2>3, <2>4, <2>6, <2>7
  <1> QED
    BY <1>3, <1>4, <1>5 DEF UserCall

\* A removal that does not fail abandons no file.
LEMMA NothingAbandoned ==
    ASSUME NEW u \in Users, Step(u), ~failing
    PROVE  abandoned' = abandoned
  <1>1. ASSUME LeavesDebris(u) PROVE FALSE
    <2>1. Doing(u, "unlink") /\ Debris(u) # {} /\ files' = files
      BY <1>1 DEF LeavesDebris
    <2>2. PICK f \in files : f.key = Current(u).key /\ f.name = Current(u).tmp
      BY <2>1 DEF Debris
    <2>3. UnlinkTmp(u)
      <3>1. DbStep(u)
        BY DEF Step
      <3>2. /\ ~SaveBegins(u) /\ ~MakeDir(u) /\ ~Probe(u) /\ ~OpenTmp(u) /\ ~FillTmp(u)
            /\ ~RenameTmp(u)
        BY <2>1 DEF SaveBegins, MakeDir, Probe, OpenTmp, FillTmp, RenameTmp, Doing, Current
      <3>3. /\ ~RemoveDir(u) /\ ~RemoveFile(u) /\ ~MoveBegins(u) /\ ~MoveMakeDir(u) /\ ~MoveRename(u)
        BY <2>1 DEF RemoveDir, RemoveFile, MoveBegins, MoveMakeDir, MoveRename, Doing, Current
      <3> QED
        BY <3>1, <3>2, <3>3 DEF DbStep
    <2>4. f \notin files'
      BY <2>2, <2>3 DEF UnlinkTmp, FilesNamed
    <2> QED
      BY <2>1, <2>4
  <1> QED
    BY <1>1 DEF Step

\* Whatever a single user does, and wherever it is killed.
LEMMA TraitStep ==
    ASSUME TypeOK, TmpInv, MoveInv, TraitInv, [Next]_vars
    PROVE  TraitInv'
  <1> SUFFICES ASSUME NEW u \in Users, ~failing', active' = {u} PROVE TraitGoing(todo[u])'
    BY DEF TraitInv
  <1>t. todo \in [Users -> Seq(Ops)] /\ kills \in Nat /\ DbTypeOK
    BY BoundsOK DEF TypeOK, DbTypeOK
  <1>i. ~failing /\ active = {u} => TraitGoing(todo[u])
    BY DEF TraitInv
  <1>a. \A w \in Users : w \notin active => todo[w] = <<>>
    BY DEF MoveInv
  <1>1. CASE UNCHANGED vars
    <2>1. UNCHANGED <<failing, dirs, files, todo, active, kills, expected, abandoned>>
      BY <1>1 DEF vars, dbVars
    <2> QED
      BY <1>i, <2>1 DEF TraitGoing, ListingKept, StackFitsTrait, OneFits, TwoFit, NothingOwed,
         LastFits, WriteFits, MoveFits, ListingFits, AtRest, MetaAtRest, Owed, Gains, Loses,
         Touches, Listed, Stored, Exists, AllKeys, Values, WriteOps, InDir, MoveOps
  <1>2. ASSUME NEW w \in Users, UserCall(w) PROVE TraitGoing(todo[u])'
    <2>1. w \in active /\ UNCHANGED <<failing, active>>
      BY <1>2 DEF UserCall, CallSave, CallDelete, CallMove, Call
    <2>2. w = u /\ TraitGoing(todo[u])
      BY <1>i, <2>1
    <2> QED
      BY <1>2, <2>2, CallsGoOn
  <1>3. ASSUME NEW w \in Users, Step(w) PROVE TraitGoing(todo[u])'
    <2>1. DbStep(w) /\ UNCHANGED <<failing, active, kills, expected>>
      BY <1>3 DEF Step, DbStep
    <2>a. abandoned' = abandoned
      BY <1>3, <2>1, NothingAbandoned
    <2>2. todo[w] # <<>>
      <3>1. QuietStep(w) \/ WriteStep(w)
        BY <2>1 DEF DbStep, QuietStep, WriteStep
      <3>2. WriteStep(w) => todo[w] # <<>>
        BY DEF WriteStep, OpenTmp, FillTmp, RenameTmp, UnlinkTmp, Doing
      <3> QED
        BY <1>t, <3>1, <3>2, QuietContinues
    <2>3. w = u /\ TraitGoing(todo[u]) /\ \A x \in Users : x # u => todo[x] = <<>>
      BY <1>i, <1>a, <2>1, <2>2
    <2>4. AloneStep(u)
      BY <1>t, <2>1, <2>a, <2>3 DEF AloneStep, Alone
    <2> QED
      BY <2>4, TraitGoesOn
  <1>4. ASSUME NEW w \in Users, Kill(w) PROVE TraitGoing(todo[u])'
    <2>1. /\ todo[w] # <<>> /\ kills' = kills + 1 /\ todo' = [todo EXCEPT ![w] = <<>>]
          /\ UNCHANGED <<failing, dirs, files, active>>
      BY <1>4 DEF Kill, Idle
    <2>2. w = u /\ TraitGoing(todo[u])
      BY <1>i, <1>a, <2>1
    <2>3. todo'[u] = <<>> /\ kills' # 0
      BY <1>t, <2>1, <2>2
    <2>4. Listed' = Listed
      BY <2>1, SameFiles DEF Listed
    <2>5. ListingKept'
      BY <2>1, <2>2, <2>3, <2>4 DEF ListingKept, TraitGoing
    <2>6. PICK t : t = <<>>
      OBVIOUS
    <2>7. StackFitsTrait(t)'
      BY <2>6 DEF StackFitsTrait
    <2>8. TraitGoing(t)'
      BY <2>3, <2>5, <2>7 DEF TraitGoing
    <2> QED
      BY <2>3, <2>6, <2>8
  <1> QED
    BY <1>1, <1>2, <1>3, <1>4 DEF Next, UserCall

\* A single user that has nothing left to do has the sets the trait describes.
LEMMA TraitFollows ==
    ASSUME TypeOK, TmpInv, TraitInv
    PROVE  TraitKept
  <1>1. KeysListed
    <2> SUFFICES ASSUME Undisturbed PROVE dirs \ {Metakeys} \subseteq Stored(Metakeys)
      BY DEF KeysListed
    <2>1. ListingKept
      BY DEF TraitInv, Undisturbed, TraitGoing
    <2> QED
      BY <2>1 DEF ListingKept, Listed, TypeOK, DbTypeOK, AllKeys
  <1>2. SetSemantics
    <2> SUFFICES ASSUME Undisturbed, AllIdle, kills = 0
                 PROVE  /\ \A k \in Keys : Stored(k) = expected[k] /\ Fetch(k) = expected[k]
                        /\ Listed = {k \in Keys : expected[k] # {}}
                        /\ dirs = Listed \cup IF Listed = {} THEN {} ELSE {Metakeys}
      BY DEF SetSemantics, Listed
    <2>1. ListingKept /\ NothingOwed /\ \A w \in Users : todo[w] = <<>>
      BY DEF TraitInv, Undisturbed, TraitGoing, AllIdle, Idle
    <2>2. \A k \in Keys : expected[k] = Stored(k) /\ AtRest(k)
      BY <2>1 DEF NothingOwed
    <2>3. ASSUME NEW f \in files
          PROVE  \E v \in Values : f.name = ValuePath(v) /\ f.contents = v
      <3>1. f \in FileRecords /\ f.name \notin TmpNames
        BY <2>1 DEF TmpInv, WriteInv, TmpsOwned, FilesSound, Writing, ListingKept
      <3>2. PICK v \in Values : f.name = <<v>>
        BY <3>1 DEF FileRecords, OwnNames
      <3>3. Len(f.name) = 1 /\ f.name[1] = v
        BY <3>2
      <3> QED
        BY <3>2, <3>3 DEF TmpInv, WriteInv, FilesSound, WholeEntries, ValuePath
    <2>4. ASSUME NEW k \in Keys PROVE Fetch(k) = Stored(k)
      <3>1. ASSUME NEW f \in files, f.key = k PROVE f.contents \in Stored(k)
        BY <2>3, <3>1 DEF Stored, Exists
      <3>2. ASSUME NEW v \in Stored(k) PROVE \E f \in files : f.key = k /\ f.contents = v
        <4>1. PICK f \in files : f.key = k /\ f.name = ValuePath(v)
          BY DEF Stored, Exists
        <4>2. PICK x \in Values : f.name = ValuePath(x) /\ f.contents = x
          BY <2>3
        <4> QED
          BY <4>1, <4>2, PathsDiffer
      <3> QED
        BY <3>1, <3>2 DEF Fetch
    <2>5. Listed = {k \in Keys : expected[k] # {}}
      BY <2>1, <2>2 DEF ListingKept, AtRest
    <2>6. Metakeys \in dirs <=> Listed # {}
      BY <2>1, StoredInDirs DEF NothingOwed, MetaAtRest, ListingKept, Listed
    <2>7. \A k \in Keys : k \in dirs <=> k \in Listed
      BY <2>2 DEF AtRest
    <2>8. dirs \subseteq Keys \cup {Metakeys} /\ Listed \subseteq Keys
      BY <2>1 DEF TypeOK, DbTypeOK, AllKeys, ListingKept
    <2>9. dirs = Listed \cup IF Listed = {} THEN {} ELSE {Metakeys}
      BY <2>6, <2>7, <2>8
    <2> QED
      BY <2>2, <2>4, <2>5, <2>9
  <1> QED
    BY <1>1, <1>2 DEF TraitKept

\* The contract of the trait TestCaseDatabase, for one user whose file operations succeed,
\* however long its calls go on: between the calls a key has exactly the values that its
\* saves, deletes and moves leave there and exactly the keys with a value are listed, and at
\* every instant, kills included, a key that has a directory is listed.
THEOREM TraitHolds == Spec => []TraitKept
  <1>1. Init => MoveInv
    BY DEF Init, DbInit, MoveInv
  <1>2. Init => TraitInv
    <2> SUFFICES ASSUME Init, NEW u \in Users PROVE TraitGoing(todo[u])
      BY DEF TraitInv
    <2>1. /\ dirs = {} /\ files = {} /\ abandoned = {} /\ todo[u] = <<>>
          /\ \A k \in Keys : expected[k] = {}
      BY DEF Init, DbInit
    <2>2. \A k : Stored(k) = {}
      BY <2>1 DEF Stored, Exists
    <2>3. ListingKept /\ NothingOwed
      BY <2>1, <2>2 DEF ListingKept, NothingOwed, AtRest, MetaAtRest, Listed
    <2> QED
      BY <2>1, <2>3 DEF TraitGoing, StackFitsTrait
  <1>3. TypeOK /\ TmpInv /\ MoveInv /\ [Next]_vars => MoveInv'
    BY MoveStep
  <1>4. TypeOK /\ TmpInv /\ MoveInv /\ TraitInv /\ [Next]_vars => TraitInv'
    BY TraitStep
  <1>5. TypeOK /\ TmpInv /\ TraitInv => TraitKept
    BY TraitFollows
  <1> QED
    BY <1>1, <1>2, <1>3, <1>4, <1>5, DatabaseSound, PTL DEF Spec

=============================================================================
