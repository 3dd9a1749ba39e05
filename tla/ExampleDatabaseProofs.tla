------------------------- MODULE ExampleDatabaseProofs -------------------------
(* What every user of the example database can count on, whatever it calls: the types *)
(* of the directory, that a value's own file is whole and a temporary file belongs to *)
(* its writer, and what one operation does to the values stored.                      *)
EXTENDS ExampleDatabase, TLAPS, FiniteSetTheorems, SequenceTheorems

-----------------------------------------------------------------------------
(* The stack of operations a call has still to do.                                *)

\* The operations of atomic_write that own a temporary file.
LiveOps == {"fill", "rename", "unlink"}

\* Only the running operation owns a temporary file.
OneWrite == \A u \in Users : \A i \in 2 .. Len(todo[u]) : todo[u][i].op \notin LiveOps

\* What is left of a stack when its running operation is done.
LEMMA StackPopped ==
    ASSUME NEW s \in Seq(Ops), s # <<>>
    PROVE  /\ Head(s) \in Ops /\ Tail(s) \in Seq(Ops)
           /\ Len(Tail(s)) = Len(s) - 1 /\ Len(s) \in Nat /\ Len(s) > 0
           /\ s[1] = Head(s)
           /\ \A i \in 1 .. Len(Tail(s)) : Tail(s)[i] = s[i + 1]
  OBVIOUS

\* The running operation of a user is an operation.
LEMMA RunningTyped ==
    ASSUME DbTypeOK, NEW u \in Users, todo[u] # <<>>
    PROVE  Current(u) \in Ops /\ Current(u) = todo[u][1] /\ Len(todo[u]) \in Nat /\ Len(todo[u]) > 0
  <1>1. todo[u] \in Seq(Ops)
    BY DEF DbTypeOK
  <1> QED
    BY <1>1, StackPopped DEF Current

\* Continue: the running operation of one user is replaced by those that follow it.
LEMMA StackContinued ==
    ASSUME DbTypeOK, OneWrite, NEW u \in Users, todo[u] # <<>>, NEW next \in Seq(Ops),
           \A i \in 2 .. Len(next) : next[i].op \notin LiveOps, Continue(u, next)
    PROVE  /\ todo' \in [Users -> Seq(Ops)] /\ OneWrite'
           /\ \A w \in Users : w # u => todo'[w] = todo[w]
           /\ next # <<>> => todo'[u] # <<>> /\ Head(todo'[u]) = next[1]
           /\ next = <<>> => todo'[u] = <<>> \/ Head(todo'[u]).op \notin LiveOps
  <1> DEFINE s == todo[u]
             t == Tail(todo[u])
  <1>1. todo \in [Users -> Seq(Ops)] /\ s \in Seq(Ops) /\ s # <<>>
    BY DEF DbTypeOK
  <1>2. /\ t \in Seq(Ops) /\ Len(t) = Len(s) - 1 /\ Len(s) \in Nat /\ Len(s) > 0
        /\ \A i \in 1 .. Len(t) : t[i] = s[i + 1]
    BY <1>1, StackPopped
  <1>3. \A i \in 1 .. Len(t) : t[i].op \notin LiveOps
    <2>1. \A i \in 2 .. Len(s) : s[i].op \notin LiveOps
      BY DEF OneWrite
    <2> QED
      BY <1>2, <2>1
  <1>4. todo' = [todo EXCEPT ![u] = next \o t]
    BY DEF Continue
  <1>5. todo'[u] = next \o t /\ \A w \in Users : w # u => todo'[w] = todo[w]
    BY <1>1, <1>4
  <1> HIDE DEF s, t
  <1>6. /\ next \o t \in Seq(Ops) /\ Len(next \o t) = Len(next) + Len(t)
        /\ \A i \in 1 .. Len(next) + Len(t) :
              (next \o t)[i] = IF i <= Len(next) THEN next[i] ELSE t[i - Len(next)]
    BY <1>2, ConcatProperties
  <1>7. todo' \in [Users -> Seq(Ops)]
    BY <1>1, <1>4, <1>6
  <1>8. \A i \in 2 .. Len(next \o t) : (next \o t)[i].op \notin LiveOps
    BY <1>2, <1>3, <1>6
  <1>9. OneWrite'
    BY <1>5, <1>8 DEF OneWrite
  <1>10. CASE next = <<>>
    <2>1. next \o t = t
      BY <1>2, <1>10
    <2>2. t # <<>> => Head(t) = t[1] /\ 1 \in 1 .. Len(t)
      BY <1>2
    <2> QED
      BY <1>3, <1>5, <1>7, <1>9, <1>10, <2>1, <2>2
  <1>11. CASE next # <<>>
    <2>1. Len(next) \in Nat /\ Len(next) > 0
      BY <1>11
    <2>2. next \o t # <<>> /\ Head(next \o t) = (next \o t)[1] /\ (next \o t)[1] = next[1]
      BY <1>2, <1>6, <2>1
    <2> QED
      BY <1>5, <1>7, <1>9, <1>11, <2>2
  <1> QED
    BY <1>10, <1>11

\* A user is between the creation and the end of a temporary file.
Writing(u) == todo[u] # <<>> /\ Current(u).op \in LiveOps

\* Operations that open no temporary file.
Quiet(next) == next \in Seq(Ops) /\ \A i \in 1 .. Len(next) : next[i].op \notin LiveOps

\* At most two operations follow another.
LEMMA FewOps ==
    /\ Quiet(<<>>)
    /\ \A a \in Ops : a.op \notin LiveOps => Quiet(<<a>>)
    /\ \A a, b \in Ops : a.op \notin LiveOps /\ b.op \notin LiveOps => Quiet(<<a, b>>)
    /\ \A a, b \in Ops : <<a>> \o <<b>> = <<a, b>>
    /\ \A b \in Ops : <<>> \o <<b>> = <<b>>
    /\ \A a \in Ops : <<a>> \in Seq(Ops) /\ Len(<<a>>) = 1 /\ <<a>>[1] = a
  <1>1. Quiet(<<>>)
    BY DEF Quiet
  <1>2. ASSUME NEW a \in Ops
        PROVE  /\ <<a>> \in Seq(Ops) /\ Len(<<a>>) = 1 /\ <<a>>[1] = a /\ <<>> \o <<a>> = <<a>>
               /\ a.op \notin LiveOps => Quiet(<<a>>)
    <2>1. <<a>> \in Seq(Ops) /\ Len(<<a>>) = 1 /\ <<a>>[1] = a /\ <<>> \o <<a>> = <<a>>
      OBVIOUS
    <2>2. a.op \notin LiveOps => \A i \in 1 .. 1 : <<a>>[i].op \notin LiveOps
      <3>1. \A i \in 1 .. 1 : i = 1
        OBVIOUS
      <3> QED
        BY <2>1, <3>1
    <2> QED
      BY <2>1, <2>2 DEF Quiet
  <1>3. ASSUME NEW a \in Ops, NEW b \in Ops
        PROVE  /\ <<a>> \o <<b>> = <<a, b>>
               /\ a.op \notin LiveOps /\ b.op \notin LiveOps => Quiet(<<a, b>>)
    <2>2. <<a, b>> \in Seq(Ops) /\ Len(<<a, b>>) = 2
      OBVIOUS
    <2>1. <<a>> \o <<b>> = <<a, b>>
      <3>1. <<a>> \in Seq(Ops) /\ <<b>> \in Seq(Ops) /\ Len(<<a>>) = 1 /\ Len(<<b>>) = 1
        OBVIOUS
      <3>2. /\ <<a>> \o <<b>> \in Seq(Ops) /\ Len(<<a>> \o <<b>>) = 2
            /\ \A i \in 1 .. 2 : (<<a>> \o <<b>>)[i] = IF i <= 1 THEN <<a>>[i] ELSE <<b>>[i - 1]
        BY <3>1, ConcatProperties
      <3>3. \A i \in 1 .. 2 : (<<a>> \o <<b>>)[i] = <<a, b>>[i]
        BY <3>2
      <3> QED
        BY <2>2, <3>2, <3>3, SeqEqual
    <2>3. a.op \notin LiveOps /\ b.op \notin LiveOps =>
             \A i \in 1 .. 2 : <<a, b>>[i].op \notin LiveOps
      OBVIOUS
    <2> QED
      BY <2>1, <2>2, <2>3 DEF Quiet
  <1> QED
    BY <1>1, <1>2, <1>3

\* Every operation a call can consist of is one.
LEMMA OpsTyped ==
    /\ \A k \in AllKeys, v \in Values : Save(k, v) \in Ops /\ Delete(k, v) \in Ops
    /\ \A k, d \in Keys, v \in Values : MoveValue(k, d, v) \in Ops
    /\ \A c \in Ops, name \in OpNames :
          name \notin MoveOps \/ c.op \in MoveOps => [c EXCEPT !.op = name] \in Ops
    /\ \A c \in Ops, t \in TmpNames : \A name \in OpNames \ MoveOps :
          [c EXCEPT !.op = name, !.tmp = t] \in Ops
    /\ Metakeys \in AllKeys /\ Keys \subseteq AllKeys /\ Keys \subseteq Values /\ Entries \subseteq Values
  <1>1. Metakeys \in AllKeys /\ Keys \subseteq AllKeys /\ Keys \subseteq Values /\ Entries \subseteq Values
    BY DEF AllKeys, Values
  <1>2. \A k \in AllKeys, v \in Values : Save(k, v) \in Ops /\ Delete(k, v) \in Ops
    BY DEF Ops, Save, Delete, Op, OpNames, MoveOps
  <1>3. ASSUME NEW k \in Keys, NEW d \in Keys, NEW v \in Values PROVE MoveValue(k, d, v) \in Ops
    <2>1. MoveValue(k, d, v) = [op |-> "move", key |-> k, value |-> v, to |-> d, tmp |-> NoTmp]
      BY DEF MoveValue, Op
    <2> QED
      BY <1>1, <2>1 DEF Ops, OpNames
  <1>4. ASSUME NEW c \in Ops, NEW name \in OpNames, name \notin MoveOps \/ c.op \in MoveOps
        PROVE  [c EXCEPT !.op = name] \in Ops
    <2>1. PICK d : d = [c EXCEPT !.op = name]
      OBVIOUS
    <2>2. /\ d \in [op : OpNames, key : AllKeys, value : Values, to : AllKeys, tmp : TmpNames \cup {NoTmp}]
          /\ d.op = name /\ d.key = c.key /\ d.to = c.to
      BY <2>1 DEF Ops
    <2> QED
      BY <1>4, <2>1, <2>2 DEF Ops
  <1>5. ASSUME NEW c \in Ops, NEW t \in TmpNames, NEW name \in OpNames \ MoveOps
        PROVE  [c EXCEPT !.op = name, !.tmp = t] \in Ops
    <2>1. PICK d : d = [c EXCEPT !.op = name, !.tmp = t]
      OBVIOUS
    <2>2. /\ d \in [op : OpNames, key : AllKeys, value : Values, to : AllKeys, tmp : TmpNames \cup {NoTmp}]
          /\ d.op = name
      BY <2>1 DEF Ops
    <2> QED
      BY <2>1, <2>2 DEF Ops
  <1> QED
    BY <1>1, <1>2, <1>3, <1>4, <1>5

\* The steps of a call outside atomic_write's temporary file.
QuietStep(u) ==
    \/ SaveBegins(u) \/ MakeDir(u) \/ Probe(u) \/ RemoveFile(u) \/ RemoveDir(u)
    \/ MoveBegins(u) \/ MoveMakeDir(u) \/ MoveRename(u)

\* They are followed by operations that open no temporary file.
LEMMA QuietContinues ==
    ASSUME DbTypeOK, NEW u \in Users, QuietStep(u)
    PROVE  /\ todo[u] # <<>> /\ Current(u).op \notin LiveOps
           /\ \E next \in Seq(Ops) : Quiet(next) /\ Continue(u, next)
  <1>1. todo[u] # <<>> /\ Current(u).op \notin LiveOps
    BY DEF QuietStep, SaveBegins, MakeDir, Probe, RemoveFile, RemoveDir, MoveBegins, MoveMakeDir,
           MoveRename, Doing, Current, LiveOps
  <1>2. PICK c \in Ops : c = Current(u)
    BY <1>1, RunningTyped
  <1>3. /\ c.key \in AllKeys /\ c.to \in AllKeys /\ c.value \in Values
        /\ c.key # Metakeys => c.key \in Values
    BY <1>2 DEF Ops, AllKeys, Values
  <1> DEFINE mkdir == [c EXCEPT !.op = "mkdir"]
             probe == [c EXCEPT !.op = "probe"]
             open == [c EXCEPT !.op = "open"]
             rmdir == [c EXCEPT !.op = "rmdir"]
             move_mkdir == [c EXCEPT !.op = "move_mkdir"]
             move_rename == [c EXCEPT !.op = "move_rename"]
  <1>m. ASSUME MoveBegins(u) \/ MoveMakeDir(u)
        PROVE  c.op \in MoveOps /\ c.to \in Keys /\ c.to \in Values
    BY <1>2, <1>m DEF MoveBegins, MoveMakeDir, Doing, Current, Ops, MoveOps, Values
  <1>4. {mkdir, probe, open, rmdir} \subseteq Ops
    BY <1>2, OpsTyped DEF OpNames, MoveOps
  <1>5. /\ mkdir.op = "mkdir" /\ probe.op = "probe" /\ open.op = "open" /\ rmdir.op = "rmdir"
    BY <1>2 DEF Ops
  <1>a. ASSUME MoveBegins(u) \/ MoveMakeDir(u)
        PROVE  /\ {move_mkdir, move_rename} \subseteq Ops
               /\ move_mkdir.op = "move_mkdir" /\ move_rename.op = "move_rename"
    <2>1. {"move_mkdir", "move_rename"} \subseteq OpNames /\ c.op \in MoveOps
      BY <1>m, <1>a DEF OpNames
    <2>2. \A name \in OpNames : [c EXCEPT !.op = name] \in Ops
      BY <1>2, <2>1, OpsTyped, Zenon
    <2>3. {move_mkdir, move_rename} \subseteq Ops
      BY <2>1, <2>2
    <2> QED
      BY <1>2, <2>3 DEF Ops
  <1>6. \A k \in AllKeys, v \in Values :
           Save(k, v).op \notin LiveOps /\ Delete(k, v).op \notin LiveOps
    BY DEF Save, Delete, Op, LiveOps
  <1>7. {"mkdir", "probe", "open", "rmdir", "move_mkdir", "move_rename"} \cap LiveOps = {}
    BY DEF LiveOps
  <1> HIDE DEF mkdir, probe, open, rmdir, move_mkdir, move_rename
  <1>8. Quiet(<<>>) /\ Quiet(<<mkdir>>) /\ Quiet(<<probe>>) /\ Quiet(<<open>>) /\ Quiet(<<rmdir>>)
    BY <1>4, <1>5, <1>7, FewOps
  <1>9. /\ \A k \in AllKeys, v \in Values : Quiet(<<Save(k, v)>>) /\ Quiet(<<Delete(k, v)>>)
        /\ \A k, d \in AllKeys, v \in Values : Quiet(<<Delete(k, v), Save(d, v)>>)
    BY <1>6, FewOps, OpsTyped
  <1>b. ASSUME NEW x \in Ops, x.op \notin LiveOps, NEW v \in Values
        PROVE  /\ Quiet(<<Save(Metakeys, v), x>>) /\ Quiet(<<x>>)
               /\ <<Save(Metakeys, v)>> \o <<x>> = <<Save(Metakeys, v), x>> /\ <<>> \o <<x>> = <<x>>
    BY <1>6, <1>b, FewOps, OpsTyped
  <1>10. \A next : Quiet(next) => next \in Seq(Ops)
    BY DEF Quiet
  <1> SUFFICES \E next : Quiet(next) /\ Continue(u, next)
    BY <1>1, <1>10
  <1>11. CASE SaveBegins(u)
    <2>1. Continue(u, (IF c.key # Metakeys /\ c.key \notin dirs
                       THEN <<Save(Metakeys, c.key)>> ELSE <<>>) \o <<mkdir>>)
      BY <1>2, <1>11 DEF SaveBegins, mkdir
    <2>2. CASE c.key # Metakeys /\ c.key \notin dirs
      <3>1. c.key \in Values
        BY <1>3, <2>2
      <3>2. Continue(u, <<Save(Metakeys, c.key)>> \o <<mkdir>>)
        BY <2>1, <2>2
      <3>3. Continue(u, <<Save(Metakeys, c.key), mkdir>>)
        BY <1>4, <1>5, <1>7, <1>b, <3>1, <3>2
      <3> QED
        BY <1>4, <1>5, <1>7, <1>b, <3>1, <3>3
    <2>3. CASE ~(c.key # Metakeys /\ c.key \notin dirs)
      <3>1. Continue(u, <<mkdir>>)
        BY <1>4, <2>1, <2>3, FewOps
      <3> QED
        BY <1>8, <3>1
    <2> QED
      BY <2>2, <2>3
  <1>12. CASE MakeDir(u)
    BY <1>2, <1>8, <1>12 DEF MakeDir, probe
  <1>13. CASE Probe(u)
    BY <1>2, <1>8, <1>13 DEF Probe, open
  <1>14. CASE RemoveFile(u)
    BY <1>2, <1>8, <1>14 DEF RemoveFile, rmdir
  <1>15. CASE RemoveDir(u)
    BY <1>2, <1>3, <1>8, <1>9, <1>15, OpsTyped DEF RemoveDir
  <1>16. CASE MoveBegins(u)
    <2>1. Continue(u, IF c.to = c.key THEN <<Save(c.key, c.value)>>
                      ELSE (IF c.to \notin dirs THEN <<Save(Metakeys, c.to)>> ELSE <<>>)
                           \o <<move_mkdir>>)
      BY <1>2, <1>16 DEF MoveBegins, move_mkdir
    <2>2. CASE c.to = c.key
      BY <1>3, <1>9, <2>1, <2>2
    <2>3. CASE c.to # c.key /\ c.to \notin dirs
      <3>1. c.to \in Values /\ move_mkdir \in Ops /\ move_mkdir.op \notin LiveOps
        BY <1>7, <1>16, <1>m, <1>a
      <3>2. Continue(u, <<Save(Metakeys, c.to)>> \o <<move_mkdir>>)
        BY <2>1, <2>3
      <3>3. Continue(u, <<Save(Metakeys, c.to), move_mkdir>>)
        BY <1>b, <3>1, <3>2
      <3> QED
        BY <1>b, <3>1, <3>3
    <2>4. CASE c.to # c.key /\ c.to \in dirs
      <3>1. c.value \in Values /\ move_mkdir \in Ops /\ move_mkdir.op \notin LiveOps
        BY <1>3, <1>7, <1>16, <1>a
      <3>2. Continue(u, <<>> \o <<move_mkdir>>)
        BY <2>1, <2>4
      <3> QED
        BY <1>b, <3>1, <3>2
    <2> QED
      BY <2>2, <2>3, <2>4
  <1>17. CASE MoveMakeDir(u)
    <2>1. Quiet(<<move_rename>>)
      BY <1>3, <1>7, <1>17, <1>a, <1>b
    <2> QED
      BY <1>2, <1>3, <1>9, <1>17, <2>1 DEF MoveMakeDir, MoveFallback, move_rename
  <1>18. CASE MoveRename(u)
    BY <1>2, <1>3, <1>8, <1>9, <1>18 DEF MoveRename, MoveFallback, rmdir
  <1> QED
    BY <1>11, <1>12, <1>13, <1>14, <1>15, <1>16, <1>17, <1>18 DEF QuietStep

\* Outside atomic_write's temporary file a step begins and ends without one.
LEMMA QuietStack ==
    ASSUME DbTypeOK, OneWrite, NEW u \in Users, QuietStep(u)
    PROVE  /\ todo' \in [Users -> Seq(Ops)] /\ OneWrite'
           /\ \A w \in Users : w # u => todo'[w] = todo[w]
           /\ ~Writing(u) /\ ~Writing(u)'
  <1>1. todo[u] # <<>> /\ ~Writing(u)
    BY QuietContinues DEF Writing
  <1>2. PICK next \in Seq(Ops) : Quiet(next) /\ Continue(u, next)
    BY QuietContinues
  <1>3. \A i \in 1 .. Len(next) : next[i].op \notin LiveOps
    BY <1>2 DEF Quiet
  <1>4. \A i \in 2 .. Len(next) : next[i].op \notin LiveOps
    BY <1>3
  <1>5. /\ todo' \in [Users -> Seq(Ops)] /\ OneWrite'
        /\ \A w \in Users : w # u => todo'[w] = todo[w]
        /\ next # <<>> => todo'[u] # <<>> /\ Head(todo'[u]) = next[1]
        /\ next = <<>> => todo'[u] = <<>> \/ Head(todo'[u]).op \notin LiveOps
    BY <1>1, <1>2, <1>4, StackContinued
  <1>6. next # <<>> => next[1].op \notin LiveOps
    BY <1>3
  <1>7. todo'[u] = <<>> \/ Head(todo'[u]).op \notin LiveOps
    BY <1>5, <1>6
  <1> QED
    BY <1>1, <1>5, <1>7 DEF Writing, Current

\* A step of atomic_write is followed by one operation, or by none.
LEMMA WriteContinues ==
    ASSUME DbTypeOK, OneWrite, NEW u \in Users, todo[u] # <<>>, NEW c \in Ops
    PROVE  /\ Continue(u, <<c>>) =>
                  /\ todo' \in [Users -> Seq(Ops)] /\ OneWrite'
                  /\ \A w \in Users : w # u => todo'[w] = todo[w]
                  /\ todo'[u] # <<>> /\ Current(u)' = c
           /\ Continue(u, <<>>) =>
                  /\ todo' \in [Users -> Seq(Ops)] /\ OneWrite'
                  /\ \A w \in Users : w # u => todo'[w] = todo[w]
                  /\ ~Writing(u)'
  <1>1. /\ <<c>> \in Seq(Ops) /\ <<>> \in Seq(Ops) /\ <<c>> # <<>> /\ <<c>>[1] = c
        /\ Len(<<c>>) = 1 /\ Len(<<>>) = 0
    OBVIOUS
  <1>2. /\ \A i \in 2 .. Len(<<c>>) : <<c>>[i].op \notin LiveOps
        /\ \A i \in 2 .. Len(<<>>) : <<>>[i].op \notin LiveOps
    BY <1>1
  <1>3. ASSUME Continue(u, <<c>>)
        PROVE  /\ todo' \in [Users -> Seq(Ops)] /\ OneWrite'
               /\ \A w \in Users : w # u => todo'[w] = todo[w]
               /\ todo'[u] # <<>> /\ Head(todo'[u]) = c
    BY <1>1, <1>2, <1>3, StackContinued
  <1>4. ASSUME Continue(u, <<>>)
        PROVE  /\ todo' \in [Users -> Seq(Ops)] /\ OneWrite'
               /\ \A w \in Users : w # u => todo'[w] = todo[w]
               /\ todo'[u] = <<>> \/ Head(todo'[u]).op \notin LiveOps
    BY <1>1, <1>2, <1>4, StackContinued
  <1> QED
    BY <1>3, <1>4 DEF Current, Writing

\* A user starts a call with an empty stack; a killed one is left with one.
LEMMA CallStack ==
    ASSUME DbTypeOK, OneWrite, NEW u \in Users, NEW c \in Ops, c.op \notin LiveOps
    PROVE  /\ todo' = [todo EXCEPT ![u] = <<c>>] =>
                  /\ todo' \in [Users -> Seq(Ops)] /\ OneWrite' /\ ~Writing(u)'
                  /\ \A w \in Users : w # u => todo'[w] = todo[w]
           /\ todo' = [todo EXCEPT ![u] = <<>>] =>
                  /\ todo' \in [Users -> Seq(Ops)] /\ OneWrite' /\ ~Writing(u)'
                  /\ \A w \in Users : w # u => todo'[w] = todo[w]
  <1>1. /\ <<c>> \in Seq(Ops) /\ <<>> \in Seq(Ops) /\ Head(<<c>>) = c
        /\ Len(<<c>>) = 1 /\ Len(<<>>) = 0
    OBVIOUS
  <1>2. todo \in [Users -> Seq(Ops)]
    BY DEF DbTypeOK
  <1>3. ASSUME todo' = [todo EXCEPT ![u] = <<c>>]
        PROVE  /\ todo' \in [Users -> Seq(Ops)] /\ OneWrite' /\ ~Writing(u)'
               /\ \A w \in Users : w # u => todo'[w] = todo[w]
    <2>1. todo'[u] = <<c>> /\ \A w \in Users : w # u => todo'[w] = todo[w]
      BY <1>2, <1>3
    <2>2. OneWrite'
      BY <1>1, <2>1 DEF OneWrite
    <2> QED
      BY <1>1, <1>2, <1>3, <2>1, <2>2 DEF Writing, Current
  <1>4. ASSUME todo' = [todo EXCEPT ![u] = <<>>]
        PROVE  /\ todo' \in [Users -> Seq(Ops)] /\ OneWrite' /\ ~Writing(u)'
               /\ \A w \in Users : w # u => todo'[w] = todo[w]
    <2>1. todo'[u] = <<>> /\ \A w \in Users : w # u => todo'[w] = todo[w]
      BY <1>2, <1>4
    <2>2. OneWrite'
      BY <1>1, <2>1 DEF OneWrite
    <2> QED
      BY <1>1, <1>2, <1>4, <2>1, <2>2 DEF Writing, Current
  <1> QED
    BY <1>3, <1>4

-----------------------------------------------------------------------------
(* The temporary files.                                                           *)

\* temp_path: the process id and the counter name a file that does not exist.
LEMMA TempPathFresh ==
    ASSUME IsFiniteSet(files), NEW k, NEW v \in Values
    PROVE  TempPath(k, v) \in TmpNames /\ ~Exists(k, TempPath(k, v))
  <1> DEFINE m == Cardinality(files)
             free(n) == n \in 0 .. m /\ ~Exists(k, <<v, n>>)
  <1>1. m \in Nat
    BY FS_CardinalityType
  <1>2. \E n \in 0 .. m : ~Exists(k, <<v, n>>)
    <2> SUFFICES ASSUME \A n \in 0 .. m : Exists(k, <<v, n>>) PROVE FALSE
      OBVIOUS
    <2> DEFINE h == [n \in 0 .. m |-> CHOOSE f \in files : f.key = k /\ f.name = <<v, n>>]
    <2>1. ASSUME NEW n \in 0 .. m PROVE h[n] \in files /\ h[n].name = <<v, n>>
      <3>1. \E f \in files : f.key = k /\ f.name = <<v, n>>
        BY DEF Exists
      <3> QED
        BY <3>1
    <2> HIDE DEF h
    <2>2. \A i, j \in 0 .. m : h[i] = h[j] => i = j
      BY <2>1
    <2>3. h \in [0 .. m -> files]
      BY <2>1 DEF h
    <2>4. h \in Injection(0 .. m, files)
      BY <2>2, <2>3 DEF Injection, IsInjective
    <2>5. Cardinality(0 .. m) <= m
      BY <2>4, FS_Injection
    <2>6. Cardinality(0 .. m) = m + 1
      BY <1>1, FS_Interval
    <2> QED
      BY <1>1, <2>5, <2>6
  <1> DEFINE n == CHOOSE n \in 0 .. m : ~Exists(k, <<v, n>>)
  <1>3. n \in 0 .. m /\ ~Exists(k, <<v, n>>)
    BY <1>2
  <1>4. TempPath(k, v) = <<v, n>>
    BY DEF TempPath
  <1> HIDE DEF n
  <1> QED
    BY <1>1, <1>3, <1>4 DEF TmpNames

\* A value's own file is never taken for a temporary one.
LEMMA NamesApart ==
    /\ OwnNames \cap TmpNames = {}
    /\ \A v \in Values : ValuePath(v) \in OwnNames /\ ValuePath(v)[1] = v
    /\ \A n \in OwnNames : Len(n) = 1
    /\ \A n \in TmpNames : Len(n) = 2
  <1>1. \A n \in OwnNames : Len(n) = 1
    BY DEF OwnNames
  <1>2. \A n \in TmpNames : Len(n) = 2
    BY DEF TmpNames
  <1>3. \A v \in Values : ValuePath(v) \in OwnNames /\ ValuePath(v)[1] = v
    BY DEF OwnNames, ValuePath
  <1> QED
    BY <1>1, <1>2, <1>3


-----------------------------------------------------------------------------
(* The files of the database.                                                     *)

FileRecords == [key : AllKeys, name : OwnNames \cup TmpNames, contents : Values \cup {Torn}]

\* A directory holds finitely many files, no two of one name, and a value's own file
\* is whole.
FilesSound ==
    /\ files \subseteq FileRecords
    /\ IsFiniteSet(files)
    /\ \A f, g \in files : f.key = g.key /\ f.name = g.name => f = g
    /\ WholeEntries

\* Removing files (UnlinkTmp, RemoveFile) leaves the others as they are.
LEMMA FilesRemoved ==
    ASSUME FilesSound, files' \subseteq files
    PROVE  FilesSound'
  <1>1. IsFiniteSet(files')
    BY FS_Subset DEF FilesSound
  <1> QED
    BY <1>1 DEF FilesSound, FileRecords, AllKeys, OwnNames, TmpNames, Values, WholeEntries

\* A file takes the place of those of its name (OpenTmp, FillTmp and the two renames).
LEMMA FilePlaced ==
    ASSUME FilesSound, NEW S \in SUBSET files, NEW g \in FileRecords,
           \A f \in S : f.key # g.key \/ f.name # g.name,
           Len(g.name) = 1 => g.contents = g.name[1],
           files' = S \cup {g}
    PROVE  FilesSound'
  <1>1. IsFiniteSet(S)
    BY FS_Subset DEF FilesSound
  <1>2. IsFiniteSet(files')
    BY <1>1, FS_AddElement
  <1>3. files' \subseteq FileRecords
    BY DEF FilesSound
  <1>4. \A f, h \in files' : f.key = h.key /\ f.name = h.name => f = h
    BY DEF FilesSound
  <1>5. WholeEntries'
    BY DEF FilesSound, WholeEntries
  <1> QED
    BY <1>2, <1>3, <1>4, <1>5 DEF FilesSound, FileRecords, AllKeys, OwnNames, TmpNames, Values

\* The one file of a name.
LEMMA OneNamed ==
    ASSUME FilesSound, NEW k, NEW name, Exists(k, name)
    PROVE  \E f \in files : f.key = k /\ f.name = name /\ FilesNamed(k, name) = {f}
  <1>1. PICK f \in files : f.key = k /\ f.name = name
    BY DEF Exists
  <1>2. FilesNamed(k, name) = {f}
    BY <1>1 DEF FilesSound, FilesNamed
  <1> QED
    BY <1>1, <1>2

\* Files with the names of temporary files that are not those of `t` in `k` stay.
OtherTmpsKept(k, t) ==
    \A f : f.name \in TmpNames /\ (f.key # k \/ f.name # t) => (f \in files' <=> f \in files)

\* What a step outside atomic_write's temporary file does to the files.
LEMMA QuietFiles ==
    ASSUME DbTypeOK, FilesSound, NEW u \in Users, QuietStep(u)
    PROVE  FilesSound' /\ OtherTmpsKept(Metakeys, <<>>)
  <1>1. todo[u] # <<>>
    BY QuietContinues
  <1>2. PICK c \in Ops : c = Current(u)
    BY <1>1, RunningTyped
  <1>3. PICK path : path = ValuePath(c.value)
    OBVIOUS
  <1>4. c.key \in AllKeys /\ c.to \in AllKeys /\ c.value \in Values
    BY <1>2 DEF Ops
  <1>5. path \in OwnNames /\ path \notin TmpNames /\ path[1] = c.value /\ Len(path) = 1
    BY <1>3, <1>4, NamesApart
  <1>6. files' = files => FilesSound' /\ OtherTmpsKept(Metakeys, <<>>)
    BY FilesRemoved DEF OtherTmpsKept
  <1>7. CASE SaveBegins(u) \/ MakeDir(u) \/ Probe(u) \/ RemoveDir(u) \/ MoveBegins(u) \/ MoveMakeDir(u)
    <2>1. files' = files
      BY <1>7 DEF SaveBegins, MakeDir, Probe, RemoveDir, MoveBegins, MoveMakeDir
    <2> QED
      BY <1>6, <2>1
  <1>8. CASE RemoveFile(u)
    <2>1. files' = files \/ files' = files \ FilesNamed(c.key, path)
      BY <1>2, <1>3, <1>8 DEF RemoveFile
    <2>2. files' = files \ FilesNamed(c.key, path) => OtherTmpsKept(Metakeys, <<>>)
      BY <1>5 DEF OtherTmpsKept, FilesNamed
    <2> QED
      BY <1>6, <2>1, <2>2, FilesRemoved
  <1>9. CASE MoveRename(u)
    <2>1. \/ files' = files
          \/ /\ Exists(c.key, path)
             /\ files' = (files \ (FilesNamed(c.key, path) \cup FilesNamed(c.to, path)))
                            \cup {[f EXCEPT !.key = c.to] : f \in FilesNamed(c.key, path)}
      BY <1>2, <1>3, <1>9 DEF MoveRename
    <2>2. ASSUME Exists(c.key, path),
                 files' = (files \ (FilesNamed(c.key, path) \cup FilesNamed(c.to, path)))
                             \cup {[f EXCEPT !.key = c.to] : f \in FilesNamed(c.key, path)}
          PROVE  FilesSound' /\ OtherTmpsKept(Metakeys, <<>>)
      <3>1. PICK f \in files : f.key = c.key /\ f.name = path /\ FilesNamed(c.key, path) = {f}
        BY <2>2, OneNamed
      <3>2. PICK g : g = [f EXCEPT !.key = c.to]
        OBVIOUS
      <3>3. f \in FileRecords /\ f.contents = path[1]
        BY <1>5, <3>1 DEF FilesSound, WholeEntries
      <3>4. g \in FileRecords /\ g.key = c.to /\ g.name = path /\ g.contents = path[1]
        BY <1>4, <3>1, <3>2, <3>3 DEF FileRecords
      <3>5. PICK S : S = files \ (FilesNamed(c.key, path) \cup FilesNamed(c.to, path))
        OBVIOUS
      <3>6. files' = S \cup {g}
        BY <2>2, <3>1, <3>2, <3>5
      <3>7. \A h \in S : h.key # g.key \/ h.name # g.name
        BY <3>4, <3>5 DEF FilesNamed
      <3>8. FilesSound'
        BY <3>4, <3>5, <3>6, <3>7, FilePlaced
      <3>9. OtherTmpsKept(Metakeys, <<>>)
        BY <1>5, <3>4, <3>5, <3>6 DEF OtherTmpsKept, FilesNamed
      <3> QED
        BY <3>8, <3>9
    <2> QED
      BY <1>6, <2>1, <2>2
  <1> QED
    BY <1>7, <1>8, <1>9 DEF QuietStep

-----------------------------------------------------------------------------
(* Who owns the temporary files.                                                  *)

\* A user that writes has a temporary file, and renames only one that is filled.
WritersHaveFiles ==
    \A u \in Users : Writing(u) =>
        /\ Current(u).tmp \in TmpNames
        /\ Exists(Current(u).key, Current(u).tmp)
        /\ Current(u).op = "rename" =>
              \A f \in FilesNamed(Current(u).key, Current(u).tmp) : f.contents = Current(u).value

\* No two users write one temporary file.
WritersApart ==
    \A u, w \in Users : u # w /\ Writing(u) /\ Writing(w) =>
        Current(u).key # Current(w).key \/ Current(u).tmp # Current(w).tmp

\* Every temporary file is being written, or `lost`: its writer was killed.
TmpsOwned(lost) ==
    \A f \in files : f.name \in TmpNames =>
        \/ \E u \in Users : Writing(u) /\ Current(u).key = f.key /\ Current(u).tmp = f.name
        \/ <<f.key, f.name>> \in lost

WriteInv == FilesSound /\ OneWrite /\ WritersHaveFiles /\ WritersApart

\* What a user writes, if it writes, is the temporary file `t` in `k`.
Claims(u, k, t) ==
    Writing(u) =>
        /\ Current(u).key = k /\ Current(u).tmp = t /\ t \in TmpNames /\ Exists(k, t)
        /\ Current(u).op = "rename" =>
              \A f \in files : f.key = k /\ f.name = t => f.contents = Current(u).value

\* Nobody but this user writes `t` in `k`.
NobodyElse(u, k, t) ==
    \A w \in Users : w # u /\ Writing(w) => Current(w).key # k \/ Current(w).tmp # t

\* If `t` in `k` is there, this user writes it or its writer was killed.
Accounted(u, k, t, lost) ==
    \A f \in files : f.key = k /\ f.name = t /\ t \in TmpNames =>
        \/ Writing(u) /\ Current(u).key = k /\ Current(u).tmp = t
        \/ <<k, t>> \in lost

OthersIdle(u) == \A w \in Users : w # u => todo'[w] = todo[w]

\* A step of one user that touches at most the temporary file `t` in `k`, its own or a
\* new one, leaves every other writer its file.
LEMMA OthersKept ==
    ASSUME DbTypeOK, WriteInv, NEW lost, NEW more, NEW u \in Users, NEW k, NEW t,
           OthersIdle(u), OtherTmpsKept(k, t), NobodyElse(u, k, t),
           Writing(u) => Current(u).key = k /\ Current(u).tmp = t,
           Claims(u, k, t)', Accounted(u, k, t, more)', TmpsOwned(lost), lost \subseteq more
    PROVE  WritersHaveFiles' /\ WritersApart' /\ TmpsOwned(more)'
  <1>1. \A w \in Users : w # u => (Writing(w)' <=> Writing(w)) /\ Current(w)' = Current(w)
    BY DEF OthersIdle, Writing, Current
  <1>2. ASSUME NEW w \in Users, w # u, Writing(w)'
        PROVE  /\ Current(w)'.tmp \in TmpNames
               /\ Exists(Current(w).key, Current(w).tmp)'
               /\ Current(w)'.key # k \/ Current(w)'.tmp # t
               /\ Current(w)'.op = "rename" =>
                     \A f \in files' : f.key = Current(w)'.key /\ f.name = Current(w)'.tmp =>
                                          f.contents = Current(w)'.value
    <2>1. PICK c : c = Current(w) /\ c = Current(w)'
      BY <1>1, <1>2
    <2>2. /\ c.tmp \in TmpNames /\ Exists(c.key, c.tmp) /\ (c.key # k \/ c.tmp # t)
          /\ c.op = "rename" => \A f \in FilesNamed(c.key, c.tmp) : f.contents = c.value
      BY <1>1, <1>2, <2>1 DEF WriteInv, WritersHaveFiles, NobodyElse
    <2>3. PICK f \in files : f.key = c.key /\ f.name = c.tmp
      BY <2>2 DEF Exists
    <2>4. f \in files'
      BY <2>2, <2>3 DEF OtherTmpsKept
    <2>5. \E g \in files' : g.key = c.key /\ g.name = c.tmp
      BY <2>3, <2>4
    <2>6. \A g \in files' : g.key = c.key /\ g.name = c.tmp => g \in FilesNamed(c.key, c.tmp)
      BY <2>2 DEF OtherTmpsKept, FilesNamed
    <2> QED
      BY <2>1, <2>2, <2>5, <2>6 DEF Exists
  <1>3. WritersHaveFiles'
    <2> SUFFICES ASSUME NEW w \in Users, Writing(w)'
                 PROVE  /\ Current(w)'.tmp \in TmpNames
                        /\ Exists(Current(w).key, Current(w).tmp)'
                        /\ Current(w)'.op = "rename" =>
                              \A f \in FilesNamed(Current(w).key, Current(w).tmp)' :
                                 f.contents = Current(w)'.value
      BY DEF WritersHaveFiles
    <2>1. CASE w = u
      BY <2>1 DEF Claims, Exists, FilesNamed
    <2>2. CASE w # u
      BY <1>2, <2>2 DEF FilesNamed
    <2> QED
      BY <2>1, <2>2
  <1>4. WritersApart'
    <2> SUFFICES ASSUME NEW v \in Users, NEW w \in Users, v # w, Writing(v)', Writing(w)'
                 PROVE  Current(v)'.key # Current(w)'.key \/ Current(v)'.tmp # Current(w)'.tmp
      BY DEF WritersApart
    <2>1. CASE v = u
      BY <1>2, <2>1 DEF Claims
    <2>2. CASE w = u
      BY <1>2, <2>2 DEF Claims
    <2>3. CASE v # u /\ w # u
      BY <1>1, <2>3 DEF WriteInv, WritersApart
    <2> QED
      BY <2>1, <2>2, <2>3
  <1>5. TmpsOwned(more)'
    <2> SUFFICES ASSUME NEW f \in files', f.name \in TmpNames
                 PROVE  \/ \E w \in Users : /\ Writing(w)'
                                            /\ Current(w)'.key = f.key /\ Current(w)'.tmp = f.name
                        \/ <<f.key, f.name>> \in more
      BY DEF TmpsOwned
    <2>1. CASE f.key = k /\ f.name = t
      BY <2>1 DEF Accounted
    <2>2. CASE f.key # k \/ f.name # t
      <3>1. f \in files
        BY <2>2 DEF OtherTmpsKept
      <3>2. CASE <<f.key, f.name>> \in lost
        BY <3>2
      <3>3. ASSUME NEW w \in Users, Writing(w), Current(w).key = f.key, Current(w).tmp = f.name
            PROVE  Writing(w)' /\ Current(w)'.key = f.key /\ Current(w)'.tmp = f.name
        <4>1. w # u
          BY <2>2, <3>3
        <4> QED
          BY <1>1, <3>3, <4>1
      <3> QED
        BY <3>1, <3>2, <3>3 DEF WriteInv, TmpsOwned
    <2> QED
      BY <2>1, <2>2
  <1> QED
    BY <1>3, <1>4, <1>5

\* A step that begins and ends without a temporary file and touches none.
LEMMA NoTmpTouched ==
    ASSUME DbTypeOK, WriteInv, NEW lost, NEW more, NEW u \in Users, OthersIdle(u), OtherTmpsKept(Metakeys, <<>>),
           ~Writing(u), ~Writing(u)', TmpsOwned(lost), lost \subseteq more
    PROVE  WritersHaveFiles' /\ WritersApart' /\ TmpsOwned(more)'
  <1>1. <<>> \notin TmpNames
    BY NamesApart
  <1>2. NobodyElse(u, Metakeys, <<>>)
    BY <1>1 DEF WriteInv, WritersHaveFiles, NobodyElse
  <1>3. Claims(u, Metakeys, <<>>)' /\ Accounted(u, Metakeys, <<>>, more)'
    BY <1>1 DEF Claims, Accounted
  <1> QED
    BY <1>2, <1>3, OthersKept

\* A step outside atomic_write's temporary file.
LEMMA QuietTmpInv ==
    ASSUME DbTypeOK, WriteInv, NEW u \in Users, QuietStep(u), NEW lost, TmpsOwned(lost)
    PROVE  WriteInv' /\ TmpsOwned(lost)' /\ todo' \in [Users -> Seq(Ops)]
  <1>1. FilesSound' /\ OtherTmpsKept(Metakeys, <<>>)
    BY QuietFiles DEF WriteInv
  <1>2. /\ todo' \in [Users -> Seq(Ops)] /\ OneWrite'
        /\ OthersIdle(u) /\ ~Writing(u) /\ ~Writing(u)'
    BY QuietStack DEF WriteInv, OthersIdle
  <1>3. WritersHaveFiles' /\ WritersApart' /\ TmpsOwned(lost)'
    BY <1>1, <1>2, NoTmpTouched
  <1> QED
    BY <1>1, <1>2, <1>3 DEF WriteInv

\* The steps of atomic_write.
WriteStep(u) == OpenTmp(u) \/ FillTmp(u) \/ RenameTmp(u) \/ UnlinkTmp(u)

\* OpenTmp: the new temporary file is nobody else's.
LEMMA OpenTmpInv ==
    ASSUME DbTypeOK, WriteInv, NEW u \in Users, OpenTmp(u), NEW lost, TmpsOwned(lost)
    PROVE  WriteInv' /\ TmpsOwned(lost)' /\ todo' \in [Users -> Seq(Ops)]
  <1>1. todo[u] # <<>> /\ Current(u).op = "open" /\ ~Writing(u)
    BY DEF OpenTmp, Doing, Current, Writing, LiveOps
  <1>2. PICK c \in Ops : c = Current(u)
    BY <1>1, RunningTyped
  <1>3. c.key \in AllKeys /\ c.value \in Values /\ c.op = "open"
    BY <1>1, <1>2 DEF Ops
  <1>4. PICK t : t = TempPath(c.key, c.value)
    OBVIOUS
  <1>5. t \in TmpNames /\ ~Exists(c.key, t)
    BY <1>3, <1>4, TempPathFresh DEF WriteInv, FilesSound
  <1>6. PICK d : d = [c EXCEPT !.op = "fill", !.tmp = t]
    OBVIOUS
  <1>7. d \in Ops /\ d.op = "fill" /\ d.key = c.key /\ d.tmp = t
    <2>1. "fill" \in OpNames \ MoveOps
      BY DEF OpNames, MoveOps
    <2>2. d \in Ops
      BY <1>2, <1>5, <1>6, <2>1, OpsTyped, Zenon
    <2> QED
      BY <1>2, <1>6, <2>2 DEF Ops
  <1>8. \/ /\ files' = (files \ FilesNamed(c.key, t)) \cup {File(c.key, t, Torn)}
           /\ Continue(u, <<d>>)
        \/ files' = files /\ Continue(u, <<>>)
    BY <1>2, <1>4, <1>6 DEF OpenTmp
  <1>9. CASE files' = files /\ Continue(u, <<>>)
    <2>1. FilesSound' /\ OtherTmpsKept(Metakeys, <<>>)
      BY <1>9, FilesRemoved DEF WriteInv, OtherTmpsKept
    <2>2. /\ todo' \in [Users -> Seq(Ops)] /\ OneWrite' /\ ~Writing(u)'
          /\ OthersIdle(u)
      BY <1>1, <1>7, <1>9, WriteContinues DEF WriteInv, OthersIdle
    <2>3. WritersHaveFiles' /\ WritersApart' /\ TmpsOwned(lost)'
      BY <1>1, <2>1, <2>2, NoTmpTouched
    <2> QED
      BY <2>1, <2>2, <2>3 DEF WriteInv
  <1>10. ASSUME files' = (files \ FilesNamed(c.key, t)) \cup {File(c.key, t, Torn)},
                Continue(u, <<d>>)
         PROVE  WriteInv' /\ TmpsOwned(lost)' /\ todo' \in [Users -> Seq(Ops)]
    <2>1. PICK g : g = File(c.key, t, Torn)
      OBVIOUS
    <2>2. g \in FileRecords /\ g.key = c.key /\ g.name = t /\ Len(g.name) = 2
      BY <1>3, <1>5, <2>1, NamesApart DEF FileRecords, File
    <2>3. PICK S : S = files \ FilesNamed(c.key, t)
      OBVIOUS
    <2>4. files' = S \cup {g}
      BY <1>10, <2>1, <2>3
    <2>5. /\ \A f \in S : f.key # g.key \/ f.name # g.name
          /\ S \subseteq files /\ Len(g.name) # 1 /\ FilesSound
      BY <2>2, <2>3 DEF FilesNamed, WriteInv
    <2>6. FilesSound'
      BY <2>2, <2>4, <2>5, FilePlaced
    <2>7. OtherTmpsKept(c.key, t)
      BY <2>2, <2>3, <2>4 DEF OtherTmpsKept, FilesNamed
    <2>8. /\ todo' \in [Users -> Seq(Ops)] /\ OneWrite'
          /\ OthersIdle(u) /\ todo'[u] # <<>> /\ Current(u)' = d
      BY <1>1, <1>7, <1>10, WriteContinues DEF WriteInv, OthersIdle
    <2>9. Writing(u)' /\ Exists(c.key, t)'
      BY <1>7, <2>2, <2>4, <2>8 DEF Writing, LiveOps, Exists
    <2>10. NobodyElse(u, c.key, t)
      BY <1>5 DEF WriteInv, WritersHaveFiles, NobodyElse
    <2>11. Claims(u, c.key, t)' /\ Accounted(u, c.key, t, lost)'
      BY <1>5, <1>7, <2>8, <2>9 DEF Claims, Accounted
    <2>12. WritersHaveFiles' /\ WritersApart' /\ TmpsOwned(lost)'
      BY <1>1, <2>7, <2>8, <2>10, <2>11, OthersKept
    <2> QED
      BY <2>6, <2>8, <2>12 DEF WriteInv
  <1> QED
    BY <1>8, <1>9, <1>10

\* What a user that writes owns, and that nobody else does.
LEMMA WriterOwns ==
    ASSUME DbTypeOK, WriteInv, NEW u \in Users, Writing(u)
    PROVE  \E c \in Ops :
              /\ c = Current(u) /\ c.key \in AllKeys /\ c.value \in Values /\ c.tmp \in TmpNames
              /\ Exists(c.key, c.tmp)
              /\ NobodyElse(u, c.key, c.tmp)
              /\ \A d \in {[c EXCEPT !.op = "rename"], [c EXCEPT !.op = "unlink"]} :
                    d \in Ops /\ d.key = c.key /\ d.tmp = c.tmp /\ d.value = c.value
              /\ [c EXCEPT !.op = "rename"].op = "rename"
              /\ [c EXCEPT !.op = "unlink"].op = "unlink"
  <1>1. PICK c \in Ops : c = Current(u)
    BY RunningTyped DEF Writing
  <1>2. c.key \in AllKeys /\ c.value \in Values
    BY <1>1 DEF Ops
  <1>3. c.tmp \in TmpNames /\ Exists(c.key, c.tmp)
    BY <1>1 DEF WriteInv, WritersHaveFiles
  <1>4. NobodyElse(u, c.key, c.tmp)
    BY <1>1 DEF WriteInv, WritersApart, NobodyElse
  <1>5. "rename" \in OpNames /\ "rename" \notin MoveOps /\ "unlink" \in OpNames /\ "unlink" \notin MoveOps
    BY DEF OpNames, MoveOps
  <1>6. [c EXCEPT !.op = "rename"] \in Ops /\ [c EXCEPT !.op = "unlink"] \in Ops
    BY <1>5, OpsTyped
  <1>7. \A d \in {[c EXCEPT !.op = "rename"], [c EXCEPT !.op = "unlink"]} :
           d.key = c.key /\ d.tmp = c.tmp /\ d.value = c.value
    BY DEF Ops
  <1>8. [c EXCEPT !.op = "rename"].op = "rename" /\ [c EXCEPT !.op = "unlink"].op = "unlink"
    BY DEF Ops
  <1> QED
    BY <1>1, <1>2, <1>3, <1>4, <1>6, <1>7, <1>8

\* A failed write or rename goes on to remove its temporary file.
LEMMA WriteFails ==
    ASSUME DbTypeOK, WriteInv, NEW u \in Users, Writing(u),
           Continue(u, <<[Current(u) EXCEPT !.op = "unlink"]>>), files' = files,
           NEW lost, TmpsOwned(lost)
    PROVE  WriteInv' /\ TmpsOwned(lost)' /\ todo' \in [Users -> Seq(Ops)]
  <1>1. PICK c \in Ops :
              /\ c = Current(u) /\ c.tmp \in TmpNames /\ Exists(c.key, c.tmp)
              /\ NobodyElse(u, c.key, c.tmp)
              /\ \A d \in {[c EXCEPT !.op = "rename"], [c EXCEPT !.op = "unlink"]} :
                    d \in Ops /\ d.key = c.key /\ d.tmp = c.tmp /\ d.value = c.value
              /\ [c EXCEPT !.op = "unlink"].op = "unlink"
    BY WriterOwns
  <1>2. PICK d \in Ops : d = [c EXCEPT !.op = "unlink"]
    BY <1>1
  <1>3. d.op = "unlink" /\ d.key = c.key /\ d.tmp = c.tmp
    BY <1>1, <1>2
  <1>4. todo[u] # <<>> /\ Continue(u, <<d>>)
    BY <1>1, <1>2 DEF Writing
  <1>5. /\ todo' \in [Users -> Seq(Ops)] /\ OneWrite'
        /\ OthersIdle(u) /\ todo'[u] # <<>> /\ Current(u)' = d
    BY <1>4, WriteContinues DEF WriteInv, OthersIdle
  <1>6. FilesSound' /\ OtherTmpsKept(c.key, c.tmp) /\ Exists(c.key, c.tmp)'
    BY <1>1, FilesRemoved DEF WriteInv, OtherTmpsKept, Exists
  <1>7. Claims(u, c.key, c.tmp)' /\ Accounted(u, c.key, c.tmp, lost)'
    BY <1>1, <1>3, <1>5, <1>6 DEF Claims, Accounted, Writing, LiveOps
  <1>8. WritersHaveFiles' /\ WritersApart' /\ TmpsOwned(lost)'
    BY <1>1, <1>5, <1>6, <1>7, OthersKept
  <1> QED
    BY <1>5, <1>6, <1>8 DEF WriteInv

\* FillTmp: a temporary file that may be renamed holds the value.
LEMMA FillTmpInv ==
    ASSUME DbTypeOK, WriteInv, NEW u \in Users, FillTmp(u), NEW lost, TmpsOwned(lost)
    PROVE  WriteInv' /\ TmpsOwned(lost)' /\ todo' \in [Users -> Seq(Ops)]
  <1>1. Writing(u)
    BY DEF FillTmp, Doing, Current, Writing, LiveOps
  <1>2. PICK c \in Ops :
              /\ c = Current(u) /\ c.key \in AllKeys /\ c.value \in Values /\ c.tmp \in TmpNames
              /\ Exists(c.key, c.tmp)
              /\ NobodyElse(u, c.key, c.tmp)
              /\ \A d \in {[c EXCEPT !.op = "rename"], [c EXCEPT !.op = "unlink"]} :
                    d \in Ops /\ d.key = c.key /\ d.tmp = c.tmp /\ d.value = c.value
              /\ [c EXCEPT !.op = "rename"].op = "rename"
    BY <1>1, WriterOwns
  <1>3. \/ /\ files' = (files \ FilesNamed(c.key, c.tmp)) \cup {File(c.key, c.tmp, c.value)}
           /\ Continue(u, <<[c EXCEPT !.op = "rename"]>>)
        \/ files' = files /\ Continue(u, <<[c EXCEPT !.op = "unlink"]>>)
    BY <1>2 DEF FillTmp
  <1>4. CASE files' = files /\ Continue(u, <<[c EXCEPT !.op = "unlink"]>>)
    BY <1>1, <1>2, <1>4, WriteFails
  <1>5. ASSUME files' = (files \ FilesNamed(c.key, c.tmp)) \cup {File(c.key, c.tmp, c.value)},
               Continue(u, <<[c EXCEPT !.op = "rename"]>>)
        PROVE  WriteInv' /\ TmpsOwned(lost)' /\ todo' \in [Users -> Seq(Ops)]
    <2>1. PICK g : g = File(c.key, c.tmp, c.value)
      OBVIOUS
    <2>2. /\ g \in FileRecords /\ g.key = c.key /\ g.name = c.tmp /\ Len(g.name) = 2
          /\ g.contents = c.value
      BY <1>2, <2>1, NamesApart DEF FileRecords, File
    <2>3. PICK S : S = files \ FilesNamed(c.key, c.tmp)
      OBVIOUS
    <2>4. files' = S \cup {g}
      BY <1>5, <2>1, <2>3
    <2>5. /\ \A f \in S : f.key # g.key \/ f.name # g.name
          /\ S \subseteq files /\ Len(g.name) # 1 /\ FilesSound
      BY <2>2, <2>3 DEF FilesNamed, WriteInv
    <2>6. FilesSound'
      BY <2>2, <2>4, <2>5, FilePlaced
    <2>7. OtherTmpsKept(c.key, c.tmp)
      BY <2>2, <2>3, <2>4 DEF OtherTmpsKept, FilesNamed
    <2>8. PICK d \in Ops : d = [c EXCEPT !.op = "rename"]
      BY <1>2
    <2>9. d.op = "rename" /\ d.key = c.key /\ d.tmp = c.tmp /\ d.value = c.value
      BY <1>2, <2>8
    <2>10. /\ todo' \in [Users -> Seq(Ops)] /\ OneWrite'
           /\ OthersIdle(u) /\ todo'[u] # <<>> /\ Current(u)' = d
      BY <1>1, <1>5, <2>8, WriteContinues DEF WriteInv, OthersIdle, Writing
    <2>11. Writing(u)' /\ Exists(c.key, c.tmp)'
      BY <2>2, <2>4, <2>9, <2>10 DEF Writing, LiveOps, Exists
    <2>12. \A f \in files' : f.key = c.key /\ f.name = c.tmp => f.contents = c.value
      BY <2>2, <2>3, <2>4 DEF FilesNamed
    <2>13. Claims(u, c.key, c.tmp)' /\ Accounted(u, c.key, c.tmp, lost)'
      BY <1>2, <2>9, <2>10, <2>11, <2>12 DEF Claims, Accounted
    <2>14. WritersHaveFiles' /\ WritersApart' /\ TmpsOwned(lost)'
      BY <1>2, <2>7, <2>10, <2>13, OthersKept
    <2> QED
      BY <2>6, <2>10, <2>14 DEF WriteInv
  <1> QED
    BY <1>3, <1>4, <1>5

\* RenameTmp: the value's own file is the filled temporary one.
LEMMA RenameTmpInv ==
    ASSUME DbTypeOK, WriteInv, NEW u \in Users, RenameTmp(u), NEW lost, TmpsOwned(lost)
    PROVE  WriteInv' /\ TmpsOwned(lost)' /\ todo' \in [Users -> Seq(Ops)]
  <1>1. Writing(u) /\ Current(u).op = "rename"
    BY DEF RenameTmp, Doing, Current, Writing, LiveOps
  <1>2. PICK c \in Ops :
              /\ c = Current(u) /\ c.key \in AllKeys /\ c.value \in Values /\ c.tmp \in TmpNames
              /\ Exists(c.key, c.tmp)
              /\ NobodyElse(u, c.key, c.tmp)
    BY <1>1, WriterOwns
  <1>3. PICK path : path = ValuePath(c.value)
    OBVIOUS
  <1>4. path \in OwnNames /\ path \notin TmpNames /\ path[1] = c.value /\ Len(path) = 1
    BY <1>2, <1>3, NamesApart
  <1>5. \/ /\ files' =
                 {f \in files : f.key # c.key \/ f.name \notin {c.tmp, path}}
                    \cup {[f EXCEPT !.name = path] : f \in FilesNamed(c.key, c.tmp)}
           /\ Continue(u, <<>>)
        \/ files' = files /\ Continue(u, <<[c EXCEPT !.op = "unlink"]>>)
    BY <1>2, <1>3 DEF RenameTmp
  <1>6. CASE files' = files /\ Continue(u, <<[c EXCEPT !.op = "unlink"]>>)
    BY <1>1, <1>2, <1>6, WriteFails
  <1>7. ASSUME files' =
                  {f \in files : f.key # c.key \/ f.name \notin {c.tmp, path}}
                     \cup {[f EXCEPT !.name = path] : f \in FilesNamed(c.key, c.tmp)},
               Continue(u, <<>>)
        PROVE  WriteInv' /\ TmpsOwned(lost)' /\ todo' \in [Users -> Seq(Ops)]
    <2>1. PICK f \in files : /\ f.key = c.key /\ f.name = c.tmp
                             /\ FilesNamed(c.key, c.tmp) = {f}
      BY <1>2, OneNamed DEF WriteInv
    <2>2. f.contents = c.value
      BY <1>1, <1>2, <2>1 DEF WriteInv, WritersHaveFiles
    <2>3. PICK g : g = [f EXCEPT !.name = path]
      OBVIOUS
    <2>4. f \in FileRecords
      BY DEF WriteInv, FilesSound
    <2>5. /\ g \in FileRecords /\ g.key = c.key /\ g.name = path
          /\ Len(g.name) = 1 /\ g.contents = g.name[1]
      BY <1>4, <2>1, <2>2, <2>3, <2>4 DEF FileRecords
    <2>6. PICK S : S = {h \in files : h.key # c.key \/ h.name \notin {c.tmp, path}}
      OBVIOUS
    <2>7. files' = S \cup {g}
      BY <1>7, <2>1, <2>3, <2>6
    <2>8. /\ \A h \in S : h.key # g.key \/ h.name # g.name
          /\ S \subseteq files /\ FilesSound
      BY <2>5, <2>6 DEF WriteInv
    <2>9. FilesSound'
      BY <2>5, <2>7, <2>8, FilePlaced
    <2>10. OtherTmpsKept(c.key, c.tmp)
      BY <1>4, <2>5, <2>6, <2>7 DEF OtherTmpsKept
    <2>11. /\ todo' \in [Users -> Seq(Ops)] /\ OneWrite' /\ ~Writing(u)' /\ OthersIdle(u)
      BY <1>1, <1>2, <1>7, WriteContinues DEF WriteInv, OthersIdle, Writing
    <2>12. \A h \in files' : h.key # c.key \/ h.name # c.tmp
      BY <1>2, <1>4, <2>5, <2>6, <2>7
    <2>13. Claims(u, c.key, c.tmp)' /\ Accounted(u, c.key, c.tmp, lost)'
      BY <2>11, <2>12 DEF Claims, Accounted
    <2>14. WritersHaveFiles' /\ WritersApart' /\ TmpsOwned(lost)'
      BY <1>2, <2>10, <2>11, <2>13, OthersKept
    <2> QED
      BY <2>9, <2>11, <2>14 DEF WriteInv
  <1> QED
    BY <1>5, <1>6, <1>7

\* The files named `more` are those of `lost`, and the one that u fails to remove, if it does.
Abandons(u, lost, more) ==
    /\ lost \subseteq more
    /\ failing /\ Doing(u, "unlink") /\ files' = files =>
          \A f \in files : f.key = Current(u).key /\ f.name = Current(u).tmp => <<f.key, f.name>> \in more

\* UnlinkTmp: a failed write leaves no temporary file behind, unless its removal fails too.
LEMMA UnlinkTmpInv ==
    ASSUME DbTypeOK, WriteInv, NEW u \in Users, UnlinkTmp(u), NEW lost, TmpsOwned(lost),
           NEW more, Abandons(u, lost, more)
    PROVE  WriteInv' /\ TmpsOwned(more)' /\ todo' \in [Users -> Seq(Ops)]
  <1>1. Writing(u)
    BY DEF UnlinkTmp, Doing, Current, Writing, LiveOps
  <1>2. PICK c \in Ops : c = Current(u) /\ c.tmp \in TmpNames /\ NobodyElse(u, c.key, c.tmp)
    BY <1>1, WriterOwns
  <1>3. /\ files' = files \ FilesNamed(c.key, c.tmp) \/ (failing /\ files' = files)
        /\ Continue(u, <<>>)
    BY <1>2 DEF UnlinkTmp
  <1>4. FilesSound' /\ OtherTmpsKept(c.key, c.tmp)
    BY <1>3, FilesRemoved DEF WriteInv, OtherTmpsKept, FilesNamed
  <1>5. todo' \in [Users -> Seq(Ops)] /\ OneWrite' /\ ~Writing(u)' /\ OthersIdle(u)
    BY <1>1, <1>2, <1>3, WriteContinues DEF WriteInv, OthersIdle, Writing
  <1>6. \A h \in files' : h.key = c.key /\ h.name = c.tmp => <<c.key, c.tmp>> \in more
    <2>1. CASE files' = files \ FilesNamed(c.key, c.tmp)
      BY <2>1 DEF FilesNamed
    <2>2. CASE failing /\ files' = files
      <3>1. Doing(u, "unlink")
        BY DEF UnlinkTmp
      <3> QED
        BY <1>2, <2>2, <3>1 DEF Abandons
    <2> QED
      BY <1>3, <2>1, <2>2
  <1>7. Claims(u, c.key, c.tmp)' /\ Accounted(u, c.key, c.tmp, more)' /\ lost \subseteq more
    BY <1>5, <1>6 DEF Claims, Accounted, Abandons
  <1>8. WritersHaveFiles' /\ WritersApart' /\ TmpsOwned(more)'
    BY <1>2, <1>4, <1>5, <1>7, OthersKept
  <1> QED
    BY <1>4, <1>5, <1>8 DEF WriteInv

-----------------------------------------------------------------------------
(* Every step.                                                                    *)

\* A step of a call makes or removes directories of keys only.
LEMMA DirsTyped ==
    ASSUME DbTypeOK, NEW u \in Users, DbStep(u)
    PROVE  dirs' \subseteq AllKeys
  <1>1. dirs \subseteq AllKeys
    BY DEF DbTypeOK
  <1>2. CASE UNCHANGED dirs
    BY <1>1, <1>2
  <1>3. CASE MakeDir(u) \/ RemoveDir(u) \/ MoveMakeDir(u)
    <2>1. todo[u] # <<>>
      BY <1>3 DEF MakeDir, RemoveDir, MoveMakeDir, Doing
    <2>2. PICK c \in Ops : c = Current(u)
      BY <2>1, RunningTyped
    <2>3. c.key \in AllKeys /\ c.to \in AllKeys
      BY <2>2 DEF Ops
    <2>4. dirs' = dirs \/ dirs' = dirs \cup {c.key} \/ dirs' = dirs \ {c.key} \/ dirs' = dirs \cup {c.to}
      BY <1>3, <2>2 DEF MakeDir, RemoveDir, MoveMakeDir
    <2> QED
      BY <1>1, <2>3, <2>4
  <1>4. UNCHANGED dirs \/ MakeDir(u) \/ RemoveDir(u) \/ MoveMakeDir(u)
    <2>1. ASSUME SaveBegins(u) \/ Probe(u) \/ OpenTmp(u) \/ FillTmp(u) \/ RenameTmp(u) \/ UnlinkTmp(u)
          PROVE  UNCHANGED dirs
      BY <2>1 DEF SaveBegins, Probe, OpenTmp, FillTmp, RenameTmp, UnlinkTmp
    <2>2. ASSUME RemoveFile(u) \/ MoveBegins(u) \/ MoveRename(u)
          PROVE  UNCHANGED dirs
      BY <2>2 DEF RemoveFile, MoveBegins, MoveRename
    <2> QED
      BY <2>1, <2>2 DEF DbStep
  <1> QED
    BY <1>2, <1>3, <1>4

-----------------------------------------------------------------------------
(* What is stored.                                                                *)

WriteOps == {"save", "mkdir", "probe", "open", "fill", "rename"}

\* The operations of a save that run in a directory it has made or found.
InDir == {"probe", "open", "fill", "rename"}
\* What is stored depends on the files alone.
LEMMA SameFiles ==
    ASSUME files' = files
    PROVE  \A k : Stored(k)' = Stored(k)
  BY DEF Stored, Exists, Values, ValuePath

\* Two sets of files with the same own files of values store the same.
LEMMA SameOwnFiles ==
    ASSUME NEW k, \A v \in Values : (\E f \in files' : f.key = k /\ f.name = ValuePath(v))
                                       <=> (\E f \in files : f.key = k /\ f.name = ValuePath(v))
    PROVE  Stored(k)' = Stored(k)
  BY DEF Stored, Exists, Values, ValuePath

\* Names of values tell the values apart.
LEMMA PathsDiffer ==
    /\ \A v, w : ValuePath(v) = ValuePath(w) => v = w
    /\ \A v \in Values : ValuePath(v) \in OwnNames /\ ValuePath(v) \notin TmpNames
  <1>1. \A v, w : ValuePath(v) = ValuePath(w) => v = w
    BY DEF ValuePath
  <1> QED
    BY <1>1, NamesApart

\* The files of every step are in directories that exist.
LEMMA FilesInDirs ==
    ASSUME DbTypeOK, WriteInv, NEW u \in Users, DbStep(u), \A f \in files : f.key \in dirs
    PROVE  (\A f \in files : f.key \in dirs)'
  <1>1. todo[u] # <<>>
    <2>1. QuietStep(u) \/ WriteStep(u)
      BY DEF DbStep, QuietStep, WriteStep
    <2>2. WriteStep(u) => todo[u] # <<>>
      BY DEF WriteStep, OpenTmp, FillTmp, RenameTmp, UnlinkTmp, Doing
    <2> QED
      BY <2>1, <2>2, QuietContinues
  <1>2. PICK c \in Ops : c = Current(u)
    BY <1>1, RunningTyped
  <1>3. ASSUME SaveBegins(u) \/ Probe(u) \/ MoveBegins(u)
        PROVE  files' = files /\ dirs' = dirs
    BY <1>3 DEF SaveBegins, Probe, MoveBegins
  <1>4. ASSUME MakeDir(u) \/ MoveMakeDir(u)
        PROVE  files' = files /\ dirs \subseteq dirs'
    BY <1>4 DEF MakeDir, MoveMakeDir
  <1>5. ASSUME UnlinkTmp(u) \/ RemoveFile(u)
        PROVE  files' \subseteq files /\ dirs' = dirs
    BY <1>5 DEF UnlinkTmp, RemoveFile
  <1>6. CASE RemoveDir(u)
    BY <1>6 DEF RemoveDir
  <1>7. CASE OpenTmp(u)
    <2>1. PICK t : t = TempPath(c.key, c.value)
      OBVIOUS
    <2>2. /\ dirs' = dirs
          /\ \/ files' = files
             \/ /\ c.key \in dirs
                /\ files' = (files \ FilesNamed(c.key, t)) \cup {File(c.key, t, Torn)}
      BY <1>2, <1>7, <2>1 DEF OpenTmp
    <2>3. File(c.key, t, Torn).key = c.key
      BY DEF File
    <2> QED
      BY <2>2, <2>3
  <1>8. CASE FillTmp(u) \/ RenameTmp(u)
    <2>1. Writing(u)
      BY <1>8 DEF FillTmp, RenameTmp, Doing, Current, Writing, LiveOps
    <2>2. Exists(c.key, c.tmp) /\ c.value \in Values
      BY <1>2, <2>1, WriterOwns
    <2>3. c.key \in dirs
      BY <2>2 DEF Exists
    <2>4. CASE FillTmp(u)
      <3>1. /\ dirs' = dirs
            /\ \/ files' = files
               \/ files' = (files \ FilesNamed(c.key, c.tmp)) \cup {File(c.key, c.tmp, c.value)}
        BY <1>2, <2>4 DEF FillTmp
      <3>2. File(c.key, c.tmp, c.value).key = c.key
        BY DEF File
      <3> QED
        BY <2>3, <3>1, <3>2
    <2>5. CASE RenameTmp(u)
      <3>1. PICK path : path = ValuePath(c.value)
        OBVIOUS
      <3>2. /\ dirs' = dirs
            /\ \/ files' = files
               \/ files' = {f \in files : f.key # c.key \/ f.name \notin {c.tmp, path}}
                              \cup {[f EXCEPT !.name = path] : f \in FilesNamed(c.key, c.tmp)}
        BY <1>2, <2>5, <3>1 DEF RenameTmp
      <3>3. ASSUME NEW f \in FilesNamed(c.key, c.tmp) PROVE [f EXCEPT !.name = path].key = c.key
        <4>1. f \in FileRecords /\ f.key = c.key
          BY DEF FilesNamed, WriteInv, FilesSound
        <4> QED
          BY <4>1 DEF FileRecords
      <3> QED
        BY <2>3, <3>2, <3>3
    <2> QED
      BY <1>8, <2>4, <2>5
  <1>9. CASE MoveRename(u)
    <2>1. PICK path : path = ValuePath(c.value)
      OBVIOUS
    <2>2. /\ dirs' = dirs
          /\ \/ files' = files
             \/ /\ c.to \in dirs
                /\ files' = (files \ (FilesNamed(c.key, path) \cup FilesNamed(c.to, path)))
                               \cup {[f EXCEPT !.key = c.to] : f \in FilesNamed(c.key, path)}
      BY <1>2, <1>9, <2>1 DEF MoveRename
    <2>3. ASSUME NEW f \in FilesNamed(c.key, path) PROVE [f EXCEPT !.key = c.to].key = c.to
      <3>1. f \in FileRecords
        BY DEF FilesNamed, WriteInv, FilesSound
      <3> QED
        BY <3>1 DEF FileRecords
    <2> QED
      BY <2>2, <2>3
  <1> QED
    BY <1>3, <1>4, <1>5, <1>6, <1>7, <1>8, <1>9 DEF DbStep

\* What an operation that save or move_value builds on leaves to do shows that it failed.
LEMMA FailureCounts ==
    ASSUME DbTypeOK, NEW u \in Users, failing => ~Fails(u)
    PROVE  /\ Doing(u, "mkdir") \/ Doing(u, "open") => ~(failing /\ Continue(u, <<>>))
           /\ Doing(u, "fill") \/ Doing(u, "rename") =>
                 ~(failing /\ Continue(u, <<[Current(u) EXCEPT !.op = "unlink"]>>))
  <1>1. todo \in [Users -> Seq(Ops)] /\ todo[u] \in Seq(Ops)
    BY DEF DbTypeOK
  <1>2. ASSUME todo[u] # <<>>, Continue(u, <<>>)
        PROVE  Len(todo'[u]) < Len(todo[u])
    <2>1. PICK s \in Seq(Ops) : s = todo[u]
      BY <1>1
    <2>2. Tail(s) \in Seq(Ops) /\ Len(Tail(s)) = Len(s) - 1 /\ Len(s) \in Nat
      BY <1>2, <2>1, StackPopped
    <2>3. PICK t \in Seq(Ops) : t = Tail(s)
      BY <2>2
    <2>4. todo'[u] = <<>> \o t
      BY <1>1, <1>2, <2>1, <2>3 DEF Continue
    <2>5. Len(<<>> \o t) = Len(t)
      OBVIOUS
    <2> QED
      BY <2>1, <2>2, <2>3, <2>4, <2>5
  <1>3. ASSUME todo[u] # <<>>, Continue(u, <<[Current(u) EXCEPT !.op = "unlink"]>>)
        PROVE  Doing(u, "unlink")'
    <2>1. PICK s \in Seq(Ops) : s = todo[u]
      BY <1>1
    <2>2. PICK t \in Seq(Ops) : t = Tail(s)
      BY <1>3, <2>1, StackPopped
    <2>3. PICK d : d = [Current(u) EXCEPT !.op = "unlink"]
      OBVIOUS
    <2>4. d \in Ops /\ d.op = "unlink"
      <3>1. PICK c \in Ops : c = Current(u)
        BY <1>3, RunningTyped
      <3>2. "unlink" \in OpNames \ MoveOps
        BY DEF OpNames, MoveOps
      <3>3. d \in Ops
        BY <2>3, <3>1, <3>2, OpsTyped, Zenon
      <3> QED
        BY <2>3, <3>1, <3>3 DEF Ops
    <2>5. todo'[u] = <<d>> \o t
      BY <1>1, <1>3, <2>1, <2>2, <2>3 DEF Continue
    <2>6. PICK r : r = <<d>> \o t
      OBVIOUS
    <2>7. r # <<>> /\ Head(r) = d
      BY <2>2, <2>4, <2>6
    <2> QED
      BY <2>4, <2>5, <2>6, <2>7 DEF Doing
  <1> QED
    BY <1>2, <1>3 DEF Fails, Doing

\* Renaming a filled temporary file stores the value under its key.
LEMMA RenameStores ==
    ASSUME DbTypeOK, WriteInv, NEW u \in Users, RenameTmp(u), failing => ~Fails(u), NEW c \in Ops, c = Current(u)
    PROVE  /\ Continue(u, <<>>)
           /\ Stored(c.key)' = Stored(c.key) \cup {c.value}
           /\ \A k : k # c.key => Stored(k)' = Stored(k)
  <1>1. Writing(u)
    BY DEF RenameTmp, Doing, Current, Writing, LiveOps
  <1>2. c.value \in Values /\ c.tmp \in TmpNames /\ Exists(c.key, c.tmp)
    BY <1>1, WriterOwns
  <1>3. PICK path : path = ValuePath(c.value)
    OBVIOUS
  <1>4. /\ files' = {f \in files : f.key # c.key \/ f.name \notin {c.tmp, path}}
                       \cup {[f EXCEPT !.name = path] : f \in FilesNamed(c.key, c.tmp)}
        /\ Continue(u, <<>>)
    <2>1. ~(failing /\ Continue(u, <<[c EXCEPT !.op = "unlink"]>>))
      BY <1>1, FailureCounts DEF RenameTmp
    <2> QED
      BY <1>2, <1>3, <2>1 DEF RenameTmp
  <1>5. PICK h \in files : h.key = c.key /\ h.name = c.tmp /\ FilesNamed(c.key, c.tmp) = {h}
    BY <1>2, OneNamed DEF WriteInv
  <1>6. PICK g : g = [h EXCEPT !.name = path]
    OBVIOUS
  <1>7. g.key = c.key /\ g.name = path
    <2>1. h \in FileRecords
      BY DEF WriteInv, FilesSound
    <2> QED
      BY <1>5, <1>6, <2>1 DEF FileRecords
  <1>8. files' = {f \in files : f.key # c.key \/ f.name \notin {c.tmp, path}} \cup {g}
    BY <1>4, <1>5, <1>6
  <1>9. ASSUME NEW k, NEW v \in Values
        PROVE  (\E f \in files' : f.key = k /\ f.name = ValuePath(v))
                  <=> \/ \E f \in files : f.key = k /\ f.name = ValuePath(v)
                      \/ k = c.key /\ v = c.value
    <2>1. ValuePath(v) # c.tmp /\ (ValuePath(v) = path => v = c.value)
      BY <1>2, <1>3, PathsDiffer
    <2>2. CASE k = c.key /\ v = c.value
      BY <1>3, <1>7, <1>8, <2>2
    <2>3. CASE k # c.key \/ v # c.value
      BY <1>7, <1>8, <2>1, <2>3
    <2> QED
      BY <2>2, <2>3
  <1>10. Stored(c.key)' = Stored(c.key) \cup {c.value}
    <2>1. \A v \in Values : (\E f \in files' : f.key = c.key /\ f.name = ValuePath(v))
                               <=> \/ \E f \in files : f.key = c.key /\ f.name = ValuePath(v)
                                   \/ v = c.value
      BY <1>9
    <2> QED
      BY <1>2, <2>1 DEF Stored, Exists, Values, ValuePath
  <1>11. ASSUME NEW k, k # c.key PROVE Stored(k)' = Stored(k)
    BY <1>9, <1>11, SameOwnFiles
  <1> QED
    BY <1>2, <1>4, <1>10, <1>11

\* Creating and filling a temporary file stores nothing yet.
LEMMA TmpStoresNothing ==
    ASSUME DbTypeOK, WriteInv, NEW u \in Users, OpenTmp(u) \/ FillTmp(u)
    PROVE  \A k : Stored(k)' = Stored(k)
  <1>1. PICK c \in Ops : c = Current(u)
    BY RunningTyped DEF OpenTmp, FillTmp, Doing
  <1>2. \E t, x : /\ t \in TmpNames
                 /\ \/ files' = files
                    \/ files' = (files \ FilesNamed(c.key, t)) \cup {File(c.key, t, x)}
    <2>1. CASE OpenTmp(u)
      <3>1. TempPath(c.key, c.value) \in TmpNames
        <4>1. c.value \in Values
          BY <1>1 DEF Ops
        <4> QED
          BY <4>1, TempPathFresh DEF WriteInv, FilesSound
      <3> QED
        BY <1>1, <2>1, <3>1 DEF OpenTmp
    <2>2. CASE FillTmp(u)
      <3>1. Writing(u)
        BY <2>2 DEF FillTmp, Doing, Current, Writing, LiveOps
      <3>2. c.tmp \in TmpNames
        BY <1>1, <3>1, WriterOwns
      <3> QED
        BY <1>1, <2>2, <3>2 DEF FillTmp
    <2> QED
      BY <2>1, <2>2
  <1>3. PICK t, x : /\ t \in TmpNames
                    /\ \/ files' = files
                       \/ files' = (files \ FilesNamed(c.key, t)) \cup {File(c.key, t, x)}
    BY <1>2
  <1>4. CASE files' = files
    BY <1>4, SameFiles
  <1>5. CASE files' = (files \ FilesNamed(c.key, t)) \cup {File(c.key, t, x)}
    <2>1. PICK g : g = File(c.key, t, x)
      OBVIOUS
    <2>2. g.name = t
      BY <2>1 DEF File
    <2>3. ASSUME NEW k, NEW v \in Values
          PROVE  (\E f \in files' : f.key = k /\ f.name = ValuePath(v))
                    <=> (\E f \in files : f.key = k /\ f.name = ValuePath(v))
      <3>1. ValuePath(v) # t
        BY <1>3, PathsDiffer
      <3> QED
        BY <1>5, <2>1, <2>2, <3>1 DEF FilesNamed
    <2> QED
      BY <2>3, SameOwnFiles
  <1> QED
    BY <1>3, <1>4, <1>5

\* The next stage of a write: the same value for the same key.
NextStage(c, d) ==
    /\ d \in Ops /\ d.key = c.key /\ d.value = c.value
    /\ d.op \in WriteOps /\ d.op # "save"

\* A step of a save goes on, stores its value, or has the key listed first.
LEMMA WriteOutcome ==
    ASSUME DbTypeOK, WriteInv, NEW u \in Users, DbStep(u), failing => ~Fails(u),
           NEW c \in Ops, c = Current(u), c.op \in WriteOps, c.op \in InDir => c.key \in dirs
    PROVE  \/ \E d : /\ NextStage(c, d) /\ Continue(u, <<d>>)
                     /\ d.op \in InDir => c.key \in dirs'
                     /\ d.op = "mkdir" => c.key = Metakeys \/ c.key \in dirs
                     /\ dirs' = dirs \/ (c.op = "mkdir" /\ dirs' = dirs \cup {c.key})
                     /\ \A k : Stored(k)' = Stored(k)
           \/ /\ Continue(u, <<>>) /\ dirs' = dirs /\ c.key \in dirs
              /\ Stored(c.key)' = Stored(c.key) \cup {c.value}
              /\ \A k : k # c.key => Stored(k)' = Stored(k)
           \/ \E d : /\ NextStage(c, d) /\ d.op = "mkdir" /\ Continue(u, <<Save(Metakeys, c.key), d>>)
                     /\ c.op = "save" /\ c.key \in Keys /\ dirs' = dirs
                     /\ \A k : Stored(k)' = Stored(k)
  <1>1. c.key \in AllKeys /\ c.value \in Values
    BY DEF Ops
  <1>2. \A name \in {"mkdir", "probe", "open", "rename"} : NextStage(c, [c EXCEPT !.op = name])
    <2>1. ASSUME NEW name \in {"mkdir", "probe", "open", "rename"}
          PROVE  name \in OpNames /\ name \notin MoveOps /\ name \in WriteOps /\ name # "save"
      BY DEF OpNames, MoveOps, WriteOps
    <2>2. ASSUME NEW name \in {"mkdir", "probe", "open", "rename"}
          PROVE  [c EXCEPT !.op = name] \in Ops
      BY <2>1, OpsTyped, Zenon
    <2>3. \A name : /\ [c EXCEPT !.op = name].op = name
                    /\ [c EXCEPT !.op = name].key = c.key /\ [c EXCEPT !.op = name].value = c.value
      BY DEF Ops
    <2> QED
      BY <2>1, <2>2, <2>3 DEF NextStage
  <1>3. \A name : [c EXCEPT !.op = name].op = name
    BY DEF Ops
  <1>4. CASE SaveBegins(u)
    <2>1. PICK d : d = [c EXCEPT !.op = "mkdir"] /\ NextStage(c, d) /\ d.op = "mkdir" /\ d \in Ops
      BY <1>2, <1>3 DEF NextStage
    <2>2. /\ Continue(u, (IF c.key # Metakeys /\ c.key \notin dirs
                          THEN <<Save(Metakeys, c.key)>> ELSE <<>>) \o <<d>>)
          /\ files' = files /\ dirs' = dirs /\ c.op = "save"
      BY <1>4, <2>1 DEF SaveBegins, Doing, Current
    <2>3. \A k : Stored(k)' = Stored(k)
      BY <2>2, SameFiles
    <2>4. CASE c.key # Metakeys /\ c.key \notin dirs
      <3>1. c.key \in Keys /\ Save(Metakeys, c.key) \in Ops
        BY <1>1, <2>4, OpsTyped DEF AllKeys
      <3>2. <<Save(Metakeys, c.key)>> \o <<d>> = <<Save(Metakeys, c.key), d>>
        BY <2>1, <3>1, FewOps
      <3>3. Continue(u, <<Save(Metakeys, c.key), d>>)
        BY <2>2, <2>4, <3>2
      <3> QED
        BY <2>1, <2>2, <2>3, <3>1, <3>3
    <2>5. CASE ~(c.key # Metakeys /\ c.key \notin dirs)
      <3>1. <<>> \o <<d>> = <<d>>
        BY <2>1, FewOps
      <3>2. Continue(u, <<d>>)
        BY <2>2, <2>5, <3>1
      <3>3. d.op \notin InDir
        BY <2>1 DEF InDir
      <3> QED
        BY <2>1, <2>2, <2>3, <2>5, <3>2, <3>3
    <2> QED
      BY <2>4, <2>5
  <1>5. CASE MakeDir(u)
    <2>1. PICK d : d = [c EXCEPT !.op = "probe"] /\ NextStage(c, d) /\ d.op = "probe"
      BY <1>2, <1>3
    <2>2. Continue(u, <<d>>) /\ files' = files /\ dirs' = dirs \cup {c.key} /\ c.op = "mkdir"
      <3>1. ~(failing /\ Continue(u, <<>>))
        BY <1>5, FailureCounts DEF MakeDir
      <3> QED
        BY <1>5, <2>1, <3>1 DEF MakeDir, Doing, Current
    <2>3. \A k : Stored(k)' = Stored(k)
      BY <2>2, SameFiles
    <2> QED
      BY <2>1, <2>2, <2>3
  <1>6. CASE Probe(u)
    <2>1. PICK d : d = [c EXCEPT !.op = "open"] /\ NextStage(c, d) /\ d.op = "open"
      BY <1>2, <1>3
    <2>2. /\ Continue(u, IF Exists(c.key, ValuePath(c.value)) THEN <<>> ELSE <<d>>)
          /\ files' = files /\ dirs' = dirs /\ c.op = "probe"
      BY <1>6, <2>1 DEF Probe, Doing, Current
    <2>3. c.key \in dirs /\ \A k : Stored(k)' = Stored(k)
      BY <2>2, SameFiles DEF InDir
    <2>4. CASE Exists(c.key, ValuePath(c.value))
      <3>1. c.value \in Stored(c.key)
        BY <1>1, <2>4 DEF Stored
      <3>2. Stored(c.key)' = Stored(c.key) \cup {c.value} /\ Continue(u, <<>>)
        BY <2>2, <2>3, <2>4, <3>1
      <3> QED
        BY <2>2, <2>3, <3>2
    <2>5. CASE ~Exists(c.key, ValuePath(c.value))
      <3>1. Continue(u, <<d>>)
        BY <2>2, <2>5
      <3> QED
        BY <2>1, <2>2, <2>3, <3>1
    <2> QED
      BY <2>4, <2>5
  <1>7. CASE OpenTmp(u)
    <2>1. PICK t : t = TempPath(c.key, c.value)
      OBVIOUS
    <2>2. t \in TmpNames
      BY <1>1, <2>1, TempPathFresh DEF WriteInv, FilesSound
    <2>3. PICK d : d = [c EXCEPT !.op = "fill", !.tmp = t]
      OBVIOUS
    <2>4. "fill" \in OpNames \ MoveOps
      BY DEF OpNames, MoveOps
    <2>5. d \in Ops
      BY <2>2, <2>3, <2>4, OpsTyped, Zenon
    <2>6. d.op = "fill" /\ d.key = c.key /\ d.value = c.value
      BY <2>3 DEF Ops
    <2>7. NextStage(c, d)
      BY <2>5, <2>6 DEF NextStage, WriteOps
    <2>8. c.op = "open" /\ dirs' = dirs
      BY <1>7 DEF OpenTmp, Doing, Current
    <2>9. c.key \in dirs
      BY <2>8 DEF InDir
    <2>10. Continue(u, <<d>>)
      <3>1. ~(failing /\ Continue(u, <<>>))
        BY <1>7, FailureCounts DEF OpenTmp
      <3> QED
        BY <1>7, <2>1, <2>3, <2>9, <3>1 DEF OpenTmp
    <2>11. \A k : Stored(k)' = Stored(k)
      BY <1>7, TmpStoresNothing
    <2> QED
      BY <2>6, <2>7, <2>8, <2>9, <2>10, <2>11
  <1>8. CASE FillTmp(u)
    <2>1. PICK d : d = [c EXCEPT !.op = "rename"] /\ NextStage(c, d) /\ d.op = "rename"
      BY <1>2, <1>3
    <2>2. c.op = "fill" /\ dirs' = dirs /\ Continue(u, <<d>>)
      <3>1. ~(failing /\ Continue(u, <<[c EXCEPT !.op = "unlink"]>>))
        BY <1>8, FailureCounts DEF FillTmp
      <3> QED
        BY <1>8, <2>1, <3>1 DEF FillTmp, Doing, Current
    <2>3. c.key \in dirs
      BY <2>2 DEF InDir
    <2>4. \A k : Stored(k)' = Stored(k)
      BY <1>8, TmpStoresNothing
    <2> QED
      BY <2>1, <2>2, <2>3, <2>4
  <1>9. CASE RenameTmp(u)
    <2>1. c.op = "rename" /\ dirs' = dirs
      BY <1>9 DEF RenameTmp, Doing, Current
    <2>2. c.key \in dirs
      BY <2>1 DEF InDir
    <2> QED
      BY <1>9, <2>1, <2>2, RenameStores
  <1>10. ~UnlinkTmp(u) /\ ~RemoveFile(u) /\ ~RemoveDir(u)
    BY DEF UnlinkTmp, RemoveFile, RemoveDir, Doing, Current, WriteOps
  <1>11. ~MoveBegins(u) /\ ~MoveMakeDir(u) /\ ~MoveRename(u)
    BY DEF MoveBegins, MoveMakeDir, MoveRename, Doing, Current, WriteOps
  <1> QED
    BY <1>4, <1>5, <1>6, <1>7, <1>8, <1>9, <1>10, <1>11 DEF DbStep

\* delete takes exactly its value away.
LEMMA RemoveOutcome ==
    ASSUME DbTypeOK, WriteInv, ~failing, NEW u \in Users, DbStep(u), NEW c \in Ops, c = Current(u),
           c.op = "delete"
    PROVE  /\ dirs' = dirs
           /\ \/ /\ c.value \notin Stored(c.key) /\ Continue(u, <<>>)
                 /\ \A k : Stored(k)' = Stored(k)
              \/ /\ c.value \in Stored(c.key)
                 /\ \E d \in Ops : d.op = "rmdir" /\ d.key = c.key /\ Continue(u, <<d>>)
                 /\ Stored(c.key)' = Stored(c.key) \ {c.value}
                 /\ \A k : k # c.key => Stored(k)' = Stored(k)
  <1>1. RemoveFile(u)
    <2>1. /\ ~SaveBegins(u) /\ ~MakeDir(u) /\ ~Probe(u) /\ ~OpenTmp(u) /\ ~FillTmp(u)
          /\ ~RenameTmp(u)
      BY DEF SaveBegins, MakeDir, Probe, OpenTmp, FillTmp, RenameTmp, Doing, Current
    <2>2. /\ ~UnlinkTmp(u) /\ ~RemoveDir(u) /\ ~MoveBegins(u) /\ ~MoveMakeDir(u) /\ ~MoveRename(u)
      BY DEF UnlinkTmp, RemoveDir, MoveBegins, MoveMakeDir, MoveRename, Doing, Current
    <2> QED
      BY <2>1, <2>2 DEF DbStep
  <1>2. c.value \in Values
    BY DEF Ops
  <1>3. PICK path : path = ValuePath(c.value)
    OBVIOUS
  <1>4. c.value \in Stored(c.key) <=> Exists(c.key, path)
    BY <1>2, <1>3 DEF Stored
  <1>5. dirs' = dirs
    BY <1>1 DEF RemoveFile
  <1>6. CASE ~Exists(c.key, path)
    <2>1. files' = files /\ Continue(u, <<>>)
      BY <1>1, <1>3, <1>6 DEF RemoveFile
    <2> QED
      BY <1>4, <1>5, <1>6, <2>1, SameFiles
  <1>7. CASE Exists(c.key, path)
    <2>1. PICK d : d = [c EXCEPT !.op = "rmdir"]
      OBVIOUS
    <2>2. files' = files \ FilesNamed(c.key, path) /\ Continue(u, <<d>>)
      BY <1>1, <1>3, <1>7, <2>1 DEF RemoveFile
    <2>3. d \in Ops
      <3>1. "rmdir" \in OpNames /\ "rmdir" \notin MoveOps
        BY DEF OpNames, MoveOps
      <3> QED
        BY <2>1, <3>1, OpsTyped, Zenon
    <2>4. d.op = "rmdir" /\ d.key = c.key
      BY <2>1 DEF Ops
    <2>5. ASSUME NEW k, NEW v \in Values
          PROVE  (\E f \in files' : f.key = k /\ f.name = ValuePath(v))
                    <=> /\ \E f \in files : f.key = k /\ f.name = ValuePath(v)
                        /\ k # c.key \/ v # c.value
      <3>1. ValuePath(v) = path <=> v = c.value
        BY <1>3, PathsDiffer
      <3> QED
        BY <2>2, <3>1 DEF FilesNamed
    <2>6. Stored(c.key)' = Stored(c.key) \ {c.value}
      <3>1. \A v \in Values : (\E f \in files' : f.key = c.key /\ f.name = ValuePath(v))
                                 <=> /\ \E f \in files : f.key = c.key /\ f.name = ValuePath(v)
                                     /\ v # c.value
        BY <2>5
      <3> QED
        BY <3>1 DEF Stored, Exists, Values, ValuePath
    <2>7. ASSUME NEW k, k # c.key PROVE Stored(k)' = Stored(k)
      BY <2>5, <2>7, SameOwnFiles
    <2> QED
      BY <1>4, <1>5, <1>7, <2>2, <2>3, <2>4, <2>6, <2>7
  <1> QED
    BY <1>6, <1>7

\* move_value takes exactly its value from the source to the destination, or finds none.
LEMMA MoveOutcome ==
    ASSUME DbTypeOK, WriteInv, ~failing, NEW u \in Users, DbStep(u), NEW c \in Ops, c = Current(u),
           c.op = "move_rename", c.key # c.to, c.to \in dirs
    PROVE  /\ dirs' = dirs
           /\ \/ /\ c.value \notin Stored(c.key)
                 /\ Continue(u, <<Delete(c.key, c.value), Save(c.to, c.value)>>)
                 /\ \A k : Stored(k)' = Stored(k)
              \/ /\ c.value \in Stored(c.key)
                 /\ \E d \in Ops : d.op = "rmdir" /\ d.key = c.key /\ Continue(u, <<d>>)
                 /\ Stored(c.key)' = Stored(c.key) \ {c.value}
                 /\ Stored(c.to)' = Stored(c.to) \cup {c.value}
                 /\ \A k : k # c.key /\ k # c.to => Stored(k)' = Stored(k)
  <1>1. MoveRename(u)
    <2>1. /\ ~SaveBegins(u) /\ ~MakeDir(u) /\ ~Probe(u) /\ ~OpenTmp(u) /\ ~FillTmp(u)
          /\ ~RenameTmp(u)
      BY DEF SaveBegins, MakeDir, Probe, OpenTmp, FillTmp, RenameTmp, Doing, Current
    <2>2. /\ ~UnlinkTmp(u) /\ ~RemoveDir(u) /\ ~MoveBegins(u) /\ ~MoveMakeDir(u) /\ ~RemoveFile(u)
      BY DEF UnlinkTmp, RemoveDir, MoveBegins, MoveMakeDir, RemoveFile, Doing, Current
    <2> QED
      BY <2>1, <2>2 DEF DbStep
  <1>2. c.value \in Values
    BY DEF Ops
  <1>3. PICK path : path = ValuePath(c.value)
    OBVIOUS
  <1>4. c.value \in Stored(c.key) <=> Exists(c.key, path)
    BY <1>2, <1>3 DEF Stored
  <1>5. dirs' = dirs
    BY <1>1 DEF MoveRename
  <1>6. CASE ~Exists(c.key, path)
    <2>1. files' = files /\ Continue(u, <<Delete(c.key, c.value), Save(c.to, c.value)>>)
      BY <1>1, <1>3, <1>6 DEF MoveRename, MoveFallback
    <2> QED
      BY <1>4, <1>5, <1>6, <2>1, SameFiles
  <1>7. CASE Exists(c.key, path)
    <2>1. PICK d : d = [c EXCEPT !.op = "rmdir"]
      OBVIOUS
    <2>2. /\ files' = (files \ (FilesNamed(c.key, path) \cup FilesNamed(c.to, path)))
                         \cup {[f EXCEPT !.key = c.to] : f \in FilesNamed(c.key, path)}
          /\ Continue(u, <<d>>)
      BY <1>1, <1>3, <1>7, <2>1 DEF MoveRename
    <2>3. d \in Ops
      <3>1. "rmdir" \in OpNames /\ "rmdir" \notin MoveOps
        BY DEF OpNames, MoveOps
      <3> QED
        BY <2>1, <3>1, OpsTyped, Zenon
    <2>4. d.op = "rmdir" /\ d.key = c.key
      BY <2>1 DEF Ops
    <2>5. PICK h \in files : h.key = c.key /\ h.name = path /\ FilesNamed(c.key, path) = {h}
      BY <1>7, OneNamed DEF WriteInv
    <2>6. PICK g : g = [h EXCEPT !.key = c.to]
      OBVIOUS
    <2>7. g.key = c.to /\ g.name = path
      <3>1. h \in FileRecords
        BY DEF WriteInv, FilesSound
      <3> QED
        BY <2>5, <2>6, <3>1 DEF FileRecords
    <2>8. files' = (files \ (FilesNamed(c.key, path) \cup FilesNamed(c.to, path))) \cup {g}
      BY <2>2, <2>5, <2>6
    <2>9. ASSUME NEW k, NEW v \in Values
          PROVE  (\E f \in files' : f.key = k /\ f.name = ValuePath(v))
                    <=> \/ /\ \E f \in files : f.key = k /\ f.name = ValuePath(v)
                           /\ k # c.key \/ v # c.value
                        \/ k = c.to /\ v = c.value
      <3>1. ValuePath(v) = path <=> v = c.value
        BY <1>3, PathsDiffer
      <3>2. CASE k = c.to /\ v = c.value
        BY <2>7, <2>8, <3>1, <3>2
      <3>3. CASE k # c.to \/ v # c.value
        BY <2>7, <2>8, <3>1, <3>3 DEF FilesNamed
      <3> QED
        BY <3>2, <3>3
    <2>10. Stored(c.key)' = Stored(c.key) \ {c.value}
      <3>1. \A v \in Values : (\E f \in files' : f.key = c.key /\ f.name = ValuePath(v))
                                 <=> /\ \E f \in files : f.key = c.key /\ f.name = ValuePath(v)
                                     /\ v # c.value
        BY <2>9
      <3> QED
        BY <3>1 DEF Stored, Exists, Values, ValuePath
    <2>11. Stored(c.to)' = Stored(c.to) \cup {c.value}
      <3>1. \A v \in Values : (\E f \in files' : f.key = c.to /\ f.name = ValuePath(v))
                                 <=> \/ \E f \in files : f.key = c.to /\ f.name = ValuePath(v)
                                     \/ v = c.value
        BY <2>9
      <3> QED
        BY <1>2, <3>1 DEF Stored, Exists, Values, ValuePath
    <2>12. ASSUME NEW k, k # c.key, k # c.to PROVE Stored(k)' = Stored(k)
      <3>1. \A v \in Values : (\E f \in files' : f.key = k /\ f.name = ValuePath(v))
                                 <=> \E f \in files : f.key = k /\ f.name = ValuePath(v)
        BY <2>9, <2>12
      <3> QED
        BY <3>1, SameOwnFiles
    <2> QED
      BY <1>4, <1>5, <1>7, <2>2, <2>3, <2>4, <2>10, <2>11, <2>12
  <1> QED
    BY <1>6, <1>7

\* A step has an operation to carry out.
LEMMA StepRuns ==
    ASSUME DbTypeOK, NEW u \in Users, DbStep(u)
    PROVE  todo[u] # <<>> /\ Current(u) \in Ops
  <1>1. todo[u] # <<>>
    <2>1. QuietStep(u) \/ WriteStep(u)
      BY DEF DbStep, QuietStep, WriteStep
    <2>2. WriteStep(u) => todo[u] # <<>>
      BY DEF WriteStep, OpenTmp, FillTmp, RenameTmp, UnlinkTmp, Doing
    <2> QED
      BY <2>1, <2>2, QuietContinues
  <1> QED
    BY <1>1, RunningTyped

\* Whatever the running operation is, and whether or not it fails, the directory stays sound.
LEMMA DbStepSound ==
    ASSUME DbTypeOK, WriteInv, NEW lost, TmpsOwned(lost), NEW u \in Users, DbStep(u),
           NEW more, Abandons(u, lost, more)
    PROVE  DbTypeOK' /\ WriteInv' /\ TmpsOwned(more)'
  <1>1. QuietStep(u) \/ WriteStep(u)
    BY DEF DbStep, QuietStep, WriteStep
  <1>m. TmpsOwned(lost)' => TmpsOwned(more)'
    BY DEF Abandons, TmpsOwned
  <1>2. WriteInv' /\ TmpsOwned(more)' /\ todo' \in [Users -> Seq(Ops)]
    BY <1>1, <1>m, QuietTmpInv, OpenTmpInv, FillTmpInv, RenameTmpInv, UnlinkTmpInv DEF WriteStep
  <1>3. dirs' \subseteq AllKeys /\ failing' \in BOOLEAN
    BY DirsTyped DEF DbStep, DbTypeOK
  <1>4. FilesSound'
    BY <1>2 DEF WriteInv
  <1> QED
    BY <1>2, <1>3, <1>4 DEF DbTypeOK, FilesSound, FileRecords, AllKeys, Values, OwnNames,
                            TmpNames, Ops, OpNames, MoveOps

\* The directory stays sound as well while nothing happens to it.
LEMMA DbUnchanged ==
    ASSUME DbTypeOK, WriteInv, NEW lost, TmpsOwned(lost), UNCHANGED dbVars
    PROVE  DbTypeOK' /\ WriteInv' /\ TmpsOwned(lost)'
  <1>1. UNCHANGED <<failing, dirs, files, todo>>
    BY DEF dbVars
  <1>2. DbTypeOK'
    BY <1>1 DEF DbTypeOK, OwnNames, TmpNames, Ops, OpNames, MoveOps, AllKeys, Values
  <1>3. FilesSound' /\ OneWrite'
    BY <1>1 DEF WriteInv, FilesSound, OneWrite, WholeEntries, FileRecords, AllKeys, Values,
                OwnNames, TmpNames
  <1>4. WritersHaveFiles' /\ WritersApart' /\ TmpsOwned(lost)'
    BY <1>1 DEF WriteInv, WritersHaveFiles, WritersApart, TmpsOwned, Writing, Current, Exists,
                FilesNamed, TmpNames, Values
  <1> QED
    BY <1>2, <1>3, <1>4 DEF WriteInv

\* An empty database, and users with nothing to do.
LEMMA DbInitSound ==
    ASSUME DbInit, failing \in BOOLEAN
    PROVE  DbTypeOK /\ WriteInv /\ \A lost : TmpsOwned(lost)
  <1>1. dirs = {} /\ files = {} /\ todo = [u \in Users |-> <<>>]
    BY DEF DbInit
  <1>2. todo \in [Users -> Seq(Ops)] /\ \A u \in Users : todo[u] = <<>>
    BY <1>1
  <1>3. DbTypeOK
    BY <1>1, <1>2 DEF DbTypeOK
  <1>4. FilesSound
    BY <1>1, FS_EmptySet DEF FilesSound, WholeEntries
  <1>5. OneWrite /\ WritersHaveFiles /\ WritersApart /\ \A lost : TmpsOwned(lost)
    BY <1>1, <1>2 DEF OneWrite, WritersHaveFiles, WritersApart, TmpsOwned, Writing
  <1> QED
    BY <1>3, <1>4, <1>5 DEF WriteInv

=============================================================================
