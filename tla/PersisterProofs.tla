--------------------------- MODULE PersisterProofs ---------------------------
(* Proofs about the Persister: what a run leaves on disk at every instant, kills     *)
(* included, and what the next run makes of it.  The stack of file operations is      *)
(* reduced to what it will add to a key and take from it; every other fact is about   *)
(* the memory of the run and the values the two keys hold.                            *)
EXTENDS Persister, ExampleDatabaseProofs

-----------------------------------------------------------------------------
(* What the operations still to do will add to a key of the callers, and take from it. *)

Adds(c, k, v) ==
    /\ c.value = v
    /\ \/ c.op \in WriteOps /\ c.key = k
       \/ c.op \in MoveOps /\ c.to = k

Drops(c, k, v) ==
    c.value = v /\ c.key = k /\ (c.op = "delete" \/ c.op \in MoveOps)

Work == todo[Engine]

\* The operations that only the running one can be.
Heads == {"probe", "open", "fill", "rename", "rmdir", "move_rename"}

OpFits(c) ==
    /\ c \in Ops /\ c.op # "unlink"
    /\ c.op # "rmdir" /\ c.key \in Keys => c.value \in Entries
    /\ c.op \in MoveOps => c.key = Primary /\ c.to = Secondary

StackFits(s) ==
    \A i \in 1 .. Len(s) : OpFits(s[i]) /\ (s[i].op \in Heads => i = 1)

HeadFits(s) ==
    s # <<>> =>
        /\ s[1].op \in InDir => s[1].key \in dirs
        /\ s[1].op = "move_rename" => s[1].to \in dirs

\* The directory as the Persister of one process uses it: its operations succeed.
Directory ==
    /\ DbTypeOK /\ WriteInv /\ failing = FALSE
    /\ StackFits(Work) /\ HeadFits(Work)
    /\ \A f \in files : f.key \in dirs /\ (f.key \in Keys => f.contents \in Entries)

\* A case that is in the primary key to stay.
Kept(v) ==
    v \in Stored(Primary) /\ \A i \in 1 .. Len(Work) : ~Drops(Work[i], Primary, v)

\* A case that will be, and until then `prev` is.
Coming(prev, v) ==
    \E i \in 1 .. Len(Work) :
        /\ Adds(Work[i], Primary, v)
        /\ \A j \in i + 1 .. Len(Work) : ~Drops(Work[j], Primary, v)
        /\ prev # None =>
              /\ prev \in Stored(Primary)
              /\ \A j \in 1 .. i : ~Drops(Work[j], Primary, prev)

Covered(prev, v) == Kept(v) \/ Coming(prev, v)

AddsWithin(k, X) ==
    /\ Stored(k) \subseteq X
    /\ \A i \in 1 .. Len(Work) : \A v \in Values : Adds(Work[i], k, v) => v \in X

RestWithin(k, X) ==
    /\ \A v \in Stored(k) : v \in X \/ \E i \in 1 .. Len(Work) : Drops(Work[i], k, v)
    /\ \A i \in 1 .. Len(Work) : \A v \in Values : Adds(Work[i], k, v) => v \in X

\* The temporary file that is being written.
Writes(f) ==
    /\ f.name \in TmpNames /\ Writing(Engine)
    /\ Current(Engine).key = f.key /\ Current(Engine).tmp = f.name

-----------------------------------------------------------------------------
(* Single operations.                                                             *)

\* An operation on the metakeys, or one that removes an empty directory.
Harmless(c) == \A k \in Keys, v \in Values : ~Adds(c, k, v) /\ ~Drops(c, k, v)

Same(c, d) ==
    \A k \in Keys, v \in Values : (Adds(c, k, v) <=> Adds(d, k, v)) /\ (Drops(c, k, v) <=> Drops(d, k, v))

\* The two keys of the Persister, and what they store.
LEMMA KeysApart ==
    /\ Engine \in Users /\ Users = {Engine}
    /\ Primary \in Keys /\ Secondary \in Keys /\ Primary # Secondary
    /\ \A k \in Keys : (k = Primary \/ k = Secondary) /\ k # Metakeys /\ k \in AllKeys /\ k \in Values
    /\ \A v \in Entries : v \in Values
    /\ \A c \in Cases : c \in Entries /\ c \in Nat /\ c # None /\ c # Torn
    /\ Torn \in Entries /\ WriteOps \cap MoveOps = {}
  <1>1. /\ Users = {Engine} /\ Keys = {Primary, Secondary} /\ Primary # Secondary
        /\ Cases \subseteq Nat \ {None} /\ Entries = Cases \cup {Torn} /\ Torn \notin Cases
    BY PersisterOK DEF PersisterOK
  <1>2. WriteOps \cap MoveOps = {}
    BY DEF WriteOps, MoveOps
  <1> QED
    BY <1>1, <1>2, MetakeysIsNoKey DEF AllKeys, Values

\* What the calls of the Persister add and take away.
LEMMA CallEffects ==
    /\ \A k \in Keys, w \in Entries : OpFits(Save(k, w)) /\ OpFits(Delete(k, w))
    /\ \A w \in Entries : OpFits(MoveValue(Primary, Secondary, w))
    /\ \A k, w : /\ Save(k, w).op \notin Heads /\ Delete(k, w).op \notin Heads
                 /\ MoveValue(k, k, w).op \notin Heads
    /\ \A w : MoveValue(Primary, Secondary, w).op \notin Heads
    /\ \A k, w, j, v : /\ Adds(Save(k, w), j, v) <=> j = k /\ v = w
                       /\ ~Drops(Save(k, w), j, v)
                       /\ ~Adds(Delete(k, w), j, v)
                       /\ Drops(Delete(k, w), j, v) <=> j = k /\ v = w
    /\ \A w, j, v : /\ Adds(MoveValue(Primary, Secondary, w), j, v) <=> j = Secondary /\ v = w
                    /\ Drops(MoveValue(Primary, Secondary, w), j, v) <=> j = Primary /\ v = w
  <1>1. \A k, w : /\ Save(k, w) = [op |-> "save", key |-> k, value |-> w, to |-> k, tmp |-> NoTmp]
                  /\ Delete(k, w) = [op |-> "delete", key |-> k, value |-> w, to |-> k, tmp |-> NoTmp]
    BY DEF Save, Delete, Op
  <1>2. \A k, d, w : MoveValue(k, d, w) = [op |-> "move", key |-> k, value |-> w, to |-> d, tmp |-> NoTmp]
    BY DEF MoveValue, Op
  <1>3. \A k, w : /\ Save(k, w).op = "save" /\ Save(k, w).key = k /\ Save(k, w).value = w
                  /\ Delete(k, w).op = "delete" /\ Delete(k, w).key = k /\ Delete(k, w).value = w
    BY <1>1
  <1>4. \A k, d, w : /\ MoveValue(k, d, w).op = "move" /\ MoveValue(k, d, w).key = k
                     /\ MoveValue(k, d, w).to = d /\ MoveValue(k, d, w).value = w
    BY <1>2
  <1>5. /\ \A k \in Keys, w \in Entries : Save(k, w) \in Ops /\ Delete(k, w) \in Ops
        /\ \A w \in Entries : MoveValue(Primary, Secondary, w) \in Ops
    BY OpsTyped, KeysApart
  <1>6. /\ \A k \in Keys, w \in Entries : OpFits(Save(k, w)) /\ OpFits(Delete(k, w))
        /\ \A w \in Entries : OpFits(MoveValue(Primary, Secondary, w))
    BY <1>3, <1>4, <1>5 DEF OpFits, MoveOps
  <1>7. /\ \A k, w : /\ Save(k, w).op \notin Heads /\ Delete(k, w).op \notin Heads
                     /\ MoveValue(k, k, w).op \notin Heads
        /\ \A w : MoveValue(Primary, Secondary, w).op \notin Heads
    BY <1>3, <1>4 DEF Heads
  <1>8. \A k, w, j, v : /\ Adds(Save(k, w), j, v) <=> j = k /\ v = w
                        /\ ~Drops(Save(k, w), j, v)
                        /\ ~Adds(Delete(k, w), j, v)
                        /\ Drops(Delete(k, w), j, v) <=> j = k /\ v = w
    BY <1>3 DEF Adds, Drops, WriteOps, MoveOps
  <1>9. \A w, j, v : /\ Adds(MoveValue(Primary, Secondary, w), j, v) <=> j = Secondary /\ v = w
                     /\ Drops(MoveValue(Primary, Secondary, w), j, v) <=> j = Primary /\ v = w
    BY <1>4 DEF Adds, Drops, WriteOps, MoveOps
  <1> QED
    BY <1>6, <1>7, <1>8, <1>9

-----------------------------------------------------------------------------
(* One step of the running operation.                                             *)

\* The operations that replace the running one fit where they are.
NextFits(next) ==
    /\ next \in Seq(Ops) /\ Continue(Engine, next)
    /\ \A i \in 1 .. Len(next) : OpFits(next[i]) /\ (next[i].op \in Heads => i = 1)
    /\ HeadFits(next)'

\* The running operation goes on: the last of `next` does what it would have done.
GoesOn(h, next) ==
    /\ Len(next) # 0 /\ Same(next[Len(next)], h)
    /\ \A i \in 1 .. Len(next) : i # Len(next) => Harmless(next[i])
    /\ \A k \in Keys : Stored(k)' = Stored(k)

\* It has done what it does.
IsDone(h, next) ==
    /\ \A i \in 1 .. Len(next) : Harmless(next[i])
    /\ \A k \in Keys, v \in Values :
          v \in Stored(k)' <=> Adds(h, k, v) \/ (v \in Stored(k) /\ ~Drops(h, k, v))

\* It cannot rename a file that is not there.
FallsBack(h, next) ==
    /\ h.op \in MoveOps /\ h.value \notin Stored(Primary) /\ h.value \in Entries
    /\ next = <<Delete(Primary, h.value), Save(Secondary, h.value)>>
    /\ \A k \in Keys : Stored(k)' = Stored(k)

Effect(h, next) == GoesOn(h, next) \/ IsDone(h, next) \/ FallsBack(h, next)

\* One operation that fits is followed by it.
LEMMA NextOne ==
    ASSUME NEW d \in Ops, OpFits(d), Continue(Engine, <<d>>),
           d.op \in InDir => d.key \in dirs', d.op = "move_rename" => d.to \in dirs'
    PROVE  NextFits(<<d>>) /\ Len(<<d>>) = 1 /\ <<d>>[1] = d
  <1>1. <<d>> \in Seq(Ops) /\ Len(<<d>>) = 1 /\ <<d>>[1] = d
    BY FewOps
  <1>2. \A i \in 1 .. 1 : i = 1
    OBVIOUS
  <1>3. PICK next \in Seq(Ops) : next = <<d>>
    BY <1>1
  <1>4. next[1] = d /\ Len(next) = 1
    BY <1>1, <1>3
  <1>5. HeadFits(next)'
    BY <1>3, <1>4 DEF HeadFits
  <1>6. \A i \in 1 .. Len(next) : OpFits(next[i]) /\ (next[i].op \in Heads => i = 1)
    BY <1>2, <1>4
  <1> QED
    BY <1>1, <1>3, <1>5, <1>6 DEF NextFits

\* Two of them, the first not under way.
LEMMA NextTwo ==
    ASSUME NEW a \in Ops, NEW d \in Ops, OpFits(a), OpFits(d), a.op \notin Heads, d.op \notin Heads,
           Continue(Engine, <<a, d>>)
    PROVE  NextFits(<<a, d>>) /\ Len(<<a, d>>) = 2 /\ <<a, d>>[1] = a /\ <<a, d>>[2] = d
  <1>1. <<a, d>> \in Seq(Ops) /\ Len(<<a, d>>) = 2 /\ <<a, d>>[1] = a /\ <<a, d>>[2] = d
    OBVIOUS
  <1>2. \A i \in 1 .. 2 : i = 1 \/ i = 2
    OBVIOUS
  <1>3. PICK next \in Seq(Ops) : next = <<a, d>>
    BY <1>1
  <1>4. next[1] = a /\ next[2] = d /\ Len(next) = 2
    BY <1>1, <1>3
  <1>5. HeadFits(next)'
    BY <1>4 DEF HeadFits, Heads, InDir
  <1>6. \A i \in 1 .. Len(next) : OpFits(next[i]) /\ (next[i].op \in Heads => i = 1)
    BY <1>2, <1>4
  <1> QED
    BY <1>1, <1>3, <1>5, <1>6 DEF NextFits

\* An operation that is followed by nothing.
LEMMA NextNone ==
    ASSUME Continue(Engine, <<>>)
    PROVE  NextFits(<<>>) /\ Len(<<>>) = 0
  <1>0. <<>> \in Seq(Ops) /\ Len(<<>>) = 0
    OBVIOUS
  <1>1. PICK next \in Seq(Ops) : next = <<>> /\ Len(next) = 0
    BY <1>0
  <1>2. HeadFits(next)' /\ \A i \in 1 .. Len(next) : OpFits(next[i]) /\ (next[i].op \in Heads => i = 1)
    BY <1>1 DEF HeadFits
  <1> QED
    BY <1>1, <1>2 DEF NextFits

\* The effect of one operation, or none, in place of another.
LEMMA ShortEffects ==
    ASSUME NEW h
    PROVE  /\ \A d \in Ops : Same(d, h) /\ (\A k \in Keys : Stored(k)' = Stored(k)) => GoesOn(h, <<d>>)
           /\ \A a, d \in Ops : Harmless(a) /\ Same(d, h) /\ (\A k \in Keys : Stored(k)' = Stored(k))
                 => GoesOn(h, <<a, d>>)
           /\ (\A k \in Keys, v \in Values :
                  v \in Stored(k)' <=> Adds(h, k, v) \/ (v \in Stored(k) /\ ~Drops(h, k, v)))
                 => IsDone(h, <<>>) /\ \A d \in Ops : Harmless(d) => IsDone(h, <<d>>)
  <1>1. ASSUME NEW d \in Ops, Same(d, h), \A k \in Keys : Stored(k)' = Stored(k)
        PROVE  GoesOn(h, <<d>>)
    <2>1. PICK next : next = <<d>> /\ Len(next) = 1 /\ next[1] = d
      BY FewOps
    <2>2. \A i \in 1 .. 1 : i = 1
      OBVIOUS
    <2>3. GoesOn(h, next)
      BY <1>1, <2>1, <2>2 DEF GoesOn
    <2> QED
      BY <2>1, <2>3
  <1>2. ASSUME NEW a \in Ops, NEW d \in Ops, Harmless(a), Same(d, h), \A k \in Keys : Stored(k)' = Stored(k)
        PROVE  GoesOn(h, <<a, d>>)
    <2>0. Len(<<a, d>>) = 2 /\ <<a, d>>[1] = a /\ <<a, d>>[2] = d
      OBVIOUS
    <2>1. PICK next : next = <<a, d>> /\ Len(next) = 2 /\ next[1] = a /\ next[2] = d
      BY <2>0
    <2>2. \A i \in 1 .. 2 : i = 1 \/ i = 2
      OBVIOUS
    <2>3. GoesOn(h, next)
      BY <1>2, <2>1, <2>2 DEF GoesOn
    <2> QED
      BY <2>1, <2>3
  <1>3. ASSUME \A k \in Keys, v \in Values :
                  v \in Stored(k)' <=> Adds(h, k, v) \/ (v \in Stored(k) /\ ~Drops(h, k, v))
        PROVE  IsDone(h, <<>>) /\ \A d \in Ops : Harmless(d) => IsDone(h, <<d>>)
    <2>1. PICK none : none = <<>> /\ Len(none) = 0
      OBVIOUS
    <2>2. IsDone(h, none)
      BY <1>3, <2>1 DEF IsDone
    <2>3. ASSUME NEW d \in Ops, Harmless(d) PROVE IsDone(h, <<d>>)
      <3>1. PICK next : next = <<d>> /\ Len(next) = 1 /\ next[1] = d
        BY FewOps
      <3>2. \A i \in 1 .. 1 : i = 1
        OBVIOUS
      <3>3. IsDone(h, next)
        BY <1>3, <2>3, <3>1, <3>2 DEF IsDone
      <3> QED
        BY <3>1, <3>3
    <2> QED
      BY <2>1, <2>2, <2>3
  <1> QED
    BY <1>1, <1>2, <1>3

\* A step of a write: it goes on, has the key listed first, or stores its value.
LEMMA WriteEffect ==
    ASSUME Directory, DbStep(Engine), NEW c \in Ops, c = Current(Engine), c.op \in WriteOps,
           OpFits(c), c.op \in InDir => c.key \in dirs
    PROVE  \E next : NextFits(next) /\ Effect(c, next)
  <1>k. Engine \in Users /\ DbTypeOK /\ WriteInv /\ ~failing
    BY KeysApart DEF Directory
  <1>1. ASSUME NEW d, NextStage(c, d)
        PROVE  d \in Ops /\ OpFits(d) /\ Same(d, c) /\ d.key = c.key /\ d.op \notin MoveOps
    <2>1. d \in Ops /\ d.key = c.key /\ d.value = c.value /\ d.op \in WriteOps /\ d.op \notin MoveOps
      BY <1>1, KeysApart DEF NextStage
    <2>2. /\ c.op \notin MoveOps /\ c.op # "delete" /\ c.op # "rmdir"
          /\ d.op # "delete" /\ d.op # "unlink"
      BY <2>1, KeysApart DEF WriteOps
    <2>3. OpFits(d)
      BY <2>1, <2>2 DEF OpFits
    <2>4. Same(d, c)
      BY <2>1, <2>2 DEF Same, Adds, Drops
    <2> QED
      BY <2>1, <2>3, <2>4
  <1>2. ASSUME NEW d, NextStage(c, d), Continue(Engine, <<d>>), d.op \in InDir => c.key \in dirs',
               \A k : Stored(k)' = Stored(k)
        PROVE  \E next : NextFits(next) /\ Effect(c, next)
    <2>1. d \in Ops /\ OpFits(d) /\ Same(d, c) /\ d.key = c.key /\ d.op # "move_rename"
      BY <1>1, <1>2 DEF MoveOps
    <2>2. NextFits(<<d>>)
      BY <1>2, <2>1, NextOne
    <2>3. GoesOn(c, <<d>>)
      BY <1>2, <2>1, ShortEffects
    <2> QED
      BY <2>2, <2>3 DEF Effect
  <1>3. ASSUME Continue(Engine, <<>>), Stored(c.key)' = Stored(c.key) \cup {c.value},
               \A k : k # c.key => Stored(k)' = Stored(k)
        PROVE  \E next : NextFits(next) /\ Effect(c, next)
    <2>1. \A k \in Keys, v \in Values :
             v \in Stored(k)' <=> Adds(c, k, v) \/ (v \in Stored(k) /\ ~Drops(c, k, v))
      <3>1. c.op \notin MoveOps /\ c.op # "delete"
        BY KeysApart DEF WriteOps
      <3> QED
        BY <1>3, <3>1 DEF Adds, Drops
    <2>2. NextFits(<<>>) /\ IsDone(c, <<>>)
      BY <1>3, <2>1, NextNone, ShortEffects
    <2> QED
      BY <2>2 DEF Effect
  <1>4. ASSUME NEW d, NextStage(c, d), d.op = "mkdir", Continue(Engine, <<Save(Metakeys, c.key), d>>),
               c.key \in Keys, \A k : Stored(k)' = Stored(k)
        PROVE  \E next : NextFits(next) /\ Effect(c, next)
    <2>1. d \in Ops /\ OpFits(d) /\ Same(d, c) /\ d.op \notin Heads
      BY <1>1, <1>4 DEF Heads
    <2>2. PICK a \in Ops : a = Save(Metakeys, c.key)
      BY <1>4, OpsTyped
    <2>3. a.op = "save" /\ a.key = Metakeys
      BY <2>2 DEF Save, Op
    <2>4. OpFits(a) /\ a.op \notin Heads /\ Harmless(a)
      BY <2>3, KeysApart, MetakeysIsNoKey DEF OpFits, Heads, Harmless, Adds, Drops, MoveOps
    <2>5. NextFits(<<a, d>>)
      BY <1>4, <2>1, <2>2, <2>4, NextTwo
    <2>6. GoesOn(c, <<a, d>>)
      BY <1>4, <2>1, <2>4, ShortEffects
    <2> QED
      BY <2>5, <2>6 DEF Effect
  <1> HIDE DEF NextStage
  <1>5. \/ \E d : /\ NextStage(c, d) /\ Continue(Engine, <<d>>)
                  /\ d.op \in InDir => c.key \in dirs'
                  /\ \A k : Stored(k)' = Stored(k)
        \/ /\ Continue(Engine, <<>>)
           /\ Stored(c.key)' = Stored(c.key) \cup {c.value}
           /\ \A k : k # c.key => Stored(k)' = Stored(k)
        \/ \E d : /\ NextStage(c, d) /\ d.op = "mkdir" /\ Continue(Engine, <<Save(Metakeys, c.key), d>>)
                  /\ c.key \in Keys
                  /\ \A k : Stored(k)' = Stored(k)
    BY <1>k, WriteOutcome
  <1> QED
    BY <1>2, <1>3, <1>4, <1>5

\* A removal of a file or of an empty directory.
LEMMA RemoveEffect ==
    ASSUME Directory, DbStep(Engine), NEW c \in Ops, c = Current(Engine), OpFits(c),
           c.op \in {"delete", "rmdir"}
    PROVE  \E next : NextFits(next) /\ Effect(c, next)
  <1>k. Engine \in Users /\ DbTypeOK /\ WriteInv /\ ~failing
    BY KeysApart DEF Directory
  <1>o. c.op \notin WriteOps /\ c.op \notin MoveOps
    BY DEF WriteOps, MoveOps
  <1>1. ASSUME NEW d \in Ops, d.op = "rmdir", d.key = c.key, Continue(Engine, <<d>>)
        PROVE  NextFits(<<d>>) /\ Harmless(d)
    <2>1. c.key \in Keys => d.op \notin MoveOps
      BY <1>1 DEF MoveOps
    <2> QED
      BY <1>1, NextOne DEF OpFits, InDir, MoveOps, Harmless, Adds, Drops, WriteOps
  <1>2. CASE c.op = "delete"
    <2>1. \/ /\ c.value \notin Stored(c.key) /\ Continue(Engine, <<>>)
             /\ \A k : Stored(k)' = Stored(k)
          \/ /\ c.value \in Stored(c.key)
             /\ \E d \in Ops : d.op = "rmdir" /\ d.key = c.key /\ Continue(Engine, <<d>>)
             /\ Stored(c.key)' = Stored(c.key) \ {c.value}
             /\ \A k : k # c.key => Stored(k)' = Stored(k)
      BY <1>k, <1>2, RemoveOutcome
    <2>2. \A k \in Keys, v \in Values :
             v \in Stored(k)' <=> Adds(c, k, v) \/ (v \in Stored(k) /\ ~Drops(c, k, v))
      BY <1>2, <1>o, <2>1 DEF Adds, Drops
    <2> QED
      BY <1>1, <2>1, <2>2, NextNone, ShortEffects DEF Effect
  <1>3. CASE c.op = "rmdir"
    <2>1. \A k : Stored(k)' = Stored(k)
      <3>1. RemoveDir(Engine)
        BY <1>3 DEF DbStep, SaveBegins, MakeDir, Probe, OpenTmp, FillTmp, RenameTmp, UnlinkTmp,
                    RemoveFile, MoveBegins, MoveMakeDir, MoveRename, Doing, Current
      <3>2. files' = files
        BY <3>1 DEF RemoveDir
      <3> QED
        BY <3>2, SameFiles
    <2>2. \A k \in Keys, v \in Values :
             v \in Stored(k)' <=> Adds(c, k, v) \/ (v \in Stored(k) /\ ~Drops(c, k, v))
      BY <1>3, <1>o, <2>1 DEF Adds, Drops
    <2>3. RemoveDir(Engine)
      BY <1>3 DEF DbStep, SaveBegins, MakeDir, Probe, OpenTmp, FillTmp, RenameTmp, UnlinkTmp,
                  RemoveFile, MoveBegins, MoveMakeDir, MoveRename, Doing, Current
    <2>4. \/ Continue(Engine, <<>>)
          \/ c.key # Metakeys /\ Continue(Engine, <<Delete(Metakeys, c.key)>>)
      BY <2>3 DEF RemoveDir
    <2>5. CASE c.key # Metakeys /\ Continue(Engine, <<Delete(Metakeys, c.key)>>)
      <3>1. c.key \in Keys
        BY <2>5 DEF Ops, AllKeys
      <3>2. PICK d \in Ops : d = Delete(Metakeys, c.key)
        BY <3>1, OpsTyped
      <3>3. d.op = "delete" /\ d.key = Metakeys
        BY <3>2 DEF Delete, Op
      <3>4. OpFits(d) /\ Harmless(d)
        BY <3>3, MetakeysIsNoKey DEF OpFits, Harmless, Adds, Drops, MoveOps, WriteOps
      <3>5. NextFits(<<d>>)
        BY <2>5, <3>2, <3>3, <3>4, NextOne DEF InDir
      <3> QED
        BY <2>2, <3>4, <3>5, ShortEffects DEF Effect
    <2> QED
      BY <2>2, <2>4, <2>5, NextNone, ShortEffects DEF Effect
  <1> QED
    BY <1>2, <1>3

\* A step of move_value, from the primary key to the secondary one.
LEMMA MoveEffect ==
    ASSUME Directory, DbStep(Engine), NEW c \in Ops, c = Current(Engine), OpFits(c),
           c.op \in MoveOps, c.op = "move_rename" => c.to \in dirs
    PROVE  \E next : NextFits(next) /\ Effect(c, next)
  <1>k. Engine \in Users /\ DbTypeOK /\ WriteInv /\ ~failing
    BY KeysApart DEF Directory
  <1>t. c.key = Primary /\ c.to = Secondary /\ c.value \in Entries /\ c.key # c.to
    BY KeysApart DEF OpFits, MoveOps
  <1>s. ASSUME NEW d, NEW name \in MoveOps, d = [c EXCEPT !.op = name]
        PROVE  d \in Ops /\ d.op = name /\ d.key = c.key /\ d.to = c.to /\ d.value = c.value
               /\ OpFits(d) /\ Same(d, c)
    <2>0. name \in OpNames
      BY DEF OpNames, MoveOps
    <2>1. d \in Ops
      BY <1>s, <2>0, OpsTyped
    <2>3. d.op = name /\ d.key = c.key /\ d.to = c.to /\ d.value = c.value
      BY <1>s DEF Ops
    <2>2. name # "unlink"
      BY <1>s DEF MoveOps
    <2>4. OpFits(d)
      BY <1>t, <2>1, <2>2, <2>3, KeysApart DEF OpFits
    <2>5. Same(d, c)
      BY <2>3, KeysApart DEF Same, Adds, Drops
    <2> QED
      BY <2>1, <2>3, <2>4, <2>5
  <1>1. CASE c.op = "move"
    <2>1. MoveBegins(Engine)
      BY <1>1 DEF DbStep, SaveBegins, MakeDir, Probe, OpenTmp, FillTmp, RenameTmp, UnlinkTmp,
                  RemoveFile, RemoveDir, MoveMakeDir, MoveRename, Doing, Current
    <2>2. PICK d : d = [c EXCEPT !.op = "move_mkdir"]
      OBVIOUS
    <2>3. d \in Ops /\ OpFits(d) /\ Same(d, c) /\ d.op = "move_mkdir"
      BY <1>s, <2>2 DEF MoveOps
    <2>4. files' = files
      BY <2>1 DEF MoveBegins
    <2>5. \A k : Stored(k)' = Stored(k)
      BY <2>4, SameFiles
    <2>6. PICK a \in Ops : a = Save(Metakeys, Secondary)
      BY OpsTyped, KeysApart
    <2>7. a.op = "save" /\ a.key = Metakeys
      BY <2>6 DEF Save, Op
    <2>8. OpFits(a) /\ a.op \notin Heads /\ Harmless(a) /\ d.op \notin Heads
      BY <2>3, <2>7, KeysApart, MetakeysIsNoKey DEF OpFits, Heads, Harmless, Adds, Drops, MoveOps
    <2>9. Continue(Engine, <<d>>) \/ Continue(Engine, <<a, d>>)
      <3>1. Continue(Engine, (IF c.to \notin dirs THEN <<Save(Metakeys, c.to)>> ELSE <<>>) \o <<d>>)
        BY <1>t, <2>1, <2>2 DEF MoveBegins
      <3>2. <<a>> \o <<d>> = <<a, d>> /\ <<>> \o <<d>> = <<d>>
        BY <2>3, FewOps
      <3> QED
        BY <1>t, <2>6, <3>1, <3>2
    <2>10. CASE Continue(Engine, <<d>>)
      <3>1. NextFits(<<d>>)
        BY <2>3, <2>10, NextOne DEF InDir
      <3> QED
        BY <2>3, <2>5, <3>1, ShortEffects DEF Effect
    <2>11. CASE Continue(Engine, <<a, d>>)
      <3>1. NextFits(<<a, d>>)
        BY <2>3, <2>8, <2>11, NextTwo
      <3> QED
        BY <2>3, <2>5, <2>8, <3>1, ShortEffects DEF Effect
    <2> QED
      BY <2>9, <2>10, <2>11
  <1>2. CASE c.op = "move_mkdir"
    <2>1. MoveMakeDir(Engine)
      BY <1>2 DEF DbStep, SaveBegins, MakeDir, Probe, OpenTmp, FillTmp, RenameTmp, UnlinkTmp,
                  RemoveFile, RemoveDir, MoveBegins, MoveRename, Doing, Current
    <2>2. PICK d : d = [c EXCEPT !.op = "move_rename"]
      OBVIOUS
    <2>3. d \in Ops /\ OpFits(d) /\ Same(d, c) /\ d.op = "move_rename" /\ d.to = c.to
      BY <1>s, <2>2 DEF MoveOps
    <2>4. files' = files /\ dirs' = dirs \cup {c.to} /\ Continue(Engine, <<d>>)
      BY <1>k, <2>1, <2>2 DEF MoveMakeDir
    <2>5. \A k : Stored(k)' = Stored(k)
      BY <2>4, SameFiles
    <2>6. NextFits(<<d>>)
      BY <2>3, <2>4, NextOne DEF InDir
    <2> QED
      BY <2>3, <2>5, <2>6, ShortEffects DEF Effect
  <1>3. CASE c.op = "move_rename"
    <2>1. \/ /\ c.value \notin Stored(c.key)
             /\ Continue(Engine, <<Delete(c.key, c.value), Save(c.to, c.value)>>)
             /\ \A k : Stored(k)' = Stored(k)
          \/ /\ c.value \in Stored(c.key)
             /\ \E d \in Ops : d.op = "rmdir" /\ d.key = c.key /\ Continue(Engine, <<d>>)
             /\ Stored(c.key)' = Stored(c.key) \ {c.value}
             /\ Stored(c.to)' = Stored(c.to) \cup {c.value}
             /\ \A k : k # c.key /\ k # c.to => Stored(k)' = Stored(k)
      BY <1>k, <1>t, <1>3, MoveOutcome
    <2>2. CASE /\ c.value \notin Stored(c.key)
               /\ Continue(Engine, <<Delete(c.key, c.value), Save(c.to, c.value)>>)
               /\ \A k : Stored(k)' = Stored(k)
      <3>1. PICK a \in Ops, d \in Ops : a = Delete(Primary, c.value) /\ d = Save(Secondary, c.value)
        BY <1>t, KeysApart, OpsTyped
      <3>2. OpFits(a) /\ OpFits(d) /\ a.op \notin Heads /\ d.op \notin Heads
        BY <1>t, <3>1, KeysApart, CallEffects
      <3>3. NextFits(<<a, d>>)
        BY <1>t, <2>2, <3>1, <3>2, NextTwo
      <3>4. FallsBack(c, <<a, d>>)
        BY <1>t, <2>2, <3>1 DEF FallsBack
      <3> QED
        BY <3>3, <3>4 DEF Effect
    <2>3. CASE /\ c.value \in Stored(c.key)
               /\ \E d \in Ops : d.op = "rmdir" /\ d.key = c.key /\ Continue(Engine, <<d>>)
               /\ Stored(c.key)' = Stored(c.key) \ {c.value}
               /\ Stored(c.to)' = Stored(c.to) \cup {c.value}
               /\ \A k : k # c.key /\ k # c.to => Stored(k)' = Stored(k)
      <3>1. PICK d \in Ops : d.op = "rmdir" /\ d.key = c.key /\ Continue(Engine, <<d>>)
        BY <2>3
      <3>2. OpFits(d) /\ Harmless(d)
        BY <1>t, <3>1 DEF OpFits, Harmless, Adds, Drops, MoveOps, WriteOps
      <3>3. NextFits(<<d>>)
        BY <3>1, <3>2, NextOne DEF InDir
      <3>4. \A k \in Keys, v \in Values :
               v \in Stored(k)' <=> Adds(c, k, v) \/ (v \in Stored(k) /\ ~Drops(c, k, v))
        BY <1>t, <1>3, <2>3 DEF Adds, Drops, MoveOps, WriteOps
      <3> QED
        BY <3>2, <3>3, <3>4, ShortEffects DEF Effect
    <2> QED
      BY <2>1, <2>2, <2>3
  <1> QED
    BY <1>1, <1>2, <1>3 DEF MoveOps

\* Whatever the running operation is, something that fits follows it.
LEMMA DbEffect ==
    ASSUME Directory, DbStep(Engine)
    PROVE  \E c \in Ops :
              /\ c = Current(Engine) /\ Work # <<>> /\ c = Work[1] /\ OpFits(c)
              /\ c.op \in InDir => c.key \in dirs
              /\ \E next : NextFits(next) /\ Effect(c, next)
  <1>k. Engine \in Users /\ DbTypeOK
    BY KeysApart DEF Directory
  <1>1. Work # <<>> /\ Current(Engine) \in Ops /\ Current(Engine) = Work[1] /\ Len(Work) \in Nat
        /\ Len(Work) > 0
    BY <1>k, StepRuns, RunningTyped DEF Work
  <1>2. PICK c \in Ops : c = Current(Engine)
    BY <1>1
  <1>3. 1 \in 1 .. Len(Work)
    BY <1>1
  <1>4. OpFits(c) /\ (c.op \in InDir => c.key \in dirs) /\ (c.op = "move_rename" => c.to \in dirs)
    BY <1>1, <1>2, <1>3 DEF Directory, StackFits, HeadFits
  <1>5. c.op \in WriteOps \/ c.op \in {"delete", "rmdir"} \/ c.op \in MoveOps
    BY <1>4 DEF Ops, OpNames, WriteOps, MoveOps, OpFits
  <1>6. \E next : NextFits(next) /\ Effect(c, next)
    BY <1>2, <1>4, <1>5, WriteEffect, RemoveEffect, MoveEffect
  <1> QED
    BY <1>1, <1>2, <1>4, <1>6

\* The stack moves by the operations that replace the running one.
LEMMA StackMoved ==
    ASSUME Directory, Work # <<>>, NEW next \in Seq(Ops), Continue(Engine, next)
    PROVE  /\ Work \in Seq(Ops) /\ Work' \in Seq(Ops) /\ Len(Work) \in Nat \ {0} /\ Len(next) \in Nat
           /\ Len(Work') = Len(Work) - 1 + Len(next)
           /\ \A i \in 1 .. Len(next) : Work'[i] = next[i]
           /\ \A i \in 2 .. Len(Work) : Work'[i - 1 + Len(next)] = Work[i]
  <1>1. todo \in [Users -> Seq(Ops)] /\ Engine \in Users /\ Work \in Seq(Ops)
    BY KeysApart DEF Directory, DbTypeOK, Work
  <1>2. Work' = next \o Tail(Work)
    BY <1>1 DEF Continue, Work
  <1>3. PICK s \in Seq(Ops) : s = Work
    BY <1>1
  <1>4. PICK r \in Seq(Ops) : r = Tail(s) /\ Len(r) = Len(s) - 1 /\ \A i \in 1 .. Len(r) : r[i] = s[i + 1]
    BY <1>3, StackPopped
  <1>5. Len(s) \in Nat \ {0} /\ Len(next) \in Nat
    BY <1>3
  <1>6. PICK t : t = next \o r
    OBVIOUS
  <1>7. /\ t \in Seq(Ops) /\ Len(t) = Len(next) + Len(r)
        /\ \A i \in 1 .. Len(next) + Len(r) : t[i] = IF i <= Len(next) THEN next[i] ELSE r[i - Len(next)]
    BY <1>6, ConcatProperties
  <1>8. Work' = t
    BY <1>2, <1>3, <1>4, <1>6
  <1>9. \A i \in 1 .. Len(next) : t[i] = next[i]
    BY <1>4, <1>5, <1>7
  <1>10. ASSUME NEW i \in 2 .. Len(s) PROVE t[i - 1 + Len(next)] = s[i]
    <2>1. i - 1 \in 1 .. Len(r) /\ i - 1 + Len(next) \in 1 .. Len(next) + Len(r)
          /\ ~(i - 1 + Len(next) <= Len(next)) /\ (i - 1 + Len(next)) - Len(next) = i - 1
      BY <1>4, <1>5
    <2>2. t[i - 1 + Len(next)] = r[i - 1]
      BY <1>7, <2>1
    <2>3. r[i - 1] = s[i]
      <3>1. (i - 1) + 1 = i
        BY <1>5
      <3> QED
        BY <1>4, <2>1, <3>1
    <2> QED
      BY <2>2, <2>3
  <1> QED
    BY <1>3, <1>4, <1>5, <1>7, <1>8, <1>9, <1>10

\* What a step does to the two keys and to what is still to do.
Moves(c, n) ==
    /\ c = Work[1] /\ c = Current(Engine) /\ OpFits(c)
    /\ Len(Work) \in Nat \ {0} /\ Len(Work') = Len(Work) - 1 + n
    /\ \A i \in 2 .. Len(Work) : Work'[i - 1 + n] = Work[i]
    /\ \A j \in 1 .. n : \A k \in Keys, v \in Values :
          (Adds(Work'[j], k, v) => Adds(c, k, v)) /\ (Drops(Work'[j], k, v) => Drops(c, k, v))
    /\ \A k \in Keys, v \in Values :
          /\ v \in Stored(k)' => Adds(c, k, v) \/ v \in Stored(k)
          /\ v \in Stored(k) /\ ~Drops(c, k, v) => v \in Stored(k)'
          /\ v \in Stored(k)' /\ Drops(c, k, v) => \E j \in 1 .. n : Drops(Work'[j], k, v)
    /\ \A v \in Values :
          Adds(c, Primary, v) =>
             /\ ~Drops(c, Primary, v)
             /\ v \in Stored(Primary)' \/ (n # 0 /\ Adds(Work'[n], Primary, v))

\* Every step of a file operation moves the stack in one way: its head goes on or is done.
LEMMA StepMoves ==
    ASSUME Directory, DbStep(Engine)
    PROVE  \E c \in Ops, n \in Nat : Moves(c, n)
  <1>1. PICK c \in Ops : /\ c = Current(Engine) /\ Work # <<>> /\ c = Work[1] /\ OpFits(c)
                         /\ \E next : NextFits(next) /\ Effect(c, next)
    BY DbEffect
  <1>2. PICK next : NextFits(next) /\ Effect(c, next)
    BY <1>1
  <1>3. next \in Seq(Ops) /\ Continue(Engine, next)
    BY <1>2 DEF NextFits
  <1>4. /\ Work \in Seq(Ops) /\ Work' \in Seq(Ops) /\ Len(Work) \in Nat \ {0} /\ Len(next) \in Nat
        /\ Len(Work') = Len(Work) - 1 + Len(next)
        /\ \A i \in 1 .. Len(next) : Work'[i] = next[i]
        /\ \A i \in 2 .. Len(Work) : Work'[i - 1 + Len(next)] = Work[i]
    BY <1>1, <1>3, StackMoved
  <1>5. PICK n \in Nat : n = Len(next)
    BY <1>4
  <1>6. \A k \in Keys, v \in Values : ~(Adds(c, k, v) /\ Drops(c, k, v))
    BY <1>1, KeysApart DEF OpFits, Adds, Drops, WriteOps, MoveOps
  <1>s. CASE GoesOn(c, next)
    <2>1. n # 0 /\ n \in 1 .. n /\ Same(next[n], c)
      BY <1>5, <1>s DEF GoesOn
    <2>2. \A j \in 1 .. n : \A k \in Keys, v \in Values :
             (Adds(Work'[j], k, v) => Adds(c, k, v)) /\ (Drops(Work'[j], k, v) => Drops(c, k, v))
      <3> SUFFICES ASSUME NEW j \in 1 .. n
                   PROVE  \A k \in Keys, v \in Values :
                             /\ Adds(Work'[j], k, v) => Adds(c, k, v)
                             /\ Drops(Work'[j], k, v) => Drops(c, k, v)
        OBVIOUS
      <3>1. Work'[j] = next[j]
        BY <1>4, <1>5
      <3>2. CASE j = n
        BY <2>1, <3>1, <3>2 DEF Same
      <3>3. CASE j # n
        BY <1>5, <1>s, <3>1, <3>3 DEF GoesOn, Harmless
      <3> QED
        BY <3>2, <3>3
    <2>3. Work'[n] = next[n]
      BY <1>4, <1>5, <2>1
    <2>4. \A k \in Keys, v \in Values : /\ Adds(c, k, v) => Adds(Work'[n], k, v)
                                        /\ Drops(c, k, v) => Drops(Work'[n], k, v)
      BY <2>1, <2>3 DEF Same
    <2>5. \A k \in Keys : Stored(k)' = Stored(k)
      BY <1>s DEF GoesOn
    <2>6. Primary \in Keys
      BY KeysApart
    <2> HIDE DEF Work
    <2>7. Moves(c, n)
      BY <1>1, <1>4, <1>5, <1>6, <2>1, <2>2, <2>4, <2>5, <2>6 DEF Moves
    <2> QED
      BY <2>7
  <1>d. CASE IsDone(c, next)
    <2>1. \A j \in 1 .. n : \A k \in Keys, v \in Values : ~Adds(Work'[j], k, v) /\ ~Drops(Work'[j], k, v)
      BY <1>4, <1>5, <1>d DEF IsDone, Harmless
    <2>2. \A k \in Keys, v \in Values :
             v \in Stored(k)' <=> Adds(c, k, v) \/ (v \in Stored(k) /\ ~Drops(c, k, v))
      BY <1>d DEF IsDone
    <2>3. Primary \in Keys
      BY KeysApart
    <2>4. Moves(c, n)
      BY <1>1, <1>4, <1>5, <1>6, <2>1, <2>2, <2>3 DEF Moves
    <2> QED
      BY <2>4
  <1>f. CASE FallsBack(c, next)
    <2>1. /\ c.op \in MoveOps /\ c.value \notin Stored(Primary) /\ c.value \in Entries
          /\ next = <<Delete(Primary, c.value), Save(Secondary, c.value)>>
          /\ \A k \in Keys : Stored(k)' = Stored(k)
      BY <1>f DEF FallsBack
    <2>2. n = 2 /\ Work'[1] = Delete(Primary, c.value) /\ Work'[2] = Save(Secondary, c.value)
      <3>1. Len(<<Delete(Primary, c.value), Save(Secondary, c.value)>>) = 2
        OBVIOUS
      <3>2. 1 \in 1 .. Len(next) /\ 2 \in 1 .. Len(next) /\ n = 2
        BY <1>5, <2>1, <3>1
      <3> QED
        BY <1>4, <2>1, <3>2
    <2>3. \A k \in Keys, v \in Values : /\ Adds(c, k, v) <=> k = Secondary /\ v = c.value
                                        /\ Drops(c, k, v) <=> k = Primary /\ v = c.value
      BY <1>1, <2>1, KeysApart DEF OpFits, Adds, Drops, WriteOps
    <2>4. \A j \in 1 .. n : j = 1 \/ j = 2
      BY <2>2
    <2>5. \A j \in 1 .. n : \A k \in Keys, v \in Values :
             (Adds(Work'[j], k, v) => Adds(c, k, v)) /\ (Drops(Work'[j], k, v) => Drops(c, k, v))
      BY <2>2, <2>3, <2>4, CallEffects
    <2>6. \A k \in Keys, v \in Values : v \in Stored(k)' /\ Drops(c, k, v) => FALSE
      BY <2>1, <2>3
    <2>7. \A v \in Values : ~Adds(c, Primary, v)
      BY <2>3, KeysApart
    <2>8. Moves(c, n)
      BY <1>1, <1>4, <1>5, <1>6, <2>1, <2>5, <2>6, <2>7 DEF Moves
    <2> QED
      BY <2>8
  <1> QED
    BY <1>2, <1>s, <1>d, <1>f DEF Effect

\* Where an operation of the new stack comes from.
LEMMA MovedFrom ==
    ASSUME NEW c \in Ops, NEW n \in Nat, Moves(c, n), NEW j \in 1 .. Len(Work')
    PROVE  \/ j \in 1 .. n
           \/ \E i \in 2 .. Len(Work) : j = i - 1 + n /\ Work'[j] = Work[i]
  <1>1. CASE j <= n
    BY <1>1
  <1>2. CASE ~(j <= n)
    <2>1. Len(Work) \in Nat \ {0} /\ Len(Work') = Len(Work) - 1 + n
      BY DEF Moves
    <2>2. PICK i \in Int : i = j - n + 1
      OBVIOUS
    <2>3. i \in 2 .. Len(Work) /\ j = i - 1 + n
      BY <1>2, <2>1, <2>2
    <2>4. Work'[i - 1 + n] = Work[i]
      BY <2>3 DEF Moves
    <2> QED
      BY <2>3, <2>4
  <1> QED
    BY <1>1, <1>2

\* The stack takes nothing up that it did not hold before.
LEMMA NothingNew ==
    ASSUME NEW c \in Ops, NEW n \in Nat, Moves(c, n), NEW k \in Keys, NEW v \in Values,
           NEW j \in 1 .. Len(Work')
    PROVE  /\ Adds(Work'[j], k, v) => \E i \in 1 .. Len(Work) : Adds(Work[i], k, v)
           /\ Drops(Work'[j], k, v) => \E i \in 1 .. Len(Work) : Drops(Work[i], k, v)
  <1>1. c = Work[1] /\ 1 \in 1 .. Len(Work)
    BY DEF Moves
  <1>2. CASE j \in 1 .. n
    BY <1>1, <1>2 DEF Moves
  <1>3. ASSUME NEW i \in 2 .. Len(Work), Work'[j] = Work[i]
        PROVE  /\ Adds(Work'[j], k, v) => \E m \in 1 .. Len(Work) : Adds(Work[m], k, v)
               /\ Drops(Work'[j], k, v) => \E m \in 1 .. Len(Work) : Drops(Work[m], k, v)
    BY <1>3
  <1> QED
    BY <1>2, <1>3, MovedFrom

-----------------------------------------------------------------------------
(* What a step keeps.                                                             *)

\* A case that is kept stays kept.
LEMMA KeptStays ==
    ASSUME NEW c \in Ops, NEW n \in Nat, Moves(c, n), NEW v \in Values, Kept(v)
    PROVE  Kept(v)'
  <1>1. c = Work[1] /\ 1 \in 1 .. Len(Work) /\ Primary \in Keys
    BY KeysApart DEF Moves
  <1>2. v \in Stored(Primary)'
    BY <1>1 DEF Moves, Kept
  <1>3. \A j \in 1 .. Len(Work') : ~Drops(Work'[j], Primary, v)
    BY <1>1, NothingNew DEF Kept
  <1> QED
    BY <1>2, <1>3 DEF Kept

\* A case that was to be stored is, or still will be, and until then the other one is.
LEMMA ComingStays ==
    ASSUME NEW c \in Ops, NEW n \in Nat, Moves(c, n), NEW v \in Values,
           NEW prev \in Values \cup {None}, prev # None => prev \in Values, Coming(prev, v)
    PROVE  Covered(prev, v)'
  <1>1. c = Work[1] /\ 1 \in 1 .. Len(Work) /\ Primary \in Keys
    BY KeysApart DEF Moves
  <1>l. Len(Work) \in Nat \ {0} /\ Len(Work') = Len(Work) - 1 + n
    BY DEF Moves
  <1>2. PICK i \in 1 .. Len(Work) :
           /\ Adds(Work[i], Primary, v)
           /\ \A j \in i + 1 .. Len(Work) : ~Drops(Work[j], Primary, v)
           /\ prev # None =>
                 /\ prev \in Stored(Primary)
                 /\ \A j \in 1 .. i : ~Drops(Work[j], Primary, prev)
    BY DEF Coming
  <1>3. prev # None => prev \in Stored(Primary)' /\ ~Drops(c, Primary, prev)
    <2> SUFFICES ASSUME prev # None PROVE prev \in Stored(Primary)' /\ ~Drops(c, Primary, prev)
      OBVIOUS
    <2>1. 1 \in 1 .. i
      BY <1>l
    <2>2. ~Drops(c, Primary, prev) /\ prev \in Stored(Primary)
      BY <1>1, <1>2, <2>1
    <2> QED
      BY <1>1, <2>2 DEF Moves
  <1>4. prev # None => \A j \in 1 .. n : ~Drops(Work'[j], Primary, prev)
    BY <1>1, <1>3 DEF Moves
  <1>5. CASE i # 1
    <2>1. PICK p \in 1 .. Len(Work') : p = i - 1 + n
      BY <1>5, <1>l
    <2>2. Work'[p] = Work[i]
      BY <1>5, <1>l, <2>1 DEF Moves
    <2>3. ASSUME NEW j \in p + 1 .. Len(Work') PROVE ~Drops(Work'[j], Primary, v)
      <3>1. j \in 1 .. Len(Work') /\ j \notin 1 .. n
        BY <1>5, <1>l, <2>1
      <3>2. PICK m \in 2 .. Len(Work) : j = m - 1 + n /\ Work'[j] = Work[m]
        BY <3>1, MovedFrom
      <3>3. m \in i + 1 .. Len(Work)
        BY <1>l, <2>1, <3>2
      <3> QED
        BY <1>2, <3>2, <3>3
    <2>4. ASSUME prev # None, NEW j \in 1 .. p PROVE ~Drops(Work'[j], Primary, prev)
      <3>1. j \in 1 .. Len(Work')
        BY <1>l, <2>1
      <3>2. CASE j \in 1 .. n
        BY <1>4, <2>4, <3>2
      <3>3. ASSUME NEW m \in 2 .. Len(Work), j = m - 1 + n, Work'[j] = Work[m]
            PROVE  ~Drops(Work'[j], Primary, prev)
        <4>1. m \in 1 .. i
          BY <1>l, <2>1, <3>3
        <4> QED
          BY <1>2, <2>4, <3>3, <4>1
      <3> QED
        BY <3>1, <3>2, <3>3, MovedFrom
    <2>5. Coming(prev, v)'
      BY <1>2, <1>3, <2>1, <2>2, <2>3, <2>4 DEF Coming
    <2> QED
      BY <2>5 DEF Covered
  <1>6. CASE i = 1
    <2>1. Adds(c, Primary, v) /\ ~Drops(c, Primary, v)
      BY <1>1, <1>2, <1>6 DEF Moves
    <2>2. ASSUME NEW m \in 2 .. Len(Work) PROVE ~Drops(Work[m], Primary, v)
      <3>1. m \in i + 1 .. Len(Work)
        BY <1>6, <1>l
      <3> QED
        BY <1>2, <3>1
    <2>3. ASSUME NEW j \in 1 .. Len(Work') PROVE ~Drops(Work'[j], Primary, v)
      <3>1. CASE j \in 1 .. n
        BY <1>1, <2>1, <3>1 DEF Moves
      <3> QED
        BY <2>2, <3>1, MovedFrom
    <2>4. CASE v \in Stored(Primary)'
      BY <2>3, <2>4 DEF Covered, Kept
    <2>5. CASE n # 0 /\ Adds(Work'[n], Primary, v)
      <3>1. n \in 1 .. Len(Work') /\ \A j \in n + 1 .. Len(Work') : j \in 1 .. Len(Work')
        BY <1>l, <2>5
      <3>2. Coming(prev, v)'
        BY <1>3, <1>4, <2>3, <2>5, <3>1 DEF Coming
      <3> QED
        BY <3>2 DEF Covered
    <2> QED
      BY <2>1, <2>4, <2>5 DEF Moves
  <1> QED
    BY <1>5, <1>6

\* A case that is covered stays covered while the file operations run.
LEMMA CoveredStays ==
    ASSUME NEW c \in Ops, NEW n \in Nat, Moves(c, n), NEW v \in Values,
           NEW prev \in Values \cup {None}, prev # None => prev \in Values, Covered(prev, v)
    PROVE  Covered(prev, v)'
  <1>1. Kept(v) => Kept(v)'
    BY KeptStays
  <1>2. Coming(prev, v) => Covered(prev, v)'
    BY ComingStays
  <1> QED
    BY <1>1, <1>2 DEF Covered

\* What a key holds and is to receive, and what it is to lose.
LEMMA WithinStays ==
    ASSUME NEW c \in Ops, NEW n \in Nat, Moves(c, n), NEW k \in Keys, NEW X
    PROVE  /\ AddsWithin(k, X) => /\ \A v \in Stored(k)' : v \in X
                                  /\ \A j \in 1 .. Len(Work') : \A v \in Values : Adds(Work'[j], k, v) => v \in X
           /\ RestWithin(k, X) =>
                 /\ \A v \in Stored(k)' : v \in X \/ \E j \in 1 .. Len(Work') : Drops(Work'[j], k, v)
                 /\ \A j \in 1 .. Len(Work') : \A v \in Values : Adds(Work'[j], k, v) => v \in X
  <1>1. c = Work[1] /\ 1 \in 1 .. Len(Work) /\ (\A v : v \in Stored(k)' => v \in Values)
        /\ \A v : v \in Stored(k) => v \in Values
    BY DEF Moves, Stored, Values
  <1>l. Len(Work) \in Nat \ {0} /\ Len(Work') = Len(Work) - 1 + n
    BY DEF Moves
  <1>2. ASSUME \A i \in 1 .. Len(Work) : \A v \in Values : Adds(Work[i], k, v) => v \in X
        PROVE  \A j \in 1 .. Len(Work') : \A v \in Values : Adds(Work'[j], k, v) => v \in X
    BY <1>2, NothingNew
  <1>3. \A v \in Stored(k)' : Adds(c, k, v) \/ v \in Stored(k)
    BY <1>1 DEF Moves
  <1>4. ASSUME AddsWithin(k, X)
        PROVE  /\ \A v \in Stored(k)' : v \in X
               /\ \A j \in 1 .. Len(Work') : \A v \in Values : Adds(Work'[j], k, v) => v \in X
    BY <1>1, <1>2, <1>3, <1>4 DEF AddsWithin
  <1>5. ASSUME RestWithin(k, X)
        PROVE  /\ \A v \in Stored(k)' : v \in X \/ \E j \in 1 .. Len(Work') : Drops(Work'[j], k, v)
               /\ \A j \in 1 .. Len(Work') : \A v \in Values : Adds(Work'[j], k, v) => v \in X
    <2>1. ASSUME NEW v \in Stored(k)', v \notin X
          PROVE  \E j \in 1 .. Len(Work') : Drops(Work'[j], k, v)
      <3>1. v \in Stored(k) /\ v \in Values
        BY <1>1, <1>3, <1>5, <2>1 DEF RestWithin
      <3>2. PICK i \in 1 .. Len(Work) : Drops(Work[i], k, v)
        BY <1>5, <2>1, <3>1 DEF RestWithin
      <3>3. CASE i = 1
        <4>1. PICK j \in 1 .. n : Drops(Work'[j], k, v)
          BY <1>1, <2>1, <3>1, <3>2, <3>3 DEF Moves
        <4>2. j \in 1 .. Len(Work')
          BY <1>l
        <4> QED
          BY <4>1, <4>2
      <3>4. CASE i # 1
        <4>1. i - 1 + n \in 1 .. Len(Work') /\ i \in 2 .. Len(Work)
          BY <1>l, <3>4
        <4>2. Work'[i - 1 + n] = Work[i]
          BY <4>1 DEF Moves
        <4> QED
          BY <3>2, <4>1, <4>2
      <3> QED
        BY <3>3, <3>4
    <2> QED
      BY <1>2, <1>5, <2>1 DEF RestWithin
  <1> QED
    BY <1>4, <1>5

-----------------------------------------------------------------------------
(* The directory.                                                                 *)

\* A file that a step leaves was there before, is the temporary file it writes, or holds
\* the value that the running operation was to store.
LEMMA FileStep ==
    ASSUME Directory, DbStep(Engine), NEW c \in Ops, c = Current(Engine), c.op # "unlink",
           NEW f \in files'
    PROVE  \/ f \in files /\ ~Writes(f)
           \/ Writes(f)' /\ (f.contents = Torn \/ (c.key = f.key /\ c.op = "fill" /\ f.contents = c.value))
           \/ Adds(c, f.key, f.contents)
  <1>k. Engine \in Users /\ DbTypeOK /\ WriteInv /\ ~failing /\ OneWrite /\ FilesSound
    BY KeysApart DEF Directory, WriteInv
  <1>r. todo[Engine] # <<>>
    BY <1>k, StepRuns
  <1>1. CASE QuietStep(Engine) /\ ~MoveRename(Engine)
    <2>1. ~Writing(Engine)
      BY <1>k, <1>1, QuietContinues DEF Writing
    <2>2. files' \subseteq files
      BY <1>1 DEF QuietStep, SaveBegins, MakeDir, Probe, RemoveFile, RemoveDir, MoveBegins, MoveMakeDir
    <2> QED
      BY <2>1, <2>2 DEF Writes
  <1>2. CASE MoveRename(Engine)
    <2>1. ~Writing(Engine) /\ c.op = "move_rename"
      BY <1>2 DEF MoveRename, Doing, Writing, Current, LiveOps
    <2>2. CASE f \in files
      BY <2>1, <2>2 DEF Writes
    <2>3. CASE f \notin files
      <3>1. PICK g \in files : g.key = c.key /\ g.name = ValuePath(c.value) /\ f = [g EXCEPT !.key = c.to]
        BY <1>2, <2>3 DEF MoveRename, FilesNamed, Current
      <3>2. g \in FileRecords
        BY <1>k DEF FilesSound
      <3>3. f.key = c.to /\ f.contents = g.contents
        BY <3>1, <3>2 DEF FileRecords
      <3>4. g.contents = c.value
        <4>1. Len(g.name) = 1 /\ g.name[1] = c.value
          BY <3>1 DEF ValuePath
        <4> QED
          BY <1>k, <4>1 DEF FilesSound, WholeEntries
      <3> QED
        BY <2>1, <3>3, <3>4 DEF Adds, MoveOps
    <2> QED
      BY <2>2, <2>3
  <1>3. CASE OpenTmp(Engine)
    <2>1. ~Writing(Engine) /\ c.op = "open"
      BY <1>3 DEF OpenTmp, Doing, Writing, Current, LiveOps
    <2>2. CASE f \in files
      BY <2>1, <2>2 DEF Writes
    <2>3. CASE f \notin files
      <3>1. PICK t : t = TempPath(c.key, c.value)
        OBVIOUS
      <3>2. f = File(c.key, t, Torn) /\ Continue(Engine, <<[c EXCEPT !.op = "fill", !.tmp = t]>>)
        BY <1>3, <2>3, <3>1 DEF OpenTmp, Current
      <3>3. f.key = c.key /\ f.name = t /\ f.contents = Torn
        BY <3>2 DEF File
      <3>4. t \in TmpNames
        <4>1. IsFiniteSet(files) /\ c.value \in Values
          BY <1>k DEF FilesSound, Ops
        <4> QED
          BY <3>1, <4>1, TempPathFresh
      <3>5. PICK d : d = [c EXCEPT !.op = "fill", !.tmp = t]
        OBVIOUS
      <3>6. d \in Ops /\ d.op = "fill" /\ d.tmp = t /\ d.key = c.key
        <4>1. "fill" \in OpNames \ MoveOps
          BY DEF OpNames, MoveOps
        <4>2. d \in Ops
          BY <3>4, <3>5, <4>1, OpsTyped
        <4> QED
          BY <3>5, <4>2 DEF Ops
      <3>7. todo'[Engine] # <<>> /\ Current(Engine)' = d
        BY <1>k, <1>r, <3>2, <3>5, <3>6, WriteContinues
      <3>8. Writes(f)'
        BY <3>3, <3>4, <3>6, <3>7 DEF Writes, Writing, LiveOps, TmpNames, Values
      <3> QED
        BY <3>3, <3>8
    <2> QED
      BY <2>2, <2>3
  <1>4. CASE FillTmp(Engine)
    <2>1. Writing(Engine) /\ c.op = "fill"
      BY <1>4, <1>r DEF FillTmp, Doing, Writing, Current, LiveOps
    <2>2. files' = (files \ FilesNamed(c.key, c.tmp)) \cup {File(c.key, c.tmp, c.value)}
          /\ Continue(Engine, <<[c EXCEPT !.op = "rename"]>>)
      BY <1>4, <1>k DEF FillTmp
    <2>3. CASE f \in files /\ f \notin FilesNamed(c.key, c.tmp)
      BY <2>3 DEF Writes, FilesNamed
    <2>4. CASE f = File(c.key, c.tmp, c.value)
      <3>1. f.key = c.key /\ f.name = c.tmp /\ f.contents = c.value
        BY <2>4 DEF File
      <3>2. PICK d \in Ops : d = [c EXCEPT !.op = "rename"] /\ d.key = c.key /\ d.tmp = c.tmp /\ d.op = "rename"
        <4>1. PICK e \in Ops : /\ e = Current(Engine) /\ e.tmp \in TmpNames
                               /\ \A d \in {[e EXCEPT !.op = "rename"], [e EXCEPT !.op = "unlink"]} :
                                     d \in Ops /\ d.key = e.key /\ d.tmp = e.tmp /\ d.value = e.value
                               /\ [e EXCEPT !.op = "rename"].op = "rename"
          BY <1>k, <2>1, WriterOwns
        <4> QED
          BY <4>1
      <3>3. c.tmp \in TmpNames
        BY <1>k, <2>1 DEF WriteInv, WritersHaveFiles
      <3>4. todo'[Engine] # <<>> /\ Current(Engine)' = d
        BY <1>k, <1>r, <2>2, <3>2, WriteContinues
      <3>5. Writes(f)'
        BY <3>1, <3>2, <3>3, <3>4 DEF Writes, Writing, LiveOps, TmpNames, Values
      <3> QED
        BY <2>1, <3>1, <3>5
    <2> QED
      BY <2>2, <2>3, <2>4
  <1>5. CASE RenameTmp(Engine)
    <2>1. Writing(Engine) /\ c.op = "rename"
      BY <1>5, <1>r DEF RenameTmp, Doing, Writing, Current, LiveOps
    <2>2. /\ Exists(c.key, c.tmp)
          /\ \A g \in FilesNamed(c.key, c.tmp) : g.contents = c.value
      BY <1>k, <2>1 DEF WriteInv, WritersHaveFiles
    <2>3. files' = {g \in files : g.key # c.key \/ g.name \notin {c.tmp, ValuePath(c.value)}}
                      \cup {[g EXCEPT !.name = ValuePath(c.value)] : g \in FilesNamed(c.key, c.tmp)}
      BY <1>5, <1>k, <2>2 DEF RenameTmp
    <2>4. CASE f \in files /\ (f.key # c.key \/ f.name # c.tmp)
      BY <2>4 DEF Writes
    <2>5. ASSUME NEW g \in FilesNamed(c.key, c.tmp), f = [g EXCEPT !.name = ValuePath(c.value)]
          PROVE  Adds(c, f.key, f.contents)
      <3>1. g \in FileRecords /\ g.key = c.key /\ g.contents = c.value
        BY <1>k, <2>2 DEF FilesSound, FilesNamed
      <3>2. f.key = c.key /\ f.contents = c.value
        BY <2>5, <3>1 DEF FileRecords
      <3> QED
        BY <2>1, <3>2 DEF Adds, WriteOps
    <2> QED
      BY <2>3, <2>4, <2>5
  <1>6. ~UnlinkTmp(Engine)
    BY DEF UnlinkTmp, Doing, Current
  <1> QED
    BY <1>1, <1>2, <1>3, <1>4, <1>5, <1>6 DEF DbStep, QuietStep

\* The directory stays what it is.
LEMMA DirectoryStep ==
    ASSUME Directory, DbStep(Engine)
    PROVE  Directory'
  <1>k. Engine \in Users /\ DbTypeOK /\ WriteInv /\ ~failing /\ failing = FALSE
    BY KeysApart DEF Directory
  <1>l. PICK lost : lost = AllKeys \X TmpNames
    OBVIOUS
  <1>o. TmpsOwned(lost)
    BY <1>k, <1>l DEF TmpsOwned, WriteInv, FilesSound, FileRecords
  <1>a. Abandons(Engine, lost, lost)
    BY <1>k DEF Abandons
  <1>1. DbTypeOK' /\ WriteInv'
    BY <1>k, <1>o, <1>a, DbStepSound
  <1>2. failing' = FALSE
    BY <1>k DEF DbStep
  <1>3. (\A f \in files : f.key \in dirs)'
    BY <1>k, FilesInDirs DEF Directory
  <1>4. PICK c \in Ops : /\ c = Current(Engine) /\ Work # <<>> /\ c = Work[1] /\ OpFits(c)
                         /\ \E next : NextFits(next) /\ Effect(c, next)
    BY DbEffect
  <1>5. PICK next : NextFits(next)
    BY <1>4
  <1>6. ASSUME NEW f \in files', f.key \in Keys PROVE f.contents \in Entries
    <2>1. c.op # "unlink"
      BY <1>4 DEF OpFits
    <2>2. CASE f \in files
      BY <1>6, <2>2 DEF Directory
    <2>3. CASE f.contents = Torn
      BY <2>3, KeysApart
    <2>4. CASE c.key = f.key /\ c.op = "fill" /\ f.contents = c.value
      BY <1>4, <1>6, <2>4 DEF OpFits
    <2>5. CASE Adds(c, f.key, f.contents)
      <3>1. c.op # "rmdir" /\ f.contents = c.value
        BY <2>5 DEF Adds, WriteOps, MoveOps
      <3>2. c.key \in Keys
        BY <1>4, <1>6, <2>5, KeysApart DEF Adds, OpFits
      <3> QED
        BY <1>4, <3>1, <3>2 DEF OpFits
    <2> QED
      BY <1>4, <2>1, <2>2, <2>3, <2>4, <2>5, FileStep
  <1>7. /\ Work \in Seq(Ops) /\ Work' \in Seq(Ops) /\ Len(Work) \in Nat \ {0} /\ Len(next) \in Nat
        /\ Len(Work') = Len(Work) - 1 + Len(next)
        /\ \A i \in 1 .. Len(next) : Work'[i] = next[i]
        /\ \A i \in 2 .. Len(Work) : Work'[i - 1 + Len(next)] = Work[i]
    BY <1>4, <1>5, StackMoved DEF NextFits
  <1>8. ASSUME NEW j \in 1 .. Len(Work')
        PROVE  /\ OpFits(Work'[j]) /\ (Work'[j].op \in Heads => j = 1)
               /\ j \in 1 .. Len(next) \/ Work'[j].op \notin Heads
    <2>1. CASE j \in 1 .. Len(next)
      BY <1>5, <1>7, <2>1 DEF NextFits
    <2>2. CASE j \notin 1 .. Len(next)
      <3>0. j \in Int /\ Len(next) \in Int
        BY <1>7
      <3>1. PICK i \in Int : i = j - Len(next) + 1
        BY <3>0
      <3>2. i \in 2 .. Len(Work) /\ j = i - 1 + Len(next) /\ i \in 1 .. Len(Work) /\ i # 1
        BY <1>7, <2>2, <3>1
      <3>3. Work'[j] = Work[i]
        BY <1>7, <3>2
      <3>4. OpFits(Work[i]) /\ Work[i].op \notin Heads
        BY <3>2 DEF Directory, StackFits
      <3> QED
        BY <2>2, <3>3, <3>4
    <2> QED
      BY <2>1, <2>2
  <1>9. StackFits(Work')
    BY <1>8 DEF StackFits
  <1>10. HeadFits(Work)'
    <2> SUFFICES ASSUME Work' # <<>>
                 PROVE  /\ Work'[1].op \in InDir => Work'[1].key \in dirs'
                        /\ Work'[1].op = "move_rename" => Work'[1].to \in dirs'
      BY DEF HeadFits
    <2>1. 1 \in 1 .. Len(Work')
      BY <1>7
    <2>2. CASE 1 \in 1 .. Len(next)
      <3>1. Work'[1] = next[1] /\ next # <<>>
        BY <1>7, <2>2
      <3> QED
        BY <1>5, <3>1 DEF NextFits, HeadFits
    <2>3. CASE 1 \notin 1 .. Len(next)
      BY <1>8, <2>1, <2>3 DEF Heads, InDir
    <2> QED
      BY <2>2, <2>3
  <1> QED
    BY <1>1, <1>2, <1>3, <1>6, <1>9, <1>10 DEF Directory, StackFits, OpFits, Ops, OpNames, MoveOps,
       AllKeys, Values, TmpNames, Heads

\* The calls that the engine makes for one of its own steps.
LEMMA DirectoryPerform ==
    ASSUME Directory, NEW ops \in Seq(Ops), \A i \in 1 .. Len(ops) : OpFits(ops[i]) /\ ops[i].op \notin Heads,
           Perform(ops), UNCHANGED <<failing, dirs, files>>
    PROVE  Directory' /\ Work' = ops
  <1>k. /\ Engine \in Users /\ Users = {Engine} /\ DbTypeOK /\ WriteInv /\ failing = FALSE
        /\ FilesSound /\ todo \in [Users -> Seq(Ops)]
    BY KeysApart DEF Directory, WriteInv, DbTypeOK
  <1>1. /\ todo' \in [Users -> Seq(Ops)] /\ todo'[Engine] = ops /\ \A u \in Users : todo'[u] = ops
        /\ Len(ops) \in Nat
    BY <1>k DEF Perform
  <1>2. Work' = ops
    BY <1>1 DEF Work
  <1>3. ASSUME NEW i \in 1 .. Len(ops) PROVE ops[i].op \notin LiveOps
    BY DEF OpFits, Heads, LiveOps
  <1>4. OneWrite'
    <2>1. \A i \in 2 .. Len(ops) : i \in 1 .. Len(ops)
      BY <1>1
    <2> QED
      BY <1>1, <1>3, <2>1 DEF OneWrite
  <1>5. \A u \in Users : ~Writing(u)'
    <2> SUFFICES ASSUME ops # <<>> PROVE Head(ops).op \notin LiveOps
      BY <1>1 DEF Writing, Current
    <2>1. 1 \in 1 .. Len(ops) /\ Head(ops) = ops[1]
      BY <1>1
    <2> QED
      BY <1>3, <2>1
  <1>6. WritersHaveFiles' /\ WritersApart'
    BY <1>5 DEF WritersHaveFiles, WritersApart
  <1>7. FilesSound'
    BY <1>k, FilesRemoved
  <1>8. WriteInv'
    BY <1>4, <1>6, <1>7 DEF WriteInv
  <1>9. DbTypeOK'
    BY <1>k, <1>1 DEF DbTypeOK, OwnNames, TmpNames, Ops, OpNames, MoveOps, AllKeys, Values
  <1>10. StackFits(ops) /\ HeadFits(ops)'
    <2>1. ops # <<>> => 1 \in 1 .. Len(ops)
      BY <1>1
    <2> QED
      BY <2>1 DEF StackFits, HeadFits, Heads, InDir
  <1>11. StackFits(Work)' /\ HeadFits(Work)'
    BY <1>2, <1>10 DEF StackFits, HeadFits, OpFits, Ops, OpNames, MoveOps, AllKeys, Values, TmpNames, Heads
  <1> QED
    BY <1>k, <1>2, <1>8, <1>9, <1>11 DEF Directory

\* Steps that leave the directory alone.
LEMMA DirectorySame ==
    ASSUME Directory, UNCHANGED <<failing, dirs, files, todo>>
    PROVE  Directory'
  <1>1. DbTypeOK /\ WriteInv /\ failing = FALSE /\ FilesSound /\ OneWrite
    BY DEF Directory, WriteInv
  <1>l. PICK lost : lost = AllKeys \X TmpNames
    OBVIOUS
  <1>o. TmpsOwned(lost)
    BY <1>1, <1>l DEF TmpsOwned, FilesSound, FileRecords
  <1>2. DbTypeOK' /\ WriteInv'
    BY <1>1, <1>o, DbUnchanged DEF dbVars
  <1>3. StackFits(Work)' /\ HeadFits(Work)'
    BY DEF Directory, StackFits, HeadFits, OpFits, Ops, OpNames, MoveOps, AllKeys, Values, TmpNames,
           Heads, Work
  <1> QED
    BY <1>1, <1>2, <1>3 DEF Directory

\* What is stored, and what is to be, when only the engine's memory changes.
LEMMA SameWork ==
    ASSUME UNCHANGED <<files, todo>>
    PROVE  /\ Work' = Work /\ \A k : Stored(k)' = Stored(k) /\ Fetch(k)' = Fetch(k)
           /\ \A v : Kept(v)' <=> Kept(v)
           /\ \A prev, v : Covered(prev, v)' <=> Covered(prev, v)
  <1>1. Work' = Work
    BY DEF Work
  <1>2. \A k : Stored(k)' = Stored(k)
    BY SameFiles
  <1>3. \A k : Fetch(k)' = Fetch(k)
    BY DEF Fetch
  <1>4. \A v : Kept(v)' <=> Kept(v)
    BY <1>1, <1>2 DEF Kept, Drops, MoveOps
  <1>5. \A prev, v : Coming(prev, v)' <=> Coming(prev, v)
    BY <1>1, <1>2 DEF Coming, Adds, Drops, MoveOps, WriteOps
  <1> QED
    BY <1>1, <1>2, <1>3, <1>4, <1>5 DEF Covered

\* An engine that has nothing to do on disk.
LEMMA IdleWork ==
    ASSUME Work = <<>>
    PROVE  /\ \A v : Kept(v) <=> v \in Stored(Primary)
           /\ \A prev, v : Covered(prev, v) <=> v \in Stored(Primary)
           /\ \A k, X : AddsWithin(k, X) <=> Stored(k) \subseteq X
           /\ \A k, X : RestWithin(k, X) <=> Stored(k) \subseteq X
           /\ \A f : ~Writes(f)
  <1>1. Len(Work) = 0 /\ \A i : i \notin 1 .. 0
    OBVIOUS
  <1>2. \A v : Kept(v) <=> v \in Stored(Primary)
    BY <1>1 DEF Kept
  <1>3. \A prev, v : Covered(prev, v) <=> v \in Stored(Primary)
    BY <1>1, <1>2 DEF Covered, Coming
  <1>4. \A k, X : AddsWithin(k, X) <=> Stored(k) \subseteq X
    BY <1>1 DEF AddsWithin
  <1>5. \A k, X : RestWithin(k, X) <=> Stored(k) \subseteq X
    BY <1>1 DEF RestWithin
  <1>6. \A f : ~Writes(f)
    BY DEF Writes, Writing, Work
  <1> QED
    BY <1>2, <1>3, <1>4, <1>5, <1>6

-----------------------------------------------------------------------------
(* The memory of a run.                                                           *)

MaybeCases == Cases \cup {None}
Conclusions == Origins \cup {Valid, Overrun, Concurrent}

RunTypes ==
    /\ flaky \in BOOLEAN /\ nondeterministic \in BOOLEAN
    /\ phase \in Phases /\ settings \in Settings /\ test \in Versions
    /\ preexisting \subseteq Entries /\ saved_this_run \subseteq Cases
    /\ last_saved \in [Origins -> MaybeCases]
    /\ interesting \in [Origins -> MaybeCases]
    /\ owed \in [Origins -> MaybeCases]
    /\ seen \in [Cases -> Origins \cup {Valid, None}]
    /\ queue \subseteq [raw : Entries, primary : BOOLEAN]
    /\ executing \in [case : MaybeCases, verdict : Conclusions, abort : BOOLEAN]
    /\ target \in [origin : Origins \cup {Valid}, case : MaybeCases]
    /\ target # NoTarget => target.origin \in Origins
    /\ nondeterministic => \A c \in Cases : seen[c] = None
    /\ expected \subseteq Origins

Resting == {"off", "done", "aborted"}
Executing == {"reuse", "generate", "downgrade", "shrink"}

\* Where the run stands, and what it has under way.
Control ==
    /\ phase \in Resting => Work = <<>>
    /\ executing # NoCase => phase \in Executing
    /\ Interesting(executing) => executing.case \in DOMAIN test
    /\ target # NoTarget => phase \in {"shrink", "aborted"}
    /\ target # NoTarget /\ phase = "shrink" =>
          /\ target.origin \in Origins /\ interesting[target.origin] # None
          /\ ~executing.abort => target.case \in Cases

\* The phases before reconcile_database, and a run cut short in one of them.
Early == {"reuse", "generate", "generated", "downgrade", "shrink", "reconcile", "aborted"}

\* The execution that takes the place of an origin's last save.
Supersedes(o) ==
    /\ executing.verdict = o
    /\ last_saved[o] = None \/ executing.case < last_saved[o]

\* What was saved last for an origin stays in the primary key until something else of
\* that origin is in it.
SavedFor(o) ==
    /\ last_saved[o] # None => last_saved[o] \in DOMAIN test
    /\ last_saved[o] # None <=> interesting[o] # None
    /\ IF Supersedes(o) THEN Covered(last_saved[o], executing.case)
       ELSE last_saved[o] # None => Kept(last_saved[o])

Saved == phase \in Early /\ nondeterministic = FALSE => \A o \in Origins : SavedFor(o)

Known(c) == seen[c] \notin {None, Valid}

\* The reuse phase has the verdict of whatever it saved, so that a replay of it that
\* concludes otherwise ends the run instead of being forgotten.
SeenOnce ==
    phase = "reuse" /\ nondeterministic = FALSE /\ executing.abort = FALSE =>
        /\ \A o \in Origins : last_saved[o] # None => Known(last_saved[o])
        /\ Interesting(executing) => Known(executing.case)

\* A test that is not flaky concludes as its version says, and for each origin the last
\* save, the incumbent and what is owed follow one another.
OrderedFor(o) ==
    /\ last_saved[o] # None <=> owed[o] # None
    /\ last_saved[o] # None <=> interesting[o] # None
    /\ last_saved[o] # None =>
          /\ last_saved[o] \in DOMAIN test /\ test[last_saved[o]] = o
          /\ interesting[o] \in DOMAIN test /\ test[interesting[o]] = o
          /\ last_saved[o] <= interesting[o] /\ interesting[o] <= owed[o]

OrderedTarget ==
    /\ target.case \in DOMAIN test /\ test[target.case] = target.origin
    /\ \/ last_saved[target.origin] <= target.case
       \/ executing.verdict = target.origin /\ executing.case = target.case

Ordered ==
    flaky = FALSE =>
        /\ nondeterministic = FALSE
        /\ Interesting(executing) => test[executing.case] = executing.verdict
        /\ phase # "off" => \A o \in Origins : OrderedFor(o)
        /\ phase = "shrink" /\ target # NoTarget => OrderedTarget

NewLeft(c) == <<"new", c>> \in left
OldsLeft == {raw \in Entries : <<"old", raw>> \in left}

\* While reconcile_database saves and displaces: each final failure or the last save it
\* supersedes is in the primary key, and only what is left to displace is besides.
SavingFor(o) ==
    IF NewLeft(interesting[o]) THEN last_saved[o] # None /\ Kept(last_saved[o])
    ELSE Covered(last_saved[o], interesting[o])

Saving ==
    phase = "save" =>
        /\ \A o \in Failures(interesting) : SavingFor(o)
        /\ \A c \in Cases : NewLeft(c) => c \in Incumbents(interesting)
        /\ OldsLeft \cap Incumbents(interesting) = {}
        /\ OldsLeft \subseteq preexisting \cup saved_this_run
        /\ RestWithin(Primary, Incumbents(interesting) \cup OldsLeft)

Small(K) == IsFiniteSet(K) /\ Cardinality(K) <= Cap

Spared(i) == \A v \in Values : ~Adds(Work[i], Primary, v) /\ ~Drops(Work[i], Primary, v)

\* While it evicts, and when it is done: the primary key is what it should be, and so
\* is the secondary one but for what is left to evict.
Evicting ==
    phase \in {"evict", "done"} /\ nondeterministic = FALSE =>
        /\ phase = "done" => left = {}
        /\ Stored(Primary) = Incumbents(interesting)
        /\ \A i \in 1 .. Len(Work) : Spared(i)
        /\ \E K \in SUBSET Entries : Small(K) /\ RestWithin(Secondary, K \cup left)

\* What the run adds to the primary key, besides what it found there and recorded.
InFlight(v) ==
    /\ Interesting(executing) /\ nondeterministic = FALSE
    /\ Supersedes(executing.verdict) /\ v = executing.case

\* Every entry can be accounted for: it was there at the start, or the run saved it.
Accountable ==
    /\ preexisting \subseteq run_start
    /\ AddsWithin(Secondary, run_start)
    /\ phase \in Early \ {"aborted"} =>
          /\ \A f \in files : f.key = Primary =>
                f.contents \in preexisting \cup saved_this_run \/ InFlight(f.contents) \/ Writes(f)
          /\ \A i \in 1 .. Len(Work) : \A v \in Values : Adds(Work[i], Primary, v) => InFlight(v)

Queued(o) ==
    \E entry \in queue : entry.primary /\ entry.raw \in DOMAIN test /\ test[entry.raw] = o

\* What the last run recorded has been found again or is still to be replayed.
FoundFor(o) ==
    \/ interesting[o] # None
    \/ ~settings.report_multiple /\ Failures(interesting) # {}
    \/ /\ phase = "reuse"
       /\ \/ Queued(o)
          \/ executing.verdict = o
          \/ ~settings.report_multiple /\ Interesting(executing)

Found ==
    flaky = FALSE /\ phase \in {"reuse", "generate", "generated"} /\ settings.reuse =>
        \A o \in expected : FoundFor(o)

\* A killed run leaves what it owed.
AtRest == phase = "off" => BestIsDurable

RunInv ==
    /\ Directory /\ RunTypes /\ Control
    /\ Saved /\ SeenOnce /\ Ordered
    /\ Saving /\ Evicting /\ Accountable
    /\ Found /\ AtRest

-----------------------------------------------------------------------------
(* The steps of a run, by what they change.                                       *)

DiskSame == UNCHANGED <<failing, dirs, files, todo>>

MemorySame ==
    UNCHANGED <<flaky, phase, test, settings, preexisting, saved_this_run, last_saved, interesting,
                nondeterministic, seen, queue, executing, target, left, owed, expected, run_start>>

\* What all steps leave alone but for those that start, record, finish or kill a run.
Settled ==
    UNCHANGED <<failing, dirs, files, flaky, test, settings, preexisting, saved_this_run, last_saved,
                interesting, owed, expected, run_start>>

NoChoices == [case |-> None, verdict |-> Overrun]
Outcomes == Runs(DOMAIN test) \cup {NoChoices}

\* An execution, in one of the phases that execute anything.
Executes(run, abort, after) ==
    /\ Ready /\ Settled /\ run \in Outcomes
    /\ Execute(run, abort, after)
    /\ UNCHANGED <<phase, left>>
    /\ \/ /\ phase = "reuse" /\ UNCHANGED target
          /\ \E entry \in queue :
                /\ run \in Replays(entry.raw)
                /\ queue' = IF nondeterministic' \/ StopsReplay(run) THEN {} ELSE queue \ {entry}
                /\ abort = Mismatch(run)
                /\ after = IF ~Mismatch(run) /\ ~Interesting(run) THEN Forget(entry.raw) ELSE <<>>
       \/ phase = "generate" /\ after = <<>> /\ abort = Mismatch(run) /\ UNCHANGED <<target, queue>>
       \/ /\ phase = "downgrade" /\ abort = FALSE /\ UNCHANGED target
          /\ \E entry \in queue : after = <<Delete(Secondary, entry.raw)>> /\ queue' = queue \ {entry}
       \/ /\ phase = "shrink" /\ after = <<>> /\ UNCHANGED queue
          /\ \/ \E o \in Failures(interesting) :
                   /\ target = NoTarget /\ run \in Replays(interesting[o])
                   /\ abort = (Mismatch(run) \/ run.verdict # o)
                   /\ target' = [origin |-> o, case |-> run.case]
             \/ /\ target # NoTarget /\ run \in Runs(DOMAIN test) /\ abort = Mismatch(run)
                /\ \/ target' = target
                   \/ /\ run.verdict = target.origin
                      /\ target' = [target EXCEPT !.case = run.case]

\* A stored example that cannot be decoded is dropped.
Removes(ops) ==
    /\ Ready /\ Settled /\ Perform(ops)
    /\ UNCHANGED <<phase, executing, nondeterministic, seen, left, target>>
    /\ \/ phase = "reuse" /\ ops = Forget(Torn)
       \/ phase = "downgrade" /\ ops = <<Delete(Secondary, Torn)>>
    /\ \E entry \in queue : entry.raw = Torn /\ queue' = queue \ {entry}

\* The run goes on to its next phase.
PassesOn ==
    /\ Ready /\ Settled
    /\ UNCHANGED <<todo, executing, nondeterministic, seen, left, target>>
    /\ \/ /\ phase = "reuse" /\ phase' \in {"generate", "generated"} /\ queue' = {}
          /\ \A entry \in queue : ~entry.primary
       \/ phase = "generate" /\ phase' \in {"generated", "aborted"} /\ UNCHANGED queue
       \/ phase = "generated" /\ phase' = "reconcile" /\ UNCHANGED queue
       \/ phase = "generated" /\ phase' = "downgrade" /\ queue' = Stage(Fetch(Secondary), FALSE)
       \/ phase = "downgrade" /\ phase' = "shrink" /\ queue' = {}
       \/ phase = "shrink" /\ phase' = "reconcile" /\ UNCHANGED queue /\ target = NoTarget

\* reconcile_database goes on to its next part.
Enters(next, work) ==
    /\ Ready /\ Settled
    /\ UNCHANGED <<todo, executing, nondeterministic, seen, queue, target>>
    /\ phase' = next /\ left' = work
    /\ \/ phase = "reconcile" /\ nondeterministic /\ next = "done" /\ work = {}
       \/ /\ phase = "reconcile" /\ ~nondeterministic /\ next = "save"
          /\ work = {<<"new", c>> : c \in Incumbents(interesting)} \cup
                    {<<"old", raw>> : raw \in Fetch(Primary) \ Incumbents(interesting)}
       \/ phase = "save" /\ left = {} /\ next = "evict" /\ work = Excess
       \/ phase = "evict" /\ left = {} /\ next = "done" /\ work = {}

\* It works on one entry.
WorksOn(entry, ops) ==
    /\ Ready /\ Settled /\ Perform(ops)
    /\ UNCHANGED <<phase, executing, nondeterministic, seen, queue, target>>
    /\ entry \in left /\ left' = left \ {entry}
    /\ \/ phase = "save" /\ \E c \in Cases : entry = <<"new", c>> /\ ops = <<Save(Primary, c)>>
       \/ /\ phase = "save" /\ \A c \in Cases : ~NewLeft(c)
          /\ \E raw \in Entries : entry = <<"old", raw>> /\ ops = Displacement(raw)
       \/ phase = "evict" /\ entry \in Entries /\ ops = <<Delete(Secondary, entry)>>

\* An execution is filed away.
Better(map) == map[executing.verdict] = None \/ executing.case < map[executing.verdict]

Records ==
    /\ executing # NoCase /\ executing' = NoCase /\ Work = <<>> /\ DiskSame
    /\ phase' = IF executing.abort THEN "aborted" ELSE phase
    /\ UNCHANGED <<flaky, test, settings, preexisting, nondeterministic, seen, queue, target, left,
                   expected, run_start>>
    /\ Interesting(executing) =>
          /\ IF nondeterministic = FALSE /\ Better(last_saved)
             THEN /\ last_saved' = [last_saved EXCEPT ![executing.verdict] = executing.case]
                  /\ saved_this_run' = saved_this_run \cup {executing.case}
                  /\ owed' = [owed EXCEPT ![executing.verdict] = executing.case]
             ELSE UNCHANGED <<last_saved, saved_this_run, owed>>
          /\ interesting' = IF Better(interesting)
                            THEN [interesting EXCEPT ![executing.verdict] = executing.case]
                            ELSE interesting
    /\ ~Interesting(executing) => UNCHANGED <<last_saved, saved_this_run, owed, interesting>>

\* The shrinker is done with an origin.
Shrunk ==
    /\ phase = "shrink" /\ Ready /\ target # NoTarget /\ target' = NoTarget /\ DiskSame
    /\ UNCHANGED <<flaky, phase, test, settings, preexisting, saved_this_run, last_saved,
                   nondeterministic, seen, queue, executing, left, expected, run_start>>
    /\ interesting' = [interesting EXCEPT ![target.origin] = target.case]
    /\ owed' = IF owed[target.origin] = None THEN owed
               ELSE [owed EXCEPT ![target.origin] = target.case]

\* A run begins, with all its memory new.
Begins ==
    /\ phase \in Resting /\ phase' = "reuse" /\ DiskSame
    /\ UNCHANGED flaky
    /\ settings' \in Settings /\ test' \in Versions
    /\ preexisting' = Fetch(Primary)
    /\ saved_this_run' = {} /\ last_saved' = NoFailures /\ interesting' = NoFailures
    /\ nondeterministic' = FALSE /\ seen' = [c \in Cases |-> None]
    /\ \E plan \in ReplayPlans : queue' = IF settings'.reuse THEN plan ELSE {}
    /\ target' = NoTarget /\ left' = {} /\ executing' = NoCase /\ owed' = NoFailures
    /\ expected' = IF test' = test THEN Failures(owed) ELSE {}
    /\ run_start' = run_start \cup Fetch(Primary)

\* It is killed; only the files and what is owed remain.
Killed ==
    /\ phase' = "off" /\ Perform(<<>>) /\ phase \notin Resting /\ flaky = FALSE
    /\ UNCHANGED <<failing, dirs, files, flaky, test, owed, expected, run_start>>
    /\ settings' \in Settings
    /\ preexisting' = {}
    /\ saved_this_run' = {} /\ last_saved' = NoFailures /\ interesting' = NoFailures
    /\ nondeterministic' = FALSE /\ seen' = [c \in Cases |-> None]
    /\ queue' = {} /\ target' = NoTarget /\ left' = {} /\ executing' = NoCase

\* Whatever a stored example does when replayed is an outcome of this version.
LEMMA ReplayOutcomes ==
    \A raw : \A run \in Replays(raw) : run \in Outcomes
  BY DEF Replays, Outcomes, Runs, NoChoices

\* One action of the engine's loop at a time.
LEMMA ReplayStoredKind ==
    ASSUME NEW entry \in queue, NEW run \in Replays(entry.raw), ReplayStored(entry, run)
    PROVE  \E abort, after : Executes(run, abort, after)
  <1>1. run \in Outcomes
    BY ReplayOutcomes
  <1>2. PICK after : after = IF ~Mismatch(run) /\ ~Interesting(run) THEN Forget(entry.raw) ELSE <<>>
    OBVIOUS
  <1>3. Execute(run, Mismatch(run), after)
    BY <1>2 DEF ReplayStored
  <1>4. /\ Ready /\ Settled /\ UNCHANGED <<phase, left, target>> /\ phase = "reuse"
        /\ queue' = IF nondeterministic' \/ StopsReplay(run) THEN {} ELSE queue \ {entry}
    BY DEF ReplayStored, Settled, world, persister, shrinking, history
  <1>5. Executes(run, Mismatch(run), after)
    BY <1>1, <1>2, <1>3, <1>4 DEF Executes
  <1> QED
    BY <1>5

\* The shrink phase replays or drops one secondary entry.
LEMMA DowngradeKind ==
    ASSUME NEW entry \in queue, NEW run \in Replays(entry.raw) \cup {NoCase}, Downgrade(entry, run)
    PROVE  \/ \E abort, after : Executes(run, abort, after)
           \/ \E ops : Removes(ops)
  <1>1. /\ Ready /\ Settled /\ UNCHANGED <<phase, left, target>> /\ phase = "downgrade"
        /\ queue' = queue \ {entry}
    BY DEF Downgrade, Settled, world, persister, shrinking, history
  <1>2. CASE entry.raw = Torn
    <2>1. Perform(<<Delete(Secondary, Torn)>>) /\ UNCHANGED <<executing, nondeterministic, seen>>
      BY <1>2 DEF Downgrade, verdicts
    <2>2. Removes(<<Delete(Secondary, Torn)>>)
      BY <1>1, <1>2, <2>1 DEF Removes
    <2> QED
      BY <2>2
  <1>3. CASE entry.raw # Torn
    <2>1. run \in Replays(entry.raw) /\ Execute(run, FALSE, <<Delete(Secondary, entry.raw)>>)
      BY <1>3 DEF Downgrade
    <2>2. run \in Outcomes
      BY <2>1, ReplayOutcomes
    <2>3. Executes(run, FALSE, <<Delete(Secondary, entry.raw)>>)
      BY <1>1, <2>1, <2>2 DEF Executes
    <2> QED
      BY <2>3
  <1> QED
    BY <1>2, <1>3

\* The generation phase executes a case.
LEMMA GenerateKind ==
    ASSUME NEW run \in Runs(DOMAIN test), Generate(run)
    PROVE  \E abort, after : Executes(run, abort, after)
  <1>1. /\ Ready /\ Settled /\ UNCHANGED <<phase, left, target, queue>> /\ phase = "generate"
        /\ Execute(run, Mismatch(run), <<>>) /\ run \in Outcomes
    BY DEF Generate, Settled, world, persister, shrinking, history, replaying, Outcomes
  <1>2. Executes(run, Mismatch(run), <<>>)
    BY <1>1 DEF Executes
  <1> QED
    BY <1>2

\* The shrinker tries a case.
LEMMA ProbeKind ==
    ASSUME NEW run \in Runs(DOMAIN test), ShrinkProbe(run)
    PROVE  \E abort, after : Executes(run, abort, after)
  <1>1. /\ Ready /\ Settled /\ UNCHANGED <<phase, left, queue>> /\ phase = "shrink"
        /\ Execute(run, Mismatch(run), <<>>) /\ run \in Outcomes /\ target # NoTarget
    BY DEF ShrinkProbe, Settled, world, persister, history, replaying, Outcomes
  <1>2. \/ target' = target
        \/ run.verdict = target.origin /\ target' = [target EXCEPT !.case = run.case]
    BY DEF ShrinkProbe
  <1>3. Executes(run, Mismatch(run), <<>>)
    BY <1>1, <1>2 DEF Executes
  <1> QED
    BY <1>3

\* The shrink phase verifies an incumbent.
LEMMA VerifyKind ==
    ASSUME NEW o \in Failures(interesting), NEW run \in Replays(interesting[o]), Verify(o, run)
    PROVE  \E abort, after : Executes(run, abort, after)
  <1>1. /\ Ready /\ Settled /\ UNCHANGED <<phase, left, queue>> /\ phase = "shrink"
        /\ target = NoTarget /\ target' = [origin |-> o, case |-> run.case]
    BY DEF Verify, Settled, world, persister, history, replaying
  <1>2. PICK abort \in BOOLEAN : abort = (Mismatch(run) \/ run.verdict # o)
    OBVIOUS
  <1>3. Execute(run, abort, <<>>)
    BY <1>2 DEF Verify
  <1>4. Executes(run, abort, <<>>)
    BY <1>1, <1>2, <1>3, ReplayOutcomes DEF Executes
  <1> QED
    BY <1>4

\* The phases up to reconcile_database follow one another.
LEMMA PassKind ==
    ASSUME \/ ReuseEnds \/ GenerateEnds \/ HealthCheckFails \/ AfterGenerate \/ DowngradeEnds \/ AllShrunk
    PROVE  PassesOn
  <1> USE DEF PassesOn, Settled, world, memory, persister, verdicts, replaying, shrinking, history
  <1>1. CASE ReuseEnds
    BY <1>1 DEF ReuseEnds
  <1>2. CASE GenerateEnds
    BY <1>2 DEF GenerateEnds
  <1>3. CASE HealthCheckFails
    BY <1>3 DEF HealthCheckFails
  <1>4. CASE AfterGenerate
    BY <1>4 DEF AfterGenerate
  <1>5. CASE DowngradeEnds
    BY <1>5 DEF DowngradeEnds
  <1>6. CASE AllShrunk
    BY <1>6 DEF AllShrunk
  <1> QED
    BY <1>1, <1>2, <1>3, <1>4, <1>5, <1>6

\* reconcile_database begins, goes on to evict, and ends.
LEMMA EnterKind ==
    ASSUME Reconcile \/ Displaced \/ Evicted
    PROVE  \E next, work : Enters(next, work)
  <1>1. ASSUME NEW next, NEW work, EnterPhase(next, work)
        PROVE  /\ Settled /\ phase' = next /\ left' = work
               /\ UNCHANGED <<todo, executing, nondeterministic, seen, queue, target>>
    BY <1>1 DEF EnterPhase, Settled, world, persister, verdicts, replaying, shrinking, history
  <1>2. CASE Reconcile /\ nondeterministic
    <2>1. EnterPhase("done", {}) /\ Ready /\ phase = "reconcile"
      BY <1>2 DEF Reconcile
    <2>2. Enters("done", {})
      BY <1>1, <1>2, <2>1 DEF Enters
    <2> QED
      BY <2>2
  <1>3. CASE Reconcile /\ ~nondeterministic
    <2>0. PICK work : work = {<<"new", c>> : c \in Incumbents(interesting)} \cup
                    {<<"old", raw>> : raw \in Fetch(Primary) \ Incumbents(interesting)}
      OBVIOUS
    <2>1. EnterPhase("save", work) /\ Ready /\ phase = "reconcile"
      BY <1>3, <2>0 DEF Reconcile
    <2>2. Enters("save", work)
      BY <1>1, <1>3, <2>0, <2>1 DEF Enters
    <2> QED
      BY <2>2
  <1>4. CASE Displaced
    <2>1. EnterPhase("evict", Excess) /\ Ready /\ phase = "save" /\ left = {}
      BY <1>4 DEF Displaced
    <2>2. Enters("evict", Excess)
      BY <1>1, <2>1 DEF Enters
    <2> QED
      BY <2>2
  <1>5. CASE Evicted
    <2>1. EnterPhase("done", {}) /\ Ready /\ phase = "evict" /\ left = {}
      BY <1>5 DEF Evicted
    <2>2. Enters("done", {})
      BY <1>1, <2>1 DEF Enters
    <2> QED
      BY <2>2
  <1> QED
    BY <1>2, <1>3, <1>4, <1>5

\* reconcile_database saves, displaces or evicts one entry.
LEMMA WorkKind ==
    ASSUME \/ \E c \in Cases : SaveNew(c)
           \/ \E raw \in Entries : Displace(raw) \/ Evict(raw)
    PROVE  \E entry, ops : WorksOn(entry, ops)
  <1>1. ASSUME NEW entry, NEW ops, WorkOn(entry, ops)
        PROVE  /\ Ready /\ Settled /\ Perform(ops) /\ entry \in left /\ left' = left \ {entry}
               /\ UNCHANGED <<phase, executing, nondeterministic, seen, queue, target>>
    BY <1>1 DEF WorkOn, Settled, world, persister, verdicts, replaying, shrinking, history
  <1>2. ASSUME NEW c \in Cases, SaveNew(c) PROVE WorksOn(<<"new", c>>, <<Save(Primary, c)>>)
    <2>1. phase = "save" /\ WorkOn(<<"new", c>>, <<Save(Primary, c)>>)
      BY <1>2 DEF SaveNew
    <2> QED
      BY <1>1, <2>1 DEF WorksOn
  <1>3. ASSUME NEW raw \in Entries, Displace(raw) PROVE WorksOn(<<"old", raw>>, Displacement(raw))
    <2>1. phase = "save" /\ WorkOn(<<"old", raw>>, Displacement(raw)) /\ \A c \in Cases : ~NewLeft(c)
      BY <1>3 DEF Displace, NewLeft
    <2> QED
      BY <1>1, <2>1 DEF WorksOn
  <1>4. ASSUME NEW raw \in Entries, Evict(raw) PROVE WorksOn(raw, <<Delete(Secondary, raw)>>)
    <2>1. phase = "evict" /\ WorkOn(raw, <<Delete(Secondary, raw)>>)
      BY <1>4 DEF Evict
    <2> QED
      BY <1>1, <2>1 DEF WorksOn
  <1> QED
    BY <1>2, <1>3, <1>4

\* What the engine may do, by kind.
Kinds ==
    \/ MemorySame /\ DiskSame
    \/ MemorySame /\ DbStep(Engine)
    \/ Begins \/ Records \/ Shrunk \/ Killed \/ PassesOn
    \/ \E run, abort, after : Executes(run, abort, after)
    \/ \E ops : Removes(ops)
    \/ \E next, work : Enters(next, work)
    \/ \E entry, ops : WorksOn(entry, ops)

\* Every step of the specification is of one of the kinds.
LEMMA StepKinds ==
    ASSUME RunTypes, [Next]_vars
    PROVE  Kinds
  <1>1. CASE UNCHANGED vars
    <2>1. MemorySame /\ DiskSame
      BY <1>1 DEF vars, MemorySame, DiskSame, world, memory, persister, verdicts, replaying,
                  shrinking, history
    <2> QED
      BY <2>1 DEF Kinds
  <1>2. CASE DatabaseStep
    <2>1. MemorySame /\ DbStep(Engine)
      BY <1>2 DEF DatabaseStep, MemorySame, memory, persister, verdicts, replaying, shrinking, history
    <2> QED
      BY <2>1 DEF Kinds
  <1>3. ASSUME NEW s \in Settings, NEW version \in Versions, NEW plan \in ReplayPlans,
               StartRun(s, version, plan)
        PROVE  Begins
    <2>1. \E p \in ReplayPlans : queue' = IF settings'.reuse THEN p ELSE {}
      BY <1>3 DEF StartRun
    <2> QED
      BY <1>3, <2>1 DEF StartRun, Begins, world, DiskSame, Resting
  <1>4. CASE Recorded
    <2>1. /\ executing # NoCase /\ executing' = NoCase /\ Work = <<>> /\ DiskSame
          /\ phase' = IF executing.abort THEN "aborted" ELSE phase
          /\ UNCHANGED <<flaky, test, settings, preexisting, nondeterministic, seen, queue, target,
                         left, expected, run_start>>
      BY <1>4 DEF Recorded, world, verdicts, replaying, shrinking, DiskSame, Work
    <2>2. nondeterministic \in BOOLEAN
      BY DEF RunTypes
    <2>3. Records
      BY <1>4, <2>1, <2>2 DEF Recorded, Records, Better, Interesting
    <2> QED
      BY <2>3 DEF Kinds
  <1>5. CASE ShrinkEnds
    BY <1>5 DEF ShrinkEnds, Shrunk, world, persister, verdicts, replaying, history, DiskSame, Kinds
  <1>6. CASE Kill
    <2>1. (CHOOSE s \in Settings : TRUE) \in Settings
      BY PersisterOK
    <2> QED
      BY <1>6, <2>1 DEF Kill, Killed, world, Kinds, Resting
  <1>7. ASSUME NEW entry \in queue, DropUndecodable(entry) PROVE Removes(Forget(Torn))
    BY <1>7 DEF DropUndecodable, Removes, Settled, world, persister, verdicts, shrinking, history,
                Upcoming
  <1>8. CASE \/ ReuseEnds \/ GenerateEnds \/ HealthCheckFails \/ AfterGenerate \/ DowngradeEnds
             \/ AllShrunk
    BY <1>8, PassKind DEF Kinds
  <1>9. CASE Reconcile \/ Displaced \/ Evicted
    BY <1>9, EnterKind DEF Kinds
  <1>10. CASE \/ \E c \in Cases : SaveNew(c)
              \/ \E raw \in Entries : Displace(raw) \/ Evict(raw)
    BY <1>10, WorkKind DEF Kinds
  <1>11. ASSUME NEW entry \in queue, NEW run \in Replays(entry.raw) \cup {NoCase},
                Downgrade(entry, run)
         PROVE  Kinds
    BY <1>11, DowngradeKind DEF Kinds
  <1>12. ASSUME NEW entry \in queue, NEW run \in Replays(entry.raw), ReplayStored(entry, run)
         PROVE  Kinds
    BY <1>12, ReplayStoredKind DEF Kinds
  <1>13. ASSUME NEW run \in Runs(DOMAIN test), Generate(run) \/ ShrinkProbe(run) PROVE Kinds
    BY <1>13, GenerateKind, ProbeKind DEF Kinds
  <1>14. ASSUME NEW o \in Failures(interesting), NEW run \in Replays(interesting[o]), Verify(o, run)
         PROVE  Kinds
    BY <1>14, VerifyKind DEF Kinds
  <1>15. CASE \E s \in Settings, version \in Versions, plan \in ReplayPlans : StartRun(s, version, plan)
    BY <1>3, <1>15 DEF Kinds
  <1>16. CASE \E entry \in queue : DropUndecodable(entry)
    BY <1>7, <1>16 DEF Kinds
  <1> QED
    BY <1>1, <1>2, <1>4, <1>5, <1>6, <1>8, <1>9, <1>10, <1>11, <1>12, <1>13, <1>14, <1>15, <1>16
    DEF Next

-----------------------------------------------------------------------------
(* What the values of the memory are.                                             *)

\* What is stored is the contents of a file, and an entry.
LEMMA StoredFetched ==
    ASSUME Directory, NEW k \in Keys
    PROVE  /\ Fetch(k) \subseteq Entries /\ Stored(k) \subseteq Fetch(k)
           /\ \A v \in Stored(k) : v \in Entries /\ v \in Values
  <1>1. FilesSound /\ \A f \in files : f.key \in Keys => f.contents \in Entries
    BY DEF Directory, WriteInv
  <1>2. Fetch(k) \subseteq Entries
    BY <1>1 DEF Fetch
  <1>3. ASSUME NEW v \in Stored(k) PROVE v \in Fetch(k) /\ v \in Values
    <2>1. v \in Values /\ Exists(k, ValuePath(v))
      BY DEF Stored
    <2>2. PICK f \in files : f.key = k /\ f.name = ValuePath(v)
      BY <2>1 DEF Exists
    <2>3. f.contents = v
      BY <1>1, <2>1, <2>2 DEF FilesSound, WholeEntries, ValuePath
    <2> QED
      BY <2>1, <2>2, <2>3 DEF Fetch
  <1> QED
    BY <1>2, <1>3

\* A version of the test.
LEMMA VersionTyped ==
    ASSUME NEW version \in Versions, NEW c \in DOMAIN version
    PROVE  /\ c \in Cases /\ c \in MaybeCases /\ c # None
           /\ version[c] \in Origins \cup {Valid} /\ version[c] \notin {Overrun, Concurrent, None}
  <1>1. c \in Cases /\ version[c] \in Origins \cup {Valid}
    BY PersisterOK
  <1>2. c # None
    BY <1>1, KeysApart
  <1>3. /\ Valid \notin Origins /\ Concurrent \notin Origins \cup {Valid, Overrun}
        /\ Overrun \notin Origins \cup {Valid} /\ None \notin Origins \cup {Valid}
    BY PersisterOK
  <1> QED
    BY <1>1, <1>2, <1>3 DEF MaybeCases

\* What an execution concludes with.
LEMMA VerdictTyped ==
    ASSUME test \in Versions, NEW c \in DOMAIN test, NEW v \in Verdicts(c)
    PROVE  /\ v \in Conclusions /\ v # Overrun
           /\ flaky = FALSE => v = test[c] /\ v # Concurrent
  BY VersionTyped, PersisterOK DEF Verdicts, Conclusions

\* What an execution of a known case realises and concludes with.
LEMMA RunTyped ==
    ASSUME test \in Versions, NEW cases \in SUBSET DOMAIN test, NEW run \in Runs(cases)
    PROVE  /\ run.case \in cases /\ run.case \in DOMAIN test /\ run.case \in Cases
           /\ run.verdict \in Conclusions /\ run.verdict # Overrun
           /\ flaky = FALSE => run.verdict = test[run.case] /\ run.verdict # Concurrent
  <1>1. PICK c \in cases : run \in {[case |-> c, verdict |-> v] : v \in Verdicts(c)}
    BY DEF Runs
  <1>2. PICK v \in Verdicts(c) : run = [case |-> c, verdict |-> v]
    BY <1>1
  <1>3. run.case = c /\ run.verdict = v /\ c \in DOMAIN test
    BY <1>2
  <1> QED
    BY <1>3, VerdictTyped, VersionTyped

\* What an outcome realises and concludes with.
LEMMA OutcomeTyped ==
    ASSUME test \in Versions, NEW run \in Outcomes
    PROVE  /\ run.case \in MaybeCases /\ run.verdict \in Conclusions
           /\ run.verdict # Overrun => run.case \in DOMAIN test /\ run.case \in Cases
           /\ Interesting(run) => run.verdict \in Origins /\ run.case \in DOMAIN test /\ run.case \in Cases
           /\ Interesting(run) => run.verdict \notin {Overrun, Concurrent, Valid}
           /\ flaky = FALSE => run.verdict # Concurrent
           /\ flaky = FALSE /\ Interesting(run) => run.verdict = test[run.case]
  <1>0. Overrun \notin Origins /\ Concurrent \notin Origins /\ Valid \notin Origins /\ Overrun # Concurrent
    BY PersisterOK
  <1>1. CASE run = NoChoices
    BY <1>0, <1>1 DEF NoChoices, MaybeCases, Conclusions, Interesting
  <1>2. CASE run # NoChoices
    <2>1. run \in Runs(DOMAIN test)
      BY <1>2 DEF Outcomes
    <2>2. /\ run.case \in DOMAIN test /\ run.case \in Cases
          /\ run.verdict \in Conclusions /\ run.verdict # Overrun
          /\ flaky = FALSE => run.verdict = test[run.case] /\ run.verdict # Concurrent
      BY <2>1, RunTyped
    <2> QED
      BY <1>0, <2>2 DEF MaybeCases, Interesting
  <1> QED
    BY <1>1, <1>2

\* Choices that fit are replayed as they are.
LEMMA ReplayFits ==
    ASSUME test \in Versions, NEW raw \in DOMAIN test, NEW run \in Replays(raw)
    PROVE  /\ run.case = raw /\ run.verdict \in Conclusions /\ run.verdict # Overrun
           /\ flaky = FALSE => run.verdict = test[raw]
  <1>1. run \in Runs({raw}) /\ {raw} \in SUBSET DOMAIN test
    BY DEF Replays
  <1> QED
    BY <1>1, RunTyped

\* The idle engine executes nothing.
LEMMA NothingExecuting ==
    ASSUME executing = NoCase
    PROVE  /\ ~Interesting(executing) /\ executing.abort = FALSE /\ executing.case = None
           /\ \A o \in Origins : executing.verdict # o /\ ~Supersedes(o)
           /\ \A v : ~InFlight(v)
  BY PersisterOK DEF NoCase, Interesting, Supersedes, InFlight

\* A plan of stored examples to replay.
LEMMA StageTyped ==
    ASSUME NEW raws \in SUBSET Entries, NEW primary \in BOOLEAN
    PROVE  Stage(raws, primary) \subseteq [raw : Entries, primary : BOOLEAN]
  BY DEF Stage

\* A replay plan holds every entry of the primary key.
LEMMA PlanTyped ==
    ASSUME Directory, NEW plan \in ReplayPlans
    PROVE  /\ plan \subseteq [raw : Entries, primary : BOOLEAN]
           /\ Stage(Fetch(Primary), TRUE) \subseteq plan
  <1>1. Fetch(Primary) \subseteq Entries /\ Fetch(Secondary) \subseteq Entries
    BY StoredFetched, KeysApart
  <1>2. PICK sizes, sample :
           /\ sample \in kSubset(sizes, Fetch(Secondary) \ Fetch(Primary))
           /\ plan = Stage(Fetch(Primary), TRUE) \cup Stage(sample, FALSE)
    BY DEF ReplayPlans
  <1>3. sample \subseteq Fetch(Secondary)
    BY <1>2 DEF kSubset
  <1>4. sample \in SUBSET Entries /\ Fetch(Primary) \in SUBSET Entries
    BY <1>1, <1>3
  <1>5. /\ Stage(sample, FALSE) \subseteq [raw : Entries, primary : BOOLEAN]
        /\ Stage(Fetch(Primary), TRUE) \subseteq [raw : Entries, primary : BOOLEAN]
    BY <1>4, StageTyped
  <1> QED
    BY <1>2, <1>5

-----------------------------------------------------------------------------
(* The types of the memory are kept.                                              *)

\* An execution (Engine::test_function).
LEMMA TypesExecute ==
    ASSUME RunTypes, NEW run, NEW abort, NEW after, Executes(run, abort, after)
    PROVE  RunTypes'
  <1>1. /\ run.case \in MaybeCases /\ run.verdict \in Conclusions
        /\ run.verdict # Overrun => run.case \in DOMAIN test /\ run.case \in Cases
    BY OutcomeTyped DEF Executes, RunTypes
  <1>2. abort \in BOOLEAN
    BY DEF Executes, Mismatch
  <1>3. /\ executing' = [case |-> run.case, verdict |-> run.verdict, abort |-> abort]
        /\ nondeterministic' = (nondeterministic \/ run.verdict = Concurrent)
        /\ seen' = IF nondeterministic' THEN [c \in Cases |-> None]
               ELSE IF run.verdict # Overrun /\ seen[run.case] = None
               THEN [seen EXCEPT ![run.case] = run.verdict] ELSE seen
    BY DEF Executes, Execute
  <1>4. executing' \in [case : MaybeCases, verdict : Conclusions, abort : BOOLEAN]
    BY <1>1, <1>2, <1>3
  <1>5. nondeterministic' \in BOOLEAN
    BY <1>3 DEF RunTypes
  <1>6. seen' \in [Cases -> Origins \cup {Valid, None}]
    <2>1. CASE nondeterministic' = TRUE
      BY <1>3, <2>1
    <2>2. CASE nondeterministic' = FALSE /\ run.verdict # Overrun
      <3>1. run.verdict \in Origins \cup {Valid, None}
        BY <1>1, <1>3, <2>2 DEF Conclusions
      <3> QED
        BY <1>1, <1>3, <2>2, <3>1 DEF RunTypes
    <2>3. CASE nondeterministic' = FALSE /\ run.verdict = Overrun
      BY <1>3, <2>3 DEF RunTypes
    <2> QED
      BY <1>5, <2>1, <2>2, <2>3
  <1>7. nondeterministic' => \A c \in Cases : seen'[c] = None
    BY <1>3
  <1>8. queue' \subseteq queue
    BY DEF Executes
  <1>9. target' \in [origin : Origins \cup {Valid}, case : MaybeCases]
    <2>1. target \in [origin : Origins \cup {Valid}, case : MaybeCases]
      BY DEF RunTypes
    <2>2. CASE target' = target
      BY <2>1, <2>2
    <2>3. CASE \E o \in Failures(interesting) : target' = [origin |-> o, case |-> run.case]
      BY <1>1, <2>3 DEF Failures
    <2>4. CASE target' = [target EXCEPT !.case = run.case]
      BY <1>1, <2>1, <2>4
    <2> QED
      BY <2>2, <2>3, <2>4 DEF Executes
  <1>10. /\ flaky' \in BOOLEAN /\ phase' \in Phases /\ settings' \in Settings /\ test' \in Versions
         /\ preexisting' \subseteq Entries /\ saved_this_run' \subseteq Cases
         /\ last_saved' \in [Origins -> MaybeCases]
         /\ interesting' \in [Origins -> MaybeCases]
         /\ owed' \in [Origins -> MaybeCases]
         /\ expected' \subseteq Origins
    BY DEF Executes, Settled, RunTypes
  <1>11. queue' \subseteq [raw : Entries, primary : BOOLEAN]
    BY <1>8 DEF RunTypes
  <1>12. target' # NoTarget => target'.origin \in Origins
    <2>1. target # NoTarget => target.origin \in Origins
      BY DEF RunTypes
    <2>2. CASE target' = target
      BY <2>1, <2>2
    <2>3. CASE \E o \in Failures(interesting) : target' = [origin |-> o, case |-> run.case]
      BY <2>3 DEF Failures
    <2>4. CASE target # NoTarget /\ target' = [target EXCEPT !.case = run.case]
      <3>1. target'.origin = target.origin
        BY <2>4 DEF RunTypes
      <3> QED
        BY <2>1, <2>4, <3>1
    <2> QED
      BY <2>2, <2>3, <2>4 DEF Executes
  <1> QED
    BY <1>4, <1>5, <1>6, <1>7, <1>9, <1>10, <1>11, <1>12 DEF RunTypes

\* The end of Persister::record and of record_run.
LEMMA TypesRecord ==
    ASSUME RunTypes, Control, Records
    PROVE  RunTypes'
  <1>1. /\ executing.verdict \in Conclusions /\ executing.case \in MaybeCases
        /\ Interesting(executing) => executing.verdict \in Origins /\ executing.case \in Cases
    <2>1. test \in Versions
      BY DEF RunTypes
    <2> QED
      BY <2>1, VersionTyped DEF RunTypes, Control, Interesting
  <1>2. /\ last_saved' \in [Origins -> MaybeCases]
        /\ saved_this_run' \subseteq Cases
        /\ owed' \in [Origins -> MaybeCases]
        /\ interesting' \in [Origins -> MaybeCases]
    <2>1. CASE Interesting(executing)
      <3>1. executing.case \in MaybeCases /\ executing.case \in Cases
        BY <1>1, <2>1
      <3>2. /\ \/ UNCHANGED <<last_saved, saved_this_run, owed>>
               \/ /\ last_saved' = [last_saved EXCEPT ![executing.verdict] = executing.case]
                  /\ saved_this_run' = saved_this_run \cup {executing.case}
                  /\ owed' = [owed EXCEPT ![executing.verdict] = executing.case]
            /\ \/ interesting' = interesting
               \/ interesting' = [interesting EXCEPT ![executing.verdict] = executing.case]
        BY <2>1 DEF Records
      <3> QED
        BY <3>1, <3>2 DEF RunTypes
    <2>2. CASE ~Interesting(executing)
      BY <2>2 DEF Records, RunTypes
    <2> QED
      BY <2>1, <2>2
  <1>3. executing' \in [case : MaybeCases, verdict : Conclusions, abort : BOOLEAN]
    BY DEF Records, NoCase, MaybeCases, Conclusions
  <1>4. phase' \in Phases
    BY DEF Records, RunTypes, Phases
  <1> QED
    BY <1>2, <1>3, <1>4 DEF Records, RunTypes

\* The memory a run begins with.
LEMMA TypesNew ==
    /\ NoFailures \in [Origins -> MaybeCases]
    /\ [c \in Cases |-> None] \in [Cases -> Origins \cup {Valid, None}]
    /\ NoCase \in [case : MaybeCases, verdict : Conclusions, abort : BOOLEAN]
    /\ NoTarget \in [origin : Origins \cup {Valid}, case : MaybeCases]
    /\ \A map : Failures(map) \subseteq Origins
    /\ Failures(NoFailures) = {}
  BY DEF NoFailures, NoCase, NoTarget, MaybeCases, Conclusions, Failures

\* All kinds of steps keep the types.
LEMMA TypesKept ==
    ASSUME Directory, RunTypes, Control, Kinds
    PROVE  RunTypes'
  <1>1. CASE MemorySame
    BY <1>1 DEF MemorySame, RunTypes
  <1>2. CASE Begins
    <2>1. preexisting' \subseteq Entries
      BY <1>2, StoredFetched, KeysApart DEF Begins
    <2>2. queue' \subseteq [raw : Entries, primary : BOOLEAN]
      <3>1. PICK plan \in ReplayPlans : queue' = IF settings'.reuse THEN plan ELSE {}
        BY <1>2 DEF Begins
      <3> QED
        BY <3>1, PlanTyped
    <2>3. expected' \subseteq Origins
      BY <1>2, TypesNew DEF Begins
    <2>4. \A c \in Cases : seen'[c] = None
      BY <1>2 DEF Begins
    <2> QED
      BY <1>2, <2>1, <2>2, <2>3, <2>4, TypesNew DEF Begins, RunTypes, Phases
  <1>3. CASE Records
    BY <1>3, TypesRecord
  <1>4. CASE Shrunk
    <2>1. target.origin \in Origins
      BY <1>4 DEF Shrunk, Control
    <2>2. target.case \in MaybeCases
      BY DEF RunTypes
    <2>3. interesting' \in [Origins -> MaybeCases] /\ owed' \in [Origins -> MaybeCases]
      BY <1>4, <2>1, <2>2 DEF Shrunk, RunTypes
    <2> QED
      BY <1>4, <2>3, TypesNew DEF Shrunk, RunTypes
  <1>5. CASE Killed
    <2>4. \A c \in Cases : seen'[c] = None
      BY <1>5 DEF Killed
    <2> QED
      BY <1>5, <2>4, TypesNew DEF Killed, RunTypes, Phases
  <1>6. CASE PassesOn
    <2>1. queue' \subseteq [raw : Entries, primary : BOOLEAN]
      <3>1. Stage(Fetch(Secondary), FALSE) \subseteq [raw : Entries, primary : BOOLEAN]
        BY StageTyped, StoredFetched, KeysApart
      <3>2. queue' = queue \/ queue' = {} \/ queue' = Stage(Fetch(Secondary), FALSE)
        BY <1>6 DEF PassesOn
      <3> QED
        BY <3>1, <3>2 DEF RunTypes
    <2>2. phase' \in Phases
      BY <1>6 DEF PassesOn, Phases
    <2> QED
      BY <1>6, <2>1, <2>2 DEF PassesOn, Settled, RunTypes
  <1>7. ASSUME NEW run, NEW abort, NEW after, Executes(run, abort, after) PROVE RunTypes'
    BY <1>7, TypesExecute
  <1>8. ASSUME NEW ops, Removes(ops) PROVE RunTypes'
    <2>1. queue' \subseteq queue
      BY <1>8 DEF Removes
    <2> QED
      BY <1>8, <2>1 DEF Removes, Settled, RunTypes
  <1>9. ASSUME NEW next, NEW work, Enters(next, work) PROVE RunTypes'
    <2>1. phase' \in Phases
      BY <1>9 DEF Enters, Phases
    <2> QED
      BY <1>9, <2>1 DEF Enters, Settled, RunTypes
  <1>10. ASSUME NEW entry, NEW ops, WorksOn(entry, ops) PROVE RunTypes'
    BY <1>10 DEF WorksOn, Settled, RunTypes
  <1> QED
    BY <1>1, <1>2, <1>3, <1>4, <1>5, <1>6, <1>7, <1>8, <1>9, <1>10 DEF Kinds

-----------------------------------------------------------------------------
(* Where the run stands.                                                          *)

\* An execution (Engine::test_function).
LEMMA ControlExecute ==
    ASSUME RunTypes, Control, NEW run, NEW abort, NEW after, Executes(run, abort, after)
    PROVE  Control'
  <1>1. executing' = [case |-> run.case, verdict |-> run.verdict, abort |-> abort]
    BY DEF Executes, Execute
  <1>2. phase \in Executing /\ phase' = phase
    BY DEF Executes, Executing
  <1>3. UNCHANGED <<test, interesting>> /\ test \in Versions
    BY DEF Executes, Settled, RunTypes
  <1>4. run \in Outcomes /\ executing = NoCase
    BY DEF Executes, Ready
  <1>5. Interesting(run) => run.case \in DOMAIN test /\ run.case \in Cases
    BY <1>3, <1>4, OutcomeTyped
  <1>6. Interesting(executing)' <=> Interesting(run)
    BY <1>1 DEF Interesting
  <1>7. phase \notin Resting
    BY <1>2 DEF Executing, Resting
  <1>8. target' # NoTarget => phase \in {"shrink", "aborted"}
    BY DEF Executes, Control
  <1>9. ASSUME target' # NoTarget, phase = "shrink"
        PROVE  /\ target'.origin \in Origins /\ interesting[target'.origin] # None
               /\ ~abort => target'.case \in Cases
    <2>1. CASE target' = target
      BY <1>4, <1>9, <2>1, NothingExecuting DEF Control
    <2>2. CASE \E o \in Failures(interesting) : target' = [origin |-> o, case |-> run.case]
                                            /\ abort = (Mismatch(run) \/ run.verdict # o)
      <3>1. PICK o \in Failures(interesting) :
               target' = [origin |-> o, case |-> run.case] /\ abort = (Mismatch(run) \/ run.verdict # o)
        BY <2>2
      <3>2. o \in Origins /\ interesting[o] # None /\ target'.origin = o /\ target'.case = run.case
        BY <3>1 DEF Failures
      <3>3. ~abort => Interesting(run)
        BY <3>1, <3>2 DEF Interesting
      <3> QED
        BY <1>5, <3>2, <3>3
    <2>3. CASE /\ target # NoTarget /\ run \in Runs(DOMAIN test)
               /\ target' = [target EXCEPT !.case = run.case]
      <3>1. run.case \in Cases
        BY <1>3, <2>3, RunTyped
      <3>2. target'.origin = target.origin /\ target'.case = run.case
        BY <2>3 DEF RunTypes
      <3> QED
        BY <1>9, <2>3, <3>1, <3>2 DEF Control
    <2> QED
      BY <1>9, <2>1, <2>2, <2>3 DEF Executes
  <1>10. Interesting(executing)' => executing'.case \in DOMAIN test'
    BY <1>1, <1>3, <1>5, <1>6
  <1>11. executing'.abort = abort
    BY <1>1
  <1> QED
    BY <1>2, <1>3, <1>7, <1>8, <1>9, <1>10, <1>11 DEF Control

\* All kinds of steps keep the control.
LEMMA ControlKept ==
    ASSUME Directory, RunTypes, Control, Kinds
    PROVE  Control'
  <1>a. /\ ~Interesting(NoCase) /\ NoCase.abort = FALSE
    BY PersisterOK DEF Interesting, NoCase
  <1>1. CASE MemorySame /\ DiskSame
    BY <1>1 DEF MemorySame, DiskSame, Control, Work, Interesting
  <1>2. CASE MemorySame /\ DbStep(Engine)
    <2>1. Work # <<>>
      BY <1>2, DbEffect
    <2> QED
      BY <1>2, <2>1 DEF MemorySame, Control, Interesting
  <1>3. CASE Begins
    BY <1>3, <1>a DEF Begins, Control, Resting, Interesting
  <1>4. CASE Records
    <2>1. Work' = <<>> /\ executing' = NoCase /\ UNCHANGED <<test, target>>
      BY <1>4 DEF Records, DiskSame, Work
    <2>2. phase' = IF executing.abort THEN "aborted" ELSE phase
      BY <1>4 DEF Records
    <2>3. ~Interesting(executing)'
      BY <1>a, <2>1 DEF Interesting
    <2>4. target' # NoTarget => phase' \in {"shrink", "aborted"}
      BY <2>1, <2>2 DEF Control
    <2>5. ASSUME target' # NoTarget, phase' = "shrink"
          PROVE  /\ target.origin \in Origins /\ interesting'[target.origin] # None
                 /\ target.case \in Cases
      <3>1. ~executing.abort /\ phase = "shrink"
        BY <2>2, <2>5
      <3>2. target.origin \in Origins /\ interesting[target.origin] # None /\ target.case \in Cases
        BY <2>1, <2>5, <3>1 DEF Control
      <3>3. interesting'[target.origin] # None
        <4>1. CASE ~Interesting(executing)
          BY <1>4, <3>2, <4>1 DEF Records
        <4>2. CASE Interesting(executing)
          <5>1. executing.case # None /\ interesting \in [Origins -> MaybeCases]
            BY <4>2, VersionTyped DEF Control, RunTypes
          <5>2. \/ interesting' = interesting
                \/ interesting' = [interesting EXCEPT ![executing.verdict] = executing.case]
            BY <1>4, <4>2 DEF Records
          <5> QED
            BY <3>2, <5>1, <5>2
        <4> QED
          BY <4>1, <4>2
      <3> QED
        BY <3>2, <3>3
    <2> QED
      BY <2>1, <2>3, <2>4, <2>5, <1>a DEF Control
  <1>5. CASE Shrunk
    BY <1>5, <1>a DEF Shrunk, DiskSame, Control, Work, Interesting, Ready, Resting
  <1>6. CASE Killed
    <2>1. Work' = <<>>
      BY <1>6, KeysApart DEF Killed, Perform, Work, Directory, DbTypeOK
    <2> QED
      BY <1>6, <2>1, <1>a DEF Killed, Control, Interesting
  <1>7. CASE PassesOn
    <2>1. executing' = NoCase /\ UNCHANGED <<todo, target>> /\ Work = <<>> /\ executing = NoCase
      BY <1>7 DEF PassesOn, Ready, Work
    <2>2. Work' = <<>> /\ ~Interesting(executing)'
      BY <1>a, <2>1 DEF Work, Interesting
    <2>3. target' = NoTarget
      BY <1>7 DEF PassesOn, Control
    <2> QED
      BY <2>1, <2>2, <2>3 DEF Control
  <1>8. ASSUME NEW run, NEW abort, NEW after, Executes(run, abort, after) PROVE Control'
    BY <1>8, ControlExecute
  <1>9. ASSUME NEW ops, Removes(ops) PROVE Control'
    BY <1>9, <1>a DEF Removes, Ready, Settled, Control, Interesting, Resting
  <1>10. ASSUME NEW next, NEW work, Enters(next, work) PROVE Control'
    <2>1. executing' = NoCase /\ UNCHANGED <<todo, target>> /\ Work = <<>>
      BY <1>10 DEF Enters, Ready, Work
    <2>2. Work' = <<>> /\ ~Interesting(executing)'
      BY <1>a, <2>1 DEF Work, Interesting
    <2>3. target' = NoTarget
      BY <1>10, <2>1 DEF Enters, Control
    <2> QED
      BY <2>1, <2>2, <2>3 DEF Control
  <1>11. ASSUME NEW entry, NEW ops, WorksOn(entry, ops) PROVE Control'
    BY <1>11, <1>a DEF WorksOn, Ready, Settled, Control, Interesting, Resting
  <1> QED
    BY <1>1, <1>2, <1>3, <1>4, <1>5, <1>6, <1>7, <1>8, <1>9, <1>10, <1>11 DEF Kinds

-----------------------------------------------------------------------------
(* What the calls of a step add and take away.                                    *)

Calls(ops) == ops \in Seq(Ops) /\ \A i \in 1 .. Len(ops) : OpFits(ops[i]) /\ ops[i].op \notin Heads

Given(ops, k) == {v \in Values : \E i \in 1 .. Len(ops) : Adds(ops[i], k, v)}
Taken(ops, k) == {v \in Values : \E i \in 1 .. Len(ops) : Drops(ops[i], k, v)}

\* A list of one call.
LEMMA OneCall ==
    ASSUME NEW d \in Ops, OpFits(d), d.op \notin Heads
    PROVE  /\ Calls(<<d>>)
           /\ \A k : Given(<<d>>, k) = {v \in Values : Adds(d, k, v)}
           /\ \A k : Taken(<<d>>, k) = {v \in Values : Drops(d, k, v)}
  <1>1. <<d>> \in Seq(Ops) /\ Len(<<d>>) = 1 /\ <<d>>[1] = d
    OBVIOUS
  <1>2. PICK s : s = <<d>>
    OBVIOUS
  <1>3. s \in Seq(Ops) /\ Len(s) = 1 /\ s[1] = d
    BY <1>1, <1>2
  <1>4. Calls(s)
    BY <1>3 DEF Calls
  <1>5. \A k : Given(s, k) = {v \in Values : Adds(d, k, v)}
    BY <1>3 DEF Given
  <1>6. \A k : Taken(s, k) = {v \in Values : Drops(d, k, v)}
    BY <1>3 DEF Taken
  <1> QED
    BY <1>2, <1>4, <1>5, <1>6

\* Two lists of calls, one after the other.
LEMMA Joined ==
    ASSUME NEW s, NEW t, Calls(s), Calls(t)
    PROVE  /\ Calls(s \o t)
           /\ \A k : Given(s \o t, k) \subseteq Given(s, k) \cup Given(t, k)
           /\ \A k : Taken(s \o t, k) \subseteq Taken(s, k) \cup Taken(t, k)
           /\ Len(s) # 0 => Len(s \o t) # 0 /\ (s \o t)[1] = s[1]
  <1>1. s \in Seq(Ops) /\ t \in Seq(Ops) /\ Len(s) \in Nat /\ Len(t) \in Nat
    BY DEF Calls
  <1>2. PICK r : r = s \o t
    OBVIOUS
  <1>3. r \in Seq(Ops) /\ Len(r) = Len(s) + Len(t)
    BY <1>1, <1>2
  <1>4. \A i \in 1 .. Len(s) : r[i] = s[i]
    BY <1>1, <1>2
  <1>5. \A i \in Len(s) + 1 .. Len(s) + Len(t) : r[i] = t[i - Len(s)]
    BY <1>1, <1>2
  <1>6. ASSUME NEW i \in 1 .. Len(r)
        PROVE  (\E j \in 1 .. Len(s) : r[i] = s[j]) \/ (\E j \in 1 .. Len(t) : r[i] = t[j])
    <2>1. CASE i \in 1 .. Len(s)
      BY <1>4, <2>1
    <2>2. CASE i \in Len(s) + 1 .. Len(s) + Len(t)
      <3>1. i - Len(s) \in 1 .. Len(t)
        BY <1>1, <2>2
      <3> QED
        BY <1>5, <2>2, <3>1
    <2> QED
      BY <1>1, <1>3, <2>1, <2>2
  <1>7. Calls(r)
    BY <1>3, <1>6 DEF Calls
  <1>8. \A k : Given(r, k) \subseteq Given(s, k) \cup Given(t, k)
    BY <1>6 DEF Given
  <1>9. \A k : Taken(r, k) \subseteq Taken(s, k) \cup Taken(t, k)
    BY <1>6 DEF Taken
  <1>10. Len(s) # 0 => Len(r) # 0 /\ r[1] = s[1]
    BY <1>1, <1>3, <1>4
  <1> QED
    BY <1>2, <1>7, <1>8, <1>9, <1>10

\* The calls of the Persister, one by one.
LEMMA CallLists ==
    /\ Calls(<<>>) /\ \A k : Given(<<>>, k) = {} /\ Taken(<<>>, k) = {}
    /\ \A k \in Keys, w \in Entries :
          /\ Calls(<<Save(k, w)>>)
          /\ \A j : Taken(<<Save(k, w)>>, j) = {}
          /\ \A j : Given(<<Save(k, w)>>, j) = IF j = k THEN {w} ELSE {}
    /\ \A k \in Keys, w \in Entries :
          /\ Calls(<<Delete(k, w)>>)
          /\ \A j : Given(<<Delete(k, w)>>, j) = {}
          /\ \A j : Taken(<<Delete(k, w)>>, j) = IF j = k THEN {w} ELSE {}
    /\ \A w \in Entries :
          /\ Calls(<<MoveValue(Primary, Secondary, w)>>)
          /\ \A j : Given(<<MoveValue(Primary, Secondary, w)>>, j) = IF j = Secondary THEN {w} ELSE {}
          /\ \A j : Taken(<<MoveValue(Primary, Secondary, w)>>, j) = IF j = Primary THEN {w} ELSE {}
    /\ \A w \in Entries :
          /\ Calls(Forget(w))
          /\ \A j : Given(Forget(w), j) = {}
          /\ \A j : Taken(Forget(w), j) \subseteq {w}
  <1>1. Calls(<<>>) /\ \A k : Given(<<>>, k) = {} /\ Taken(<<>>, k) = {}
    <2>0. <<>> \in Seq(Ops)
      OBVIOUS
    <2>1. PICK s \in Seq(Ops) : s = <<>>
      BY <2>0
    <2>2. Len(s) = 0 /\ 1 .. Len(s) = {}
      BY <2>1
    <2>3. Calls(s) /\ \A k : Given(s, k) = {} /\ Taken(s, k) = {}
      BY <2>2 DEF Calls, Given, Taken
    <2> QED
      BY <2>1, <2>3
  <1>2. ASSUME NEW k \in Keys, NEW w \in Entries
        PROVE  /\ Calls(<<Save(k, w)>>)
               /\ \A j : Taken(<<Save(k, w)>>, j) = {}
               /\ \A j : Given(<<Save(k, w)>>, j) = IF j = k THEN {w} ELSE {}
    <2>1. PICK d : d = Save(k, w)
      OBVIOUS
    <2>2. d \in Ops /\ OpFits(d) /\ d.op \notin Heads /\ w \in Values
      BY <2>1, CallEffects, KeysApart DEF OpFits
    <2>3. \A j, v : (Adds(d, j, v) <=> j = k /\ v = w) /\ ~Drops(d, j, v)
      BY <2>1, CallEffects
    <2>4. Calls(<<d>>)
      BY <2>2, OneCall
    <2>5. \A j : Taken(<<d>>, j) = {}
      <3>1. \A j : {v \in Values : Drops(d, j, v)} = {}
        BY <2>3
      <3> QED
        BY <2>2, <3>1, OneCall
    <2>6. \A j : Given(<<d>>, j) = IF j = k THEN {w} ELSE {}
      <3>1. \A j : {v \in Values : Adds(d, j, v)} = IF j = k THEN {w} ELSE {}
        BY <2>2, <2>3
      <3> QED
        BY <2>2, <3>1, OneCall
    <2> QED
      BY <2>1, <2>4, <2>5, <2>6
  <1>3. ASSUME NEW k \in Keys, NEW w \in Entries
        PROVE  /\ Calls(<<Delete(k, w)>>)
               /\ \A j : Given(<<Delete(k, w)>>, j) = {}
               /\ \A j : Taken(<<Delete(k, w)>>, j) = IF j = k THEN {w} ELSE {}
    <2>1. PICK d : d = Delete(k, w)
      OBVIOUS
    <2>2. d \in Ops /\ OpFits(d) /\ d.op \notin Heads /\ w \in Values
      BY <2>1, CallEffects, KeysApart DEF OpFits
    <2>3. \A j, v : (Drops(d, j, v) <=> j = k /\ v = w) /\ ~Adds(d, j, v)
      BY <2>1, CallEffects
    <2>4. Calls(<<d>>)
      BY <2>2, OneCall
    <2>5. \A j : Given(<<d>>, j) = {}
      <3>1. \A j : {v \in Values : Adds(d, j, v)} = {}
        BY <2>3
      <3> QED
        BY <2>2, <3>1, OneCall
    <2>6. \A j : Taken(<<d>>, j) = IF j = k THEN {w} ELSE {}
      <3>1. \A j : {v \in Values : Drops(d, j, v)} = IF j = k THEN {w} ELSE {}
        BY <2>2, <2>3
      <3> QED
        BY <2>2, <3>1, OneCall
    <2> QED
      BY <2>1, <2>4, <2>5, <2>6
  <1>4. ASSUME NEW w \in Entries
        PROVE  /\ Calls(<<MoveValue(Primary, Secondary, w)>>)
               /\ \A j : Given(<<MoveValue(Primary, Secondary, w)>>, j) = IF j = Secondary THEN {w} ELSE {}
               /\ \A j : Taken(<<MoveValue(Primary, Secondary, w)>>, j) = IF j = Primary THEN {w} ELSE {}
    <2>1. PICK d : d = MoveValue(Primary, Secondary, w)
      OBVIOUS
    <2>2. d \in Ops /\ OpFits(d) /\ d.op \notin Heads /\ w \in Values
      BY <2>1, CallEffects, KeysApart DEF OpFits
    <2>3. \A j, v : (Drops(d, j, v) <=> j = Primary /\ v = w) /\ (Adds(d, j, v) <=> j = Secondary /\ v = w)
      BY <2>1, CallEffects
    <2>4. Calls(<<d>>)
      BY <2>2, OneCall
    <2>5. \A j : Given(<<d>>, j) = IF j = Secondary THEN {w} ELSE {}
      <3>1. \A j : {v \in Values : Adds(d, j, v)} = IF j = Secondary THEN {w} ELSE {}
        BY <2>2, <2>3
      <3> QED
        BY <2>2, <3>1, OneCall
    <2>6. \A j : Taken(<<d>>, j) = IF j = Primary THEN {w} ELSE {}
      <3>1. \A j : {v \in Values : Drops(d, j, v)} = IF j = Primary THEN {w} ELSE {}
        BY <2>2, <2>3
      <3> QED
        BY <2>2, <3>1, OneCall
    <2> QED
      BY <2>1, <2>4, <2>5, <2>6
  <1>5. ASSUME NEW w \in Entries
        PROVE  /\ Calls(Forget(w))
               /\ \A j : Given(Forget(w), j) = {}
               /\ \A j : Taken(Forget(w), j) \subseteq {w}
    <2>1. PICK s, t : s = <<Delete(Primary, w)>> /\ t = <<Delete(Secondary, w)>>
      OBVIOUS
    <2>2. Calls(s) /\ Calls(t) /\ \A j : /\ Given(s, j) = {} /\ Given(t, j) = {}
                                        /\ Taken(s, j) \subseteq {w} /\ Taken(t, j) \subseteq {w}
      BY <1>3, <2>1, KeysApart
    <2>3. Forget(w) = s \o t
      BY <2>1 DEF Forget
    <2> QED
      BY <2>2, <2>3, Joined
  <1> QED
    BY <1>1, <1>2, <1>3, <1>4, <1>5

\* The execution to be recorded takes the place of its origin's last save.
Replaces(run) ==
    /\ Interesting(run) /\ nondeterministic = FALSE
    /\ last_saved[run.verdict] = None \/ run.case < last_saved[run.verdict]

\* Persister::record: what it saves, demotes and deletes.
LEMMA RecordCalls ==
    ASSUME RunTypes, NEW run, Interesting(run) => run.verdict \in Origins /\ run.case \in Cases
    PROVE  /\ Calls(Record(run))
           /\ Given(Record(run), Primary) \subseteq (IF Replaces(run) THEN {run.case} ELSE {})
           /\ Given(Record(run), Secondary) \subseteq preexisting
           /\ \A v \in Taken(Record(run), Primary) :
                 /\ Replaces(run) /\ v # run.case
                 /\ \A o \in Origins : v = last_saved[o] => o = run.verdict
           /\ Replaces(run) => Len(Record(run)) # 0 /\ Record(run)[1] = Save(Primary, run.case)
  <1>1. nondeterministic \in BOOLEAN
    BY DEF RunTypes
  <1>2. CASE ~Replaces(run)
    <2>1. Record(run) = <<>>
      BY <1>1, <1>2 DEF Record, Replaces
    <2> QED
      BY <1>2, <2>1, CallLists
  <1>3. CASE Replaces(run)
    <2> DEFINE prev == last_saved[run.verdict]
               shared == \E o \in Origins \ {run.verdict} : last_saved[o] = prev
    <2>1. /\ run.verdict \in Origins /\ run.case \in Cases /\ run.case \in Entries
          /\ prev \in MaybeCases /\ Primary \in Keys /\ Secondary \in Keys /\ Primary # Secondary
      BY <1>3, KeysApart DEF Replaces, RunTypes
    <2>2. PICK rest :
             rest = IF prev = None \/ prev = run.case \/ shared THEN <<>>
                    ELSE IF prev \in preexisting THEN <<MoveValue(Primary, Secondary, prev)>>
                    ELSE <<Delete(Primary, prev)>>
      OBVIOUS
    <2>3. Record(run) = <<Save(Primary, run.case)>> \o rest
      <3>1. Interesting(run) /\ ~nondeterministic /\ (prev = None \/ run.case < prev)
        BY <1>3 DEF Replaces
      <3>2. ~(~Interesting(run) \/ nondeterministic \/ (prev # None /\ ~(run.case < prev)))
        BY <3>1
      <3> QED
        BY <2>2, <3>2 DEF Record
    <2>4. /\ Calls(rest) /\ Given(rest, Primary) = {} /\ Given(rest, Secondary) \subseteq preexisting
          /\ \A v \in Taken(rest, Primary) : v = prev /\ prev # run.case /\ ~shared
      <3>1. CASE prev = None \/ prev = run.case \/ shared
        <4>1. rest = <<>>
          BY <2>2, <3>1
        <4> QED
          BY <4>1, CallLists
      <3>2. CASE ~(prev = None \/ prev = run.case \/ shared)
        <4>1. prev \in Entries /\ prev # run.case /\ ~shared
          BY <2>1, <3>2, KeysApart DEF MaybeCases
        <4>2. CASE prev \in preexisting
          <5>1. PICK w \in Entries : w = prev
            BY <4>1
          <5>2. rest = <<MoveValue(Primary, Secondary, w)>>
            BY <2>2, <3>2, <4>2, <5>1
          <5>3. /\ Calls(<<MoveValue(Primary, Secondary, w)>>)
                /\ Given(<<MoveValue(Primary, Secondary, w)>>, Primary) = {}
                /\ Given(<<MoveValue(Primary, Secondary, w)>>, Secondary) = {w}
                /\ Taken(<<MoveValue(Primary, Secondary, w)>>, Primary) = {w}
            BY <2>1, CallLists
          <5> QED
            BY <4>1, <4>2, <5>1, <5>2, <5>3
        <4>3. CASE prev \notin preexisting
          <5>1. PICK w \in Entries : w = prev
            BY <4>1
          <5>2. rest = <<Delete(Primary, w)>>
            BY <2>2, <3>2, <4>3, <5>1
          <5>3. /\ Calls(<<Delete(Primary, w)>>)
                /\ Given(<<Delete(Primary, w)>>, Primary) = {}
                /\ Given(<<Delete(Primary, w)>>, Secondary) = {}
                /\ Taken(<<Delete(Primary, w)>>, Primary) = {w}
            BY <2>1, CallLists
          <5> QED
            BY <4>1, <5>1, <5>2, <5>3
        <4> QED
          BY <4>2, <4>3
      <3> QED
        BY <3>1, <3>2
    <2>5. PICK s : s = <<Save(Primary, run.case)>>
      OBVIOUS
    <2>6. /\ Calls(s) /\ Given(s, Primary) = {run.case} /\ Given(s, Secondary) = {}
          /\ Taken(s, Primary) = {} /\ Len(s) # 0 /\ s[1] = Save(Primary, run.case)
      <3>1. PICK w \in Entries : w = run.case
        BY <2>1
      <3>2. s = <<Save(Primary, w)>>
        BY <2>5, <3>1
      <3>3. /\ Calls(<<Save(Primary, w)>>) /\ Given(<<Save(Primary, w)>>, Primary) = {w}
            /\ Given(<<Save(Primary, w)>>, Secondary) = {} /\ Taken(<<Save(Primary, w)>>, Primary) = {}
        BY <2>1, CallLists
      <3>4. Len(s) # 0 /\ s[1] = Save(Primary, w)
        BY <3>2
      <3> QED
        BY <3>1, <3>2, <3>3, <3>4
    <2>7. Record(run) = s \o rest
      BY <2>3, <2>5
    <2>8. /\ Calls(s \o rest)
          /\ Given(s \o rest, Primary) \subseteq {run.case}
          /\ Given(s \o rest, Secondary) \subseteq preexisting
          /\ \A v \in Taken(s \o rest, Primary) : v = prev /\ prev # run.case /\ ~shared
          /\ Len(s \o rest) # 0 /\ (s \o rest)[1] = Save(Primary, run.case)
      BY <2>4, <2>6, Joined
    <2>9. ~shared => \A o \in Origins : last_saved[o] = prev => o = run.verdict
      OBVIOUS
    <2> QED
      BY <1>3, <2>7, <2>8, <2>9
  <1> QED
    BY <1>2, <1>3

-----------------------------------------------------------------------------
(* Steps that begin file operations.                                              *)

\* A list of calls takes the place of an empty stack.
LEMMA Performed ==
    ASSUME Directory, NEW ops, Calls(ops), Perform(ops), UNCHANGED <<failing, dirs, files>>
    PROVE  /\ Directory' /\ Work' = ops
           /\ \A k : Stored(k)' = Stored(k)
           /\ \A v \in Values : v \in Stored(Primary) /\ v \notin Taken(ops, Primary) => Kept(v)'
           /\ \A k, v : \A i \in 1 .. Len(Work') :
                 v \in Values => /\ Adds(Work'[i], k, v) => v \in Given(ops, k)
                                 /\ Drops(Work'[i], k, v) => v \in Taken(ops, k)
  <1>1. Directory' /\ Work' = ops
    BY DirectoryPerform DEF Calls
  <1>2. \A k : Stored(k)' = Stored(k)
    BY SameFiles
  <1>3. \A k, v : \A i \in 1 .. Len(ops) :
           v \in Values => /\ Adds(ops[i], k, v) => v \in Given(ops, k)
                           /\ Drops(ops[i], k, v) => v \in Taken(ops, k)
    BY DEF Given, Taken
  <1>4. ASSUME NEW v \in Values, v \in Stored(Primary), v \notin Taken(ops, Primary) PROVE Kept(v)'
    <2>1. \A i \in 1 .. Len(ops) : ~Drops(ops[i], Primary, v)
      BY <1>3, <1>4
    <2>2. v \in Stored(Primary)'
      BY <1>2, <1>4
    <2> QED
      BY <1>1, <2>1, <2>2 DEF Kept, Drops, MoveOps
  <1> QED
    BY <1>1, <1>2, <1>3, <1>4

\* A case that the first of the new calls saves, and the case it follows.
LEMMA ComingAfter ==
    ASSUME Directory, NEW ops, Calls(ops), Perform(ops), UNCHANGED <<failing, dirs, files>>,
           NEW c \in Cases, Len(ops) # 0, ops[1] = Save(Primary, c), c \notin Taken(ops, Primary),
           NEW prev, prev # None => prev \in Stored(Primary)
    PROVE  Coming(prev, c)'
  <1>1. Work' = ops /\ Stored(Primary)' = Stored(Primary)
    BY Performed
  <1>2. c \in Values /\ Len(ops) \in Nat /\ 1 \in 1 .. Len(ops)
    BY KeysApart DEF Calls
  <1>3. Adds(ops[1], Primary, c) /\ ~Drops(ops[1], Primary, prev)
    BY CallEffects
  <1>4. \A j \in 2 .. Len(ops) : ~Drops(ops[j], Primary, c)
    BY <1>2 DEF Taken
  <1>5. \A j \in 1 .. 1 : ~Drops(ops[j], Primary, prev)
    BY <1>3
  <1> QED
    BY <1>1, <1>2, <1>3, <1>4, <1>5 DEF Coming, Adds, Drops, MoveOps, WriteOps

\* An execution: what its record and its caller will do on disk.
LEMMA ExecuteWork ==
    ASSUME Directory, RunTypes, NEW run, NEW abort, NEW after, Executes(run, abort, after)
    PROVE  \E ops :
        /\ Calls(ops) /\ Perform(ops) /\ UNCHANGED <<failing, dirs, files>>
        /\ Given(ops, Primary) \subseteq (IF Replaces(run) THEN {run.case} ELSE {})
        /\ Given(ops, Secondary) \subseteq preexisting
        /\ \A v \in Taken(ops, Primary) :
              \/ /\ Replaces(run) /\ v # run.case
                 /\ \A o \in Origins : v = last_saved[o] => o = run.verdict
              \/ /\ phase = "reuse" /\ ~Mismatch(run) /\ ~Interesting(run)
                 /\ \E entry \in queue : v = entry.raw /\ run \in Replays(entry.raw)
        /\ Replaces(run) => Len(ops) # 0 /\ ops[1] = Save(Primary, run.case)
  <1>1. Interesting(run) => run.verdict \in Origins /\ run.case \in Cases
    BY OutcomeTyped DEF Executes, RunTypes
  <1>2. PICK rec : rec = Record(run)
    OBVIOUS
  <1>3. /\ Calls(rec)
        /\ Given(rec, Primary) \subseteq (IF Replaces(run) THEN {run.case} ELSE {})
        /\ Given(rec, Secondary) \subseteq preexisting
        /\ \A v \in Taken(rec, Primary) :
              /\ Replaces(run) /\ v # run.case
              /\ \A o \in Origins : v = last_saved[o] => o = run.verdict
        /\ Replaces(run) => Len(rec) # 0 /\ rec[1] = Save(Primary, run.case)
    BY <1>1, <1>2, RecordCalls
  <1>4. /\ Calls(after) /\ Given(after, Primary) = {} /\ Given(after, Secondary) = {}
        /\ \A v \in Taken(after, Primary) :
              /\ phase = "reuse" /\ ~Mismatch(run) /\ ~Interesting(run)
              /\ \E entry \in queue : v = entry.raw /\ run \in Replays(entry.raw)
    <2>1. CASE after = <<>>
      BY <2>1, CallLists
    <2>2. CASE \E entry \in queue : after = <<Delete(Secondary, entry.raw)>>
      <3>1. PICK entry \in queue : after = <<Delete(Secondary, entry.raw)>>
        BY <2>2
      <3>2. PICK w \in Entries : w = entry.raw
        BY DEF RunTypes
      <3>3. after = <<Delete(Secondary, w)>> /\ Primary # Secondary /\ Secondary \in Keys
        BY <3>1, <3>2, KeysApart
      <3>4. /\ Calls(<<Delete(Secondary, w)>>) /\ Given(<<Delete(Secondary, w)>>, Primary) = {}
            /\ Given(<<Delete(Secondary, w)>>, Secondary) = {}
            /\ Taken(<<Delete(Secondary, w)>>, Primary) = {}
        BY <3>3, CallLists
      <3> QED
        BY <3>3, <3>4
    <2>3. CASE \E entry \in queue :
                  /\ after = Forget(entry.raw) /\ phase = "reuse" /\ run \in Replays(entry.raw)
                  /\ ~Mismatch(run) /\ ~Interesting(run)
      <3>1. PICK entry \in queue : /\ after = Forget(entry.raw) /\ phase = "reuse"
                                   /\ run \in Replays(entry.raw) /\ ~Mismatch(run) /\ ~Interesting(run)
        BY <2>3
      <3>2. PICK w \in Entries : w = entry.raw
        BY DEF RunTypes
      <3>3. /\ Calls(Forget(w)) /\ Given(Forget(w), Primary) = {} /\ Given(Forget(w), Secondary) = {}
            /\ Taken(Forget(w), Primary) \subseteq {w}
        BY CallLists
      <3>4. after = Forget(w)
        BY <3>1, <3>2
      <3> QED
        BY <3>1, <3>2, <3>3, <3>4
    <2> QED
      BY <2>1, <2>2, <2>3 DEF Executes
  <1>5. PICK ops : ops = rec \o after
    OBVIOUS
  <1>6. /\ Calls(ops) /\ \A k : Given(ops, k) \subseteq Given(rec, k) \cup Given(after, k)
        /\ \A k : Taken(ops, k) \subseteq Taken(rec, k) \cup Taken(after, k)
        /\ Len(rec) # 0 => Len(ops) # 0 /\ ops[1] = rec[1]
    BY <1>3, <1>4, <1>5, Joined
  <1>7. Perform(ops) /\ UNCHANGED <<failing, dirs, files>>
    BY <1>2, <1>5 DEF Executes, Execute, Settled
  <1>8. /\ Given(ops, Primary) \subseteq (IF Replaces(run) THEN {run.case} ELSE {})
        /\ Given(ops, Secondary) \subseteq preexisting
    BY <1>3, <1>4, <1>6
  <1>9. \A v \in Taken(ops, Primary) : v \in Taken(rec, Primary) \/ v \in Taken(after, Primary)
    BY <1>6
  <1>10. Replaces(run) => Len(ops) # 0 /\ ops[1] = Save(Primary, run.case)
    BY <1>3, <1>6
  <1>11. \A v \in Taken(ops, Primary) :
              \/ /\ Replaces(run) /\ v # run.case
                 /\ \A o \in Origins : v = last_saved[o] => o = run.verdict
              \/ /\ phase = "reuse" /\ ~Mismatch(run) /\ ~Interesting(run)
                 /\ \E entry \in queue : v = entry.raw /\ run \in Replays(entry.raw)
    BY <1>3, <1>4, <1>9
  <1> QED
    BY <1>6, <1>7, <1>8, <1>10, <1>11

\* An entry dropped because it cannot be decoded.
LEMMA RemoveWork ==
    ASSUME NEW ops, Removes(ops)
    PROVE  /\ Calls(ops) /\ Given(ops, Primary) = {} /\ Given(ops, Secondary) = {}
           /\ Taken(ops, Primary) \subseteq {Torn} /\ Perform(ops) /\ UNCHANGED <<failing, dirs, files>>
  <1>1. Torn \in Entries /\ Secondary \in Keys /\ Primary # Secondary
    BY KeysApart
  <1>2. CASE ops = Forget(Torn)
    BY <1>1, <1>2, CallLists DEF Removes, Settled
  <1>3. CASE ops = <<Delete(Secondary, Torn)>>
    <2>1. /\ Calls(<<Delete(Secondary, Torn)>>) /\ \A j : Given(<<Delete(Secondary, Torn)>>, j) = {}
          /\ Taken(<<Delete(Secondary, Torn)>>, Primary) = {}
      BY <1>1, CallLists
    <2> QED
      BY <1>3, <2>1 DEF Removes, Settled
  <1> QED
    BY <1>2, <1>3 DEF Removes

\* One entry of reconcile_database.
LEMMA ReconcileWork ==
    ASSUME NEW entry, NEW ops, WorksOn(entry, ops)
    PROVE  /\ Calls(ops) /\ Perform(ops) /\ UNCHANGED <<failing, dirs, files>>
           /\ \/ /\ phase = "save"
                 /\ \E c \in Cases : /\ entry = <<"new", c>> /\ ops = <<Save(Primary, c)>>
                                     /\ Given(ops, Primary) = {c} /\ Given(ops, Secondary) = {}
                                     /\ Taken(ops, Primary) = {}
              \/ /\ phase = "save" /\ \A c \in Cases : ~NewLeft(c)
                 /\ \E raw \in Entries :
                       /\ entry = <<"old", raw>> /\ Given(ops, Primary) = {}
                       /\ \A v \in Given(ops, Secondary) : v = raw /\ raw \notin saved_this_run \ preexisting
                       /\ Taken(ops, Primary) = {raw} /\ Len(ops) = 1 /\ Drops(ops[1], Primary, raw)
              \/ /\ phase = "evict" /\ entry \in Entries
                 /\ Given(ops, Primary) = {} /\ Given(ops, Secondary) = {} /\ Taken(ops, Primary) = {}
                 /\ Len(ops) = 1 /\ Drops(ops[1], Secondary, entry)
  <1>0. Secondary \in Keys /\ Primary \in Keys /\ Primary # Secondary /\ \A c \in Cases : c \in Entries
    BY KeysApart
  <1>1. Perform(ops) /\ UNCHANGED <<failing, dirs, files>>
    BY DEF WorksOn, Settled
  <1>2. ASSUME NEW c \in Cases, entry = <<"new", c>>, ops = <<Save(Primary, c)>>
        PROVE  /\ Calls(ops) /\ Given(ops, Primary) = {c} /\ Given(ops, Secondary) = {}
               /\ Taken(ops, Primary) = {}
    <2>1. PICK w \in Entries : w = c
      BY <1>0
    <2>k. Primary \in Keys /\ Primary # Secondary
      BY <1>0
    <2>s. /\ Calls(<<Save(Primary, w)>>) /\ \A j : Taken(<<Save(Primary, w)>>, j) = {}
          /\ \A j : Given(<<Save(Primary, w)>>, j) = IF j = Primary THEN {w} ELSE {}
      BY <2>k, CallLists
    <2>2. /\ Calls(<<Save(Primary, w)>>) /\ Given(<<Save(Primary, w)>>, Primary) = {w}
          /\ Given(<<Save(Primary, w)>>, Secondary) = {} /\ Taken(<<Save(Primary, w)>>, Primary) = {}
      BY <2>k, <2>s
    <2> QED
      BY <1>2, <2>1, <2>2
  <1>3. ASSUME NEW raw \in Entries, ops = Displacement(raw)
        PROVE  /\ Calls(ops) /\ Given(ops, Primary) = {}
               /\ \A v \in Given(ops, Secondary) : v = raw /\ raw \notin saved_this_run \ preexisting
               /\ Taken(ops, Primary) = {raw} /\ Len(ops) = 1 /\ Drops(ops[1], Primary, raw)
    <2>1. CASE raw \in saved_this_run \ preexisting
      <3>1. ops = <<Delete(Primary, raw)>>
        BY <1>3, <2>1 DEF Displacement
      <3>2. /\ Calls(<<Delete(Primary, raw)>>) /\ \A j : Given(<<Delete(Primary, raw)>>, j) = {}
            /\ Taken(<<Delete(Primary, raw)>>, Primary) = {raw}
        BY <1>0, CallLists
      <3>3. Len(ops) = 1 /\ ops[1] = Delete(Primary, raw)
        BY <3>1
      <3> QED
        BY <3>1, <3>2, <3>3, CallEffects
    <2>2. CASE raw \notin saved_this_run \ preexisting
      <3>1. ops = <<MoveValue(Primary, Secondary, raw)>>
        BY <1>3, <2>2 DEF Displacement
      <3>2. /\ Calls(<<MoveValue(Primary, Secondary, raw)>>)
            /\ Given(<<MoveValue(Primary, Secondary, raw)>>, Primary) = {}
            /\ Given(<<MoveValue(Primary, Secondary, raw)>>, Secondary) = {raw}
            /\ Taken(<<MoveValue(Primary, Secondary, raw)>>, Primary) = {raw}
        BY <1>0, CallLists
      <3>3. Len(ops) = 1 /\ ops[1] = MoveValue(Primary, Secondary, raw)
        BY <3>1
      <3> QED
        BY <2>2, <3>1, <3>2, <3>3, CallEffects
    <2> QED
      BY <2>1, <2>2
  <1>4. ASSUME entry \in Entries, ops = <<Delete(Secondary, entry)>>
        PROVE  /\ Calls(ops) /\ Given(ops, Primary) = {} /\ Given(ops, Secondary) = {}
               /\ Taken(ops, Primary) = {} /\ Len(ops) = 1 /\ Drops(ops[1], Secondary, entry)
    <2>1. /\ Calls(<<Delete(Secondary, entry)>>) /\ \A j : Given(<<Delete(Secondary, entry)>>, j) = {}
          /\ Taken(<<Delete(Secondary, entry)>>, Primary) = {}
      BY <1>0, <1>4, CallLists
    <2>2. Len(ops) = 1 /\ ops[1] = Delete(Secondary, entry)
      BY <1>4
    <2> QED
      BY <1>4, <2>1, <2>2, CallEffects
  <1>5. CASE phase = "save" /\ \E c \in Cases : entry = <<"new", c>> /\ ops = <<Save(Primary, c)>>
    BY <1>1, <1>2, <1>5
  <1>6. CASE /\ phase = "save" /\ \A c \in Cases : ~NewLeft(c)
             /\ \E raw \in Entries : entry = <<"old", raw>> /\ ops = Displacement(raw)
    BY <1>1, <1>3, <1>6
  <1>7. CASE phase = "evict" /\ entry \in Entries /\ ops = <<Delete(Secondary, entry)>>
    BY <1>1, <1>4, <1>7
  <1> QED
    BY <1>5, <1>6, <1>7 DEF WorksOn

\* The directory is sound whatever the engine does.
LEMMA DirectoryKept ==
    ASSUME Directory, RunTypes, Control, Kinds
    PROVE  Directory'
  <1>1. CASE MemorySame /\ DbStep(Engine)
    BY <1>1, DirectoryStep
  <1>2. CASE DiskSame
    BY <1>2, DirectorySame DEF DiskSame
  <1>3. CASE Begins \/ Records \/ Shrunk
    BY <1>2, <1>3 DEF Begins, Records, Shrunk
  <1>4. CASE PassesOn
    BY <1>4, DirectorySame DEF PassesOn, Settled
  <1>5. CASE Killed
    BY <1>5, CallLists, Performed DEF Killed
  <1>6. ASSUME NEW run, NEW abort, NEW after, Executes(run, abort, after) PROVE Directory'
    BY <1>6, ExecuteWork, Performed
  <1>7. ASSUME NEW ops, Removes(ops) PROVE Directory'
    BY <1>7, RemoveWork, Performed
  <1>8. ASSUME NEW next, NEW work, Enters(next, work) PROVE Directory'
    BY <1>8, DirectorySame DEF Enters, Settled
  <1>9. ASSUME NEW entry, NEW ops, WorksOn(entry, ops) PROVE Directory'
    BY <1>9, ReconcileWork, Performed
  <1> QED
    BY <1>1, <1>2, <1>3, <1>4, <1>5, <1>6, <1>7, <1>8, <1>9 DEF Kinds

-----------------------------------------------------------------------------
(* The last save of every origin.                                                 *)

\* The maps of the Persister and the Engine hold cases or nothing.
LEMMA LastSaveTyped ==
    ASSUME RunTypes, NEW o \in Origins
    PROVE  /\ last_saved[o] \in MaybeCases /\ interesting[o] \in MaybeCases /\ owed[o] \in MaybeCases
           /\ last_saved[o] # None =>
                 last_saved[o] \in Cases /\ last_saved[o] \in Values /\ last_saved[o] # Torn
           /\ interesting[o] # None => interesting[o] \in Cases /\ interesting[o] \in Values
  BY KeysApart DEF RunTypes, MaybeCases

\* A replay of what was saved is not forgotten: its verdict is on record.
LEMMA NotForgotten ==
    ASSUME RunTypes, SeenOnce, phase = "reuse", executing = NoCase, nondeterministic = FALSE,
           NEW o \in Origins, last_saved[o] # None, last_saved[o] \in DOMAIN test,
           NEW run \in Replays(last_saved[o]), ~Interesting(run), run.verdict # Concurrent
    PROVE  Mismatch(run)
  <1>1. Known(last_saved[o])
    BY NothingExecuting DEF SeenOnce
  <1>2. run.case = last_saved[o] /\ run.verdict \in Conclusions /\ run.verdict # Overrun
    BY ReplayFits DEF RunTypes
  <1>3. run.verdict = Valid
    BY <1>2 DEF Conclusions, Interesting
  <1> QED
    BY <1>1, <1>2, <1>3 DEF Known, Mismatch

\* An execution supersedes an origin's last save, or forgets an entry that is none.
LEMMA SavedExecute ==
    ASSUME Directory, RunTypes, Control, Saved, SeenOnce,
           NEW run, NEW abort, NEW after, Executes(run, abort, after)
    PROVE  Saved'
  <1> SUFFICES ASSUME nondeterministic' = FALSE, NEW o \in Origins PROVE SavedFor(o)'
    BY DEF Saved
  <1>1. PICK ops :
        /\ Calls(ops) /\ Perform(ops) /\ UNCHANGED <<failing, dirs, files>>
        /\ \A v \in Taken(ops, Primary) :
              \/ /\ Replaces(run) /\ v # run.case
                 /\ \A p \in Origins : v = last_saved[p] => p = run.verdict
              \/ /\ phase = "reuse" /\ ~Mismatch(run) /\ ~Interesting(run)
                 /\ \E entry \in queue : v = entry.raw /\ run \in Replays(entry.raw)
        /\ Replaces(run) => Len(ops) # 0 /\ ops[1] = Save(Primary, run.case)
    BY ExecuteWork
  <1>2. /\ executing' = [case |-> run.case, verdict |-> run.verdict, abort |-> abort]
        /\ nondeterministic' = (nondeterministic \/ run.verdict = Concurrent)
    BY DEF Executes, Execute
  <1>3. /\ UNCHANGED <<test, last_saved, interesting>> /\ phase \in Early
        /\ executing = NoCase /\ run \in Outcomes /\ test \in Versions
    BY DEF Executes, Settled, Ready, Early, RunTypes
  <1>4. nondeterministic = FALSE /\ run.verdict # Concurrent
    BY <1>2 DEF RunTypes
  <1>5. SavedFor(o) /\ ~Supersedes(o)
    BY <1>3, <1>4, NothingExecuting DEF Saved
  <1>6. last_saved[o] # None => last_saved[o] \in Stored(Primary) /\ last_saved[o] \in Values
    BY <1>5, LastSaveTyped DEF SavedFor, Kept
  <1>7. Supersedes(o)' <=> run.verdict = o /\ (last_saved[o] = None \/ run.case < last_saved[o])
    BY <1>2, <1>3 DEF Supersedes
  <1>8. Supersedes(o)' => Replaces(run)
    BY <1>4, <1>7 DEF Replaces, Interesting
  <1>9. ASSUME Supersedes(o)' PROVE Covered(last_saved[o], run.case)'
    <2>1. run.case \in Cases
      BY <1>3, <1>8, <1>9, OutcomeTyped DEF Replaces
    <2>2. run.case \notin Taken(ops, Primary)
      BY <1>1, <1>8, <1>9 DEF Replaces
    <2>3. PICK prev : prev = last_saved[o]
      OBVIOUS
    <2>4. Coming(prev, run.case)'
      BY <1>1, <1>6, <1>8, <1>9, <2>1, <2>2, <2>3, ComingAfter
    <2> QED
      BY <1>3, <2>3, <2>4 DEF Covered, Coming
  <1>10. ASSUME ~Supersedes(o)', last_saved[o] # None PROVE Kept(last_saved[o])'
    <2>1. last_saved[o] \notin Taken(ops, Primary)
      <3> SUFFICES ASSUME last_saved[o] \in Taken(ops, Primary) PROVE FALSE
        OBVIOUS
      <3>1. CASE /\ Replaces(run)
                 /\ \A p \in Origins : last_saved[o] = last_saved[p] => p = run.verdict
        BY <1>7, <1>10, <3>1 DEF Replaces
      <3>2. CASE /\ phase = "reuse" /\ ~Mismatch(run) /\ ~Interesting(run)
                 /\ \E entry \in queue : last_saved[o] = entry.raw /\ run \in Replays(entry.raw)
        <4>1. run \in Replays(last_saved[o]) /\ last_saved[o] \in DOMAIN test
          BY <1>5, <1>10, <3>2 DEF SavedFor
        <4> QED
          BY <1>3, <1>4, <1>10, <3>2, <4>1, NotForgotten
      <3> QED
        BY <1>1, <3>1, <3>2
    <2>2. PICK prev \in Values : prev = last_saved[o]
      BY <1>6, <1>10
    <2>3. Kept(prev)'
      BY <1>1, <1>6, <1>10, <2>1, <2>2, Performed
    <2> QED
      BY <1>3, <2>2, <2>3 DEF Kept
  <1>11. executing'.case = run.case
    BY <1>2
  <1> QED
    BY <1>3, <1>5, <1>9, <1>10, <1>11 DEF SavedFor

\* Steps that leave alone what is kept, and what was saved.
LEMMA SavedSame ==
    ASSUME Directory, RunTypes, Saved, executing = NoCase, phase \in Early,
           UNCHANGED <<executing, nondeterministic, test, last_saved, interesting>>,
           \A o \in Origins : last_saved[o] # None /\ Kept(last_saved[o]) => Kept(last_saved[o])'
    PROVE  Saved'
  <1> SUFFICES ASSUME nondeterministic' = FALSE, NEW o \in Origins PROVE SavedFor(o)'
    BY DEF Saved
  <1>1. SavedFor(o) /\ ~Supersedes(o)
    BY NothingExecuting DEF Saved
  <1>2. ~Supersedes(o)'
    BY <1>1 DEF Supersedes
  <1>3. last_saved[o] # None => Kept(last_saved[o])'
    BY <1>1 DEF SavedFor
  <1> QED
    BY <1>1, <1>2, <1>3 DEF SavedFor

\* A record completed makes its case the last save.
LEMMA SavedRecord ==
    ASSUME Directory, RunTypes, Control, Saved, Records
    PROVE  Saved'
  <1> SUFFICES ASSUME phase' \in Early, nondeterministic' = FALSE, NEW o \in Origins PROVE SavedFor(o)'
    BY DEF Saved
  <1>1. /\ executing # NoCase /\ executing' = NoCase /\ Work = <<>> /\ UNCHANGED <<files, todo>>
        /\ UNCHANGED <<test, nondeterministic>> /\ nondeterministic = FALSE
    BY DEF Records, DiskSame
  <1>2. phase \in Early /\ SavedFor(o) /\ ~Supersedes(o)'
    <2>1. phase \in Early
      BY <1>1 DEF Control, Executing, Early
    <2>2. ~Supersedes(o)'
      BY <1>1, PersisterOK DEF Supersedes, NoCase
    <2> QED
      BY <1>1, <2>1, <2>2 DEF Saved
  <1>3. /\ \A v : Kept(v)' <=> v \in Stored(Primary)
        /\ \A v : Kept(v) <=> v \in Stored(Primary)
        /\ \A prev, v : Covered(prev, v) <=> v \in Stored(Primary)
    BY <1>1, IdleWork, SameWork
  <1>4. last_saved \in [Origins -> MaybeCases] /\ interesting \in [Origins -> MaybeCases]
    BY DEF RunTypes
  <1>5. CASE Interesting(executing) /\ executing.verdict = o
    <2>1. executing.case \in DOMAIN test /\ executing.case # None
      BY <1>5, VersionTyped DEF Control, RunTypes
    <2>2. interesting'[o] # None
      <3>1. CASE Better(interesting)
        BY <1>4, <1>5, <2>1, <3>1 DEF Records
      <3>2. CASE ~Better(interesting)
        BY <1>5, <3>2 DEF Records, Better
      <3> QED
        BY <3>1, <3>2
    <2>3. CASE Better(last_saved)
      <3>1. last_saved'[o] = executing.case
        BY <1>1, <1>4, <1>5, <2>3 DEF Records
      <3>2. executing.case \in Stored(Primary)
        BY <1>2, <1>3, <1>5, <2>3 DEF SavedFor, Supersedes, Better
      <3>3. Kept(last_saved[o])'
        BY <1>3, <3>1, <3>2 DEF Kept
      <3> QED
        BY <1>1, <1>2, <2>1, <2>2, <3>1, <3>3 DEF SavedFor
    <2>4. CASE ~Better(last_saved)
      <3>1. last_saved' = last_saved /\ last_saved[o] # None
        BY <1>5, <2>4 DEF Records, Better
      <3>2. Kept(last_saved[o]) /\ last_saved[o] \in DOMAIN test
        BY <1>2, <1>5, <2>4, <3>1 DEF SavedFor, Supersedes, Better
      <3>3. Kept(last_saved[o])'
        BY <1>3, <3>1, <3>2 DEF Kept
      <3> QED
        BY <1>1, <1>2, <2>2, <3>1, <3>2, <3>3 DEF SavedFor
    <2> QED
      BY <2>3, <2>4
  <1>6. CASE ~(Interesting(executing) /\ executing.verdict = o)
    <2>1. last_saved'[o] = last_saved[o] /\ interesting'[o] = interesting[o]
      <3>1. CASE ~Interesting(executing)
        BY <3>1 DEF Records
      <3>2. CASE Interesting(executing)
        <4>1. /\ last_saved' = last_saved \/
                    last_saved' = [last_saved EXCEPT ![executing.verdict] = executing.case]
              /\ interesting' = interesting \/
                    interesting' = [interesting EXCEPT ![executing.verdict] = executing.case]
          BY <3>2 DEF Records
        <4> QED
          BY <1>4, <1>6, <3>2, <4>1
      <3> QED
        BY <3>1, <3>2
    <2>2. ~Supersedes(o)
      BY <1>6 DEF Supersedes, Interesting
    <2>3. last_saved[o] # None => Kept(last_saved[o])'
      BY <1>2, <1>3, <2>1, <2>2 DEF SavedFor, Kept
    <2> QED
      BY <1>1, <1>2, <2>1, <2>3 DEF SavedFor
  <1> QED
    BY <1>5, <1>6

\* A file operation in the middle of a record.
LEMMA SavedDatabase ==
    ASSUME Directory, RunTypes, Control, Saved, MemorySame, DbStep(Engine)
    PROVE  Saved'
  <1> SUFFICES ASSUME phase \in Early, nondeterministic = FALSE, NEW o \in Origins PROVE SavedFor(o)'
    BY DEF Saved, MemorySame
  <1>1. PICK c \in Ops, n \in Nat : Moves(c, n)
    BY StepMoves
  <1>2. /\ UNCHANGED <<executing, last_saved, interesting, test>> /\ SavedFor(o)
    BY DEF MemorySame, Saved
  <1>3. PICK prev \in Values \cup {None} : prev = last_saved[o]
    BY LastSaveTyped
  <1>4. prev # None => prev \in Values
    BY <1>3, LastSaveTyped
  <1>5. Supersedes(o)' <=> Supersedes(o)
    BY <1>2 DEF Supersedes
  <1>6. CASE Supersedes(o)
    <2>1. Interesting(executing)
      BY <1>6 DEF Supersedes, Interesting
    <2>2. PICK v \in Values : v = executing.case
      BY <2>1, VersionTyped, KeysApart DEF Control, RunTypes
    <2>3. Covered(prev, v)
      BY <1>2, <1>3, <1>6, <2>2 DEF SavedFor
    <2>4. Covered(prev, v)'
      BY <1>1, <1>4, <2>3, CoveredStays
    <2>5. prev = last_saved'[o] /\ v = executing'.case
      BY <1>2, <1>3, <2>2
    <2>6. Covered(last_saved[o], executing.case)'
      BY <2>4, <2>5 DEF Covered, Kept, Coming
    <2> QED
      BY <1>2, <1>5, <1>6, <2>6 DEF SavedFor
  <1>7. CASE ~Supersedes(o)
    <2>1. last_saved[o] # None => Kept(last_saved[o])'
      <3> SUFFICES ASSUME last_saved[o] # None PROVE Kept(last_saved[o])'
        OBVIOUS
      <3>1. prev \in Values /\ Kept(prev)
        BY <1>2, <1>3, <1>4, <1>7 DEF SavedFor
      <3>2. Kept(prev)'
        BY <1>1, <3>1, KeptStays
      <3> QED
        BY <1>2, <1>3, <3>2 DEF Kept
    <2> QED
      BY <1>2, <1>5, <1>7, <2>1 DEF SavedFor
  <1> QED
    BY <1>6, <1>7

\* All kinds of steps keep the last saves.
LEMMA SavedKept ==
    ASSUME Directory, RunTypes, Control, Saved, SeenOnce, Kinds
    PROVE  Saved'
  <1>1. CASE MemorySame /\ DiskSame
    <2>1. /\ \A v : Kept(v)' <=> Kept(v)
          /\ \A prev, v : Covered(prev, v)' <=> Covered(prev, v)
      BY <1>1, SameWork DEF DiskSame
    <2> SUFFICES ASSUME phase \in Early, nondeterministic = FALSE, NEW o \in Origins PROVE SavedFor(o)'
      BY <1>1 DEF Saved, MemorySame
    <2>2. UNCHANGED <<executing, last_saved, interesting, test>> /\ SavedFor(o)
      BY <1>1 DEF MemorySame, Saved
    <2>3. Supersedes(o)' <=> Supersedes(o)
      BY <2>2 DEF Supersedes
    <2>4. Covered(last_saved[o], executing.case) => Covered(last_saved[o], executing.case)'
      BY <2>1, <2>2 DEF Covered, Kept, Coming
    <2>5. Kept(last_saved[o]) => Kept(last_saved[o])'
      BY <2>1, <2>2 DEF Kept
    <2> QED
      BY <2>2, <2>3, <2>4, <2>5 DEF SavedFor
  <1>2. CASE MemorySame /\ DbStep(Engine)
    BY <1>2, SavedDatabase
  <1>3. CASE Begins
    <2>1. /\ \A o \in Origins : last_saved'[o] = None /\ interesting'[o] = None
          /\ \A o \in Origins : executing'.verdict # o
      BY <1>3, PersisterOK DEF Begins, NoFailures, NoCase
    <2> QED
      BY <2>1 DEF Saved, SavedFor, Supersedes
  <1>4. CASE Records
    BY <1>4, SavedRecord
  <1>5. CASE Shrunk
    <2>1. /\ executing = NoCase /\ executing' = NoCase /\ phase = "shrink" /\ UNCHANGED <<files, todo>>
          /\ UNCHANGED <<nondeterministic, test, last_saved>>
      BY <1>5 DEF Shrunk, Ready, DiskSame
    <2>2. /\ target.origin \in Origins /\ interesting[target.origin] # None /\ target.case \in Cases
      BY <1>5, <2>1, NothingExecuting DEF Control, Shrunk
    <2>3. \A o \in Origins : interesting'[o] # None <=> interesting[o] # None
      BY <1>5, <2>2, KeysApart DEF Shrunk, RunTypes
    <2>4. \A v : Kept(v)' <=> Kept(v)
      BY <2>1, SameWork
    <2> SUFFICES ASSUME nondeterministic' = FALSE, NEW o \in Origins PROVE SavedFor(o)'
      BY DEF Saved
    <2>5. SavedFor(o) /\ ~Supersedes(o)
      BY <2>1, NothingExecuting DEF Saved, Early
    <2>6. ~Supersedes(o)'
      BY <2>1, <2>5 DEF Supersedes
    <2>7. last_saved[o] # None => Kept(last_saved[o])'
      BY <2>1, <2>4, <2>5 DEF SavedFor, Kept
    <2> QED
      BY <2>1, <2>3, <2>5, <2>6, <2>7 DEF SavedFor
  <1>6. CASE Killed
    BY <1>6 DEF Killed, Saved, Early
  <1>7. CASE PassesOn
    <2>1. /\ executing = NoCase /\ phase \in Early /\ UNCHANGED <<files, todo>>
          /\ UNCHANGED <<executing, nondeterministic, test, last_saved, interesting>>
      BY <1>7 DEF PassesOn, Ready, Settled, Early
    <2>2. \A o \in Origins : last_saved[o] # None /\ Kept(last_saved[o]) => Kept(last_saved[o])'
      BY <2>1, SameWork DEF Kept
    <2> QED
      BY <2>1, <2>2, SavedSame
  <1>8. ASSUME NEW run, NEW abort, NEW after, Executes(run, abort, after) PROVE Saved'
    BY <1>8, SavedExecute
  <1>9. ASSUME NEW ops, Removes(ops) PROVE Saved'
    <2>1. /\ Calls(ops) /\ Taken(ops, Primary) \subseteq {Torn} /\ Perform(ops)
          /\ UNCHANGED <<failing, dirs, files>>
      BY <1>9, RemoveWork
    <2>2. /\ executing = NoCase /\ phase \in Early
          /\ UNCHANGED <<executing, nondeterministic, test, last_saved, interesting>>
      BY <1>9 DEF Removes, Ready, Settled, Early
    <2>3. ASSUME NEW o \in Origins, last_saved[o] # None, Kept(last_saved[o]) PROVE Kept(last_saved[o])'
      <3>1. PICK prev \in Values : prev = last_saved[o]
        BY <2>3, LastSaveTyped
      <3>2. prev \in Stored(Primary) /\ prev \notin Taken(ops, Primary)
        BY <2>1, <2>3, <3>1, LastSaveTyped DEF Kept
      <3>3. Kept(prev)'
        BY <2>1, <3>2, Performed
      <3> QED
        BY <2>2, <3>1, <3>3 DEF Kept
    <2> QED
      BY <2>2, <2>3, SavedSame
  <1>10. ASSUME NEW next, NEW work, Enters(next, work) PROVE Saved'
    BY <1>10 DEF Enters, Saved, Early
  <1>11. ASSUME NEW entry, NEW ops, WorksOn(entry, ops) PROVE Saved'
    BY <1>11 DEF WorksOn, Saved, Early
  <1> QED
    BY <1>1, <1>2, <1>3, <1>4, <1>5, <1>6, <1>7, <1>8, <1>9, <1>10, <1>11 DEF Kinds

-----------------------------------------------------------------------------
(* The verdicts of the reuse phase.                                               *)

\* What is known stays known, and what an execution saves is.
LEMMA KnownExecute ==
    ASSUME RunTypes, NEW run, NEW abort, NEW after, Executes(run, abort, after),
           nondeterministic' = FALSE
    PROVE  /\ \A c \in Cases : Known(c) => Known(c)'
           /\ Interesting(run) /\ ~Mismatch(run) => Known(run.case)'
  <1>1. /\ nondeterministic' = (nondeterministic \/ run.verdict = Concurrent)
        /\ seen' = IF nondeterministic' THEN [c \in Cases |-> None]
               ELSE IF run.verdict # Overrun /\ seen[run.case] = None
               THEN [seen EXCEPT ![run.case] = run.verdict] ELSE seen
    BY DEF Executes, Execute
  <1>2. nondeterministic = FALSE /\ run.verdict # Concurrent
    BY <1>1 DEF RunTypes
  <1>3. seen' = seen \/ (seen[run.case] = None /\ seen' = [seen EXCEPT ![run.case] = run.verdict])
    BY <1>1
  <1>4. seen \in [Cases -> Origins \cup {Valid, None}]
    BY DEF RunTypes
  <1>5. \A c \in Cases : Known(c) => Known(c)'
    BY <1>3, <1>4 DEF Known
  <1>6. ASSUME Interesting(run), ~Mismatch(run) PROVE Known(run.case)'
    <2>1. /\ run.case \in Cases /\ run.verdict \in Origins /\ run.verdict \notin {Overrun, Concurrent, Valid}
      BY <1>6, OutcomeTyped DEF Executes, RunTypes
    <2>2. run.verdict # None
      BY <2>1, PersisterOK
    <2>3. seen[run.case] = None \/ seen[run.case] = run.verdict
      BY <1>2, <1>6, <2>1 DEF Mismatch
    <2>4. seen'[run.case] = run.verdict
      <3>1. CASE seen[run.case] = None
        BY <1>1, <1>4, <2>1, <3>1
      <3>2. CASE seen[run.case] = run.verdict /\ seen[run.case] # None
        BY <1>3, <2>3, <3>2
      <3> QED
        BY <2>3, <3>1, <3>2
    <2> QED
      BY <2>1, <2>2, <2>4 DEF Known
  <1> QED
    BY <1>5, <1>6

\* Steps of the reuse phase that execute nothing.
LEMMA SeenSame ==
    ASSUME SeenOnce, phase = "reuse", UNCHANGED <<last_saved, seen, nondeterministic>>,
           executing' = executing
    PROVE  SeenOnce'
  BY DEF SeenOnce, Known, Interesting

\* All kinds of steps keep the verdicts of what was saved.
LEMMA SeenOnceKept ==
    ASSUME RunTypes, Control, SeenOnce, Kinds
    PROVE  SeenOnce'
  <1>1. CASE MemorySame
    BY <1>1, SeenSame DEF MemorySame, SeenOnce
  <1>2. CASE Begins
    <2>1. /\ \A o \in Origins : last_saved'[o] = None
          /\ executing'.verdict \notin Origins
      BY <1>2, PersisterOK DEF Begins, NoFailures, NoCase
    <2> QED
      BY <2>1 DEF SeenOnce, Interesting
  <1>3. CASE Records
    <2>0. ~Interesting(executing)'
      BY <1>3, PersisterOK DEF Records, NoCase, Interesting
    <2> SUFFICES ASSUME phase' = "reuse", nondeterministic' = FALSE, NEW o \in Origins
                 PROVE  last_saved'[o] # None => Known(last_saved[o])'
      BY <2>0 DEF SeenOnce
    <2>1. phase = "reuse" /\ executing.abort = FALSE /\ nondeterministic = FALSE /\ UNCHANGED seen
      BY <1>3 DEF Records, RunTypes
    <2>2. /\ last_saved[o] # None => Known(last_saved[o])
          /\ Interesting(executing) => Known(executing.case)
      BY <2>1 DEF SeenOnce
    <2>3. \/ last_saved'[o] = last_saved[o]
          \/ Interesting(executing) /\ last_saved'[o] = executing.case
      <3>1. CASE ~Interesting(executing)
        BY <1>3, <3>1 DEF Records
      <3>2. CASE Interesting(executing)
        <4>1. \/ last_saved' = last_saved
              \/ last_saved' = [last_saved EXCEPT ![executing.verdict] = executing.case]
          BY <1>3, <3>2 DEF Records
        <4> QED
          BY <3>2, <4>1 DEF RunTypes
      <3> QED
        BY <3>1, <3>2
    <2> QED
      BY <2>1, <2>2, <2>3 DEF Known
  <1>4. CASE Shrunk \/ Killed
    BY <1>4 DEF Shrunk, Killed, SeenOnce
  <1>5. CASE PassesOn
    BY <1>5 DEF PassesOn, SeenOnce
  <1>6. ASSUME NEW run, NEW abort, NEW after, Executes(run, abort, after) PROVE SeenOnce'
    <2> SUFFICES ASSUME phase' = "reuse", nondeterministic' = FALSE, executing'.abort = FALSE
                 PROVE  /\ \A o \in Origins : last_saved'[o] # None => Known(last_saved[o])'
                        /\ Interesting(executing)' => Known(executing.case)'
      BY DEF SeenOnce
    <2>1. /\ executing' = [case |-> run.case, verdict |-> run.verdict, abort |-> abort]
          /\ nondeterministic' = (nondeterministic \/ run.verdict = Concurrent)
      BY <1>6 DEF Executes, Execute
    <2>2. phase = "reuse" /\ last_saved' = last_saved /\ executing = NoCase /\ nondeterministic = FALSE
      BY <1>6, <2>1 DEF Executes, Settled, Ready, RunTypes
    <2>3. abort = Mismatch(run) /\ abort = FALSE
      BY <1>6, <2>1, <2>2 DEF Executes
    <2>4. \A o \in Origins : last_saved[o] # None => Known(last_saved[o]) /\ last_saved[o] \in Cases
      BY <2>2, NothingExecuting, LastSaveTyped DEF SeenOnce
    <2>5. /\ \A c \in Cases : Known(c) => Known(c)'
          /\ Interesting(run) /\ ~Mismatch(run) => Known(run.case)'
      BY <1>6, KnownExecute
    <2>6. \A o \in Origins : last_saved'[o] # None => Known(last_saved[o])'
      BY <2>2, <2>4, <2>5 DEF Known
    <2>7. Interesting(executing)' => Known(executing.case)'
      BY <2>1, <2>3, <2>5 DEF Known, Interesting
    <2> QED
      BY <2>6, <2>7
  <1>7. ASSUME NEW ops, Removes(ops) PROVE SeenOnce'
    BY <1>7, SeenSame DEF Removes, Settled, SeenOnce
  <1>8. ASSUME NEW next, NEW work, Enters(next, work) PROVE SeenOnce'
    BY <1>8 DEF Enters, SeenOnce
  <1>9. ASSUME NEW entry, NEW ops, WorksOn(entry, ops) PROVE SeenOnce'
    BY <1>9 DEF WorksOn, SeenOnce
  <1> QED
    BY <1>1, <1>2, <1>3, <1>4, <1>5, <1>6, <1>7, <1>8, <1>9 DEF Kinds

-----------------------------------------------------------------------------
(* The order of what was saved, what is kept and what is owed.                    *)

\* Cases are compared by their rank in the shrink order.
LEMMA CasesOrdered ==
    ASSUME NEW a \in Cases, NEW b \in Cases
    PROVE  /\ a \in Nat /\ a <= a /\ (a < b \/ b <= a)
           /\ \A c \in Cases : a <= b /\ b <= c => a <= c
           /\ \A c \in Cases : a < b /\ b <= c => a < c
  BY KeysApart

\* Steps that change none of it.
LEMMA OrderedSame ==
    ASSUME Ordered, UNCHANGED <<flaky, nondeterministic, test, last_saved, interesting, owed>>,
           executing' = executing, phase' # "off" => phase # "off",
           phase' = "shrink" => (phase = "shrink" /\ target' = target) \/ target' = NoTarget
    PROVE  Ordered'
  BY DEF Ordered, OrderedFor, OrderedTarget, Interesting

\* An execution saves nothing and records nothing yet.
LEMMA OrderedExecute ==
    ASSUME RunTypes, Control, Ordered, NEW run, NEW abort, NEW after, Executes(run, abort, after)
    PROVE  Ordered'
  <1> SUFFICES ASSUME flaky = FALSE
               PROVE  /\ nondeterministic' = FALSE
                      /\ Interesting(executing)' => test'[executing'.case] = executing'.verdict
                      /\ phase' # "off" => \A o \in Origins : OrderedFor(o)'
                      /\ phase' = "shrink" /\ target' # NoTarget => OrderedTarget'
    BY DEF Ordered, Executes, Settled
  <1>1. /\ executing' = [case |-> run.case, verdict |-> run.verdict, abort |-> abort]
        /\ nondeterministic' = (nondeterministic \/ run.verdict = Concurrent)
    BY DEF Executes, Execute
  <1>2. /\ UNCHANGED <<test, last_saved, interesting, owed, phase>> /\ phase # "off"
        /\ executing = NoCase /\ run \in Outcomes /\ test \in Versions
    BY DEF Executes, Settled, Ready, RunTypes
  <1>3. /\ run.verdict # Concurrent
        /\ Interesting(run) => run.verdict = test[run.case] /\ run.case \in DOMAIN test
    BY <1>2, OutcomeTyped
  <1>4. nondeterministic' = FALSE
    BY <1>1, <1>3 DEF Ordered
  <1>5. Interesting(executing)' => test'[executing'.case] = executing'.verdict
    BY <1>1, <1>2, <1>3 DEF Interesting
  <1>6. ASSUME NEW o \in Origins PROVE OrderedFor(o) /\ OrderedFor(o)'
    BY <1>2 DEF Ordered, OrderedFor
  <1>7. ASSUME phase = "shrink", target' # NoTarget PROVE OrderedTarget'
    <2>1. CASE target' = target
      <3>1. /\ OrderedTarget /\ target.origin \in Origins /\ executing.verdict # target.origin
        BY <1>2, <1>7, <2>1, NothingExecuting DEF Ordered, Control
      <3>2. last_saved[target.origin] <= target.case
        BY <3>1 DEF OrderedTarget
      <3> QED
        BY <1>2, <2>1, <3>1, <3>2 DEF OrderedTarget
    <2>2. CASE \E o \in Failures(interesting) :
                   run \in Replays(interesting[o]) /\ target' = [origin |-> o, case |-> run.case]
      <3>1. PICK o \in Failures(interesting) :
                   run \in Replays(interesting[o]) /\ target' = [origin |-> o, case |-> run.case]
        BY <2>2
      <3>2. o \in Origins /\ interesting[o] # None
        BY <3>1 DEF Failures
      <3>3. /\ interesting[o] \in DOMAIN test /\ test[interesting[o]] = o
            /\ last_saved[o] <= interesting[o]
        BY <1>6, <3>2 DEF OrderedFor
      <3>4. run.case = interesting[o]
        BY <1>2, <3>1, <3>3, ReplayFits
      <3> QED
        BY <1>2, <3>1, <3>3, <3>4 DEF OrderedTarget
    <2>3. CASE /\ target # NoTarget /\ run.verdict = target.origin
               /\ target' = [target EXCEPT !.case = run.case]
      <3>1. target.origin \in Origins
        BY <1>7, <2>3 DEF Control
      <3>2. Interesting(run)
        BY <2>3, <3>1 DEF Interesting
      <3>3. target'.origin = target.origin /\ target'.case = run.case
        BY <2>3 DEF RunTypes
      <3> QED
        BY <1>1, <1>2, <1>3, <2>3, <3>2, <3>3 DEF OrderedTarget
    <2> QED
      BY <1>7, <2>1, <2>2, <2>3 DEF Executes
  <1> QED
    BY <1>2, <1>4, <1>5, <1>6, <1>7

\* A record lowers what is saved, kept and owed together, or leaves what is saved.
LEMMA OrderedRecord ==
    ASSUME RunTypes, Control, Ordered, Records
    PROVE  Ordered'
  <1> SUFFICES ASSUME flaky = FALSE
               PROVE  /\ nondeterministic' = FALSE
                      /\ ~Interesting(executing)'
                      /\ phase' # "off" => \A o \in Origins : OrderedFor(o)'
                      /\ phase' = "shrink" /\ target' # NoTarget => OrderedTarget'
    BY DEF Ordered, Records
  <1>1. /\ executing # NoCase /\ executing' = NoCase
        /\ UNCHANGED <<test, nondeterministic, target>> /\ nondeterministic = FALSE
        /\ phase # "off" /\ phase' \in {phase, "aborted"} /\ test \in Versions
    BY DEF Records, Ordered, Control, Executing, RunTypes
  <1>2. ~Interesting(executing)'
    BY <1>1, PersisterOK DEF NoCase, Interesting
  <1>3. /\ last_saved \in [Origins -> MaybeCases] /\ interesting \in [Origins -> MaybeCases]
        /\ owed \in [Origins -> MaybeCases]
    BY DEF RunTypes
  <1>4. ASSUME NEW o \in Origins, Interesting(executing), executing.verdict = o
        PROVE  /\ OrderedFor(o)' /\ last_saved'[o] <= executing.case /\ last_saved'[o] # None
               /\ last_saved[o] # None => last_saved'[o] <= last_saved[o]
    <2>1. /\ executing.case \in DOMAIN test /\ executing.case \in Cases /\ executing.case # None
          /\ test[executing.case] = o
      BY <1>1, <1>4, VersionTyped DEF Control, Ordered
    <2>2. OrderedFor(o)
      BY <1>1 DEF Ordered
    <2>3. /\ last_saved[o] # None => /\ last_saved[o] \in Cases /\ interesting[o] \in Cases
                                     /\ owed[o] \in Cases
                                     /\ interesting[o] # None /\ owed[o] # None
      BY <1>3, <2>2 DEF OrderedFor, MaybeCases
    <2>4. CASE Better(last_saved)
      <3>1. Better(interesting)
        <4>1. CASE last_saved[o] = None
          BY <1>4, <2>2, <4>1 DEF OrderedFor, Better
        <4>2. CASE last_saved[o] # None
          <5>1. executing.case < last_saved[o] /\ last_saved[o] <= interesting[o]
            BY <1>4, <2>2, <2>4, <4>2 DEF OrderedFor, Better
          <5>2. executing.case < interesting[o]
            BY <2>1, <2>3, <4>2, <5>1, CasesOrdered
          <5> QED
            BY <1>4, <5>2 DEF Better
        <4> QED
          BY <4>1, <4>2
      <3>2. /\ last_saved'[o] = executing.case /\ interesting'[o] = executing.case
            /\ owed'[o] = executing.case
        BY <1>1, <1>3, <1>4, <2>4, <3>1 DEF Records
      <3>3. executing.case <= executing.case
        BY <2>1, CasesOrdered
      <3>4. last_saved[o] # None => executing.case <= last_saved[o]
        <4>1. last_saved[o] # None => executing.case < last_saved[o]
          BY <1>4, <2>4 DEF Better
        <4> QED
          BY <2>1, <2>3, <4>1, KeysApart
      <3> QED
        BY <1>1, <2>1, <3>2, <3>3, <3>4 DEF OrderedFor
    <2>5. CASE ~Better(last_saved)
      <3>1. /\ last_saved[o] # None /\ ~(executing.case < last_saved[o])
            /\ last_saved' = last_saved /\ owed' = owed
        BY <1>4, <2>5 DEF Records, Better
      <3>2. last_saved[o] <= executing.case
        BY <2>1, <2>3, <3>1, CasesOrdered
      <3>3. /\ interesting'[o] \in DOMAIN test /\ test[interesting'[o]] = o
            /\ last_saved[o] <= interesting'[o] /\ interesting'[o] <= owed[o] /\ interesting'[o] # None
        <4>1. CASE Better(interesting)
          <5>1. interesting'[o] = executing.case
            BY <1>3, <1>4, <4>1 DEF Records
          <5>2. executing.case < interesting[o] /\ interesting[o] <= owed[o]
            BY <1>4, <2>2, <2>3, <3>1, <4>1 DEF Better, OrderedFor
          <5>3. executing.case <= owed[o]
            BY <2>1, <2>3, <3>1, <5>2, KeysApart
          <5> QED
            BY <2>1, <3>2, <5>1, <5>3
        <4>2. CASE ~Better(interesting)
          <5>1. interesting' = interesting
            BY <1>4, <4>2 DEF Records
          <5> QED
            BY <2>2, <2>3, <3>1, <5>1 DEF OrderedFor
        <4> QED
          BY <4>1, <4>2
      <3>4. last_saved[o] <= last_saved[o]
        BY <2>3, <3>1, CasesOrdered
      <3> QED
        BY <1>1, <2>2, <3>1, <3>2, <3>3, <3>4 DEF OrderedFor
    <2> QED
      BY <2>4, <2>5
  <1>5. ASSUME NEW o \in Origins, ~(Interesting(executing) /\ executing.verdict = o)
        PROVE  OrderedFor(o)' /\ last_saved'[o] = last_saved[o]
    <2>1. last_saved'[o] = last_saved[o] /\ interesting'[o] = interesting[o] /\ owed'[o] = owed[o]
      <3>1. CASE ~Interesting(executing)
        BY <3>1 DEF Records
      <3>2. CASE Interesting(executing)
        <4>1. /\ last_saved' = last_saved \/
                    last_saved' = [last_saved EXCEPT ![executing.verdict] = executing.case]
              /\ owed' = owed \/
                    owed' = [owed EXCEPT ![executing.verdict] = executing.case]
              /\ interesting' = interesting \/
                    interesting' = [interesting EXCEPT ![executing.verdict] = executing.case]
          BY <3>2 DEF Records
        <4> QED
          BY <1>3, <1>5, <3>2, <4>1
      <3> QED
        BY <3>1, <3>2
    <2> QED
      BY <1>1, <2>1 DEF Ordered, OrderedFor
  <1>6. ASSUME phase' = "shrink", target' # NoTarget PROVE OrderedTarget'
    <2>1. phase = "shrink" /\ target # NoTarget /\ target' = target
      BY <1>1, <1>6
    <2>2. OrderedTarget /\ target.origin \in Origins /\ interesting[target.origin] # None
      BY <2>1 DEF Ordered, Control
    <2>3. PICK o \in Origins : o = target.origin
      BY <2>2
    <2>4. /\ target.case \in Cases
          /\ last_saved[o] # None /\ last_saved[o] \in Cases
      <3>1. OrderedFor(o)
        BY <1>1 DEF Ordered
      <3> QED
        BY <1>1, <1>3, <2>2, <2>3, <3>1, VersionTyped DEF OrderedFor, OrderedTarget, MaybeCases
    <2>5. last_saved'[o] <= target.case
      <3>1. CASE Interesting(executing) /\ executing.verdict = o
        <4>1. last_saved'[o] <= executing.case /\ last_saved'[o] <= last_saved[o] /\ last_saved'[o] \in Cases
          <5>1. last_saved'[o] # None /\ last_saved'[o] <= executing.case /\ last_saved'[o] <= last_saved[o]
            BY <1>4, <2>4, <3>1
          <5>2. last_saved'[o] \in MaybeCases
            BY TypesRecord DEF RunTypes
          <5> QED
            BY <5>1, <5>2 DEF MaybeCases
        <4>2. last_saved[o] <= target.case \/ executing.case = target.case
          BY <2>2, <2>3 DEF OrderedTarget
        <4>3. last_saved[o] <= target.case => last_saved'[o] <= target.case
          BY <2>4, <4>1, CasesOrdered
        <4> QED
          BY <4>1, <4>2, <4>3
      <3>2. CASE ~(Interesting(executing) /\ executing.verdict = o)
        <4>1. executing.verdict # o
          BY <3>2 DEF Interesting
        <4> QED
          BY <1>5, <2>2, <2>3, <3>2, <4>1 DEF OrderedTarget
      <3> QED
        BY <3>1, <3>2
    <2> QED
      BY <1>1, <2>1, <2>2, <2>3, <2>5 DEF OrderedTarget
  <1> QED
    BY <1>1, <1>2, <1>4, <1>5, <1>6

\* All kinds of steps keep the order, the end of a shrinker included.
LEMMA OrderedKept ==
    ASSUME RunTypes, Control, Ordered, Kinds
    PROVE  Ordered'
  <1>1. CASE MemorySame
    BY <1>1, OrderedSame DEF MemorySame
  <1>2. CASE Begins
    <2>1. /\ \A o \in Origins : last_saved'[o] = None /\ interesting'[o] = None /\ owed'[o] = None
          /\ executing'.verdict \notin Origins /\ nondeterministic' = FALSE /\ target' = NoTarget
      BY <1>2, PersisterOK DEF Begins, NoFailures, NoCase
    <2> QED
      BY <2>1 DEF Ordered, OrderedFor, Interesting
  <1>3. CASE Records
    BY <1>3, OrderedRecord
  <1>4. CASE Shrunk
    <2> SUFFICES ASSUME flaky = FALSE, NEW o \in Origins PROVE OrderedFor(o)'
      BY <1>4 DEF Ordered, Shrunk, Interesting
    <2>1. /\ executing = NoCase /\ phase = "shrink" /\ target # NoTarget
          /\ UNCHANGED <<test, last_saved>> /\ test \in Versions
      BY <1>4 DEF Shrunk, Ready, RunTypes
    <2>2. OrderedFor(o) /\ OrderedTarget
      BY <2>1 DEF Ordered
    <2>3. target.origin \in Origins /\ executing.verdict # target.origin
      BY <2>1, NothingExecuting DEF Control
    <2>4. last_saved[target.origin] <= target.case /\ target.case \in DOMAIN test
          /\ target.case \in Cases /\ target.case # None
      BY <2>1, <2>2, <2>3, VersionTyped DEF OrderedTarget
    <2>5. CASE target.origin = o
      <3>1. interesting'[o] = target.case /\ owed'[o] = IF owed[o] = None THEN None ELSE target.case
        BY <1>4, <2>3, <2>5 DEF Shrunk, RunTypes
      <3>2. interesting[o] # None
        BY <2>1, <2>5 DEF Control
      <3>3. target.case <= target.case
        BY <2>4, CasesOrdered
      <3> QED
        BY <2>1, <2>2, <2>4, <2>5, <3>1, <3>2, <3>3 DEF OrderedFor, OrderedTarget
    <2>6. CASE target.origin # o
      <3>1. interesting'[o] = interesting[o] /\ owed'[o] = owed[o]
        BY <1>4, <2>3, <2>6 DEF Shrunk, RunTypes
      <3> QED
        BY <2>1, <2>2, <3>1 DEF OrderedFor
    <2> QED
      BY <2>5, <2>6
  <1>5. CASE Killed
    <2>1. executing'.verdict \notin Origins /\ nondeterministic' = FALSE /\ phase' = "off"
      BY <1>5, PersisterOK DEF Killed, NoCase
    <2> QED
      BY <2>1 DEF Ordered, Interesting
  <1>6. CASE PassesOn
    <2>1. phase # "off" /\ target' = NoTarget
      BY <1>6 DEF PassesOn, Control
    <2> QED
      BY <1>6, <2>1, OrderedSame DEF PassesOn, Settled
  <1>7. ASSUME NEW run, NEW abort, NEW after, Executes(run, abort, after) PROVE Ordered'
    BY <1>7, OrderedExecute
  <1>8. ASSUME NEW ops, Removes(ops) PROVE Ordered'
    BY <1>8, OrderedSame DEF Removes, Settled
  <1>9. ASSUME NEW next, NEW work, Enters(next, work) PROVE Ordered'
    BY <1>9, OrderedSame DEF Enters, Settled
  <1>10. ASSUME NEW entry, NEW ops, WorksOn(entry, ops) PROVE Ordered'
    BY <1>10, OrderedSame DEF WorksOn, Settled
  <1> QED
    BY <1>1, <1>2, <1>3, <1>4, <1>5, <1>6, <1>7, <1>8, <1>9, <1>10 DEF Kinds

-----------------------------------------------------------------------------
(* While reconcile_database saves and displaces.                                  *)

\* The parts of Saving, over a step that leaves the memory of the run alone.
LEMMA SavingAfter ==
    ASSUME UNCHANGED <<interesting, last_saved, preexisting, saved_this_run>>,
           \A o \in Failures(interesting) : SavingFor(o)',
           NEW N, NEW K, NEW X, N = {c \in Cases : NewLeft(c)'}, K = OldsLeft', X = Incumbents(interesting),
           N \subseteq X, K \cap X = {}, K \subseteq preexisting \cup saved_this_run,
           \A v \in Stored(Primary)' :
              v \in X \cup K \/ \E i \in 1 .. Len(Work') : Drops(Work'[i], Primary, v),
           \A i \in 1 .. Len(Work') : \A v \in Values : Adds(Work'[i], Primary, v) => v \in X \cup K
    PROVE  Saving'
  <1>1. /\ Failures(interesting)' = Failures(interesting)
        /\ Incumbents(interesting)' = X
    BY DEF Failures, Incumbents
  <1>2. RestWithin(Primary, Incumbents(interesting) \cup OldsLeft)'
    BY <1>1 DEF RestWithin, Adds, Drops, MoveOps, WriteOps
  <1>3. \A c \in Cases : NewLeft(c)' => c \in X
    OBVIOUS
  <1> QED
    BY <1>1, <1>2, <1>3 DEF Saving

\* The final failures and their cases.
LEMMA IncumbentTyped ==
    ASSUME RunTypes
    PROVE  /\ Incumbents(interesting) \subseteq Cases
           /\ \A o \in Failures(interesting) :
                 o \in Origins /\ interesting[o] \in Cases /\ interesting[o] \in Incumbents(interesting)
           /\ \A c \in Incumbents(interesting) : \E o \in Failures(interesting) : c = interesting[o]
           /\ \A c \in Incumbents(interesting) : c \in Values /\ c \in Entries
  BY KeysApart DEF RunTypes, Failures, Incumbents, MaybeCases

\* A file operation in the middle of a save or a displacement.
LEMMA SavingDatabase ==
    ASSUME Directory, RunTypes, Saving, MemorySame, DbStep(Engine), phase = "save"
    PROVE  Saving'
  <1>1. PICK c \in Ops, n \in Nat : Moves(c, n)
    BY StepMoves
  <1>2. UNCHANGED <<interesting, last_saved, preexisting, saved_this_run, left>>
    BY DEF MemorySame
  <1>3. PICK X : X = Incumbents(interesting)
    OBVIOUS
  <1>4. PICK K : K = OldsLeft
    OBVIOUS
  <1>5. PICK N : N = {d \in Cases : NewLeft(d)}
    OBVIOUS
  <1>6. OldsLeft' = K /\ N = {d \in Cases : NewLeft(d)'} /\ \A d : NewLeft(d)' <=> NewLeft(d)
    BY <1>2, <1>4, <1>5 DEF OldsLeft, NewLeft
  <1>7. N \subseteq X /\ K \cap X = {} /\ K \subseteq preexisting \cup saved_this_run
        /\ RestWithin(Primary, X \cup K)
    BY <1>3, <1>4, <1>5 DEF Saving
  <1>8. /\ \A v \in Stored(Primary)' :
              v \in X \cup K \/ \E i \in 1 .. Len(Work') : Drops(Work'[i], Primary, v)
        /\ \A i \in 1 .. Len(Work') : \A v \in Values : Adds(Work'[i], Primary, v) => v \in X \cup K
    BY <1>1, <1>7, WithinStays, KeysApart
  <1>9. ASSUME NEW o \in Failures(interesting) PROVE SavingFor(o)'
    <2>1. o \in Origins /\ SavingFor(o)
      BY <1>9, IncumbentTyped DEF Saving
    <2>2. PICK prev \in Values \cup {None} : prev = last_saved[o] /\ (prev # None => prev \in Values)
      BY <2>1, LastSaveTyped
    <2>3. PICK v \in Values : v = interesting[o]
      BY IncumbentTyped
    <2>4. CASE NewLeft(v)
      <3>1. prev # None /\ Kept(prev)
        BY <2>1, <2>2, <2>3, <2>4 DEF SavingFor
      <3>2. Kept(prev)'
        BY <1>1, <2>2, <3>1, KeptStays
      <3>3. Kept(last_saved[o])'
        BY <1>2, <2>2, <3>2 DEF Kept
      <3>4. NewLeft(interesting[o])' /\ (last_saved[o] # None)'
        BY <1>2, <2>2, <2>3, <2>4, <3>1 DEF NewLeft
      <3> QED
        BY <3>3, <3>4 DEF SavingFor
    <2>5. CASE ~NewLeft(v)
      <3>1. Covered(prev, v)
        BY <2>1, <2>2, <2>3, <2>5 DEF SavingFor
      <3>2. Covered(prev, v)'
        BY <1>1, <2>2, <3>1, CoveredStays
      <3>3. Covered(last_saved[o], interesting[o])'
        BY <1>2, <2>2, <2>3, <3>2 DEF Covered, Kept, Coming
      <3>4. ~NewLeft(interesting[o])'
        BY <1>2, <2>3, <2>5 DEF NewLeft
      <3> QED
        BY <3>3, <3>4 DEF SavingFor
    <2> QED
      BY <2>4, <2>5
  <1> QED
    BY <1>2, <1>3, <1>6, <1>7, <1>8, <1>9, SavingAfter

\* What reconcile_database reads: the last saves are there, the rest is accounted for.
LEMMA SavingEnters ==
    ASSUME Directory, RunTypes, Control, Saved, Accountable, NEW work, Enters("save", work)
    PROVE  Saving'
  <1>1. /\ executing = NoCase /\ Work = <<>> /\ phase = "reconcile" /\ nondeterministic = FALSE
        /\ UNCHANGED <<failing, dirs, files, todo>> /\ left' = work
        /\ UNCHANGED <<interesting, last_saved, preexisting, saved_this_run>>
        /\ work = {<<"new", c>> : c \in Incumbents(interesting)} \cup
                  {<<"old", raw>> : raw \in Fetch(Primary) \ Incumbents(interesting)}
    BY DEF Enters, Ready, Work, Settled, RunTypes
  <1>2. PICK X : X = Incumbents(interesting)
    OBVIOUS
  <1>3. PICK K : K = Fetch(Primary) \ X
    OBVIOUS
  <1>4. Fetch(Primary) \subseteq Entries /\ Stored(Primary) \subseteq Fetch(Primary) /\ X \subseteq Cases
    BY <1>2, StoredFetched, KeysApart, IncumbentTyped
  <1>5. /\ \A c : <<"new", c>> \in work <=> c \in X
        /\ \A raw : <<"old", raw>> \in work <=> raw \in K
    BY <1>1, <1>2, <1>3
  <1>6. OldsLeft' = K
    BY <1>1, <1>3, <1>4, <1>5 DEF OldsLeft
  <1>7. PICK N : N = {c \in Cases : NewLeft(c)'}
    OBVIOUS
  <1>8. K \subseteq preexisting \cup saved_this_run
    <2>1. ~Interesting(executing) /\ \A f : ~Writes(f)
      BY <1>1, NothingExecuting, IdleWork
    <2>2. \A f \in files : f.key = Primary => f.contents \in preexisting \cup saved_this_run
      BY <1>1, <2>1 DEF Accountable, Early, InFlight
    <2> QED
      BY <1>3, <2>2 DEF Fetch
  <1>9. Work' = <<>> /\ Stored(Primary)' = Stored(Primary)
    BY <1>1, SameWork
  <1>10. ASSUME NEW o \in Failures(interesting) PROVE SavingFor(o)'
    <2>1. SavedFor(o) /\ o \in Origins /\ interesting[o] # None /\ interesting[o] \in X /\ ~Supersedes(o)
      BY <1>1, <1>2, IncumbentTyped, NothingExecuting DEF Saved, Early, Failures
    <2>2. last_saved[o] # None /\ Kept(last_saved[o])
      BY <2>1 DEF SavedFor
    <2>3. Kept(last_saved[o])'
      BY <1>1, <2>2, SameWork DEF Kept
    <2>4. NewLeft(interesting[o])'
      BY <1>1, <1>5, <2>1 DEF NewLeft
    <2> QED
      BY <1>1, <2>2, <2>3, <2>4 DEF SavingFor
  <1>11. \A v \in Stored(Primary)' : v \in X \cup K
    BY <1>3, <1>4, <1>9
  <1>12. \A i \in 1 .. Len(Work') : FALSE
    BY <1>9
  <1>13. N \subseteq X /\ K \cap X = {}
    BY <1>1, <1>3, <1>5, <1>7 DEF NewLeft
  <1> QED
    BY <1>1, <1>2, <1>6, <1>7, <1>8, <1>10, <1>11, <1>12, <1>13, SavingAfter

\* It saves a final failure.
LEMMA SavingNew ==
    ASSUME Directory, RunTypes, Saving, phase = "save", NEW c \in Cases, NEW ops,
           Calls(ops), Perform(ops), ops = <<Save(Primary, c)>>, Given(ops, Primary) = {c},
           Taken(ops, Primary) = {}, Work = <<>>, Settled,
           <<"new", c>> \in left, left' = left \ {<<"new", c>>}
    PROVE  Saving'
  <1>1. /\ UNCHANGED <<interesting, last_saved, preexisting, saved_this_run>>
        /\ UNCHANGED <<failing, dirs, files>>
    BY DEF Settled
  <1>2. PICK X : X = Incumbents(interesting)
    OBVIOUS
  <1>3. PICK K : K = OldsLeft
    OBVIOUS
  <1>4. PICK N : N = {d \in Cases : NewLeft(d)'}
    OBVIOUS
  <1>5. OldsLeft' = K
    BY <1>3 DEF OldsLeft
  <1>6. \A d : NewLeft(d)' <=> NewLeft(d) /\ d # c
    BY DEF NewLeft
  <1>7. N \subseteq X /\ c \in X /\ K \cap X = {} /\ K \subseteq preexisting \cup saved_this_run
        /\ Stored(Primary) \subseteq X \cup K
    <2>1. NewLeft(c)
      BY DEF NewLeft
    <2>2. RestWithin(Primary, X \cup K)
      BY <1>2, <1>3 DEF Saving
    <2> QED
      BY <1>2, <1>3, <1>4, <1>6, <2>1, <2>2, IdleWork DEF Saving
  <1>8. /\ Work' = ops /\ Stored(Primary)' = Stored(Primary)
        /\ \A v \in Values : v \in Stored(Primary) => Kept(v)'
        /\ \A i \in 1 .. Len(Work') : \A v \in Values : Adds(Work'[i], Primary, v) => v = c
    BY <1>1, Performed
  <1>9. ASSUME NEW o \in Failures(interesting) PROVE SavingFor(o)'
    <2>1. o \in Origins /\ SavingFor(o) /\ interesting[o] \in Values
      BY <1>9, IncumbentTyped DEF Saving
    <2>2. last_saved[o] # None => last_saved[o] \in Values
      BY <2>1, LastSaveTyped
    <2>3. CASE interesting[o] = c
      <3>1. last_saved[o] # None /\ last_saved[o] \in Stored(Primary)
        BY <2>1, <2>3 DEF SavingFor, NewLeft, Kept
      <3>2. Len(ops) # 0 /\ ops[1] = Save(Primary, c)
        BY DEF Calls
      <3>3. PICK prev : prev = last_saved[o]
        OBVIOUS
      <3>4. Coming(prev, c)'
        BY <1>1, <3>1, <3>2, <3>3, ComingAfter
      <3>5. Covered(last_saved[o], interesting[o])'
        BY <1>1, <2>3, <3>3, <3>4 DEF Covered, Coming
      <3>6. ~NewLeft(interesting[o])'
        BY <1>1, <2>3 DEF NewLeft
      <3> QED
        BY <3>5, <3>6 DEF SavingFor
    <2>4. CASE interesting[o] # c /\ NewLeft(interesting[o])
      <3>1. last_saved[o] # None /\ last_saved[o] \in Stored(Primary)
        BY <2>1, <2>4 DEF SavingFor, Kept
      <3>2. Kept(last_saved[o])'
        BY <1>1, <1>8, <2>2, <3>1 DEF Kept
      <3>3. NewLeft(interesting[o])'
        BY <1>1, <2>4 DEF NewLeft
      <3> QED
        BY <1>1, <3>1, <3>2, <3>3 DEF SavingFor
    <2>5. CASE interesting[o] # c /\ ~NewLeft(interesting[o])
      <3>1. interesting[o] \in Stored(Primary)
        BY <2>1, <2>5, IdleWork DEF SavingFor
      <3>2. Kept(interesting[o])'
        BY <1>1, <1>8, <2>1, <3>1 DEF Kept
      <3>3. ~NewLeft(interesting[o])'
        BY <1>1, <2>5 DEF NewLeft
      <3> QED
        BY <3>2, <3>3 DEF SavingFor, Covered
    <2> QED
      BY <2>3, <2>4, <2>5
  <1>10. \A i \in 1 .. Len(Work') : \A v \in Values : Adds(Work'[i], Primary, v) => v \in X \cup K
    BY <1>7, <1>8
  <1>11. \A v \in Stored(Primary)' : v \in X \cup K
    BY <1>7, <1>8
  <1> QED
    BY <1>1, <1>2, <1>4, <1>5, <1>7, <1>9, <1>10, <1>11, SavingAfter

\* It displaces an entry, once every final failure is saved.
LEMMA SavingOld ==
    ASSUME Directory, RunTypes, Saving, phase = "save", NEW raw \in Entries, NEW ops,
           Calls(ops), Perform(ops), Given(ops, Primary) = {}, Taken(ops, Primary) = {raw},
           Len(ops) = 1, Drops(ops[1], Primary, raw), Work = <<>>, Settled,
           \A c \in Cases : ~NewLeft(c), <<"old", raw>> \in left, left' = left \ {<<"old", raw>>}
    PROVE  Saving'
  <1>1. /\ UNCHANGED <<interesting, last_saved, preexisting, saved_this_run>>
        /\ UNCHANGED <<failing, dirs, files>>
    BY DEF Settled
  <1>2. PICK X : X = Incumbents(interesting)
    OBVIOUS
  <1>3. PICK K : K = OldsLeft'
    OBVIOUS
  <1>4. PICK N : N = {d \in Cases : NewLeft(d)'}
    OBVIOUS
  <1>5. OldsLeft = K \cup {raw}
    BY <1>3 DEF OldsLeft
  <1>6. N = {}
    BY <1>4 DEF NewLeft
  <1>7. /\ raw \notin X /\ K \cap X = {} /\ K \subseteq preexisting \cup saved_this_run
        /\ Stored(Primary) \subseteq X \cup K \cup {raw}
    <2>2. RestWithin(Primary, X \cup OldsLeft)
      BY <1>2 DEF Saving
    <2> QED
      BY <1>2, <1>5, <2>2, IdleWork DEF Saving
  <1>8. /\ Work' = ops /\ Stored(Primary)' = Stored(Primary)
        /\ \A v \in Values : v \in Stored(Primary) /\ v # raw => Kept(v)'
        /\ \A i \in 1 .. Len(Work') : \A v \in Values : ~Adds(Work'[i], Primary, v)
    BY <1>1, Performed
  <1>9. ASSUME NEW o \in Failures(interesting) PROVE SavingFor(o)'
    <2>1. SavingFor(o) /\ interesting[o] \in Values /\ interesting[o] \in X /\ interesting[o] \in Cases
      BY <1>2, <1>9, IncumbentTyped DEF Saving
    <2>2. interesting[o] \in Stored(Primary)
      BY <2>1, IdleWork DEF SavingFor
    <2>3. Kept(interesting[o])'
      BY <1>1, <1>7, <1>8, <2>1, <2>2 DEF Kept
    <2>4. ~NewLeft(interesting[o])'
      BY <1>1, <2>1 DEF NewLeft
    <2> QED
      BY <2>3, <2>4 DEF SavingFor, Covered
  <1>10. ASSUME NEW v \in Stored(Primary)'
         PROVE  v \in X \cup K \/ \E i \in 1 .. Len(Work') : Drops(Work'[i], Primary, v)
    <2>1. 1 \in 1 .. Len(Work') /\ Drops(Work'[1], Primary, raw)
      BY <1>8
    <2> QED
      BY <1>7, <1>8, <2>1
  <1> QED
    BY <1>1, <1>2, <1>3, <1>4, <1>6, <1>7, <1>8, <1>9, <1>10, SavingAfter

\* All kinds of steps keep it so.
LEMMA SavingKept ==
    ASSUME Directory, RunTypes, Control, Saved, Saving, Accountable, Kinds
    PROVE  Saving'
  <1> SUFFICES ASSUME phase' = "save" PROVE Saving'
    BY DEF Saving
  <1>1. CASE MemorySame /\ DiskSame
    <2>1. /\ \A v : Kept(v)' <=> Kept(v)
          /\ \A prev, v : Covered(prev, v)' <=> Covered(prev, v)
          /\ Work' = Work /\ Stored(Primary)' = Stored(Primary)
      BY <1>1, SameWork DEF DiskSame
    <2>2. /\ UNCHANGED <<interesting, last_saved, preexisting, saved_this_run, left>>
          /\ phase = "save"
      BY <1>1 DEF MemorySame
    <2>3. ASSUME NEW o \in Failures(interesting) PROVE SavingFor(o)'
      <3>1. SavingFor(o)
        BY <2>2 DEF Saving
      <3>2. /\ Kept(last_saved[o]) => Kept(last_saved[o])'
            /\ Covered(last_saved[o], interesting[o]) => Covered(last_saved[o], interesting[o])'
        BY <2>1, <2>2 DEF Covered, Kept, Coming
      <3>3. NewLeft(interesting[o])' <=> NewLeft(interesting[o])
        BY <2>2 DEF NewLeft
      <3> QED
        BY <2>2, <3>1, <3>2, <3>3 DEF SavingFor
    <2>4. RestWithin(Primary, Incumbents(interesting) \cup OldsLeft)'
      <3>1. (Incumbents(interesting) \cup OldsLeft)' = Incumbents(interesting) \cup OldsLeft
        BY <2>2 DEF Incumbents, Failures, OldsLeft
      <3>2. RestWithin(Primary, Incumbents(interesting) \cup OldsLeft)
        BY <2>2 DEF Saving
      <3> QED
        BY <2>1, <3>1, <3>2 DEF RestWithin, Adds, Drops, MoveOps, WriteOps
    <2>5. /\ Failures(interesting)' = Failures(interesting)
          /\ Incumbents(interesting)' = Incumbents(interesting)
          /\ OldsLeft' = OldsLeft /\ \A c : NewLeft(c)' <=> NewLeft(c)
      BY <2>2 DEF Incumbents, Failures, OldsLeft, NewLeft
    <2> QED
      BY <2>2, <2>3, <2>4, <2>5 DEF Saving
  <1>2. CASE MemorySame /\ DbStep(Engine)
    BY <1>2, SavingDatabase DEF MemorySame
  <1>3. ASSUME NEW next, NEW work, Enters(next, work) PROVE Saving'
    <2>1. next = "save"
      BY <1>3 DEF Enters
    <2> QED
      BY <1>3, <2>1, SavingEnters
  <1>4. ASSUME NEW entry, NEW ops, WorksOn(entry, ops) PROVE Saving'
    <2>1. /\ phase = "save" /\ Work = <<>> /\ Settled /\ entry \in left /\ left' = left \ {entry}
      BY <1>4 DEF WorksOn, Ready, Work
    <2>2. Calls(ops) /\ Perform(ops)
      BY <1>4, ReconcileWork
    <2>3. CASE \E c \in Cases : /\ entry = <<"new", c>> /\ ops = <<Save(Primary, c)>>
                                /\ Given(ops, Primary) = {c} /\ Taken(ops, Primary) = {}
      BY <2>1, <2>2, <2>3, SavingNew
    <2>4. CASE /\ \A c \in Cases : ~NewLeft(c)
               /\ \E raw \in Entries :
                       /\ entry = <<"old", raw>> /\ Given(ops, Primary) = {}
                       /\ Taken(ops, Primary) = {raw} /\ Len(ops) = 1 /\ Drops(ops[1], Primary, raw)
      BY <2>1, <2>2, <2>4, SavingOld
    <2> QED
      BY <1>4, <2>1, <2>3, <2>4, ReconcileWork
  <1>5. CASE Begins \/ Shrunk \/ Killed \/ PassesOn
    BY <1>5 DEF Begins, Shrunk, Killed, PassesOn
  <1>6. CASE Records
    <2>1. phase \in Executing
      BY <1>6 DEF Records, Control
    <2> QED
      BY <1>6, <2>1 DEF Records, Executing
  <1>7. ASSUME NEW run, NEW abort, NEW after, Executes(run, abort, after) PROVE Saving'
    BY <1>7 DEF Executes
  <1>8. ASSUME NEW ops, Removes(ops) PROVE Saving'
    BY <1>8 DEF Removes
  <1> QED
    BY <1>1, <1>2, <1>3, <1>4, <1>5, <1>6, <1>7, <1>8 DEF Kinds
-----------------------------------------------------------------------------
(* While it evicts, and when it is done.                                          *)

\* The bytes of a key are finite in number and differ in rank.
LEMMA FetchFinite ==
    ASSUME Directory, NEW k
    PROVE  IsFiniteSet(Fetch(k))
  <1>1. IsFiniteSet(files)
    BY DEF Directory, WriteInv, FilesSound
  <1>2. PICK F : F = {g \in files : g.key = k}
    OBVIOUS
  <1>3. IsFiniteSet(F)
    BY <1>1, <1>2, FS_Subset
  <1>4. PICK T : T = {f.contents : f \in F}
    OBVIOUS
  <1>5. PICK h : h = [f \in F |-> f.contents]
    OBVIOUS
  <1>6. h \in Surjection(F, T)
    BY <1>4, <1>5 DEF Surjection
  <1>7. IsFiniteSet(T)
    BY <1>3, <1>6, FS_Surjection
  <1> QED
    BY <1>2, <1>4, <1>7 DEF Fetch

\* Distinct bytes have distinct places in shortlex, cut-short ones the first.
LEMMA RanksDiffer ==
    /\ \A x \in Entries : Rank(x) \in Nat
    /\ \A x, y \in Entries : Rank(x) = Rank(y) => x = y
  BY PersisterOK DEF Rank

\* What is not in excess is within the cap (SECONDARY_CORPUS_CAP).
LEMMA SmallCorpus ==
    ASSUME Directory
    PROVE  /\ Small(Fetch(Secondary) \ Excess) /\ Fetch(Secondary) \ Excess \subseteq Entries
           /\ Excess \subseteq Entries
  <1>1. PICK S : S = Fetch(Secondary)
    OBVIOUS
  <1>2. IsFiniteSet(S) /\ S \subseteq Entries
    BY <1>1, FetchFinite, StoredFetched, KeysApart
  <1>3. PICK size : size = [x \in S |-> Cardinality({y \in S : Rank(y) < Rank(x)})]
    OBVIOUS
  <1>4. ASSUME NEW x \in S
        PROVE  size[x] \in Nat /\ size[x] = Cardinality({y \in S : Rank(y) < Rank(x)})
               /\ IsFiniteSet({y \in S : Rank(y) < Rank(x)})
    <2>1. IsFiniteSet({y \in S : Rank(y) < Rank(x)})
      BY <1>2, FS_Subset
    <2> QED
      BY <1>3, <2>1, FS_CardinalityType
  <1>5. ASSUME NEW x \in S, NEW y \in S, Rank(x) < Rank(y) PROVE size[x] # size[y]
    <2>1. PICK A : A = {z \in S : Rank(z) < Rank(x)}
      OBVIOUS
    <2>2. PICK B : B = {z \in S : Rank(z) < Rank(y)}
      OBVIOUS
    <2>3. A \subseteq B /\ x \in B /\ x \notin A
      BY <1>2, <1>5, <2>1, <2>2, RanksDiffer
    <2>4. IsFiniteSet(B)
      BY <1>4, <2>2
    <2>5. A \in SUBSET B /\ A # B
      BY <2>3
    <2>6. Cardinality(B) # Cardinality(A)
      BY <2>4, <2>5, FS_Subset
    <2> QED
      BY <1>4, <2>1, <2>2, <2>6
  <1>6. ASSUME NEW x \in S, NEW y \in S, size[x] = size[y] PROVE x = y
    <2>1. Rank(x) \in Nat /\ Rank(y) \in Nat /\ (Rank(x) = Rank(y) => x = y)
      BY <1>2, RanksDiffer
    <2> QED
      BY <1>5, <1>6, <2>1
  <1>7. PICK K : K = S \ Excess
    OBVIOUS
  <1>8. Cap \in Nat /\ \A x \in K : x \in S /\ size[x] \in 0 .. Cap - 1
    <2>1. \A x \in S : x \in Excess <=> size[x] >= Cap
      BY <1>1, <1>3 DEF Excess
    <2>2. Cap \in Nat
      BY PersisterOK
    <2>3. ASSUME NEW x \in K PROVE x \in S /\ size[x] \in 0 .. Cap - 1
      <3>1. x \in S /\ ~(size[x] >= Cap)
        BY <1>7, <2>1
      <3>2. size[x] \in Nat
        BY <1>4, <3>1
      <3> QED
        BY <2>2, <3>1, <3>2
    <2> QED
      BY <2>2, <2>3
  <1>9. PICK h : h = [x \in K |-> size[x]]
    OBVIOUS
  <1>10. h \in Injection(K, 0 .. Cap - 1)
    <2>1. h \in [K -> 0 .. Cap - 1]
      BY <1>8, <1>9
    <2>2. \A a, b \in K : h[a] = h[b] => a = b
      BY <1>6, <1>8, <1>9
    <2> QED
      BY <1>9, <2>1, <2>2 DEF Injection, IsInjective
  <1>11. IsFiniteSet(0 .. Cap - 1) /\ Cardinality(0 .. Cap - 1) = Cap
    <2>1. 0 \in Int /\ Cap - 1 \in Int
      BY <1>8
    <2>2. IsFiniteSet(0 .. Cap - 1) /\ Cardinality(0 .. Cap - 1) = IF 0 > Cap - 1 THEN 0 ELSE Cap - 1 - 0 + 1
      BY <2>1, FS_Interval
    <2> QED
      BY <1>8, <2>2
  <1>12. IsFiniteSet(K) /\ Cardinality(K) <= Cap
    BY <1>10, <1>11, FS_Injection
  <1> QED
    BY <1>1, <1>2, <1>7, <1>12 DEF Small, Excess

\* A file operation in the middle of an eviction spares the primary key.
LEMMA EvictingDatabase ==
    ASSUME Directory, Evicting, MemorySame, DbStep(Engine)
    PROVE  Evicting'
  <1> SUFFICES ASSUME phase \in {"evict", "done"}, nondeterministic = FALSE PROVE Evicting'
    BY DEF Evicting, MemorySame
  <1>1. PICK c \in Ops, n \in Nat : Moves(c, n)
    BY StepMoves
  <1>2. UNCHANGED <<phase, nondeterministic, interesting, left>>
    BY DEF MemorySame
  <1>3. /\ phase = "done" => left = {}
        /\ Stored(Primary) = Incumbents(interesting)
        /\ \A i \in 1 .. Len(Work) : Spared(i)
        /\ \E K \in SUBSET Entries : Small(K) /\ RestWithin(Secondary, K \cup left)
    BY DEF Evicting
  <1>4. Primary \in Keys /\ Secondary \in Keys
    BY KeysApart
  <1>5. Stored(Primary)' = Stored(Primary)
    <2>1. Len(Work) \in Nat \ {0} /\ c = Work[1]
      BY <1>1 DEF Moves
    <2>2. \A v \in Values : ~Adds(c, Primary, v) /\ ~Drops(c, Primary, v)
      BY <1>3, <2>1 DEF Spared
    <2>3. ASSUME NEW v \in Values PROVE v \in Stored(Primary)' <=> v \in Stored(Primary)
      BY <1>1, <1>4, <2>2 DEF Moves
    <2> QED
      BY <2>3 DEF Stored, Values
  <1>6. ASSUME NEW i \in 1 .. Len(Work') PROVE Spared(i)'
    <2>1. ASSUME NEW v \in Values PROVE ~Adds(Work'[i], Primary, v) /\ ~Drops(Work'[i], Primary, v)
      BY <1>1, <1>3, <1>4, NothingNew DEF Spared
    <2> QED
      BY <2>1 DEF Spared, Adds, Drops, Values, MoveOps, WriteOps
  <1>7. PICK K \in SUBSET Entries : Small(K) /\ RestWithin(Secondary, K \cup left)
    BY <1>3
  <1>8. PICK X : X = K \cup left
    OBVIOUS
  <1>9. /\ \A v \in Stored(Secondary)' : v \in X \/ \E j \in 1 .. Len(Work') : Drops(Work'[j], Secondary, v)
        /\ \A j \in 1 .. Len(Work') : \A v \in Values : Adds(Work'[j], Secondary, v) => v \in X
    BY <1>1, <1>4, <1>7, <1>8, WithinStays
  <1>10. RestWithin(Secondary, K \cup left)'
    BY <1>2, <1>8, <1>9 DEF RestWithin, Adds, Drops, MoveOps, WriteOps
  <1>11. Incumbents(interesting)' = Incumbents(interesting)
    BY <1>2 DEF Incumbents, Failures
  <1>12. \E L \in SUBSET Entries : Small(L) /\ RestWithin(Secondary, L \cup left)'
    BY <1>7, <1>10
  <1> QED
    BY <1>2, <1>3, <1>5, <1>6, <1>11, <1>12 DEF Evicting

\* Reading the secondary corpus once all is displaced.
LEMMA EvictingEnters ==
    ASSUME Directory, RunTypes, Saving, NEW work, phase = "save", left = {}, work = Excess,
           Enters("evict", work)
    PROVE  Evicting'
  <1>1. /\ Work = <<>> /\ phase' = "evict" /\ UNCHANGED <<failing, dirs, files, todo, interesting>>
        /\ left' = Excess
    BY DEF Enters, Ready, Work, Settled
  <1>2. Stored(Primary) = Incumbents(interesting)
    <2>1. OldsLeft = {} /\ \A c : ~NewLeft(c)
      BY DEF OldsLeft, NewLeft
    <2>2. Stored(Primary) \subseteq Incumbents(interesting)
      <3>1. RestWithin(Primary, Incumbents(interesting) \cup OldsLeft)
        BY DEF Saving
      <3>2. Stored(Primary) \subseteq Incumbents(interesting) \cup OldsLeft
        BY <1>1, <3>1, IdleWork
      <3> QED
        BY <2>1, <3>2
    <2>3. ASSUME NEW c \in Incumbents(interesting) PROVE c \in Stored(Primary)
      <3>1. PICK o \in Failures(interesting) : c = interesting[o]
        BY IncumbentTyped
      <3>2. Covered(last_saved[o], interesting[o])
        BY <2>1 DEF Saving, SavingFor
      <3> QED
        BY <1>1, <3>1, <3>2, IdleWork
    <2> QED
      BY <2>2, <2>3
  <1>3. Work' = <<>> /\ \A k : Stored(k)' = Stored(k)
    BY <1>1, SameWork
  <1>4. PICK K : K = Fetch(Secondary) \ Excess
    OBVIOUS
  <1>5. K \in SUBSET Entries /\ Small(K)
    BY <1>4, SmallCorpus
  <1>6. Stored(Secondary) \subseteq K \cup Excess
    BY <1>4, StoredFetched, KeysApart
  <1>7. RestWithin(Secondary, K \cup left)'
    BY <1>1, <1>3, <1>6 DEF RestWithin
  <1>8. Incumbents(interesting)' = Incumbents(interesting)
    BY <1>1 DEF Incumbents, Failures
  <1>9. \E L \in SUBSET Entries : Small(L) /\ RestWithin(Secondary, L \cup left)'
    BY <1>5, <1>7
  <1>10. \A i \in 1 .. Len(Work') : Spared(i)'
    BY <1>3
  <1> QED
    BY <1>1, <1>2, <1>3, <1>8, <1>9, <1>10 DEF Evicting

\* An entry of the secondary key goes.
LEMMA EvictingWork ==
    ASSUME Directory, Evicting, phase = "evict", NEW entry \in Entries, NEW ops, Calls(ops),
           Perform(ops), Given(ops, Primary) = {}, Given(ops, Secondary) = {},
           Taken(ops, Primary) = {}, Len(ops) = 1, Drops(ops[1], Secondary, entry),
           Work = <<>>, Settled, UNCHANGED <<phase, nondeterministic>>, left' = left \ {entry},
           nondeterministic = FALSE
    PROVE  Evicting'
  <1>1. UNCHANGED <<failing, dirs, files, interesting>>
    BY DEF Settled
  <1>2. /\ Work' = ops /\ \A k : Stored(k)' = Stored(k)
        /\ \A i \in 1 .. Len(Work') : \A v \in Values :
              /\ ~Adds(Work'[i], Primary, v) /\ ~Drops(Work'[i], Primary, v)
              /\ ~Adds(Work'[i], Secondary, v)
    BY <1>1, Performed
  <1>3. Stored(Primary) = Incumbents(interesting)
        /\ \E K \in SUBSET Entries : Small(K) /\ RestWithin(Secondary, K \cup left)
    BY DEF Evicting
  <1>4. PICK K \in SUBSET Entries : Small(K) /\ RestWithin(Secondary, K \cup left)
    BY <1>3
  <1>5. Stored(Secondary) \subseteq K \cup left
    BY <1>4, IdleWork
  <1>6. ASSUME NEW v \in Stored(Secondary)'
        PROVE  v \in K \cup left' \/ \E j \in 1 .. Len(Work') : Drops(Work'[j], Secondary, v)
    <2>1. 1 \in 1 .. Len(Work') /\ Drops(Work'[1], Secondary, entry)
      BY <1>2
    <2> QED
      BY <1>2, <1>5, <2>1
  <1>7. RestWithin(Secondary, K \cup left)'
    BY <1>2, <1>6 DEF RestWithin, Adds, Drops, MoveOps, WriteOps, Values
  <1>8. Incumbents(interesting)' = Incumbents(interesting)
    BY <1>1 DEF Incumbents, Failures
  <1>9. \E L \in SUBSET Entries : Small(L) /\ RestWithin(Secondary, L \cup left)'
    BY <1>4, <1>7
  <1>10. \A i \in 1 .. Len(Work') : Spared(i)'
    BY <1>2 DEF Spared, Adds, Drops, Values, MoveOps, WriteOps
  <1> QED
    BY <1>2, <1>3, <1>8, <1>9, <1>10 DEF Evicting

\* All kinds of steps keep it so.
LEMMA EvictingKept ==
    ASSUME Directory, RunTypes, Control, Saving, Evicting, Kinds
    PROVE  Evicting'
  <1> SUFFICES ASSUME phase' \in {"evict", "done"}, nondeterministic' = FALSE PROVE Evicting'
    BY DEF Evicting
  <1>1. CASE MemorySame /\ DiskSame
    <2>1. Work' = Work /\ \A k : Stored(k)' = Stored(k)
      BY <1>1, SameWork DEF DiskSame
    <2>2. UNCHANGED <<phase, nondeterministic, interesting, left>>
      BY <1>1 DEF MemorySame
    <2>3. /\ phase = "done" => left = {}
          /\ Stored(Primary) = Incumbents(interesting)
          /\ \A i \in 1 .. Len(Work) : Spared(i)
          /\ \E K \in SUBSET Entries : Small(K) /\ RestWithin(Secondary, K \cup left)
      BY <2>2 DEF Evicting
    <2>4. PICK K \in SUBSET Entries : Small(K) /\ RestWithin(Secondary, K \cup left)
      BY <2>3
    <2>5. RestWithin(Secondary, K \cup left)'
      BY <2>1, <2>2, <2>4 DEF RestWithin, Adds, Drops, MoveOps, WriteOps
    <2>6. \A i \in 1 .. Len(Work') : Spared(i)'
      BY <2>1, <2>3 DEF Spared, Adds, Drops, MoveOps, WriteOps, Values
    <2>7. \E L \in SUBSET Entries : Small(L) /\ RestWithin(Secondary, L \cup left)'
      BY <2>4, <2>5
    <2>8. Incumbents(interesting)' = Incumbents(interesting)
      BY <2>2 DEF Incumbents, Failures
    <2> QED
      BY <2>1, <2>2, <2>3, <2>6, <2>7, <2>8 DEF Evicting
  <1>2. CASE MemorySame /\ DbStep(Engine)
    BY <1>2, EvictingDatabase
  <1>3. ASSUME NEW next, NEW work, Enters(next, work) PROVE Evicting'
    <2>1. CASE phase = "save"
      <3>1. next = "evict" /\ left = {} /\ work = Excess
        BY <1>3, <2>1 DEF Enters
      <3> QED
        BY <1>3, <2>1, <3>1, EvictingEnters
    <2>2. CASE phase = "evict"
      <3>1. /\ UNCHANGED <<files, todo, interesting, nondeterministic>> /\ left = {} /\ left' = {}
            /\ nondeterministic = FALSE
        BY <1>3, <2>2 DEF Enters, Settled
      <3>2. Work' = Work /\ \A k : Stored(k)' = Stored(k)
        BY <3>1, SameWork
      <3>3. /\ Stored(Primary) = Incumbents(interesting)
            /\ \A i \in 1 .. Len(Work) : Spared(i)
            /\ \E K \in SUBSET Entries : Small(K) /\ RestWithin(Secondary, K \cup left)
        BY <2>2, <3>1 DEF Evicting
      <3>4. PICK K \in SUBSET Entries : Small(K) /\ RestWithin(Secondary, K \cup left)
        BY <3>3
      <3>5. RestWithin(Secondary, K \cup left)'
        BY <3>1, <3>2, <3>4 DEF RestWithin, Adds, Drops, MoveOps, WriteOps
      <3>6. \A i \in 1 .. Len(Work') : Spared(i)'
        BY <3>2, <3>3 DEF Spared, Adds, Drops, MoveOps, WriteOps, Values
      <3>7. \E L \in SUBSET Entries : Small(L) /\ RestWithin(Secondary, L \cup left)'
        BY <3>4, <3>5
      <3>8. Incumbents(interesting)' = Incumbents(interesting)
        BY <3>1 DEF Incumbents, Failures
      <3> QED
        BY <3>1, <3>2, <3>3, <3>6, <3>7, <3>8 DEF Evicting
    <2>3. CASE phase = "reconcile"
      BY <1>3, <2>3 DEF Enters, RunTypes
    <2> QED
      BY <1>3, <2>1, <2>2, <2>3 DEF Enters
  <1>4. ASSUME NEW entry, NEW ops, WorksOn(entry, ops) PROVE Evicting'
    <2>1. /\ phase = "evict" /\ Work = <<>> /\ Settled /\ entry \in left /\ left' = left \ {entry}
          /\ UNCHANGED <<phase, nondeterministic>> /\ nondeterministic = FALSE
      BY <1>4 DEF WorksOn, Ready, Work
    <2>2. /\ Calls(ops) /\ Perform(ops) /\ entry \in Entries
          /\ Given(ops, Primary) = {} /\ Given(ops, Secondary) = {} /\ Taken(ops, Primary) = {}
          /\ Len(ops) = 1 /\ Drops(ops[1], Secondary, entry)
      BY <1>4, <2>1, ReconcileWork
    <2> QED
      BY <2>1, <2>2, EvictingWork
  <1>5. CASE Begins \/ Shrunk \/ Killed \/ PassesOn
    BY <1>5 DEF Begins, Shrunk, Killed, PassesOn
  <1>6. CASE Records
    <2>1. phase \in Executing
      BY <1>6 DEF Records, Control
    <2> QED
      BY <1>6, <2>1 DEF Records, Executing
  <1>7. ASSUME NEW run, NEW abort, NEW after, Executes(run, abort, after) PROVE Evicting'
    BY <1>7 DEF Executes
  <1>8. ASSUME NEW ops, Removes(ops) PROVE Evicting'
    BY <1>8 DEF Removes
  <1> QED
    BY <1>1, <1>2, <1>3, <1>4, <1>5, <1>6, <1>7, <1>8 DEF Kinds
-----------------------------------------------------------------------------
(* Where every entry comes from.                                                  *)

\* A file operation: what it writes was announced by the stack.
LEMMA AccountableDatabase ==
    ASSUME Directory, Accountable, MemorySame, DbStep(Engine)
    PROVE  Accountable'
  <1>1. PICK c \in Ops, n \in Nat : Moves(c, n)
    BY StepMoves
  <1>2. UNCHANGED <<phase, executing, nondeterministic, last_saved, preexisting, saved_this_run, run_start>>
    BY DEF MemorySame
  <1>3. Primary \in Keys /\ Secondary \in Keys /\ preexisting \subseteq run_start
    BY KeysApart DEF Accountable
  <1>4. AddsWithin(Secondary, run_start)'
    <2>1. PICK X : X = run_start
      OBVIOUS
    <2>2. AddsWithin(Secondary, X)
      BY <2>1 DEF Accountable
    <2>3. /\ \A v \in Stored(Secondary)' : v \in X
          /\ \A j \in 1 .. Len(Work') : \A v \in Values : Adds(Work'[j], Secondary, v) => v \in X
      BY <1>1, <1>3, <2>2, WithinStays
    <2> QED
      BY <1>2, <2>1, <2>3 DEF AddsWithin, Adds, MoveOps, WriteOps, Values
  <1>5. ASSUME phase' \in Early \ {"aborted"}
        PROVE  /\ \A f \in files' : f.key = Primary =>
                     f.contents \in preexisting \cup saved_this_run \/ InFlight(f.contents) \/ Writes(f)'
               /\ \A i \in 1 .. Len(Work') : \A v \in Values : Adds(Work'[i], Primary, v) => InFlight(v)
    <2>1. /\ \A f \in files : f.key = Primary =>
                f.contents \in preexisting \cup saved_this_run \/ InFlight(f.contents) \/ Writes(f)
          /\ \A i \in 1 .. Len(Work) : \A v \in Values : Adds(Work[i], Primary, v) => InFlight(v)
      BY <1>2, <1>5 DEF Accountable
    <2>2. c = Current(Engine) /\ c = Work[1] /\ 1 \in 1 .. Len(Work) /\ c.op # "unlink" /\ c.value \in Values
      BY <1>1 DEF Moves, OpFits, Ops
    <2>3. ASSUME NEW f \in files', f.key = Primary
          PROVE  f.contents \in preexisting \cup saved_this_run \/ InFlight(f.contents) \/ Writes(f)'
      <3>1. CASE f \in files /\ ~Writes(f)
        BY <2>1, <2>3, <3>1
      <3>2. CASE Adds(c, f.key, f.contents)
        <4>1. f.contents \in Values
          BY <2>2, <3>2 DEF Adds
        <4> QED
          BY <2>1, <2>2, <2>3, <3>2, <4>1
      <3> QED
        BY <2>2, <3>1, <3>2, FileStep
    <2>4. ASSUME NEW i \in 1 .. Len(Work'), NEW v \in Values, Adds(Work'[i], Primary, v)
          PROVE  InFlight(v)
      BY <1>1, <1>3, <2>1, <2>4, NothingNew
    <2> QED
      BY <2>3, <2>4
  <1>6. \A v : InFlight(v)' <=> InFlight(v)
    BY <1>2 DEF InFlight, Interesting, Supersedes
  <1> QED
    BY <1>2, <1>3, <1>4, <1>5, <1>6 DEF Accountable, Adds, MoveOps, WriteOps, Values

\* Steps that leave the files alone while nothing is under way.
LEMMA AccountableIdle ==
    ASSUME RunTypes, Accountable, Work = <<>>, executing = NoCase,
           UNCHANGED <<files, preexisting, saved_this_run, run_start>>,
           phase' \in Early \ {"aborted"} => phase \in Early \ {"aborted"},
           \A i \in 1 .. Len(Work') : \A v \in Values :
              /\ Adds(Work'[i], Secondary, v) => v \in run_start
              /\ Adds(Work'[i], Primary, v) /\ phase' \in Early \ {"aborted"} => InFlight(v)'
    PROVE  Accountable'
  <1>1. Stored(Secondary)' = Stored(Secondary) /\ Stored(Secondary) \subseteq run_start
    BY SameFiles DEF Accountable, AddsWithin
  <1>2. AddsWithin(Secondary, run_start)'
    BY <1>1 DEF AddsWithin, Adds, MoveOps, WriteOps, Values
  <1>3. ASSUME phase' \in Early \ {"aborted"}, NEW f \in files', f.key = Primary
        PROVE  f.contents \in preexisting' \cup saved_this_run'
    <2>1. ~InFlight(f.contents) /\ ~Writes(f)
      BY NothingExecuting, IdleWork
    <2> QED
      BY <1>3, <2>1 DEF Accountable
  <1>4. preexisting \subseteq run_start
    BY DEF Accountable
  <1> QED
    BY <1>2, <1>3, <1>4 DEF Accountable, Adds, MoveOps, WriteOps, Values

\* An execution: what it will add to the primary key is its own case.
LEMMA AccountableExecute ==
    ASSUME Directory, RunTypes, Accountable, NEW run, NEW abort, NEW after, Executes(run, abort, after)
    PROVE  Accountable'
  <1>1. PICK ops : /\ Calls(ops) /\ Perform(ops) /\ UNCHANGED <<failing, dirs, files>>
                   /\ Given(ops, Primary) \subseteq (IF Replaces(run) THEN {run.case} ELSE {})
                   /\ Given(ops, Secondary) \subseteq preexisting
    BY ExecuteWork
  <1>2. /\ Work = <<>> /\ executing = NoCase
        /\ UNCHANGED <<preexisting, saved_this_run, run_start, phase, last_saved>>
        /\ executing' = [case |-> run.case, verdict |-> run.verdict, abort |-> abort]
        /\ nondeterministic' = (nondeterministic \/ run.verdict = Concurrent)
    BY DEF Executes, Execute, Ready, Work, Settled
  <1>3. preexisting \subseteq run_start
    BY DEF Accountable
  <1>4. \A i \in 1 .. Len(Work') : \A v \in Values :
           /\ Adds(Work'[i], Secondary, v) => v \in Given(ops, Secondary)
           /\ Adds(Work'[i], Primary, v) => v \in Given(ops, Primary)
    BY <1>1, Performed
  <1>5. ASSUME Replaces(run) PROVE InFlight(run.case)'
    <2>1. run.verdict # Concurrent
      BY <1>5, OutcomeTyped DEF Executes, RunTypes, Replaces
    <2>2. nondeterministic' = FALSE
      BY <1>2, <1>5, <2>1 DEF Replaces
    <2> QED
      BY <1>2, <1>5, <2>2 DEF Replaces, InFlight, Interesting, Supersedes
  <1>6. ASSUME NEW v \in Given(ops, Primary) PROVE InFlight(v)'
    <2>1. Replaces(run) /\ v = run.case
      BY <1>1, <1>6
    <2>2. v = executing'.case
      BY <1>2, <2>1
    <2> QED
      BY <1>5, <2>1, <2>2 DEF InFlight
  <1>7. \A i \in 1 .. Len(Work') : \A v \in Values :
              /\ Adds(Work'[i], Secondary, v) => v \in run_start
              /\ Adds(Work'[i], Primary, v) /\ phase' \in Early \ {"aborted"} => InFlight(v)'
    BY <1>1, <1>3, <1>4, <1>6
  <1> QED
    BY <1>1, <1>2, <1>7, AccountableIdle

\* A record completed: its case is among those this run saved.
LEMMA AccountableRecord ==
    ASSUME RunTypes, Control, Accountable, Records
    PROVE  Accountable'
  <1>1. /\ Work = <<>> /\ Work' = <<>> /\ UNCHANGED <<files, todo, preexisting, run_start>>
        /\ phase' \in {phase, "aborted"}
    BY DEF Records, DiskSame, Work
  <1>2. AddsWithin(Secondary, run_start)' /\ preexisting' \subseteq run_start'
    <2>1. Stored(Secondary)' = Stored(Secondary) /\ Stored(Secondary) \subseteq run_start
      BY <1>1, SameFiles DEF Accountable, AddsWithin
    <2> QED
      BY <1>1, <2>1 DEF Accountable, AddsWithin
  <1>3. ASSUME phase' \in Early \ {"aborted"}, NEW f \in files', f.key = Primary
        PROVE  f.contents \in preexisting' \cup saved_this_run'
    <2>1. f.contents \in preexisting \cup saved_this_run \/ InFlight(f.contents)
      BY <1>1, <1>3, IdleWork DEF Accountable
    <2>2. saved_this_run \subseteq saved_this_run'
      BY DEF Records
    <2>3. ASSUME InFlight(f.contents) PROVE f.contents \in saved_this_run'
      BY <2>3 DEF InFlight, Supersedes, Records, Better
    <2> QED
      BY <1>1, <2>1, <2>2, <2>3
  <1> QED
    BY <1>1, <1>2, <1>3 DEF Accountable

\* All kinds of steps keep the entries accounted for.
LEMMA AccountableKept ==
    ASSUME Directory, RunTypes, Control, Saving, Accountable, Kinds
    PROVE  Accountable'
  <1>1. CASE MemorySame /\ DiskSame
    <2>1. Work' = Work /\ Stored(Secondary)' = Stored(Secondary)
      BY <1>1, SameWork DEF DiskSame
    <2>2. UNCHANGED <<phase, executing, nondeterministic, last_saved, preexisting, saved_this_run,
                      run_start, files, todo>>
      BY <1>1 DEF MemorySame, DiskSame
    <2>3. AddsWithin(Secondary, run_start)'
      BY <2>1, <2>2 DEF Accountable, AddsWithin, Adds, MoveOps, WriteOps, Values
    <2>4. /\ \A v : InFlight(v)' <=> InFlight(v)
          /\ \A f : Writes(f)' <=> Writes(f)
      BY <2>2 DEF InFlight, Interesting, Supersedes, Writes, Writing, Current, Work
    <2> QED
      BY <2>1, <2>2, <2>3, <2>4 DEF Accountable, Adds, MoveOps, WriteOps, Values
  <1>2. CASE MemorySame /\ DbStep(Engine)
    BY <1>2, AccountableDatabase
  <1>3. CASE Begins
    <2>1. Work = <<>> /\ Work' = <<>> /\ UNCHANGED <<files, todo>>
      BY <1>3 DEF Begins, Control, DiskSame, Work
    <2>2. preexisting' = Fetch(Primary) /\ run_start' = run_start \cup Fetch(Primary)
      BY <1>3 DEF Begins
    <2>3. Stored(Secondary)' = Stored(Secondary) /\ Stored(Secondary) \subseteq run_start
      BY <2>1, SameFiles DEF Accountable, AddsWithin
    <2>4. AddsWithin(Secondary, run_start)'
      BY <2>1, <2>2, <2>3 DEF AddsWithin
    <2>5. \A f \in files' : f.key = Primary => f.contents \in preexisting'
      BY <2>1, <2>2 DEF Fetch
    <2> QED
      BY <2>1, <2>2, <2>4, <2>5 DEF Accountable
  <1>4. CASE Records
    BY <1>4, AccountableRecord
  <1>5. CASE Shrunk
    <2>1. /\ Work = <<>> /\ Work' = <<>> /\ executing = NoCase
          /\ UNCHANGED <<files, preexisting, saved_this_run, run_start, phase>>
      BY <1>5 DEF Shrunk, Ready, Work, DiskSame
    <2> QED
      BY <2>1, AccountableIdle
  <1>6. CASE Killed
    <2>1. Work' = <<>> /\ UNCHANGED <<files, run_start>> /\ preexisting' = {} /\ phase' = "off"
      BY <1>6, KeysApart DEF Killed, Perform, Work, Directory, DbTypeOK
    <2>2. Stored(Secondary)' = Stored(Secondary) /\ Stored(Secondary) \subseteq run_start
      BY <2>1, SameFiles DEF Accountable, AddsWithin
    <2> QED
      BY <2>1, <2>2 DEF Accountable, AddsWithin, Early
  <1>7. CASE PassesOn
    <2>1. /\ Work = <<>> /\ Work' = <<>> /\ executing = NoCase
          /\ UNCHANGED <<files, preexisting, saved_this_run, run_start>>
          /\ phase \in Early \ {"aborted"}
      BY <1>7 DEF PassesOn, Ready, Work, Settled, Early
    <2> QED
      BY <2>1, AccountableIdle
  <1>8. ASSUME NEW run, NEW abort, NEW after, Executes(run, abort, after) PROVE Accountable'
    BY <1>8, AccountableExecute
  <1>9. ASSUME NEW ops, Removes(ops) PROVE Accountable'
    <2>1. /\ Work = <<>> /\ executing = NoCase
          /\ UNCHANGED <<preexisting, saved_this_run, run_start, phase>>
      BY <1>9 DEF Removes, Ready, Work, Settled
    <2>2. /\ Calls(ops) /\ Given(ops, Primary) = {} /\ Given(ops, Secondary) = {}
          /\ Perform(ops) /\ UNCHANGED <<failing, dirs, files>>
      BY <1>9, RemoveWork
    <2>3. \A i \in 1 .. Len(Work') : \A v \in Values :
             ~Adds(Work'[i], Secondary, v) /\ ~Adds(Work'[i], Primary, v)
      BY <2>2, Performed
    <2> QED
      BY <2>1, <2>2, <2>3, AccountableIdle
  <1>10. ASSUME NEW next, NEW work, Enters(next, work) PROVE Accountable'
    <2>1. /\ Work = <<>> /\ Work' = <<>> /\ executing = NoCase
          /\ UNCHANGED <<files, preexisting, saved_this_run, run_start>>
          /\ phase' \notin Early
      BY <1>10 DEF Enters, Ready, Work, Settled, Early
    <2> QED
      BY <2>1, AccountableIdle
  <1>11. ASSUME NEW entry, NEW ops, WorksOn(entry, ops) PROVE Accountable'
    <2>1. /\ Work = <<>> /\ executing = NoCase /\ phase \notin Early
          /\ UNCHANGED <<preexisting, saved_this_run, run_start, phase>> /\ entry \in left
      BY <1>11 DEF WorksOn, Ready, Work, Settled, Early
    <2>2. /\ Calls(ops) /\ Perform(ops) /\ UNCHANGED <<failing, dirs, files>>
      BY <1>11, ReconcileWork
    <2>3. ASSUME NEW v \in Given(ops, Secondary) PROVE v \in run_start
      <3>1. PICK raw \in Entries : /\ phase = "save" /\ entry = <<"old", raw>> /\ v = raw
                                   /\ raw \notin saved_this_run \ preexisting
        BY <1>11, <2>3, ReconcileWork
      <3>2. raw \in OldsLeft
        BY <2>1, <3>1 DEF OldsLeft
      <3>3. raw \in preexisting
        BY <3>1, <3>2 DEF Saving
      <3> QED
        BY <3>1, <3>3 DEF Accountable
    <2>4. \A i \in 1 .. Len(Work') : \A v \in Values : Adds(Work'[i], Secondary, v) => v \in run_start
      BY <2>2, <2>3, Performed
    <2> QED
      BY <2>1, <2>2, <2>4, AccountableIdle
  <1> QED
    BY <1>1, <1>2, <1>3, <1>4, <1>5, <1>6, <1>7, <1>8, <1>9, <1>10, <1>11 DEF Kinds
-----------------------------------------------------------------------------
(* Nothing is lost, and it is found again.                                        *)

\* What is owed for an origin is in the primary key, wherever the run stands.
LEMMA OwedIsStored ==
    ASSUME RunTypes, Control, Saved, Ordered, Saving, Evicting, AtRest
    PROVE  BestIsDurable
  <1>0. flaky \in BOOLEAN /\ (phase = "off" => BestIsDurable)
    BY DEF RunTypes, AtRest
  <1> SUFFICES ASSUME flaky = FALSE, phase # "off", NEW o \in Origins, owed[o] # None
               PROVE  \E c \in Stored(Primary) \cap DOMAIN test : test[c] = o /\ c <= owed[o]
    BY <1>0 DEF BestIsDurable, Failures
  <1>1. nondeterministic = FALSE /\ OrderedFor(o) /\ test \in Versions
    BY DEF Ordered, RunTypes
  <1>2. /\ last_saved[o] # None /\ last_saved[o] \in DOMAIN test /\ test[last_saved[o]] = o
        /\ interesting[o] # None /\ interesting[o] \in DOMAIN test /\ test[interesting[o]] = o
        /\ last_saved[o] <= interesting[o] /\ interesting[o] <= owed[o]
    BY <1>1 DEF OrderedFor
  <1>3. last_saved[o] \in Cases /\ interesting[o] \in Cases /\ owed[o] \in Cases
    BY <1>2, LastSaveTyped DEF MaybeCases
  <1>4. last_saved[o] <= owed[o]
    BY <1>2, <1>3, CasesOrdered
  <1>5. CASE phase \in Early
    <2>1. SavedFor(o)
      BY <1>1, <1>5 DEF Saved
    <2>2. CASE Supersedes(o)
      <3>1. executing.verdict = o /\ executing.case < last_saved[o] /\ Interesting(executing)
        BY <1>2, <2>2 DEF Supersedes, Interesting
      <3>2. executing.case \in DOMAIN test /\ test[executing.case] = o /\ executing.case \in Cases
        BY <1>1, <3>1, VersionTyped DEF Control, Ordered
      <3>3. executing.case <= owed[o]
        BY <1>3, <1>4, <3>1, <3>2, KeysApart
      <3>4. Covered(last_saved[o], executing.case)
        BY <2>1, <2>2 DEF SavedFor
      <3>5. executing.case \in Stored(Primary) \/ last_saved[o] \in Stored(Primary)
        BY <1>2, <3>4 DEF Covered, Kept, Coming
      <3> QED
        BY <1>2, <1>4, <3>2, <3>3, <3>5
    <2>3. CASE ~Supersedes(o)
      <3>1. last_saved[o] \in Stored(Primary)
        BY <1>2, <2>1, <2>3 DEF SavedFor, Kept
      <3> QED
        BY <1>2, <1>4, <3>1
    <2> QED
      BY <2>2, <2>3
  <1>6. CASE phase = "save"
    <2>1. SavingFor(o)
      BY <1>2, <1>6 DEF Saving, Failures
    <2>2. interesting[o] \in Stored(Primary) \/ last_saved[o] \in Stored(Primary)
      BY <1>2, <2>1 DEF SavingFor, Covered, Kept, Coming
    <2> QED
      BY <1>2, <1>4, <2>2
  <1>7. CASE phase \in {"evict", "done"}
    <2>1. interesting[o] \in Stored(Primary)
      BY <1>1, <1>2, <1>7 DEF Evicting, Incumbents, Failures
    <2> QED
      BY <1>2, <2>1
  <1> QED
    BY <1>5, <1>6, <1>7 DEF RunTypes, Phases, Early

\* A kill leaves the files as they are, and nothing else leads to rest.
LEMMA AtRestKept ==
    ASSUME Directory, RunTypes, Control, Saved, Ordered, Saving, Evicting, AtRest, Kinds
    PROVE  AtRest'
  <1> SUFFICES ASSUME phase' = "off" PROVE BestIsDurable'
    BY DEF AtRest
  <1>1. BestIsDurable
    BY OwedIsStored
  <1>2. ASSUME UNCHANGED <<flaky, test, owed, files>> PROVE BestIsDurable'
    <2>1. Stored(Primary)' = Stored(Primary)
      BY <1>2, SameFiles
    <2> QED
      BY <1>1, <1>2, <2>1 DEF BestIsDurable, Failures
  <1>3. CASE MemorySame /\ DiskSame
    BY <1>2, <1>3 DEF MemorySame, DiskSame
  <1>4. CASE MemorySame /\ DbStep(Engine)
    <2>1. Work # <<>>
      BY <1>4, DbEffect
    <2> QED
      BY <1>4, <2>1 DEF MemorySame, Control, Resting
  <1>5. CASE Killed
    BY <1>2, <1>5 DEF Killed
  <1>6. CASE Begins \/ Shrunk \/ PassesOn
    BY <1>6 DEF Begins, Shrunk, PassesOn
  <1>7. CASE Records
    <2>1. phase \in Executing
      BY <1>7 DEF Records, Control
    <2> QED
      BY <1>7, <2>1 DEF Records, Executing
  <1>8. ASSUME NEW run, NEW abort, NEW after, Executes(run, abort, after) PROVE FALSE
    BY <1>8 DEF Executes
  <1>9. ASSUME NEW ops, Removes(ops) PROVE FALSE
    BY <1>9 DEF Removes
  <1>10. ASSUME NEW next, NEW work, Enters(next, work) PROVE FALSE
    BY <1>10 DEF Enters
  <1>11. ASSUME NEW entry, NEW ops, WorksOn(entry, ops) PROVE FALSE
    BY <1>11 DEF WorksOn
  <1> QED
    BY <1>3, <1>4, <1>5, <1>6, <1>7, <1>8, <1>9, <1>10, <1>11 DEF Kinds

\* A replay of a stored example that still fails is a finding, or the queue goes on.
LEMMA FoundExecute ==
    ASSUME RunTypes, Control, Ordered, Found, NEW run, NEW abort, NEW after, Executes(run, abort, after)
    PROVE  Found'
  <1> SUFFICES ASSUME flaky = FALSE, phase \in {"reuse", "generate"}, settings.reuse,
                      NEW o \in expected
               PROVE  FoundFor(o)'
    BY DEF Found, Executes, Settled
  <1>1. /\ executing = NoCase /\ UNCHANGED <<interesting, settings, phase, test>>
        /\ executing' = [case |-> run.case, verdict |-> run.verdict, abort |-> abort]
        /\ nondeterministic' = (nondeterministic \/ run.verdict = Concurrent)
        /\ run \in Outcomes /\ test \in Versions /\ o \in Origins
    BY DEF Executes, Execute, Ready, Settled, RunTypes
  <1>2. FoundFor(o) /\ executing.verdict # o /\ ~Interesting(executing)
    BY <1>1, NothingExecuting DEF Found
  <1>3. CASE interesting[o] # None \/ (~settings.report_multiple /\ Failures(interesting) # {})
    BY <1>1, <1>3 DEF FoundFor, Failures
  <1>4. CASE phase = "reuse" /\ Queued(o)
    <2>1. PICK found \in queue : found.primary /\ found.raw \in DOMAIN test /\ test[found.raw] = o
      BY <1>4 DEF Queued
    <2>2. PICK entry \in queue :
             /\ run \in Replays(entry.raw)
             /\ queue' = IF nondeterministic' \/ StopsReplay(run) THEN {} ELSE queue \ {entry}
      BY <1>4 DEF Executes
    <2>3. CASE found = entry
      <3>1. run.verdict = o
        BY <1>1, <2>1, <2>2, <2>3, ReplayFits
      <3> QED
        BY <1>1, <1>4, <3>1 DEF FoundFor
    <2>4. CASE found # entry
      <3>1. nondeterministic' = FALSE
        BY <1>1, OutcomeTyped DEF Ordered
      <3>2. CASE StopsReplay(run)
        BY <1>1, <1>4, <3>2 DEF StopsReplay, FoundFor, Interesting
      <3>3. CASE ~StopsReplay(run)
        <4>1. found \in queue'
          BY <2>1, <2>2, <2>4, <3>1, <3>3
        <4> QED
          BY <1>1, <1>4, <2>1, <4>1 DEF FoundFor, Queued
      <3> QED
        BY <3>2, <3>3
    <2> QED
      BY <2>3, <2>4
  <1> QED
    BY <1>2, <1>3, <1>4 DEF FoundFor

\* A record completed turns what was being replayed into a finding.
LEMMA FoundRecord ==
    ASSUME RunTypes, Control, Found, Records
    PROVE  Found'
  <1> SUFFICES ASSUME flaky = FALSE, phase' \in {"reuse", "generate", "generated"}, settings.reuse,
                      NEW o \in expected
               PROVE  FoundFor(o)'
    BY DEF Found, Records
  <1>1. /\ UNCHANGED <<settings, test, queue>> /\ phase' = phase /\ o \in Origins
        /\ interesting \in [Origins -> MaybeCases] /\ executing.case \in MaybeCases
    BY DEF Records, RunTypes
  <1>2. FoundFor(o)
    BY <1>1 DEF Found
  <1>3. ASSUME Interesting(executing)
        PROVE  /\ interesting'[executing.verdict] # None /\ executing.verdict \in Origins
               /\ \A p \in Origins : interesting[p] # None => interesting'[p] # None
    <2>1. executing.case # None /\ executing.verdict \in Origins
      BY <1>3, VersionTyped DEF Control, RunTypes, Interesting
    <2>2. CASE Better(interesting)
      <3>1. interesting' = [interesting EXCEPT ![executing.verdict] = executing.case]
        BY <1>3, <2>2 DEF Records
      <3> QED
        BY <1>1, <2>1, <3>1
    <2>3. CASE ~Better(interesting)
      <3>1. interesting' = interesting
        BY <1>3, <2>3 DEF Records
      <3> QED
        BY <2>1, <2>3, <3>1 DEF Better
    <2> QED
      BY <2>2, <2>3
  <1>4. \A p \in Origins : interesting[p] # None => interesting'[p] # None
    <2>1. CASE Interesting(executing)
      BY <1>3, <2>1
    <2>2. CASE ~Interesting(executing)
      BY <2>2 DEF Records
    <2> QED
      BY <2>1, <2>2
  <1>5. Queued(o)' <=> Queued(o)
    BY <1>1 DEF Queued
  <1>6. Failures(interesting) # {} \/ Interesting(executing) => Failures(interesting') # {}
    BY <1>3, <1>4 DEF Failures
  <1>7. executing.verdict = o => interesting'[o] # None
    BY <1>1, <1>3 DEF Interesting
  <1>8. Failures(interesting)' = Failures(interesting')
    BY DEF Failures
  <1> QED
    BY <1>1, <1>2, <1>4, <1>5, <1>6, <1>7, <1>8 DEF FoundFor

\* A run begins with all that the last one owed in its queue.
LEMMA FoundBegins ==
    ASSUME Directory, RunTypes, BestIsDurable, Begins
    PROVE  Found'
  <1> SUFFICES ASSUME flaky = FALSE, settings'.reuse, NEW o \in expected'
               PROVE  Queued(o)' /\ phase' = "reuse"
    BY DEF Found, Begins, FoundFor
  <1>1. test' = test /\ o \in Failures(owed)
    BY DEF Begins
  <1>2. PICK c \in Stored(Primary) \cap DOMAIN test : test[c] = o
    BY <1>1 DEF BestIsDurable
  <1>3. PICK plan \in ReplayPlans : queue' = plan
    BY DEF Begins
  <1>4. c \in Fetch(Primary)
    BY StoredFetched, KeysApart
  <1>5. PICK entry : entry = [raw |-> c, primary |-> TRUE]
    OBVIOUS
  <1>6. entry \in Stage(Fetch(Primary), TRUE)
    BY <1>4, <1>5 DEF Stage
  <1>7. entry \in queue'
    BY <1>3, <1>6, PlanTyped
  <1>8. entry.primary /\ entry.raw \in DOMAIN test' /\ test'[entry.raw] = o
    BY <1>1, <1>2, <1>5
  <1> QED
    BY <1>7, <1>8 DEF Queued, Begins

\* All kinds of steps keep it so.
LEMMA FoundKept ==
    ASSUME Directory, RunTypes, Control, Ordered, Found, BestIsDurable, Kinds
    PROVE  Found'
  <1>1. CASE MemorySame
    BY <1>1 DEF MemorySame, Found, FoundFor, Failures, Interesting, Queued
  <1>2. CASE Begins
    BY <1>2, FoundBegins
  <1>3. CASE Records
    BY <1>3, FoundRecord
  <1>4. CASE Shrunk
    BY <1>4 DEF Shrunk, Found
  <1>5. CASE Killed
    BY <1>5 DEF Killed, Found
  <1>6. CASE PassesOn
    <2> SUFFICES ASSUME flaky = FALSE, phase' \in {"reuse", "generate", "generated"}, settings.reuse,
                        NEW o \in expected
                 PROVE  FoundFor(o)'
      BY <1>6 DEF Found, PassesOn, Settled
    <2>1. /\ executing = NoCase /\ UNCHANGED <<interesting, settings>> /\ o \in Origins
          /\ phase \in {"reuse", "generate"}
          /\ phase = "reuse" => \A entry \in queue : ~entry.primary
      BY <1>6 DEF PassesOn, Ready, Settled, RunTypes
    <2>2. FoundFor(o) /\ executing.verdict # o /\ ~Interesting(executing)
      BY <2>1, NothingExecuting DEF Found
    <2>3. interesting[o] # None \/ (~settings.report_multiple /\ Failures(interesting) # {})
      BY <2>1, <2>2 DEF FoundFor, Queued
    <2> QED
      BY <2>1, <2>3 DEF FoundFor, Failures
  <1>7. ASSUME NEW run, NEW abort, NEW after, Executes(run, abort, after) PROVE Found'
    BY <1>7, FoundExecute
  <1>8. ASSUME NEW ops, Removes(ops) PROVE Found'
    <2> SUFFICES ASSUME flaky = FALSE, phase = "reuse", settings.reuse, NEW o \in expected
                 PROVE  FoundFor(o)'
      BY <1>8 DEF Found, Removes, Settled
    <2>1. /\ UNCHANGED <<executing, interesting, settings, phase, test>> /\ FoundFor(o)
      BY <1>8 DEF Removes, Settled, Found
    <2>2. Queued(o) => Queued(o)'
      <3>1. PICK entry \in queue : entry.raw = Torn /\ queue' = queue \ {entry}
        BY <1>8 DEF Removes
      <3>2. Torn \notin DOMAIN test
        BY VersionTyped, KeysApart DEF RunTypes
      <3> QED
        BY <2>1, <3>1, <3>2 DEF Queued
    <2> QED
      BY <2>1, <2>2 DEF FoundFor, Failures, Interesting
  <1>9. ASSUME NEW next, NEW work, Enters(next, work) PROVE Found'
    BY <1>9 DEF Enters, Found
  <1>10. ASSUME NEW entry, NEW ops, WorksOn(entry, ops) PROVE Found'
    BY <1>10 DEF WorksOn, Found
  <1> QED
    BY <1>1, <1>2, <1>3, <1>4, <1>5, <1>6, <1>7, <1>8, <1>9, <1>10 DEF Kinds
-----------------------------------------------------------------------------
(* The invariant of a run, and what follows from it.                              *)

\* The invariant holds at the start.
LEMMA RunStarts ==
    ASSUME Init
    PROVE  RunInv
  <1>1. /\ DbInit /\ failing = FALSE /\ flaky \in BOOLEAN /\ phase = "off"
        /\ settings = CHOOSE s \in Settings : TRUE
        /\ test \in Versions /\ preexisting = {} /\ saved_this_run = {} /\ last_saved = NoFailures
        /\ interesting = NoFailures /\ nondeterministic = FALSE
        /\ seen = [c \in Cases |-> None] /\ queue = {} /\ executing = NoCase
        /\ target = NoTarget /\ left = {} /\ owed = NoFailures /\ expected = {} /\ run_start = {}
    BY DEF Init
  <1>2. DbTypeOK /\ WriteInv
    BY <1>1, DbInitSound
  <1>3. dirs = {} /\ files = {} /\ Work = <<>>
    BY <1>1, KeysApart DEF DbInit, Work
  <1>4. \A k : Stored(k) = {}
    BY <1>3 DEF Stored, Exists
  <1>5. Directory
    BY <1>1, <1>2, <1>3 DEF Directory, StackFits, HeadFits
  <1>6. RunTypes
    <2>1. settings \in Settings
      BY <1>1, PersisterOK
    <2>2. phase \in Phases /\ \A c \in Cases : seen[c] = None
      BY <1>1 DEF Phases
    <2> QED
      BY <1>1, <2>1, <2>2, TypesNew DEF RunTypes
  <1>7. ~Interesting(executing) /\ \A o \in Origins : ~Supersedes(o)
    BY <1>1, NothingExecuting
  <1>8. Control
    BY <1>1, <1>3, <1>7 DEF Control
  <1>9. Saved /\ Saving /\ Evicting /\ SeenOnce /\ Found
    BY <1>1 DEF Saved, Early, Saving, Evicting, SeenOnce, Found
  <1>10. Ordered
    BY <1>1, <1>7 DEF Ordered
  <1>11. Accountable
    BY <1>1, <1>3, <1>4 DEF Accountable, AddsWithin, Early
  <1>12. AtRest
    <2>1. Failures(owed) = {}
      BY <1>1, TypesNew
    <2> QED
      BY <2>1 DEF AtRest, BestIsDurable
  <1> QED
    BY <1>5, <1>6, <1>8, <1>9, <1>10, <1>11, <1>12 DEF RunInv

\* Every step keeps the invariant.
LEMMA RunGoesOn ==
    ASSUME RunInv, [Next]_vars
    PROVE  RunInv'
  <1>1. /\ Directory /\ RunTypes /\ Control /\ Saved /\ SeenOnce /\ Ordered
        /\ Saving /\ Evicting /\ Accountable /\ Found /\ AtRest
    BY DEF RunInv
  <1>2. Kinds
    BY <1>1, StepKinds
  <1>3. BestIsDurable
    BY <1>1, OwedIsStored
  <1>4. Directory' /\ RunTypes' /\ Control'
    BY <1>1, <1>2, DirectoryKept, TypesKept, ControlKept
  <1>5. Saved' /\ SeenOnce' /\ Ordered'
    BY <1>1, <1>2, SavedKept, SeenOnceKept, OrderedKept
  <1>6. Saving' /\ Evicting' /\ Accountable'
    BY <1>1, <1>2, SavingKept, EvictingKept, AccountableKept
  <1>7. Found' /\ AtRest'
    BY <1>1, <1>2, <1>3, FoundKept, AtRestKept
  <1> QED
    BY <1>4, <1>5, <1>6, <1>7 DEF RunInv

\* It holds of every behaviour.
LEMMA RunAlwaysSound ==
    Spec => []RunInv
  BY RunStarts, RunGoesOn, PTL DEF Spec

\* The invariant implies the type invariant the runs check.
LEMMA RunKeepsTypes ==
    ASSUME RunInv
    PROVE  TypeOK
  <1>1. RunTypes /\ Directory
    BY DEF RunInv
  <1>2. \A c \in Cases : seen[c] # None => seen[c] \in Origins \cup {Valid} /\ ~nondeterministic
    BY <1>1 DEF RunTypes
  <1>3. \A entry \in queue : entry.raw \in Entries
    BY <1>1 DEF RunTypes
  <1>4. Stored(Primary) \cup Stored(Secondary) \subseteq Entries
    BY <1>1, StoredFetched, KeysApart
  <1> QED
    BY <1>1, <1>2, <1>3, <1>4 DEF TypeOK, RunTypes, MaybeCases

\* What is found again when the reuse phase is over.
LEMMA RunFinds ==
    ASSUME RunInv
    PROVE  FoundAgain
  <1>1. RunTypes /\ Found /\ flaky \in BOOLEAN
    BY DEF RunInv, RunTypes
  <1> SUFFICES ASSUME flaky = FALSE, phase \in {"generate", "generated"}, settings.reuse, expected # {}
               PROVE  IF settings.report_multiple THEN expected \subseteq Failures(interesting)
                      ELSE Failures(interesting) # {}
    BY <1>1 DEF FoundAgain
  <1>2. settings.report_multiple \in BOOLEAN /\ expected \subseteq Origins
    BY <1>1, PersisterOK DEF RunTypes
  <1>3. ASSUME NEW o \in expected
        PROVE  interesting[o] # None \/ (~settings.report_multiple /\ Failures(interesting) # {})
    BY <1>1, <1>3 DEF Found, FoundFor
  <1>4. CASE settings.report_multiple = TRUE
    BY <1>2, <1>3, <1>4 DEF Failures
  <1>5. CASE settings.report_multiple = FALSE
    BY <1>2, <1>3, <1>5 DEF Failures
  <1> QED
    BY <1>2, <1>4, <1>5

\* What the invariant says when nothing is under way, and when the run is done.
LEMMA RunIsExact ==
    ASSUME RunInv
    PROVE  CorpusExact
  <1>1. /\ Directory /\ RunTypes /\ Control /\ Saved /\ Evicting /\ Accountable
        /\ nondeterministic \in BOOLEAN
    BY DEF RunInv, RunTypes
  <1>2. LastSaveKept
    <2> SUFFICES ASSUME Ready, nondeterministic = FALSE,
                        phase \in {"reuse", "generate", "generated", "downgrade", "shrink"},
                        NEW o \in Origins, last_saved[o] # None
                 PROVE  last_saved[o] \in Stored(Primary)
      BY <1>1 DEF LastSaveKept, Incumbents, Failures
    <2>1. SavedFor(o) /\ ~Supersedes(o)
      BY <1>1, NothingExecuting DEF Saved, Early, Ready
    <2> QED
      BY <2>1 DEF SavedFor, Kept
  <1>3. DemotedWereRunStart
    BY <1>1 DEF DemotedWereRunStart, Accountable, AddsWithin
  <1>4. Reconciled
    <2> SUFFICES ASSUME phase = "done", nondeterministic = FALSE
                 PROVE  /\ Stored(Primary) = Incumbents(interesting)
                        /\ Cardinality(Stored(Secondary)) <= Cap
      BY <1>1 DEF Reconciled
    <2>1. /\ left = {} /\ Stored(Primary) = Incumbents(interesting)
          /\ \E K \in SUBSET Entries : Small(K) /\ RestWithin(Secondary, K \cup left)
      BY <1>1 DEF Evicting
    <2>2. Work = <<>>
      BY <1>1 DEF Control, Resting
    <2>3. PICK K \in SUBSET Entries : Small(K) /\ RestWithin(Secondary, K \cup left)
      BY <2>1
    <2>4. Stored(Secondary) \subseteq K
      BY <2>1, <2>2, <2>3, IdleWork
    <2>5. PICK S \in SUBSET K : S = Stored(Secondary)
      BY <2>4
    <2>6. IsFiniteSet(K) /\ Cardinality(K) <= Cap
      BY <2>3 DEF Small
    <2>7. IsFiniteSet(S) /\ Cardinality(S) <= Cardinality(K)
      BY <2>6, FS_Subset
    <2>8. Cardinality(S) \in Nat /\ Cardinality(K) \in Nat /\ Cap \in Nat
      BY <2>6, <2>7, FS_CardinalityType, PersisterOK
    <2>9. Cardinality(S) <= Cap
      BY <2>6, <2>7, <2>8
    <2> QED
      BY <2>1, <2>5, <2>9
  <1> QED
    BY <1>2, <1>3, <1>4 DEF CorpusExact

-----------------------------------------------------------------------------
\* The memory of a run is what the code's types say, and the two keys hold entries
\* (Engine, Persister).
THEOREM RunTypeCorrect == Spec => []TypeOK
  <1>1. RunInv => TypeOK
    BY RunKeepsTypes
  <1> QED
    BY <1>1, RunAlwaysSound, PTL

\* At every instant, kills included, the primary key holds for every origin a case that
\* fails that way and is no larger than what is owed (Persister::record saves before it
\* deletes, reconcile_database saves before it displaces).
THEOREM BestStaysDurable == Spec => []BestIsDurable
  <1>1. RunInv => BestIsDurable
    BY OwedIsStored DEF RunInv
  <1> QED
    BY <1>1, RunAlwaysSound, PTL

\* A run that replays the database finds in an unchanged test what the run before it
\* recorded, however that run ended (the reuse phase of Engine::run).
THEOREM FoundOnceMore == Spec => []FoundAgain
  <1>1. RunInv => FoundAgain
    BY RunFinds
  <1> QED
    BY <1>1, RunAlwaysSound, PTL

\* The bookkeeping of the Persister and what is on disk agree: the last saves stay in the
\* primary key until reconcile_database, no same-run save is ever demoted, and a completed
\* run leaves exactly the failures it reports and no more than the cap.
THEOREM CorpusStaysExact == Spec => []CorpusExact
  <1>1. RunInv => CorpusExact
    BY RunIsExact
  <1> QED
    BY <1>1, RunAlwaysSound, PTL

=============================================================================
