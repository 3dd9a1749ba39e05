------------------------------ MODULE ExampleDatabase ------------------------------
(* The on-disk database of failing examples, DirectoryTestCaseDatabase          *)
(* (native/database.rs): a directory per key, a file per value named after the  *)
(* value's hash, and the bookkeeping key METAKEYS_NAME that lists the keys.     *)
(*                                                                              *)
(* Every call is a sequence of file-system operations, each of them atomic, and *)
(* is kept as the stack of operations still to do: an operation replaces itself *)
(* by the operations that follow it, an early return by none.  Users are the    *)
(* threads and processes that share the directory; any of them may be killed    *)
(* between two operations.  Every operation that changes the directory may fail *)
(* (the test whether a file exists reads it only, and tells the truth).         *)
EXTENDS Naturals, Sequences, FiniteSets

CONSTANTS
    Users,
    Keys,           \* the keys of the callers
    Metakeys,       \* METAKEYS_NAME
    Entries,        \* the values the callers store
    NoTmp,          \* no temporary file
    Torn            \* what a file holds before its writer has filled it

ASSUME MetakeysIsNoKey == Metakeys \notin Keys

AllKeys == Keys \cup {Metakeys}

\* The metakeys directory stores keys, every other one stores entries.
Values == Keys \cup Entries

VARIABLES
    failing,        \* may file operations fail (no permission, full disk)?
    dirs,           \* the key directories that exist
    files,          \* the files in them: directory, name and contents
    todo            \* per user, the file operations its call has still to do

dbVars == <<failing, dirs, files, todo>>

DbInit ==
    /\ dirs = {}
    /\ files = {}
    /\ todo = [u \in Users |-> <<>>]

-----------------------------------------------------------------------------
\* A value's own file is named <<value>>; its temporary files <<value, n>>.
ValuePath(v) == <<v>>

Exists(k, name) == \E f \in files : f.key = k /\ f.name = name

File(k, name, contents) == [key |-> k, name |-> name, contents |-> contents]

FilesNamed(k, name) == {f \in files : f.key = k /\ f.name = name}

\* Mutant: without the counter, savers of one value share a temporary file.
TempPathShared(k, v) == <<v, 0>>

\* temp_path: the process id and the counter give a name no file has.
TempPath(k, v) == <<v, CHOOSE n \in 0 .. Cardinality(files) : ~Exists(k, <<v, n>>)>>

\* fetch: the contents of every file of the directory, temporary ones included.
Fetch(k) == {f.contents : f \in {g \in files : g.key = k}}

\* The values whose own file is in the directory.
Stored(k) == {v \in Values : Exists(k, ValuePath(v))}

Op(name, k, v) == [op |-> name, key |-> k, value |-> v, to |-> k, tmp |-> NoTmp]

Save(k, v) == Op("save", k, v)
Delete(k, v) == Op("delete", k, v)
MoveValue(src, dst, v) == [Op("move", src, v) EXCEPT !.to = dst]

Doing(u, name) == todo[u] # <<>> /\ Head(todo[u]).op = name

Current(u) == Head(todo[u])

\* The running operation is done, and `next` is what follows it.
Continue(u, next) == todo' = [todo EXCEPT ![u] = next \o Tail(@)]

-----------------------------------------------------------------------------

\* save: a key whose directory does not exist is first entered into the metakeys.
SaveBegins(u) ==
    /\ Doing(u, "save")
    /\ LET c == Current(u) IN
       Continue(u, (IF c.key # Metakeys /\ c.key \notin dirs
                    THEN <<Save(Metakeys, c.key)>> ELSE <<>>)
                   \o <<[c EXCEPT !.op = "mkdir"]>>)
    /\ UNCHANGED <<dirs, files>>

\* create_dir_all in save
MakeDir(u) ==
    /\ Doing(u, "mkdir")
    /\ \/ /\ dirs' = dirs \cup {Current(u).key}
          /\ Continue(u, <<[Current(u) EXCEPT !.op = "probe"]>>)
       \/ /\ failing
          /\ Continue(u, <<>>)
          /\ UNCHANGED dirs
    /\ UNCHANGED files

\* A value that has its file already is not written again.
Probe(u) ==
    /\ Doing(u, "probe")
    /\ LET c == Current(u) IN
       Continue(u, IF Exists(c.key, ValuePath(c.value)) THEN <<>>
                   ELSE <<[c EXCEPT !.op = "open"]>>)
    /\ UNCHANGED <<dirs, files>>

\* atomic_write: create the temporary file, empty so far.  That fails when the
\* directory is gone, and then there is no temporary file to remove.
OpenTmp(u) ==
    LET c   == Current(u)
        tmp == TempPath(c.key, c.value) IN
    /\ Doing(u, "open")
    /\ \/ /\ c.key \in dirs
          /\ files' = (files \ FilesNamed(c.key, tmp)) \cup {File(c.key, tmp, Torn)}
          /\ Continue(u, <<[c EXCEPT !.op = "fill", !.tmp = tmp]>>)
       \/ /\ failing \/ c.key \notin dirs
          /\ Continue(u, <<>>)
          /\ UNCHANGED files
    /\ UNCHANGED dirs

\* atomic_write: write the value into the temporary file.
FillTmp(u) ==
    LET c == Current(u) IN
    /\ Doing(u, "fill")
    /\ \/ /\ files' = (files \ FilesNamed(c.key, c.tmp))
                          \cup {File(c.key, c.tmp, c.value)}
          /\ Continue(u, <<[c EXCEPT !.op = "rename"]>>)
       \/ /\ failing
          /\ Continue(u, <<[c EXCEPT !.op = "unlink"]>>)
          /\ UNCHANGED files
    /\ UNCHANGED dirs

\* atomic_write: rename the temporary file over the value's path.
RenameTmp(u) ==
    LET c == Current(u) IN
    /\ Doing(u, "rename")
    /\ \/ /\ Exists(c.key, c.tmp)
          /\ files' =
                {f \in files : f.key # c.key \/ f.name \notin {c.tmp, ValuePath(c.value)}}
                  \cup {[f EXCEPT !.name = ValuePath(c.value)] : f \in FilesNamed(c.key, c.tmp)}
          /\ Continue(u, <<>>)
       \/ /\ failing \/ ~Exists(c.key, c.tmp)
          /\ Continue(u, <<[c EXCEPT !.op = "unlink"]>>)
          /\ UNCHANGED files
    /\ UNCHANGED dirs

\* atomic_write: the temporary file of a failed write is removed; that this fails too
\* is ignored, and the file stays.
UnlinkTmp(u) ==
    /\ Doing(u, "unlink")
    /\ \/ files' = files \ FilesNamed(Current(u).key, Current(u).tmp)
       \/ failing /\ UNCHANGED files
    /\ Continue(u, <<>>)
    /\ UNCHANGED dirs

\* delete: remove the value's file; a failure returns.
RemoveFile(u) ==
    LET c == Current(u) IN
    /\ Doing(u, "delete")
    /\ \/ /\ Exists(c.key, ValuePath(c.value))
          /\ files' = files \ FilesNamed(c.key, ValuePath(c.value))
          /\ Continue(u, <<[c EXCEPT !.op = "rmdir"]>>)
       \/ /\ failing \/ ~Exists(c.key, ValuePath(c.value))
          /\ Continue(u, <<>>)
          /\ UNCHANGED files
    /\ UNCHANGED dirs

\* Mutant: an emptied key stays in the metakeys.
RemoveDirKeepsListing(u) ==
    LET c == Current(u) IN
    /\ Doing(u, "rmdir")
    /\ dirs' = IF \E f \in files : f.key = c.key THEN dirs ELSE dirs \ {c.key}
    /\ Continue(u, <<>>)
    /\ UNCHANGED files

\* delete, move_value: a directory goes once it is empty, and the key with it.
RemoveDir(u) ==
    LET c     == Current(u)
        empty == c.key \in dirs /\ \A f \in files : f.key # c.key IN
    /\ Doing(u, "rmdir")
    /\ \/ /\ empty
          /\ dirs' = dirs \ {c.key}
          /\ Continue(u, IF c.key = Metakeys THEN <<>> ELSE <<Delete(Metakeys, c.key)>>)
       \/ /\ failing \/ ~empty
          /\ Continue(u, <<>>)
          /\ UNCHANGED dirs
    /\ UNCHANGED files

\* move_value: onto the same key it is a save; a new key is entered first.
MoveBegins(u) ==
    /\ Doing(u, "move")
    /\ LET c == Current(u) IN
       Continue(u, IF c.to = c.key THEN <<Save(c.key, c.value)>>
                   ELSE (IF c.to \notin dirs THEN <<Save(Metakeys, c.to)>> ELSE <<>>)
                        \o <<[c EXCEPT !.op = "move_mkdir"]>>)
    /\ UNCHANGED <<dirs, files>>

\* What move_value does instead when it cannot rename.
MoveFallback(c) == <<Delete(c.key, c.value), Save(c.to, c.value)>>

\* Mutant: without a directory to move it to, the value is given up.
MoveMakeDirGivesUp(u) ==
    LET c == Current(u) IN
    /\ Doing(u, "move_mkdir")
    /\ \/ /\ dirs' = dirs \cup {c.to}
          /\ Continue(u, <<[c EXCEPT !.op = "move_rename"]>>)
       \/ /\ failing
          /\ Continue(u, <<Delete(c.key, c.value)>>)
          /\ UNCHANGED dirs
    /\ UNCHANGED files

\* create_dir_all in move_value
MoveMakeDir(u) ==
    LET c == Current(u) IN
    /\ Doing(u, "move_mkdir")
    /\ \/ /\ dirs' = dirs \cup {c.to}
          /\ Continue(u, <<[c EXCEPT !.op = "move_rename"]>>)
       \/ /\ failing
          /\ Continue(u, MoveFallback(c))
          /\ UNCHANGED dirs
    /\ UNCHANGED files

\* move_value: rename the file across directories, then drop an emptied source.
MoveRename(u) ==
    LET c     == Current(u)
        path  == ValuePath(c.value)
        moves == Exists(c.key, path) /\ c.to \in dirs IN
    /\ Doing(u, "move_rename")
    /\ \/ /\ moves
          /\ files' = (files \ (FilesNamed(c.key, path) \cup FilesNamed(c.to, path)))
                         \cup {[f EXCEPT !.key = c.to] : f \in FilesNamed(c.key, path)}
          /\ Continue(u, <<[c EXCEPT !.op = "rmdir"]>>)
       \/ /\ failing \/ ~moves
          /\ Continue(u, MoveFallback(c))
          /\ UNCHANGED files
    /\ UNCHANGED dirs

DbStep(u) ==
    /\ \/ SaveBegins(u)
       \/ MakeDir(u)
       \/ Probe(u)
       \/ OpenTmp(u)
       \/ FillTmp(u)
       \/ RenameTmp(u)
       \/ UnlinkTmp(u)
       \/ RemoveFile(u)
       \/ RemoveDir(u)
       \/ MoveBegins(u)
       \/ MoveMakeDir(u)
       \/ MoveRename(u)
    /\ UNCHANGED failing

\* The step of u is an operation that fails, one of those that save and move_value
\* build on (that a file or a directory is not removed changes nothing for them).
Fails(u) ==
    \/ (Doing(u, "mkdir") \/ Doing(u, "open")) /\ Len(todo'[u]) < Len(todo[u])
    \/ (Doing(u, "fill") \/ Doing(u, "rename")) /\ Doing(u, "unlink")'
    \/ (Doing(u, "move_mkdir") \/ Doing(u, "move_rename")) /\ Len(todo'[u]) > Len(todo[u])

-----------------------------------------------------------------------------
OwnNames == {<<v>> : v \in Values}
TmpNames == Values \X Nat

OpNames == {"save", "mkdir", "probe", "open", "fill", "rename", "unlink", "delete", "rmdir",
            "move", "move_mkdir", "move_rename"}

MoveOps == {"move", "move_mkdir", "move_rename"}

Ops ==
    {c \in [op : OpNames, key : AllKeys, value : Values, to : AllKeys, tmp : TmpNames \cup {NoTmp}] :
        c.op \in MoveOps => c.key \in Keys /\ c.to \in Keys}

DbTypeOK ==
    /\ failing \in BOOLEAN
    /\ dirs \subseteq AllKeys
    /\ files \subseteq [key : AllKeys, name : OwnNames \cup TmpNames, contents : Values \cup {Torn}]
    /\ todo \in [Users -> Seq(Ops)]

\* The file of a value holds that value, whole, whoever races to write it and
\* wherever a writer is killed (atomic_write).
WholeEntries == \A f \in files : Len(f.name) = 1 => f.contents = f.name[1]
=============================================================================
