----------------------------- MODULE ChoiceTree -----------------------------
(* Recorded choices with the streams of cloned test cases among them          *)
(* (native/core/choices.rs), and how they are stored (native/database.rs). A  *)
(* node is [k, v, forced]: a kind and a value of ChoiceOrder, a float choice  *)
(* and the float <<f>> of FloatOrder, or the kind Clone with the nodes of the *)
(* clone's stream. A value without its kind is [t, v]; that of a clone is a   *)
(* record, its children either the nodes of an execution or the bare values   *)
(* read from storage.                                                         *)
EXTENDS ChoiceOrder
LOCAL INSTANCE SequencesExt

CONSTANTS
    ByteSize,       \* 256 in the code
    CountBytes,     \* 4: the width of a count, and of a character
    FloatBytes,     \* 8
    MaxCloneDepth,  \* 100
    MantissaBits, ExponentBits, SimpleBits      \* the format of a float (FloatOrder)

Float == INSTANCE FloatOrder

ASSUME ChoiceTreeOK ==
    /\ {ByteSize, CountBytes, FloatBytes, MaxCloneDepth} \subseteq Nat
    /\ 2 <= ByteSize /\ ByteSize % 2 = 0
    /\ ByteSize ^ FloatBytes = 2 * Float!Tag     \* every bit pattern is a float

Clone == [t |-> "clone"]
IsClone(x) == x.t = "clone"
IsFloat(x) == x.t = "float"
CloneRecord(realized, kids) == [realized |-> realized, kids |-> kids]

\* The value of a node; a clone's shares the nodes of its stream.
ValueOf(n) ==
    [t |-> n.k.t, v |-> IF IsClone(n.k) THEN CloneRecord(TRUE, n.v) ELSE n.v]
ValuesOf(nodes) == [i \in DOMAIN nodes |-> ValueOf(nodes[i])]
ChildValues(r) == IF r.realized THEN ValuesOf(r.kids) ELSE r.kids

Sum(S) == FoldLeft(+, 0, S)
Join(S) == FoldLeft(\o, <<>>, S)

(* Choices of a stream, those of its clones counted too.                      *)
\* Mutant: a clone counts its own children and not theirs.
FlatLenOnce(nodes) ==
    Sum([i \in DOMAIN nodes |-> 1 + IF IsClone(nodes[i].k) THEN Len(nodes[i].v) ELSE 0])
RECURSIVE FlatLen(_)
FlatLen(nodes) ==
    Sum([i \in DOMAIN nodes |-> 1 + IF IsClone(nodes[i].k) THEN FlatLen(nodes[i].v) ELSE 0])
RECURSIVE FlatLenOfValues(_)
FlatLenOfValues(values) ==
    Sum([i \in DOMAIN values |->
           1 + IF IsClone(values[i]) THEN FlatLenOfValues(ChildValues(values[i].v)) ELSE 0])

\* to_bits and from_bits
FloatBits(f) == f.s * Float!Tag + Float!Bits(f)
FloatFromBits(n) == [Float!FromBits(n % Float!Tag) EXCEPT !.s = n \div Float!Tag]

(* Equality and hashing: by value, a float by its bits, a clone however its   *)
(* children are stored.                                                       *)
RECURSIVE SameValue(_, _)
SameValue(a, b) ==
    /\ a.t = b.t
    /\ IF IsClone(a)
       THEN LET x == ChildValues(a.v)
                y == ChildValues(b.v)
            IN /\ FlatLenOfValues(x) = FlatLenOfValues(y) /\ Len(x) = Len(y)
               /\ \A i \in DOMAIN x : SameValue(x[i], y[i])
       ELSE a.v = b.v
SameValues(x, y) == Len(x) = Len(y) /\ \A i \in DOMAIN x : SameValue(x[i], y[i])

TagOf(t) == CASE t = "int" -> 0 [] t = "bool" -> 1 [] t = "float" -> 2
              [] t = "bytes" -> 3 [] t = "str" -> 4 [] t = "clone" -> 5
\* What a value feeds its hasher.
RECURSIVE Hashed(_)
Hashed(a) ==
    <<TagOf(a.t)>> \o
    CASE IsClone(a) ->
           LET x == ChildValues(a.v) IN <<Len(x)>> \o Join([i \in DOMAIN x |-> Hashed(x[i])])
      [] IsFloat(a) -> <<FloatBits(a.v[1])>>
      [] OTHER -> <<Len(a.v)>> \o a.v

(* The order: fewer choices of any depth, then fewer of this one, then choice *)
(* by choice, a clone after the scalars and the sequences, by its stream.     *)
RECURSIVE StreamKey(_)
StreamKey(nodes) ==
    <<FlatLen(nodes), Len(nodes)>> \o
    Join([i \in DOMAIN nodes |->
            LET n == nodes[i]
            IN CASE IsClone(n.k) -> <<2>> \o StreamKey(n.v)
                 [] IsFloat(n.k) -> <<0>> \o Float!SortKey(n.v[1])
                 [] OTHER -> Key(n.k, n.v)])
SimplerStream(a, b) == LexLess(StreamKey(a), StreamKey(b))

(* A value meets a kind, a node its simplest value or another one.            *)
Resolves(k, a) ==
    /\ ~IsClone(k) /\ a.t = k.t
    /\ IF IsFloat(k) THEN Float!Validate(k, a.v[1]) ELSE Validate(k, a.v)
NodeWithValue(n, a) ==
    IF IsClone(n.k) /\ IsClone(a)
    THEN IF a.v.realized THEN {[n EXCEPT !.v = a.v.kids]} ELSE {}
    ELSE IF Resolves(n.k, a) THEN {[n EXCEPT !.v = a.v]} ELSE {}
SimplestOf(k) ==
    CASE IsClone(k) -> <<>>
      [] IsFloat(k) -> <<CHOOSE f \in Float!Simplest(k) : TRUE>>
      [] OTHER -> Simplest(k)
WithSimplest(n) == [n EXCEPT !.v = SimplestOf(n.k)]
IsSimplest(n) == n.v = SimplestOf(n.k)

(* Signed integers as the fewest bytes of two's complement, the lowest first. *)
RECURSIVE BytesOf(_)
BytesOf(n) == IF n = 0 THEN <<>> ELSE <<n % ByteSize>> \o BytesOf(n \div ByteSize)
Digits(n, width) == [i \in 1..width |-> (n \div ByteSize ^ (i - 1)) % ByteSize]
Number(s) == Sum([i \in DOMAIN s |-> s[i] * ByteSize ^ (i - 1)])
High(b) == 2 * b >= ByteSize
Complement(s) == Digits(ByteSize ^ Len(s) - Number(s), Len(s))
RECURSIVE Trim(_)
Trim(s) ==
    IF Len(s) > 1 /\ Last(s) = ByteSize - 1 /\ High(s[Len(s) - 1]) THEN Trim(Front(s)) ELSE s
\* Mutant: no byte is spent on the sign.
ToSignedUnpadded(x) ==
    IF x = 0 THEN <<0>> ELSE IF x < 0 THEN Trim(Complement(BytesOf(-x))) ELSE BytesOf(x)
ToSigned(x) ==
    LET magnitude == BytesOf(IF x < 0 THEN -x ELSE x)
        padded == magnitude \o IF High(Last(magnitude)) THEN <<0>> ELSE <<>>
    IN IF x = 0 THEN <<0>> ELSE IF x < 0 THEN Trim(Complement(padded)) ELSE padded
FromSigned(s) ==
    IF s = <<>> \/ ~High(Last(s)) THEN Number(s) ELSE -Number(Complement(s))

(* Writing values: a count and then each value, a tag before it.              *)
Count(n) == Digits(n, CountBytes)
RECURSIVE Serialize(_)
Serialize(values) ==
    Count(Len(values)) \o
    Join([i \in DOMAIN values |->
      LET a == values[i]
      IN <<TagOf(a.t)>> \o
         CASE a.t = "int" -> LET s == ToSigned(a.v[1]) IN <<10>> \o Count(Len(s)) \o s
           [] a.t = "bool" -> a.v
           [] a.t = "float" -> Digits(FloatBits(a.v[1]), FloatBytes)
           [] a.t = "bytes" -> Count(Len(a.v)) \o a.v
           [] a.t = "str" -> Count(Len(a.v)) \o Join([j \in DOMAIN a.v |-> Count(a.v[j])])
           [] a.t = "clone" -> Serialize(ChildValues(a.v))])
SerializeNodes(nodes) == Serialize(ValuesOf(nodes))

(* Reading them: {} when the bytes end too early or mean nothing, else what   *)
(* was read and the place after it. Bytes after the last value are ignored.   *)
Took(v, at) == {[v |-> v, at |-> at]}
TakeBytes(bytes, at, n) ==
    IF at + n - 1 <= Len(bytes) THEN Took(SubSeq(bytes, at, at + n - 1), at + n) ELSE {}
TakeCount(bytes, at) == {[v |-> Number(r.v), at |-> r.at] : r \in TakeBytes(bytes, at, CountBytes)}
TakeString(bytes, at) ==
    UNION {{[v |-> [i \in 1..c.v |-> Number(SubSeq(r.v, (i - 1) * CountBytes + 1, i * CountBytes))],
             at |-> r.at] : r \in TakeBytes(bytes, c.at, c.v * CountBytes)} :
           c \in TakeCount(bytes, at)}
TakeBlob(bytes, at) == UNION {TakeBytes(bytes, c.at, c.v) : c \in TakeCount(bytes, at)}
\* Sub-tags 0 to 4 are the signed and 5 to 9 the unsigned integers of 1 to 16 bytes.
TakeInt(bytes, at) ==
    UNION {CASE s.v[1] < 5 -> {[v |-> <<FromSigned(r.v)>>, at |-> r.at] :
                                  r \in TakeBytes(bytes, s.at, 2 ^ s.v[1])}
             [] s.v[1] \in 5..9 -> {[v |-> <<Number(r.v)>>, at |-> r.at] :
                                  r \in TakeBytes(bytes, s.at, 2 ^ (s.v[1] - 5))}
             [] s.v[1] = 10 -> {[v |-> <<FromSigned(r.v)>>, at |-> r.at] :
                                  r \in TakeBlob(bytes, s.at)}
             [] OTHER -> {} : s \in TakeBytes(bytes, at, 1)}
TakeBool(bytes, at) ==
    {[v |-> <<IF r.v = <<0>> THEN 0 ELSE 1>>, at |-> r.at] : r \in TakeBytes(bytes, at, 1)}
TakeFloat(bytes, at) ==
    {[v |-> <<FloatFromBits(Number(r.v))>>, at |-> r.at] : r \in TakeBytes(bytes, at, FloatBytes)}

As(t, taken) == {[v |-> [t |-> t, v |-> r.v], at |-> r.at] : r \in taken}
RECURSIVE TakeList(_, _, _), TakeValues(_, _, _, _)
TakeValue(bytes, at, depth) ==
    UNION {CASE g.v = <<0>> -> As("int", TakeInt(bytes, g.at))
             [] g.v = <<1>> -> As("bool", TakeBool(bytes, g.at))
             [] g.v = <<2>> -> As("float", TakeFloat(bytes, g.at))
             [] g.v = <<3>> -> As("bytes", TakeBlob(bytes, g.at))
             [] g.v = <<4>> -> As("str", TakeString(bytes, g.at))
             [] g.v = <<5>> -> As("clone", {[v |-> CloneRecord(FALSE, r.v), at |-> r.at] :
                                              r \in TakeList(bytes, g.at, depth + 1)})
             [] OTHER -> {} : g \in TakeBytes(bytes, at, 1)}
TakeValues(bytes, at, n, depth) ==
    IF n = 0 THEN Took(<<>>, at)
    ELSE UNION {{[v |-> <<a.v>> \o r.v, at |-> r.at] : r \in TakeValues(bytes, a.at, n - 1, depth)} :
                a \in TakeValue(bytes, at, depth)}
TakeList(bytes, at, depth) ==
    IF depth > MaxCloneDepth THEN {}
    ELSE UNION {TakeValues(bytes, c.at, c.v, depth) : c \in TakeCount(bytes, at)}
Deserialize(bytes) == {r.v : r \in TakeList(bytes, 1, 0)}

(* How deep the clones of a stream nest.                                      *)
RECURSIVE Depth(_)
Depth(nodes) ==
    FoldLeft(AtLeast, 0, [i \in DOMAIN nodes |-> IF IsClone(nodes[i].k) THEN 1 + Depth(nodes[i].v) ELSE 0])

(* What is stored comes back: the same values to equality, hash and storage,  *)
(* a realized clone as a record of bare values; a stream that nests deeper    *)
(* than the engine clones, and bytes cut anywhere, are refused.               *)
StoredComesBack(nodes) ==
    LET bytes == SerializeNodes(nodes)
        values == ValuesOf(nodes)
        Kept(read) == /\ SameValues(read, values) /\ FlatLenOfValues(read) = FlatLen(nodes)
                      /\ \A i \in DOMAIN values : Hashed(read[i]) = Hashed(values[i])
                      /\ Serialize(read) = bytes
    IN /\ IF Depth(nodes) > MaxCloneDepth THEN Deserialize(bytes) = {}
          ELSE \E read \in Deserialize(bytes) : Kept(read)
       /\ \A n \in 0..(Len(bytes) - 1) : Deserialize(SubSeq(bytes, 1, n)) = {}

(* The order is total, tells streams of the same kinds apart by their values  *)
(* (all NaNs are one to it), and is that of ChoiceOrder where nothing was     *)
(* cloned and no float was drawn.                                             *)
RECURSIVE Kinds(_)
Kinds(nodes) ==
    [i \in DOMAIN nodes |-> <<nodes[i].k, IF IsClone(nodes[i].k) THEN Kinds(nodes[i].v) ELSE <<>>>>]
OrderIsTotal(a, b) ==
    /\ ~(SimplerStream(a, b) /\ SimplerStream(b, a))
    /\ ~SimplerStream(a, b) /\ ~SimplerStream(b, a) /\ Kinds(a) = Kinds(b)
          => SameValues(ValuesOf(a), ValuesOf(b))
    /\ (\A n \in Range(a \o b) : ~IsClone(n.k) /\ ~IsFloat(n.k)) => (SimplerStream(a, b) <=> Smaller(a, b))

(* A simpler stream in place of a clone's makes the whole simpler, whatever   *)
(* is around it: what is progress inside a clone is progress of the case.     *)
CloneOf(nodes) == [k |-> Clone, v |-> nodes, forced |-> FALSE]
ShrinksInPlace(a, b, before, after) ==
    SimplerStream(a, b) => SimplerStream(before \o <<CloneOf(a)>> \o after, before \o <<CloneOf(b)>> \o after)

(* A node put to its simplest value is simplest and makes no stream larger,   *)
(* and takes back the value it had, unless that came from storage.            *)
SimplestIsLeast(nodes) ==
    \A i \in DOMAIN nodes :
        LET n == WithSimplest(nodes[i])
            put == [nodes EXCEPT ![i] = n]
        IN /\ IsSimplest(n) /\ (IsSimplest(nodes[i]) <=> n = nodes[i])
           /\ put # nodes => SimplerStream(put, nodes)
           /\ NodeWithValue(n, ValueOf(nodes[i])) = {nodes[i]}
           /\ IsClone(n.k) =>
                NodeWithValue(n, [t |-> "clone", v |-> CloneRecord(FALSE, ValuesOf(nodes[i].v))]) = {}
=============================================================================
