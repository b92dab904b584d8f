----------------------------- MODULE ProtoWire -----------------------------
(***************************************************************************)
(* What the generated code of proto/pkg does with its tables: the wire     *)
(* format in which every message of the system crosses the network and is  *)
(* kept in badger and etcd.                                                *)
(*                                                                         *)
(* A message is the function of the fields that are not zero.  A number is *)
(* the sequence of its 7-bit groups, the lowest first and without leading  *)
(* zeros, because the values that matter do not fit TLC's integers: 64-bit *)
(* numbers, and negative int32s, which are written as 64 bits.             *)
(***************************************************************************)
EXTENDS ProtoSchema, Integers, Sequences, SequencesExt

Unknown == "XXX_unrecognized"

\* The groups of a length or a tag.
MaxLength == 16383
Groups(n) == IF n = 0 THEN <<>> ELSE IF n < 128 THEN <<n>> ELSE <<n % 128, n \div 128>>
Number(g) == FoldRight(LAMBDA d, n : n * 128 + d, g, 0)
Trim(g) ==
    LET used == {i \in DOMAIN g : g[i] # 0}
    IN  SubSeq(g, 1, IF used = {} THEN 0 ELSE Max(used))

\* uint64(m.X): an int32 keeps its sign.
Widen(ty, g) ==
    IF ty = "int32" /\ Len(g) = 5 /\ g[5] >= 8
    THEN SubSeq(g, 1, 4) \o <<g[5] + 112, 127, 127, 127, 127, 1>>
    ELSE g

\* What is left of 64 bits in a variable of the type.
Narrow(ty, g) ==
    CASE ty = "bool" -> IF g = <<>> THEN <<>> ELSE <<1>>
      [] ty \in {"int32", "uint32"} /\ Len(g) >= 5 -> Trim(SubSeq(g, 1, 4) \o <<g[5] % 16>>)
      [] OTHER -> g

encodeVarint(g) ==
    IF g = <<>> THEN <<0>> ELSE [i \in DOMAIN g |-> IF i < Len(g) THEN g[i] + 128 ELSE g[i]]

sov(g) == IF g = <<>> THEN 1 ELSE Len(g)

-----------------------------------------------------------------------------
RECURSIVE MarshalTo(_, _), Size(_, _)

Prefixed(tag, n, b) == tag \o encodeVarint(Groups(n)) \o b
EachItem(Op(_), s) == FlattenSeq([i \in DOMAIN s |-> Op(s[i])])

\* The bytes of one field that is not zero.  The length of a message comes from Size.
MarshalField(e, v) ==
    CASE e.shape = "varint" -> e.x \o encodeVarint(Widen(e.type, v))
      [] e.shape = "bytes" -> Prefixed(e.x, Len(v), v)
      [] e.shape = "message" -> Prefixed(e.x, Size(e.type, v), MarshalTo(e.type, v))
      [] e.shape = "packed" ->
            LET b == EachItem(encodeVarint, v) IN Prefixed(e.x, Len(b), b)
      [] e.shape = "repeated bytes" -> EachItem(LAMBDA w : Prefixed(e.x, Len(w), w), v)
      [] e.shape = "repeated message" ->
            EachItem(LAMBDA w : Prefixed(e.x, Size(e.type, w), MarshalTo(e.type, w)), v)

Present(table, m) == SelectSeq(table, LAMBDA e : e.name \in DOMAIN m)
Unrecognized(m) == IF Unknown \in DOMAIN m THEN m[Unknown] ELSE <<>>

\* The fields in the order of the method, then what was not recognized.
Chunks(t, m) ==
    LET es == Present(Schema[t].to, m)
    IN  [i \in DOMAIN es |-> MarshalField(es[i], m[es[i].name])]
MarshalTo(t, m) == FlattenSeq(Chunks(t, m)) \o Unrecognized(m)

Sum(s) == FoldLeft(LAMBDA a, b : a + b, 0, s)
WithLength(overhead, n) == overhead + n + sov(Groups(n))

NarrowSize(e, v) == e.x + sov(v)                        \* mutant: the sign is not counted
NumberSize(e, v) == IF e.type = "bool" THEN e.x ELSE e.x + sov(Widen(e.type, v))

SizeField(e, v) ==
    CASE e.shape = "varint" -> NumberSize(e, v)
      [] e.shape = "bytes" -> WithLength(e.x, Len(v))
      [] e.shape = "message" -> WithLength(e.x, Size(e.type, v))
      [] e.shape = "packed" -> WithLength(e.x, Sum([i \in DOMAIN v |-> sov(v[i])]))
      [] e.shape = "repeated bytes" -> Sum([i \in DOMAIN v |-> WithLength(e.x, Len(v[i]))])
      [] e.shape = "repeated message" ->
            Sum([i \in DOMAIN v |-> WithLength(e.x, Size(e.type, v[i]))])

Size(t, m) ==
    LET es == Present(Schema[t].size, m)
    IN  Sum([i \in DOMAIN es |-> SizeField(es[i], m[es[i].name])]) + Len(Unrecognized(m))

-----------------------------------------------------------------------------
Fail == [ok |-> FALSE, v |-> <<>>, next |-> 0]
Ok(v, next) == [ok |-> TRUE, v |-> v, next |-> next]

\* The loop that reads a varint from b[i]: ten bytes at most, and of the tenth group
\* one bit.
NineBytes(b, i) ==                                      \* mutant: nine bytes at most
    LET ends == {k \in i .. IF Len(b) < i + 8 THEN Len(b) ELSE i + 8 : b[k] < 128}
    IN  IF ends = {} THEN Fail
        ELSE Ok(Trim([k \in 1 .. Min(ends) - i + 1 |-> b[i + k - 1] % 128]), Min(ends) + 1)
ReadVarint(b, i) ==
    LET ends == {k \in i .. IF Len(b) < i + 9 THEN Len(b) ELSE i + 9 : b[k] < 128}
        group(k) == IF k = 10 THEN b[i + 9] % 2 ELSE b[i + k - 1] % 128
    IN  IF ends = {} THEN Fail
        ELSE Ok(Trim([k \in 1 .. Min(ends) - i + 1 |-> group(k)]), Min(ends) + 1)

\* A length and that many bytes.
ClampedBytes(b, i) ==                                   \* mutant: as many as there are
    LET n == ReadVarint(b, i)
        post == Min({n.next + Number(n.v), Len(b) + 1})
    IN  IF ~n.ok THEN Fail ELSE Ok(SubSeq(b, n.next, post - 1), post)
ReadBytes(b, i) ==
    LET n == ReadVarint(b, i)
        post == n.next + Number(n.v)
    IN  IF ~n.ok \/ post > Len(b) + 1 THEN Fail ELSE Ok(SubSeq(b, n.next, post - 1), post)

\* skip: where the field that starts at b[i] ends.
RECURSIVE Skip(_, _), SkipGroup(_, _)
Skip(b, i) ==
    LET tag == ReadVarint(b, i)
        wireType == IF tag.v = <<>> THEN 0 ELSE tag.v[1] % 8
    IN  IF ~tag.ok THEN Fail
        ELSE CASE wireType = 0 -> ReadVarint(b, tag.next)
               [] wireType = 1 -> Ok(<<>>, tag.next + 8)
               [] wireType = 2 -> ReadBytes(b, tag.next)
               [] wireType = 3 -> SkipGroup(b, tag.next)
               [] wireType = 4 -> Ok(<<>>, tag.next)
               [] wireType = 5 -> Ok(<<>>, tag.next + 4)
               [] OTHER -> Fail
SkipGroup(b, i) ==
    LET tag == ReadVarint(b, i)
        inner == Skip(b, i)
    IN  IF ~tag.ok THEN Fail
        ELSE IF tag.v # <<>> /\ tag.v[1] % 8 = 4 THEN Ok(<<>>, tag.next)
        ELSE IF ~inner.ok THEN Fail ELSE SkipGroup(b, inner.next)

\* The wire type a case of the switch asks for.
WireTypes(e) == CASE e.shape = "varint" -> {0} [] e.shape = "packed" -> {0, 2} [] OTHER -> {2}

Put(m, f, v) == [g \in DOMAIN m \cup {f} |-> IF g = f THEN v ELSE m[g]]
Clear(m, f) == [g \in DOMAIN m \ {f} |-> m[g]]
Assign(m, f, v) == IF v = <<>> THEN Clear(m, f) ELSE Put(m, f, v)
Current(m, f) == IF f \in DOMAIN m THEN m[f] ELSE <<>>
AppendTo(m, f, v) == Put(m, f, Append(Current(m, f), v))

RECURSIVE UnmarshalFrom(_, _, _, _), UnpackFrom(_, _, _)

\* The numbers of a packed field.
UnpackFrom(b, i, s) ==
    LET n == ReadVarint(b, i)
    IN  IF i > Len(b) THEN Ok(s, i)
        ELSE IF ~n.ok THEN Fail ELSE UnpackFrom(b, n.next, Append(s, n.v))

\* A case of the switch, for the value that starts at b[i]: the new message.
UnmarshalField(e, wireType, b, i, m) ==
    LET n == ReadVarint(b, i)
        s == ReadBytes(b, i)
        items == UnpackFrom(s.v, 1, Current(m, e.name))
        in == UnmarshalFrom(e.type, s.v, 1, Current(m, e.name))
        new == UnmarshalFrom(e.type, s.v, 1, <<>>)
    IN  CASE wireType \notin WireTypes(e) -> Fail
          [] e.shape = "varint" ->
                IF n.ok THEN Ok(Assign(m, e.name, Narrow(e.type, n.v)), n.next) ELSE Fail
          [] e.shape = "packed" /\ wireType = 0 ->
                IF n.ok THEN Ok(AppendTo(m, e.name, n.v), n.next) ELSE Fail
          [] ~s.ok -> Fail
          [] e.shape = "packed" ->
                IF items.ok THEN Ok(Assign(m, e.name, items.v), s.next) ELSE Fail
          [] e.shape = "bytes" -> Ok(Assign(m, e.name, s.v), s.next)
          [] e.shape = "repeated bytes" -> Ok(AppendTo(m, e.name, s.v), s.next)
          [] e.shape = "message" ->
                IF in.ok THEN Ok(Put(m, e.name, in.v), s.next) ELSE Fail
          [] e.shape = "repeated message" ->
                IF new.ok THEN Ok(AppendTo(m, e.name, new.v), s.next) ELSE Fail

\* The default of the switch: the bytes are kept.
DropUnknown(b, i, m) ==                                 \* mutant: skipped
    LET skipped == Skip(b, i)
    IN  IF ~skipped.ok \/ skipped.next > Len(b) + 1 THEN Fail ELSE Ok(m, skipped.next)
KeepUnknown(b, i, m) ==
    LET skipped == Skip(b, i)
    IN  IF ~skipped.ok \/ skipped.next > Len(b) + 1 THEN Fail
        ELSE Ok(Put(m, Unknown, Current(m, Unknown) \o SubSeq(b, i, skipped.next - 1)),
                skipped.next)

\* The loop of Unmarshal from b[i] on, into the message m.
UnmarshalFrom(t, b, i, m) ==
    LET tag == ReadVarint(b, i)
        wireType == tag.v[1] % 8
        fieldNum == Number(tag.v) \div 8
        case == SelectSeq(Schema[t].from, LAMBDA e : e.x = fieldNum)
        step == IF case = <<>> THEN KeepUnknown(b, i, m)
                ELSE UnmarshalField(case[1], wireType, b, tag.next, m)
    IN  IF i > Len(b) THEN Ok(m, i)
        ELSE IF ~tag.ok \/ tag.v = <<>> THEN Fail
        ELSE IF wireType = 4 \/ fieldNum = 0 THEN Fail
        ELSE IF ~step.ok THEN Fail ELSE UnmarshalFrom(t, b, step.next, step.v)

Unmarshal(t, b) == UnmarshalFrom(t, b, 1, <<>>)
=============================================================================
