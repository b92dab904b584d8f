---------------------------- MODULE ProtoChannel ----------------------------
(***************************************************************************)
(* A message of any type of the system is marshalled, written or sent, and *)
(* unmarshalled: as it is, cut off (a torn write, a short read), or with a *)
(* field that only a newer version of the program knows.                   *)
(***************************************************************************)
EXTENDS ProtoWire

CONSTANTS
    Numbers(_),     \* the values tried for a number of a type
    Strings,        \* the values tried for bytes
    Extras          \* encodings of fields that no message has

VARIABLES
    type, msg,  \* what is sent
    buf,        \* what arrives
    how,        \* what happened on the way
    got         \* what Unmarshal makes of it

vars == <<type, msg, buf, how, got>>

RECURSIVE Full(_)

\* A value of the field of a table entry, and one message with every field.
AnyNumber(t) == CHOOSE g \in Numbers(t) : \A h \in Numbers(t) : Len(g) <= Len(h)
AnyString == CHOOSE s \in Strings : \A r \in Strings : Len(s) <= Len(r)
Typical(e) ==
    CASE e.shape = "varint" -> AnyNumber(e.type)
      [] e.shape = "bytes" -> AnyString
      [] e.shape = "message" -> Full(e.type)
      [] e.shape = "packed" -> <<AnyNumber(e.type), <<>>>>
      [] e.shape = "repeated bytes" -> <<AnyString, <<>>>>
      [] e.shape = "repeated message" -> <<Full(e.type), <<>>>>
Fields(t) == {Schema[t].to[i] : i \in DOMAIN Schema[t].to}
Entry(t, f) == CHOOSE e \in Fields(t) : e.name = f
Names(t) == {e.name : e \in Fields(t)}
Full(t) == [f \in Names(t) |-> Typical(Entry(t, f))]

Whole == [t \in DOMAIN Schema |-> Full(t)]

Values(e) ==
    CASE e.shape = "varint" -> Numbers(e.type)
      [] e.shape = "bytes" -> Strings
      [] e.shape = "message" -> {<<>>, Whole[e.type]}
      [] e.shape = "packed" -> {<<n, n>> : n \in Numbers(e.type)}
      [] e.shape = "repeated bytes" -> {<<s, s>> : s \in Strings}
      [] e.shape = "repeated message" -> {<< <<>>, Whole[e.type] >>}

\* The messages tried: one field with each of its values, and all the fields.
Tried(t) ==
    UNION {{[f \in {e.name} |-> v] : v \in Values(e)} : e \in Fields(t)} \cup {<<>>, Whole[t]}

Init ==
    /\ type \in DOMAIN Schema
    /\ msg \in Tried(type)
    /\ buf = <<>> /\ how = "new" /\ got = Fail

\* Marshal: a buffer of Size bytes, filled by MarshalTo.
Marshal ==
    /\ how = "new"
    /\ buf' = MarshalTo(type, msg)
    /\ how' = "marshalled"
    /\ UNCHANGED <<type, msg, got>>

Arrive(b, h) ==
    /\ how = "marshalled"
    /\ buf' = b /\ how' = h
    /\ got' = Unmarshal(type, b)
    /\ UNCHANGED <<type, msg>>

Deliver == Arrive(buf, "whole")

Cut == \E n \in 0 .. Len(buf) - 1 : msg = Whole[type] /\ Arrive(SubSeq(buf, 1, n), "cut")

\* A newer sender's field, before or after the others.
Extend ==
    \E x \in Extras :
        /\ msg = Whole[type]
        /\ Arrive(x \o buf, "extended") \/ Arrive(buf \o x, "extended")

Next == Marshal \/ Deliver \/ Cut \/ Extend

Spec == Init /\ [][Next]_vars

-----------------------------------------------------------------------------
\* Size, by which Marshal allocates the buffer and a parent message writes the length
\* of its child, counts exactly the bytes that MarshalTo writes.
SizeExact == how = "marshalled" => Len(buf) = Size(type, msg)

\* Unmarshal gets back what MarshalTo wrote: every field of every message, negative
\* enums and full 64-bit numbers included.
RoundTrip == how = "whole" => got.ok /\ got.v = msg

\* What arrives of a message that is cut off is an error, unless the cut falls between
\* two fields (or two items): then it is the fields before the cut, and never part
\* of a field.
NeverHalfAField ==
    how = "cut" /\ got.ok =>
        \A f \in DOMAIN got.v :
            \/ got.v[f] = msg[f]
            \/ /\ Entry(type, f).shape \in {"repeated bytes", "repeated message"}
               /\ got.v[f] = SubSeq(msg[f], 1, Len(got.v[f]))

\* A field that the receiver does not know changes none of the others, and is there,
\* behind them, when the receiver writes the message out again.
UnknownKept ==
    how = "extended" =>
        \E x \in Extras :
            LET sent == MarshalTo(type, msg)
            IN  /\ buf \in {x \o sent, sent \o x}
                /\ got = Ok(Put(msg, Unknown, x), Len(buf) + 1)
                /\ MarshalTo(type, got.v) = sent \o x
                /\ Size(type, got.v) = Len(buf)
=============================================================================
