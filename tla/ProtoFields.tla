---------------------------- MODULE ProtoFields ----------------------------
(***************************************************************************)
(* The entries of the tables that stand for the generated MarshalTo, Size  *)
(* and Unmarshal methods.  The last argument is what the method writes     *)
(* down for the field: MarshalTo the bytes of its tag, Size the bytes it   *)
(* counts for the tag (for a bool: tag and value), Unmarshal the number of *)
(* its case.                                                               *)
(***************************************************************************)

Field(shape, name, ty, x) == [shape |-> shape, name |-> name, type |-> ty, x |-> x]

V(name, ty, x) == Field("varint", name, ty, x)           \* number, bool or enum (an int32)
B(name, x) == Field("bytes", name, "", x)                \* []byte or string
M(name, ty, x) == Field("message", name, ty, x)          \* pointer to a message
P(name, ty, x) == Field("packed", name, ty, x)           \* packed repeated numbers
RB(name, x) == Field("repeated bytes", name, "", x)      \* [][]byte or []string
RM(name, ty, x) == Field("repeated message", name, ty, x)

Codec(to, size, from) == [to |-> to, size |-> size, from |-> from]
=============================================================================
