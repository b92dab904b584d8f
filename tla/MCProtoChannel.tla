-------------------------- MODULE MCProtoChannel --------------------------
EXTENDS ProtoChannel, TLC

\* One, the first number of two bytes, the largest (for an int32: -1), and the least int32.
Ones(n, last) == [i \in 1 .. n - 1 |-> 127] \o <<last>>
SomeNumbers(t) ==
    CASE t = "bool" -> {<<1>>}
      [] t = "int32" -> {<<1>>, Ones(5, 15), <<0, 0, 0, 0, 8>>}
      [] t = "uint32" -> {<<1>>, Ones(5, 15)}
      [] OTHER -> {<<1>>, <<0, 1>>, Ones(10, 1)}

\* A byte, and bytes whose length takes two.
SomeStrings == {<<200>>, [i \in 1 .. 130 |-> 7]}

\* Field 1000 as a varint, 8 bytes, bytes, a group with a varint in it, and 4 bytes.
SomeExtras ==
    {<<192, 62, 129, 1>>, <<193, 62, 1, 2, 3, 4, 5, 6, 7, 8>>, <<194, 62, 2, 255, 0>>,
     <<195, 62, 8, 1, 196, 62>>, <<197, 62, 1, 2, 3, 4>>}
=============================================================================
