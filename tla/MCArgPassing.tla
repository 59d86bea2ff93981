---------------------------- MODULE MCArgPassing ----------------------------
(* Instances of ArgPassing for TLC: the aggregates are those whose classes  *)
(* or whose passing differ in some convention.                              *)
EXTENDS ArgPassingProps

F(type, offset)        == [type |-> type, offset |-> offset, len |-> 1]
Array(type, offset, n) == [type |-> type, offset |-> offset, len |-> n]
Sub(ag, offset, n)     == [type |-> "aggr", offset |-> offset, len |-> n, sub |-> ag]
Struct(size, align, fields) == [size |-> size, align |-> align, fields |-> fields]

Char3      == Struct(3, 1, <<Array("char", 0, 3)>>)
Floats2    == Struct(8, 4, <<Array("float", 0, 2)>>)
Floats3    == Struct(12, 4, <<F("float", 0), Sub(Floats2, 4, 1)>>)
Doubles2   == Struct(16, 8, <<F("double", 0), F("double", 8)>>)
IntsFloat  == Struct(12, 4, <<Array("int", 0, 2), F("float", 8)>>)
FloatInt   == Struct(8, 4, <<F("float", 0), F("int", 4)>>)
Mixed2     == Struct(16, 4, <<Sub(FloatInt, 0, 2)>>)
DoubleLong == Struct(16, 8, <<F("double", 0), F("longlong", 8)>>)
LongDouble == Struct(16, 8, <<Sub(Struct(8, 8, <<F("long", 0)>>), 0, 1), F("double", 8)>>)
Longs2     == Struct(16, 8, <<Array("longlong", 0, 2)>>)
Longs3     == Struct(24, 8, <<Array("longlong", 0, 3)>>)
Packed     == Struct(9, 1, <<F("char", 0), F("double", 1)>>)
PackedEnd  == Struct(13, 1, <<F("long", 0), F("char", 8), F("int", 9)>>)
Union      == Struct(8, 8, <<F("double", 0), F("int", 0)>>)
Twice      == Struct(16, 8, <<F("double", 0), Sub(Struct(8, 4, <<Sub(Floats2, 0, 1)>>), 8, 1)>>)

Wrapped    == Struct(12, 4, <<Sub(IntsFloat, 0, 1)>>)

Plain == {Wrapped, Char3, Floats2, Floats3, Doubles2, IntsFloat, Mixed2,
          DoubleLong, LongDouble, Longs2, Longs3, Packed, PackedEnd, Union, Twice}
\* In all of them but Floats3 a nested structure begins where an eightbyte does.
ASSUME RegularInstances == \A ag \in Plain \ {Floats3} : Regular(ag)

\* An object of C++ that has to be copied by the caller: no descriptor.
Object == [ByValue(Struct(8, 8, <<F("double", 0)>>)) EXCEPT !.nontrivial = TRUE]
MCAggregates == {ByValue(ag) : ag \in Plain} \cup {Object}

\* Structures that begin behind the start of an eightbyte.
FloatMixed  == Struct(12, 4, <<F("float", 0), Sub(FloatInt, 4, 1)>>)
FloatChar3  == Struct(8, 4, <<F("float", 0), Sub(Char3, 4, 1)>>)
NestedAggregates ==
  {ByValue(ag) : ag \in {Floats2, Mixed2, FloatMixed, FloatChar3}}
=============================================================================
