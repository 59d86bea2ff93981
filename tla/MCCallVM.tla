------------------------------ MODULE MCCallVM ------------------------------
(* Small instances of the CallVM model: two registers, a few stack words.   *)
EXTENDS CallVMProps, TLC

CONSTANTS plain, struct, variadic, large, long

\* "i<P>)*<T>", "i)<P>", "_ei_.i)i", "<B>i)i" with a large B, and one that
\* overflows, "<P><P><P><P><P>i)i".
MCSig == plain :> <<"word", "pair">> @@ struct :> <<"word">>
      @@ variadic :> <<"_e", "word", "_.", "word">>
      @@ large :> <<"big", "word">>
      @@ long :> <<"pair", "pair", "pair", "pair", "pair", "word">>
MCRes == plain :> "typed" @@ struct :> "aggr" @@ variadic :> "scalar"
      @@ large :> "scalar" @@ long :> "scalar"

AllFunctions       == {plain, struct, variadic, large, long}
PlainAndStruct     == {plain, struct}
PlainAndVariadic   == {plain, variadic}
OnlyLarge          == {large}

SigOf(functions) == [f \in functions |-> MCSig[f]]
ResOf(functions) == [f \in functions |-> MCRes[f]]
AllSig == SigOf(AllFunctions)
AllRes == ResOf(AllFunctions)
StructSig == SigOf(PlainAndStruct)
StructRes == ResOf(PlainAndStruct)
VariadicSig == SigOf(PlainAndVariadic)
VariadicRes == ResOf(PlainAndVariadic)
LargeSig == SigOf(OnlyLarge)
LargeRes == ResOf(OnlyLarge)
=============================================================================
