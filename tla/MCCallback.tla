----------------------------- MODULE MCCallback -----------------------------
(* Small instances of the callback model.                                  *)
EXTENDS CallbackProps, TLC

CONSTANTS first, second

MCCallbacks == {first, second}

\* "s<T>)<T>": an aggregate answer after a scalar and an aggregate argument;
\* "s)Z": the string return the handler refuses.
PointArgs == first :> <<"scalar", "aggr">> @@ second :> <<"scalar">>
PointRet  == first :> "aggr" @@ second :> "string"

\* "s?<T>)<T>": a type character the handler does not know; ")v".
StrangeArgs == first :> <<"scalar", "other", "aggr">> @@ second :> << >>
StrangeRet  == first :> "aggr" @@ second :> "void"
=============================================================================
