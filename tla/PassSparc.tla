----------------------------- MODULE PassSparc ------------------------------
(* Arguments on SPARC: dyncall_callvm_sparc.c and dyncall_args_sparc32.c    *)
(* (32 bits), dyncall_callvm_sparc64.c and dyncall_args_sparc64.c (64 bits).*)
(* Every argument has its place in the parameter area; the first six words  *)
(* of it are loaded into %o0-%o5, which the callback's stub puts back.  On  *)
(* 64 bits the first sixteen words are loaded into %f0-%f31 as well.        *)
EXTENDS ArgPlaces

CONSTANT V9   \* 64 bits: TRUE or FALSE

Word  == IF V9 THEN 8 ELSE 4
Sizes == [bool |-> 4, char |-> 1, short |-> 2, int |-> 4, long |-> Word,
          longlong |-> 8, pointer |-> Word, float |-> 4, double |-> 8]
Floating(t) == t.type \in {"float", "double"}

-----------------------------------------------------------------------------
(* The caller.                                                              *)

PutV8(c, t) ==
  IF Sizes[t.type] = 8 THEN OnStack(c, 8, 8) ELSE OnStack(c, 4, Sizes[t.type])

\* dc_callvm_argLongLong_v9 and argDouble_v9 append eight bytes; a float is the
\* second half of them.  The kernel loads the float registers from the first
\* sixteen words, whatever they are.
PutV9(c, t) ==
  LET n == Sizes[t.type]
      r == OnStack(c, 8, n)
  IN  IF c.stack < 128 THEN [r EXCEPT !.copy = Low("float", c.stack, 8, n)] ELSE r
Put(c, t) == IF V9 THEN PutV9(c, t) ELSE PutV8(c, t)

-----------------------------------------------------------------------------
(* The callee; aux is the number of arguments fetched, on 64 bits.          *)

SparcWord(c, n) == OnStack(c, 4, n)
SparcDword(c)   == OnStack(c, 8, 8)
GetV8(c, t) ==
  IF t.type \in {"longlong", "double"} THEN SparcDword(c) ELSE SparcWord(c, Sizes[t.type])

GetULongLongV9(c, n) ==
  Placed([c EXCEPT !.aux = @ + 1], Low("stack", 8 * c.aux, 8, n))
GetDoubleV9(c, n) ==
  Placed([c EXCEPT !.aux = @ + 1],
         Low(IF c.aux < 16 THEN "float" ELSE "stack", 8 * c.aux, 8, n))
GetV9(c, t) == IF Floating(t) THEN GetDoubleV9(c, Sizes[t.type])
                              ELSE GetULongLongV9(c, Sizes[t.type])

Get(c, t) == IF V9 THEN GetV9(c, t) ELSE GetV8(c, t)
=============================================================================
