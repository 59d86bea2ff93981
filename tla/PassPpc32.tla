----------------------------- MODULE PassPpc32 ------------------------------
(* Arguments on 32-bit PowerPC: dyncall_callvm_ppc32.c with the kernels of  *)
(* dyncall_call_ppc32.S; the callback's side is dyncall_args_ppc32.c on     *)
(* Darwin and dyncall_args_ppc32_sysv.c elsewhere.  On Darwin every argument*)
(* has a place on the stack besides its registers, and a float takes the    *)
(* integer registers of its size away; in System V it has only one of them. *)
EXTENDS ArgPlaces

CONSTANT Darwin   \* DC__OS_Darwin: TRUE or FALSE

NumInt   == 8
NumFloat == IF Darwin THEN 13 ELSE 8
Sizes == [bool |-> 4, char |-> 1, short |-> 2, int |-> 4, long |-> 4,
          longlong |-> 8, pointer |-> 4, float |-> 4, double |-> 8]

\* A floating-point register holds a float as a double.
Fpr(c) == Placed([c EXCEPT !.float = @ + 1], Bytes("float", 8 * c.float, 8))
\* A register on Darwin, where the stack has room for the same bytes.
Homed(r, width) == [r EXCEPT !.cur.stack = @ + width]
\* Mutant: the counter of integer registers runs on.
SkipOn(c, words) == [c EXCEPT !.int = @ + words]
Skip(c, words) == [c EXCEPT !.int = Smaller(@ + words, NumInt)]

-----------------------------------------------------------------------------
(* The caller.                                                              *)

PutIntDarwin(c, n) ==
  IF c.int < NumInt THEN Homed(InRegister(c, "int", 4, n), 4) ELSE OnStack(c, 4, n)
PutIntSysv(c, n) ==
  IF c.int < NumInt THEN InRegister(c, "int", 4, n) ELSE OnStack(c, 4, n)

\* The integer registers get the value too, for variadic callees.
Copied(r, c, words) ==
  [r EXCEPT !.copy = Bytes("int", 4 * c.int, 4 * Smaller(words, NumInt - c.int))]
PutDoubleDarwin(c) ==
  IF c.float < NumFloat THEN Copied(Homed(Fpr(Skip(c, 2)), 8), c, 2) ELSE OnStack(c, 8, 8)
PutDoubleSysv(c) ==
  IF c.float < NumFloat THEN Fpr(c) ELSE OnStack(Aligned(c, 8), 8, 8)

PutFloatDarwin(c) ==
  LET d == Skip(c, 1)
  IN  Copied(IF c.float < NumFloat THEN Homed(Fpr(d), 4) ELSE OnStack(d, 4, 4), c, 1)
PutFloatSysv(c) ==
  IF c.float < NumFloat THEN Fpr(c) ELSE OnStack(c, 4, 4)

PutLongLongDarwin(c) ==
  LET first == PutIntDarwin(c, 4)
  IN  Then(first, PutIntDarwin(first.cur, 4))
\* Two registers, the first of which is even, or eight bytes of the stack.
PutLongLongSysv(c) ==
  LET even == RoundUp(c.int, 2)
  IN  IF c.int < NumInt - 1
        THEN Placed([c EXCEPT !.int = even + 2], Bytes("int", 4 * even, 8))
        ELSE OnStack(Aligned([c EXCEPT !.int = NumInt], 8), 8, 8)

PutDarwin(c, t) ==
  CASE t.type = "longlong" -> PutLongLongDarwin(c)
    [] t.type = "float"    -> PutFloatDarwin(c)
    [] t.type = "double"   -> PutDoubleDarwin(c)
    [] OTHER               -> PutIntDarwin(c, Sizes[t.type])
PutSysv(c, t) ==
  CASE t.type = "longlong" -> PutLongLongSysv(c)
    [] t.type = "float"    -> PutFloatSysv(c)
    [] t.type = "double"   -> PutDoubleSysv(c)
    [] OTHER               -> PutIntSysv(c, Sizes[t.type])
Put(c, t) == IF Darwin THEN PutDarwin(c, t) ELSE PutSysv(c, t)

-----------------------------------------------------------------------------
(* The callee.                                                              *)

Fetch(c, width, n) ==
  IF c.int < NumInt THEN Homed(InRegister(c, "int", 4, n), width) ELSE OnStack(c, width, n)
GetLongLongDarwin(c) ==
  LET first == Fetch(c, 4, 4)
  IN  Then(first, Fetch(first.cur, 4, 4))
GetDoubleDarwin(c) ==
  LET d == CASE c.int < 7 -> [c EXCEPT !.int = @ + 2]
             [] c.int = 7 -> [c EXCEPT !.int = 8]
             [] OTHER     -> c
  IN  IF d.float < 13 THEN Homed(Fpr(d), 8) ELSE OnStack(d, 8, 8)
GetFloatDarwin(c) ==
  LET d == IF c.int < 8 THEN [c EXCEPT !.int = @ + 1] ELSE c
  IN  IF d.float < 13 THEN Homed(Fpr(d), 4) ELSE OnStack(d, 4, 4)
GetDarwin(c, t) ==
  CASE t.type = "longlong" -> GetLongLongDarwin(c)
    [] t.type = "float"    -> GetFloatDarwin(c)
    [] t.type = "double"   -> GetDoubleDarwin(c)
    [] OTHER               -> Fetch(c, 4, Sizes[t.type])

GetIntSysv(c, n) ==
  IF c.int < 8 THEN InRegister(c, "int", 4, n) ELSE OnStack(c, 4, n)
GetLongLongSysv(c) ==
  IF c.int < 7
    THEN LET i == RoundUp(c.int, 2)
         IN  Placed([c EXCEPT !.int = i + 2], Bytes("int", 4 * i, 8))
    ELSE OnStack(Aligned([c EXCEPT !.int = 8], 8), 8, 8)
GetDoubleSysv(c) == IF c.float < 8 THEN Fpr(c) ELSE OnStack(Aligned(c, 8), 8, 8)
GetFloatSysv(c)  == IF c.float < 8 THEN Fpr(c) ELSE OnStack(c, 4, 4)
GetSysv(c, t) ==
  CASE t.type = "longlong" -> GetLongLongSysv(c)
    [] t.type = "float"    -> GetFloatSysv(c)
    [] t.type = "double"   -> GetDoubleSysv(c)
    [] OTHER               -> GetIntSysv(c, Sizes[t.type])

Get(c, t) == IF Darwin THEN GetDarwin(c, t) ELSE GetSysv(c, t)
=============================================================================
