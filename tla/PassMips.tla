------------------------------ MODULE PassMips ------------------------------
(* Arguments on MIPS: dyncall_callvm_mips_o32.c, _n64.c and _eabi.c with    *)
(* their kernels, and on the callback's side dyncall_args_mips_o32.c,       *)
(* dyncall_args_mips64.c and dyncall_args_mips.c with their stubs.          *)
(*   o32:  all arguments are on the stack, the first 16 bytes of which are  *)
(*         loaded into $4-$7; the callback's stub puts these back.  The     *)
(*         first two floats are in $f12 and $f14 besides.                   *)
(*   n64:  eight registers of each kind, with one counter for both.         *)
(*   eabi: eight integer registers, with pairs for 64 bits, and eight       *)
(*         single-precision ones.                                           *)
EXTENDS ArgPlaces

CONSTANTS Convention,  \* DC__ABI_MIPS_O32, _N64 or _EABI
          HardFloat    \* DC__ABI_HARDFLOAT
Conventions == {"o32", "n64", "eabi"}

Word  == IF Convention = "n64" THEN 8 ELSE 4
Sizes == [bool |-> 4, char |-> 1, short |-> 2, int |-> 4, long |-> Word,
          longlong |-> 8, pointer |-> Word, float |-> 4, double |-> 8]
Floating(t) == t.type \in {"float", "double"}

-----------------------------------------------------------------------------
(* The caller.                                                              *)

\* o32; aux is mArgCount.
PutO32(c, t) ==
  LET n == Sizes[t.type]
      d == IF n = 8 THEN Aligned(c, 8) ELSE c
      r == OnStack([d EXCEPT !.aux = @ + 1], IF n = 8 THEN 8 ELSE 4, n)
  IN  IF HardFloat /\ Floating(t) /\ c.aux < 2
        THEN [r EXCEPT !.copy = Low("float", 8 * c.aux, 8, n)] ELSE r

\* n64; int is mRegCount.  A float is at the low end of a register, and at the
\* beginning of eight bytes of the stack.
PutLongLongN64(c, n) ==
  IF c.int < 8 THEN InRegister(c, "int", 8, n) ELSE OnStack(c, 8, n)
PutDoubleN64(c) ==
  CASE HardFloat /\ c.int < 8 -> Placed([c EXCEPT !.int = @ + 1], Bytes("float", 8 * c.int, 8))
    [] HardFloat /\ c.int >= 8 -> OnStack(c, 8, 8)
    [] ~HardFloat              -> PutLongLongN64(c, 8)
PutFloatN64(c) ==
  IF c.int < 8
    THEN Placed([c EXCEPT !.int = @ + 1],
                Low(IF HardFloat THEN "float" ELSE "int", 8 * c.int, 8, 4))
    ELSE Placed([c EXCEPT !.stack = @ + 8], Bytes("stack", c.stack, 4))
PutN64(c, t) ==
  CASE t.type = "double" -> PutDoubleN64(c)
    [] t.type = "float"  -> PutFloatN64(c)
    [] OTHER             -> PutLongLongN64(c, Sizes[t.type])

\* eabi; int is mIntRegs, float mSingleRegs.
PutIntEabi(c, n) ==
  IF c.int < 8 THEN InRegister(c, "int", 4, n) ELSE OnStack(c, 4, n)
PutLongLongEabi(c) ==
  LET even == RoundUp(c.int, 2)
  IN  IF c.int < 7 THEN Placed([c EXCEPT !.int = even + 2], Bytes("int", 4 * even, 8))
                   ELSE OnStack(Aligned([c EXCEPT !.int = 8], 8), 8, 8)
PutFloatEabi(c) ==
  IF c.float < 8 THEN InRegister(c, "float", 4, 4) ELSE OnStack(c, 4, 4)
PutEabi(c, t) ==
  CASE t.type \in {"longlong", "double"} -> PutLongLongEabi(c)
    [] t.type = "float"                  -> PutFloatEabi(c)
    [] OTHER                             -> PutIntEabi(c, Sizes[t.type])

Put(c, t) ==
  CASE Convention = "o32"  -> PutO32(c, t)
    [] Convention = "n64"  -> PutN64(c, t)
    [] Convention = "eabi" -> PutEabi(c, t)

-----------------------------------------------------------------------------
(* The callee.                                                              *)

\* o32; float is freg_count.  The saved $f12 and $f14 are found by the pointer
\* to the arguments, sixteen bytes above them.
GetIntO32(c, n) == OnStack([c EXCEPT !.float = 2], 4, n)
GetLongLongO32(c) == OnStack(Aligned([c EXCEPT !.float = 2], 8), 8, 8)
GetFloatO32(c) ==
  IF HardFloat /\ c.float < 2
    THEN Placed([c EXCEPT !.float = @ + 1, !.stack = @ + 4],
                Low("float", RoundUp(c.stack, 8), 8, 4))
    ELSE OnStack(c, 4, 4)
GetDoubleO32(c) ==
  LET d == Aligned(c, 8)
  IN  IF HardFloat /\ c.float < 2
        THEN Placed([d EXCEPT !.float = @ + 1, !.stack = @ + 8], Bytes("float", d.stack, 8))
        ELSE OnStack(d, 8, 8)
GetO32(c, t) ==
  CASE t.type = "longlong" -> GetLongLongO32(c)
    [] t.type = "float"    -> GetFloatO32(c)
    [] t.type = "double"   -> GetDoubleO32(c)
    [] OTHER               -> GetIntO32(c, Sizes[t.type])

\* n64; int is reg_count.  Without FPU both kinds are a union.
FregData == IF HardFloat THEN "float" ELSE "int"
GetLongLongN64(c, n) ==
  IF c.int < 8 THEN InRegister(c, "int", 8, n) ELSE OnStack(c, 8, n)
GetDoubleN64(c) ==
  IF c.int < 8 THEN Placed([c EXCEPT !.int = @ + 1], Bytes(FregData, 8 * c.int, 8))
               ELSE OnStack(c, 8, 8)
GetFloatN64(c) ==
  IF c.int < 8 THEN Placed([c EXCEPT !.int = @ + 1], Low(FregData, 8 * c.int, 8, 4))
               ELSE Placed([c EXCEPT !.stack = @ + 8], Bytes("stack", c.stack, 4))
GetN64(c, t) ==
  CASE t.type = "double" -> GetDoubleN64(c)
    [] t.type = "float"  -> GetFloatN64(c)
    [] OTHER             -> GetLongLongN64(c, Sizes[t.type])

\* eabi; int is reg_count.i, float reg_count.f.  The pointer to the stack is
\* aligned whether or not the value is there.
GetIntEabi(c, n) ==
  IF c.int < 8 THEN InRegister(c, "int", 4, n) ELSE OnStack(c, 4, n)
GetLongLongEabi(c) ==
  LET first == GetIntEabi(Aligned([c EXCEPT !.int = RoundUp(@, 2)], 8), 4)
  IN  Then(first, GetIntEabi(first.cur, 4))
GetFloatEabi(c) ==
  IF c.float < 8 THEN InRegister(c, "float", 4, 4) ELSE OnStack(c, 4, 4)
GetEabi(c, t) ==
  CASE t.type \in {"longlong", "double"} -> GetLongLongEabi(c)
    [] t.type = "float"                  -> GetFloatEabi(c)
    [] OTHER                             -> GetIntEabi(c, Sizes[t.type])

Get(c, t) ==
  CASE Convention = "o32"  -> GetO32(c, t)
    [] Convention = "n64"  -> GetN64(c, t)
    [] Convention = "eabi" -> GetEabi(c, t)
=============================================================================
