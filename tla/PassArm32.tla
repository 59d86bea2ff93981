----------------------------- MODULE PassArm32 ------------------------------
(* Arguments on 32-bit ARM: dyncall_callvm_arm32_arm.c (the ATPCS and EABI  *)
(* conventions) and dyncall_callvm_arm32_arm_armhf.c (hard float), with     *)
(* their kernels; the callback's side is dyncall_args_arm32.c, with         *)
(* dyncall_callback_arm32_arm_gas.S.  The first sixteen bytes of the vector *)
(* go to r0-r3, the rest to the stack; hard float adds sixteen single       *)
(* registers, pairs of which are the double registers.                      *)
EXTENDS ArgPlaces

CONSTANT Convention   \* DC__ABI_ARM_EABI, DC__ABI_ARM_HF or neither
Conventions == {"atpcs", "eabi", "armhf"}

Sizes == [bool |-> 4, char |-> 1, short |-> 2, int |-> 4, long |-> 4,
          longlong |-> 8, pointer |-> 4, float |-> 4, double |-> 8]
HardFloat == Convention = "armhf"
Even(n) == n % 2 = 0

-----------------------------------------------------------------------------
(* The caller of ATPCS and EABI.  stack is the size of the vector.          *)

FromVector(at, n) == [k \in 1..n |-> IF at + k <= 16 THEN <<"int", at + k - 1>>
                                                     ELSE <<"stack", at + k - 17>>]
Add(c, width, n) == Placed([c EXCEPT !.stack = @ + width], FromVector(c.stack, n))
\* dc_callvm_argLongLong and argDouble; their variants for EABI align first.
AddDouble(c) ==
  Add(IF Convention = "eabi" THEN Aligned(c, 8) ELSE c, 8, 8)

PutSoft(c, t) ==
  IF Sizes[t.type] = 8 THEN AddDouble(c) ELSE Add(c, 4, Sizes[t.type])

-----------------------------------------------------------------------------
(* The caller of hard float: int counts bytes of r0-r3 (i), float single    *)
(* registers (s), aux the single registers below the next double one (d);   *)
(* the vector has sixteen bytes for r0-r3 in front of the stack.            *)

PutInt(c, n) ==
  IF c.int < 16 THEN Placed([c EXCEPT !.int = @ + 4], Bytes("int", c.int, n))
                ELSE OnStack(c, 4, n)
PutLongLong(c) ==
  LET i == 8 * ((c.int + 4) \div 8)
  IN  IF i < 16 THEN Placed([c EXCEPT !.int = i + 8], Bytes("int", i, 8))
                ELSE OnStack(Aligned([c EXCEPT !.int = i], 8), 8, 8)
PutFloat(c) ==
  LET s == c.float + 1
  IN  IF c.float < 16
        THEN Placed(IF c.aux < s THEN [c EXCEPT !.float = s, !.aux = RoundUp(s, 2)]
                                 ELSE [c EXCEPT !.float = c.aux],
                    Bytes("float", 4 * c.float, 4))
        ELSE OnStack(c, 4, 4)
PutDouble(c) ==
  IF c.aux < 16
    THEN Placed([c EXCEPT !.aux = @ + 2, !.float = IF Even(@) THEN c.aux + 2 ELSE @],
                Bytes("float", 4 * c.aux, 8))
    ELSE OnStack(Aligned([c EXCEPT !.float = 16], 8), 8, 8)

\* Hard float: the caller puts a value of this type on the stack.
Spills(c, t) == (t.type = "float" /\ c.float >= 16) \/ (t.type = "double" /\ c.aux >= 16)

PutHard(c, t) ==
  CASE t.type = "float"    -> PutFloat(c)
    [] t.type = "double"   -> PutDouble(c)
    [] t.type = "longlong" -> PutLongLong(c)
    [] OTHER               -> PutInt(c, Sizes[t.type])

Put(c, t) == IF HardFloat THEN PutHard(c, t) ELSE PutSoft(c, t)

-----------------------------------------------------------------------------
(* The callee: int is reg_count, float freg_count and aux dreg_count.       *)

ArmAlign64(c) ==
  LET d == IF c.int < 4 THEN [c EXCEPT !.int = RoundUp(@, 2)] ELSE c
  IN  IF Convention = "atpcs" THEN c
      ELSE IF d.int >= 4 THEN Aligned(d, 8) ELSE d

ArmWord(c, n) == IF c.int < 4 THEN InRegister(c, "int", 4, n) ELSE OnStack(c, 4, n)
TwoWords(c) ==
  LET first == ArmWord(ArmAlign64(c), 4)
  IN  Then(first, ArmWord(first.cur, 4))

ArmFloat(c) ==
  LET f == c.float + 1
  IN  IF HardFloat /\ c.float < 16
        THEN Placed([c EXCEPT !.float = IF Even(f) /\ f < c.aux THEN c.aux ELSE f],
                    Bytes("float", 4 * c.float, 4))
        ELSE ArmWord(c, 4)

ArmDouble(c) ==
  LET d == IF c.aux < c.float THEN RoundUp(c.float, 2) ELSE c.aux
  IN  CASE ~HardFloat            -> TwoWords(c)
        [] HardFloat /\ d < 16   -> Placed([c EXCEPT !.aux = d + 2,
                                                     !.float = IF Even(@) THEN d + 2 ELSE @],
                                           Bytes("float", 4 * d, 8))
        [] HardFloat /\ d >= 16  -> TwoWords([c EXCEPT !.aux = d, !.float = 16])

Get(c, t) ==
  CASE t.type = "float"    -> ArmFloat(c)
    [] t.type = "double"   -> ArmDouble(c)
    [] t.type = "longlong" -> TwoWords(c)
    [] OTHER               -> ArmWord(c, Sizes[t.type])
=============================================================================
