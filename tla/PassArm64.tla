----------------------------- MODULE PassArm64 ------------------------------
(* Arguments on AArch64: dyncall_callvm_arm64.c and _apple.c with           *)
(* dyncall_callvm_arm64_aggr.c and the kernels of dyncall_call_arm64.S; the *)
(* callback's side is dyncall_args_arm64.c and _apple.c, with               *)
(* dyncall_callback_arm64.c and .S.  Eight registers of each kind; on Apple *)
(* an argument on the stack takes its own size, elsewhere eight bytes.      *)
EXTENDS ArgPlaces

CONSTANT Apple   \* DC__OS_Darwin: TRUE or FALSE

NumRegs == 8
Sizes == [bool |-> 4, char |-> 1, short |-> 2, int |-> 4, long |-> 8,
          longlong |-> 8, pointer |-> 8, float |-> 4, double |-> 8]

\* Homogeneous floating-point aggregates have up to four fields, all floats or
\* all doubles; `hfa` counts them, and `elem` is the size of one.
IsHfa(ag)  == ~ag.nontrivial /\ ag.hfa > 0
Chunks(ag) == RoundUp(ag.size, 8) \div 8
\* Field k of an HFA at the beginning of the k-th register from `first` on.
HfaPlace(first, ag) ==
  [b \in 1..ag.size |-> <<"float", 8 * (first + ((b - 1) \div ag.elem)) + ((b - 1) % ag.elem)>>]
\* x8 holds the address of a result that does not fit the registers.
Hidden(ag) == IF ag.nontrivial \/ (~IsHfa(ag) /\ ag.size > 16) THEN 8 ELSE -1

-----------------------------------------------------------------------------
(* The caller.                                                              *)

BeginAggr(ag) == [Start EXCEPT !.hidden = Hidden(ag)]

\* dcVecAlign and dcVecAppend on Apple; a_i64 and the padded floats elsewhere.
Add(c, n) == IF Apple THEN OnStack(Aligned(c, n), n, n) ELSE OnStack(c, 8, n)

PutInt(c, n) ==
  IF c.int < NumRegs THEN InRegister(c, "int", 8, n) ELSE Add(c, n)
PutFloat(c, n) ==
  IF c.float < NumRegs THEN InRegister(c, "float", 8, n) ELSE Add(c, n)

\* dc_arm64_append_stack with padding.
AddAggr(c, ag) ==
  LET d == Aligned(c, 8)
  IN  Placed([d EXCEPT !.stack = @ + RoundUp(ag.size, 8)], Bytes("stack", d.stack, ag.size))

\* Mutant: the registers that are left stay in use.
PutHfaOnward(c, ag) ==
  IF c.float + ag.hfa <= NumRegs
    THEN Placed([c EXCEPT !.float = @ + ag.hfa], HfaPlace(c.float, ag))
    ELSE AddAggr(c, ag)
PutHfa(c, ag) ==
  IF c.float + ag.hfa <= NumRegs
    THEN Placed([c EXCEPT !.float = @ + ag.hfa], HfaPlace(c.float, ag))
    ELSE AddAggr([c EXCEPT !.float = NumRegs], ag)

PutSmall(c, ag) ==
  IF c.int + Chunks(ag) <= NumRegs
    THEN Placed([c EXCEPT !.int = @ + Chunks(ag)], Bytes("int", 8 * c.int, ag.size))
    ELSE AddAggr([c EXCEPT !.int = NumRegs], ag)

\* A large aggregate is copied into the vector and passed as an address.
PutAggr(c, ag) ==
  CASE IsHfa(ag)                                         -> PutHfa(c, ag)
    [] ~IsHfa(ag) /\ ~ag.nontrivial /\ ag.size <= 16    -> PutSmall(c, ag)
    [] OTHER                                             -> PutInt(c, 8)

Put(c, t) ==
  CASE t.type = "aggr"                 -> PutAggr(c, t)
    [] t.type \in {"float", "double"}  -> PutFloat(c, Sizes[t.type])
    [] OTHER                           -> PutInt(c, Sizes[t.type])

\* dc_callvm_callAggr_arm64: the result is copied from the saved registers.
ResultTaken(ag) ==
  IF IsHfa(ag) THEN HfaPlace(0, ag) ELSE Bytes("int", 0, ag.size)

-----------------------------------------------------------------------------
(* The callee.                                                              *)

\* dcbInitCallback2: the stub passes x8 on if the mode is HIDDEN.
InitCallback(ag) ==
  LET mode == CASE ag.nontrivial -> "hidden"
                [] IsHfa(ag)     -> "fields"
                [] OTHER         -> IF ag.size > 16 THEN "hidden" ELSE "int"
  IN  [Start EXCEPT !.hidden = IF mode = "hidden" THEN 8 ELSE -1]

\* On Apple DCArgs aligns its pointer to the type; elsewhere it counts words.
Fetch(c, n) == IF Apple THEN OnStack(Aligned(c, n), n, n) ELSE OnStack(c, 8, n)

GetInt(c, n) ==
  IF c.int < NumRegs THEN InRegister(c, "int", 8, n) ELSE Fetch(c, n)
GetFloat(c, n) ==
  IF c.float < NumRegs THEN InRegister(c, "float", 8, n) ELSE Fetch(c, n)

CopyStack(c, ag) ==
  LET d == Aligned(c, 8)
  IN  Placed([d EXCEPT !.stack = @ + RoundUp(ag.size, 8)], Bytes("stack", d.stack, ag.size))

GetHfa(c, ag) ==
  IF c.float + ag.hfa <= NumRegs
    THEN Placed([c EXCEPT !.float = @ + ag.hfa], HfaPlace(c.float, ag))
    ELSE CopyStack([c EXCEPT !.float = NumRegs], ag)

GetSmall(c, ag) ==
  IF c.int + Chunks(ag) <= NumRegs
    THEN Placed([c EXCEPT !.int = @ + Chunks(ag)], Bytes("int", 8 * c.int, ag.size))
    ELSE CopyStack([c EXCEPT !.int = NumRegs], ag)

GetAggr(c, ag) ==
  CASE ag.nontrivial \/ (~IsHfa(ag) /\ ag.size > 16) -> GetInt(c, 8)
    [] IsHfa(ag)                                      -> GetHfa(c, ag)
    [] OTHER                                          -> GetSmall(c, ag)

Get(c, t) ==
  CASE t.type = "aggr"                -> GetAggr(c, t)
    [] t.type \in {"float", "double"} -> GetFloat(c, Sizes[t.type])
    [] OTHER                          -> GetInt(c, Sizes[t.type])

\* dcbReturnAggr, and what the stub loads by aggr_ret_mode.
ResultGiven(ag) ==
  IF IsHfa(ag) THEN HfaPlace(0, ag) ELSE Bytes("int", 0, ag.size)
=============================================================================
