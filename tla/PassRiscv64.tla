---------------------------- MODULE PassRiscv64 -----------------------------
(* Arguments on 64-bit RISC-V: dyncall_callvm_riscv64.c with its kernel and *)
(* dyncall_args_riscv64.c with dyncall_callback_riscv64.S.  Eight registers *)
(* of each kind; floats go on in the integer registers that are left.       *)
EXTENDS ArgPlaces

NumRegs == 8
Sizes == [bool |-> 4, char |-> 1, short |-> 2, int |-> 4, long |-> 8,
          longlong |-> 8, pointer |-> 8, float |-> 4, double |-> 8]

\* The caller.
PutInt(c, n) ==
  IF c.int < NumRegs THEN InRegister(c, "int", 8, n) ELSE OnStack(c, 8, n)
PutFloat(c, n) ==
  CASE c.float < NumRegs                       -> InRegister(c, "float", 8, n)
    [] c.float >= NumRegs /\ c.int < NumRegs   -> InRegister(c, "int", 8, n)
    [] c.float >= NumRegs /\ c.int >= NumRegs  -> OnStack(c, 8, n)
Put(c, t) == IF t.type \in {"float", "double"} THEN PutFloat(c, Sizes[t.type])
                                               ELSE PutInt(c, Sizes[t.type])

\* The callee.
GetInt(c, n) ==
  IF c.int < NumRegs THEN InRegister(c, "int", 8, n) ELSE OnStack(c, 8, n)
GetFloat(c, n) ==
  IF c.float < NumRegs THEN InRegister(c, "float", 8, n)
  ELSE IF c.int < NumRegs THEN InRegister(c, "int", 8, n)
  ELSE OnStack(c, 8, n)
Get(c, t) == IF t.type \in {"float", "double"} THEN GetFloat(c, Sizes[t.type])
                                               ELSE GetInt(c, Sizes[t.type])
=============================================================================
