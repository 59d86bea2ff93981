------------------------------ MODULE PassX86 -------------------------------
(* Arguments on x86: the CallVM of dyncall_callvm_x86.c with the kernels of *)
(* dyncall_call_x86.S, and the callback's side in dyncall_args_x86.c,       *)
(* dyncall_callback_x86.c and .S.  All conventions use the stack; fastcall  *)
(* puts the first two words of integers in ECX and EDX, the Microsoft       *)
(* variant of thiscall the first word of all in ECX.  In all but cdecl the  *)
(* callee removes the arguments from the stack.                             *)
EXTENDS ArgPlaces

CONSTANT Convention   \* of the mode: see Conventions
Conventions == {"cdecl", "std", "fast_ms", "fast_gnu", "this_ms"}

Fast  == Convention \in {"fast_ms", "fast_gnu"}
Sizes == [bool |-> 4, char |-> 1, short |-> 2, int |-> 4, long |-> 4,
          longlong |-> 8, pointer |-> 4, float |-> 4, double |-> 8]

-----------------------------------------------------------------------------
(* The caller.  aux is mIntRegs.  The kernels of fastcall and thiscall load *)
(* registers from the beginning of the vector and push the rest; the offsets*)
(* below are those on the stack.                                            *)

\* The registers that are loaded from the vector, in bytes of it.
Loaded == CASE Fast -> 8 [] Convention = "this_ms" -> 4 [] OTHER -> 0
Add(c, width, n) ==
  LET at == c.stack - Loaded
  IN  Placed([c EXCEPT !.stack = @ + width],
             IF at < 0 THEN Bytes("int", c.stack, n) ELSE Bytes("stack", at, n))
Reset == [Start EXCEPT !.stack = IF Fast THEN 8 ELSE 0]

PutInt(c, n) ==
  IF Fast /\ c.aux < 2
    THEN Placed([c EXCEPT !.aux = @ + 1], Bytes("int", 4 * c.aux, n))
    ELSE Add(c, 4, n)
PutLongLong(c) ==
  Add([c EXCEPT !.aux = IF Convention = "fast_gnu" THEN 2 ELSE @], 8, 8)

Put(c, t) ==
  CASE t.type = "longlong" -> PutLongLong(c)
    [] t.type = "float"    -> Add(c, 4, 4)
    [] t.type = "double"   -> Add(c, 8, 8)
    [] OTHER               -> PutInt(c, Sizes[t.type])

\* Stack bytes the kernel has pushed when it calls.
Pushed(c) == IF c.stack > Loaded THEN c.stack - Loaded ELSE 0

-----------------------------------------------------------------------------
(* The callee.  aux counts the registers read (fast_count), or says that    *)
(* ECX, which is not NULL, has been read.                                   *)

DefaultI32(c, n) == OnStack(c, 4, n)
ThisI32(c, n) ==
  IF c.aux = 0 THEN Placed([c EXCEPT !.aux = 1], Bytes("int", 0, n)) ELSE DefaultI32(c, n)
FastI32(c, n) ==
  IF c.aux < 2 THEN Placed([c EXCEPT !.aux = @ + 1], Bytes("int", 4 * c.aux, n))
               ELSE DefaultI32(c, n)

GetInt(c, n) ==
  CASE Fast                   -> FastI32(c, n)
    [] Convention = "this_ms" -> ThisI32(c, n)
    [] OTHER                  -> DefaultI32(c, n)
GetLongLong(c) ==
  OnStack([c EXCEPT !.aux = IF Convention = "fast_gnu" THEN @ + 2 ELSE @], 8, 8)

Get(c, t) ==
  CASE t.type = "longlong" -> GetLongLong(c)
    [] t.type = "float"    -> OnStack(c, 4, 4)
    [] t.type = "double"   -> OnStack(c, 8, 8)
    [] OTHER               -> GetInt(c, Sizes[t.type])

-----------------------------------------------------------------------------
(* What the stub of the callback removes from the stack: dcbInitCallback2   *)
(* adds it up over the signature.  A sum has the bytes (stack) and the      *)
(* registers taken (aux).                                                   *)

TakesRegister(sum, t) ==
  /\ Fast /\ sum.aux < 2
  /\ t.type \notin {"float", "double", "longlong"}
\* Mutant: a long long leaves the registers to the arguments after it.
CleanupSizeGnu(sum, t) ==
  CASE Convention = "cdecl"  -> sum
    [] TakesRegister(sum, t) -> [sum EXCEPT !.aux = @ + 1]
    [] OTHER -> [sum EXCEPT !.stack = @ + (IF t.type \in {"double", "longlong"} THEN 8 ELSE 4)]
CleanupSize(sum, t) ==
  CASE Convention = "cdecl"  -> sum
    [] TakesRegister(sum, t) -> [sum EXCEPT !.aux = @ + 1]
    [] OTHER ->
         [sum EXCEPT !.stack = @ + (IF t.type \in {"double", "longlong"} THEN 8 ELSE 4),
                     !.aux   = IF Convention = "fast_gnu" /\ t.type = "longlong" THEN 2 ELSE @]
=============================================================================
