----------------------------- MODULE PassPpc64 ------------------------------
(* Arguments on 64-bit PowerPC: dyncall_callvm_ppc64.c with its kernel, and *)
(* dyncall_args_ppc64.c with dyncall_callback_ppc64.S.  Every argument has  *)
(* eight bytes of the parameter area; in ELF v1 the caller fills them all,  *)
(* in v2 only those of arguments without a register, and the area of the    *)
(* eight registers is skipped before the first of these.                    *)
EXTENDS ArgPlaces

CONSTANT ElfV2   \* DC__ABI_PPC64_ELF_V is 2: TRUE or FALSE

NumInt   == 8
NumFloat == 13
Sizes == [bool |-> 4, char |-> 1, short |-> 2, int |-> 4, long |-> 8,
          longlong |-> 8, pointer |-> 8, float |-> 4, double |-> 8]

Fpr(c)   == Placed([c EXCEPT !.float = @ + 1], Bytes("float", 8 * c.float, 8))

-----------------------------------------------------------------------------
(* The caller; stack is the size of the vector.                             *)

Push(c) ==
  [c EXCEPT !.stack = 8 + (IF ElfV2 /\ @ = 0 THEN 8 * NumInt ELSE @)]
Pushed(c, n) ==
  LET d == Push(c)
  IN  Placed(d, Low("stack", d.stack - 8, 8, n))

PutLongLong(c, n) ==
  CASE c.int < NumInt /\ ElfV2  -> InRegister(c, "int", 8, n)
    [] c.int < NumInt /\ ~ElfV2 -> [InRegister(c, "int", 8, n) EXCEPT !.cur = Push(@)]
    [] c.int >= NumInt          -> Pushed(c, n)

\* An integer register gets the value too, for variadic callees.
FprAndGpr(c) ==
  IF c.int < NumInt THEN [Fpr([c EXCEPT !.int = @ + 1]) EXCEPT !.copy = Bytes("int", 8 * c.int, 8)]
                    ELSE Fpr(c)
PutDouble(c, n) ==
  CASE c.float >= NumFloat                               -> Pushed(c, n)
    [] c.float < NumFloat /\ c.int < NumInt /\ ElfV2     -> FprAndGpr(c)
    [] c.float < NumFloat /\ ~(c.int < NumInt /\ ElfV2)  ->
         [FprAndGpr(c) EXCEPT !.cur = Push(@)]

Put(c, t) == IF t.type \in {"float", "double"} THEN PutDouble(c, Sizes[t.type])
                                               ELSE PutLongLong(c, Sizes[t.type])

-----------------------------------------------------------------------------
(* The callee.                                                              *)

NextSlot(r) == [r EXCEPT !.cur.stack = @ + 8]
GetLongLong(c, n) ==
  IF c.int < 8 THEN NextSlot(InRegister(c, "int", 8, n)) ELSE OnStack(c, 8, n)
GetDouble(c, n) ==
  IF c.float < 13 THEN NextSlot(Fpr(IF c.int < 8 THEN [c EXCEPT !.int = @ + 1] ELSE c))
                  ELSE OnStack(c, 8, n)
Get(c, t) == IF t.type \in {"float", "double"} THEN GetDouble(c, Sizes[t.type])
                                               ELSE GetLongLong(c, Sizes[t.type])
=============================================================================
