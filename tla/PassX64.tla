------------------------------ MODULE PassX64 -------------------------------
(* Arguments on x86-64: the CallVM of dyncall_callvm_x64.c with the kernels *)
(* of dyncall_call_x64.S, and the callback's side in dyncall_args_x64.c and *)
(* dyncall_callback_x64.S.  System V has six integer and eight SSE registers*)
(* with a counter each; Windows has four positions that both kinds share.   *)
EXTENDS ArgPlaces, FiniteSets

CONSTANT Windows   \* DC_WINDOWS: TRUE or FALSE

NumInt    == IF Windows THEN 4 ELSE 6
NumFloat  == IF Windows THEN 4 ELSE 8
\* The counter of SSE registers; on Windows a union with the other.
SseCount  == IF Windows THEN "int" ELSE "float"
PowerOf2(n) == n \in {1, 2, 4, 8}

Sizes == [bool |-> 4, char |-> 1, short |-> 2, int |-> 4, long |-> IF Windows THEN 4 ELSE 8,
          longlong |-> 8, pointer |-> 8, float |-> 4, double |-> 8]

\* Mutant: the register of the result's address is not skipped.
SkipNothing(c) == c
SkipHidden(c) == IF c.int = c.hidden THEN [c EXCEPT !.int = @ + 1] ELSE c
Sse(c, n) == Placed([c EXCEPT ![SseCount] = @ + 1], Bytes("float", 8 * c[SseCount], n))

-----------------------------------------------------------------------------
(* The caller.                                                              *)

Through(ag) == IF Windows THEN ag.size > 8 \/ ~PowerOf2(ag.size)
                          ELSE ag.classes[1] = "MEMORY"
\* dc_callvm_begin_aggr_x64, and its variant for the methods of C++.
BeginAggr(ag, this) ==
  [Start EXCEPT !.hidden = CASE this /\ Windows  -> 1
                             [] ~(this /\ Windows) /\ (ag.nontrivial \/ Through(ag)) -> 0
                             [] OTHER            -> -1]

PutLongLong(c, n) ==
  LET d == SkipHidden(c)
  IN  IF d.int < NumInt THEN InRegister(d, "int", 8, n) ELSE OnStack(d, 8, n)

\* The kernels load the SSE registers; on Windows from the shared positions.
PutDouble(c, n) ==
  LET d == IF Windows THEN SkipHidden(c) ELSE c
  IN  IF d[SseCount] < NumFloat THEN Sse(d, n) ELSE OnStack(d, 8, n)

Count(ag, class) == Len(SelectSeq(ag.classes, LAMBDA x : x = class))
InMemory(c, ag) ==
  \/ ag.classes[1] = "MEMORY"
  \/ c.int + Count(ag, "INTEGER") > NumInt
  \/ c.float + Count(ag, "SSE") > NumFloat
EightbyteSize(ag, i) == Smaller(8, ag.size - 8 * (i - 1))

PutEightbyte(c, ag, i) ==
  IF ag.classes[i] = "INTEGER" THEN PutLongLong(c, EightbyteSize(ag, i))
                               ELSE PutDouble(c, EightbyteSize(ag, i))
PutEightbytes(c, ag) ==
  LET first == PutEightbyte(c, ag, 1)
  IN  IF Len(ag.classes) = 1 THEN first
      ELSE Then(first, PutEightbyte(first.cur, ag, 2))

\* An aggregate without a descriptor, and on Windows one of another size than
\* that of a register, is passed as the address of a copy.
PutAggr(c, ag) ==
  CASE ag.nontrivial -> PutLongLong(c, 8)
    [] ~ag.nontrivial /\ Windows ->
         PutLongLong(c, IF PowerOf2(ag.size) THEN ag.size ELSE 8)
    [] ~ag.nontrivial /\ ~Windows /\ InMemory(c, ag) ->
         Placed(Aligned([c EXCEPT !.stack = @ + ag.size], 8), Bytes("stack", c.stack, ag.size))
    [] ~ag.nontrivial /\ ~Windows /\ ~InMemory(c, ag) -> PutEightbytes(c, ag)

Put(c, t) ==
  CASE t.type = "aggr"                 -> PutAggr(c, t)
    [] t.type \in {"float", "double"}  -> PutDouble(c, Sizes[t.type])
    [] OTHER                           -> PutLongLong(c, Sizes[t.type])

\* dc_callvm_call_x64_aggr: the registers a small result is assembled from.
TakenFrom(ag, i) ==
  LET before == Cardinality({j \in 1..i - 1 : ag.classes[j] = ag.classes[i]})
  IN  Bytes(IF ag.classes[i] = "INTEGER" THEN "int" ELSE "float", 8 * before,
            EightbyteSize(ag, i))
ResultTaken(ag) ==
  CASE Windows                         -> Bytes("int", 0, ag.size)
    [] ~Windows /\ Len(ag.classes) = 1 -> TakenFrom(ag, 1)
    [] OTHER                           -> TakenFrom(ag, 1) \o TakenFrom(ag, 2)

-----------------------------------------------------------------------------
(* The callee.                                                              *)

\* dcbInitCallback2: aggr_return_register, -2 and -1 both for none.
InitCallback(ag, this) ==
  [Start EXCEPT !.hidden = CASE Windows /\ this -> 1
                             [] ~(Windows /\ this) /\ (ag.nontrivial \/ Through(ag)) -> 0
                             [] OTHER -> -1]

GetInt(c, n) ==
  LET d == SkipHidden(c)
  IN  IF d.int < NumInt THEN InRegister(d, "int", 8, n) ELSE OnStack(d, 8, n)

GetDouble(c, n) ==
  LET d == IF Windows THEN SkipHidden(c) ELSE c
  IN  IF d[SseCount] < NumFloat THEN Sse(d, n) ELSE OnStack(d, 8, n)

\* An SSE eightbyte of another size than a float or a double is refused by an
\* assertion.
GetEightbyte(c, ag, i) ==
  LET n == EightbyteSize(ag, i)
  IN  CASE ag.classes[i] = "INTEGER"             -> GetInt(c, n)
        [] ag.classes[i] = "SSE" /\ n \in {4, 8} -> GetDouble(c, n)
        [] OTHER                                 -> Nowhere(c)
GetEightbytes(c, ag) ==
  LET first == GetEightbyte(c, ag, 1)
  IN  IF Len(ag.classes) = 1 THEN first
      ELSE Then(first, GetEightbyte(first.cur, ag, 2))

GetAggr(c, ag) ==
  CASE ag.nontrivial -> GetInt(c, 8)
    [] ~ag.nontrivial /\ Windows -> GetInt(c, IF PowerOf2(ag.size) THEN ag.size ELSE 8)
    [] ~ag.nontrivial /\ ~Windows /\ InMemory(c, ag) ->
         Placed([c EXCEPT !.stack = @ + 8 * ((ag.size + 7) \div 8)],
                Bytes("stack", c.stack, ag.size))
    [] ~ag.nontrivial /\ ~Windows /\ ~InMemory(c, ag) -> GetEightbytes(c, ag)

Get(c, t) ==
  CASE t.type = "aggr"                -> GetAggr(c, t)
    [] t.type \in {"float", "double"} -> GetDouble(c, Sizes[t.type])
    [] OTHER                          -> GetInt(c, Sizes[t.type])

\* dcbReturnAggr and the end of the callback: eightbytes of a class go to the
\* registers of the class in turn.
\* Mutant: the second eightbyte goes to the second register of its class.
GivenInTurn(ag, i) ==
  Bytes(IF ag.classes[i] = "INTEGER" THEN "int" ELSE "float", 8 * (i - 1), EightbyteSize(ag, i))
GivenIn(ag, i) ==
  IF ag.classes[i] = "INTEGER"
    THEN Bytes("int", IF i = 2 /\ ag.classes[1] = "INTEGER" THEN 8 ELSE 0, EightbyteSize(ag, i))
    ELSE Bytes("float", IF i = 2 /\ ag.classes[1] = "SSE" THEN 8 ELSE 0, EightbyteSize(ag, i))
ResultGiven(ag) ==
  CASE Windows                         -> Bytes("int", 0, ag.size)
    [] ~Windows /\ Len(ag.classes) = 1 -> GivenIn(ag, 1)
    [] OTHER                           -> GivenIn(ag, 1) \o GivenIn(ag, 2)
=============================================================================
