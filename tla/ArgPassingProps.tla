-------------------------- MODULE ArgPassingProps ---------------------------
(* What a calling convention promises to the two sides of a call.           *)
EXTENDS ArgPassing

Counters == [int : Nat, float : Nat, stack : Nat, aux : Nat, hidden : Int]

\* Every counter stays a natural number, and no side takes more registers than
\* there are of them: mIntRegs, reg_count and their like index arrays.
TypeOK ==
  /\ abi \in Abis /\ result \in Results(abi) /\ method \in BOOLEAN
  /\ put \in Counters /\ got \in Counters /\ sum \in Counters
  /\ put.int <= 16 /\ put.float <= 16 /\ got.int <= 16 /\ got.float <= 16
  /\ top \in Nat

\* Whatever arguments went before, the bytes of the next one are where the
\* callback will look for them: the caller's and the callee's counters, which
\* different files advance, never drift apart (dcArg* against dcbArg*).
Agree ==
  \A t \in Types(abi) :
    MayPass(t) => Get(abi, got, t).at \in {Put(abi, put, t).at, Put(abi, put, t).copy}

\* No argument is put into a register or a stack byte that holds an earlier one
\* or the address of the result (argAggr, alignment, the skipped registers).
NothingOverwritten ==
  \A t \in Types(abi) :
    LET r == Put(abi, put, t)
    IN  /\ RegistersOf(r) \cap used = {}
        /\ \A k \in StackOf(r) : k >= top

\* Where the callee cleans the stack, the stub of the callback removes what the
\* caller's kernel has pushed: dcbInitCallback2 sums up the same arguments.
CleanedUp ==
  abi \in {"std", "fast_ms", "fast_gnu"} => sum.stack = Pushed(abi, put)

\* Both sides agree on whether the caller has passed an address for the result,
\* and if not on the registers the aggregate comes back in.
ReturnAgrees ==
  /\ put.hidden = got.hidden
  /\ result # NoAggr /\ put.hidden = -1 =>
       ResultTaken(abi, result) = ResultGiven(abi, result)

\* An eightbyte of an aggregate goes to the register of the kind that the ABI
\* asks for, whatever structures are nested in it: dc_get_sysv_class_for_8byte
\* finds the class of every field that reaches into the eightbyte.
ClassesRight ==
  abi = "sysv" /\ result # NoAggr /\ ~result.nontrivial =>
    result.classes = AbiClasses(result.of)

-----------------------------------------------------------------------------
(* The aggregates for which it is proved: fields lie inside of them, arrays *)
(* have an element, the first eightbyte is not all padding, and a nested    *)
(* structure, or an array of them, begins where an eightbyte does, wherever *)
(* its parent is.                                                           *)

Simple(f) == f.type \in DOMAIN FieldSizes
Inside(f, ag) ==
  f.offset \in Nat /\ f.len \in Nat \ {0} /\ f.offset + FieldSize(f) * f.len <= ag.size
Nests(f, base) ==
  /\ f.type = "aggr" /\ f.sub.size \in Nat \ {0} /\ f.sub.align \in {1, 2, 4, 8}
  /\ (base + f.offset) % 8 = 0
RegularInnermost(ag) == \A f \in Fields(ag) : Simple(f) /\ Inside(f, ag)
RegularInner(ag, base) ==
  \A f \in Fields(ag) :
    /\ Inside(f, ag)
    /\ Simple(f) \/ (Nests(f, base) /\ RegularInnermost(f.sub))
RegularField(f, ag) ==
  /\ Inside(f, ag)
  /\ \/ Simple(f)
     \/ /\ Nests(f, 0)
        /\ \A j \in 0..(f.len - 1) : RegularInner(f.sub, f.offset + f.sub.size * j)
Regular(ag) ==
  /\ ag.size \in Nat
  /\ \E s \in AllScalars(ag) : s.at < 8
  /\ \A f \in Fields(ag) : RegularField(f, ag)
=============================================================================
