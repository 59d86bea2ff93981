----------------------------- MODULE ArgPassing -----------------------------
(* A call through dyncall to a callback of dyncallback: the caller places   *)
(* its arguments one by one (dcArgInt, dcArgAggr, ...), the callback takes  *)
(* them in the same order from the registers and the stack that its stub    *)
(* has saved (dcbArgInt, dcbArgAggr, ...).  Nothing but the calling         *)
(* convention connects the two sides: each has counters of its own, in a    *)
(* file of its own, and has to arrive at the same places.                   *)
(*                                                                          *)
(* The sides are stepped together.  That loses nothing: the caller's        *)
(* counters do not depend on the callee's, and all of the places are filled *)
(* before the first is read.                                                *)
EXTENDS AggrClasses

CONSTANTS Abis,        \* calling conventions, a subset of AllAbis
          Aggregates,  \* aggregates passed or returned by value
          MaxStack     \* bound: stack bytes beyond those that registers double

Sysv        == INSTANCE PassX64 WITH BigEndian <- FALSE, Windows <- FALSE
Win64       == INSTANCE PassX64 WITH BigEndian <- FALSE, Windows <- TRUE
Arm64       == INSTANCE PassArm64 WITH BigEndian <- FALSE, Apple <- FALSE
Apple64     == INSTANCE PassArm64 WITH BigEndian <- FALSE, Apple <- TRUE
Riscv64     == INSTANCE PassRiscv64 WITH BigEndian <- FALSE
Cdecl       == INSTANCE PassX86 WITH BigEndian <- FALSE, Convention <- "cdecl"
Std         == INSTANCE PassX86 WITH BigEndian <- FALSE, Convention <- "std"
FastMs      == INSTANCE PassX86 WITH BigEndian <- FALSE, Convention <- "fast_ms"
FastGnu     == INSTANCE PassX86 WITH BigEndian <- FALSE, Convention <- "fast_gnu"
ThisMs      == INSTANCE PassX86 WITH BigEndian <- FALSE, Convention <- "this_ms"
Atpcs       == INSTANCE PassArm32 WITH BigEndian <- FALSE, Convention <- "atpcs"
Eabi        == INSTANCE PassArm32 WITH BigEndian <- FALSE, Convention <- "eabi"
Armhf       == INSTANCE PassArm32 WITH BigEndian <- FALSE, Convention <- "armhf"
Ppc32       == INSTANCE PassPpc32 WITH BigEndian <- TRUE, Darwin <- FALSE
Ppc32Darwin == INSTANCE PassPpc32 WITH BigEndian <- TRUE, Darwin <- TRUE
Ppc64       == INSTANCE PassPpc64 WITH BigEndian <- TRUE, ElfV2 <- FALSE
Ppc64Elf2   == INSTANCE PassPpc64 WITH BigEndian <- FALSE, ElfV2 <- TRUE
O32         == INSTANCE PassMips WITH BigEndian <- TRUE, Convention <- "o32", HardFloat <- TRUE
O32Soft     == INSTANCE PassMips WITH BigEndian <- FALSE, Convention <- "o32", HardFloat <- FALSE
N64         == INSTANCE PassMips WITH BigEndian <- TRUE, Convention <- "n64", HardFloat <- TRUE
N64Soft     == INSTANCE PassMips WITH BigEndian <- TRUE, Convention <- "n64", HardFloat <- FALSE
MipsEabi    == INSTANCE PassMips WITH BigEndian <- FALSE, Convention <- "eabi", HardFloat <- TRUE
Sparc       == INSTANCE PassSparc WITH BigEndian <- TRUE, V9 <- FALSE
Sparc64     == INSTANCE PassSparc WITH BigEndian <- TRUE, V9 <- TRUE

AggrAbis == {"sysv", "win64", "arm64", "apple64"}
X86Abis  == {"cdecl", "std", "fast_ms", "fast_gnu", "this_ms"}
MipsAbis == {"o32", "o32_soft", "n64", "n64_soft", "mips_eabi"}
AllAbis  == AggrAbis \cup X86Abis \cup MipsAbis \cup
            {"riscv64", "atpcs", "eabi", "armhf", "ppc32", "ppc32_darwin",
             "ppc64", "ppc64_elf2", "sparc", "sparc64"}

ASSUME AbisAssumption  == Abis \subseteq AllAbis
ASSUME StackAssumption == MaxStack \in Nat

\* What ByValue makes of a structure without unions of floats: the callback takes
\* no SSE eightbyte but a float or a double (GetEightbyte), and the fields of a
\* homogeneous aggregate lie side by side.
ASSUME AggregatesAssumption ==
  \A ag \in Aggregates :
    /\ ag.type = "aggr" /\ ag.size \in Nat /\ ag.nontrivial \in BOOLEAN
    /\ \/ ag.classes = <<"MEMORY">>
       \/ /\ ag.classes \in UNION {[1..n -> {"INTEGER", "SSE"}] : n \in {1, 2}}
          /\ \A i \in DOMAIN ag.classes :
               ag.classes[i] = "SSE" => ag.size = 8 * i - 4 \/ ag.size >= 8 * i
    /\ ag.hfa \in 0..MaxHfaFields
    /\ ag.hfa > 0 => ag.elem \in {4, 8} /\ ag.size = ag.hfa * ag.elem

Put(abi, c, t) ==
  CASE abi = "sysv"         -> Sysv!Put(c, t)
    [] abi = "win64"        -> Win64!Put(c, t)
    [] abi = "arm64"        -> Arm64!Put(c, t)
    [] abi = "apple64"      -> Apple64!Put(c, t)
    [] abi = "riscv64"      -> Riscv64!Put(c, t)
    [] abi = "cdecl"        -> Cdecl!Put(c, t)
    [] abi = "std"          -> Std!Put(c, t)
    [] abi = "fast_ms"      -> FastMs!Put(c, t)
    [] abi = "fast_gnu"     -> FastGnu!Put(c, t)
    [] abi = "this_ms"      -> ThisMs!Put(c, t)
    [] abi = "atpcs"        -> Atpcs!Put(c, t)
    [] abi = "eabi"         -> Eabi!Put(c, t)
    [] abi = "armhf"        -> Armhf!Put(c, t)
    [] abi = "ppc32"        -> Ppc32!Put(c, t)
    [] abi = "ppc32_darwin" -> Ppc32Darwin!Put(c, t)
    [] abi = "ppc64"        -> Ppc64!Put(c, t)
    [] abi = "ppc64_elf2"   -> Ppc64Elf2!Put(c, t)
    [] abi = "o32"          -> O32!Put(c, t)
    [] abi = "o32_soft"     -> O32Soft!Put(c, t)
    [] abi = "n64"          -> N64!Put(c, t)
    [] abi = "n64_soft"     -> N64Soft!Put(c, t)
    [] abi = "mips_eabi"    -> MipsEabi!Put(c, t)
    [] abi = "sparc"        -> Sparc!Put(c, t)
    [] abi = "sparc64"      -> Sparc64!Put(c, t)

Get(abi, c, t) ==
  CASE abi = "sysv"         -> Sysv!Get(c, t)
    [] abi = "win64"        -> Win64!Get(c, t)
    [] abi = "arm64"        -> Arm64!Get(c, t)
    [] abi = "apple64"      -> Apple64!Get(c, t)
    [] abi = "riscv64"      -> Riscv64!Get(c, t)
    [] abi = "cdecl"        -> Cdecl!Get(c, t)
    [] abi = "std"          -> Std!Get(c, t)
    [] abi = "fast_ms"      -> FastMs!Get(c, t)
    [] abi = "fast_gnu"     -> FastGnu!Get(c, t)
    [] abi = "this_ms"      -> ThisMs!Get(c, t)
    [] abi = "atpcs"        -> Atpcs!Get(c, t)
    [] abi = "eabi"         -> Eabi!Get(c, t)
    [] abi = "armhf"        -> Armhf!Get(c, t)
    [] abi = "ppc32"        -> Ppc32!Get(c, t)
    [] abi = "ppc32_darwin" -> Ppc32Darwin!Get(c, t)
    [] abi = "ppc64"        -> Ppc64!Get(c, t)
    [] abi = "ppc64_elf2"   -> Ppc64Elf2!Get(c, t)
    [] abi = "o32"          -> O32!Get(c, t)
    [] abi = "o32_soft"     -> O32Soft!Get(c, t)
    [] abi = "n64"          -> N64!Get(c, t)
    [] abi = "n64_soft"     -> N64Soft!Get(c, t)
    [] abi = "mips_eabi"    -> MipsEabi!Get(c, t)
    [] abi = "sparc"        -> Sparc!Get(c, t)
    [] abi = "sparc64"      -> Sparc64!Get(c, t)

\* The types of arguments.  The backends without AggrAbis have no dcArgAggr.
ScalarNames == {"bool", "char", "short", "int", "long", "longlong", "pointer",
                "float", "double"}
Scalars     == {[type |-> n] : n \in ScalarNames}
Types(abi)  == Scalars \cup (IF abi \in AggrAbis THEN Aggregates ELSE {})
NoAggr      == [type |-> "scalar"]
Results(abi) == {NoAggr} \cup (IF abi \in AggrAbis THEN Aggregates ELSE {})

-----------------------------------------------------------------------------
(* What the two sides do about the result before the first argument.        *)

Zero == [int |-> 0, float |-> 0, stack |-> 0, aux |-> 0, hidden |-> -1]

CallerStart(abi, ag, this) ==
  CASE ag # NoAggr /\ abi = "sysv"    -> Sysv!BeginAggr(ag, this)
    [] ag # NoAggr /\ abi = "win64"   -> Win64!BeginAggr(ag, this)
    [] ag # NoAggr /\ abi = "arm64"   -> Arm64!BeginAggr(ag)
    [] ag # NoAggr /\ abi = "apple64" -> Apple64!BeginAggr(ag)
    [] abi \in {"fast_ms", "fast_gnu"} -> FastMs!Reset
    [] OTHER -> Zero

CalleeStart(abi, ag, this) ==
  CASE ag # NoAggr /\ abi = "sysv"    -> Sysv!InitCallback(ag, this)
    [] ag # NoAggr /\ abi = "win64"   -> Win64!InitCallback(ag, this)
    [] ag # NoAggr /\ abi = "arm64"   -> Arm64!InitCallback(ag)
    [] ag # NoAggr /\ abi = "apple64" -> Apple64!InitCallback(ag)
    [] OTHER -> Zero

ResultTaken(abi, ag) ==
  CASE abi = "sysv"    -> Sysv!ResultTaken(ag)
    [] abi = "win64"   -> Win64!ResultTaken(ag)
    [] abi = "arm64"   -> Arm64!ResultTaken(ag)
    [] abi = "apple64" -> Apple64!ResultTaken(ag)
ResultGiven(abi, ag) ==
  CASE abi = "sysv"    -> Sysv!ResultGiven(ag)
    [] abi = "win64"   -> Win64!ResultGiven(ag)
    [] abi = "arm64"   -> Arm64!ResultGiven(ag)
    [] abi = "apple64" -> Apple64!ResultGiven(ag)

\* Bytes the callback's stub removes from the stack, and those the caller's
\* kernel has pushed, in the conventions where the callee cleans up.
CleanupSize(abi, sum, t) ==
  CASE abi = "std"      -> Std!CleanupSize(sum, t)
    [] abi = "fast_ms"  -> FastMs!CleanupSize(sum, t)
    [] abi = "fast_gnu" -> FastGnu!CleanupSize(sum, t)
    [] abi = "this_ms"  -> ThisMs!CleanupSize(sum, t)
    [] OTHER            -> sum
Pushed(abi, c) ==
  CASE abi = "std"      -> Std!Pushed(c)
    [] abi = "fast_ms"  -> FastMs!Pushed(c)
    [] abi = "fast_gnu" -> FastGnu!Pushed(c)
    [] abi = "this_ms"  -> ThisMs!Pushed(c)

-----------------------------------------------------------------------------
VARIABLES abi, result, method, put, got, used, top, sum
vars == <<abi, result, method, put, got, used, top, sum>>
\* abi: of the call; result: the aggregate it returns; method: is it one of C++.
\* put: the caller's counters.  got: the callee's counters.
\* used: registers that hold something.  top: the end of the stack's arguments.
\* sum: what the callback's stub will remove from the stack.

RegisterSize == IF abi \in AggrAbis \cup {"riscv64", "ppc64", "ppc64_elf2", "n64",
                                          "n64_soft", "sparc64"} THEN 8 ELSE 4
CellsOf(r)     == {r.at[k] : k \in DOMAIN r.at} \cup {r.copy[k] : k \in DOMAIN r.copy}
RegistersOf(r) == {<<cell[1], cell[2] \div RegisterSize>> :
                     cell \in {x \in CellsOf(r) : x[1] # "stack"}}
StackOf(r)     == {cell[2] : cell \in {x \in CellsOf(r) : x[1] = "stack"}}
After(n, offsets) == CHOOSE m \in {n} \cup {k + 1 : k \in offsets} :
                       \A k \in {n} \cup {k + 1 : k \in offsets} : k <= m

\* Bytes at the beginning of the caller's vector for arguments in registers.
HomeArea == CASE abi \in {"ppc32_darwin", "ppc64", "ppc64_elf2"} -> 104
              [] abi = "sparc64" -> 128
              [] abi = "sparc"   -> 24
              [] abi \in {"o32", "o32_soft", "atpcs", "eabi"} -> 16
              [] abi \in {"fast_ms", "fast_gnu"} -> 8
              [] OTHER -> 0

\* The first argument of a method is the object.  ARM hard float is followed up
\* to the first float that goes to the stack while core registers are free: the
\* callback takes it from one of those (arm_float and arm_double go on to arm_word).
MayPass(t) ==
  /\ \/ abi # "this_ms" /\ ~method
     \/ put # CallerStart(abi, result, method)
     \/ t.type = "pointer"
  /\ abi = "armhf" /\ put.int < 16 => ~Armhf!Spills(put, t)

Init ==
  /\ abi \in Abis
  /\ result \in Results(abi)
  /\ method \in (IF abi = "win64" THEN BOOLEAN ELSE {FALSE})
  /\ put = CallerStart(abi, result, method)
  /\ got = CalleeStart(abi, result, method)
  /\ used = IF put.hidden >= 0 THEN {<<"int", put.hidden>>} ELSE {}
  /\ top = 0
  /\ sum = Zero

\* dcArg<Type> in the caller, dcbArg<Type> in the callback, and the step of
\* dcbInitCallback2 over the character of the signature.
Pass(t) ==
  LET r == Put(abi, put, t)
  IN  /\ MayPass(t)
      /\ r.cur.stack <= HomeArea + MaxStack
      /\ put'  = r.cur
      /\ got'  = Get(abi, got, t).cur
      /\ used' = used \cup RegistersOf(r)
      /\ top'  = After(top, StackOf(r))
      /\ sum'  = CleanupSize(abi, sum, t)
      /\ UNCHANGED <<abi, result, method>>

Next == \E t \in Types(abi) : Pass(t)
Spec == Init /\ [][Next]_vars
=============================================================================
