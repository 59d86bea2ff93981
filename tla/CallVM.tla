------------------------------- MODULE CallVM -------------------------------
(***************************************************************************)
(* dyncall(): C_dyncall of src/rdyncall.c loads the arguments of one       *)
(* foreign call into a CallVM and calls.  A CallVM belongs to the package, *)
(* not to the call: .onLoad creates one per calling convention and every   *)
(* call of that convention shares it.  Nothing on the way from dcReset to  *)
(* the return of the foreign function locks it.                            *)
(*                                                                         *)
(* Calls nest.  The foreign function may call back into R, whose code may  *)
(* dyncall again; and where C_dyncall allocates an R result, a collection  *)
(* may run an R finalizer that does.  Placement follows the AArch64        *)
(* backend for scalars and aggregates, in words of eight bytes: registers  *)
(* first, then the vector, which grows upwards; an aggregate of more than  *)
(* two words is copied to the end of the vector and passed by its address. *)
(***************************************************************************)
EXTENDS Integers, Sequences

CONSTANTS
  Functions,      \* foreign functions, with their signatures:
  Sig,            \* [Functions -> Seq(Tokens)], the part before ')'
  Res,            \* [Functions -> ResKinds], the part behind it
  NRegs,          \* argument registers
  Room,           \* words in the argument vector (option rdyncall.callvm.size)
  BigWords,       \* words of a large aggregate, rounded up to 16 bytes
  FinalizersCall, \* may R finalizers call dyncall()?
  MaxDepth,       \* bound: calls in progress at once
  MaxCalls        \* bound: calls altogether

Aggregates == {"pair", "big"}                \* of 9..16 bytes; of more
Words    == {"word"} \cup Aggregates
Prefixes == {"_e", "_."}
Tokens   == Words \cup Prefixes
ResKinds == {"scalar", "typed", "aggr"}      \* "typed": a "*<Type>" pointer
Modes    == {"default", "ellipsis", "varargs"}
VMs      == {"default", "variadic"}          \* callvm.default, callvm.variadic

ASSUME CallVMAssumption ==
  /\ Sig \in [Functions -> Seq(Tokens)]
  /\ Res \in [Functions -> ResKinds]
  /\ NRegs \in Nat /\ Room \in Nat /\ BigWords \in Nat
  /\ MaxDepth \in Nat /\ MaxCalls \in Nat
  /\ FinalizersCall \in BOOLEAN

VARIABLES
  vm,          \* [VMs -> VM]
  frames,      \* the C_dyncall activations in progress, innermost last
  calls,       \* calls begun so far: the next call's identity
  failures,    \* calls that ended in an R error
  descriptors  \* DCaggr descriptors allocated and not freed
vars == <<vm, frames, calls, failures, descriptors>>

\* An argument in place: whose, which one, the mode it was placed by, its n words
\* of the vector from "at" on (none in registers), and the m words from "copy" on
\* that its address points to.
Arg == [call : Nat, pos : Nat, mode : Modes, at : Nat, n : Nat, copy : Int, m : Nat]

\* A word of the vector: of which argument, as a value or as a copy.
Word   == [call : Nat, pos : Nat, part : {"value", "copy", "nothing"}]
Blank  == [call |-> 0, pos |-> 0, part |-> "nothing"]
WordOf(arg, part) == [call |-> arg.call, pos |-> arg.pos, part |-> part]

VM == [mode : Modes, args : SUBSET Arg, regs : Nat, used : Nat, copied : Nat,
       mem : [1..Room -> Word]]

Pcs == {"loading", "allocating", "foreign", "result"}
Frame == [call : Nat, fn : Functions, vm : VMs, pc : Pcs, next : Nat,
          aggrs : Nat, got : SUBSET Arg]

Depth == Len(frames)
Top   == frames[Depth]
At(pc) == frames # << >> /\ Top.pc = pc
SetTop(frame) == frames' = [frames EXCEPT ![Depth] = frame]

\* R code runs at top level, in a callback of the foreign function, and in the
\* finalizers of a collection while a result is allocated.
RRuns ==
  \/ frames = << >> \/ At("foreign")
  \/ FinalizersCall /\ (At("allocating") \/ At("result"))

\* dyncall_variadic_signature: a variadic call names its modes itself.
Variadic(f) == Len(Sig[f]) > 0 /\ Sig[f][1] = "_e"

Init ==
  /\ vm = [v \in VMs |-> [mode |-> "default", args |-> {}, regs |-> 0, used |-> 0,
                          copied |-> 0, mem |-> [w \in 1..Room |-> Blank]]]
  /\ frames = << >>
  /\ calls = 0 /\ failures = 0 /\ descriptors = 0

\* dcReset forgets the arguments; the mode stays what the last call made it.
Reset(machine) == [machine EXCEPT !.args = {}, !.regs = 0, !.used = 0, !.copied = 0]

\* Mutant: only the first call finds a clean CallVM.
BeginUnreset(v, f) ==
  LET aggrs == IF Res[f] = "aggr" THEN 1 ELSE 0 IN
  /\ RRuns /\ Depth < MaxDepth /\ calls < MaxCalls
  /\ v = "variadic" => Variadic(f)
  /\ UNCHANGED vm
  /\ frames' = Append(frames, [call |-> calls, fn |-> f, vm |-> v, pc |-> "loading",
                               next |-> 0, aggrs |-> aggrs, got |-> {}])
  /\ calls' = calls + 1
  /\ descriptors' = descriptors + aggrs
  /\ UNCHANGED failures

\* C_dyncall up to the argument loop: dcReset, and the return descriptor.
Begin(v, f) ==
  LET aggrs == IF Res[f] = "aggr" THEN 1 ELSE 0 IN
  /\ RRuns /\ Depth < MaxDepth /\ calls < MaxCalls
  /\ v = "variadic" => Variadic(f)
  /\ vm' = [vm EXCEPT ![v] = Reset(@)]
  /\ frames' = Append(frames, [call |-> calls, fn |-> f, vm |-> v, pc |-> "loading",
                               next |-> 0, aggrs |-> aggrs, got |-> {}])
  /\ calls' = calls + 1
  /\ descriptors' = descriptors + aggrs
  /\ UNCHANGED failures

Size(token) == CASE token = "word" -> 1 [] token = "pair" -> 2 [] token = "big" -> BigWords

Fill(mem, cells, word) == [w \in DOMAIN mem |-> IF w \in cells THEN word ELSE mem[w]]

Cells(arg)  == arg.at..arg.at + arg.n - 1
Copied(arg) == arg.copy..arg.copy + arg.m - 1

\* The address of a large aggregate takes a register or a word like any pointer
\* (not for varargs, whose aggregates go to the vector whole).
ByAddress(machine, token) == token = "big" /\ machine.mode # "varargs"

\* dcVecAppend ignores what does not fit, and says nothing.
ToVector(machine, arg) ==
  IF machine.used + arg.n > Room THEN machine
  ELSE [machine EXCEPT !.args = @ \cup {arg}, !.used = @ + arg.n,
                       !.mem = Fill(@, Cells(arg), WordOf(arg, "value"))]

\* Registers while all of the argument fits (never for varargs), else the
\* vector; an aggregate that spills closes the registers.
InRegisters(machine, n) == machine.mode # "varargs" /\ machine.regs + n <= NRegs

PlaceWords(machine, arg, n) ==
  IF InRegisters(machine, n)
  THEN [machine EXCEPT !.args = @ \cup {arg}, !.regs = @ + n]
  ELSE ToVector([machine EXCEPT !.regs = IF n = 2 /\ machine.mode # "varargs" THEN NRegs ELSE @],
                [arg EXCEPT !.at = machine.used + 1, !.n = n])

\* A copy is written below the last one; nobody compares it with the arguments
\* that grow towards it.
Place(machine, call, pos, token) ==
  LET arg == [call |-> call, pos |-> pos, mode |-> machine.mode,
              at |-> 1, n |-> 0, copy |-> 1, m |-> 0]
      far == [arg EXCEPT !.copy = Room - machine.copied - BigWords + 1, !.m = BigWords]
  IN  IF ByAddress(machine, token)
      THEN PlaceWords([machine EXCEPT !.copied = @ + BigWords,
                                      !.mem = Fill(@, Copied(far), WordOf(far, "copy"))], far, 1)
      ELSE PlaceWords(machine, arg, Size(token))

\* What of an argument the foreign function can find in the machine.
Whole(machine, arg) ==
  /\ \A w \in Cells(arg) : machine.mem[w] = WordOf(arg, "value")
  /\ \A w \in Copied(arg) : w >= 1 /\ machine.mem[w] = WordOf(arg, "copy")

Token == Sig[Top.fn][Top.next + 1]
More  == Top.next < Len(Sig[Top.fn])

\* One turn of the argument loop.
LoadArg ==
  /\ At("loading") /\ More /\ Token \in Words
  /\ vm' = [vm EXCEPT ![Top.vm] =
              Place(@, Top.call, Top.next + 1, Token)]
  /\ SetTop([Top EXCEPT !.next = @ + 1, !.aggrs = IF Token \in Aggregates THEN @ + 1 ELSE @])
  /\ descriptors' = descriptors + (IF Token \in Aggregates THEN 1 ELSE 0)
  /\ UNCHANGED <<calls, failures>>

\* Mutant: the fixed-argument prefix does not leave the varargs mode.
SwitchModeSticky ==
  /\ At("loading") /\ More /\ Token \in Prefixes
  /\ vm' = [vm EXCEPT ![Top.vm].mode =
              IF Token = "_." \/ @ = "varargs" THEN "varargs" ELSE "ellipsis"]
  /\ SetTop([Top EXCEPT !.next = @ + 1])
  /\ UNCHANGED <<calls, failures, descriptors>>

\* A calling convention prefix sets the mode of the shared CallVM.
SwitchMode ==
  /\ At("loading") /\ More /\ Token \in Prefixes
  /\ vm' = [vm EXCEPT ![Top.vm].mode = IF Token = "_." THEN "varargs" ELSE "ellipsis"]
  /\ SetTop([Top EXCEPT !.next = @ + 1])
  /\ UNCHANGED <<calls, failures, descriptors>>

Pop == frames' = SubSeq(frames, 1, Depth - 1)

\* Rf_error out of the loop (arity, type, signature), where a result cannot be
\* allocated, or for a malformed typed result.  No descriptor is freed.
Fail ==
  /\ At("loading") \/ At("allocating") \/ At("result")
  /\ Pop
  /\ failures' = failures + 1
  /\ UNCHANGED <<vm, calls, descriptors>>

\* An aggregate result is allocated before the call ...
Allocate ==
  /\ At("loading") /\ ~More /\ Res[Top.fn] = "aggr"
  /\ SetTop([Top EXCEPT !.pc = "allocating"])
  /\ UNCHANGED <<vm, calls, failures, descriptors>>

\* ... then the foreign function is given what the CallVM holds now: registers and
\* vector are copied, large aggregates stay where they are.
Call ==
  /\ \/ At("loading") /\ ~More /\ Res[Top.fn] # "aggr"
     \/ At("allocating")
  /\ SetTop([Top EXCEPT !.pc = "foreign", 
                          !.got = {a \in vm[Top.vm].args : Whole(vm[Top.vm], a)}])
  /\ UNCHANGED <<vm, calls, failures, descriptors>>

ForeignReturns ==
  /\ At("foreign")
  /\ SetTop([Top EXCEPT !.pc = "result"])
  /\ UNCHANGED <<vm, calls, failures, descriptors>>

\* Mutant: nested descriptors are freed once with their parent, once alone.
FinishFreesTwice ==
  /\ At("result")
  /\ Pop
  /\ descriptors' = descriptors - 2 * Top.aggrs
  /\ UNCHANGED <<vm, calls, failures>>

\* Mutant: the return descriptor is forgotten.
FinishKeepsReturn ==
  /\ At("result")
  /\ Pop
  /\ descriptors' = descriptors - (IF Res[Top.fn] = "aggr" THEN Top.aggrs - 1 ELSE Top.aggrs)
  /\ UNCHANGED <<vm, calls, failures>>

\* The R result is made and the call's descriptors are freed.
Finish ==
  /\ At("result")
  /\ Pop
  /\ descriptors' = descriptors - Top.aggrs
  /\ UNCHANGED <<vm, calls, failures>>

Next ==
  \/ \E v \in VMs, f \in Functions : Begin(v, f)
  \/ LoadArg \/ SwitchMode \/ Fail \/ Allocate \/ Call \/ ForeignReturns \/ Finish

Spec == Init /\ [][Next]_vars
=============================================================================
