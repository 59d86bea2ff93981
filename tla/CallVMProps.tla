---------------------------- MODULE CallVMProps ----------------------------
(* What dyncall() must do for the foreign functions it calls.              *)
EXTENDS CallVM, FiniteSets

\* Types of all variables.
TypeOK ==
  /\ vm \in [VMs -> VM]
  /\ frames \in Seq(Frame)
  /\ calls \in Nat /\ failures \in Nat /\ descriptors \in Nat

\* The mode the signature asks for at a position: the nearest prefix before it,
\* or the calling convention of the dyncall function used.
Before(f, k) == {j \in 1..k - 1 : Sig[f][j] \in Prefixes}
AskedMode(f, k) ==
  IF Before(f, k) = {} THEN "default"
  ELSE LET j == CHOOSE j \in Before(f, k) : \A i \in Before(f, k) : i <= j
       IN  IF Sig[f][j] = "_." THEN "varargs" ELSE "ellipsis"

ArgPos(f) == {k \in 1..Len(Sig[f]) : Sig[f][k] \in Words}
Asked(frame) == {<<frame.call, k, AskedMode(frame.fn, k)>> : k \in ArgPos(frame.fn)}
Found(frame) == {<<a.call, a.pos, a.mode>> : a \in frame.got}
Called(frame) == frame.pc \in {"foreign", "result"}

\* What the manual promises of every call: the foreign function finds exactly
\* the arguments its caller passed, each where the signature puts it.
ArgsDelivered == \A i \in 1..Depth : Called(frames[i]) => Found(frames[i]) = Asked(frames[i])

\* What does hold, however callbacks and finalizers re-enter the CallVM: a call
\* that allocates nothing before it calls, and whose arguments fit, finds
\* exactly its own when it starts, the copies of its large aggregates included.
Big(f) == {k \in ArgPos(f) : Sig[f][k] = "big"}
Fits(f) == 2 * Len(Sig[f]) + BigWords * Cardinality(Big(f)) <= Room
OwnArgsDelivered ==
  \A i \in 1..Depth :
    LET f == frames[i] IN
    Called(f) /\ Res[f.fn] # "aggr" /\ Fits(f.fn)
      => {<<a.call, a.pos>> : a \in f.got} = {<<f.call, k>> : k \in ArgPos(f.fn)}

\* dyncall_variadic() never passes an argument under a mode it did not ask for,
\* although an error may leave its CallVM in any mode.
VariadicModes ==
  \A i \in 1..Depth :
    LET f == frames[i] IN
    Called(f) /\ f.vm = "variadic" /\ Res[f.fn] # "aggr"
      => \A a \in f.got : a.mode = AskedMode(f.fn, a.pos)

\* As long as no call failed every descriptor belongs to a call in progress.
Quiet == frames = << >> /\ failures = 0
DescriptorsFreed == Quiet => descriptors = 0
=============================================================================
