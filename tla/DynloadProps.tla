---------------------------- MODULE DynloadProps ----------------------------
(* Properties of library handles and symbols.                               *)
EXTENDS Dynload

(* Types; no link count becomes negative and at most MaxDepth operations    *)
(* are in progress.                                                         *)
TypeOK ==
  /\ links \in [Libs -> Nat]
  /\ handle \in [Handles -> Handle]
  /\ pointer \in [Pointers -> Pointer]
  /\ wrapper \in [Names -> Pointers \cup {None}]
  /\ stack \in Seq(Frame) /\ Len(stack) <= MaxDepth
  /\ buf \in Libs \cup {None}

LiveHandles(l) == {h \in Handles : handle[h].lib = l /\ handle[h].live}

(* Every handle whose address is not NULL owns one link of its library:     *)
(* however often dynunload() and the finalizer run, none is closed twice.   *)
LinksCover == \A l \in Libs : links[l] >= Cardinality(LiveHandles(l))

(* With protect.lib = TRUE a library stays mapped while R can still reach a *)
(* symbol of it, in a variable, a wrapper of dynbind() or the arguments of a*)
(* call in progress, and also through offset_ptr(); only dynunload() by the *)
(* user breaks this.                                                        *)
ProtectedBy(p, h) ==
  /\ h # None
  /\ handle[h].lib = pointer[p].lib
  /\ handle[h].live \/ handle[h].forced
  /\ handle[h].live => links[pointer[p].lib] > 0
StaysWhileUsed ==
  \A p \in Pointers : pointer[p].asked /\ PointerReached(p) => ProtectedBy(p, pointer[p].keeps)

(* The inductive invariant: what is on the stack, in a wrapper or in an R   *)
(* variable is an object that has not been collected; a handle that has not *)
(* been collected has its link unless the user gave it up; and every        *)
(* reachable symbol that asked for protection holds its library's handle.   *)
HandlesSound ==
  \A h \in Handles : IF handle[h].lib = None THEN handle[h] = NoHandle
                                            ELSE handle[h].live \/ handle[h].forced
FramesSound ==
  \A i \in DOMAIN stack :
    /\ stack[i].op # "call" => stack[i].handle # None
    /\ stack[i].handle # None => handle[stack[i].handle].lib # None
SymbolProtected(p) ==
  LET h == pointer[p].keeps
  IN  h # None /\ pointer[p].lib # None /\ handle[h].lib = pointer[p].lib
SymbolsSound ==
  \A p \in Pointers : pointer[p].asked /\ PointerReached(p) => SymbolProtected(p)
Sound == TypeOK /\ LinksCover /\ HandlesSound /\ FramesSound /\ SymbolsSound

(* A library all of whose handles unload automatically is unmapped once     *)
(* neither a handle nor a symbol that protects one is reachable, and stays  *)
(* unmapped until it is loaded again.                                       *)
Needed(l)  == \E h \in LiveHandles(l) : HandleReached(h)
AllAuto(l) == \A h \in Handles : handle[h].lib = l => handle[h].auto
AutoUnloads ==
  \A l \in Libs : []AllAuto(l) => (~Needed(l) ~> (Needed(l) \/ links[l] = 0))
=============================================================================
