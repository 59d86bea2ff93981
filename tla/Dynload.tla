------------------------------- MODULE Dynload -------------------------------
(***************************************************************************)
(* Library handles and symbols: src/rdynload.c with the wrappers of        *)
(* R/dynload.R, and R/dynbind.R on top of them.  The dynamic linker counts *)
(* the links to a library (dlopen, dlclose) and unmaps it at zero.  Handles*)
(* and symbol addresses are R external pointers: the collector decides when*)
(* the last reference to one is gone, and a finalizer then closes the link.*)
(*                                                                         *)
(* Three operations take time, in which other R code (callbacks of foreign *)
(* code, finalizers run by an allocation) may do anything: a call of a     *)
(* foreign function, dynpath(), and dynbind().                             *)
(***************************************************************************)
EXTENDS Naturals, Sequences, FiniteSets

CONSTANTS
  Libs,      \* libraries the linker can find
  Handles,   \* external pointers tagged as library handles
  Pointers,  \* external pointers to symbols
  Names,     \* symbol names; a wrapper has the name of its symbol
  Exports,   \* [Libs -> SUBSET Names]
  Tables,    \* signature tables given to dynbind(): sequences of entries
  MaxDepth,  \* bound: operations in progress at a time
  MaxLinks   \* bound: links to one library

CONSTANTS None, Malformed   \* no object; a table entry without '('

ASSUME DynloadAssumption ==
  /\ None \notin Libs \cup Handles \cup Pointers
  /\ Malformed \notin Names
  /\ Exports \in [Libs -> SUBSET Names]
  /\ Tables \subseteq Seq(Names \cup {Malformed})
  /\ MaxDepth \in Nat /\ MaxLinks \in Nat
  /\ IsFiniteSet(Handles)

VARIABLES
  links,    \* [Libs -> Nat]: the linker's reference counts
  handle,   \* [Handles -> the external pointer's fields, see Handle]
  pointer,  \* [Pointers -> the external pointer's fields, see Pointer]
  wrapper,  \* [Names -> Pointers or None]: the address in the body of a wrapper
  stack,    \* operations in progress, the innermost last
  buf       \* dynpath()'s static buffer: the library whose path it holds
vars == <<links, handle, pointer, wrapper, stack, buf>>

\* live: the address is not NULL.  held: an R variable refers to the object.
\* forced (history): the user called dynunload() on it.
Handle  == [lib : Libs \cup {None}, live : BOOLEAN, auto : BOOLEAN, held : BOOLEAN,
            forced : BOOLEAN]
\* keeps: the handle at the end of the chain of R_ExternalPtrProtected.
\* asked (history): protection was asked for.
Pointer == [lib : Libs \cup {None}, keeps : Handles \cup {None}, asked : BOOLEAN,
            held : BOOLEAN]
NoHandle  == [lib |-> None, live |-> FALSE, auto |-> FALSE, held |-> FALSE, forced |-> FALSE]
NoPointer == [lib |-> None, keeps |-> None, asked |-> FALSE, held |-> FALSE]

Ops   == {"call", "alloc", "mkchar", "bind"}
Frame == [op : Ops, handle : Handles \cup {None}, pointer : Pointers \cup {None},
          todo : Seq(Names \cup {Malformed})]
Top      == stack[Len(stack)]
Below    == SubSeq(stack, 1, Len(stack) - 1)
Push(f)  == Len(stack) < MaxDepth /\ stack' = Append(stack, f)
Continue(f) == stack' = Append(Below, f)
At(op)   == stack # <<>> /\ Top.op = op

InProgress(field) == {stack[i][field] : i \in DOMAIN stack}
\* What the collector must keep: R variables, arguments of calls in progress,
\* wrappers, and what those protect.
PointerReached(p) ==
  pointer[p].held \/ p \in InProgress("pointer") \/ \E n \in Names : wrapper[n] = p
HandleReached(h) ==
  \/ handle[h].held \/ h \in InProgress("handle")
  \/ \E p \in Pointers : pointer[p].keeps = h /\ PointerReached(p)

Usable(h) == handle[h].held /\ handle[h].lib # None

Init ==
  /\ links = [l \in Libs |-> 0]
  /\ handle = [h \in Handles |-> NoHandle]
  /\ pointer = [p \in Pointers |-> NoPointer]
  /\ wrapper = [n \in Names |-> None]
  /\ stack = <<>>
  /\ buf = None

-----------------------------------------------------------------------------
(* Loading and unloading.                                                  *)

Linked(l)   == links' = [links EXCEPT ![l] = @ + 1]
Unlinked(l) == links' = [links EXCEPT ![l] = @ - 1]

\* C_dynload with the handle that is made of its result.
NewHandle(h, l, auto, held) ==
  /\ handle[h] = NoHandle /\ ~HandleReached(h)
  /\ links[l] < MaxLinks
  /\ Linked(l)
  /\ handle' = [handle EXCEPT ![h] = [lib |-> l, live |-> TRUE, auto |-> auto,
                                      held |-> held, forced |-> FALSE]]

DynLoad(h, l, auto) ==
  /\ NewHandle(h, l, auto, TRUE)
  /\ UNCHANGED <<pointer, wrapper, stack, buf>>

\* Mutant: C_dynunload does not look at the address.
DynUnloadAgain(h) ==
  /\ Usable(h)
  /\ Unlinked(handle[h].lib)
  /\ handle' = [handle EXCEPT ![h].live = FALSE, ![h].forced = TRUE]
  /\ UNCHANGED <<pointer, wrapper, stack, buf>>

\* dynunload() of a handle that is in an R variable; C_dynunload does nothing
\* for a handle that is cleared already.
DynUnload(h) ==
  /\ Usable(h)
  /\ \/ handle[h].live /\ Unlinked(handle[h].lib)
     \/ ~handle[h].live /\ UNCHANGED links
  /\ handle' = [handle EXCEPT ![h].live = FALSE, ![h].forced = TRUE]
  /\ UNCHANGED <<pointer, wrapper, stack, buf>>

\* Mutant: no finalizer was registered.
CollectHandleOnly(h) ==
  /\ handle[h] # NoHandle /\ ~HandleReached(h)
  /\ handle' = [handle EXCEPT ![h] = NoHandle]
  /\ UNCHANGED <<links, pointer, wrapper, stack, buf>>

\* Mutant: the finalizer of a handle that was unloaded already unloads again.
CollectHandleTwice(h) ==
  /\ handle[h] # NoHandle /\ ~HandleReached(h)
  /\ IF handle[h].auto THEN Unlinked(handle[h].lib) ELSE UNCHANGED links
  /\ handle' = [handle EXCEPT ![h] = NoHandle]
  /\ UNCHANGED <<pointer, wrapper, stack, buf>>

\* The collector takes a handle; dynload() registered dynunload() as its
\* finalizer if auto.unload was asked for.
CollectHandle(h) ==
  /\ handle[h] # NoHandle /\ ~HandleReached(h)
  /\ IF handle[h].auto /\ handle[h].live THEN Unlinked(handle[h].lib)
                                         ELSE UNCHANGED links
  /\ handle' = [handle EXCEPT ![h] = NoHandle]
  /\ UNCHANGED <<pointer, wrapper, stack, buf>>

CollectPointer(p) ==
  /\ pointer[p] # NoPointer /\ ~PointerReached(p)
  /\ pointer' = [pointer EXCEPT ![p] = NoPointer]
  /\ UNCHANGED <<links, handle, wrapper, stack, buf>>

DropHandle(h) ==
  /\ handle[h].held
  /\ handle' = [handle EXCEPT ![h].held = FALSE]
  /\ UNCHANGED <<links, pointer, wrapper, stack, buf>>

DropPointer(p) ==
  /\ pointer[p].held
  /\ pointer' = [pointer EXCEPT ![p].held = FALSE]
  /\ UNCHANGED <<links, handle, wrapper, stack, buf>>

-----------------------------------------------------------------------------
(* Symbols.                                                                *)

NewPointer(p, h, protect, held) ==
  /\ pointer[p] = NoPointer /\ ~PointerReached(p)
  /\ pointer' = [pointer EXCEPT ![p] =
       [lib |-> handle[h].lib, keeps |-> IF protect THEN h ELSE None,
        asked |-> protect, held |-> held]]

\* C_dynsym of a symbol the library has; C_checked_libhandle refuses a handle
\* that is cleared.
DynSym(h, p, protect) ==
  /\ Usable(h) /\ handle[h].live
  /\ NewPointer(p, h, protect, TRUE)
  /\ UNCHANGED <<links, handle, wrapper, stack, buf>>

\* Mutant: the new pointer protects nothing.
OffsetPtrLoose(p, q) ==
  /\ pointer[p].held /\ pointer[q] = NoPointer /\ ~PointerReached(q)
  /\ pointer' = [pointer EXCEPT ![q] = [pointer[p] EXCEPT !.keeps = None]]
  /\ UNCHANGED <<links, handle, wrapper, stack, buf>>

\* C_offsetptr: the new pointer protects the one it was made of.
OffsetPtr(p, q) ==
  /\ pointer[p].held /\ pointer[q] = NoPointer /\ ~PointerReached(q)
  /\ pointer' = [pointer EXCEPT ![q] = [pointer[p] EXCEPT !.held = TRUE]]
  /\ UNCHANGED <<links, handle, wrapper, stack, buf>>

\* dyncall() of an address, from an R variable or the body of a wrapper.
Call(p) ==
  /\ pointer[p] # NoPointer
  /\ pointer[p].held \/ \E n \in Names : wrapper[n] = p
  /\ Push([op |-> "call", handle |-> None, pointer |-> p, todo |-> <<>>])
  /\ UNCHANGED <<links, handle, pointer, wrapper, buf>>

Return ==
  /\ At("call")
  /\ stack' = Below
  /\ UNCHANGED <<links, handle, pointer, wrapper, buf>>

-----------------------------------------------------------------------------
(* C_dynpath: the address is read from the handle, the result vector is    *)
(* allocated, the linker writes the path into the static buffer, a string  *)
(* is allocated, and the buffer is copied into it (Rf_mkCharCE).           *)

DynPath(h) ==
  /\ Usable(h) /\ handle[h].live
  /\ Push([op |-> "alloc", handle |-> h, pointer |-> None, todo |-> <<>>])
  /\ UNCHANGED <<links, handle, pointer, wrapper, buf>>

\* dlGetLibraryPath; a library that is not mapped is not found, and the result
\* is NA.
PathQuery ==
  /\ At("alloc")
  /\ LET l == handle[Top.handle].lib
     IN  \/ /\ links[l] > 0
            /\ buf' = l
            /\ Continue([Top EXCEPT !.op = "mkchar"])
         \/ /\ links[l] = 0
            /\ stack' = Below
            /\ UNCHANGED buf
  /\ UNCHANGED <<links, handle, pointer, wrapper>>

PathReturn ==
  /\ At("mkchar")
  /\ stack' = Below
  /\ UNCHANGED <<links, handle, pointer, wrapper, buf>>

-----------------------------------------------------------------------------
(* dynbind(): one wrapper per entry of the table.  Its variable "libh"     *)
(* refers to the handle until it returns it in the report.                 *)

\* dynbind_resolve_libhandle with a handle of the user's.
Bind(h, table) ==
  /\ Usable(h) /\ handle[h].live
  /\ Push([op |-> "bind", handle |-> h, pointer |-> None, todo |-> table])
  /\ UNCHANGED <<links, handle, pointer, wrapper, buf>>

\* dynbind_resolve_libhandle with names: dynload() or dynfind(), which ends in
\* dynload(); auto.unload has its default.
BindLoad(h, l, table) ==
  /\ NewHandle(h, l, TRUE, FALSE)
  /\ Push([op |-> "bind", handle |-> h, pointer |-> None, todo |-> table])
  /\ UNCHANGED <<pointer, wrapper, buf>>

\* One entry.  A finalizer may have unloaded the library since the last one:
\* dynsym() then fails, as does a malformed entry, and what is bound remains.
BindFails ==
  /\ At("bind") /\ Top.todo # <<>>
  /\ Head(Top.todo) = Malformed \/ ~handle[Top.handle].live
  /\ stack' = Below
  /\ UNCHANGED <<links, handle, pointer, wrapper, buf>>

BindNext(p) ==
  /\ At("bind") /\ Top.todo # <<>>
  /\ handle[Top.handle].live
  /\ Head(Top.todo) \in Exports[handle[Top.handle].lib]
  /\ NewPointer(p, Top.handle, TRUE, FALSE)
  /\ wrapper' = [wrapper EXCEPT ![Head(Top.todo)] = p]
  /\ Continue([Top EXCEPT !.todo = Tail(@)])
  /\ UNCHANGED <<links, handle, buf>>

\* An unresolved symbol goes to the report.
BindUnresolved ==
  /\ At("bind") /\ Top.todo # <<>>
  /\ handle[Top.handle].live
  /\ Head(Top.todo) \in Names \ Exports[handle[Top.handle].lib]
  /\ Continue([Top EXCEPT !.todo = Tail(@)])
  /\ UNCHANGED <<links, handle, pointer, wrapper, buf>>

\* The report refers to the handle.
BindReport ==
  /\ At("bind") /\ Top.todo = <<>>
  /\ stack' = Below
  /\ handle' = [handle EXCEPT ![Top.handle].held = TRUE]
  /\ UNCHANGED <<links, pointer, wrapper, buf>>

RemoveWrapper(n) ==
  /\ wrapper[n] # None
  /\ wrapper' = [wrapper EXCEPT ![n] = None]
  /\ UNCHANGED <<links, handle, pointer, stack, buf>>

-----------------------------------------------------------------------------
Collect == \/ \E h \in Handles : CollectHandle(h)
           \/ \E p \in Pointers : CollectPointer(p)

Next ==
  \/ \E h \in Handles : DropHandle(h) \/ DynUnload(h) \/ DynPath(h)
  \/ \E h \in Handles, l \in Libs, auto \in BOOLEAN : DynLoad(h, l, auto)
  \/ \E h \in Handles, p \in Pointers, protect \in BOOLEAN : DynSym(h, p, protect)
  \/ \E h \in Handles, table \in Tables : Bind(h, table)
  \/ \E h \in Handles, l \in Libs, table \in Tables : BindLoad(h, l, table)
  \/ \E p, q \in Pointers : OffsetPtr(p, q)
  \/ \E p \in Pointers : Call(p) \/ DropPointer(p) \/ BindNext(p)
  \/ \E n \in Names : RemoveWrapper(n)
  \/ Return \/ PathQuery \/ PathReturn \/ BindFails \/ BindUnresolved \/ BindReport
  \/ Collect

Spec == Init /\ [][Next]_vars

\* R collects again and again as long as it runs.
FairSpec == Spec /\ \A h \in Handles : WF_vars(CollectHandle(h))
                 /\ \A p \in Pointers : WF_vars(CollectPointer(p))
=============================================================================
