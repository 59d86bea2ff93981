---------------------------- MODULE DynloadProofs ----------------------------
(* Theorems about library handles and symbols, for every set of libraries,   *)
(* handles, symbols and signature tables.                                    *)
EXTENDS DynloadProps, FiniteSetTheorems, TLAPS

USE DynloadAssumption

(* The links of a library and the live handles of it change together.       *)
Weight(hd, h, l) == IF hd[h].lib = l /\ hd[h].live THEN 1 ELSE 0

LEMMA OneMoreOrLess ==
  ASSUME NEW Rest, NEW x, x \notin Rest, IsFiniteSet(Rest), NEW w \in {0, 1}, NEW v \in {0, 1},
         NEW A, A = (IF w = 1 THEN Rest \cup {x} ELSE Rest),
         NEW B, B = (IF v = 1 THEN Rest \cup {x} ELSE Rest)
  PROVE  /\ Cardinality(A) \in Nat /\ Cardinality(B) \in Nat
         /\ Cardinality(B) + w = Cardinality(A) + v
         /\ Cardinality(A) >= w
<1>1. /\ Cardinality(Rest) \in Nat
      /\ Cardinality(Rest \cup {x}) = Cardinality(Rest) + 1
  BY FS_AddElement, FS_CardinalityType
<1> QED BY <1>1

LEMMA OneLiveMore ==
  ASSUME NEW l, NEW h \in Handles, \A g \in Handles \ {h} : handle'[g] = handle[g]
  PROVE  /\ Cardinality(LiveHandles(l)) \in Nat /\ Cardinality(LiveHandles(l)') \in Nat
         /\ Cardinality(LiveHandles(l)') + Weight(handle, h, l)
              = Cardinality(LiveHandles(l)) + Weight(handle', h, l)
         /\ Cardinality(LiveHandles(l)) >= Weight(handle, h, l)
<1> DEFINE Rest == {g \in Handles \ {h} : handle[g].lib = l /\ handle[g].live}
<1>1. IsFiniteSet(Rest) /\ h \notin Rest
  <2>1. Rest \subseteq Handles
    OBVIOUS
  <2> QED BY <2>1, FS_Subset
<1>2. LiveHandles(l) = (IF Weight(handle, h, l) = 1 THEN Rest \cup {h} ELSE Rest)
  BY DEF Weight, LiveHandles
<1>3. LiveHandles(l)' = (IF Weight(handle', h, l) = 1 THEN Rest \cup {h} ELSE Rest)
  BY DEF Weight, LiveHandles
<1>4. Weight(handle, h, l) \in {0, 1} /\ Weight(handle', h, l) \in {0, 1}
  BY DEF Weight
<1> HIDE DEF Rest
<1> QED BY <1>1, <1>2, <1>3, <1>4, OneMoreOrLess

(* If only one handle changes, and the links change as it does, no link is   *)
(* closed twice.                                                             *)
LEMMA CoverKept ==
  ASSUME TypeOK, LinksCover, NEW h \in Handles, links' \in [Libs -> Nat],
         \A g \in Handles \ {h} : handle'[g] = handle[g],
         \A l \in Libs : links'[l] + Weight(handle, h, l) >= links[l] + Weight(handle', h, l)
  PROVE  LinksCover'
<1> SUFFICES ASSUME NEW l \in Libs
             PROVE  links'[l] >= Cardinality(LiveHandles(l)')
  BY DEF LinksCover
<1>1. /\ Cardinality(LiveHandles(l)) \in Nat /\ Cardinality(LiveHandles(l)') \in Nat
      /\ Cardinality(LiveHandles(l)') + Weight(handle, h, l)
           = Cardinality(LiveHandles(l)) + Weight(handle', h, l)
      /\ Cardinality(LiveHandles(l)) >= Weight(handle, h, l)
  BY OneLiveMore
<1>2. links[l] >= Cardinality(LiveHandles(l)) /\ links[l] \in Nat /\ links'[l] \in Nat
  BY DEF LinksCover, TypeOK
<1>3. Weight(handle, h, l) \in {0, 1} /\ Weight(handle', h, l) \in {0, 1}
  BY DEF Weight
<1> QED BY <1>1, <1>2, <1>3

(* A live handle has a link.                                                 *)
LEMMA LiveLinked ==
  ASSUME TypeOK, LinksCover, NEW h \in Handles, handle[h].live, handle[h].lib \in Libs
  PROVE  links[handle[h].lib] \in Nat \ {0}
<1> DEFINE l == handle[h].lib
<1>1. h \in LiveHandles(l) /\ LiveHandles(l) \subseteq Handles
  BY DEF LiveHandles
<1>2. IsFiniteSet(LiveHandles(l)) /\ Cardinality(LiveHandles(l)) \in Nat \ {0}
  BY <1>1, FS_Subset, FS_CardinalityType, FS_EmptySet
<1> QED BY <1>2 DEF LinksCover, TypeOK

-----------------------------------------------------------------------------
(* The stack.                                                                *)

LEMMA FrameFields ==
  ASSUME NEW f \in Frame
  PROVE  /\ f.op \in Ops /\ f.handle \in Handles \cup {None}
         /\ f.pointer \in Pointers \cup {None} /\ f.todo \in Seq(Names \cup {Malformed})
BY DEF Frame

LEMMA Popped ==
  ASSUME stack \in Seq(Frame), stack # <<>>
  PROVE  /\ Top \in Frame /\ Len(stack) \in DOMAIN stack
         /\ Below \in Seq(Frame) /\ Len(Below) = Len(stack) - 1
         /\ \A i \in DOMAIN Below : i \in DOMAIN stack /\ Below[i] = stack[i]
<1>1. Len(stack) \in Nat \ {0} /\ DOMAIN stack = 1..Len(stack)
  OBVIOUS
<1>2. Top \in Frame /\ Len(stack) \in DOMAIN stack
  BY <1>1 DEF Top
<1>3. Below \in Seq(Frame) /\ Len(Below) = Len(stack) - 1
  BY <1>1 DEF Below
<1>4. \A i \in DOMAIN Below : i \in DOMAIN stack /\ Below[i] = stack[i]
  BY <1>1, <1>3 DEF Below
<1> QED BY <1>2, <1>3, <1>4

LEMMA Pushed ==
  ASSUME stack \in Seq(Frame), NEW f \in Frame, stack' = Append(stack, f)
  PROVE  /\ stack' \in Seq(Frame) /\ Len(stack') = Len(stack) + 1
         /\ \A i \in DOMAIN stack' : stack'[i] = f \/ (i \in DOMAIN stack /\ stack'[i] = stack[i])
         /\ \A i \in DOMAIN stack : i \in DOMAIN stack' /\ stack'[i] = stack[i]
         /\ \E i \in DOMAIN stack' : stack'[i] = f
BY Len(stack) + 1 \in DOMAIN stack'

LEMMA Continued ==
  ASSUME stack \in Seq(Frame), stack # <<>>, NEW f \in Frame, Continue(f)
  PROVE  /\ stack' \in Seq(Frame) /\ Len(stack') = Len(stack)
         /\ \A i \in DOMAIN stack' : stack'[i] = f \/ (i \in DOMAIN stack /\ stack'[i] = stack[i])
BY Popped DEF Continue

(* A step that takes nothing but references away leaves what remains sound.  *)
LEMMA Weaker ==
  ASSUME TypeOK, SymbolsSound, handle' \in [Handles -> Handle],
         pointer' \in [Pointers -> Pointer],
         \A p \in Pointers : PointerReached(p)' /\ pointer'[p].asked =>
            /\ PointerReached(p) /\ pointer[p].asked
            /\ pointer'[p].keeps = pointer[p].keeps /\ pointer'[p].lib = pointer[p].lib,
         \A h \in Handles : HandleReached(h) => handle'[h].lib = handle[h].lib
  PROVE  SymbolsSound'
<1> SUFFICES ASSUME NEW p \in Pointers, pointer'[p].asked, PointerReached(p)'
             PROVE  SymbolProtected(p)'
  BY DEF SymbolsSound
<1>1. SymbolProtected(p) /\ PointerReached(p)
  BY DEF SymbolsSound
<1>2. pointer[p].keeps \in Handles
  BY <1>1 DEF SymbolProtected, TypeOK, Pointer
<1>3. HandleReached(pointer[p].keeps)
  BY <1>1, <1>2 DEF HandleReached
<1> QED BY <1>1, <1>2, <1>3 DEF SymbolProtected

-----------------------------------------------------------------------------
(* Initial states.                                                           *)

LEMMA InitSound == Init => Sound
<1> SUFFICES ASSUME Init PROVE Sound
  OBVIOUS
<1>1. TypeOK
  BY DEF Init, TypeOK, NoHandle, NoPointer, Handle, Pointer
<1>2. LinksCover
  <2>1. \A l \in Libs : LiveHandles(l) = {}
    BY DEF Init, LiveHandles, NoHandle
  <2>2. \A l \in Libs : Cardinality(LiveHandles(l)) = 0
    BY <2>1, FS_EmptySet
  <2> QED BY <2>2 DEF LinksCover, Init
<1>3. HandlesSound /\ FramesSound /\ SymbolsSound
  BY DEF Init, HandlesSound, FramesSound, SymbolsSound, NoHandle, NoPointer
<1> QED BY <1>1, <1>2, <1>3 DEF Sound

-----------------------------------------------------------------------------
(* Steps that change one handle.                                             *)

(* What a step on one handle must show besides what it does to symbols.      *)
LEMMA HandleStep ==
  ASSUME Sound, NEW h \in Handles, NEW new \in Handle,
         handle' = [handle EXCEPT ![h] = new],
         links' \in [Libs -> Nat],
         \A l \in Libs : links'[l] + Weight(handle, h, l) >= links[l] + Weight(handle', h, l),
         IF new.lib = None THEN new = NoHandle ELSE new.live \/ new.forced,
         UNCHANGED buf
  PROVE  handle' \in [Handles -> Handle] /\ LinksCover' /\ HandlesSound'
<1>1. handle \in [Handles -> Handle] /\ TypeOK /\ LinksCover
  BY DEF Sound, TypeOK
<1>2. LinksCover'
  BY <1>1, CoverKept
<1>3. HandlesSound'
  BY <1>1 DEF Sound, HandlesSound
<1> QED BY <1>1, <1>2, <1>3

(* Collecting a handle, unloading one, losing a reference to one.            *)
LEMMA CollectHandleSound ==
  ASSUME Sound, NEW h \in Handles, CollectHandle(h)
  PROVE  Sound'
<1> USE DEF CollectHandle
<1>1. TypeOK /\ LinksCover /\ handle[h] \in Handle /\ handle[h].lib \in Libs
  BY DEF Sound, TypeOK, Handle, HandlesSound
<1>2. handle[h].live => links[handle[h].lib] \in Nat \ {0}
  BY <1>1, LiveLinked
<1>3. links' \in [Libs -> Nat]
  BY <1>1, <1>2 DEF TypeOK, Unlinked
<1>4. ASSUME NEW l \in Libs
      PROVE  links'[l] + Weight(handle, h, l) >= links[l] + Weight(handle', h, l)
  BY <1>1, <1>2, <1>4 DEF TypeOK, Unlinked, Weight, NoHandle
<1>5. NoHandle \in Handle
  BY DEF NoHandle, Handle
<1>6. handle' \in [Handles -> Handle] /\ LinksCover' /\ HandlesSound'
  BY <1>3, <1>4, <1>5, HandleStep DEF NoHandle
<1>7. TypeOK'
  BY <1>1, <1>3, <1>6 DEF TypeOK
<1>8. FramesSound'
  BY <1>1 DEF Sound, FramesSound, HandleReached, InProgress, TypeOK
<1>9. SymbolsSound'
  <2>1. \A g \in Handles : HandleReached(g) => handle'[g].lib = handle[g].lib
    BY <1>1 DEF TypeOK
  <2>2. \A p \in Pointers : PointerReached(p)' <=> PointerReached(p)
    BY DEF PointerReached, InProgress
  <2> QED BY <1>1, <1>6, <2>1, <2>2, Weaker DEF Sound, TypeOK
<1> QED BY <1>6, <1>7, <1>8, <1>9 DEF Sound

LEMMA DynUnloadSound ==
  ASSUME Sound, NEW h \in Handles, DynUnload(h)
  PROVE  Sound'
<1> USE DEF DynUnload
<1> DEFINE new == [handle[h] EXCEPT !.live = FALSE, !.forced = TRUE]
<1>1. TypeOK /\ LinksCover /\ handle[h] \in Handle /\ handle[h].lib \in Libs
  BY DEF Sound, TypeOK, Handle, Usable
<1>2. handle[h].live => links[handle[h].lib] \in Nat \ {0}
  BY <1>1, LiveLinked
<1>3. links' \in [Libs -> Nat]
  BY <1>1, <1>2 DEF TypeOK, Unlinked
<1>4. handle' = [handle EXCEPT ![h] = new] /\ new \in Handle
  BY <1>1 DEF Handle, TypeOK
<1>5. ASSUME NEW l \in Libs
      PROVE  links'[l] + Weight(handle, h, l) >= links[l] + Weight(handle', h, l)
  BY <1>1, <1>2, <1>4, <1>5 DEF TypeOK, Unlinked, Weight, Handle
<1>6. new.lib = handle[h].lib /\ new.forced
  BY <1>1 DEF Handle
<1> HIDE DEF new
<1>7. handle' \in [Handles -> Handle] /\ LinksCover' /\ HandlesSound'
  <2>1. IF new.lib = None THEN new = NoHandle ELSE new.live \/ new.forced
    BY <1>1, <1>6
  <2> QED BY <1>3, <1>4, <1>5, <2>1, HandleStep
<1>8. \A g \in Handles : handle'[g].lib = handle[g].lib
  BY <1>1, <1>4, <1>6 DEF TypeOK
<1>9. TypeOK'
  BY <1>1, <1>3, <1>7 DEF TypeOK
<1>10. FramesSound'
  BY <1>1, <1>8, FrameFields DEF Sound, FramesSound, TypeOK
<1>11. SymbolsSound'
  <2>1. \A p \in Pointers : PointerReached(p)' <=> PointerReached(p)
    BY DEF PointerReached, InProgress
  <2> QED BY <1>1, <1>7, <1>8, <2>1, Weaker DEF Sound, TypeOK
<1> QED BY <1>7, <1>9, <1>10, <1>11 DEF Sound

(* A new handle; BindLoad also puts it on the stack.                         *)
LEMMA NewHandleSound ==
  ASSUME Sound, NEW h \in Handles, NEW l \in Libs, NEW auto \in BOOLEAN, NEW held \in BOOLEAN,
         NewHandle(h, l, auto, held), UNCHANGED <<pointer, wrapper, buf>>
  PROVE  /\ links' \in [Libs -> Nat] /\ handle' \in [Handles -> Handle]
         /\ LinksCover' /\ HandlesSound'
         /\ handle'[h].lib = l
         /\ \A g \in Handles : g # h => handle'[g] = handle[g]
<1> USE DEF NewHandle
<1> DEFINE new == [lib |-> l, live |-> TRUE, auto |-> auto, held |-> held, forced |-> FALSE]
<1>1. TypeOK /\ new \in Handle /\ new.lib = l /\ new.live
  BY DEF Sound, Handle
<1>2. links' \in [Libs -> Nat] /\ handle' = [handle EXCEPT ![h] = new]
  BY <1>1 DEF TypeOK, Linked
<1>3. l # None
  OBVIOUS
<1>4. ASSUME NEW k \in Libs
      PROVE  links'[k] + Weight(handle, h, k) >= links[k] + Weight(handle', h, k)
  BY <1>1, <1>4 DEF TypeOK, Linked, Weight, NoHandle
<1> HIDE DEF new
<1>5. handle' \in [Handles -> Handle] /\ LinksCover' /\ HandlesSound'
  BY <1>1, <1>2, <1>3, <1>4, HandleStep
<1> QED BY <1>1, <1>2, <1>5 DEF TypeOK

LEMMA DynLoadSound ==
  ASSUME Sound, NEW h \in Handles, NEW l \in Libs, NEW auto \in BOOLEAN, DynLoad(h, l, auto)
  PROVE  Sound'
<1> USE DEF DynLoad
<1>1. /\ links' \in [Libs -> Nat] /\ handle' \in [Handles -> Handle]
      /\ LinksCover' /\ HandlesSound'
      /\ handle'[h].lib = l
      /\ \A g \in Handles : g # h => handle'[g] = handle[g]
  <2>1. NewHandle(h, l, auto, TRUE) /\ UNCHANGED <<pointer, wrapper, buf>> /\ TRUE \in BOOLEAN
    OBVIOUS
  <2> HIDE DEF DynLoad
  <2> QED BY ONLY <2>1, NewHandleSound, Sound, h \in Handles, l \in Libs, auto \in BOOLEAN
<1>2. TypeOK'
  BY <1>1 DEF Sound, TypeOK
<1>3. \A g \in Handles : HandleReached(g) => handle'[g].lib = handle[g].lib
  BY <1>1 DEF NewHandle
<1>4. FramesSound'
  <2>1. \A g \in Handles : handle[g].lib # None => handle'[g].lib # None
    BY <1>1
  <2>2. \A i \in DOMAIN stack : stack[i].handle \in Handles \cup {None}
    BY FrameFields DEF Sound, TypeOK
  <2> QED BY <2>1, <2>2 DEF Sound, FramesSound
<1>5. \A p \in Pointers : PointerReached(p)' <=> PointerReached(p)
  BY DEF PointerReached, InProgress
<1>6. SymbolsSound'
  BY <1>1, <1>2, <1>3, <1>5, Weaker DEF Sound, TypeOK
<1> QED BY <1>1, <1>2, <1>4, <1>6 DEF Sound

(* dynbind() with names: the new handle is on the stack only.                *)
LEMMA BindLoadSound ==
  ASSUME Sound, NEW h \in Handles, NEW l \in Libs, NEW table \in Tables, BindLoad(h, l, table)
  PROVE  Sound'
<1> USE DEF BindLoad
<1> DEFINE f == [op |-> "bind", handle |-> h, pointer |-> None, todo |-> table]
<1>1. /\ links' \in [Libs -> Nat] /\ handle' \in [Handles -> Handle]
      /\ LinksCover' /\ HandlesSound'
      /\ handle'[h].lib = l
      /\ \A g \in Handles : g # h => handle'[g] = handle[g]
  BY NewHandleSound
<1>2. f \in Frame /\ f.handle = h /\ f.pointer = None /\ stack' = Append(stack, f)
  BY DEF Frame, Ops, Push
<1>3. stack \in Seq(Frame) /\ Len(stack) < MaxDepth
  BY DEF Sound, TypeOK, Push
<1> HIDE DEF f
<1>4. /\ stack' \in Seq(Frame) /\ Len(stack') = Len(stack) + 1
      /\ \A i \in DOMAIN stack' : stack'[i] = f \/ (i \in DOMAIN stack /\ stack'[i] = stack[i])
  BY <1>2, <1>3, Pushed
<1>5. TypeOK'
  BY <1>1, <1>3, <1>4 DEF Sound, TypeOK
<1>6. \A g \in Handles : HandleReached(g) => handle'[g].lib = handle[g].lib
  BY <1>1 DEF NewHandle
<1>7. FramesSound'
  <2> SUFFICES ASSUME NEW i \in DOMAIN stack'
               PROVE  /\ stack'[i].op # "call" => stack'[i].handle # None
                      /\ stack'[i].handle # None => handle'[stack'[i].handle].lib # None
    BY DEF FramesSound
  <2>1. CASE stack'[i] = f
    BY <1>1, <1>2, <2>1
  <2>2. CASE i \in DOMAIN stack /\ stack'[i] = stack[i]
    <3>1. stack[i] \in Frame /\ stack[i].handle \in Handles \cup {None}
      BY <1>3, <2>2, FrameFields
    <3>2. \A g \in Handles : handle[g].lib # None => handle'[g].lib # None
      BY <1>1
    <3> QED BY <2>2, <3>1, <3>2 DEF Sound, FramesSound
  <2> QED BY <1>4, <2>1, <2>2
<1>8. \A p \in Pointers : PointerReached(p)' => PointerReached(p)
  BY <1>2, <1>4 DEF PointerReached, InProgress
<1>9. SymbolsSound'
  BY <1>1, <1>5, <1>6, <1>8, Weaker DEF Sound, TypeOK
<1> QED BY <1>1, <1>5, <1>7, <1>9 DEF Sound

(* Only "held" of a handle changes, and the stack does not grow.             *)
LEMMA HoldSound ==
  ASSUME Sound, NEW h \in Handles, handle[h].lib # None, NEW held \in BOOLEAN,
         handle' = [handle EXCEPT ![h].held = held],
         UNCHANGED <<links, pointer, wrapper, buf>>,
         stack' \in Seq(Frame), Len(stack') <= Len(stack),
         \A i \in DOMAIN stack' : i \in DOMAIN stack /\ stack'[i] = stack[i]
  PROVE  Sound'
<1> DEFINE new == [handle[h] EXCEPT !.held = held]
<1>1. TypeOK /\ handle[h] \in Handle /\ handle[h].lib \in Libs
  BY DEF Sound, TypeOK, Handle
<1>2. handle' = [handle EXCEPT ![h] = new] /\ new \in Handle
  BY <1>1 DEF Handle, TypeOK
<1>3. new.lib = handle[h].lib /\ new.live = handle[h].live /\ new.forced = handle[h].forced
  BY <1>1 DEF Handle
<1> HIDE DEF new
<1>4. \A l \in Libs : links'[l] + Weight(handle, h, l) >= links[l] + Weight(handle', h, l)
  BY <1>1, <1>2, <1>3 DEF TypeOK, Weight
<1>5. IF new.lib = None THEN new = NoHandle ELSE new.live \/ new.forced
  BY <1>1, <1>3 DEF Sound, HandlesSound
<1>6. handle' \in [Handles -> Handle] /\ LinksCover' /\ HandlesSound'
  BY <1>1, <1>2, <1>4, <1>5, HandleStep DEF TypeOK
<1>7. \A g \in Handles : handle'[g].lib = handle[g].lib
  BY <1>1, <1>2, <1>3 DEF TypeOK
<1>8. TypeOK'
  BY <1>1, <1>6 DEF TypeOK
<1>9. FramesSound'
  BY <1>1, <1>7, FrameFields DEF Sound, FramesSound, TypeOK
<1>10. \A p \in Pointers : PointerReached(p)' => PointerReached(p)
  BY DEF PointerReached, InProgress
<1>11. SymbolsSound'
  BY <1>1, <1>6, <1>7, <1>10, Weaker DEF Sound, TypeOK
<1> QED BY <1>6, <1>8, <1>9, <1>11 DEF Sound

-----------------------------------------------------------------------------
(* Steps that leave handles and links alone.                                 *)

LEMMA SameHandles ==
  ASSUME Sound, UNCHANGED <<links, handle>>
  PROVE  LinksCover' /\ HandlesSound'
BY DEF Sound, LinksCover, HandlesSound, LiveHandles

(* The stack does not grow, and references only disappear.                   *)
LEMMA FewerSound ==
  ASSUME Sound, UNCHANGED <<links, handle>>,
         pointer' \in [Pointers -> Pointer], wrapper' \in [Names -> Pointers \cup {None}],
         buf' \in Libs \cup {None},
         stack' \in Seq(Frame), Len(stack') <= MaxDepth,
         \A i \in DOMAIN stack' : i \in DOMAIN stack /\ stack'[i].handle = stack[i].handle
                                   /\ stack'[i].pointer = stack[i].pointer
                                   /\ (stack'[i].op = "call" <=> stack[i].op = "call"),
         \A p \in Pointers : PointerReached(p)' /\ pointer'[p].asked =>
            /\ PointerReached(p) /\ pointer[p].asked
            /\ pointer'[p].keeps = pointer[p].keeps /\ pointer'[p].lib = pointer[p].lib
  PROVE  Sound'
<1>1. LinksCover' /\ HandlesSound'
  BY SameHandles
<1>2. TypeOK'
  BY DEF Sound, TypeOK
<1>3. FramesSound'
  BY DEF Sound, FramesSound
<1>4. SymbolsSound'
  BY Weaker DEF Sound, TypeOK
<1> QED BY <1>1, <1>2, <1>3, <1>4 DEF Sound

LEMMA PoppedSound ==
  ASSUME Sound, stack # <<>>, stack' = Below, UNCHANGED <<links, handle, pointer, wrapper, buf>>
  PROVE  Sound'
<1>1. /\ stack' \in Seq(Frame) /\ Len(stack') <= MaxDepth
      /\ \A i \in DOMAIN stack' : i \in DOMAIN stack /\ stack'[i] = stack[i]
  BY Popped DEF Sound, TypeOK
<1>2. \A p \in Pointers : PointerReached(p)' => PointerReached(p)
  BY <1>1 DEF PointerReached, InProgress
<1> QED BY <1>1, <1>2, FewerSound DEF Sound, TypeOK

(* A frame that takes a pointer or a handle which is reachable already.      *)
LEMMA PushedSound ==
  ASSUME Sound, NEW f \in Frame, Push(f), UNCHANGED <<links, handle, pointer, wrapper, buf>>,
         f.op # "call" => f.handle # None,
         f.handle # None => handle[f.handle].lib # None,
         f.pointer # None => PointerReached(f.pointer)
  PROVE  Sound'
<1>1. /\ stack' \in Seq(Frame) /\ Len(stack') = Len(stack) + 1 /\ Len(stack) < MaxDepth
      /\ Len(stack) \in Nat
      /\ \A i \in DOMAIN stack' : stack'[i] = f \/ (i \in DOMAIN stack /\ stack'[i] = stack[i])
  BY Pushed DEF Sound, TypeOK, Push
<1>2. LinksCover' /\ HandlesSound'
  BY SameHandles
<1>3. TypeOK'
  BY <1>1 DEF Sound, TypeOK
<1>4. FramesSound'
  BY <1>1 DEF Sound, FramesSound
<1>5. \A p \in Pointers : PointerReached(p)' => PointerReached(p)
  BY <1>1 DEF PointerReached, InProgress
<1>6. SymbolsSound'
  BY <1>5, Weaker DEF Sound, TypeOK
<1> QED BY <1>2, <1>3, <1>4, <1>6 DEF Sound

(* The entry at hand is done with; a new wrapper may have been made.         *)
LEMMA NextEntry ==
  ASSUME Sound, At("bind"), Top.todo # <<>>, Continue([Top EXCEPT !.todo = Tail(@)])
  PROVE  /\ stack' \in Seq(Frame) /\ Len(stack') = Len(stack)
         /\ \A i \in DOMAIN stack' :
              /\ i \in DOMAIN stack /\ stack'[i].handle = stack[i].handle
              /\ stack'[i].pointer = stack[i].pointer
              /\ (stack'[i].op = "call" <=> stack[i].op = "call")
         /\ Top.handle \in Handles /\ handle[Top.handle].lib \in Libs
         /\ Top.handle = stack[Len(stack)].handle /\ Len(stack) \in DOMAIN stack
<1> DEFINE f == [Top EXCEPT !.todo = Tail(@)]
<1>1. stack \in Seq(Frame) /\ stack # <<>> /\ Top.op = "bind"
  BY DEF Sound, TypeOK, At
<1>2. Top \in Frame /\ Len(stack) \in DOMAIN stack /\ Top = stack[Len(stack)]
      /\ Below \in Seq(Frame) /\ Len(Below) = Len(stack) - 1
      /\ \A i \in DOMAIN Below : i \in DOMAIN stack /\ Below[i] = stack[i]
  BY <1>1, Popped DEF Top
<1>3. Top.todo \in Seq(Names \cup {Malformed}) /\ Tail(Top.todo) \in Seq(Names \cup {Malformed})
  BY <1>2, FrameFields
<1>4. f \in Frame /\ f.handle = Top.handle /\ f.pointer = Top.pointer /\ f.op = Top.op
  BY <1>2, <1>3 DEF Frame
<1> HIDE DEF f
<1>5. stack' = Append(Below, f)
  BY DEF Continue, f
<1>6. stack' \in Seq(Frame) /\ Len(stack') = Len(stack)
  BY <1>1, <1>2, <1>4, <1>5
<1>7. \A i \in DOMAIN stack' :
        (i \in DOMAIN Below /\ stack'[i] = Below[i]) \/ (i = Len(stack) /\ stack'[i] = f)
  BY <1>1, <1>2, <1>4, <1>5
<1>8. Top.handle \in Handles /\ handle[Top.handle].lib \in Libs
  BY <1>1, <1>2, FrameFields DEF Sound, FramesSound, TypeOK, Handle
<1> QED BY <1>2, <1>4, <1>6, <1>7, <1>8
LEMMA DropHandleSound ==
  ASSUME Sound, NEW h \in Handles, DropHandle(h)
  PROVE  Sound'
<1>1. handle[h].lib # None
  BY DEF DropHandle, Sound, HandlesSound, NoHandle
<1>2. stack' = stack /\ stack \in Seq(Frame)
  BY DEF DropHandle, Sound, TypeOK
<1>3. /\ handle' = [handle EXCEPT ![h].held = FALSE] /\ FALSE \in BOOLEAN
      /\ UNCHANGED <<links, pointer, wrapper, buf>>
  BY DEF DropHandle
<1>4. /\ Len(stack') <= Len(stack)
      /\ \A i \in DOMAIN stack' : i \in DOMAIN stack /\ stack'[i] = stack[i]
  BY <1>2
<1> QED BY <1>1, <1>2, <1>3, <1>4, HoldSound

LEMMA BindReportSound ==
  ASSUME Sound, BindReport
  PROVE  Sound'
<1>1. stack \in Seq(Frame) /\ stack # <<>> /\ stack' = Below /\ Top.op = "bind"
  BY DEF BindReport, At, Sound, TypeOK
<1>2. Top \in Frame /\ Len(stack) \in DOMAIN stack /\ Top = stack[Len(stack)]
  BY <1>1, Popped DEF Top
<1>3. Top.handle \in Handles /\ handle[Top.handle].lib # None
  BY <1>1, <1>2, FrameFields DEF Sound, FramesSound
<1>4. /\ stack' \in Seq(Frame) /\ Len(stack') <= Len(stack)
      /\ \A i \in DOMAIN stack' : i \in DOMAIN stack /\ stack'[i] = stack[i]
  BY <1>1, Popped
<1>5. /\ handle' = [handle EXCEPT ![Top.handle].held = TRUE] /\ TRUE \in BOOLEAN
      /\ UNCHANGED <<links, pointer, wrapper, buf>>
  BY DEF BindReport
<1> DEFINE h == Top.handle
<1>6. h \in Handles /\ handle[h].lib # None /\ handle' = [handle EXCEPT ![h].held = TRUE]
  BY <1>3, <1>5
<1> HIDE DEF h
<1> QED BY <1>4, <1>5, <1>6, HoldSound

(* Symbols that lose a reference.                                            *)
LEMMA CollectPointerSound ==
  ASSUME Sound, NEW p \in Pointers, CollectPointer(p)
  PROVE  Sound'
<1> USE DEF CollectPointer
<1>1. pointer' \in [Pointers -> Pointer] /\ \A q \in Pointers : q # p => pointer'[q] = pointer[q]
  BY DEF Sound, TypeOK, NoPointer, Pointer
<1>2. ~pointer'[p].asked
  BY DEF Sound, TypeOK, NoPointer
<1>3. \A q \in Pointers : q # p /\ PointerReached(q)' => PointerReached(q)
  BY <1>1 DEF PointerReached, InProgress
<1> QED BY <1>1, <1>2, <1>3, FewerSound DEF Sound, TypeOK

LEMMA DropPointerSound ==
  ASSUME Sound, NEW p \in Pointers, DropPointer(p)
  PROVE  Sound'
<1> USE DEF DropPointer
<1>1. pointer \in [Pointers -> Pointer] /\ pointer[p] \in Pointer
  BY DEF Sound, TypeOK
<1>2. /\ pointer' \in [Pointers -> Pointer]
      /\ \A q \in Pointers : /\ pointer'[q].asked = pointer[q].asked
                             /\ pointer'[q].keeps = pointer[q].keeps
                             /\ pointer'[q].lib = pointer[q].lib
                             /\ pointer'[q].held => pointer[q].held
  BY <1>1 DEF Pointer
<1>3. \A q \in Pointers : PointerReached(q)' => PointerReached(q)
  BY <1>2 DEF PointerReached, InProgress
<1> QED BY <1>2, <1>3, FewerSound DEF Sound, TypeOK

LEMMA RemoveWrapperSound ==
  ASSUME Sound, NEW n \in Names, RemoveWrapper(n)
  PROVE  Sound'
<1> USE DEF RemoveWrapper
<1>1. /\ wrapper' \in [Names -> Pointers \cup {None}]
      /\ \A m \in Names : wrapper'[m] = wrapper[m] \/ wrapper'[m] = None
  BY DEF Sound, TypeOK
<1>2. \A q \in Pointers : PointerReached(q)' => PointerReached(q)
  BY <1>1 DEF PointerReached, InProgress
<1> QED BY <1>1, <1>2, FewerSound DEF Sound, TypeOK

(* A new symbol, which protects the handle it was found with if asked to.    *)
LEMMA NewSymbol ==
  ASSUME Sound, NEW p \in Pointers, UNCHANGED <<links, handle>>,
         NEW new \in Pointer, pointer' = [pointer EXCEPT ![p] = new],
         new.asked => /\ new.keeps # None /\ new.lib # None
                      /\ handle[new.keeps].lib = new.lib,
         \A q \in Pointers \ {p} : PointerReached(q)' => PointerReached(q)
  PROVE  pointer' \in [Pointers -> Pointer] /\ SymbolsSound'
<1>1. /\ pointer \in [Pointers -> Pointer] /\ pointer' \in [Pointers -> Pointer]
      /\ pointer'[p] = new /\ \A q \in Pointers \ {p} : pointer'[q] = pointer[q]
  BY DEF Sound, TypeOK
<1>2. ASSUME NEW q \in Pointers, pointer'[q].asked, PointerReached(q)'
      PROVE  SymbolProtected(q)'
  <2>1. CASE q = p
    BY <1>1, <1>2, <2>1 DEF SymbolProtected
  <2>2. CASE q # p
    BY <1>1, <1>2, <2>2 DEF SymbolProtected, Sound, SymbolsSound
  <2> QED BY <2>1, <2>2
<1> QED BY <1>1, <1>2 DEF SymbolsSound

LEMMA DynSymSound ==
  ASSUME Sound, NEW h \in Handles, NEW p \in Pointers, NEW protect \in BOOLEAN,
         DynSym(h, p, protect)
  PROVE  Sound'
<1> USE DEF DynSym, NewPointer
<1> DEFINE new == [lib |-> handle[h].lib, keeps |-> IF protect THEN h ELSE None,
                   asked |-> protect, held |-> TRUE]
<1>1. handle[h] \in Handle /\ handle[h].lib \in Libs
  BY DEF Sound, TypeOK, Handle, Usable
<1>2. new \in Pointer /\ pointer' = [pointer EXCEPT ![p] = new]
  BY <1>1 DEF Pointer
<1>3. new.asked => new.keeps = h /\ new.lib = handle[h].lib
  OBVIOUS
<1> HIDE DEF new
<1>4. \A q \in Pointers \ {p} : PointerReached(q)' => PointerReached(q)
  BY <1>2 DEF PointerReached, InProgress, Sound, TypeOK
<1>5. pointer' \in [Pointers -> Pointer] /\ SymbolsSound'
  BY <1>1, <1>2, <1>3, <1>4, NewSymbol
<1>6. LinksCover' /\ HandlesSound'
  BY SameHandles
<1> QED BY <1>5, <1>6 DEF Sound, TypeOK, FramesSound

LEMMA OffsetPtrSound ==
  ASSUME Sound, NEW p \in Pointers, NEW q \in Pointers, OffsetPtr(p, q)
  PROVE  Sound'
<1> USE DEF OffsetPtr
<1> DEFINE new == [pointer[p] EXCEPT !.held = TRUE]
<1>1. pointer[p] \in Pointer
  BY DEF Sound, TypeOK
<1>2. new \in Pointer /\ pointer' = [pointer EXCEPT ![q] = new]
  BY <1>1 DEF Pointer
<1>3. new.asked = pointer[p].asked /\ new.keeps = pointer[p].keeps /\ new.lib = pointer[p].lib
  BY <1>1 DEF Pointer
<1>4. PointerReached(p)
  BY DEF PointerReached
<1>5. new.asked => new.keeps # None /\ new.lib # None /\ handle[new.keeps].lib = new.lib
  BY <1>3, <1>4 DEF Sound, SymbolsSound, SymbolProtected
<1> HIDE DEF new
<1>6. \A r \in Pointers \ {q} : PointerReached(r)' => PointerReached(r)
  BY <1>2 DEF PointerReached, InProgress, Sound, TypeOK
<1>7. pointer' \in [Pointers -> Pointer] /\ SymbolsSound'
  BY <1>2, <1>5, <1>6, NewSymbol
<1>8. LinksCover' /\ HandlesSound'
  BY SameHandles
<1> QED BY <1>7, <1>8 DEF Sound, TypeOK, FramesSound

LEMMA BindNextSound ==
  ASSUME Sound, NEW p \in Pointers, BindNext(p)
  PROVE  Sound'
<1> DEFINE h == Top.handle
           new == [lib |-> handle[h].lib, keeps |-> h, asked |-> TRUE, held |-> FALSE]
<1>1. /\ stack' \in Seq(Frame) /\ Len(stack') = Len(stack)
      /\ \A i \in DOMAIN stack' :
           /\ i \in DOMAIN stack /\ stack'[i].handle = stack[i].handle
           /\ stack'[i].pointer = stack[i].pointer
           /\ (stack'[i].op = "call" <=> stack[i].op = "call")
      /\ h \in Handles /\ handle[h].lib \in Libs
  BY NextEntry DEF BindNext
<1>2. UNCHANGED <<links, handle, buf>> /\ pointer' = [pointer EXCEPT ![p] = new]
  BY DEF BindNext, NewPointer
<1>3. \A n \in Names : wrapper'[n] = wrapper[n] \/ wrapper'[n] = p
  BY DEF BindNext, Sound, TypeOK
<1>4. wrapper' \in [Names -> Pointers \cup {None}]
  BY DEF BindNext, Sound, TypeOK
<1>5. new \in Pointer /\ new.keeps = h /\ new.lib = handle[h].lib
  BY <1>1 DEF Pointer
<1> HIDE DEF new, h
<1>6. \A q \in Pointers \ {p} : PointerReached(q)' => PointerReached(q)
  <2> TAKE q \in Pointers \ {p}
  <2>1. pointer'[q] = pointer[q]
    BY <1>2 DEF Sound, TypeOK
  <2>2. q \in InProgress("pointer")' => q \in InProgress("pointer")
    BY <1>1 DEF InProgress
  <2>3. \A n \in Names : wrapper'[n] = q => wrapper[n] = q
    BY <1>3
  <2> QED BY <2>1, <2>2, <2>3 DEF PointerReached
<1>7. pointer' \in [Pointers -> Pointer] /\ SymbolsSound'
  BY <1>1, <1>2, <1>5, <1>6, NewSymbol
<1>8. LinksCover' /\ HandlesSound'
  BY <1>2, SameHandles
<1>9. TypeOK'
  BY <1>1, <1>2, <1>4, <1>7 DEF Sound, TypeOK
<1>10. FramesSound'
  BY <1>1, <1>2 DEF Sound, FramesSound
<1> QED BY <1>7, <1>8, <1>9, <1>10 DEF Sound

LEMMA BindUnresolvedSound ==
  ASSUME Sound, BindUnresolved
  PROVE  Sound'
<1>1. /\ stack' \in Seq(Frame) /\ Len(stack') = Len(stack)
      /\ \A i \in DOMAIN stack' :
           /\ i \in DOMAIN stack /\ stack'[i].handle = stack[i].handle
           /\ stack'[i].pointer = stack[i].pointer
           /\ (stack'[i].op = "call" <=> stack[i].op = "call")
  BY NextEntry DEF BindUnresolved
<1>2. UNCHANGED <<links, handle, pointer, wrapper, buf>>
  BY DEF BindUnresolved
<1>3. \A q \in Pointers : PointerReached(q)' => PointerReached(q)
  BY <1>1, <1>2 DEF PointerReached, InProgress
<1> QED BY <1>1, <1>2, <1>3, FewerSound DEF Sound, TypeOK

(* Operations begin with something reachable.                                *)
LEMMA BeginSound ==
  ASSUME Sound, \/ \E p \in Pointers : Call(p)
                \/ \E h \in Handles : DynPath(h)
                \/ \E h \in Handles, table \in Tables : Bind(h, table)
  PROVE  Sound'
<1>1. ASSUME NEW p \in Pointers, Call(p) PROVE Sound'
  <2> DEFINE f == [op |-> "call", handle |-> None, pointer |-> p, todo |-> <<>>]
  <2>1. f \in Frame /\ f.op = "call" /\ f.handle = None /\ f.pointer = p
    BY DEF Frame, Ops
  <2>2. Push(f) /\ PointerReached(p) /\ UNCHANGED <<links, handle, pointer, wrapper, buf>>
    BY <1>1 DEF Call, PointerReached
  <2> HIDE DEF f
  <2> QED BY <2>1, <2>2, PushedSound
<1>2. ASSUME NEW h \in Handles, DynPath(h) PROVE Sound'
  <2> DEFINE f == [op |-> "alloc", handle |-> h, pointer |-> None, todo |-> <<>>]
  <2>1. f \in Frame /\ f.handle = h /\ f.pointer = None
    BY DEF Frame, Ops
  <2>2. Push(f) /\ handle[h].lib # None /\ UNCHANGED <<links, handle, pointer, wrapper, buf>>
    BY <1>2 DEF DynPath, Usable
  <2> HIDE DEF f
  <2> QED BY <2>1, <2>2, PushedSound
<1>3. ASSUME NEW h \in Handles, NEW table \in Tables, Bind(h, table) PROVE Sound'
  <2> DEFINE f == [op |-> "bind", handle |-> h, pointer |-> None, todo |-> table]
  <2>1. f \in Frame /\ f.handle = h /\ f.pointer = None
    BY DEF Frame, Ops
  <2>2. Push(f) /\ handle[h].lib # None /\ UNCHANGED <<links, handle, pointer, wrapper, buf>>
    BY <1>3 DEF Bind, Usable
  <2> HIDE DEF f
  <2> QED BY <2>1, <2>2, PushedSound
<1> QED BY <1>1, <1>2, <1>3

(* dynpath() only rewrites its buffer and the frame's next step.             *)
LEMMA PathQuerySound ==
  ASSUME Sound, PathQuery
  PROVE  Sound'
<1>1. stack \in Seq(Frame) /\ stack # <<>> /\ Top.op = "alloc" /\ Len(stack) <= MaxDepth
  BY DEF PathQuery, At, Sound, TypeOK
<1>2. /\ Top \in Frame /\ Top = stack[Len(stack)] /\ Len(stack) \in DOMAIN stack
      /\ Below \in Seq(Frame) /\ Len(Below) = Len(stack) - 1
      /\ \A i \in DOMAIN Below : i \in DOMAIN stack /\ Below[i] = stack[i]
  BY <1>1, Popped DEF Top
<1>3. Top.handle \in Handles /\ handle[Top.handle].lib \in Libs
  BY <1>1, <1>2, FrameFields DEF Sound, FramesSound, TypeOK, Handle
<1>4. CASE stack' = Below /\ UNCHANGED buf
  BY <1>1, <1>4, PoppedSound DEF PathQuery
<1>5. CASE buf' = handle[Top.handle].lib /\ Continue([Top EXCEPT !.op = "mkchar"])
  <2> DEFINE f == [Top EXCEPT !.op = "mkchar"]
  <2>1. f \in Frame /\ f.handle = Top.handle /\ f.pointer = Top.pointer /\ f.op = "mkchar"
    BY <1>2 DEF Frame, Ops
  <2>2. stack' = Append(Below, f)
    BY <1>5 DEF Continue
  <2> HIDE DEF f
  <2>3. stack' \in Seq(Frame) /\ Len(stack') = Len(stack)
    BY <1>1, <1>2, <2>1, <2>2
  <2>4. \A i \in DOMAIN stack' :
          (i \in DOMAIN Below /\ stack'[i] = Below[i]) \/ (i = Len(stack) /\ stack'[i] = f)
    BY <1>1, <1>2, <2>1, <2>2
  <2>5. \A i \in DOMAIN stack' :
          /\ i \in DOMAIN stack /\ stack'[i].handle = stack[i].handle
          /\ stack'[i].pointer = stack[i].pointer
          /\ (stack'[i].op = "call" <=> stack[i].op = "call")
    BY <1>1, <1>2, <2>1, <2>4
  <2>6. UNCHANGED <<links, handle, pointer, wrapper>>
    BY DEF PathQuery
  <2>7. \A q \in Pointers : PointerReached(q)' => PointerReached(q)
    BY <2>5, <2>6 DEF PointerReached, InProgress
  <2> QED BY <1>1, <1>3, <1>5, <2>3, <2>5, <2>6, <2>7, FewerSound DEF Sound, TypeOK
<1> QED BY <1>4, <1>5 DEF PathQuery

LEMMA EndSound ==
  ASSUME Sound, Return \/ PathReturn \/ BindFails
  PROVE  Sound'
<1>1. stack # <<>> /\ stack' = Below /\ UNCHANGED <<links, handle, pointer, wrapper, buf>>
  BY DEF Return, PathReturn, BindFails, At
<1> QED BY <1>1, PoppedSound

-----------------------------------------------------------------------------
LEMMA StepSound == Sound /\ [Next]_vars => Sound'
<1> SUFFICES ASSUME Sound, [Next]_vars PROVE Sound'
  OBVIOUS
<1>1. CASE \E h \in Handles : DropHandle(h) \/ DynUnload(h) \/ CollectHandle(h)
  BY <1>1, DropHandleSound, DynUnloadSound, CollectHandleSound
<1>2. CASE \E h \in Handles, l \in Libs, auto \in BOOLEAN : DynLoad(h, l, auto)
  BY <1>2, DynLoadSound
<1>3. CASE \E h \in Handles, p \in Pointers, protect \in BOOLEAN : DynSym(h, p, protect)
  BY <1>3, DynSymSound
<1>4. CASE \E h \in Handles, l \in Libs, table \in Tables : BindLoad(h, l, table)
  BY <1>4, BindLoadSound
<1>5. CASE \E p, q \in Pointers : OffsetPtr(p, q)
  BY <1>5, OffsetPtrSound
<1>6. CASE \E p \in Pointers : DropPointer(p) \/ BindNext(p) \/ CollectPointer(p)
  BY <1>6, DropPointerSound, BindNextSound, CollectPointerSound
<1>7. CASE \E n \in Names : RemoveWrapper(n)
  BY <1>7, RemoveWrapperSound
<1>8. CASE \/ \E p \in Pointers : Call(p)
           \/ \E h \in Handles : DynPath(h)
           \/ \E h \in Handles, table \in Tables : Bind(h, table)
  BY <1>8, BeginSound
<1>9. CASE Return \/ PathReturn \/ BindFails
  BY <1>9, EndSound
<1>10. CASE PathQuery \/ BindUnresolved \/ BindReport
  BY <1>10, PathQuerySound, BindUnresolvedSound, BindReportSound
<1>11. CASE UNCHANGED vars
  BY <1>11 DEF vars, Sound, TypeOK, LinksCover, LiveHandles, HandlesSound, FramesSound,
            SymbolsSound, SymbolProtected, PointerReached, InProgress
<1> QED BY <1>1, <1>2, <1>3, <1>4, <1>5, <1>6, <1>7, <1>8, <1>9, <1>10, <1>11
        DEF Next, Collect

(* The invariant the other theorems follow from.                             *)
THEOREM DynloadInvariant == Spec => []Sound
<1>1. Init => Sound
  BY InitSound
<1>2. Sound /\ [Next]_vars => Sound'
  BY StepSound
<1> QED BY <1>1, <1>2, PTL DEF Spec

(* Types: in particular the linker's counts never fall below zero.           *)
THEOREM DynloadTypes == Spec => []TypeOK
<1>1. Sound => TypeOK
  BY DEF Sound
<1> QED BY <1>1, DynloadInvariant, PTL

(* Every handle that is not cleared owns one link of its library, whatever   *)
(* dynunload(), the finalizer, dynbind() and re-entrant code do.             *)
THEOREM LinksCovered == Spec => []LinksCover
<1>1. Sound => LinksCover
  BY DEF Sound
<1> QED BY <1>1, DynloadInvariant, PTL

(* A library stays mapped while a symbol that protects it can be reached,    *)
(* unless the user unloads it.                                               *)
THEOREM ProtectedStays == Spec => []StaysWhileUsed
<1>1. ASSUME Sound PROVE StaysWhileUsed
  <2> SUFFICES ASSUME NEW p \in Pointers, pointer[p].asked, PointerReached(p)
               PROVE  ProtectedBy(p, pointer[p].keeps)
    BY DEF StaysWhileUsed
  <2> DEFINE h == pointer[p].keeps
  <2>1. SymbolProtected(p) /\ TypeOK /\ LinksCover
    BY <1>1 DEF Sound, SymbolsSound
  <2>2. h \in Handles /\ handle[h].lib \in Libs /\ handle[h].lib = pointer[p].lib
    BY <2>1 DEF SymbolProtected, TypeOK, Pointer, Handle
  <2>3. handle[h].live \/ handle[h].forced
    BY <1>1, <2>1, <2>2 DEF Sound, HandlesSound
  <2>4. handle[h].live => links[pointer[p].lib] > 0
    BY <2>1, <2>2, LiveLinked
  <2> QED BY <2>1, <2>2, <2>3, <2>4 DEF ProtectedBy, SymbolProtected
<1> QED BY <1>1, DynloadInvariant, PTL
=============================================================================
