----------------------- MODULE DynportPackageProofs -----------------------
(***************************************************************************)
(* Theorems about the generated packages.  OrdinaryKept holds for any      *)
(* number of sessions, if no ordinary package is installed while a call is *)
(* in progress (with Intrude it does not hold).  The other                 *)
(* properties hold when a library directory belongs to one session; a      *)
(* second session breaks them (run dynport_shared).  The refinement of     *)
(* DynportContract needs that too.                                         *)
(***************************************************************************)
EXTENDS DynportPackageProps, TLAPS

-----------------------------------------------------------------------------
(* Types.                                                                   *)

ArgsKnown == \A s \in Sessions : call[s].pc # "idle" => call[s].args \in Args
TypeInv == TypeOK /\ ArgsKnown

\* Go moves one session's program counter and nothing else of any call.
LEMMA GoMoves ==
  ASSUME call \in [Sessions -> Call], NEW s \in Sessions, NEW pc \in Pcs, Go(s, pc)
  PROVE  /\ call' \in [Sessions -> Call]
         /\ call'[s].pc = pc
         /\ \A t \in Sessions : /\ call'[t].args = call[t].args
                                /\ call'[t].was = call[t].was
                                /\ call'[t].ran = call[t].ran
                                /\ t # s => call'[t] = call[t]
  BY DEF Go, Call

\* A new call starts with its arguments and a note of what it found.
Started(s, pc, args) ==
  call' = [call EXCEPT ![s] = [pc |-> pc, args |-> args, was |-> installed[args.lib],
                               ran |-> loaded[s]]]
LEMMA StartedCall ==
  ASSUME TypeOK, NEW s \in Sessions, NEW pc \in Pcs, NEW args \in Args, Started(s, pc, args)
  PROVE  /\ call' \in [Sessions -> Call]
         /\ call'[s].pc = pc /\ call'[s].args = args
         /\ call'[s].was = installed[args.lib] /\ call'[s].ran = loaded[s]
         /\ \A t \in Sessions \ {s} : call'[t] = call[t]
<1>1. installed[args.lib] \in Packages \cup {None}
  BY DEF TypeOK, Args
<1>2. loaded[s] \in Namespace
  BY DEF TypeOK
<1>3. [pc |-> pc, args |-> args, was |-> installed[args.lib], ran |-> loaded[s]] \in Call
  BY <1>1, <1>2 DEF Call
<1> QED
  BY <1>3 DEF Started, TypeOK

LEMMA NamespaceTypes ==
  ASSUME TypeOK, NEW s \in Sessions
  PROVE  /\ NotLoaded \in Namespace
         /\ IsLoaded(s) => loaded[s].lib \in Libs /\ loaded[s].content \in Packages
         /\ ~IsLoaded(s) => loaded[s].content = None
         /\ \A lib \in Libs : installed[lib] # None => Found(lib) \in Namespace
                                /\ Found(lib) # NotLoaded
  BY DynportAssumption DEF TypeOK, IsLoaded, NotLoaded, Namespace, Found, Packages

\* What Library, UnloadedThen and Unlink can do.
LEMMA LibraryDoes ==
  ASSUME TypeOK, NEW s \in Sessions, NEW lib \in Libs, NEW done \in Pcs, NEW failed \in Pcs,
         Library(s, lib, done, failed)
  PROVE  /\ loaded' \in [Sessions -> Namespace] /\ attached' \in [Sessions -> BOOLEAN]
         /\ \A t \in Sessions \ {s} : loaded'[t] = loaded[t] /\ attached'[t] = attached[t]
         /\ \/ /\ Go(s, done) /\ installed[lib] # None /\ attached'[s]
               /\ \/ loaded'[s] = Found(lib)
                  \/ /\ loaded'[s] = loaded[s] /\ IsLoaded(s)
                     /\ VersionOf(loaded[s].content) = VersionOf(installed[lib])
            \/ /\ Go(s, failed) /\ attached'[s] = attached[s]
               /\ \/ loaded'[s] = loaded[s]
                  \/ /\ loaded'[s] = NotLoaded
                     /\ ~(IsLoaded(s) /\ VersionOf(loaded[s].content) = VersionOf(installed[lib]))
  BY NamespaceTypes DEF Library, SetNamespace, Attach, TypeOK

LEMMA UnloadedDoes ==
  ASSUME TypeOK, NEW s \in Sessions, NEW pc \in Pcs, UnloadedThen(s, pc)
  PROVE  /\ loaded' \in [Sessions -> Namespace] /\ attached' \in [Sessions -> BOOLEAN]
         /\ \A t \in Sessions \ {s} : loaded'[t] = loaded[t] /\ attached'[t] = attached[t]
         /\ ~attached'[s]
         /\ \/ loaded'[s] = NotLoaded /\ Go(s, pc)
            \/ loaded'[s] = loaded[s] /\ Go(s, "failed")
  BY NamespaceTypes DEF UnloadedThen, SetNamespace, Attach, Fail, TypeOK

LEMMA UnlinkDoes ==
  ASSUME TypeOK, NEW lib \in Libs, Unlink(lib)
  PROVE  /\ installed' \in [Libs -> Packages \cup {None}]
         /\ \A l \in Libs \ {lib} : installed'[l] = installed[l]
         /\ installed'[lib] \in {None, installed[lib]}
<1>1. CASE UNCHANGED installed
  BY <1>1 DEF TypeOK
<1>2. CASE installed' = [installed EXCEPT ![lib] = None]
  <2>1. installed \in [Libs -> Packages \cup {None}]
    BY DEF TypeOK
  <2> QED
    BY <1>2, <2>1
<1> QED
  BY <1>1, <1>2 DEF Unlink

-----------------------------------------------------------------------------
(* The steps, with every helper replaced by what it does.                   *)

Calling == {"checkLoaded", "checkInstalled", "remove", "install", "load"}

LEMMA TypesHold == TypeInv /\ [Next]_vars => TypeInv'
<1> SUFFICES ASSUME TypeInv, [Next]_vars
             PROVE  TypeInv'
  OBVIOUS
<1> USE DEF TypeInv, At
<1>0. CASE UNCHANGED vars
  BY <1>0 DEF vars, TypeOK, ArgsKnown
<1>1. ASSUME NEW s \in Sessions, NEW args \in Args, Begin(s, args)
      PROVE  TypeInv'
  <2>1. \E pc \in Pcs : Started(s, pc, args)
    BY <1>1 DEF Begin, Started, Pcs
  <2>2. calls' \in 0..MaxCalls
    BY <1>1, DynportAssumption DEF Begin, MayBegin, TypeOK
  <2>3. UNCHANGED <<installed, loaded, attached>>
    BY <1>1 DEF Begin
  <2> QED
    BY <2>1, <2>2, <2>3, StartedCall DEF TypeOK, ArgsKnown
<1>2. ASSUME NEW s \in Sessions, NEW args \in Args, Clear(s, args)
      PROVE  TypeInv'
  <2>1. \E pc \in Pcs : Started(s, pc, args)
    BY <1>2 DEF Clear, Started, Pcs
  <2>2. calls' \in 0..MaxCalls
    BY <1>2, DynportAssumption DEF Clear, MayBegin, TypeOK
  <2>3. loaded' \in [Sessions -> Namespace] /\ attached' \in [Sessions -> BOOLEAN]
    BY <1>2, NamespaceTypes DEF Clear, SetNamespace, Attach, TypeOK
  <2> QED
    BY <1>2, <2>1, <2>2, <2>3, StartedCall DEF Clear, TypeOK, ArgsKnown
<1>3. ASSUME NEW s \in Sessions, CheckLoaded(s)
      PROVE  TypeInv'
  <2>1. \E pc \in Pcs : Go(s, pc)
    BY <1>3, UnloadedDoes DEF CheckLoaded, Fail, Pcs
  <2>2. loaded' \in [Sessions -> Namespace] /\ attached' \in [Sessions -> BOOLEAN]
    BY <1>3, UnloadedDoes DEF CheckLoaded, TypeOK, Pcs
  <2> QED
    BY <1>3, <2>1, <2>2, GoMoves DEF CheckLoaded, TypeOK, ArgsKnown
<1>4. ASSUME NEW s \in Sessions, CheckInstalled(s)
      PROVE  TypeInv'
  <2>1. \E pc \in Pcs : Go(s, pc)
    BY <1>4 DEF CheckInstalled, Fail, AfterInstall, Pcs
  <2> QED
    BY <1>4, <2>1, GoMoves DEF CheckInstalled, TypeOK, ArgsKnown
<1>5. ASSUME NEW s \in Sessions, Remove(s)
      PROVE  TypeInv'
  <2>1. \E pc \in Pcs : Go(s, pc)
    BY <1>5, UnloadedDoes DEF Remove, Pcs
  <2>2. loaded' \in [Sessions -> Namespace] /\ attached' \in [Sessions -> BOOLEAN]
    BY <1>5, UnloadedDoes DEF Remove, TypeOK, Pcs
  <2>3. call[s].args.lib \in Libs
    BY <1>5 DEF Remove, ArgsKnown, Args
  <2>4. installed' \in [Libs -> Packages \cup {None}]
    BY <1>5, <2>3, UnlinkDoes DEF Remove, TypeOK
  <2> QED
    BY <1>5, <2>1, <2>2, <2>4, GoMoves DEF Remove, TypeOK, ArgsKnown
<1>6. ASSUME NEW s \in Sessions, Install(s)
      PROVE  TypeInv'
  <2>1. \E pc \in Pcs : Go(s, pc)
    BY <1>6 DEF Install, Fail, AfterInstall, Pcs
  <2>2. call[s].args.lib \in Libs /\ call[s].args.content \in Contents
    BY <1>6 DEF Install, ArgsKnown, Args
  <2>3. installed' \in [Libs -> Packages \cup {None}]
    BY <1>6, <2>2 DEF Install, TypeOK, Packages
  <2> QED
    BY <1>6, <2>1, <2>3, GoMoves DEF Install, TypeOK, ArgsKnown
<1>7. ASSUME NEW s \in Sessions, Load(s)
      PROVE  TypeInv'
  <2>1. call[s].args.lib \in Libs
    BY <1>7 DEF Load, ArgsKnown, Args
  <2>2. \E pc \in Pcs : Go(s, pc)
    BY <1>7, <2>1, LibraryDoes DEF Load, Pcs
  <2>3. loaded' \in [Sessions -> Namespace] /\ attached' \in [Sessions -> BOOLEAN]
    BY <1>7, <2>1, LibraryDoes DEF Load, TypeOK, Pcs
  <2> QED
    BY <1>7, <2>2, <2>3, GoMoves DEF Load, TypeOK, ArgsKnown
<1>8. ASSUME NEW s \in Sessions, ClearUnlink(s)
      PROVE  TypeInv'
  <2>1. call[s].args.lib \in Libs
    BY <1>8 DEF ClearUnlink, ArgsKnown, Args
  <2>2. installed' \in [Libs -> Packages \cup {None}]
    BY <1>8, <2>1, UnlinkDoes DEF ClearUnlink
  <2> QED
    BY <1>8, <2>2, GoMoves DEF ClearUnlink, TypeOK, ArgsKnown, Pcs
<1>9. ASSUME NEW s \in Sessions, UnloadByHand(s)
      PROVE  TypeInv'
  BY <1>9, GoMoves, NamespaceTypes
  DEF UnloadByHand, SetNamespace, Attach, TypeOK, ArgsKnown, Pcs
<1>10. ASSUME NEW s \in Sessions, NEW lib \in Libs, LoadByHand(s, lib)
       PROVE  TypeInv'
  <2>1. Go(s, "idle")
    BY <1>10, LibraryDoes DEF LoadByHand, Pcs
  <2>2. loaded' \in [Sessions -> Namespace] /\ attached' \in [Sessions -> BOOLEAN]
    BY <1>10, LibraryDoes DEF LoadByHand, Pcs
  <2> QED
    BY <1>10, <2>1, <2>2, GoMoves DEF LoadByHand, TypeOK, ArgsKnown, Pcs
<1>11. ASSUME NEW lib \in Libs, InstallByHand(lib)
       PROVE  TypeInv'
  <2>1. installed' \in [Libs -> Packages \cup {None}]
    BY <1>11 DEF InstallByHand, TypeOK, Packages
  <2> QED
    BY <1>11, <2>1 DEF InstallByHand, TypeOK, ArgsKnown
<1> QED
  BY <1>0, <1>1, <1>2, <1>3, <1>4, <1>5, <1>6, <1>7, <1>8, <1>9, <1>10, <1>11 DEF Next, Step

LEMMA TypesInitially == Init => TypeInv
<1> SUFFICES ASSUME Init
             PROVE  TypeInv
  OBVIOUS
<1>1. installed \in [Libs -> Packages \cup {None}]
  BY DEF Init, Packages
<1>2. call \in [Sessions -> Call]
  BY DEF Init, Call, Pcs, Namespace
<1> QED
  BY <1>1, <1>2, DynportAssumption DEF Init, TypeInv, TypeOK, ArgsKnown, Namespace

\* Type correctness for every set of sessions, directories and port files.
THEOREM DynportTypes == Spec => []TypeOK
<1>1. TypeInv => TypeOK
  BY DEF TypeInv
<1> QED
  BY TypesInitially, TypesHold, <1>1, PTL DEF Spec

-----------------------------------------------------------------------------
(* Packages that rdyncall did not generate.                                 *)

LEMMA ContentsDiffer == None # Ordinary /\ None \notin Contents /\ Ordinary \notin Contents
  BY DynportAssumption

OrdinarySession(s) ==
  /\ loaded[s].content = Ordinary => installed[loaded[s].lib] = Ordinary
  /\ call[s].pc \in {"checkInstalled", "remove", "install", "load"}
       => loaded[s].content # Ordinary
  /\ call[s].pc \in {"remove", "install", "clear"} => There(s) # Ordinary

\* A step of one session leaves the others' part of the invariant alone if it
\* neither makes nor destroys an ordinary package.
LEMMA OrdinaryFrame ==
  ASSUME TypeInv, OrdinaryInv, NEW s \in Sessions,
         \A t \in Sessions \ {s} : loaded'[t] = loaded[t] /\ call'[t] = call[t],
         \A lib \in Libs : installed'[lib] = Ordinary <=> installed[lib] = Ordinary,
         loaded[s].content = Ordinary /\ call'[s].pc # "idle" => loaded'[s] = loaded[s],
         OrdinarySession(s)'
  PROVE  OrdinaryInv' /\ OrdinaryUntouched
<1>1. \A t \in Sessions : loaded[t].content = Ordinary => loaded[t].lib \in Libs
  BY NamespaceTypes, ContentsDiffer DEF TypeInv
<1>2. \A t \in Sessions : call[t].pc # "idle" => call[t].args.lib \in Libs
  BY DEF TypeInv, ArgsKnown, Args
<1>3. \A t \in Sessions \ {s} : OrdinarySession(t)'
  BY <1>1, <1>2 DEF OrdinaryInv, OrdinarySession, There
<1>4. OrdinaryInv'
  BY <1>3 DEF OrdinaryInv, OrdinarySession, There
<1>5. OrdinaryUntouched
  BY DEF OrdinaryUntouched
<1> QED
  BY <1>4, <1>5

\* So does an ordinary package that arrives when no call is in progress.
LEMMA OrdinaryArrives ==
  ASSUME ~Intrude, TypeInv, OrdinaryInv, NEW lib \in Libs, InstallByHand(lib)
  PROVE  OrdinaryInv' /\ OrdinaryUntouched
<1>1. /\ installed[lib] = None /\ installed' = [installed EXCEPT ![lib] = Ordinary]
      /\ \A s \in Sessions : Free(s)
      /\ UNCHANGED <<loaded, attached, call, calls>>
  BY DEF InstallByHand
<1>2. installed \in [Libs -> Packages \cup {None}]
  BY DEF TypeInv, TypeOK
<1>3. \A l \in Libs : installed[l] = Ordinary => installed'[l] = Ordinary
  BY <1>1, <1>2
<1>4. \A s \in Sessions : loaded[s].content = Ordinary => loaded[s].lib \in Libs
  BY NamespaceTypes, ContentsDiffer DEF TypeInv
<1>5. \A s \in Sessions : OrdinarySession(s)'
  BY <1>1, <1>3, <1>4 DEF OrdinaryInv, OrdinarySession, Free
<1>6. OrdinaryInv'
  BY <1>5 DEF OrdinaryInv, OrdinarySession, There
<1>7. OrdinaryUntouched
  BY <1>1, <1>3 DEF OrdinaryUntouched
<1> QED
  BY <1>6, <1>7

LEMMA OrdinaryHolds ==
  ASSUME ~Intrude, TypeInv, OrdinaryInv, [Next]_vars
  PROVE  OrdinaryInv' /\ (OrdinaryUntouched \/ UNCHANGED vars)
<1>t. TypeOK
  BY DEF TypeInv
<1>a. \A s \in Sessions : OrdinarySession(s)
  BY DEF OrdinaryInv, OrdinarySession, There
<1>l. \A s \in Sessions : loaded[s].content = Ordinary => loaded[s].lib \in Libs
  BY <1>t, NamespaceTypes, ContentsDiffer
<1>0. CASE UNCHANGED vars
  BY <1>0 DEF vars, OrdinaryInv, There
<1>1. ASSUME NEW s \in Sessions, NEW args \in Args, Begin(s, args)
      PROVE  OrdinaryInv' /\ OrdinaryUntouched
  <2>1. /\ UNCHANGED <<installed, loaded>>
        /\ \E pc \in {"checkLoaded", "failed"} : Started(s, pc, args)
    BY <1>1 DEF Begin, Started
  <2>2. /\ call'[s].pc \in {"checkLoaded", "failed"}
        /\ \A t \in Sessions \ {s} : call'[t] = call[t]
    BY <1>t, <2>1, StartedCall DEF Pcs
  <2>3. OrdinarySession(s)'
    BY <1>a, <2>1, <2>2 DEF OrdinarySession
  <2> QED
    BY <2>1, <2>2, <2>3, OrdinaryFrame
<1>2. ASSUME NEW s \in Sessions, NEW args \in Args, Clear(s, args)
      PROVE  OrdinaryInv' /\ OrdinaryUntouched
  <2> DEFINE ordinary == loaded[s].content = Ordinary
  <2>1. /\ UNCHANGED installed
        /\ \A t \in Sessions \ {s} : loaded'[t] = loaded[t]
        /\ loaded'[s] = loaded[s] \/ loaded'[s] = NotLoaded
    BY <1>2, <1>t DEF Clear, SetNamespace, TypeOK
  <2>2. loaded'[s] # loaded[s] => IsLoaded(s) /\ loaded[s].lib = args.lib /\ Generated(installed[args.lib])
    BY <1>2 DEF Clear, SetNamespace
  <2>3. ordinary => loaded'[s] = loaded[s]
    BY <1>a, <2>2, ContentsDiffer DEF OrdinarySession, Generated
  <2>4. \E pc \in {"returned", "clear", "failed"} :
          Started(s, pc, args) /\ (pc = "clear" => Generated(installed[args.lib]))
    BY <1>2 DEF Clear, Started
  <2>5. /\ call'[s].pc \in {"returned", "clear", "failed"} /\ call'[s].args = args
        /\ call'[s].pc = "clear" => Generated(installed[args.lib])
        /\ \A t \in Sessions \ {s} : call'[t] = call[t]
    <3>1. PICK pc \in {"returned", "clear", "failed"} :
            Started(s, pc, args) /\ (pc = "clear" => Generated(installed[args.lib]))
      BY <2>4
    <3>2. pc \in Pcs
      BY DEF Pcs
    <3>3. /\ call'[s].pc = pc /\ call'[s].args = args
          /\ \A t \in Sessions \ {s} : call'[t] = call[t]
      BY <1>t, <3>1, <3>2, StartedCall
    <3> QED
      BY <3>1, <3>3
  <2>6. OrdinarySession(s)'
    BY <1>a, <2>1, <2>5, ContentsDiffer DEF OrdinarySession, NotLoaded, There, Generated
  <2> QED
    BY <2>1, <2>3, <2>5, <2>6, OrdinaryFrame
<1>3. ASSUME NEW s \in Sessions, CheckLoaded(s)
      PROVE  OrdinaryInv' /\ OrdinaryUntouched
  <2>1. UNCHANGED installed
    BY <1>3 DEF CheckLoaded
  <2>2. CASE /\ ~IsLoaded(s) \/ Md5Equal(installed[loaded[s].lib], s)
             /\ Go(s, "checkInstalled") /\ UNCHANGED loaded
    <3>1. call'[s].pc = "checkInstalled" /\ \A t \in Sessions \ {s} : call'[t] = call[t]
      BY <1>t, <2>2, GoMoves DEF TypeOK, Pcs
    <3>2. call[s].args.content \in Contents
      BY <1>3 DEF CheckLoaded, At, TypeInv, ArgsKnown, Args
    <3>3. loaded[s].content # Ordinary
      BY <1>t, <1>a, <2>2, <3>2, NamespaceTypes, ContentsDiffer DEF Md5Equal, OrdinarySession
    <3>4. OrdinarySession(s)'
      BY <2>2, <3>1, <3>3 DEF OrdinarySession
    <3> QED
      BY <2>1, <2>2, <3>1, <3>3, <3>4, OrdinaryFrame
  <2>3. CASE Fail(s) /\ UNCHANGED loaded
    <3>1. call'[s].pc = "failed" /\ \A t \in Sessions \ {s} : call'[t] = call[t]
      BY <1>t, <2>3, GoMoves DEF TypeOK, Pcs, Fail
    <3>2. OrdinarySession(s)'
      BY <1>a, <2>1, <2>3, <3>1 DEF OrdinarySession
    <3> QED
      BY <2>1, <2>3, <3>1, <3>2, OrdinaryFrame
  <2>4. CASE IsLoaded(s) /\ Generated(installed[loaded[s].lib]) /\ UnloadedThen(s, "checkInstalled")
    <3>1. loaded[s].content # Ordinary
      BY <1>a, <2>4, ContentsDiffer DEF OrdinarySession, Generated
    <3>2. /\ \A t \in Sessions \ {s} : loaded'[t] = loaded[t]
          /\ loaded'[s] = NotLoaded \/ loaded'[s] = loaded[s]
          /\ Go(s, "checkInstalled") \/ Go(s, "failed")
      BY <1>t, <2>4, UnloadedDoes DEF Pcs
    <3>3. /\ call'[s].pc \in {"checkInstalled", "failed"}
          /\ \A t \in Sessions \ {s} : call'[t] = call[t]
      BY <1>t, <3>2, GoMoves DEF TypeOK, Pcs
    <3>4. OrdinarySession(s)'
      BY <3>1, <3>2, <3>3, ContentsDiffer DEF OrdinarySession, NotLoaded
    <3> QED
      BY <2>1, <3>1, <3>2, <3>3, <3>4, OrdinaryFrame
  <2> QED
    BY <1>3, <2>2, <2>3, <2>4 DEF CheckLoaded
<1>4. ASSUME NEW s \in Sessions, CheckInstalled(s)
      PROVE  OrdinaryInv' /\ OrdinaryUntouched
  <2>1. UNCHANGED <<installed, loaded>>
    BY <1>4 DEF CheckInstalled
  <2>2. \E pc \in Pcs : Go(s, pc) /\ pc \in {"install", "load", "returned", "remove", "failed"}
                        /\ (pc \in {"install", "remove"} => There(s) # Ordinary)
    BY <1>4, ContentsDiffer DEF CheckInstalled, Fail, AfterInstall, Pcs, Generated
  <2>3. /\ call'[s].pc \in {"install", "load", "returned", "remove", "failed"}
        /\ call'[s].pc \in {"install", "remove"} => There(s) # Ordinary
        /\ call'[s].args = call[s].args
        /\ \A t \in Sessions \ {s} : call'[t] = call[t]
    BY <1>t, <2>2, GoMoves DEF TypeOK
  <2>4. OrdinarySession(s)'
    BY <1>4, <1>a, <2>1, <2>3 DEF OrdinarySession, There, CheckInstalled, At
  <2> QED
    BY <2>1, <2>3, <2>4, OrdinaryFrame
<1>5. ASSUME NEW s \in Sessions, Remove(s)
      PROVE  OrdinaryInv' /\ OrdinaryUntouched
  <2>1. /\ loaded[s].content # Ordinary /\ There(s) # Ordinary
        /\ call[s].args.lib \in Libs
    BY <1>5, <1>a DEF Remove, At, OrdinarySession, TypeInv, ArgsKnown, Args
  <2>2. /\ \A t \in Sessions \ {s} : loaded'[t] = loaded[t]
        /\ loaded'[s] = NotLoaded \/ loaded'[s] = loaded[s]
        /\ Go(s, "install") \/ Go(s, "failed")
    BY <1>5, <1>t, UnloadedDoes DEF Remove, Pcs
  <2>3. /\ call'[s].pc \in {"install", "failed"} /\ call'[s].args = call[s].args
        /\ \A t \in Sessions \ {s} : call'[t] = call[t]
    BY <1>t, <2>2, GoMoves DEF TypeOK, Pcs
  <2>4. /\ \A lib \in Libs \ {call[s].args.lib} : installed'[lib] = installed[lib]
        /\ installed'[call[s].args.lib] \in {None, There(s)}
    BY <1>5, <1>t, <2>1, UnlinkDoes DEF Remove, There
  <2>5. \A lib \in Libs : installed'[lib] = Ordinary <=> installed[lib] = Ordinary
    BY <2>1, <2>4, ContentsDiffer DEF There
  <2>6. OrdinarySession(s)'
    BY <2>1, <2>2, <2>3, <2>4, ContentsDiffer DEF OrdinarySession, There, NotLoaded
  <2> QED
    BY <2>1, <2>2, <2>3, <2>5, <2>6, OrdinaryFrame
<1>6. ASSUME NEW s \in Sessions, Install(s)
      PROVE  OrdinaryInv' /\ OrdinaryUntouched
  <2>1. /\ loaded[s].content # Ordinary /\ There(s) # Ordinary
        /\ call[s].args.lib \in Libs /\ call[s].args.content \in Contents
    BY <1>6, <1>a DEF Install, At, OrdinarySession, TypeInv, ArgsKnown, Args
  <2>2. UNCHANGED loaded /\ \E pc \in {"load", "returned", "failed"} : Go(s, pc)
    BY <1>6 DEF Install, Fail, AfterInstall
  <2>3. /\ call'[s].pc \in {"load", "returned", "failed"}
        /\ \A t \in Sessions \ {s} : call'[t] = call[t]
    BY <1>t, <2>2, GoMoves DEF TypeOK, Pcs
  <2>4. \A lib \in Libs : installed'[lib] = Ordinary <=> installed[lib] = Ordinary
    BY <1>6, <1>t, <2>1, ContentsDiffer DEF Install, TypeOK, There
  <2>5. OrdinarySession(s)'
    BY <2>1, <2>2, <2>3 DEF OrdinarySession
  <2> QED
    BY <2>1, <2>2, <2>3, <2>4, <2>5, OrdinaryFrame
<1>7. ASSUME NEW s \in Sessions, Load(s)
      PROVE  OrdinaryInv' /\ OrdinaryUntouched
  <2>1. /\ loaded[s].content # Ordinary /\ call[s].args.lib \in Libs /\ UNCHANGED installed
    BY <1>7, <1>a DEF Load, At, OrdinarySession, TypeInv, ArgsKnown, Args
  <2>2. /\ \A t \in Sessions \ {s} : loaded'[t] = loaded[t]
        /\ loaded'[s] \in {NotLoaded, loaded[s], Found(call[s].args.lib)}
        /\ Go(s, "returned") \/ Go(s, "failed")
    BY <1>7, <1>t, <2>1, LibraryDoes DEF Load, Pcs
  <2>3. /\ call'[s].pc \in {"returned", "failed"}
        /\ \A t \in Sessions \ {s} : call'[t] = call[t]
    BY <1>t, <2>2, GoMoves DEF TypeOK, Pcs
  <2>4. OrdinarySession(s)'
    BY <2>1, <2>2, <2>3, ContentsDiffer DEF OrdinarySession, NotLoaded, Found
  <2> QED
    BY <2>1, <2>2, <2>3, <2>4, OrdinaryFrame
<1>8. ASSUME NEW s \in Sessions, ClearUnlink(s)
      PROVE  OrdinaryInv' /\ OrdinaryUntouched
  <2>1. There(s) # Ordinary /\ call[s].args.lib \in Libs /\ UNCHANGED loaded
    BY <1>8, <1>a DEF ClearUnlink, At, OrdinarySession, TypeInv, ArgsKnown, Args
  <2>2. call'[s].pc = "returned" /\ \A t \in Sessions \ {s} : call'[t] = call[t]
    BY <1>8, <1>t, GoMoves DEF ClearUnlink, TypeOK, Pcs
  <2>3. /\ \A lib \in Libs \ {call[s].args.lib} : installed'[lib] = installed[lib]
        /\ installed'[call[s].args.lib] \in {None, There(s)}
    BY <1>8, <1>t, <2>1, UnlinkDoes DEF ClearUnlink, There
  <2>4. \A lib \in Libs : installed'[lib] = Ordinary <=> installed[lib] = Ordinary
    BY <2>1, <2>3, ContentsDiffer DEF There
  <2>5. OrdinarySession(s)'
    BY <1>a, <1>l, <2>1, <2>2, <2>4 DEF OrdinarySession
  <2> QED
    BY <2>1, <2>2, <2>4, <2>5, OrdinaryFrame
<1>9. ASSUME NEW s \in Sessions, UnloadByHand(s)
      PROVE  OrdinaryInv' /\ OrdinaryUntouched
  <2>1. /\ UNCHANGED installed /\ loaded'[s] = NotLoaded
        /\ \A t \in Sessions \ {s} : loaded'[t] = loaded[t]
    BY <1>9, <1>t DEF UnloadByHand, SetNamespace, TypeOK
  <2>2. call'[s].pc = "idle" /\ \A t \in Sessions \ {s} : call'[t] = call[t]
    BY <1>9, <1>t, GoMoves DEF UnloadByHand, TypeOK, Pcs
  <2>3. OrdinarySession(s)'
    BY <2>1, <2>2, ContentsDiffer DEF OrdinarySession, NotLoaded
  <2> QED
    BY <2>1, <2>2, <2>3, OrdinaryFrame
<1>10. ASSUME NEW s \in Sessions, NEW lib \in Libs, LoadByHand(s, lib)
       PROVE  OrdinaryInv' /\ OrdinaryUntouched
  <2>1. /\ UNCHANGED installed
        /\ loaded'[s] \in {NotLoaded, loaded[s], Found(lib)}
        /\ \A t \in Sessions \ {s} : loaded'[t] = loaded[t]
        /\ Go(s, "idle")
    BY <1>10, <1>t, LibraryDoes DEF LoadByHand, Pcs
  <2>2. call'[s].pc = "idle" /\ \A t \in Sessions \ {s} : call'[t] = call[t]
    BY <1>t, <2>1, GoMoves DEF TypeOK, Pcs
  <2>3. OrdinarySession(s)'
    BY <1>a, <2>1, <2>2, ContentsDiffer DEF OrdinarySession, NotLoaded, Found
  <2> QED
    BY <2>1, <2>2, <2>3, OrdinaryFrame
<1>11. ASSUME NEW lib \in Libs, InstallByHand(lib)
       PROVE  OrdinaryInv' /\ OrdinaryUntouched
  BY <1>11, OrdinaryArrives
<1> QED
  BY <1>0, <1>1, <1>2, <1>3, <1>4, <1>5, <1>6, <1>7, <1>8, <1>9, <1>10, <1>11 DEF Next, Step

LEMMA OrdinaryInitially == Init => OrdinaryInv
<1> SUFFICES ASSUME Init, NEW s \in Sessions
             PROVE  OrdinarySession(s)
  BY DEF OrdinaryInv, OrdinarySession, There
<1>1. loaded[s].content = None /\ call[s].pc = "idle"
  BY DEF Init, NotLoaded
<1> QED
  BY <1>1, ContentsDiffer DEF OrdinarySession

LEMMA OrdinaryInvariance ==
  ASSUME ~Intrude
  PROVE  Spec => [](TypeInv /\ OrdinaryInv)
<1>1. TypeInv /\ OrdinaryInv /\ [Next]_vars => OrdinaryInv'
  BY OrdinaryHolds
<1> QED
  BY TypesInitially, TypesHold, OrdinaryInitially, <1>1, PTL DEF Spec

\* A package rdyncall did not generate, installed while no call was in progress,
\* survives every interleaving of the calls of any number of sessions.
THEOREM OrdinarySafe ==
  ASSUME ~Intrude
  PROVE  Spec => OrdinaryKept
<1>1. OrdinaryUntouched \/ UNCHANGED vars => [OrdinaryUntouched]_vars
  OBVIOUS
<1>2. TypeInv /\ OrdinaryInv /\ [Next]_vars => [OrdinaryUntouched]_vars
  BY <1>1, OrdinaryHolds
<1> QED
  BY OrdinaryInvariance, <1>2, PTL DEF Spec, OrdinaryKept

-----------------------------------------------------------------------------
(* A library directory that belongs to one session.                         *)

Alone == ~Intrude /\ \E me : Sessions = {me}

AloneSession(s) ==
  /\ IsLoaded(s) => installed[loaded[s].lib] = loaded[s].content
  /\ At(s, "returned") /\ Installs(s) /\ call[s].args.load
       => attached[s] /\ loaded[s].content = call[s].args.content
  /\ At(s, "failed") /\ Installs(s) /\ ~call[s].args.rebuild
       => /\ loaded[s] = call[s].ran
          /\ \/ There(s) = call[s].was
             \/ call[s].was = None /\ There(s) \in {call[s].args.content, Ordinary}
  /\ Ready(s) /\ Keeps(s)

LEMMA AloneIsSession ==
  ASSUME NEW s, Sessions = {s}
  PROVE  /\ AloneInv <=> AloneSession(s)
         /\ AloneInv' <=> AloneSession(s)'
  BY DEF AloneInv, AloneSession, LoadedOnDisk, LoadedMatches, FailureKeeps

LEMMA AloneHolds ==
  ASSUME Alone, TypeInv, OrdinaryInv, AloneInv, [Next]_vars
  PROVE  AloneInv'
<1>0. CASE UNCHANGED vars
  BY <1>0 DEF vars, AloneInv, LoadedOnDisk, LoadedMatches, FailureKeeps, Ready, Keeps,
              IsLoaded, At, Installs, There
<1>m. PICK s : Sessions = {s}
  BY DEF Alone
<1>t. TypeOK /\ s \in Sessions
  BY <1>m DEF TypeInv
<1>i. AloneSession(s)
  BY <1>m, AloneIsSession
<1>a. call[s].pc # "idle" =>
        /\ call[s].args.lib \in Libs /\ call[s].args.content \in Contents
        /\ call[s].args.rebuild \in BOOLEAN
  BY <1>m DEF TypeInv, ArgsKnown, Args
<1>l. IsLoaded(s) => loaded[s].lib \in Libs
  BY <1>t, NamespaceTypes
<1> USE DEF At
<1>1. ASSUME NEW args \in Args, Begin(s, args)
      PROVE  AloneSession(s)'
  <2>1. /\ UNCHANGED <<installed, loaded, attached>>
        /\ \E pc \in {"checkLoaded", "failed"} : Started(s, pc, args)
    BY <1>1 DEF Begin, Started
  <2>2. /\ call'[s].pc \in {"checkLoaded", "failed"} /\ call'[s].args = args
        /\ call'[s].was = installed[args.lib] /\ call'[s].ran = loaded[s]
    BY <1>t, <2>1, StartedCall DEF Pcs
  <2>3. args.op = "install"
    BY <1>1 DEF Begin
  <2> QED
    BY <1>i, <2>1, <2>2, <2>3 DEF AloneSession, Ready, Keeps, IsLoaded, Installs, There
<1>2. ASSUME NEW args \in Args, Clear(s, args)
      PROVE  AloneSession(s)'
  <2>1. UNCHANGED installed /\ args.op = "clear"
    BY <1>2 DEF Clear
  <2>2. \E pc \in {"returned", "clear", "failed"} :
          /\ Started(s, pc, args)
          /\ \/ UNCHANGED <<loaded, attached>>
                /\ (pc = "clear" => ~(IsLoaded(s) /\ loaded[s].lib = args.lib))
             \/ loaded'[s] = NotLoaded /\ ~attached'[s]
             \/ loaded'[s] = loaded[s] /\ ~attached'[s] /\ pc = "failed"
    BY <1>2, <1>t DEF Clear, Started, SetNamespace, Attach, TypeOK
  <2>3. PICK pc \in {"returned", "clear", "failed"} :
          /\ Started(s, pc, args)
          /\ \/ UNCHANGED <<loaded, attached>>
                /\ (pc = "clear" => ~(IsLoaded(s) /\ loaded[s].lib = args.lib))
             \/ loaded'[s] = NotLoaded /\ ~attached'[s]
             \/ loaded'[s] = loaded[s] /\ ~attached'[s] /\ pc = "failed"
    BY <2>2
  <2>4. pc \in Pcs
    BY DEF Pcs
  <2>5. call'[s].pc = pc /\ call'[s].args = args
    BY <1>t, <2>3, <2>4, StartedCall
  <2> QED
    BY <1>i, <2>1, <2>3, <2>5 DEF AloneSession, Ready, Keeps, IsLoaded, Installs
<1>3. ASSUME CheckLoaded(s)
      PROVE  AloneSession(s)'
  <2>1. UNCHANGED installed /\ call[s].pc = "checkLoaded"
    BY <1>3 DEF CheckLoaded
  <2>2. CASE /\ ~IsLoaded(s) \/ Md5Equal(installed[loaded[s].lib], s)
             /\ Go(s, "checkInstalled") /\ UNCHANGED <<loaded, attached>>
    <3>1. /\ call'[s].pc = "checkInstalled" /\ call'[s].args = call[s].args
          /\ call'[s].was = call[s].was /\ call'[s].ran = call[s].ran
      BY <1>t, <2>2, GoMoves DEF TypeOK, Pcs
    <3>2. IsLoaded(s) => loaded[s].content = call[s].args.content
      BY <1>i, <2>2 DEF AloneSession, Md5Equal
    <3> QED
      BY <1>i, <2>1, <2>2, <3>1, <3>2 DEF AloneSession, Ready, Keeps, IsLoaded, Installs, There
  <2>3. CASE Fail(s) /\ UNCHANGED <<loaded, attached>>
    <3>1. /\ call'[s].pc = "failed" /\ call'[s].args = call[s].args
          /\ call'[s].was = call[s].was /\ call'[s].ran = call[s].ran
      BY <1>t, <2>3, GoMoves DEF TypeOK, Pcs, Fail
    <3> QED
      BY <1>i, <2>1, <2>3, <3>1 DEF AloneSession, Ready, Keeps, IsLoaded, Installs, There
  <2>4. CASE call[s].args.rebuild /\ UnloadedThen(s, "checkInstalled")
    <3>1. /\ loaded'[s] = NotLoaded \/ loaded'[s] = loaded[s]
          /\ (loaded'[s] = NotLoaded /\ Go(s, "checkInstalled")) \/ Go(s, "failed")
          /\ ~attached'[s]
      BY <1>t, <2>4, UnloadedDoes DEF Pcs
    <3>2. /\ call'[s].args = call[s].args
          /\ \/ call'[s].pc = "checkInstalled" /\ loaded'[s] = NotLoaded
             \/ call'[s].pc = "failed"
      BY <1>t, <3>1, GoMoves DEF TypeOK, Pcs
    <3> QED
      BY <1>i, <2>1, <2>4, <3>1, <3>2 DEF AloneSession, Ready, Keeps, IsLoaded, Installs
  <2> QED
    BY <1>3, <2>2, <2>3, <2>4 DEF CheckLoaded
<1>4. ASSUME CheckInstalled(s)
      PROVE  AloneSession(s)'
  <2>1. UNCHANGED <<installed, loaded, attached>> /\ call[s].pc = "checkInstalled"
    BY <1>4 DEF CheckInstalled
  <2> DEFINE next(pc) ==
        \/ pc = "install" /\ There(s) = None
        \/ pc = "failed"
        \/ pc = "remove" /\ There(s) # call[s].args.content /\ call[s].args.rebuild
        \/ pc = "load" /\ There(s) = call[s].args.content
        \/ pc = "returned" /\ ~call[s].args.load
  <2>2. \E pc \in Pcs : Go(s, pc) /\ next(pc)
    BY <1>4 DEF CheckInstalled, Fail, AfterInstall, Pcs, Md5Equal
  <2>3. PICK pc \in Pcs : Go(s, pc) /\ next(pc)
    BY <2>2
  <2>4. /\ call'[s].pc = pc /\ call'[s].args = call[s].args
        /\ call'[s].was = call[s].was /\ call'[s].ran = call[s].ran
    BY <1>t, <2>3, GoMoves DEF TypeOK
  <2>5. There(s)' = There(s)
    BY <2>1, <2>4 DEF There
  <2> QED
    BY <1>i, <2>1, <2>3, <2>4, <2>5 DEF AloneSession, Ready, Keeps, IsLoaded, Installs
<1>5. ASSUME Remove(s)
      PROVE  AloneSession(s)'
  <2>1. /\ call[s].pc = "remove" /\ call[s].args.rebuild /\ Installs(s)
        /\ call[s].args.lib \in Libs
    BY <1>5, <1>i, <1>a DEF Remove, AloneSession, Ready, Keeps
  <2>2. /\ loaded'[s] = NotLoaded \/ loaded'[s] = loaded[s]
        /\ (loaded'[s] = NotLoaded /\ Go(s, "install")) \/ Go(s, "failed")
        /\ attached'[s] => attached[s] /\ loaded'[s] = loaded[s] /\ IsLoaded(s)
    BY <1>5, <1>t, <1>i, UnloadedDoes DEF Remove, IsLoaded, AloneSession, Ready, Pcs
  <2>3. /\ call'[s].args = call[s].args
        /\ \/ call'[s].pc = "install" /\ loaded'[s] = NotLoaded
           \/ call'[s].pc = "failed" /\ Go(s, "failed")
    BY <1>t, <2>2, GoMoves DEF TypeOK, Pcs
  <2>4. call'[s].pc = "failed" => UNCHANGED installed
    BY <1>5, <2>3 DEF Remove
  <2> QED
    BY <1>i, <2>1, <2>2, <2>3, <2>4 DEF AloneSession, Ready, Keeps, IsLoaded, Installs
<1>6. ASSUME Install(s)
      PROVE  AloneSession(s)'
  <2>1. /\ UNCHANGED <<loaded, attached>> /\ call[s].pc = "install"
        /\ call[s].args.lib \in Libs
        /\ IsLoaded(s) => loaded[s].content = call[s].args.content
    BY <1>6, <1>i, <1>a DEF Install, AloneSession, Ready
  <2>2. CASE /\ installed' = [installed EXCEPT ![call[s].args.lib] = call[s].args.content]
             /\ Go(s, AfterInstall(s))
    <3>1. AfterInstall(s) \in Pcs
      BY DEF AfterInstall, Pcs
    <3>2. /\ call'[s].pc = AfterInstall(s) /\ call'[s].args = call[s].args
          /\ call'[s].was = call[s].was /\ call'[s].ran = call[s].ran
      BY <1>t, <2>2, <3>1, GoMoves DEF TypeOK
    <3>3. There(s)' = call[s].args.content
      BY <1>t, <2>1, <2>2, <3>2 DEF There, TypeOK
    <3>4. IsLoaded(s) => installed'[loaded[s].lib] = loaded[s].content
      BY <1>t, <1>i, <1>l, <2>1, <2>2 DEF AloneSession, TypeOK
    <3> QED
      BY <1>i, <2>1, <3>2, <3>3, <3>4
      DEF AloneSession, Ready, Keeps, IsLoaded, Installs, AfterInstall
  <2>3. CASE UNCHANGED installed /\ Fail(s)
    <3>1. /\ call'[s].pc = "failed" /\ call'[s].args = call[s].args
          /\ call'[s].was = call[s].was /\ call'[s].ran = call[s].ran
      BY <1>t, <2>3, GoMoves DEF TypeOK, Pcs, Fail
    <3> QED
      BY <1>i, <2>1, <2>3, <3>1 DEF AloneSession, Ready, Keeps, IsLoaded, Installs, There
  <2> QED
    BY <1>6, <2>2, <2>3 DEF Install
<1>7. ASSUME Load(s)
      PROVE  AloneSession(s)'
  <2>1. /\ UNCHANGED installed /\ call[s].pc = "load" /\ call[s].args.lib \in Libs
        /\ IsLoaded(s) => loaded[s].content = call[s].args.content
        /\ There(s) = call[s].args.content
    BY <1>7, <1>i, <1>a DEF Load, AloneSession, Ready
  <2>2. \/ /\ Go(s, "returned") /\ attached'[s]
           /\ loaded'[s] = Found(call[s].args.lib) \/ (IsLoaded(s) /\ loaded'[s] = loaded[s])
        \/ /\ Go(s, "failed") /\ attached'[s] = attached[s] /\ ~attached[s]
           /\ loaded'[s] = loaded[s] \/ (~IsLoaded(s) /\ loaded'[s] = NotLoaded)
    <3>1. CASE attached[s] /\ Go(s, "returned") /\ UNCHANGED <<loaded, attached>>
      BY <1>i, <3>1 DEF AloneSession, Ready
    <3>2. CASE ~attached[s] /\ Library(s, call[s].args.lib, "returned", "failed")
      <4>1. IsLoaded(s) => VersionOf(loaded[s].content) = VersionOf(installed[call[s].args.lib])
        BY <2>1 DEF There
      <4>2. "returned" \in Pcs /\ "failed" \in Pcs
        BY DEF Pcs
      <4> QED
        BY <1>t, <2>1, <3>2, <4>1, <4>2, LibraryDoes
    <3> QED
      BY <1>7, <3>1, <3>2 DEF Load
  <2>3. /\ call'[s].args = call[s].args
        /\ call'[s].was = call[s].was /\ call'[s].ran = call[s].ran
        /\ \/ /\ call'[s].pc = "returned" /\ attached'[s]
              /\ loaded'[s] = Found(call[s].args.lib) \/ (IsLoaded(s) /\ loaded'[s] = loaded[s])
           \/ /\ call'[s].pc = "failed" /\ ~attached'[s]
              /\ loaded'[s] = loaded[s]
    BY <1>t, <2>2, GoMoves DEF TypeOK, Pcs, IsLoaded
  <2>4. There(s)' = There(s)
    BY <2>1, <2>3 DEF There
  <2>5. call[s].args.content \in Contents /\ call[s].args.content # None
    BY <1>a, <2>1, ContentsDiffer
  <2> QED
    BY <1>i, <2>1, <2>3, <2>4, <2>5
    DEF AloneSession, Ready, Keeps, IsLoaded, Installs, Found, NotLoaded, There
<1>8. ASSUME ClearUnlink(s)
      PROVE  AloneSession(s)'
  <2>1. /\ UNCHANGED <<loaded, attached>> /\ call[s].args.lib \in Libs
        /\ ~(IsLoaded(s) /\ loaded[s].lib = call[s].args.lib)
        /\ call[s].args.op = "clear"
    BY <1>8, <1>i, <1>a DEF ClearUnlink, AloneSession, Ready
  <2>2. call'[s].pc = "returned" /\ call'[s].args = call[s].args
    BY <1>8, <1>t, GoMoves DEF ClearUnlink, TypeOK, Pcs
  <2>3. \A lib \in Libs \ {call[s].args.lib} : installed'[lib] = installed[lib]
    BY <1>8, <1>t, <2>1, UnlinkDoes DEF ClearUnlink
  <2> QED
    BY <1>i, <1>l, <2>1, <2>2, <2>3 DEF AloneSession, Ready, Keeps, IsLoaded, Installs
<1>9. ASSUME UnloadByHand(s)
      PROVE  AloneSession(s)'
  <2>1. UNCHANGED installed /\ loaded'[s] = NotLoaded /\ ~attached'[s]
    BY <1>9, <1>t DEF UnloadByHand, SetNamespace, Attach, TypeOK
  <2>2. call'[s].pc = "idle"
    BY <1>9, <1>t, GoMoves DEF UnloadByHand, TypeOK, Pcs
  <2> QED
    BY <2>1, <2>2 DEF AloneSession, Ready, Keeps, IsLoaded
<1>10. ASSUME NEW lib \in Libs, LoadByHand(s, lib)
       PROVE  AloneSession(s)'
  <2>1. UNCHANGED installed /\ installed[lib] # None /\ ~attached[s]
    BY <1>10 DEF LoadByHand
  <2>2. /\ Go(s, "idle")
        /\ \/ loaded'[s] = Found(lib)
           \/ loaded'[s] = loaded[s] /\ (attached'[s] => IsLoaded(s))
           \/ loaded'[s] = NotLoaded /\ ~attached'[s]
    BY <1>10, <1>t, <2>1, LibraryDoes DEF LoadByHand, Pcs
  <2>3. call'[s].pc = "idle"
    BY <1>t, <2>2, GoMoves DEF TypeOK, Pcs
  <2>4. Found(lib) # NotLoaded
    BY <1>t, <2>1, NamespaceTypes
  <2> QED
    BY <1>i, <2>1, <2>2, <2>3, <2>4 DEF AloneSession, Ready, Keeps, IsLoaded, Found
<1>11. ASSUME NEW lib \in Libs, InstallByHand(lib)
       PROVE  AloneSession(s)'
  <2>1. /\ installed[lib] = None /\ installed' = [installed EXCEPT ![lib] = Ordinary]
        /\ Free(s) /\ UNCHANGED <<loaded, attached, call>>
    BY <1>11, <1>m DEF InstallByHand, Alone
  <2>2. /\ installed \in [Libs -> Packages \cup {None}]
        /\ IsLoaded(s) => loaded[s].content \in Packages /\ None \notin Packages
    BY <1>t, NamespaceTypes, DynportAssumption DEF TypeOK, Packages
  <2>3. IsLoaded(s) => loaded[s].lib # lib
    BY <1>i, <2>1, <2>2 DEF AloneSession
  <2>4. IsLoaded(s) => installed'[loaded[s].lib] = loaded[s].content
    BY <1>i, <1>l, <2>1, <2>2, <2>3 DEF AloneSession
  <2>5. call[s].pc \in {"returned", "failed"} =>
          There(s)' = There(s) \/ (There(s) = None /\ There(s)' = Ordinary)
    BY <1>a, <2>1, <2>2 DEF There
  <2>6. (call[s].args.content # None /\ Ordinary # None) \/ call[s].pc = "idle"
    BY <1>a, ContentsDiffer
  <2> QED
    BY <1>i, <2>1, <2>4, <2>5, <2>6 DEF AloneSession, Ready, Keeps, IsLoaded, Installs, Free
<1>s. CASE Next
  <2>1. Step(s) \/ \E lib \in Libs : InstallByHand(lib)
    BY <1>m, <1>s DEF Next
  <2>2. AloneSession(s)'
    BY <2>1, <1>1, <1>2, <1>3, <1>4, <1>5, <1>6, <1>7, <1>8, <1>9, <1>10, <1>11 DEF Step
  <2> QED
    BY <1>m, <2>2, AloneIsSession
<1> QED
  BY <1>0, <1>s

LEMMA AloneInitially == Alone /\ Init => AloneInv
<1> SUFFICES ASSUME Alone, Init
             PROVE  AloneInv
  OBVIOUS
<1>1. \A s \in Sessions : ~IsLoaded(s) /\ ~attached[s] /\ call[s].pc = "idle"
  BY DEF Init, IsLoaded
<1> QED
  BY <1>1 DEF AloneInv, LoadedOnDisk, LoadedMatches, FailureKeeps, Ready, Keeps, At

LEMMA AloneInvariance ==
  ASSUME Alone
  PROVE  Spec => []AloneInv
<1>1. Init => AloneInv
  BY AloneInitially
<1>2. TypeInv /\ OrdinaryInv /\ AloneInv /\ [Next]_vars => AloneInv'
  BY AloneHolds
<1>3. Spec => [](TypeInv /\ OrdinaryInv)
  BY OrdinaryInvariance DEF Alone
<1> QED
  BY <1>1, <1>2, <1>3, PTL DEF Spec

\* When dynport() returns to the only session, it runs what it asked for.
THEOREM AloneLoadedMatches ==
  ASSUME Alone
  PROVE  Spec => []LoadedMatches
<1>1. AloneInv => LoadedMatches
  BY DEF AloneInv
<1> QED
  BY AloneInvariance, <1>1, PTL

\* Nothing is replaced or removed under the namespace of the only session.
THEOREM AloneLoadedOnDisk ==
  ASSUME Alone
  PROVE  Spec => []LoadedOnDisk
<1>1. AloneInv => LoadedOnDisk
  BY DEF AloneInv
<1> QED
  BY AloneInvariance, <1>1, PTL

\* A failing call without rebuild leaves the only session and its directories as
\* they were, but for a package installed into a free place.
THEOREM AloneFailureKeeps ==
  ASSUME Alone
  PROVE  Spec => []FailureKeeps
<1>1. AloneInv => FailureKeeps
  BY DEF AloneInv
<1> QED
  BY AloneInvariance, <1>1, PTL

-----------------------------------------------------------------------------
(* The contract of DynportContract.                                         *)

Asked(s) == ~Free(s)

LEMMA OnlySession == \A s : Sessions = {s} => Me = s
  BY DEF Me

\* The abstract state of the only session, outside of a call and in one.
LEMMA ViewFree ==
  ASSUME NEW s, Sessions = {s}, Free(s)
  PROVE  Disk = installed /\ Running = loaded[s] /\ ~Busy
  BY OnlySession DEF Disk, Running, Busy, Free

LEMMA ViewBusy ==
  ASSUME NEW s, Sessions = {s}, TypeInv, Asked(s)
  PROVE  /\ Busy /\ Running = call[s].ran
         /\ call[s].args \in Args /\ call[s].args.lib \in Libs
         /\ call[s].args.content \in Contents
         /\ Disk \in [Libs -> Packages \cup {None}]
         /\ Disk[call[s].args.lib] = call[s].was
         /\ \A lib \in Libs \ {call[s].args.lib} : Disk[lib] = installed[lib]
<1>1. Me = s /\ Busy
  BY OnlySession DEF Busy, Asked, Free
<1>2. call[s].args \in Args
  BY DEF TypeInv, ArgsKnown, Asked, Free
<1>3. call[s].args.lib \in Libs /\ call[s].args.content \in Contents
  BY <1>2 DEF Args
<1>4. installed \in [Libs -> Packages \cup {None}] /\ call[s].was \in Packages \cup {None}
  BY DEF TypeInv, TypeOK, Call
<1>5. Disk = [installed EXCEPT ![call[s].args.lib] = call[s].was]
  BY <1>1 DEF Disk
<1> QED
  BY <1>1, <1>2, <1>3, <1>4, <1>5 DEF Running

ViewBusyNext == \A s : Sessions = {s} /\ TypeInv /\ Asked(s) =>
  /\ Busy /\ Running = call[s].ran
  /\ Disk \in [Libs -> Packages \cup {None}]
  /\ Disk[call[s].args.lib] = call[s].was
  /\ \A lib \in Libs \ {call[s].args.lib} : Disk[lib] = installed[lib]
LEMMA ViewBusyAfter == ViewBusyNext'
<1>1. ViewBusyNext
  BY ViewBusy DEF ViewBusyNext
<1> QED
  BY <1>1, PTL

\* A step inside of a call is none of the contract's.
LEMMA InnerStep ==
  ASSUME NEW s, Sessions = {s}, TypeInv, TypeInv', Asked(s), Asked(s)',
         call'[s].args = call[s].args, call'[s].was = call[s].was,
         call'[s].ran = call[s].ran,
         \A lib \in Libs \ {call[s].args.lib} : installed'[lib] = installed[lib]
  PROVE  UNCHANGED Contract!vars
<1>1. Disk' = Disk
  <2>1. Disk' \in [Libs -> Packages \cup {None}] /\ Disk \in [Libs -> Packages \cup {None}]
    BY ViewBusy, ViewBusyAfter DEF ViewBusyNext
  <2>2. \A lib \in Libs : Disk'[lib] = Disk[lib]
    BY ViewBusy, ViewBusyAfter DEF ViewBusyNext
  <2> QED
    BY <2>1, <2>2
<1>2. Running' = Running /\ Busy' /\ Busy
  BY ViewBusy, ViewBusyAfter DEF ViewBusyNext
<1>3. call[Me].args' = call[Me].args
  BY OnlySession
<1> QED
  BY <1>1, <1>2, <1>3 DEF Contract!vars

\* The answers of dynport(), from what it has done since it was asked.
Unloaded(s) ==
  LET ran  == call[s].ran
      args == call[s].args
  IN  /\ args.rebuild /\ ran.content \in Contents
      /\ ran.content # args.content \/ call[s].was \in Contents \ {args.content}

\* The state when the call has answered, against the state it began in.
LEMMA AnswerView ==
  ASSUME NEW s, Sessions = {s}, TypeInv, TypeInv', Asked(s), Free(s)',
         call'[s].args = call[s].args, NEW what \in Packages \cup {None},
         \A lib \in Libs \ {call[s].args.lib} : installed'[lib] = installed[lib],
         installed'[call[s].args.lib] = what
  PROVE  /\ Disk' = [Disk EXCEPT ![call[s].args.lib] = what]
         /\ Running' = loaded'[s] /\ ~Busy'
         /\ call[Me].args' = call[Me].args /\ Me = s
<1>1. Me = s /\ ~Busy' /\ Disk' = installed' /\ Running' = loaded'[s]
  BY OnlySession DEF Busy, Free, Disk, Running
<1>2. installed' \in [Libs -> Packages \cup {None}]
  BY DEF TypeInv, TypeOK
<1>3. /\ Disk \in [Libs -> Packages \cup {None}]
      /\ call[s].args.lib \in Libs
      /\ \A lib \in Libs \ {call[s].args.lib} : Disk[lib] = installed[lib]
  BY ViewBusy
<1>4. \A lib \in Libs : installed'[lib] = [Disk EXCEPT ![call[s].args.lib] = what][lib]
  BY <1>3
<1>5. installed' = [Disk EXCEPT ![call[s].args.lib] = what]
  BY <1>2, <1>3, <1>4
<1> QED
  BY <1>1, <1>5

LEMMA AnswerSucceeds ==
  ASSUME NEW s, Sessions = {s}, TypeInv, TypeInv', Asked(s), call'[s].pc = "returned",
         call'[s].args = call[s].args, call[s].args.op = "install",
         \A lib \in Libs \ {call[s].args.lib} : installed'[lib] = installed[lib],
         installed'[call[s].args.lib] = call[s].args.content,
         \/ call[s].was \in {None, call[s].args.content}
         \/ call[s].args.rebuild /\ call[s].was \in Contents,
         \/ loaded'[s] = call[s].ran /\ call[s].ran.content = call[s].args.content
         \/ /\ call[s].ran = NotLoaded \/ Unloaded(s)
            /\ loaded'[s] = IF call[s].args.load
                              THEN [lib |-> call[s].args.lib, content |-> call[s].args.content]
                              ELSE NotLoaded
  PROVE  Contract!Next
<1>1. /\ Busy /\ Running = call[s].ran
      /\ Disk[call[s].args.lib] = call[s].was /\ call[s].args.content \in Contents
  BY ViewBusy
<1>2. /\ Disk' = [Disk EXCEPT ![call[s].args.lib] = call[s].args.content]
      /\ Running' = loaded'[s] /\ ~Busy'
      /\ call[Me].args' = call[Me].args /\ Me = s
  <2>1. Free(s)' /\ call[s].args.content \in Packages \cup {None}
    BY <1>1 DEF Free, Packages
  <2> QED
    BY <2>1, AnswerView
<1>3. Contract!Answers("returned")
  BY <1>1, <1>2 DEF Contract!Answers
<1>4. Contract!Succeed
  BY <1>1, <1>2, <1>3
  DEF Contract!Succeed, Contract!Old, Contract!With, Contract!Runs, Contract!GivenUp,
      Contract!Nothing, NotLoaded, Unloaded
<1> QED
  BY <1>4 DEF Contract!Next

LEMMA AnswerFails ==
  ASSUME NEW s, Sessions = {s}, TypeInv, TypeInv', Asked(s), call'[s].pc = "failed",
         call'[s].args = call[s].args, call[s].args.op = "install",
         \A lib \in Libs \ {call[s].args.lib} : installed'[lib] = installed[lib],
         \/ loaded'[s] = call[s].ran
         \/ loaded'[s] = NotLoaded /\ Unloaded(s),
         NEW what, what = installed'[call[s].args.lib],
         \/ what = call[s].was
         \/ /\ what = None /\ call[s].was \in Contents \ {call[s].args.content}
            /\ call[s].args.rebuild /\ loaded'[s] = NotLoaded
         \/ /\ what = call[s].args.content /\ call[s].args.load
            /\ call[s].was = None \/ (call[s].args.rebuild /\ call[s].was # Ordinary)
            /\ loaded'[s] = NotLoaded \/ loaded'[s].content = call[s].args.content
  PROVE  Contract!Next
<1>1. /\ Busy /\ Running = call[s].ran
      /\ Disk[call[s].args.lib] = call[s].was /\ call[s].args.lib \in Libs
      /\ Disk \in [Libs -> Packages \cup {None}] /\ call[s].args \in Args
  BY ViewBusy
<1>2. /\ Disk' = [Disk EXCEPT ![call[s].args.lib] = what]
      /\ Running' = loaded'[s] /\ ~Busy'
      /\ call[Me].args' = call[Me].args /\ Me = s
  <2>1. Free(s)' /\ what \in Packages \cup {None}
    BY <1>1 DEF Free, TypeInv, TypeOK
  <2> QED
    BY <2>1, AnswerView
<1>3. Contract!Answers("failed")
  BY <1>1, <1>2 DEF Contract!Answers
<1>4. what = call[s].was => Disk' = Disk
  BY <1>1, <1>2
<1>5. CASE call[s].args.rebuild
  <2>1. Running' = Running \/ (Contract!GivenUp /\ Running' = NotLoaded)
    BY <1>1, <1>2 DEF Contract!GivenUp, Contract!Runs, Contract!Old, Unloaded
  <2>2. \/ Disk' = Disk
        \/ /\ Contract!Old \in Contents \ {call[s].args.content}
           /\ Disk' = Contract!With(None) /\ Running' = NotLoaded
        \/ /\ Contract!Old # Ordinary /\ call[s].args.load
           /\ Disk' = Contract!With(call[s].args.content)
           /\ Running' = NotLoaded \/ Running'.content = call[s].args.content
    BY <1>1, <1>2, <1>4, ContentsDiffer DEF Contract!Old, Contract!With
  <2>3. Contract!FailRebuild
    BY <1>2, <1>3, <1>5, <2>1, <2>2 DEF Contract!FailRebuild, Contract!Nothing, NotLoaded
  <2> QED
    BY <2>3 DEF Contract!Next
<1>6. CASE ~call[s].args.rebuild
  <2>1. Contract!Fail
    BY <1>1, <1>2, <1>3, <1>4, <1>6
    DEF Contract!Fail, Contract!Old, Contract!With, Contract!Runs, Contract!Nothing,
        NotLoaded, Unloaded
  <2> QED
    BY <2>1 DEF Contract!Next
<1> QED
  BY <1>5, <1>6

Simulates(s) == Recalls(s)' /\ (Contract!Next \/ UNCHANGED Contract!vars)

\* A call that begins, or that is answered at once.
LEMMA AskStep ==
  ASSUME NEW s, Sessions = {s}, TypeInv, TypeInv', Free(s), NEW args \in Args, NEW pc \in Pcs,
         Started(s, pc, args), UNCHANGED installed,
         \/ pc \in {"checkLoaded", "clear", "failed"}
         \/ pc = "returned" /\ args.op = "clear" /\ installed[args.lib] \notin Contents,
         pc \in {"returned", "failed"} => loaded'[s] = loaded[s]
  PROVE  Contract!Next
<1>1. /\ call'[s].pc = pc /\ call'[s].args = args
      /\ call'[s].was = installed[args.lib] /\ call'[s].ran = loaded[s]
  BY StartedCall DEF TypeInv
<1>2. Disk = installed /\ Running = loaded[s] /\ ~Busy /\ Me = s /\ call[Me].pc = call[s].pc
  BY ViewFree, OnlySession
<1>3. CASE pc \in {"returned", "failed"}
  <2>1. Free(s)'
    BY <1>1, <1>3 DEF Free
  <2>2. Disk' = installed' /\ Running' = loaded'[s] /\ ~Busy'
    BY <1>2, <2>1 DEF Disk, Running, Busy, Free
  <2>3. Contract!Ask(args)
    BY <1>1, <1>2, <1>3, <2>2 DEF Contract!Ask, Free
  <2> QED
    BY <2>3 DEF Contract!Next
<1>4. CASE pc \in {"checkLoaded", "clear"}
  <2>1. Asked(s)'
    BY <1>1, <1>4 DEF Asked, Free
  <2>2. /\ Busy' /\ Running' = loaded[s]
        /\ Disk' \in [Libs -> Packages \cup {None}]
        /\ \A lib \in Libs : Disk'[lib] = installed[lib]
    BY <1>1, <2>1, ViewBusyAfter DEF ViewBusyNext
  <2>3. Disk' = installed
    BY <2>2 DEF TypeInv, TypeOK
  <2>4. Contract!Ask(args)
    BY <1>1, <1>2, <1>4, <2>2, <2>3 DEF Contract!Ask, Free
  <2> QED
    BY <2>4 DEF Contract!Next
<1> QED
  BY <1>3, <1>4

\* library() and unloadNamespace() outside of a call.
LEMMA ByHandStep ==
  ASSUME NEW s, Sessions = {s}, Free(s), call'[s].pc = "idle", UNCHANGED installed,
         call'[s].args = call[s].args,
         \/ loaded'[s] = NotLoaded
         \/ \E lib \in Libs : installed[lib] # None /\ loaded'[s] = Found(lib)
  PROVE  Contract!Next
<1>1. Disk = installed /\ Running = loaded[s] /\ ~Busy /\ Me = s
  BY ViewFree, OnlySession
<1>2. Disk' = installed' /\ Running' = loaded'[s] /\ ~Busy'
  BY <1>1 DEF Disk, Running, Busy
<1>3. Contract!ByHand
  BY <1>1, <1>2 DEF Contract!ByHand, Contract!Nothing, NotLoaded, Found, Free
<1> QED
  BY <1>3 DEF Contract!Next

\* dynport_clear_lib() has unlinked the package.
LEMMA ClearedStep ==
  ASSUME NEW s, Sessions = {s}, TypeInv, TypeInv', At(s, "clear"), Recalls(s),
         call[s].args.op = "clear", call'[s].pc = "returned", call'[s].args = call[s].args,
         UNCHANGED loaded, Unlink(call[s].args.lib)
  PROVE  Contract!Next
<1>0. Asked(s) /\ Free(s)'
  BY DEF Asked, Free, At
<1>1. /\ Busy /\ Running = call[s].ran
      /\ Disk[call[s].args.lib] = call[s].was /\ call[s].args.lib \in Libs
      /\ Disk \in [Libs -> Packages \cup {None}]
  BY <1>0, ViewBusy
<1>2. /\ \A lib \in Libs \ {call[s].args.lib} : installed'[lib] = installed[lib]
      /\ installed'[call[s].args.lib] \in {None, installed[call[s].args.lib]}
  BY <1>1, UnlinkDoes DEF TypeInv
<1>3. PICK what \in Packages \cup {None} : installed'[call[s].args.lib] = what
  BY <1>1 DEF TypeInv, TypeOK
<1>4. /\ Disk' = [Disk EXCEPT ![call[s].args.lib] = what]
      /\ Running' = loaded[s] /\ ~Busy'
      /\ call[Me].args' = call[Me].args /\ Me = s
  BY <1>0, <1>2, <1>3, AnswerView
<1>5. call[s].was \in Contents /\ what \in {None, call[s].was}
  BY <1>2, <1>3 DEF Recalls, At, There
<1>6. Disk' \in {Disk, Contract!With(None)}
  BY <1>1, <1>4, <1>5 DEF Contract!With
<1>7. \/ call[s].ran = NotLoaded /\ loaded[s] = NotLoaded
      \/ call[s].ran.lib # call[s].args.lib /\ loaded[s] = call[s].ran
      \/ /\ call[s].ran.lib = call[s].args.lib /\ call[s].ran # NotLoaded
         /\ call[s].args.rebuild /\ loaded[s] = NotLoaded
  BY <1>0, ContentsDiffer DEF Recalls, Asked, NotLoaded
<1>8. Contract!Answers("returned")
  BY <1>1, <1>4 DEF Contract!Answers
<1>9. Contract!Clear
  BY <1>1, <1>4, <1>5, <1>6, <1>7, <1>8
  DEF Contract!Clear, Contract!Old, Contract!InUse,
      Contract!Nothing, NotLoaded
<1> QED
  BY <1>9 DEF Contract!Next

\* Between calls an ordinary package arrives in a free place.
LEMMA ArrivalStep ==
  ASSUME NEW s, Sessions = {s}, TypeInv, TypeInv', ~Intrude, NEW lib \in Libs,
         InstallByHand(lib)
  PROVE  Recalls(s)' /\ Contract!Next
<1>1. /\ installed[lib] = None /\ installed' = [installed EXCEPT ![lib] = Ordinary]
      /\ Free(s) /\ UNCHANGED <<loaded, attached, call>>
  BY DEF InstallByHand
<1>2. Disk = installed /\ Running = loaded[s] /\ ~Busy /\ Me = s
  BY <1>1, ViewFree, OnlySession
<1>3. Disk' = installed' /\ Running' = loaded[s] /\ ~Busy'
  BY <1>1, <1>2 DEF Disk, Running, Busy
<1>4. Contract!InstallByHand
  BY <1>1, <1>2, <1>3 DEF Contract!InstallByHand, Free
<1>5. Recalls(s)'
  BY <1>1 DEF Recalls, Free, At
<1> QED
  BY <1>4, <1>5 DEF Contract!Next

LEMMA ContractStep ==
  ASSUME Alone, TypeInv, TypeInv', OrdinaryInv, AloneInv, ContractInv, Next
  PROVE  ContractInv' /\ (Contract!Next \/ UNCHANGED Contract!vars)
<1>m. PICK s : Sessions = {s}
  BY DEF Alone
<1>t. TypeOK /\ s \in Sessions
  BY <1>m DEF TypeInv
<1>i. AloneSession(s) /\ Recalls(s) /\ OrdinarySession(s)
  BY <1>m, AloneIsSession DEF ContractInv, OrdinaryInv, OrdinarySession
<1>a. call[s].pc # "idle" =>
        /\ call[s].args.lib \in Libs /\ call[s].args.content \in Contents
        /\ call[s].args.rebuild \in BOOLEAN /\ call[s].args.load \in BOOLEAN
  BY <1>m DEF TypeInv, ArgsKnown, Args
<1>n. NotLoaded.content = None /\ None \notin Contents /\ None # Ordinary /\ Ordinary \notin Contents
  BY ContentsDiffer DEF NotLoaded
<1>l. /\ loaded[s].content \in Packages => IsLoaded(s)
      /\ IsLoaded(s) => loaded[s].lib \in Libs /\ loaded[s].content \in Packages
  BY <1>t, <1>n, NamespaceTypes DEF IsLoaded, Packages
<1> USE DEF At
<1>1. ASSUME NEW args \in Args, Begin(s, args)
      PROVE  Simulates(s)
  <2>1. /\ UNCHANGED <<installed, loaded, attached>> /\ Free(s) /\ args.op = "install"
        /\ \E pc \in {"checkLoaded", "failed"} : Started(s, pc, args)
    BY <1>1 DEF Begin, Started, MayBegin
  <2>2. PICK pc \in {"checkLoaded", "failed"} : Started(s, pc, args)
    BY <2>1
  <2>3. pc \in Pcs
    BY DEF Pcs
  <2>4. /\ call'[s].pc = pc /\ call'[s].args = args
        /\ call'[s].was = installed[args.lib] /\ call'[s].ran = loaded[s]
    BY <1>t, <2>2, <2>3, StartedCall
  <2>5. Contract!Next
    BY <1>m, <2>1, <2>2, <2>3, AskStep
  <2>6. Recalls(s)'
    BY <2>1, <2>2, <2>4 DEF Recalls, Free, There
  <2> QED
    BY <2>5, <2>6 DEF Simulates
<1>2. ASSUME NEW args \in Args, Clear(s, args)
      PROVE  Simulates(s)
  <2>1. /\ UNCHANGED installed /\ args.op = "clear" /\ Free(s)
        /\ \E pc \in {"returned", "clear", "failed"} :
          /\ Started(s, pc, args)
          /\ pc = "returned" => installed[args.lib] \notin Contents
          /\ pc = "clear" => installed[args.lib] \in Contents
          /\ \/ loaded'[s] = loaded[s]
                /\ (pc = "clear" => ~(IsLoaded(s) /\ loaded[s].lib = args.lib))
             \/ /\ loaded'[s] = NotLoaded /\ pc = "clear" /\ args.rebuild
                /\ IsLoaded(s) /\ loaded[s].lib = args.lib
    BY <1>2, <1>t DEF Clear, Started, SetNamespace, Attach, TypeOK, MayBegin, Generated
  <2>2. PICK pc \in {"returned", "clear", "failed"} :
          /\ Started(s, pc, args)
          /\ pc = "returned" => installed[args.lib] \notin Contents
          /\ pc = "clear" => installed[args.lib] \in Contents
          /\ \/ loaded'[s] = loaded[s]
                /\ (pc = "clear" => ~(IsLoaded(s) /\ loaded[s].lib = args.lib))
             \/ /\ loaded'[s] = NotLoaded /\ pc = "clear" /\ args.rebuild
                /\ IsLoaded(s) /\ loaded[s].lib = args.lib
    BY <2>1
  <2>3. pc \in Pcs
    BY DEF Pcs
  <2>4. /\ call'[s].pc = pc /\ call'[s].args = args
        /\ call'[s].was = installed[args.lib] /\ call'[s].ran = loaded[s]
    BY <1>t, <2>2, <2>3, StartedCall
  <2>5. Contract!Next
    BY <1>m, <2>1, <2>2, <2>3, AskStep
  <2>6. IsLoaded(s) => installed[loaded[s].lib] = loaded[s].content
    BY <1>i DEF AloneSession
  <2>7. Recalls(s)'
    BY <2>1, <2>2, <2>4, <2>6 DEF Recalls, Free, There, IsLoaded
  <2> QED
    BY <2>5, <2>7 DEF Simulates
<1>3. ASSUME CheckLoaded(s)
      PROVE  Simulates(s)
  <2>1. UNCHANGED installed /\ call[s].pc = "checkLoaded" /\ Asked(s)
    BY <1>3 DEF CheckLoaded, Asked, Free
  <2>2. /\ Installs(s) /\ There(s) = call[s].was
        /\ loaded[s] = call[s].ran \/ (loaded[s] = NotLoaded /\ Unloaded(s))
    BY <1>i, <2>1 DEF AloneSession, Keeps, Recalls, Free, Unloaded, Installs
  <2>f. ASSUME Go(s, "failed"), loaded'[s] = loaded[s]
        PROVE  Simulates(s)
    <3>1. /\ call'[s].pc = "failed" /\ call'[s].args = call[s].args
          /\ call'[s].was = call[s].was /\ call'[s].ran = call[s].ran
      BY <1>t, <2>f, GoMoves DEF TypeOK, Pcs
    <3>2. Contract!Next
      BY <1>m, <2>1, <2>2, <2>f, <3>1, AnswerFails DEF There, Installs
    <3>3. Recalls(s)'
      BY <3>1 DEF Recalls, Free
    <3> QED
      BY <3>2, <3>3 DEF Simulates
  <2>p. ASSUME Go(s, "checkInstalled"),
               \/ loaded'[s] = loaded[s]
               \/ loaded'[s] = NotLoaded /\ Unloaded(s)
        PROVE  Simulates(s)
    <3>1. /\ call'[s].pc = "checkInstalled" /\ call'[s].args = call[s].args
          /\ call'[s].was = call[s].was /\ call'[s].ran = call[s].ran
      BY <1>t, <2>p, GoMoves DEF TypeOK, Pcs
    <3>2. UNCHANGED Contract!vars
      BY <1>m, <2>1, <3>1, InnerStep DEF Asked, Free
    <3>3. Recalls(s)'
      BY <2>1, <2>2, <2>p, <3>1 DEF Recalls, Free, There, Unloaded, Installs
    <3> QED
      BY <3>2, <3>3 DEF Simulates
  <2>3. ASSUME IsLoaded(s), ~Md5Equal(installed[loaded[s].lib], s), Generated(installed[loaded[s].lib]),
               call[s].args.rebuild, UnloadedThen(s, "checkInstalled")
        PROVE  Simulates(s)
    <3>1. \/ loaded'[s] = NotLoaded /\ Go(s, "checkInstalled")
          \/ loaded'[s] = loaded[s] /\ Go(s, "failed")
      BY <1>t, <2>3, UnloadedDoes DEF Pcs
    <3>2. Unloaded(s)
      BY <1>i, <2>2, <2>3 DEF AloneSession, Md5Equal, Generated, Unloaded, IsLoaded
    <3> QED
      BY <2>f, <2>p, <3>1, <3>2
  <2> QED
    BY <1>3, <2>f, <2>p, <2>3 DEF CheckLoaded, Fail
<1>4. ASSUME CheckInstalled(s)
      PROVE  Simulates(s)
  <2>1. UNCHANGED <<installed, loaded, attached>> /\ call[s].pc = "checkInstalled" /\ Asked(s)
    BY <1>4 DEF CheckInstalled, Asked, Free
  <2>2. /\ Installs(s) /\ There(s) = call[s].was
        /\ loaded[s] = call[s].ran \/ (loaded[s] = NotLoaded /\ Unloaded(s))
        /\ IsLoaded(s) => loaded[s].content = call[s].args.content
    BY <1>i, <2>1 DEF AloneSession, Keeps, Ready, Recalls, Free, Unloaded, Installs
  <2> DEFINE next(pc) ==
        \/ pc = "install" /\ There(s) = None
        \/ pc = "failed"
        \/ /\ pc = "remove" /\ There(s) \in Contents \ {call[s].args.content}
           /\ call[s].args.rebuild
        \/ pc = "load" /\ call[s].args.load /\ There(s) = call[s].args.content
        \/ pc = "returned" /\ ~call[s].args.load /\ There(s) = call[s].args.content
  <2>3. \E pc \in Pcs : Go(s, pc) /\ next(pc)
    BY <1>4 DEF CheckInstalled, Fail, AfterInstall, Pcs, Md5Equal, Generated
  <2>4. PICK pc \in Pcs : Go(s, pc) /\ next(pc)
    BY <2>3
  <2>5. /\ call'[s].pc = pc /\ call'[s].args = call[s].args
        /\ call'[s].was = call[s].was /\ call'[s].ran = call[s].ran
    BY <1>t, <2>4, GoMoves DEF TypeOK
  <2>6. There(s)' = There(s)
    BY <2>1, <2>5 DEF There
  <2>7. Recalls(s)'
    BY <1>a, <1>n, <2>1, <2>2, <2>4, <2>5, <2>6 DEF Recalls, Free, Unloaded, Installs
  <2>8. CASE pc \in {"install", "remove", "load"}
    <3>1. UNCHANGED Contract!vars
      BY <1>m, <2>1, <2>5, <2>8, InnerStep DEF Asked, Free
    <3> QED
      BY <2>7, <3>1 DEF Simulates
  <2>9. CASE pc = "failed"
    <3>1. Contract!Next
      BY <1>m, <2>1, <2>2, <2>5, <2>9, AnswerFails DEF There, Installs
    <3> QED
      BY <2>7, <3>1 DEF Simulates
  <2>10. CASE pc = "returned"
    <3>1. ~call[s].args.load /\ installed[call[s].args.lib] = call[s].args.content
      BY <2>4, <2>10 DEF There
    <3>2. Contract!Next
      BY <1>m, <2>1, <2>2, <2>5, <2>10, <3>1, AnswerSucceeds DEF There, Installs, IsLoaded
    <3> QED
      BY <2>7, <3>2 DEF Simulates
  <2> QED
    BY <2>4, <2>8, <2>9, <2>10
<1>5. ASSUME Remove(s)
      PROVE  Simulates(s)
  <2>1. /\ call[s].pc = "remove" /\ call[s].args.rebuild /\ Installs(s) /\ Asked(s)
        /\ call[s].args.lib \in Libs /\ There(s) = call[s].was
        /\ call[s].was \in Contents \ {call[s].args.content}
        /\ loaded[s] = call[s].ran \/ (loaded[s] = NotLoaded /\ Unloaded(s))
        /\ IsLoaded(s) => loaded[s].content = call[s].args.content
    BY <1>5, <1>i, <1>a
    DEF Remove, AloneSession, Ready, Keeps, Asked, Free, Recalls, Unloaded, Installs
  <2>2. \/ loaded'[s] = NotLoaded /\ Go(s, "install")
        \/ loaded'[s] = loaded[s] /\ Go(s, "failed")
    BY <1>5, <1>t, UnloadedDoes DEF Remove, IsLoaded, Pcs
  <2>3. /\ call'[s].args = call[s].args
        /\ call'[s].was = call[s].was /\ call'[s].ran = call[s].ran
        /\ \/ call'[s].pc = "install" /\ loaded'[s] = NotLoaded
           \/ call'[s].pc = "failed" /\ loaded'[s] = loaded[s]
    BY <1>t, <2>2, GoMoves DEF TypeOK, Pcs
  <2>4. IF call'[s].pc = "install" THEN Unlink(call[s].args.lib) ELSE UNCHANGED installed
    BY <1>5 DEF Remove
  <2>5. CASE call'[s].pc = "install"
    <3>1. /\ \A lib \in Libs \ {call[s].args.lib} : installed'[lib] = installed[lib]
          /\ installed'[call[s].args.lib] \in {None, There(s)}
      BY <1>t, <2>1, <2>4, <2>5, UnlinkDoes DEF There
    <3>2. UNCHANGED Contract!vars
      BY <1>m, <2>1, <2>3, <2>5, <3>1, InnerStep DEF Asked, Free
    <3>3. There(s)' \in {None, call[s].was}
      BY <2>1, <2>3, <3>1 DEF There
    <3>4. loaded'[s] = call[s].ran \/ Unloaded(s)
      BY <1>a, <2>1, <2>3, <2>5 DEF Unloaded, IsLoaded
    <3>5. Recalls(s)'
      BY <1>n, <2>1, <2>3, <2>5, <3>3, <3>4 DEF Recalls, Unloaded, Installs
    <3> QED
      BY <3>2, <3>5 DEF Simulates
  <2>6. CASE call'[s].pc = "failed"
    <3>1. Contract!Next
      BY <1>m, <2>1, <2>3, <2>4, <2>6, AnswerFails DEF There, Installs
    <3>2. Recalls(s)'
      BY <2>6 DEF Recalls, Free
    <3> QED
      BY <3>1, <3>2 DEF Simulates
  <2> QED
    BY <2>3, <2>5, <2>6
<1>6. ASSUME Install(s)
      PROVE  Simulates(s)
  <2>1. /\ UNCHANGED <<loaded, attached>> /\ call[s].pc = "install" /\ Asked(s)
        /\ call[s].args.lib \in Libs /\ call[s].args.content \in Contents
        /\ Installs(s)
        /\ loaded[s] = call[s].ran \/ (loaded[s] = NotLoaded /\ Unloaded(s))
        /\ IsLoaded(s) => loaded[s].content = call[s].args.content
        /\ \/ call[s].was = None
           \/ call[s].args.rebuild /\ call[s].was \in Contents \ {call[s].args.content}
              /\ loaded[s] = NotLoaded
        /\ There(s) \in {None, call[s].was}
    BY <1>6, <1>i, <1>a
    DEF Install, AloneSession, Ready, Keeps, Asked, Free, Recalls, Unloaded, Installs
  <2>2. CASE /\ installed' = [installed EXCEPT ![call[s].args.lib] = call[s].args.content]
             /\ Go(s, AfterInstall(s))
    <3>1. AfterInstall(s) \in Pcs
      BY DEF AfterInstall, Pcs
    <3>2. /\ call'[s].pc = AfterInstall(s) /\ call'[s].args = call[s].args
          /\ call'[s].was = call[s].was /\ call'[s].ran = call[s].ran
      BY <1>t, <2>2, <3>1, GoMoves DEF TypeOK
    <3>3. /\ \A lib \in Libs \ {call[s].args.lib} : installed'[lib] = installed[lib]
          /\ installed'[call[s].args.lib] = call[s].args.content
      BY <1>t, <2>1, <2>2 DEF TypeOK
    <3>4. CASE call[s].args.load
      <4>1. call'[s].pc = "load"
        BY <3>2, <3>4 DEF AfterInstall
      <4>2. UNCHANGED Contract!vars
        BY <1>m, <2>1, <3>2, <3>3, <4>1, InnerStep DEF Asked, Free
      <4>3. Recalls(s)'
        BY <2>1, <3>2, <3>4, <4>1 DEF Recalls, Unloaded, Installs
      <4> QED
        BY <4>2, <4>3 DEF Simulates
    <3>5. CASE ~call[s].args.load
      <4>1. call'[s].pc = "returned"
        BY <3>2, <3>5 DEF AfterInstall
      <4>2. Contract!Next
        BY <1>m, <2>1, <3>2, <3>3, <3>5, <4>1, AnswerSucceeds DEF Installs, IsLoaded
      <4>3. Recalls(s)'
        BY <4>1 DEF Recalls, Free
      <4> QED
        BY <4>2, <4>3 DEF Simulates
    <3> QED
      BY <3>4, <3>5
  <2>3. CASE UNCHANGED installed /\ Fail(s)
    <3>1. call'[s].pc = "failed" /\ call'[s].args = call[s].args
      BY <1>t, <2>3, GoMoves DEF TypeOK, Pcs, Fail
    <3>2. \/ There(s) = call[s].was
          \/ /\ There(s) = None /\ call[s].was \in Contents \ {call[s].args.content}
             /\ call[s].args.rebuild /\ loaded'[s] = NotLoaded
      BY <2>1
    <3>3. Contract!Next
      BY <1>m, <2>1, <2>3, <3>1, <3>2, AnswerFails DEF There, Installs
    <3>4. Recalls(s)'
      BY <3>1 DEF Recalls, Free
    <3> QED
      BY <3>3, <3>4 DEF Simulates
  <2> QED
    BY <1>6, <2>2, <2>3 DEF Install
<1>7. ASSUME Load(s)
      PROVE  Simulates(s)
  <2>1. /\ UNCHANGED installed /\ call[s].pc = "load" /\ call[s].args.lib \in Libs /\ Asked(s)
        /\ Installs(s) /\ call[s].args.load /\ There(s) = call[s].args.content
        /\ loaded[s] = call[s].ran \/ (loaded[s] = NotLoaded /\ Unloaded(s))
        /\ IsLoaded(s) => loaded[s].content = call[s].args.content
        /\ \/ call[s].was \in {None, call[s].args.content}
           \/ call[s].args.rebuild /\ call[s].was \in Contents
    BY <1>7, <1>i, <1>a
    DEF Load, AloneSession, Ready, Keeps, Asked, Free, Recalls, Unloaded, Installs
  <2>2. \/ /\ Go(s, "returned")
           /\ \/ ~IsLoaded(s) /\ loaded'[s] = Found(call[s].args.lib)
              \/ IsLoaded(s) /\ loaded'[s] = loaded[s]
        \/ Go(s, "failed") /\ loaded'[s] = loaded[s]
    <3>1. CASE attached[s] /\ Go(s, "returned") /\ UNCHANGED <<loaded, attached>>
      BY <1>i, <3>1 DEF AloneSession, Ready
    <3>2. CASE ~attached[s] /\ Library(s, call[s].args.lib, "returned", "failed")
      <4>1. IsLoaded(s) => VersionOf(loaded[s].content) = VersionOf(installed[call[s].args.lib])
        BY <2>1 DEF There
      <4>2. CASE IsLoaded(s)
        BY <1>t, <3>2, <4>1, <4>2 DEF Library, SetNamespace, TypeOK
      <4>3. CASE ~IsLoaded(s)
        BY <1>t, <3>2, <4>3 DEF Library, SetNamespace, TypeOK, IsLoaded
      <4> QED
        BY <4>2, <4>3
    <3> QED
      BY <1>7, <3>1, <3>2 DEF Load
  <2>3. CASE Go(s, "failed") /\ loaded'[s] = loaded[s]
    <3>1. call'[s].pc = "failed" /\ call'[s].args = call[s].args
      BY <1>t, <2>3, GoMoves DEF TypeOK, Pcs
    <3>2. call[s].was = None \/ (call[s].args.rebuild /\ call[s].was # Ordinary)
             \/ There(s) = call[s].was
      BY <1>n, <2>1
    <3>3. loaded'[s] = NotLoaded \/ loaded'[s].content = call[s].args.content
      BY <2>1, <2>3 DEF IsLoaded
    <3>4. Contract!Next
      BY <1>m, <2>1, <2>3, <3>1, <3>2, <3>3, AnswerFails DEF There, Installs
    <3>5. Recalls(s)'
      BY <3>1 DEF Recalls, Free
    <3> QED
      BY <3>4, <3>5 DEF Simulates
  <2>4. CASE /\ Go(s, "returned")
             /\ \/ ~IsLoaded(s) /\ loaded'[s] = Found(call[s].args.lib)
                \/ IsLoaded(s) /\ loaded'[s] = loaded[s]
    <3>1. call'[s].pc = "returned" /\ call'[s].args = call[s].args
      BY <1>t, <2>4, GoMoves DEF TypeOK, Pcs
    <3>2. \/ loaded'[s] = call[s].ran /\ call[s].ran.content = call[s].args.content
          \/ /\ call[s].ran = NotLoaded \/ Unloaded(s)
             /\ loaded'[s] = [lib |-> call[s].args.lib, content |-> call[s].args.content]
      BY <2>1, <2>4 DEF IsLoaded, Found, There
    <3>3. Contract!Next
      BY <1>m, <2>1, <3>1, <3>2, AnswerSucceeds DEF There, Installs
    <3>4. Recalls(s)'
      BY <3>1 DEF Recalls, Free
    <3> QED
      BY <3>3, <3>4 DEF Simulates
  <2> QED
    BY <2>2, <2>3, <2>4
<1>8. ASSUME ClearUnlink(s)
      PROVE  Simulates(s)
  <2>1. /\ UNCHANGED loaded /\ call[s].pc = "clear" /\ call[s].args.op = "clear"
        /\ Unlink(call[s].args.lib)
    BY <1>8, <1>i DEF ClearUnlink, AloneSession, Ready
  <2>2. call'[s].pc = "returned" /\ call'[s].args = call[s].args
    BY <1>8, <1>t, GoMoves DEF ClearUnlink, TypeOK, Pcs
  <2>3. Contract!Next
    BY <1>m, <1>i, <2>1, <2>2, ClearedStep
  <2>4. Recalls(s)'
    BY <2>2 DEF Recalls, Free
  <2> QED
    BY <2>3, <2>4 DEF Simulates
<1>9. ASSUME UnloadByHand(s)
      PROVE  Simulates(s)
  <2>1. UNCHANGED installed /\ loaded'[s] = NotLoaded /\ Free(s)
    BY <1>9, <1>t DEF UnloadByHand, SetNamespace, TypeOK
  <2>2. call'[s].pc = "idle" /\ call'[s].args = call[s].args
    BY <1>9, <1>t, GoMoves DEF UnloadByHand, TypeOK, Pcs
  <2>3. Contract!Next
    BY <1>m, <2>1, <2>2, ByHandStep
  <2>4. Recalls(s)'
    BY <2>2 DEF Recalls, Free
  <2> QED
    BY <2>3, <2>4 DEF Simulates
<1>10. ASSUME NEW lib \in Libs, LoadByHand(s, lib)
       PROVE  Simulates(s)
  <2>1. UNCHANGED installed /\ installed[lib] # None /\ Free(s)
    BY <1>10 DEF LoadByHand
  <2>2. /\ Go(s, "idle")
        /\ loaded'[s] \in {Found(lib), loaded[s], NotLoaded}
    BY <1>10, <1>t, <2>1, LibraryDoes DEF LoadByHand, Pcs
  <2>3. call'[s].pc = "idle" /\ call'[s].args = call[s].args
    BY <1>t, <2>2, GoMoves DEF TypeOK, Pcs
  <2>4. loaded[s] = NotLoaded \/ (loaded[s] = Found(loaded[s].lib) /\ loaded[s].lib \in Libs
                                    /\ installed[loaded[s].lib] # None)
    <3>1. IsLoaded(s) => installed[loaded[s].lib] = loaded[s].content
      BY <1>i DEF AloneSession
    <3>2. loaded[s] \in Namespace
      BY <1>t DEF TypeOK
    <3> QED
      BY <1>n, <3>1, <3>2 DEF IsLoaded, Namespace, Found, Packages
  <2>5. \/ loaded'[s] = NotLoaded
        \/ \E l \in Libs : installed[l] # None /\ loaded'[s] = Found(l)
    BY <2>1, <2>2, <2>4
  <2>6. Contract!Next
    BY <1>m, <2>1, <2>3, <2>5, ByHandStep
  <2>7. Recalls(s)'
    BY <2>3 DEF Recalls, Free
  <2> QED
    BY <2>6, <2>7 DEF Simulates
<1>11. ASSUME NEW lib \in Libs, InstallByHand(lib)
       PROVE  Simulates(s)
  BY <1>m, <1>11, ArrivalStep DEF Alone, Simulates
<1>s. Step(s) \/ \E lib \in Libs : InstallByHand(lib)
  BY <1>m DEF Next
<1>q. Simulates(s)
  BY <1>s, <1>1, <1>2, <1>3, <1>4, <1>5, <1>6, <1>7, <1>8, <1>9, <1>10, <1>11 DEF Step
<1> QED
  BY <1>m, <1>q DEF Simulates, ContractInv

LEMMA ContractInitially == Alone /\ Init => ContractInv /\ Contract!Init
<1> SUFFICES ASSUME Alone, Init
             PROVE  ContractInv /\ Contract!Init
  OBVIOUS
<1>1. PICK s : Sessions = {s}
  BY DEF Alone
<1>2. Free(s) /\ call[s].pc = "idle" /\ call[s].args = NoCall /\ loaded[s] = NotLoaded
  BY <1>1 DEF Init, Free
<1>3. Disk = installed /\ Running = NotLoaded /\ ~Busy /\ Me = s
  BY <1>1, <1>2, ViewFree, OnlySession
<1>4. Contract!Init
  BY <1>2, <1>3 DEF Init, Contract!Init, Contract!Nothing, NotLoaded
<1>5. ContractInv
  BY <1>1, <1>2 DEF ContractInv, Recalls, Free, At
<1> QED
  BY <1>4, <1>5

LEMMA ContractKept ==
  ASSUME Alone, TypeInv, TypeInv', OrdinaryInv, AloneInv, ContractInv, [Next]_vars
  PROVE  ContractInv' /\ [Contract!Next]_(Contract!vars)
<1>1. CASE UNCHANGED vars
  <2>1. UNCHANGED <<installed, loaded, call>>
    BY <1>1 DEF vars
  <2>2. ContractInv'
    BY <2>1 DEF ContractInv, Recalls, Free, There, At
  <2>3. UNCHANGED Contract!vars
    BY <2>1 DEF Contract!vars, Disk, Running, Busy
  <2> QED
    BY <2>2, <2>3
<1>2. CASE Next
  BY <1>2, ContractStep
<1> QED
  BY <1>1, <1>2

\* To the only session dynport() and dynport_clear_lib() are each one step, which
\* does all of it or, but for what "rebuild" gives up, nothing: the steps of
\* dynport_install_package_impl implement DynportContract.
THEOREM AloneImplementsContract ==
  ASSUME Alone
  PROVE  Spec => ContractSpec
<1>1. Init => ContractInv /\ Contract!Init
  BY ContractInitially
<1>2. TypeInv /\ TypeInv' /\ OrdinaryInv /\ AloneInv /\ ContractInv /\ [Next]_vars
        => ContractInv' /\ [Contract!Next]_(Contract!vars)
  BY ContractKept
<1>3. Spec => [](TypeInv /\ OrdinaryInv)
  BY OrdinaryInvariance DEF Alone
<1> QED
  BY AloneInvariance, <1>1, <1>2, <1>3, PTL
  DEF Spec, ContractSpec, Contract!Spec
=============================================================================
