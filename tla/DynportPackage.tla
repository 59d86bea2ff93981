--------------------------- MODULE DynportPackage ---------------------------
(***************************************************************************)
(* Generated packages of R/dynport.R: dynport() turns a port file into an  *)
(* R package, installs it in a library directory and loads it;             *)
(* dynport_clear_lib() removes what it generated.  One package name is     *)
(* modelled.  Its library directories are shared by R sessions (the        *)
(* default one is a cache of the user), and nothing locks them: between    *)
(* any two looks at the file system another session may have acted.        *)
(***************************************************************************)
EXTENDS Naturals

CONSTANTS
  Sessions,  \* R processes
  Libs,      \* library directories
  Contents,  \* contents of the port file; their md5 sums differ
  Version,   \* [Contents -> version]: the port's Version field
  Overlap,   \* may calls of several sessions overlap in time?
  Intrude,   \* may an ordinary package be installed while a call is in progress?
  MaxCalls   \* bound: calls of the package's functions altogether

CONSTANTS None, Ordinary   \* nothing there; a package rdyncall did not generate

ASSUME DynportAssumption ==
  /\ {None, Ordinary} \cap Contents = {} /\ None # Ordinary
  /\ Contents \subseteq DOMAIN Version
  /\ MaxCalls \in Nat /\ Overlap \in BOOLEAN /\ Intrude \in BOOLEAN

VARIABLES
  installed,  \* [Libs -> what the DESCRIPTION found there says]
  loaded,     \* [Sessions -> the loaded namespace: its directory and its contents]
  attached,   \* [Sessions -> BOOLEAN]: is it on the search path?
  call,       \* [Sessions -> the call in progress, or the last one]
  calls       \* calls begun
vars == <<installed, loaded, attached, call, calls>>

Packages   == Contents \cup {Ordinary}
NotLoaded  == [lib |-> None, content |-> None]
Namespace  == [lib : Libs, content : Packages] \cup {NotLoaded}
IsLoaded(s) == loaded[s] # NotLoaded

\* "was" and "ran" recall what was installed and loaded when the call began.
Pcs  == {"idle", "checkLoaded", "checkInstalled", "remove", "install", "load",
         "clear", "returned", "failed"}
Args == [op : {"install", "clear"}, lib : Libs, content : Contents,
         rebuild : BOOLEAN, load : BOOLEAN]
NoCall == [op |-> "none"]
Call == [pc : Pcs, args : Args \cup {NoCall}, was : Packages \cup {None}, ran : Namespace]

At(s, pc)  == call[s].pc = pc
Free(s)    == call[s].pc \in {"idle", "returned", "failed"}
MayBegin(s) == Free(s) /\ calls < MaxCalls /\ (Overlap \/ \A t \in Sessions : Free(t))
Go(s, pc)  == call' = [call EXCEPT ![s].pc = pc]
Fail(s)    == Go(s, "failed")
Generated(description) == description \in Contents
Md5Equal(description, s) == description = call[s].args.content
There(s)   == installed[call[s].args.lib]

Init ==
  /\ installed \in [Libs -> {None, Ordinary}]
  /\ loaded = [s \in Sessions |-> NotLoaded]
  /\ attached = [s \in Sessions |-> FALSE]
  /\ call = [s \in Sessions |-> [pc |-> "idle", args |-> NoCall, was |-> None,
                                 ran |-> NotLoaded]]
  /\ calls = 0

-----------------------------------------------------------------------------
(* R's own library(), loadNamespace(), unloadNamespace(), unlink() and     *)
(* install.packages().                                                      *)

SetNamespace(s, ns) == loaded' = [loaded EXCEPT ![s] = ns]
Attach(s, yes)      == attached' = [attached EXCEPT ![s] = yes]
Found(lib)          == [lib |-> lib, content |-> installed[lib]]
VersionOf(content)  == IF content \in Contents THEN Version[content] ELSE Ordinary

\* dynport_unload_package: detach, then unload; a namespace that others import
\* cannot be unloaded.
UnloadedThen(s, pc) ==
  /\ Attach(s, FALSE)
  /\ \/ SetNamespace(s, NotLoaded) /\ Go(s, pc)
     \/ UNCHANGED loaded /\ Fail(s)

\* library(package, lib.loc): a namespace already loaded is attached as it is,
\* unless the installed package has another version; then it is unloaded first.
Library(s, lib, done, failed) ==
  LET keeps == IsLoaded(s) /\ VersionOf(loaded[s].content) = VersionOf(installed[lib]) IN
  \/ /\ installed[lib] # None
     /\ SetNamespace(s, IF keeps THEN loaded[s] ELSE Found(lib))
     /\ Attach(s, TRUE) /\ Go(s, done)
  \/ /\ \/ UNCHANGED loaded          \* not there; .onLoad fails; cannot be unloaded
        \/ installed[lib] # None /\ ~keeps /\ SetNamespace(s, NotLoaded)
     /\ UNCHANGED attached /\ Go(s, failed)

\* The user's own library() and unloadNamespace().
LoadByHand(s, lib) ==
  /\ Free(s) /\ ~attached[s] /\ installed[lib] # None
  /\ Library(s, lib, "idle", "idle")
  /\ UNCHANGED <<installed, calls>>

UnloadByHand(s) ==
  /\ Free(s) /\ IsLoaded(s)
  /\ SetNamespace(s, NotLoaded) /\ Attach(s, FALSE) /\ Go(s, "idle")
  /\ UNCHANGED <<installed, calls>>

\* Somebody installs a package of that name which rdyncall did not generate, into a
\* free place.
InstallByHand(lib) ==
  /\ installed[lib] = None
  /\ Intrude \/ \A s \in Sessions : Free(s)
  /\ installed' = [installed EXCEPT ![lib] = Ordinary]
  /\ UNCHANGED <<loaded, attached, call, calls>>

\* unlink(): what cannot be removed stays, and the code does not ask.
Unlink(lib) ==
  \/ installed' = [installed EXCEPT ![lib] = None]
  \/ UNCHANGED installed

-----------------------------------------------------------------------------
(* dynport_install_package_impl and dynport_prepare_install.                *)

\* An unreadable port file or an invalid name stops the call at once.
Begin(s, args) ==
  /\ MayBegin(s)
  /\ args.op = "install"
  /\ calls' = calls + 1
  /\ \E pc \in {"checkLoaded", "failed"} :
       call' = [call EXCEPT ![s] = [pc |-> pc, args |-> args,
                                    was |-> installed[args.lib], ran |-> loaded[s]]]
  /\ UNCHANGED <<installed, loaded, attached>>

\* Mutant: the namespace is unloaded before "rebuild" is looked at.
CheckLoadedUnloadsFirst(s) ==
  LET description == IF IsLoaded(s) THEN installed[loaded[s].lib] ELSE None IN
  /\ At(s, "checkLoaded")
  /\ \/ /\ ~IsLoaded(s) \/ Md5Equal(description, s)
        /\ Go(s, "checkInstalled") /\ UNCHANGED <<loaded, attached>>
     \/ /\ IsLoaded(s) /\ ~Md5Equal(description, s) /\ ~Generated(description)
        /\ Fail(s) /\ UNCHANGED <<loaded, attached>>
     \/ /\ IsLoaded(s) /\ ~Md5Equal(description, s) /\ Generated(description)
        /\ UnloadedThen(s, IF call[s].args.rebuild THEN "checkInstalled" ELSE "failed")
  /\ UNCHANGED <<installed, calls>>

\* Mutant: a loaded package is never unloaded here.
CheckLoadedKeeps(s) ==
  /\ At(s, "checkLoaded")
  /\ Go(s, "checkInstalled")
  /\ UNCHANGED <<installed, loaded, attached, calls>>

\* The namespace's own directory is read again: its DESCRIPTION of today speaks
\* for the namespace loaded some time ago.
CheckLoaded(s) ==
  LET description == IF IsLoaded(s) THEN installed[loaded[s].lib] ELSE None IN
  /\ At(s, "checkLoaded")
  /\ \/ /\ ~IsLoaded(s) \/ Md5Equal(description, s)
        /\ Go(s, "checkInstalled") /\ UNCHANGED <<loaded, attached>>
     \/ /\ IsLoaded(s) /\ ~Md5Equal(description, s)
        /\ ~Generated(description) \/ ~call[s].args.rebuild
        /\ Fail(s) /\ UNCHANGED <<loaded, attached>>
     \/ /\ IsLoaded(s) /\ ~Md5Equal(description, s)
        /\ Generated(description) /\ call[s].args.rebuild
        /\ UnloadedThen(s, "checkInstalled")
  /\ UNCHANGED <<installed, calls>>

AfterInstall(s) == IF call[s].args.load THEN "load" ELSE "returned"

\* Mutant: nobody asks who made the package that is there.
CheckInstalledTrusts(s) ==
  /\ At(s, "checkInstalled")
  /\ \/ There(s) = None /\ Go(s, "install")
     \/ Md5Equal(There(s), s) /\ Go(s, AfterInstall(s))
     \/ /\ There(s) # None /\ ~Md5Equal(There(s), s)
        /\ IF call[s].args.rebuild THEN Go(s, "remove") ELSE Fail(s)
  /\ UNCHANGED <<installed, loaded, attached, calls>>

CheckInstalled(s) ==
  /\ At(s, "checkInstalled")
  /\ \/ There(s) = None /\ Go(s, "install")
     \/ Md5Equal(There(s), s) /\ Go(s, AfterInstall(s))
     \/ /\ Generated(There(s)) /\ ~Md5Equal(There(s), s) /\ call[s].args.rebuild
        /\ Go(s, "remove")
     \/ /\ There(s) # None /\ ~Md5Equal(There(s), s)
        /\ ~Generated(There(s)) \/ ~call[s].args.rebuild
        /\ Fail(s)
  /\ UNCHANGED <<installed, loaded, attached, calls>>

\* Another copy of the package may be loaded; then unlink().
Remove(s) ==
  /\ At(s, "remove")
  /\ \/ ~IsLoaded(s) /\ UNCHANGED <<loaded, attached>> /\ Go(s, "install")
     \/ IsLoaded(s) /\ UnloadedThen(s, "install")
  /\ IF call'[s].pc = "install" THEN Unlink(call[s].args.lib) ELSE UNCHANGED installed
  /\ UNCHANGED calls

\* R CMD INSTALL replaces what is there, or restores it when it fails.
Install(s) ==
  /\ At(s, "install")
  /\ \/ /\ installed' = [installed EXCEPT ![call[s].args.lib] = call[s].args.content]
        /\ Go(s, AfterInstall(s))
     \/ UNCHANGED installed /\ Fail(s)
  /\ UNCHANGED <<loaded, attached, calls>>

\* dynport_load_package: an attached package is not loaded again.
Load(s) ==
  /\ At(s, "load")
  /\ \/ attached[s] /\ Go(s, "returned") /\ UNCHANGED <<loaded, attached>>
     \/ ~attached[s] /\ Library(s, call[s].args.lib, "returned", "failed")
  /\ UNCHANGED <<installed, calls>>

-----------------------------------------------------------------------------
(* dynport_clear_lib; its argument "unload" is kept in the field "rebuild". *)

\* Mutant: the library is cleared under a loaded package.
ClearForgetsNamespace(s, args) ==
  /\ MayBegin(s)
  /\ args.op = "clear"
  /\ calls' = calls + 1
  /\ call' = [call EXCEPT ![s] =
       [pc |-> IF Generated(installed[args.lib]) THEN "clear" ELSE "returned", args |-> args,
        was |-> installed[args.lib], ran |-> loaded[s]]]
  /\ UNCHANGED <<installed, loaded, attached>>

\* Only a namespace loaded from this directory is unloaded.
Clear(s, args) ==
  LET started(pc) == call' = [call EXCEPT ![s] =
        [pc |-> pc, args |-> args, was |-> installed[args.lib], ran |-> loaded[s]]]
      inUse == IsLoaded(s) /\ loaded[s].lib = args.lib
  IN
  /\ MayBegin(s)
  /\ args.op = "clear"
  /\ calls' = calls + 1
  /\ \/ /\ ~Generated(installed[args.lib])
        /\ started("returned") /\ UNCHANGED <<loaded, attached>>
     \/ /\ Generated(installed[args.lib]) /\ ~inUse
        /\ started("clear") /\ UNCHANGED <<loaded, attached>>
     \/ /\ Generated(installed[args.lib]) /\ inUse /\ ~args.rebuild
        /\ started("failed") /\ UNCHANGED <<loaded, attached>>
     \/ /\ Generated(installed[args.lib]) /\ inUse /\ args.rebuild
        /\ Attach(s, FALSE)
        /\ \/ SetNamespace(s, NotLoaded) /\ started("clear")
           \/ UNCHANGED loaded /\ started("failed")
  /\ UNCHANGED installed

ClearUnlink(s) ==
  /\ At(s, "clear")
  /\ Unlink(call[s].args.lib)
  /\ Go(s, "returned")
  /\ UNCHANGED <<loaded, attached, calls>>

-----------------------------------------------------------------------------
Step(s) ==
  \/ \E args \in Args : Begin(s, args) \/ Clear(s, args)
  \/ CheckLoaded(s) \/ CheckInstalled(s) \/ Remove(s) \/ Install(s) \/ Load(s)
  \/ ClearUnlink(s)
  \/ UnloadByHand(s)
  \/ \E lib \in Libs : LoadByHand(s, lib)

Next ==
  \/ \E s \in Sessions : Step(s)
  \/ \E lib \in Libs : InstallByHand(lib)

Spec == Init /\ [][Next]_vars
=============================================================================
