------------------------ MODULE DynportPackageProps ------------------------
(* What the functions of R/dynport.R owe the sessions that call them.      *)
EXTENDS DynportPackage

\* Types of all variables.
TypeOK ==
  /\ installed \in [Libs -> Packages \cup {None}]
  /\ loaded \in [Sessions -> Namespace]
  /\ attached \in [Sessions -> BOOLEAN]
  /\ call \in [Sessions -> Call]
  /\ calls \in 0..MaxCalls

Installs(s) == call[s].args.op = "install"

\* "If TRUE, load and attach the generated package" (man/dynport.Rd): when
\* dynport() returns, the session runs the contents it asked for.
LoadedMatches ==
  \A s \in Sessions :
    At(s, "returned") /\ Installs(s) /\ call[s].args.load
      => attached[s] /\ loaded[s].content = call[s].args.content

\* A namespace's directory still holds what was loaded from it (R reads help and
\* lazy-loaded objects there): nothing is replaced or removed under a session.
LoadedOnDisk ==
  \A s \in Sessions : IsLoaded(s) => installed[loaded[s].lib] = loaded[s].content

\* A package rdyncall did not generate is never replaced, removed or unloaded by a
\* call, if it was installed while no call was in progress: nothing protects one that
\* arrives between the look at a place and what is done there (Intrude).
OrdinaryUntouched ==
  /\ \A lib \in Libs : installed[lib] = Ordinary => installed'[lib] = Ordinary
  /\ \A s \in Sessions :
       loaded[s].content = Ordinary /\ call'[s].pc # "idle" => loaded'[s] = loaded[s]
OrdinaryKept == [][OrdinaryUntouched]_vars

\* To the session that owns the directories a call is one step: it either did all
\* it was asked to or, but for what "rebuild" gives up, nothing.  While it runs,
\* what it found still stands for the state.
Me   == CHOOSE s \in Sessions : TRUE
Busy == call[Me].pc \notin {"idle", "returned", "failed"}
Disk == IF Busy THEN [installed EXCEPT ![call[Me].args.lib] = call[Me].was] ELSE installed
Running == IF Busy THEN call[Me].ran ELSE loaded[Me]
Contract == INSTANCE DynportContract WITH
  disk <- Disk, running <- Running,
  request <- call[Me].args, answer <- IF Busy THEN "pending" ELSE call[Me].pc
ContractSpec == Contract!Spec

-----------------------------------------------------------------------------
(* The inductive invariants behind them.                                    *)

\* What the contract says of a failure, told of the state it leaves: without rebuild
\* a failing call destroys nothing.  What was installed is still there (or the new
\* package, if only its loading failed, or one that came later), what was loaded is
\* still loaded.
FailureKeeps ==
  \A s \in Sessions :
    At(s, "failed") /\ Installs(s) /\ ~call[s].args.rebuild
      => /\ loaded[s] = call[s].ran
         /\ \/ There(s) = call[s].was
            \/ call[s].was = None /\ There(s) \in {call[s].args.content, Ordinary}

\* A call that is past its checks works on a generated package, and an ordinary
\* one that is loaded keeps its directory.
OrdinaryInv ==
  \A s \in Sessions :
    /\ loaded[s].content = Ordinary => installed[loaded[s].lib] = Ordinary
    /\ call[s].pc \in {"checkInstalled", "remove", "install", "load"}
         => loaded[s].content # Ordinary
    /\ call[s].pc \in {"remove", "install", "clear"} => There(s) # Ordinary

\* What each step of a call may rely on when no other session interferes.
Ready(s) ==
  /\ attached[s] => IsLoaded(s)
  /\ call[s].pc \in {"checkInstalled", "remove", "install", "load"} /\ IsLoaded(s)
       => loaded[s].content = call[s].args.content
  /\ At(s, "remove") => There(s) # call[s].args.content /\ call[s].args.rebuild
  /\ At(s, "load") => There(s) = call[s].args.content
  /\ At(s, "clear") => ~(IsLoaded(s) /\ loaded[s].lib = call[s].args.lib)
                       /\ call[s].args.op = "clear"

\* Without rebuild a call keeps what it found, until it installs into a free place.
Keeps(s) ==
  call[s].pc \in {"checkLoaded", "checkInstalled", "remove", "install", "load"}
    => /\ Installs(s)
       /\ ~call[s].args.rebuild
            => /\ loaded[s] = call[s].ran
               /\ At(s, "install") => call[s].was = None /\ There(s) = None
               /\ \/ There(s) = call[s].was
                  \/ At(s, "load") /\ call[s].was = None

\* What a call has changed so far, told by what it found when it began.
Recalls(s) ==
  LET was == call[s].was
      ran == call[s].ran
      args == call[s].args
      unloaded == /\ args.rebuild /\ loaded[s] = NotLoaded /\ ran.content \in Contents
                  /\ \/ args.op = "install" /\ ran.content # args.content
                     \/ args.op = "install" /\ was \in Contents \ {args.content}
                     \/ args.op = "clear" /\ ran.lib = args.lib
  IN
  /\ ~Free(s) => loaded[s] = ran \/ unloaded
  /\ call[s].pc \in {"checkLoaded", "checkInstalled", "remove", "clear"} => There(s) = was
  /\ call[s].pc \in {"remove", "clear"} => was \in Contents
  /\ call[s].pc \in {"install", "load"}
       => was \in {None, args.content} \/ (args.rebuild /\ was \in Contents)
  /\ At(s, "load") => args.load
  /\ At(s, "install") => was # args.content /\ There(s) \in {None, was}
  /\ At(s, "install") /\ was # None => loaded[s] = NotLoaded
  /\ At(s, "clear") /\ loaded[s] = ran => ran.lib # args.lib \/ ran = NotLoaded

ContractInv == \A s \in Sessions : Recalls(s)

AloneInv == /\ LoadedOnDisk /\ LoadedMatches /\ FailureKeeps
            /\ \A s \in Sessions : Ready(s) /\ Keeps(s)
=============================================================================
