-------------------------- MODULE DynportContract --------------------------
(***************************************************************************)
(* What dynport() and dynport_clear_lib() promise to the one session that  *)
(* owns the library directories, with nothing said of how: a call changes  *)
(* the state once, when it answers.  If it succeeds, the package asked for *)
(* is installed and runs.  If it fails, nothing has changed, except that   *)
(*   - a package that could be installed but not loaded stays installed;   *)
(*   - with "rebuild" the old package may be lost, on disk, in the session *)
(*     or both, but the session never runs what is no longer on disk.      *)
(* Only packages that were generated are replaced, removed or unloaded.    *)
(***************************************************************************)
CONSTANTS Libs, Contents, None, Ordinary, Args, NoCall

VARIABLES
  disk,     \* [Libs -> the contents of the package installed there]
  running,  \* the loaded namespace: its directory and its contents
  request,  \* the arguments of the last call
  answer    \* to it; "idle" if the session has loaded or unloaded by hand since

vars == <<disk, running, request, answer>>

Nothing    == [lib |-> None, content |-> None]
Old        == disk[request.lib]
With(what) == [disk EXCEPT ![request.lib] = what]
Runs       == running.content = request.content
InUse      == running # Nothing /\ running.lib = request.lib

\* With "rebuild" a generated namespace makes way for other contents, its own or
\* those it is to replace on disk.
GivenUp ==
  /\ request.rebuild /\ running.content \in Contents
  /\ ~Runs \/ Old \in Contents \ {request.content}

Init ==
  /\ disk \in [Libs -> {None, Ordinary}]
  /\ running = Nothing
  /\ request = NoCall /\ answer = "idle"

\* A call begins, or is turned down at once.
Ask(args) ==
  /\ answer # "pending"
  /\ request' = args
  /\ \/ answer' \in {"pending", "failed"}
     \/ answer' = "returned" /\ args.op = "clear" /\ disk[args.lib] \notin Contents
  /\ UNCHANGED <<disk, running>>

Answers(what) == answer = "pending" /\ answer' = what /\ UNCHANGED request

\* The package is there as asked for, and loaded from there unless it runs already.
Succeed ==
  /\ Answers("returned") /\ request.op = "install"
  /\ Old \in {None, request.content} \/ (request.rebuild /\ Old \in Contents)
  /\ disk' = With(request.content)
  /\ \/ Runs /\ UNCHANGED running
     \/ /\ running = Nothing \/ GivenUp
        /\ running' = IF request.load THEN [lib |-> request.lib, content |-> request.content]
                                      ELSE Nothing

\* A failure changes nothing but a free place: the package that was installed
\* there could not be loaded.
Fail ==
  /\ Answers("failed") /\ request.op = "install" /\ ~request.rebuild
  /\ \/ UNCHANGED disk
     \/ /\ Old = None /\ disk' = With(request.content)
        /\ request.load /\ (running = Nothing \/ Runs)
  /\ UNCHANGED running

\* With "rebuild" the old package may be lost, but never from under the session.
FailRebuild ==
  /\ Answers("failed") /\ request.op = "install" /\ request.rebuild
  /\ UNCHANGED running \/ (GivenUp /\ running' = Nothing)
  /\ \/ UNCHANGED disk
     \/ Old \in Contents \ {request.content} /\ disk' = With(None) /\ running' = Nothing
     \/ /\ Old # Ordinary /\ request.load /\ disk' = With(request.content)
        /\ running' = Nothing \/ running'.content = request.content

\* dynport_clear_lib() removes a generated package, if unlink() can, that is not
\* in use, or is not in use any more.
Clear ==
  /\ Answers("returned") /\ request.op = "clear"
  /\ Old \in Contents
  /\ disk' \in {disk, With(None)}
  /\ \/ ~InUse /\ UNCHANGED running
     \/ InUse /\ request.rebuild /\ running' = Nothing

\* library() and unloadNamespace() outside of any call.
ByHand ==
  /\ answer # "pending" /\ answer' = "idle"
  /\ \/ running' = Nothing
     \/ \E lib \in Libs : disk[lib] # None /\ running' = [lib |-> lib, content |-> disk[lib]]
  /\ UNCHANGED <<disk, request>>

\* Between calls somebody installs an ordinary package into a free place.
InstallByHand ==
  /\ answer # "pending"
  /\ \E lib \in Libs : disk[lib] = None /\ disk' = [disk EXCEPT ![lib] = Ordinary]
  /\ UNCHANGED <<running, request, answer>>

Next ==
  \/ \E args \in Args : Ask(args)
  \/ Succeed \/ Fail \/ FailRebuild \/ Clear
  \/ ByHand \/ InstallByHand

Spec == Init /\ [][Next]_vars
=============================================================================
