------------------------------ MODULE Callback ------------------------------
(***************************************************************************)
(* The R callback objects of src/rcallback.c: C_callback allocates one,    *)
(* foreign code calls it through a thunk, R_dcCallbackHandler runs the     *)
(* call inside a protected frame, and the garbage collector's finalizer    *)
(* frees it.                                                               *)
(*                                                                         *)
(* R is single threaded, so what interleaves is a stack: while a call      *)
(* builds its R arguments, evaluates the R function or records an error,   *)
(* R code runs (the function itself, or the finalizers of a collection),   *)
(* and that code may call back into foreign code, unregister a callback,   *)
(* drop its last R reference or collect garbage.                           *)
(***************************************************************************)
EXTENDS Naturals, Sequences, FiniteSets

CONSTANTS
  Callbacks,       \* callback objects
  Args,            \* [Callbacks -> Seq(ArgKinds)]: argument part of the signature
  Ret,             \* [Callbacks -> RetKinds]: its return type character
  MaxDepth,        \* bound: foreign-to-R calls in progress at once
  MaxInvocations,  \* bound: calls of one callback
  HoldThroughCall  \* may R drop its reference while a call is still running?

ArgKinds == {"scalar", "aggr", "other"}         \* "other": no type character
RetKinds == {"void", "scalar", "string", "aggr"}

ASSUME ConstantsAssumption ==
  /\ Args \in [Callbacks -> Seq(ArgKinds)]
  /\ Ret \in [Callbacks -> RetKinds]
  /\ MaxDepth \in Nat /\ MaxInvocations \in Nat
  /\ HoldThroughCall \in BOOLEAN

Reasons == {"r_error", "r_interrupt", "invalid_signature", "unsupported_argument",
            "unsupported_return", "invalid_return", "boundary_error"}
MaybeReason == Reasons \cup {"none"}

VARIABLES
  live,        \* "new", "live", "freed", or "leaked" by a failed C_callback
  held,        \* is the external pointer reachable in R?
  registered,  \* does foreign code keep the function pointer?
  preserved,   \* objects under R_PreserveObject on behalf of the callback:
               \* five of its own, and a record stored in last_error
  disabled, reason,  \* rdata->disabled, rdata->disable_reason
  cError,            \* reason stored in rdata->last_error
  rError,            \* reason stored in state$last_error by the R wrapper
  invoked, succeeded, errored, refused,  \* the four counters
  stack        \* the R_CallbackFrames in progress, innermost last

lifetime == <<live, held, registered>>
errors   == <<disabled, reason, cError, rError, preserved>>
counters == <<invoked, succeeded, errored, refused>>
vars     == <<lifetime, errors, counters, stack>>

(***************************************************************************)
(* Frames.  "next" is frame->next_argument and "native" the position of    *)
(* the backend's DCArgs cursor, both as the number of arguments passed;    *)
(* "why" is the reason handed to C_callback_disable_error; "fate" says how *)
(* the call was counted ("lost": it was not).  A call is at "thrown" from  *)
(* the wrapper's record to the native one, and at "stored" from the        *)
(* assignment of rdata->last_error to the return of R_PreserveObject.      *)
(***************************************************************************)
Steps == {"marshal", "eval", "thrown", "record", "stored", "zero", "leaving"}
Fates == {"open", "ok", "failed", "refused", "lost"}
Frame == [cb : Callbacks, pc : Steps, next : Nat, native : Nat,
          why : MaybeReason, fate : Fates]

Depth == Len(stack)
Top   == stack[Depth]
At(step) == stack # << >> /\ Top.pc = step /\ live[Top.cb] = "live"
SetTop(frame) == stack' = [stack EXCEPT ![Depth] = frame]

NArgs(c) == Len(Args[c])
Running(c) == \E i \in 1..Depth : stack[i].cb = c

\* R code can run: at top level, or wherever a call allocates or evaluates.
RRuns ==
  \/ stack = << >> \/ At("marshal") \/ At("eval") \/ At("thrown")
  \/ At("record") \/ At("stored")

\* C_callback_last_error_object: the C record shadows the wrapper's.
LastError(c) == IF cError[c] # "none" THEN cError[c] ELSE rError[c]

\* The C record is in last_error, but nothing keeps R from collecting it.
Dangling(c) == cError[c] # "none" /\ preserved[c] < 6

Init ==
  /\ live = [c \in Callbacks |-> "new"]
  /\ held = [c \in Callbacks |-> FALSE]
  /\ registered = [c \in Callbacks |-> FALSE]
  /\ preserved = [c \in Callbacks |-> 0]
  /\ disabled = [c \in Callbacks |-> FALSE]
  /\ reason = [c \in Callbacks |-> "none"]
  /\ cError = [c \in Callbacks |-> "none"]
  /\ rError = [c \in Callbacks |-> "none"]
  /\ invoked = [c \in Callbacks |-> 0]
  /\ succeeded = [c \in Callbacks |-> 0]
  /\ errored = [c \in Callbacks |-> 0]
  /\ refused = [c \in Callbacks |-> 0]
  /\ stack = << >>

-----------------------------------------------------------------------------
(* R code: creating, handing out and giving up a callback.                 *)

Create(c) ==
  /\ RRuns /\ live[c] = "new"
  /\ live' = [live EXCEPT ![c] = "live"]
  /\ held' = [held EXCEPT ![c] = TRUE]
  /\ preserved' = [preserved EXCEPT ![c] = 5]
  /\ UNCHANGED <<registered, disabled, reason, cError, rError, counters, stack>>

\* A jump out of C_callback, from an allocation or because rcallback_new_aggr
\* runs out of descriptors, leaves the record and what is preserved behind.
CreateFails(c) ==
  /\ RRuns /\ live[c] = "new"
  /\ live' = [live EXCEPT ![c] = "leaked"]
  /\ \E n \in 0..5 : preserved' = [preserved EXCEPT ![c] = n]
  /\ UNCHANGED <<held, registered, disabled, reason, cError, rError, counters, stack>>

Register(c) ==
  /\ RRuns /\ live[c] = "live" /\ held[c] /\ ~registered[c]
  /\ registered' = [registered EXCEPT ![c] = TRUE]
  /\ UNCHANGED <<live, held, errors, counters, stack>>

Unregister(c) ==
  /\ RRuns /\ registered[c]
  /\ registered' = [registered EXCEPT ![c] = FALSE]
  /\ UNCHANGED <<live, held, errors, counters, stack>>

\* "clear the R reference only after C no longer holds the pointer"
\* (callbacks.Rmd); HoldThroughCall adds: and no call of it is in progress.
DropReference(c) ==
  /\ RRuns /\ held[c] /\ ~registered[c]
  /\ HoldThroughCall => ~Running(c)
  /\ held' = [held EXCEPT ![c] = FALSE]
  /\ UNCHANGED <<live, registered, errors, counters, stack>>

\* Mutant: the finalizer forgets the error record it preserved.
FinalizeKeepsRecord(c) ==
  /\ RRuns /\ live[c] = "live" /\ ~held[c]
  /\ live' = [live EXCEPT ![c] = "freed"]
  /\ preserved' = [preserved EXCEPT ![c] = @ - 5]
  /\ UNCHANGED <<held, registered, disabled, reason, cError, rError, counters, stack>>

\* Mutant: the finalizer releases an error record that was never stored.
FinalizeReleasesNil(c) ==
  /\ RRuns /\ live[c] = "live" /\ ~held[c]
  /\ live' = [live EXCEPT ![c] = "freed"]
  /\ preserved' = [preserved EXCEPT ![c] = @ - 6]
  /\ UNCHANGED <<held, registered, disabled, reason, cError, rError, counters, stack>>

\* R_ReleaseObject of what was never preserved does nothing.
Released(c) == 5 + (IF cError[c] # "none" /\ ~Dangling(c) THEN 1 ELSE 0)

\* Mutant: the finalizer belongs to an object that dies before the pointer.
FinalizeHeld(c) ==
  /\ RRuns /\ live[c] = "live"
  /\ live' = [live EXCEPT ![c] = "freed"]
  /\ preserved' = [preserved EXCEPT ![c] = @ - Released(c)]
  /\ UNCHANGED <<held, registered, disabled, reason, cError, rError, counters, stack>>

\* R_callback_finalizer, run by a collection: it never asks about the stack.
Finalize(c) ==
  /\ RRuns /\ live[c] = "live" /\ ~held[c]
  /\ live' = [live EXCEPT ![c] = "freed"]
  /\ preserved' = [preserved EXCEPT ![c] = @ - Released(c)]
  /\ UNCHANGED <<held, registered, disabled, reason, cError, rError, counters, stack>>

-----------------------------------------------------------------------------
(* One call, from the thunk to its return.                                 *)

\* Mutant: a new call starts by clearing the wrapper's record.
InvokeClearsError(c) ==
  /\ RRuns /\ registered[c] /\ live[c] = "live"
  /\ Depth < MaxDepth /\ invoked[c] < MaxInvocations
  /\ invoked' = [invoked EXCEPT ![c] = @ + 1]
  /\ refused' = [refused EXCEPT ![c] = IF disabled[c] THEN @ + 1 ELSE @]
  /\ rError' = [rError EXCEPT ![c] = "none"]
  /\ stack' = Append(stack,
       [cb |-> c, next |-> 0, native |-> 0, why |-> "none",
        pc   |-> IF disabled[c] THEN "zero" ELSE "marshal",
        fate |-> IF disabled[c] THEN "refused" ELSE "open"])
  /\ UNCHANGED <<lifetime, disabled, reason, cError, preserved, succeeded, errored>>

\* R_dcCallbackHandler and the head of rcallback_invoke.
Invoke(c) ==
  /\ RRuns /\ registered[c] /\ live[c] = "live"
  /\ Depth < MaxDepth /\ invoked[c] < MaxInvocations
  /\ invoked' = [invoked EXCEPT ![c] = @ + 1]
  /\ refused' = [refused EXCEPT ![c] = IF disabled[c] THEN @ + 1 ELSE @]
  /\ stack' = Append(stack,
       [cb |-> c, next |-> 0, native |-> 0, why |-> "none",
        pc   |-> IF disabled[c] THEN "zero" ELSE "marshal",
        fate |-> IF disabled[c] THEN "refused" ELSE "open"])
  /\ UNCHANGED <<lifetime, errors, succeeded, errored>>

\* Mutant: the interrupt captured by the R wrapper is not retained.
ClassifiedPlain(c, why) == {why}

\* The reason C_callback_disable_error gives a failure: an interrupt that the
\* wrapper recorded is retained.  What is read of a dangling record is anything.
Classified(c, why) ==
  {r \in {why, "r_interrupt"} :
     IF why = "r_error" /\ Dangling(c) THEN TRUE
     ELSE (r = "r_interrupt") = (why = "r_error" /\ LastError(c) = "r_interrupt")}

\* C_callback_disable_error classifies, counts and disables in one go; a
\* missing record is allocated next.
DisableError(frame, why) ==
  \E r \in Classified(frame.cb, why) :
    LET c == frame.cb IN
    /\ errored' = [errored EXCEPT ![c] = @ + 1]
    /\ disabled' = [disabled EXCEPT ![c] = TRUE]
    /\ reason' = [reason EXCEPT ![c] = r]
    /\ SetTop([frame EXCEPT !.fate = "failed", !.why = r,
                            !.pc = IF LastError(c) = "none" THEN "record" ELSE "zero"])
    /\ UNCHANGED <<lifetime, cError, rError, preserved, invoked, succeeded, refused>>

\* A native getter passes one argument; nothing is allocated in between.
Passed(frame) == [frame EXCEPT !.native = @ + 1, !.next = @ + 1]

NextArg == Args[Top.cb][Top.next + 1]

FetchArgument ==
  /\ At("marshal") /\ Top.next < NArgs(Top.cb) /\ NextArg # "other"
  /\ SetTop(Passed(Top))
  /\ UNCHANGED <<lifetime, errors, counters>>

\* dcbArgAggr answers NULL on a backend without by-value support.
FetchUnsupported ==
  /\ At("marshal") /\ Top.next < NArgs(Top.cb) /\ NextArg = "aggr"
  /\ DisableError(Passed(Top), "unsupported_argument")

FetchInvalid ==
  /\ At("marshal") /\ Top.next < NArgs(Top.cb) /\ NextArg = "other"
  /\ DisableError(Top, "invalid_signature")

StartEval ==
  /\ At("marshal") /\ Top.next = NArgs(Top.cb)
  /\ SetTop([Top EXCEPT !.pc = "eval"])
  /\ UNCHANGED <<lifetime, errors, counters>>

\* The R function returns a value the return type accepts: a scalar return
\* coerces anything, an empty result is a zero, void ignores it.
ReturnValue ==
  /\ At("eval") /\ Ret[Top.cb] # "string"
  /\ succeeded' = [succeeded EXCEPT ![Top.cb] = @ + 1]
  /\ SetTop([Top EXCEPT !.pc = "leaving", !.fate = "ok"])
  /\ UNCHANGED <<lifetime, errors, invoked, errored, refused>>

\* An empty string return is a success too; a non-empty one is refused.
ReturnString ==
  /\ At("eval") /\ Ret[Top.cb] = "string"
  /\ \/ /\ succeeded' = [succeeded EXCEPT ![Top.cb] = @ + 1]
        /\ SetTop([Top EXCEPT !.pc = "leaving", !.fate = "ok"])
        /\ UNCHANGED <<lifetime, errors, invoked, errored, refused>>
     \/ DisableError(Top, "unsupported_return")

\* An empty, foreign-typed or short result cannot be marshalled by value.
ReturnMismatch ==
  /\ At("eval") /\ Ret[Top.cb] = "aggr"
  /\ DisableError(Top, "invalid_return")

\* The wrapper caught an error or an interrupt, records it, and rethrows it:
\* stop() and the exits it unwinds through run R code once more ...
EvalError ==
  /\ At("eval")
  /\ \E r \in {"r_error", "r_interrupt"} : rError' = [rError EXCEPT ![Top.cb] = r]
  /\ SetTop([Top EXCEPT !.pc = "thrown"])
  /\ UNCHANGED <<lifetime, disabled, reason, cError, preserved, counters>>

\* ... until R_tryEvalSilent, which nothing passes, reports the error.
EvalFailed == At("thrown") /\ DisableError(Top, "r_error")

\* The evaluation was cut short without the wrapper's handlers (a jump to top
\* level): R_tryEvalSilent reports an error nobody recorded.
EvalAborted == At("eval") /\ DisableError(Top, "r_error")

\* C_callback_set_last_error has built its list and stores it, after it has
\* released an older one ...
RecordError ==
  /\ At("record")
  /\ cError' = [cError EXCEPT ![Top.cb] = Top.why]
  /\ preserved' = [preserved EXCEPT ![Top.cb] = 5]
  /\ SetTop([Top EXCEPT !.pc = "stored"])
  /\ UNCHANGED <<lifetime, disabled, reason, rError, counters>>

\* ... and only then preserves it, which allocates.
PreserveRecord ==
  /\ At("stored")
  /\ preserved' = [preserved EXCEPT ![Top.cb] = @ + 1]
  /\ SetTop([Top EXCEPT !.pc = "zero"])
  /\ UNCHANGED <<lifetime, disabled, reason, cError, rError, counters>>

BoundaryPoint ==
  \/ At("marshal") \/ At("record") \/ At("stored")
  \/ At("eval") /\ Ret[Top.cb] # "void"

\* Mutant: every jump is counted, also of a call that failed before.
BoundaryExitRecounts ==
  /\ BoundaryPoint
  /\ LET c == Top.cb IN
     /\ disabled' = [disabled EXCEPT ![c] = TRUE]
     /\ reason' = [reason EXCEPT ![c] = IF disabled[c] THEN @ ELSE "boundary_error"]
     /\ errored' = [errored EXCEPT ![c] = @ + 1]
     /\ SetTop([Top EXCEPT !.pc = "zero", !.fate = "failed"])
  /\ UNCHANGED <<lifetime, cError, rError, preserved, invoked, succeeded, refused>>

\* Mutant: a caught jump answers zero but leaves the callback active.
BoundaryExitStaysActive ==
  /\ BoundaryPoint
  /\ SetTop([Top EXCEPT !.pc = "zero", !.fate = "failed"])
  /\ UNCHANGED <<lifetime, errors, counters>>

\* R_ToplevelExec caught a jump: a failed allocation, or LENGTH() of an
\* object that has none.  The first failure is counted and keeps its reason.
BoundaryExit ==
  /\ BoundaryPoint
  /\ LET c == Top.cb IN
     /\ disabled' = [disabled EXCEPT ![c] = TRUE]
     /\ reason' = [reason EXCEPT ![c] = IF disabled[c] THEN @ ELSE "boundary_error"]
     /\ errored' = [errored EXCEPT ![c] = IF disabled[c] THEN @ ELSE @ + 1]
     /\ SetTop([Top EXCEPT !.pc = "zero",
                           !.fate = IF Top.fate = "failed" \/ ~disabled[c]
                                    THEN "failed" ELSE "lost"])
  /\ UNCHANGED <<lifetime, cError, rError, preserved, invoked, succeeded, refused>>

\* rcallback_drain_arguments passes what is left, up to an unknown character.
Undrained(frame) ==
  {i \in frame.next..NArgs(frame.cb) - 1 : Args[frame.cb][i + 1] = "other"}
\* Mutant: the drain starts at the signature, not at frame->next_argument.
DrainedFromStart(frame) ==
  [frame EXCEPT !.native = @ + NArgs(frame.cb), !.next = NArgs(frame.cb)]

Drained(frame) ==
  LET stop == IF Undrained(frame) = {} THEN NArgs(frame.cb)
              ELSE CHOOSE i \in Undrained(frame) : \A j \in Undrained(frame) : i <= j
  IN  [frame EXCEPT !.native = @ + (stop - frame.next), !.next = stop]

\* Mutant: the drain loop does not stop at a character it does not know.
ZeroReturnSpins ==
  /\ At("zero") /\ Ret[Top.cb] = "aggr" => Undrained(Top) = {}
  /\ SetTop([(IF Ret[Top.cb] = "aggr" THEN Drained(Top) ELSE Top) EXCEPT !.pc = "leaving"])
  /\ UNCHANGED <<lifetime, errors, counters>>

\* C_callback_zero_return: an aggregate zero goes through the return
\* descriptor, so the arguments not fetched yet are drained first.
ZeroReturn ==
  /\ At("zero")
  /\ SetTop([(IF Ret[Top.cb] = "aggr" THEN Drained(Top) ELSE Top) EXCEPT !.pc = "leaving"])
  /\ UNCHANGED <<lifetime, errors, counters>>

\* Back in foreign code.
Leave ==
  /\ At("leaving")
  /\ stack' = SubSeq(stack, 1, Depth - 1)
  /\ UNCHANGED <<lifetime, errors, counters>>

-----------------------------------------------------------------------------
RStep(c) ==
  \/ Create(c) \/ CreateFails(c) \/ Register(c) \/ Unregister(c)
  \/ DropReference(c) \/ Finalize(c)

HandlerStep ==
  \/ FetchArgument \/ FetchUnsupported \/ FetchInvalid \/ StartEval
  \/ ReturnValue \/ ReturnString \/ ReturnMismatch
  \/ EvalError \/ EvalFailed \/ EvalAborted \/ RecordError \/ PreserveRecord
  \/ BoundaryExit \/ ZeroReturn \/ Leave

Next ==
  \/ \E c \in Callbacks : RStep(c) \/ Invoke(c)
  \/ HandlerStep

Spec == Init /\ [][Next]_vars

\* The handler is sequential C code, and an R function is taken to finish.
FairSpec == Spec /\ WF_vars(HandlerStep)
=============================================================================
