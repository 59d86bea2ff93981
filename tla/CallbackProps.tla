--------------------------- MODULE CallbackProps ---------------------------
(* What the callback objects must do, whatever the order of events.        *)
EXTENDS Callback

Lives == {"new", "live", "freed", "leaked"}

\* Types of all variables.
TypeOK ==
  /\ live \in [Callbacks -> Lives]
  /\ held \in [Callbacks -> BOOLEAN]
  /\ registered \in [Callbacks -> BOOLEAN]
  /\ preserved \in [Callbacks -> Nat]
  /\ disabled \in [Callbacks -> BOOLEAN]
  /\ reason \in [Callbacks -> MaybeReason]
  /\ cError \in [Callbacks -> MaybeReason]
  /\ rError \in [Callbacks -> MaybeReason]
  /\ invoked \in [Callbacks -> Nat]
  /\ succeeded \in [Callbacks -> Nat]
  /\ errored \in [Callbacks -> Nat]
  /\ refused \in [Callbacks -> Nat]
  /\ stack \in Seq(Frame)

\* The handler never works for a callback whose record and thunk are freed
\* (rcallback_invoke dereferences rdata after the evaluation), and foreign
\* code never keeps the pointer of one.
NoStaleFrame == \A i \in 1..Depth : live[stack[i].cb] = "live"
NoDanglingRegistration == \A c \in Callbacks : registered[c] => live[c] = "live"
MemorySafe == NoStaleFrame /\ NoDanglingRegistration

\* No call is counted twice, in whatever order nested calls of one callback
\* fail; while the callback is active every finished call was a success.
Open(c) == {i \in 1..Depth : stack[i].cb = c /\ stack[i].fate = "open"}
Settled(c) == succeeded[c] + errored[c] + refused[c]
CountedOnce ==
  \A c \in Callbacks :
    /\ Settled(c) + Cardinality(Open(c)) <= invoked[c]
    /\ ~disabled[c] => /\ errored[c] = 0 /\ refused[c] = 0
                       /\ succeeded[c] + Cardinality(Open(c)) = invoked[c]

\* An aggregate answer is written through the descriptor of the return type:
\* the native cursor has passed every argument, however early the call failed.
WellFormed(c) == \A i \in 1..NArgs(c) : Args[c][i] # "other"
DescriptorAligned ==
  \A i \in 1..Depth :
    LET f == stack[i] IN
    f.pc = "leaving" /\ Ret[f.cb] = "aggr" /\ WellFormed(f.cb) => f.native = NArgs(f.cb)

\* What makes it so, and typing with it: frame->next_argument and the native
\* cursor agree at every step, and a call is uncounted exactly while it
\* marshals or evaluates.
GoodFrame(f) ==
  /\ f.native = f.next /\ f.next <= NArgs(f.cb)
  /\ f.pc \in {"eval", "thrown"} => f.next = NArgs(f.cb)
  /\ f.pc = "leaving" /\ Ret[f.cb] = "aggr" /\ WellFormed(f.cb) => f.next = NArgs(f.cb)
  /\ f.fate = "open" <=> f.pc \in {"marshal", "eval", "thrown"}
  /\ f.pc \in {"record", "stored"} => f.fate = "failed" /\ f.why \in Reasons
FramesGood == \A i \in 1..Depth : GoodFrame(stack[i])

\* With a single failure counted, status()$disable_reason and
\* last_error()$reason tell the same story: an interrupt is not reported as
\* an error, nor the other way round.  While the wrapper has recorded a
\* condition that is not counted yet they may differ, if a call made in
\* between fails; and of a dangling record nothing is said.
Thrown(c) == {i \in 1..Depth : stack[i].cb = c /\ stack[i].pc = "thrown"}
ReasonAgrees ==
  \A c \in Callbacks :
    /\ disabled[c] <=> reason[c] # "none"
    /\ errored[c] = 1 /\ Thrown(c) = {} /\ ~Dangling(c) /\ LastError(c) # "none"
         => LastError(c) = reason[c]

\* R_PreserveObject and R_ReleaseObject balance: a live callback keeps its five
\* objects, and a sixth only for a C-level record; nothing it preserved
\* survives the finalizer, which releases nothing it did not preserve.  (Of a
\* creation that fails this says nothing.)
PreserveBalance ==
  \A c \in Callbacks :
    /\ live[c] = "live" => preserved[c] = 5 \/ (preserved[c] = 6 /\ cError[c] # "none")
    /\ live[c] \in {"new", "freed"} => preserved[c] = 0

\* The record in last_error is preserved, but for the moment in which
\* R_PreserveObject runs.  The code does not keep this: a jump out of
\* R_PreserveObject (rcallback.c:250) leaves the record as it is.
Preserving(c) == \E i \in 1..Depth : stack[i].cb = c /\ stack[i].pc = "stored"
RecordKept == \A c \in Callbacks : live[c] = "live" /\ Dangling(c) => Preserving(c)

\* Once last_error() has an answer it keeps one for ever, and the pointer to
\* the C-level record, which shadows the wrapper's, is never reset.  (Whether
\* what it points to is still there is RecordKept.)
DiagnosticKept ==
  [][\A c \in Callbacks :
       /\ LastError(c) # "none" => LastError(c)' # "none"
       /\ cError[c] # "none" => cError'[c] # "none"]_vars

\* The handler implements the contract foreign code relies on.
CallState(f) ==
  IF f.fate = "open" THEN "open"
  ELSE IF f.fate = "ok" THEN "value"
  ELSE IF f.pc = "leaving" THEN "zero" ELSE "failing"
Contract == INSTANCE CallbackContract WITH
  active <- [c \in Callbacks |-> ~disabled[c]],
  calls  <- [i \in 1..Depth |-> [cb |-> stack[i].cb, state |-> CallState(stack[i])]]
ContractSpec == Contract!Spec

\* Foreign code always gets control back, at every depth of nesting.
ForeignCallReturns == \A d \in 1..MaxDepth : (Depth >= d) ~> (Depth < d)
=============================================================================
