--------------------------- MODULE CallbackProofs ---------------------------
(***************************************************************************)
(* Proofs about the callback objects, for any set of callbacks, any        *)
(* signatures and any bounds: types and cursors, what holds while a call   *)
(* runs, what R and foreign code learn of a call (the diagnostics, the     *)
(* contract of CallbackContract, the counters), and the preserved objects. *)
(***************************************************************************)
EXTENDS CallbackProps, StackLemmas, WellFoundedInduction, FiniteSetTheorems

-----------------------------------------------------------------------------
(* Types and cursors.                                                      *)

GoodFrames == {f \in Frame : GoodFrame(f)}

\* The finalizer has five objects to release.
FivePreserved == \A c \in Callbacks : live[c] = "live" => preserved[c] >= 5

TypeInv == TypeOK /\ FivePreserved /\ stack \in Seq(GoodFrames)

\* What a call in progress does to the stack, short of leaving it.
SameCall == \E g \in GoodFrames : g.cb = Top.cb /\ SetTop(g)

LEMMA ArgCount ==
  ASSUME NEW c \in Callbacks
  PROVE  NArgs(c) \in Nat /\ Args[c] \in Seq(ArgKinds)
BY ConstantsAssumption, LenProperties DEF NArgs

\* Where the stack changes, it is by one frame.
LEMMA TopIsFrame ==
  ASSUME TypeInv, stack # << >>
  PROVE  /\ Top \in GoodFrames /\ Depth \in Nat \ {0} /\ Top.cb \in Callbacks
         /\ Depth \in 1..Depth
<1>1. Depth \in Nat \ {0} /\ Depth \in 1..Depth
  BY EmptySeq, LenProperties DEF TypeInv, Depth
<1>2. Top \in GoodFrames
  BY <1>1, ElementOfSeq DEF TypeInv, Top, Depth
<1>. QED  BY <1>1, <1>2 DEF GoodFrames, Frame

LEMMA FrameAt ==
  ASSUME TypeInv, NEW i \in 1..Depth
  PROVE  stack[i] \in Frame /\ GoodFrame(stack[i]) /\ stack[i].cb \in Callbacks
<1>1. stack[i] \in GoodFrames
  BY ElementOfSeq DEF TypeInv, Depth
<1>. QED  BY <1>1 DEF GoodFrames, Frame

LEMMA FrameIsFrame == GoodFrames \subseteq Frame
BY DEF GoodFrames

\* A frame with its cursors moved and its position changed is a frame.
Moved(f, m, n, p) == [[f EXCEPT !.native = m, !.next = n] EXCEPT !.pc = p]

LEMMA MovedFrame ==
  ASSUME NEW f \in Frame, NEW m \in Nat, NEW n \in Nat, NEW p \in Steps
  PROVE  /\ Moved(f, m, n, p) \in Frame
         /\ Moved(f, m, n, p).cb = f.cb /\ Moved(f, m, n, p).fate = f.fate
         /\ Moved(f, m, n, p).native = m /\ Moved(f, m, n, p).next = n
         /\ Moved(f, m, n, p).pc = p
<1>1. f = [cb |-> f.cb, pc |-> f.pc, next |-> f.next, native |-> f.native,
           why |-> f.why, fate |-> f.fate]
  BY DEF Frame
<1>. QED  BY <1>1 DEF Frame, Moved

LEMMA SetTopType ==
  ASSUME TypeInv, stack # << >>, NEW f \in GoodFrames, SetTop(f)
  PROVE  stack' \in Seq(GoodFrames) /\ stack' \in Seq(Frame)
<1>1. stack' \in Seq(GoodFrames)
  BY TopReplaced DEF TypeInv, SetTop, Depth
<1>. QED  BY <1>1, SeqMonotonic, FrameIsFrame

\* The set of arguments the drain stops at has a first one.
LEMMA LeastExists ==
  ASSUME NEW U, U \subseteq Nat, U # {}
  PROVE  \E i \in U : \A j \in U : i <= j
<1>1. PICK i \in U : \A j \in U : ~(<<j, i>> \in OpToRel(<, Nat))
  BY NatLessThanWellFounded, WFMin
<1>2. \A j \in U : ~(j < i)
  BY <1>1 DEF OpToRel
<1>. QED  BY <1>2

\* C_callback_disable_error replaces the top frame by that of a failed call.
LEMMA DisableShape ==
  ASSUME TypeInv, NEW f \in Frame, f.native = f.next, f.next <= NArgs(f.cb),
         NEW why \in Reasons, DisableError(f, why)
  PROVE  \E r \in Reasons, g \in GoodFrames :
           /\ r \in Classified(f.cb, why)
           /\ g.cb = f.cb /\ g.fate = "failed" /\ g.why = r
           /\ g.pc = (IF LastError(f.cb) = "none" THEN "record" ELSE "zero")
           /\ SetTop(g)
           /\ errored' = [errored EXCEPT ![f.cb] = @ + 1]
           /\ disabled' = [disabled EXCEPT ![f.cb] = TRUE]
           /\ reason' = [reason EXCEPT ![f.cb] = r]
           /\ UNCHANGED <<lifetime, cError, rError, preserved, invoked, succeeded, refused>>
<1>. DEFINE pos == IF LastError(f.cb) = "none" THEN "record" ELSE "zero"
            h(r) == [f EXCEPT !.fate = "failed", !.why = r, !.pc = pos]
<1>1. PICK r \in Classified(f.cb, why) :
        /\ errored' = [errored EXCEPT ![f.cb] = @ + 1]
        /\ disabled' = [disabled EXCEPT ![f.cb] = TRUE]
        /\ reason' = [reason EXCEPT ![f.cb] = r]
        /\ SetTop(h(r))
        /\ UNCHANGED <<lifetime, cError, rError, preserved, invoked, succeeded, refused>>
  BY DEF DisableError
<1>2. r \in Reasons
  BY DEF Classified, Reasons
<1>3. pos \in {"record", "zero"}
  OBVIOUS
<1>. HIDE DEF pos
<1>4. h(r) \in Frame /\ h(r).cb = f.cb /\ h(r).fate = "failed" /\ h(r).why = r /\ h(r).pc = pos
  BY <1>2, <1>3 DEF Frame, Steps, Fates, MaybeReason
<1>5. h(r).native = f.native /\ h(r).next = f.next
  BY DEF Frame
<1>6. PICK g \in Frame : /\ g = h(r) /\ g.cb = f.cb /\ g.fate = "failed" /\ g.why = r
                         /\ g.pc = pos /\ g.native = f.native /\ g.next = f.next
  BY <1>4, <1>5
<1>. HIDE DEF h
<1>7. g \in GoodFrames
  BY <1>2, <1>3, <1>6 DEF GoodFrames, GoodFrame
<1>8. SetTop(g)
  BY <1>1, <1>6
<1>. QED  BY <1>1, <1>2, <1>6, <1>7, <1>8 DEF pos

LEMMA DisableErrorType ==
  ASSUME TypeInv, stack # << >>, NEW f \in Frame, f.cb = Top.cb,
         f.native = f.next, f.next <= NArgs(f.cb),
         NEW why \in Reasons, DisableError(f, why)
  PROVE  TypeInv' /\ SameCall
<1>1. PICK r \in Reasons, g \in GoodFrames :
        /\ g.cb = f.cb /\ SetTop(g)
        /\ errored' = [errored EXCEPT ![f.cb] = @ + 1]
        /\ disabled' = [disabled EXCEPT ![f.cb] = TRUE]
        /\ reason' = [reason EXCEPT ![f.cb] = r]
        /\ UNCHANGED <<lifetime, cError, rError, preserved, invoked, succeeded, refused>>
  BY DisableShape
<1>2. PICK c \in Callbacks : c = f.cb
  BY DEF Frame
<1>3. stack' \in Seq(GoodFrames) /\ stack' \in Seq(Frame)
  BY <1>1, SetTopType
<1>6. /\ errored' = [errored EXCEPT ![c] = @ + 1]
      /\ disabled' = [disabled EXCEPT ![c] = TRUE]
      /\ reason' = [reason EXCEPT ![c] = r] /\ r \in MaybeReason
      /\ UNCHANGED <<lifetime, cError, rError, preserved, invoked, succeeded, refused>>
  BY <1>1, <1>2 DEF MaybeReason
<1>4. TypeOK'
  BY <1>3, <1>6 DEF TypeInv, TypeOK, lifetime
<1>5. FivePreserved'
  BY <1>1 DEF TypeInv, FivePreserved, lifetime
<1>. QED  BY <1>1, <1>3, <1>4, <1>5 DEF TypeInv, SameCall

LEMMA RStepType ==
  ASSUME TypeInv, NEW c \in Callbacks, RStep(c)
  PROVE  TypeInv'
<1>1. stack' = stack
  BY DEF RStep, Create, CreateFails, Register, Unregister, DropReference, Finalize
<1>2. CASE Create(c) \/ CreateFails(c)
  <2>. DEFINE s == IF Create(c) THEN "live" ELSE "leaked"
  <2>1. PICK n \in Nat :
        /\ live' = [live EXCEPT ![c] = s] /\ s \in {"live", "leaked"}
        /\ preserved' = [preserved EXCEPT ![c] = n] /\ (s = "live" => n = 5)
        /\ held' \in [Callbacks -> BOOLEAN]
        /\ UNCHANGED <<registered, disabled, reason, cError, rError, counters, stack>>
    <3>1. CASE Create(c)
      BY <3>1 DEF TypeInv, TypeOK, Create
    <3>2. CASE CreateFails(c) /\ ~Create(c)
      <4>1. PICK n \in 0..5 : preserved' = [preserved EXCEPT ![c] = n]
        BY <3>2 DEF CreateFails
      <4>2. n \in Nat
        BY <4>1
      <4>. QED  BY <3>2, <4>1, <4>2 DEF TypeInv, TypeOK, CreateFails
    <3>. QED  BY <1>2, <3>1, <3>2
  <2>. HIDE DEF s
  <2>2. TypeOK'
    BY <2>1 DEF TypeInv, TypeOK, counters, Lives
  <2>3. FivePreserved'
    BY <2>1 DEF TypeInv, TypeOK, FivePreserved
  <2>. QED  BY <1>1, <2>2, <2>3 DEF TypeInv
<1>3. CASE Register(c) \/ Unregister(c) \/ DropReference(c)
  BY <1>1, <1>3 DEF TypeInv, TypeOK, FivePreserved, Register, Unregister, DropReference,
     errors, counters
<1>4. CASE Finalize(c)
  <2>1. preserved[c] \in Nat /\ preserved[c] >= 5
    BY <1>4 DEF TypeInv, TypeOK, FivePreserved, Finalize
  <2>2. Released(c) \in {5, 6} /\ (Released(c) = 6 => ~(preserved[c] < 6))
    BY DEF Released, Dangling
  <2>3. preserved[c] - Released(c) \in Nat
    BY <2>1, <2>2
  <2>4. PICK n \in Nat : preserved' = [preserved EXCEPT ![c] = n]
    BY <1>4, <2>3 DEF Finalize
  <2>5. TypeOK'
    BY <1>4, <2>4 DEF TypeInv, TypeOK, Finalize, counters, Lives
  <2>6. FivePreserved'
    BY <1>4, <2>4 DEF TypeInv, TypeOK, FivePreserved, Finalize
  <2>. QED  BY <1>1, <2>5, <2>6 DEF TypeInv
<1>. QED  BY <1>2, <1>3, <1>4 DEF RStep

LEMMA InvokeType ==
  ASSUME TypeInv, NEW c \in Callbacks, Invoke(c)
  PROVE  TypeInv'
<1>. DEFINE f == [cb |-> c, next |-> 0, native |-> 0, why |-> "none",
                  pc   |-> IF disabled[c] THEN "zero" ELSE "marshal",
                  fate |-> IF disabled[c] THEN "refused" ELSE "open"]
<1>1. f \in GoodFrames
  BY ArgCount DEF GoodFrames, GoodFrame, Frame, Steps, Fates, MaybeReason
<1>2. stack' = Append(stack, f)
  BY DEF Invoke
<1>3. stack' \in Seq(GoodFrames) /\ stack' \in Seq(Frame)
  BY <1>1, <1>2, AppendProperties, SeqMonotonic, FrameIsFrame DEF TypeInv
<1>4. /\ invoked' = [invoked EXCEPT ![c] = @ + 1]
      /\ refused' = [refused EXCEPT ![c] = IF disabled[c] THEN @ + 1 ELSE @]
      /\ UNCHANGED <<lifetime, errors, succeeded, errored>>
  BY DEF Invoke
<1>. QED  BY <1>3, <1>4 DEF TypeInv, TypeOK, FivePreserved, lifetime, errors

\* Steps that end or advance a call without an error.
LEMMA AdvanceType ==
  ASSUME TypeInv, FetchArgument \/ StartEval \/ ZeroReturn
  PROVE  TypeInv' /\ SameCall
<1>1. stack # << >>
  BY DEF FetchArgument, StartEval, ZeroReturn, At
<1>2. Top \in GoodFrames /\ Top \in Frame /\ GoodFrame(Top) /\ Top.cb \in Callbacks
  BY <1>1, TopIsFrame DEF GoodFrames
<1>3. NArgs(Top.cb) \in Nat
  BY <1>2, ArgCount
<1>4. SameCall
  <2>1. CASE FetchArgument
    <3>. DEFINE g == Passed(Top)
    <3>1. Top.pc = "marshal" /\ Top.next < NArgs(Top.cb)
      BY <2>1 DEF FetchArgument, At
    <3>2. /\ g \in Frame /\ g.cb = Top.cb /\ g.pc = Top.pc /\ g.fate = Top.fate
          /\ g.native = Top.native + 1 /\ g.next = Top.next + 1
      <4>. DEFINE m == Top.native + 1
                  n == Top.next + 1
      <4>1. m \in Nat /\ n \in Nat /\ Top.pc \in Steps
        BY <1>2 DEF Frame
      <4>2. g = Moved(Top, m, n, Top.pc)
        BY <1>2 DEF Passed, Frame, Moved
      <4>. HIDE DEF m, n, g
      <4>3. /\ g \in Frame /\ g.cb = Top.cb /\ g.pc = Top.pc /\ g.fate = Top.fate
            /\ g.native = m /\ g.next = n
        BY <1>2, <4>1, <4>2, MovedFrame
      <4>. QED  BY <4>3 DEF m, n
    <3>. HIDE DEF g
    <3>3. GoodFrame(g)
      BY <1>2, <1>3, <3>1, <3>2 DEF GoodFrame, Frame
    <3>4. g \in GoodFrames
      BY <3>2, <3>3 DEF GoodFrames
    <3>. QED  BY <2>1, <3>2, <3>4 DEF FetchArgument, SameCall, g
  <2>2. CASE StartEval
    <3>1. [Top EXCEPT !.pc = "eval"] \in GoodFrames
      BY <1>2, <1>3, <2>2 DEF GoodFrames, GoodFrame, Frame, Steps, StartEval, At
    <3>2. [Top EXCEPT !.pc = "eval"].cb = Top.cb
      BY <1>2 DEF Frame
    <3>. QED  BY <2>2, <3>1, <3>2 DEF StartEval, SameCall
  <2>3. CASE ZeroReturn
    <3>. DEFINE U == Undrained(Top)
                stop == IF U = {} THEN NArgs(Top.cb)
                        ELSE CHOOSE i \in U : \A j \in U : i <= j
    <3>1. stop \in Nat /\ Top.next <= stop /\ stop <= NArgs(Top.cb)
      <4>1. CASE U = {}
        BY <1>2, <1>3, <4>1 DEF GoodFrame, Frame
      <4>2. CASE U # {}
        <5>1. U \subseteq Nat
          BY <1>2, <1>3 DEF Undrained, Frame
        <5>2. \E i \in U : \A j \in U : i <= j
          BY <4>2, <5>1, LeastExists
        <5>3. stop \in U
          BY <4>2, <5>2
        <5>. QED  BY <1>2, <1>3, <5>3 DEF Undrained, Frame
      <4>. QED  BY <4>1, <4>2
    <3>2. WellFormed(Top.cb) => stop = NArgs(Top.cb)
      <4>1. WellFormed(Top.cb) => U = {}
        BY <1>2, <1>3 DEF WellFormed, Undrained, Frame
      <4>. QED  BY <4>1
    <3>. HIDE DEF stop
    <3>3. Drained(Top) = [Top EXCEPT !.native = @ + (stop - Top.next), !.next = stop]
      BY DEF stop, Drained
    <3>4. /\ [Drained(Top) EXCEPT !.pc = "leaving"] \in GoodFrames
          /\ [Drained(Top) EXCEPT !.pc = "leaving"].cb = Top.cb
      <4>. DEFINE g == [Drained(Top) EXCEPT !.pc = "leaving"]
      <4>1. /\ g \in Frame /\ g.cb = Top.cb /\ g.pc = "leaving" /\ g.fate = Top.fate
            /\ g.native = Top.native + (stop - Top.next) /\ g.next = stop
        <5>. DEFINE m == Top.native + (stop - Top.next)
        <5>1. m \in Nat /\ "leaving" \in Steps
          BY <1>2, <3>1 DEF Frame, GoodFrame, Steps
        <5>2. g = Moved(Top, m, stop, "leaving")
          BY <3>3 DEF Moved
        <5>. HIDE DEF m, g
        <5>3. /\ g \in Frame /\ g.cb = Top.cb /\ g.pc = "leaving" /\ g.fate = Top.fate
              /\ g.native = m /\ g.next = stop
          BY <1>2, <3>1, <5>1, <5>2, MovedFrame
        <5>. QED  BY <5>3 DEF m
      <4>2. Top.pc = "zero"
        BY <2>3 DEF ZeroReturn, At
      <4>. HIDE DEF g
      <4>3. GoodFrame(g)
        BY <1>2, <1>3, <3>1, <3>2, <4>1, <4>2 DEF GoodFrame, Frame
      <4>4. g \in GoodFrames
        BY <4>1, <4>3 DEF GoodFrames
      <4>. QED  BY <4>1, <4>4 DEF g
    <3>5. Ret[Top.cb] # "aggr" => [Top EXCEPT !.pc = "leaving"] \in GoodFrames
      BY <1>2, <1>3, <2>3 DEF GoodFrames, GoodFrame, Frame, Steps, ZeroReturn, At
    <3>6. [Top EXCEPT !.pc = "leaving"].cb = Top.cb
      BY <1>2 DEF Frame
    <3>7. CASE Ret[Top.cb] = "aggr"
      <4>1. SetTop([Drained(Top) EXCEPT !.pc = "leaving"])
        BY <2>3, <3>7 DEF ZeroReturn
      <4>. QED  BY <3>4, <4>1 DEF SameCall
    <3>8. CASE Ret[Top.cb] # "aggr"
      <4>1. SetTop([Top EXCEPT !.pc = "leaving"])
        BY <2>3, <3>8 DEF ZeroReturn
      <4>. QED  BY <3>5, <3>6, <3>8, <4>1 DEF SameCall
    <3>. QED  BY <3>7, <3>8
  <2>. QED  BY <2>1, <2>2, <2>3
<1>5. stack' \in Seq(GoodFrames) /\ stack' \in Seq(Frame)
  BY <1>1, <1>4, SetTopType DEF SameCall
<1>6. UNCHANGED <<lifetime, errors, counters>>
  BY DEF FetchArgument, StartEval, ZeroReturn
<1>. QED  BY <1>4, <1>5, <1>6 DEF TypeInv, TypeOK, FivePreserved, lifetime, errors, counters

\* Steps in which the call fails through C_callback_disable_error.
LEMMA FailType ==
  ASSUME TypeInv,
         \/ FetchUnsupported \/ FetchInvalid \/ ReturnMismatch \/ EvalFailed \/ EvalAborted
         \/ At("eval") /\ DisableError(Top, "unsupported_return")
  PROVE  TypeInv' /\ SameCall
<1>1. stack # << >>
  BY DEF FetchUnsupported, FetchInvalid, ReturnMismatch, EvalFailed, EvalAborted, At
<1>2. Top \in Frame /\ GoodFrame(Top) /\ Top.cb \in Callbacks
  BY <1>1, TopIsFrame DEF GoodFrames
<1>3. Top.native = Top.next /\ Top.next <= NArgs(Top.cb)
  BY <1>2 DEF GoodFrame
<1>4. ASSUME NEW why \in Reasons, DisableError(Top, why)
      PROVE  TypeInv' /\ SameCall
  BY <1>1, <1>2, <1>3, <1>4, DisableErrorType
<1>5. CASE FetchUnsupported
  <2>. DEFINE m == Top.native + 1
              n == Top.next + 1
              g == Passed(Top)
  <2>1. m \in Nat /\ n \in Nat /\ Top.pc \in Steps /\ n <= NArgs(Top.cb) /\ m = n
    <3>1. Top.next < NArgs(Top.cb)
      BY <1>5 DEF FetchUnsupported
    <3>2. NArgs(Top.cb) \in Nat /\ Top.next \in Nat /\ Top.pc \in Steps
      BY <1>2, ArgCount DEF Frame
    <3>. QED  BY <1>3, <3>1, <3>2
  <2>2. g = Moved(Top, m, n, Top.pc)
    BY <1>2 DEF Passed, Frame, Moved
  <2>. HIDE DEF m, n, g
  <2>3. g \in Frame /\ g.cb = Top.cb /\ g.native = g.next /\ g.next <= NArgs(g.cb)
    BY <1>2, <2>1, <2>2, MovedFrame
  <2>4. "unsupported_argument" \in Reasons /\ DisableError(g, "unsupported_argument")
    BY <1>5 DEF FetchUnsupported, Reasons, g
  <2>. QED  BY <1>1, <2>3, <2>4, DisableErrorType
<1>6. CASE ~FetchUnsupported
  BY <1>4, <1>6 DEF FetchInvalid, ReturnMismatch, EvalFailed, EvalAborted, Reasons
<1>. QED  BY <1>5, <1>6

\* Steps that settle a call, record its error, or leave it.
Success(c) ==
  /\ succeeded' = [succeeded EXCEPT ![c] = @ + 1]
  /\ SetTop([Top EXCEPT !.pc = "leaving", !.fate = "ok"])
  /\ UNCHANGED <<lifetime, errors, invoked, errored, refused>>

LEMMA SuccessType ==
  ASSUME TypeInv, At("eval"), Success(Top.cb)
  PROVE  TypeInv' /\ SameCall
<1>1. Top \in Frame /\ GoodFrame(Top) /\ Top.cb \in Callbacks /\ stack # << >> /\ Top.pc = "eval"
  BY TopIsFrame DEF GoodFrames, At
<1>2. /\ [Top EXCEPT !.pc = "leaving", !.fate = "ok"] \in GoodFrames
      /\ [Top EXCEPT !.pc = "leaving", !.fate = "ok"].cb = Top.cb
  BY <1>1 DEF GoodFrames, GoodFrame, Frame, Steps, Fates
<1>3. stack' \in Seq(GoodFrames) /\ stack' \in Seq(Frame)
  BY <1>1, <1>2, SetTopType DEF Success
<1>8. SameCall
  BY <1>2 DEF Success, SameCall
<1>. DEFINE c == Top.cb
<1>4. /\ succeeded' = [succeeded EXCEPT ![c] = @ + 1]
      /\ UNCHANGED <<lifetime, errors, invoked, errored, refused>>
  BY DEF Success
<1>5. c \in Callbacks
  BY <1>1
<1>. HIDE DEF c
<1>6. TypeOK'
  BY <1>3, <1>4, <1>5 DEF TypeInv, TypeOK, lifetime, errors
<1>7. FivePreserved'
  BY <1>4 DEF TypeInv, FivePreserved, lifetime, errors
<1>. QED  BY <1>3, <1>6, <1>7, <1>8 DEF TypeInv

\* The wrapper records a condition and throws it again.
LEMMA ThrowType ==
  ASSUME TypeInv, EvalError
  PROVE  TypeInv' /\ SameCall
<1>1. /\ Top \in Frame /\ GoodFrame(Top) /\ Top.cb \in Callbacks /\ stack # << >>
      /\ Top.pc = "eval"
  BY TopIsFrame DEF GoodFrames, EvalError, At
<1>2. /\ [Top EXCEPT !.pc = "thrown"] \in GoodFrames
      /\ [Top EXCEPT !.pc = "thrown"].cb = Top.cb
  BY <1>1 DEF GoodFrames, GoodFrame, Frame, Steps
<1>3. stack' \in Seq(GoodFrames) /\ stack' \in Seq(Frame) /\ SameCall
  BY <1>1, <1>2, SetTopType DEF EvalError, SameCall
<1>4. PICK e \in MaybeReason : rError' = [rError EXCEPT ![Top.cb] = e]
  BY DEF EvalError, MaybeReason, Reasons
<1>5. UNCHANGED <<lifetime, disabled, reason, cError, preserved, counters>>
  BY DEF EvalError
<1>6. TypeOK'
  BY <1>3, <1>4, <1>5 DEF TypeInv, TypeOK, lifetime, counters
<1>7. FivePreserved'
  BY <1>5 DEF TypeInv, FivePreserved, lifetime
<1>. QED  BY <1>3, <1>6, <1>7 DEF TypeInv

LEMMA RecordType ==
  ASSUME TypeInv, RecordError \/ PreserveRecord
  PROVE  TypeInv' /\ SameCall
<1>1. /\ Top \in Frame /\ GoodFrame(Top) /\ Top.cb \in Callbacks /\ stack # << >>
      /\ Top.pc \in {"record", "stored"} /\ live[Top.cb] = "live" /\ Top.why \in Reasons
  BY TopIsFrame DEF GoodFrames, GoodFrame, RecordError, PreserveRecord, At
<1>2. PICK p \in {"stored", "zero"} : SetTop([Top EXCEPT !.pc = p])
  BY DEF RecordError, PreserveRecord
<1>3. /\ [Top EXCEPT !.pc = p] \in GoodFrames
      /\ [Top EXCEPT !.pc = p].cb = Top.cb
  BY <1>1 DEF GoodFrames, GoodFrame, Frame, Steps
<1>4. stack' \in Seq(GoodFrames) /\ stack' \in Seq(Frame) /\ SameCall
  BY <1>1, <1>2, <1>3, SetTopType DEF SameCall
<1>5. PICK c \in Callbacks : c = Top.cb
  BY <1>1
<1>6. preserved[c] \in Nat /\ preserved[c] >= 5
  BY <1>1, <1>5 DEF TypeInv, TypeOK, FivePreserved
<1>7. PICK n \in Nat : n >= 5 /\ preserved' = [preserved EXCEPT ![c] = n]
  <2>1. CASE RecordError
    <3>1. 5 \in Nat /\ 5 >= 5
      OBVIOUS
    <3>. QED  BY <1>5, <2>1, <3>1, Zenon DEF RecordError
  <2>2. CASE PreserveRecord
    <3>1. preserved[c] + 1 \in Nat /\ preserved[c] + 1 >= 5
      BY <1>6
    <3>. QED  BY <1>5, <2>2, <3>1 DEF PreserveRecord
  <2>. QED  BY <2>1, <2>2
<1>8. PICK e \in MaybeReason : cError' = [cError EXCEPT ![c] = e]
  <2>1. CASE RecordError
    BY <1>1, <1>5, <2>1 DEF RecordError, MaybeReason
  <2>2. CASE PreserveRecord
    BY <1>5, <2>2 DEF PreserveRecord, TypeInv, TypeOK
  <2>. QED  BY <2>1, <2>2
<1>9. UNCHANGED <<lifetime, disabled, reason, rError, counters>>
  BY DEF RecordError, PreserveRecord
<1>10. TypeOK'
  BY <1>4, <1>7, <1>8, <1>9 DEF TypeInv, TypeOK, lifetime, counters
<1>11. FivePreserved'
  BY <1>7, <1>9 DEF TypeInv, TypeOK, FivePreserved, lifetime
<1>. QED  BY <1>4, <1>10, <1>11 DEF TypeInv

LEMMA BoundaryType ==
  ASSUME TypeInv, BoundaryExit
  PROVE  TypeInv' /\ SameCall
<1>1. /\ Top \in Frame /\ GoodFrame(Top) /\ Top.cb \in Callbacks /\ stack # << >>
  BY TopIsFrame DEF GoodFrames, BoundaryExit, BoundaryPoint, At
<1>. DEFINE c == Top.cb
            fate == IF Top.fate = "failed" \/ ~disabled[c] THEN "failed" ELSE "lost"
<1>2. /\ [Top EXCEPT !.pc = "zero", !.fate = fate] \in GoodFrames
      /\ [Top EXCEPT !.pc = "zero", !.fate = fate].cb = Top.cb
  BY <1>1 DEF GoodFrames, GoodFrame, Frame, Steps, Fates
<1>3. stack' \in Seq(GoodFrames) /\ stack' \in Seq(Frame)
  BY <1>1, <1>2, SetTopType DEF BoundaryExit
<1>8. SameCall
  BY <1>2 DEF BoundaryExit, SameCall
<1>4. /\ disabled' = [disabled EXCEPT ![c] = TRUE]
      /\ reason' = [reason EXCEPT ![c] = IF disabled[c] THEN @ ELSE "boundary_error"]
      /\ errored' = [errored EXCEPT ![c] = IF disabled[c] THEN @ ELSE @ + 1]
      /\ UNCHANGED <<lifetime, cError, rError, preserved, invoked, succeeded, refused>>
  BY DEF BoundaryExit
<1>5. c \in Callbacks
  BY <1>1
<1>. HIDE DEF c
<1>6. TypeOK'
  BY <1>3, <1>4, <1>5 DEF TypeInv, TypeOK, MaybeReason, Reasons, lifetime
<1>7. FivePreserved'
  BY <1>4 DEF TypeInv, FivePreserved, lifetime
<1>. QED  BY <1>3, <1>6, <1>7, <1>8 DEF TypeInv

LEMMA LeaveType ==
  ASSUME TypeInv, Leave
  PROVE  TypeInv'
<1>1. stack # << >> /\ stack' = SubSeq(stack, 1, Len(stack) - 1)
  BY DEF Leave, At, Depth
<1>2. stack' \in Seq(GoodFrames) /\ stack' \in Seq(Frame)
  BY <1>1, TopPopped, SeqMonotonic, FrameIsFrame DEF TypeInv
<1>. QED  BY <1>2 DEF Leave, TypeInv, TypeOK, FivePreserved, lifetime, errors, counters

LEMMA NextType == TypeInv /\ [Next]_vars => TypeInv'
<1>. SUFFICES ASSUME TypeInv, [Next]_vars PROVE TypeInv'
  OBVIOUS
<1>1. CASE \E c \in Callbacks : RStep(c) \/ Invoke(c)
  BY <1>1, RStepType, InvokeType
<1>2. CASE HandlerStep
  <2>1. CASE FetchArgument \/ StartEval \/ ZeroReturn
    BY <2>1, AdvanceType
  <2>2. CASE FetchUnsupported \/ FetchInvalid \/ ReturnMismatch \/ EvalFailed \/ EvalAborted
    BY <2>2, FailType
  <2>3. CASE ReturnValue
    BY <2>3, SuccessType DEF ReturnValue, Success
  <2>4. CASE ReturnString
    <3>1. \/ At("eval") /\ Success(Top.cb)
          \/ At("eval") /\ DisableError(Top, "unsupported_return")
      BY <2>4 DEF ReturnString, Success
    <3>. QED  BY <3>1, SuccessType, FailType
  <2>5. CASE EvalError \/ RecordError \/ PreserveRecord
    BY <2>5, ThrowType, RecordType
  <2>6. CASE BoundaryExit
    BY <2>6, BoundaryType
  <2>7. CASE Leave
    BY <2>7, LeaveType
  <2>. QED  BY <1>2, <2>1, <2>2, <2>3, <2>4, <2>5, <2>6, <2>7 DEF HandlerStep
<1>3. CASE UNCHANGED vars
  BY <1>3 DEF vars, TypeInv, TypeOK, FivePreserved, lifetime, errors, counters
<1>. QED  BY <1>1, <1>2, <1>3 DEF Next

LEMMA InitType == Init => TypeInv
BY EmptySeq DEF Init, TypeInv, TypeOK, FivePreserved, Lives, MaybeReason

\* The inductive invariant behind the theorems below.
THEOREM TypeInvariance == Spec => []TypeInv
BY InitType, NextType, PTL DEF Spec

\* The frames of the calls in progress and the R_Callback records are well
\* typed whatever foreign code and R code do to each other.
THEOREM TypeCorrect == Spec => []TypeOK
<1>1. TypeInv => TypeOK
  BY DEF TypeInv
<1>. QED  BY <1>1, TypeInvariance, PTL

LEMMA FramesAligned == TypeInv => FramesGood /\ DescriptorAligned
<1>. SUFFICES ASSUME TypeInv PROVE FramesGood /\ DescriptorAligned
  OBVIOUS
<1>1. \A i \in 1..Depth : stack[i] \in Frame /\ GoodFrame(stack[i])
  BY ElementOfSeq DEF TypeInv, GoodFrames, Depth
<1>2. FramesGood
  BY <1>1 DEF FramesGood
<1>3. ASSUME NEW i \in 1..Depth, NEW f, f = stack[i], f.pc = "leaving",
             Ret[f.cb] = "aggr", WellFormed(f.cb)
      PROVE  f.native = NArgs(f.cb)
  BY <1>1, <1>3 DEF GoodFrame
<1>. QED  BY <1>2, <1>3 DEF DescriptorAligned

\* However early a call fails, C_callback_zero_return reaches the return
\* descriptor with the native cursor behind the last argument: frames keep
\* next_argument and the cursor together, the drain closes the rest.
THEOREM ZeroReturnAligned == Spec => []DescriptorAligned
<1>1. TypeInv => DescriptorAligned
  BY FramesAligned
<1>. QED  BY <1>1, TypeInvariance, PTL

-----------------------------------------------------------------------------
(* Lifetime.                                                               *)

\* A registered pointer is kept reachable by R and so, under HoldThroughCall,
\* is the pointer of a call in progress; what is reachable is not finalized.
HoldInv ==
  /\ \A c \in Callbacks : registered[c] => held[c]
  /\ \A c \in Callbacks : held[c] => live[c] = "live"

RunningHeld == \A i \in 1..Depth : held[stack[i].cb]

LEMMA HoldStep ==
  ASSUME TypeInv, HoldInv, [Next]_vars
  PROVE  HoldInv'
<1>1. CASE UNCHANGED lifetime
  BY <1>1 DEF HoldInv, lifetime
<1>2. CASE \E c \in Callbacks : RStep(c)
  <2>1. PICK c \in Callbacks : RStep(c)
    BY <1>2
  <2>2. CASE Create(c)
    BY <2>2 DEF Create, HoldInv, TypeInv, TypeOK
  <2>3. CASE CreateFails(c)
    BY <2>3 DEF CreateFails, HoldInv, TypeInv, TypeOK
  <2>4. CASE Register(c) \/ Unregister(c)
    BY <2>4 DEF Register, Unregister, HoldInv, TypeInv, TypeOK
  <2>5. CASE DropReference(c)
    BY <2>5 DEF DropReference, HoldInv, TypeInv, TypeOK
  <2>6. CASE Finalize(c)
    BY <2>6 DEF Finalize, HoldInv, TypeInv, TypeOK
  <2>. QED  BY <2>1, <2>2, <2>3, <2>4, <2>5, <2>6 DEF RStep
<1>3. (\E c \in Callbacks : Invoke(c)) \/ HandlerStep => UNCHANGED lifetime
  BY DEF Invoke, HandlerStep, FetchArgument, FetchUnsupported, FetchInvalid, StartEval,
     ReturnValue, ReturnString, ReturnMismatch, EvalError, EvalFailed, EvalAborted, RecordError, PreserveRecord,
     BoundaryExit, ZeroReturn, Leave, DisableError
<1>. QED  BY <1>1, <1>2, <1>3 DEF Next, vars

\* Setting the top frame changes no other.
LEMMA SetTopShape ==
  ASSUME TypeInv, stack # << >>, NEW g, SetTop(g)
  PROVE  /\ Len(stack') = Len(stack) /\ stack'[Depth] = g
         /\ \A i \in 1..Depth : i # Depth => stack'[i] = stack[i]
<1>. DEFINE S == Frame \cup {g}
<1>1. stack \in Seq(S) /\ g \in S
  BY SeqMonotonic DEF TypeInv, TypeOK
<1>. HIDE DEF S
<1>. QED  BY <1>1, TopReplaced DEF SetTop, Depth

LEMMA SameCallback ==
  ASSUME TypeInv, HandlerStep, ~Leave
  PROVE  stack # << >> /\ SameCall
<1>1. stack # << >>
  BY DEF HandlerStep, FetchArgument, FetchUnsupported, FetchInvalid, StartEval,
     ReturnValue, ReturnString, ReturnMismatch, EvalError, EvalFailed, EvalAborted, RecordError, PreserveRecord,
     BoundaryExit, BoundaryPoint, ZeroReturn, At
<1>. SUFFICES SameCall
  BY <1>1
<1>2. CASE FetchArgument \/ StartEval \/ ZeroReturn
  BY <1>2, AdvanceType
<1>3. CASE FetchUnsupported \/ FetchInvalid \/ ReturnMismatch \/ EvalFailed \/ EvalAborted
  BY <1>3, FailType
<1>4. CASE ReturnValue
  BY <1>4, SuccessType DEF ReturnValue, Success
<1>5. CASE ReturnString
  <2>1. \/ At("eval") /\ Success(Top.cb)
        \/ At("eval") /\ DisableError(Top, "unsupported_return")
    BY <1>5 DEF ReturnString, Success
  <2>. QED  BY <2>1, SuccessType, FailType
<1>6. CASE EvalError \/ RecordError \/ PreserveRecord \/ BoundaryExit
  BY <1>6, ThrowType, RecordType, BoundaryType
<1>. QED  BY <1>2, <1>3, <1>4, <1>5, <1>6 DEF HandlerStep

LEMMA RunningStep ==
  ASSUME TypeInv, HoldInv, RunningHeld, HoldThroughCall, [Next]_vars
  PROVE  RunningHeld'
<1>1. CASE \E c \in Callbacks : RStep(c)
  <2>1. PICK c \in Callbacks : RStep(c)
    BY <1>1
  <2>2. UNCHANGED stack
    BY <2>1 DEF RStep, Create, CreateFails, Register, Unregister, DropReference, Finalize
  <2>3. \A i \in 1..Depth : stack[i].cb \in Callbacks
    BY FrameAt
  <2>4. \A i \in 1..Depth : held'[stack[i].cb]
    <3>1. CASE DropReference(c)
      <4>1. \A i \in 1..Depth : stack[i].cb # c
        BY <3>1 DEF DropReference, Running
      <4>. QED  BY <2>3, <3>1, <4>1 DEF DropReference, RunningHeld, TypeInv, TypeOK
    <3>2. CASE ~DropReference(c)
      BY <2>1, <2>3, <3>2 DEF RStep, Create, CreateFails, Register, Unregister, Finalize,
         RunningHeld, TypeInv, TypeOK
    <3>. QED  BY <3>1, <3>2
  <2>. QED  BY <2>2, <2>4 DEF RunningHeld, Depth
<1>2. CASE \E c \in Callbacks : Invoke(c)
  <2>1. PICK c \in Callbacks : Invoke(c)
    BY <1>2
  <2>2. \E f : f.cb = c /\ stack' = Append(stack, f)
    BY <2>1 DEF Invoke
  <2>3. held[c] /\ UNCHANGED held
    BY <2>1 DEF Invoke, HoldInv, lifetime
  <2>4. PICK f : f.cb = c /\ stack' = Append(stack, f)
    BY <2>2
  <2>. DEFINE S == Frame \cup {f}
  <2>5. stack \in Seq(S) /\ f \in S
    BY SeqMonotonic DEF TypeInv, TypeOK
  <2>. HIDE DEF S
  <2>6. /\ Len(stack') = Len(stack) + 1 /\ stack'[Len(stack) + 1] = f
        /\ \A i \in 1..Len(stack) : stack'[i] = stack[i]
    BY <2>4, <2>5, AppendProperties
  <2>. QED  BY <2>3, <2>4, <2>5, <2>6, LenProperties DEF RunningHeld, Depth
<1>3. CASE HandlerStep
  <2>1. UNCHANGED held
    BY <1>3 DEF HandlerStep, FetchArgument, FetchUnsupported, FetchInvalid, StartEval,
       ReturnValue, ReturnString, ReturnMismatch, EvalError, EvalFailed, EvalAborted, RecordError, PreserveRecord,
       BoundaryExit, ZeroReturn, Leave, DisableError, lifetime
  <2>2. CASE Leave
    <3>1. stack # << >> /\ stack' = SubSeq(stack, 1, Len(stack) - 1)
      BY <2>2 DEF Leave, At, Depth
    <3>2. /\ Len(stack') = Len(stack) - 1 /\ Len(stack) \in Nat
          /\ \A i \in 1..Len(stack') : stack'[i] = stack[i]
      BY <3>1, TopPopped, LenProperties DEF TypeInv
    <3>. QED  BY <2>1, <3>2 DEF RunningHeld, Depth
  <2>3. CASE ~Leave
    <3>1. stack # << >> /\ SameCall
      BY <1>3, <2>3, SameCallback
    <3>2. PICK g \in GoodFrames : g.cb = Top.cb /\ SetTop(g)
      BY <3>1 DEF SameCall
    <3>3. /\ Len(stack') = Len(stack) /\ stack'[Depth] = g
          /\ \A i \in 1..Depth : i # Depth => stack'[i] = stack[i]
      BY <3>1, <3>2, SetTopShape
    <3>. QED  BY <2>1, <3>2, <3>3 DEF RunningHeld, Depth, Top
  <2>. QED  BY <2>2, <2>3
<1>4. CASE UNCHANGED vars
  BY <1>4 DEF vars, lifetime, RunningHeld, Depth
<1>. QED  BY <1>1, <1>2, <1>3, <1>4 DEF Next

LEMMA MemoryFromHold ==
  TypeInv /\ HoldInv /\ RunningHeld => MemorySafe
<1>. SUFFICES ASSUME TypeInv, HoldInv, RunningHeld PROVE MemorySafe
  OBVIOUS
<1>1. \A i \in 1..Depth : stack[i].cb \in Callbacks
  BY FrameAt
<1>. QED  BY <1>1 DEF HoldInv, RunningHeld, MemorySafe, NoStaleFrame, NoDanglingRegistration

LEMMA InitHold == Init => HoldInv /\ RunningHeld
BY EmptySeq DEF Init, HoldInv, RunningHeld, Depth

\* If R keeps the callback object until foreign code has forgotten the pointer
\* and the calls in progress have returned, R_callback_finalizer never pulls a
\* record or a thunk from under a call, however calls and collections nest.
THEOREM HeldIsSafe == HoldThroughCall => (Spec => []MemorySafe)
<1>. SUFFICES ASSUME HoldThroughCall PROVE Spec => []MemorySafe
  OBVIOUS
<1>. DEFINE Inv == TypeInv /\ HoldInv /\ RunningHeld
<1>1. Init => Inv
  BY InitType, InitHold
<1>2. Inv /\ [Next]_vars => Inv'
  BY NextType, HoldStep, RunningStep
<1>3. Inv => MemorySafe
  BY MemoryFromHold
<1>. QED  BY <1>1, <1>2, <1>3, PTL DEF Spec

\* The documented rule alone does protect what foreign code holds.
THEOREM RegisteredIsLive == Spec => []NoDanglingRegistration
<1>. DEFINE Inv == TypeInv /\ HoldInv
<1>1. Init => Inv
  BY InitType, InitHold
<1>2. Inv /\ [Next]_vars => Inv'
  BY NextType, HoldStep
<1>3. Inv => NoDanglingRegistration
  BY DEF HoldInv, NoDanglingRegistration
<1>. QED  BY <1>1, <1>2, <1>3, PTL DEF Spec

-----------------------------------------------------------------------------
(* What R and foreign code learn of a call.                                *)

\* What a failure leaves behind on its callback: before the first one is
\* counted only a call that has just thrown may have left a record ...
Diagnosed(c) ==
  /\ disabled[c] <=> reason[c] # "none"
  /\ disabled[c] => errored[c] >= 1
  /\ ~disabled[c] => errored[c] = 0 /\ cError[c] = "none"
  /\ ~disabled[c] /\ rError[c] # "none" => Thrown(c) # {}
  /\ rError[c] \in {"none", "r_error", "r_interrupt"}
  /\ errored[c] = 1 /\ Thrown(c) = {} /\ LastError(c) # "none" => LastError(c) = reason[c]

\* ... and what a call that still has to store its record carries with it.
Recording(f) == f.pc \in {"record", "stored"}
Pending(f) ==
  Recording(f) => disabled[f.cb] /\ (errored[f.cb] = 1 => f.why = reason[f.cb])

AllDiagnosed == \A c \in Callbacks : Diagnosed(c)
AllPending   == \A i \in 1..Depth : Pending(stack[i])
ReasonInv    == AllDiagnosed /\ AllPending

\* Which calls have thrown changes with the top frame only.
LEMMA ThrownMoves ==
  ASSUME TypeInv, stack # << >>, NEW g \in GoodFrames, g.cb = Top.cb, SetTop(g)
  PROVE  /\ \A c \in Callbacks : c # Top.cb => Thrown(c)' = Thrown(c)
         /\ Top.pc # "thrown" /\ g.pc # "thrown"
              => \A c \in Callbacks : Thrown(c)' = Thrown(c)
         /\ g.pc = "thrown" => Thrown(Top.cb)' # {}
<1>1. /\ stack'[Depth] = g /\ Depth' = Depth /\ Top = stack[Depth] /\ Depth \in 1..Depth
      /\ \A i \in 1..Depth : i # Depth => stack'[i] = stack[i]
  BY SetTopShape, TopIsFrame DEF Depth, Top
<1>2. ASSUME NEW c \in Callbacks, c # Top.cb PROVE Thrown(c)' = Thrown(c)
  BY <1>1, <1>2 DEF Thrown
<1>3. ASSUME NEW c \in Callbacks, Top.pc # "thrown", g.pc # "thrown"
      PROVE  Thrown(c)' = Thrown(c)
  BY <1>1, <1>3 DEF Thrown
<1>4. ASSUME g.pc = "thrown" PROVE Thrown(Top.cb)' # {}
  <2>1. PICK c \in Callbacks : c = Top.cb
    BY TopIsFrame
  <2>2. Top.cb' = g.cb
    BY <1>1 DEF Top
  <2>3. Depth \in {i \in 1..Depth' : stack'[i].cb = c /\ stack'[i].pc = "thrown"}
    BY <1>1, <1>4, <2>1
  <2>. QED  BY <2>1, <2>2, <2>3 DEF Thrown
<1>. QED  BY <1>2, <1>3, <1>4

\* The diagnostics a step may touch are those of one callback, and they get
\* no worse: it is then enough to look at that callback and at the top frame.
Others(c) ==
  \A d \in Callbacks \ {c} :
    /\ disabled'[d] = disabled[d] /\ reason'[d] = reason[d] /\ errored'[d] = errored[d]
    /\ cError'[d] = cError[d] /\ rError'[d] = rError[d]

KeepsPending(c) ==
  /\ disabled[c] => disabled'[c]
  /\ (errored'[c] = errored[c] /\ reason'[c] = reason[c]) \/ errored'[c] # 1 \/ ~disabled[c]

LEMMA TopStep ==
  ASSUME TypeInv, ReasonInv, stack # << >>, NEW c \in Callbacks, c = Top.cb,
         NEW g \in GoodFrames, g.cb = c, SetTop(g),
         Others(c), KeepsPending(c), Diagnosed(c)', Pending(g)'
  PROVE  ReasonInv'
<1>1. /\ Len(stack') = Len(stack) /\ stack'[Depth] = g /\ Depth' = Depth
      /\ \A i \in 1..Depth : i # Depth => stack'[i] = stack[i]
  BY SetTopShape DEF Depth
<1>2. ASSUME NEW i \in 1..Depth, NEW f, f = stack[i], Pending(f), f.cb \in Callbacks
      PROVE  Pending(f)'
  <2>1. CASE f.cb = c
    BY <1>2, <2>1 DEF Pending, Recording, KeepsPending, ReasonInv, AllDiagnosed, Diagnosed
  <2>2. CASE f.cb # c
    BY <1>2, <2>2 DEF Pending, Recording, Others
  <2>. QED  BY <2>1, <2>2
<1>3. \A i \in 1..Depth : Pending(stack[i]) /\ stack[i].cb \in Callbacks
  BY FrameAt DEF ReasonInv, AllPending
<1>4. ASSUME NEW i \in 1..Depth, NEW f, f = stack'[i] PROVE Pending(f)'
  <2>1. i = Depth => f = g
    BY <1>1, <1>4
  <2>2. i # Depth => f = stack[i]
    BY <1>1, <1>4
  <2>. QED  BY <1>2, <1>3, <2>1, <2>2
<1>5. AllPending'
  BY <1>1, <1>4 DEF AllPending
<1>6. ASSUME NEW d \in Callbacks PROVE Diagnosed(d)'
  <2>1. CASE d # c
    <3>1. Thrown(d)' = Thrown(d)
      BY <2>1, ThrownMoves
    <3>. QED  BY <2>1, <3>1 DEF ReasonInv, AllDiagnosed, Diagnosed, LastError, Others
  <2>. QED  BY <2>1
<1>7. AllDiagnosed'
  BY <1>6 DEF AllDiagnosed
<1>. QED  BY <1>5, <1>7 DEF ReasonInv

\* C_callback_disable_error: the first failure of a callback and every later one.
LEMMA DisableReason ==
  ASSUME TypeInv, ReasonInv, stack # << >>, NEW f \in Frame, f.cb = Top.cb,
         f.native = f.next, f.next <= NArgs(f.cb), NEW why \in Reasons,
         why = "r_error" \/ Top.pc # "thrown", DisableError(f, why)
  PROVE  ReasonInv'
<1>1. PICK c \in Callbacks : c = Top.cb
  BY DEF Frame
<1>2. PICK r \in Reasons, g \in GoodFrames :
        /\ r \in Classified(c, why)
        /\ g.cb = c /\ g.why = r /\ g.pc \in {"record", "zero"} /\ SetTop(g)
        /\ errored' = [errored EXCEPT ![c] = @ + 1]
        /\ disabled' = [disabled EXCEPT ![c] = TRUE]
        /\ reason' = [reason EXCEPT ![c] = r]
        /\ UNCHANGED <<cError, rError, preserved>>
  BY <1>1, DisableShape
<1>3. /\ errored'[c] = errored[c] + 1 /\ disabled'[c] /\ reason'[c] = r /\ r # "none"
      /\ cError'[c] = cError[c] /\ rError'[c] = rError[c] /\ errored[c] \in Nat
  BY <1>2 DEF TypeInv, TypeOK, Reasons
<1>4. Others(c)
  BY <1>2 DEF Others, TypeInv, TypeOK
<1>5. Diagnosed(c)
  BY DEF ReasonInv, AllDiagnosed
<1>6. KeepsPending(c)
  BY <1>3, <1>5 DEF KeepsPending, Diagnosed
<1>7. LastError(c)' = LastError(c)
  BY <1>3 DEF LastError
<1>8. Diagnosed(c)'
  <2>1. CASE disabled[c]
    BY <1>3, <1>5, <2>1 DEF Diagnosed
  <2>2. CASE ~disabled[c]
    <3>1. cError[c] = "none" /\ LastError(c) = rError[c] /\ ~Dangling(c)
      BY <1>5, <2>2 DEF Diagnosed, LastError, Dangling
    <3>2. ASSUME Thrown(c)' = {}, rError[c] # "none" PROVE rError[c] = r
      <4>1. CASE why = "r_error"
        <5>1. rError[c] \in {"r_error", "r_interrupt"}
          BY <1>5, <3>2 DEF Diagnosed
        <5>. QED  BY <1>2, <3>1, <4>1, <5>1 DEF Classified
      <4>2. CASE Top.pc # "thrown"
        <5>1. Thrown(c)' = Thrown(c)
          BY <1>1, <1>2, <4>2, ThrownMoves
        <5>. QED  BY <1>5, <2>2, <3>2, <5>1 DEF Diagnosed
      <4>. QED  BY <4>1, <4>2
    <3>. QED  BY <1>3, <1>5, <1>7, <3>1, <3>2 DEF Diagnosed
  <2>. QED  BY <2>1, <2>2
<1>9. Pending(g)'
  BY <1>2, <1>3 DEF Pending, Recording
<1>. QED  BY <1>1, <1>2, <1>4, <1>6, <1>8, <1>9, TopStep

\* An aggregate the backend cannot deliver has been passed when the call fails.
LEMMA UnsupportedFrame ==
  ASSUME TypeInv, FetchUnsupported
  PROVE  \E g \in Frame : /\ g.cb = Top.cb /\ g.native = g.next /\ g.next <= NArgs(g.cb)
                          /\ DisableError(g, "unsupported_argument")
<1>1. Top \in Frame /\ GoodFrame(Top) /\ Top.cb \in Callbacks
  BY TopIsFrame DEF GoodFrames, FetchUnsupported, At
<1>. DEFINE m == Top.native + 1
            n == Top.next + 1
            g == Passed(Top)
<1>2. m \in Nat /\ n \in Nat /\ Top.pc \in Steps /\ n <= NArgs(Top.cb) /\ m = n
  <2>1. Top.next < NArgs(Top.cb) /\ Top.native = Top.next
    BY <1>1 DEF FetchUnsupported, GoodFrame
  <2>2. NArgs(Top.cb) \in Nat /\ Top.next \in Nat /\ Top.pc \in Steps
    BY <1>1, ArgCount DEF Frame
  <2>. QED  BY <2>1, <2>2
<1>3. g = Moved(Top, m, n, Top.pc)
  BY <1>1 DEF Passed, Frame, Moved
<1>. HIDE DEF m, n, g
<1>4. g \in Frame /\ g.cb = Top.cb /\ g.native = g.next /\ g.next <= NArgs(g.cb)
  BY <1>1, <1>2, <1>3, MovedFrame
<1>5. DisableError(g, "unsupported_argument")
  BY DEF FetchUnsupported, g
<1>. QED  BY <1>4, <1>5

LEMMA FailReason ==
  ASSUME TypeInv, ReasonInv,
         \/ FetchUnsupported \/ FetchInvalid \/ ReturnMismatch \/ EvalFailed \/ EvalAborted
         \/ At("eval") /\ DisableError(Top, "unsupported_return")
  PROVE  ReasonInv'
<1>1. stack # << >>
  BY DEF FetchUnsupported, FetchInvalid, ReturnMismatch, EvalFailed, EvalAborted, At
<1>2. Top \in Frame /\ GoodFrame(Top) /\ Top.cb \in Callbacks
  BY <1>1, TopIsFrame DEF GoodFrames
<1>3. Top.native = Top.next /\ Top.next <= NArgs(Top.cb)
  BY <1>2 DEF GoodFrame
<1>4. ASSUME NEW why \in Reasons, DisableError(Top, why), why = "r_error" \/ Top.pc # "thrown"
      PROVE  ReasonInv'
  BY <1>1, <1>2, <1>3, <1>4, DisableReason
<1>5. CASE FetchUnsupported
  <2>1. PICK g \in Frame : /\ g.cb = Top.cb /\ g.native = g.next /\ g.next <= NArgs(g.cb)
                           /\ DisableError(g, "unsupported_argument")
    BY <1>5, UnsupportedFrame
  <2>2. Top.pc # "thrown"
    BY <1>5 DEF FetchUnsupported, At
  <2>. QED  BY <1>1, <2>1, <2>2, DisableReason DEF Reasons
<1>6. CASE ~FetchUnsupported
  BY <1>4, <1>6 DEF FetchInvalid, ReturnMismatch, EvalFailed, EvalAborted, At, Reasons
<1>. QED  BY <1>5, <1>6

\* A step that moves the top frame and leaves every diagnostic alone.
LEMMA QuietReason ==
  ASSUME TypeInv, ReasonInv,
         \/ FetchArgument \/ StartEval \/ ZeroReturn \/ PreserveRecord
         \/ At("eval") /\ Success(Top.cb)
  PROVE  ReasonInv'
<1>1. stack # << >> /\ UNCHANGED <<disabled, reason, errored, cError, rError>>
  BY DEF FetchArgument, StartEval, ZeroReturn, PreserveRecord, Success, At, errors, counters
<1>2. SameCall
  <2>1. CASE At("eval") /\ Success(Top.cb)
    BY <2>1, SuccessType
  <2>2. CASE FetchArgument \/ StartEval \/ ZeroReturn
    BY <2>2, AdvanceType
  <2>3. CASE PreserveRecord
    BY <2>3, RecordType
  <2>. QED  BY <2>1, <2>2, <2>3
<1>3. PICK g \in GoodFrames : g.cb = Top.cb /\ SetTop(g)
  BY <1>2 DEF SameCall
<1>4. g.pc \notin {"record", "stored", "thrown"} /\ Top.pc # "thrown"
  <2>1. Top \in Frame /\ Top.pc \notin {"record", "thrown"}
    BY <1>1, TopIsFrame DEF GoodFrames, FetchArgument, StartEval, ZeroReturn, PreserveRecord, At
  <2>2. stack'[Depth] = g
    BY <1>1, <1>3, SetTopShape
  <2>3. ASSUME NEW h, SetTop(h) PROVE h = g
    BY <1>1, <2>2, <2>3, SetTopShape
  <2>4. CASE FetchArgument
    <3>1. Top.pc = "marshal"
      BY <2>4 DEF FetchArgument, At
    <3>. QED  BY <2>1, <2>3, <2>4, <3>1 DEF FetchArgument, Passed, Frame
  <2>5. CASE StartEval
    BY <2>1, <2>3, <2>5 DEF StartEval, Frame
  <2>6. CASE ZeroReturn
    BY <2>1, <2>3, <2>6 DEF ZeroReturn, Drained, Frame
  <2>7. CASE Success(Top.cb)
    BY <2>1, <2>3, <2>7 DEF Success, Frame
  <2>8. CASE PreserveRecord
    BY <2>1, <2>3, <2>8 DEF PreserveRecord, Frame
  <2>. QED  BY <2>1, <2>4, <2>5, <2>6, <2>7, <2>8
<1>5. PICK c \in Callbacks : c = Top.cb
  BY <1>1, TopIsFrame
<1>6. Others(c) /\ KeepsPending(c)
  BY <1>1 DEF Others, KeepsPending
<1>9. Thrown(c)' = Thrown(c)
  BY <1>1, <1>3, <1>4, ThrownMoves
<1>7. Diagnosed(c)'
  BY <1>1, <1>9 DEF Diagnosed, LastError, ReasonInv, AllDiagnosed
<1>8. Pending(g)'
  BY <1>4 DEF Pending, Recording
<1>. QED  BY <1>1, <1>3, <1>5, <1>6, <1>7, <1>8, TopStep

\* The wrapper's record speaks for a call that is not counted yet.
LEMMA ThrowReason ==
  ASSUME TypeInv, ReasonInv, EvalError
  PROVE  ReasonInv'
<1>1. /\ stack # << >> /\ Top \in Frame /\ GoodFrame(Top) /\ Top.cb \in Callbacks
      /\ Top.pc = "eval"
  BY TopIsFrame DEF GoodFrames, EvalError, At
<1>2. PICK c \in Callbacks : c = Top.cb
  BY <1>1
<1>3. PICK g \in GoodFrames : g = [Top EXCEPT !.pc = "thrown"]
  BY <1>1 DEF GoodFrames, GoodFrame, Frame, Steps
<1>4. g.cb = c /\ g.pc = "thrown" /\ SetTop(g)
  BY <1>1, <1>2, <1>3 DEF EvalError, Frame
<1>5. PICK e \in {"r_error", "r_interrupt"} : rError' = [rError EXCEPT ![c] = e]
  BY <1>2 DEF EvalError
<1>6. UNCHANGED <<disabled, reason, errored, cError>> /\ rError'[c] = e
  BY <1>5 DEF EvalError, counters, TypeInv, TypeOK
<1>7. Others(c) /\ KeepsPending(c)
  BY <1>5, <1>6 DEF Others, KeepsPending, TypeInv, TypeOK
<1>8. Thrown(c)' # {}
  <2>1. PICK i \in 1..Depth' : stack'[i].cb = c /\ stack'[i].pc = "thrown"
    BY <1>1, <1>4, TopIsFrame, SetTopShape DEF Depth
  <2>. QED  BY <2>1 DEF Thrown
<1>9. Diagnosed(c)'
  BY <1>6, <1>8 DEF Diagnosed, ReasonInv, AllDiagnosed
<1>10. Pending(g)'
  BY <1>4 DEF Pending, Recording
<1>. QED  BY <1>1, <1>2, <1>4, <1>7, <1>9, <1>10, TopStep

\* The record a failed call stores is the reason of the first failure.
LEMMA RecordReason ==
  ASSUME TypeInv, ReasonInv, RecordError
  PROVE  ReasonInv'
<1>1. /\ stack # << >> /\ Top \in Frame /\ GoodFrame(Top) /\ Top.cb \in Callbacks
      /\ Top.pc = "record" /\ Depth \in 1..Depth
  BY TopIsFrame DEF GoodFrames, RecordError, At
<1>2. Top.why \in Reasons /\ Top.why # "none"
  BY <1>1 DEF GoodFrame, Reasons
<1>3. PICK c \in Callbacks : c = Top.cb
  BY <1>1
<1>4. disabled[c] /\ (errored[c] = 1 => Top.why = reason[c])
  BY <1>1, <1>3 DEF ReasonInv, AllPending, Pending, Recording, Top
<1>5. /\ cError' = [cError EXCEPT ![c] = Top.why]
      /\ UNCHANGED <<disabled, reason, rError, errored>>
  BY <1>3 DEF RecordError, counters
<1>6. cError'[c] = Top.why /\ Others(c) /\ KeepsPending(c)
  BY <1>5 DEF TypeInv, TypeOK, Others, KeepsPending
<1>7. Diagnosed(c)'
  BY <1>2, <1>4, <1>5, <1>6 DEF Diagnosed, LastError, ReasonInv, AllDiagnosed
<1>8. PICK g \in GoodFrames : g = [Top EXCEPT !.pc = "stored"]
  BY <1>1 DEF GoodFrames, GoodFrame, Frame, Steps
<1>9. g.cb = c /\ g.pc = "stored" /\ g.why = Top.why /\ SetTop(g)
  BY <1>1, <1>3, <1>8 DEF RecordError, Frame
<1>10. Pending(g)'
  BY <1>4, <1>5, <1>9 DEF Pending, Recording
<1>. QED  BY <1>1, <1>3, <1>6, <1>7, <1>9, <1>10, TopStep

\* A jump that R_ToplevelExec catches counts and names the first failure only.
LEMMA BoundaryReason ==
  ASSUME TypeInv, ReasonInv, BoundaryExit
  PROVE  ReasonInv'
<1>1. /\ Top \in Frame /\ GoodFrame(Top) /\ Top.cb \in Callbacks /\ stack # << >>
      /\ Top.pc # "thrown"
  BY TopIsFrame DEF GoodFrames, BoundaryExit, BoundaryPoint, At
<1>2. PICK c \in Callbacks : c = Top.cb
  BY <1>1
<1>3. /\ disabled' = [disabled EXCEPT ![c] = TRUE]
      /\ reason' = [reason EXCEPT ![c] = IF disabled[c] THEN @ ELSE "boundary_error"]
      /\ errored' = [errored EXCEPT ![c] = IF disabled[c] THEN @ ELSE @ + 1]
      /\ UNCHANGED <<cError, rError>>
  BY <1>2 DEF BoundaryExit
<1>4. Others(c) /\ KeepsPending(c)
  BY <1>3 DEF TypeInv, TypeOK, Others, KeepsPending
<1>6. PICK g : g = [Top EXCEPT !.pc = "zero",
                           !.fate = IF Top.fate = "failed" \/ ~disabled[Top.cb]
                                    THEN "failed" ELSE "lost"]
  OBVIOUS
<1>7. g.cb = c /\ g.pc = "zero" /\ SetTop(g) /\ g \in GoodFrames
  BY <1>1, <1>2, <1>6 DEF BoundaryExit, GoodFrames, GoodFrame, Frame, Steps, Fates
<1>9. Thrown(c)' = Thrown(c)
  BY <1>1, <1>2, <1>7, ThrownMoves
<1>5. Diagnosed(c)'
  BY <1>3, <1>9 DEF Diagnosed, LastError, TypeInv, TypeOK, ReasonInv, AllDiagnosed
<1>8. Pending(g)'
  BY <1>7 DEF Pending, Recording
<1>. QED  BY <1>1, <1>2, <1>4, <1>5, <1>7, <1>8, TopStep

\* What leaves the frames in progress alone.
LEMMA InvokeShape ==
  ASSUME TypeInv, NEW c \in Callbacks, Invoke(c)
  PROVE  /\ Depth \in Nat /\ Depth' = Depth + 1
         /\ stack'[Depth + 1] \in Frame
         /\ stack'[Depth + 1].cb = c
         /\ stack'[Depth + 1].pc = IF disabled[c] THEN "zero" ELSE "marshal"
         /\ stack'[Depth + 1].fate = IF disabled[c] THEN "refused" ELSE "open"
         /\ \A i \in 1..Depth : stack'[i] = stack[i]
<1>. DEFINE f == [cb |-> c, next |-> 0, native |-> 0, why |-> "none",
                  pc   |-> IF disabled[c] THEN "zero" ELSE "marshal",
                  fate |-> IF disabled[c] THEN "refused" ELSE "open"]
<1>1. f \in Frame
  BY ArgCount DEF Frame, Steps, Fates, MaybeReason
<1>2. stack' = Append(stack, f) /\ stack \in Seq(Frame)
  BY DEF Invoke, TypeInv, TypeOK
<1>3. /\ f.cb = c /\ f.pc = (IF disabled[c] THEN "zero" ELSE "marshal")
      /\ f.fate = (IF disabled[c] THEN "refused" ELSE "open")
  OBVIOUS
<1>. HIDE DEF f
<1>4. /\ Len(stack') = Len(stack) + 1 /\ stack'[Len(stack) + 1] = f
      /\ \A i \in 1..Len(stack) : stack'[i] = stack[i]
  BY <1>1, <1>2, AppendProperties
<1>. QED  BY <1>1, <1>2, <1>3, <1>4, LenProperties DEF Depth

LEMMA LeaveShape ==
  ASSUME TypeInv, Leave
  PROVE  /\ stack # << >> /\ Depth \in Nat \ {0} /\ Depth' = Depth - 1
         /\ \A i \in 1..Depth' : stack'[i] = stack[i]
<1>1. stack # << >> /\ stack' = SubSeq(stack, 1, Len(stack) - 1)
  BY DEF Leave, At, Depth
<1>2. /\ Len(stack') = Len(stack) - 1 /\ Len(stack) \in Nat \ {0}
      /\ \A i \in 1..Len(stack') : stack'[i] = stack[i]
  BY <1>1, TopPopped, EmptySeq DEF TypeInv
<1>. QED  BY <1>1, <1>2 DEF Depth

LEMMA ReasonStep ==
  ASSUME TypeInv, ReasonInv, [Next]_vars
  PROVE  ReasonInv'
<1>1. CASE UNCHANGED <<disabled, reason, errored, cError, rError, stack>>
  BY <1>1 DEF ReasonInv, AllDiagnosed, AllPending, Diagnosed, Pending, Recording, LastError, Thrown,
     Depth
<1>2. CASE \E c \in Callbacks : RStep(c)
  BY <1>1, <1>2 DEF RStep, Create, CreateFails, Register, Unregister, DropReference, Finalize,
     errors, counters
<1>3. CASE \E c \in Callbacks : Invoke(c)
  <2>1. PICK c \in Callbacks : Invoke(c)
    BY <1>3
  <2>2. UNCHANGED <<disabled, reason, errored, cError, rError>>
    BY <2>1 DEF Invoke, errors
  <2>6. ASSUME NEW d \in Callbacks PROVE Thrown(d)' = Thrown(d)
    BY <2>1, InvokeShape DEF Thrown
  <2>3. AllDiagnosed'
    BY <2>2, <2>6 DEF ReasonInv, AllDiagnosed, Diagnosed, LastError
  <2>4. ASSUME NEW i \in 1..Depth', NEW f, f = stack'[i] PROVE Pending(f)'
    <3>1. CASE i \in 1..Depth
      BY <2>1, <2>2, <2>4, <3>1, InvokeShape DEF Pending, Recording, ReasonInv, AllPending
    <3>2. CASE i = Depth + 1
      BY <2>1, <2>4, <3>2, InvokeShape DEF Pending, Recording
    <3>. QED  BY <2>1, <3>1, <3>2, InvokeShape
  <2>5. AllPending'
    BY <2>4 DEF AllPending
  <2>. QED  BY <2>3, <2>5 DEF ReasonInv
<1>4. CASE HandlerStep
  <2>1. CASE FetchArgument \/ StartEval \/ ZeroReturn \/ PreserveRecord
    BY <2>1, QuietReason
  <2>7. CASE ReturnValue
    <3>1. At("eval") /\ Success(Top.cb)
      BY <2>7 DEF ReturnValue, Success
    <3>. QED  BY <3>1, QuietReason
  <2>2. CASE FetchUnsupported \/ FetchInvalid \/ ReturnMismatch \/ EvalFailed \/ EvalAborted
    BY <2>2, FailReason
  <2>3. CASE ReturnString
    <3>1. \/ At("eval") /\ Success(Top.cb)
          \/ At("eval") /\ DisableError(Top, "unsupported_return")
      BY <2>3 DEF ReturnString, Success
    <3>. QED  BY <3>1, QuietReason, FailReason
  <2>4. CASE EvalError \/ RecordError
    BY <2>4, ThrowReason, RecordReason
  <2>5. CASE BoundaryExit
    BY <2>5, BoundaryReason
  <2>6. CASE Leave
    <3>1. UNCHANGED <<disabled, reason, errored, cError, rError>>
      BY <2>6 DEF Leave, errors, counters
    <3>5. stack[Depth].pc # "thrown"
      BY <2>6 DEF Leave, At, Top
    <3>6. ASSUME NEW d \in Callbacks PROVE Thrown(d)' = Thrown(d)
      BY <2>6, <3>5, LeaveShape DEF Thrown
    <3>2. AllDiagnosed'
      BY <3>1, <3>6 DEF ReasonInv, AllDiagnosed, Diagnosed, LastError
    <3>3. ASSUME NEW i \in 1..Depth', NEW f, f = stack'[i] PROVE Pending(f)'
      <4>1. i \in 1..Depth /\ f = stack[i]
        BY <2>6, <3>3, LeaveShape
      <4>. QED  BY <3>1, <4>1 DEF Pending, Recording, ReasonInv, AllPending
    <3>4. AllPending'
      BY <3>3 DEF AllPending
    <3>. QED  BY <3>2, <3>4 DEF ReasonInv
  <2>. QED  BY <1>4, <2>1, <2>2, <2>3, <2>4, <2>5, <2>6, <2>7 DEF HandlerStep
<1>5. CASE UNCHANGED vars
  BY <1>1, <1>5 DEF vars, errors, counters
<1>. QED  BY <1>2, <1>3, <1>4, <1>5 DEF Next

LEMMA InitReason == Init => ReasonInv
BY EmptySeq DEF Init, ReasonInv, AllDiagnosed, AllPending, Diagnosed, LastError, Thrown, Depth

THEOREM DiagnosesInvariant == Spec => [](TypeInv /\ ReasonInv)
<1>1. Init => TypeInv /\ ReasonInv
  BY InitType, InitReason
<1>2. TypeInv /\ ReasonInv /\ [Next]_vars => (TypeInv /\ ReasonInv)'
  BY NextType, ReasonStep
<1>. QED  BY <1>1, <1>2, PTL DEF Spec

\* status()$disable_reason and last_error()$reason tell the same story of a
\* single counted failure, however calls nest and whichever allocation fails,
\* once the calls that have thrown are counted.
THEOREM ReasonsAgree == Spec => []ReasonAgrees
<1>1. ReasonInv => ReasonAgrees
  BY DEF ReasonInv, AllDiagnosed, Diagnosed, ReasonAgrees
<1>. QED  BY <1>1, DiagnosesInvariant, PTL

-----------------------------------------------------------------------------
(* No step takes a diagnostic away.                                         *)

LEMMA StepKeeps ==
  ASSUME TypeInv, [Next]_vars
  PROVE  \A c \in Callbacks : /\ LastError(c) # "none" => LastError(c)' # "none"
                              /\ cError[c] # "none" => cError'[c] # "none"
<1>1. CASE UNCHANGED <<cError, rError>>
  BY <1>1 DEF LastError
<1>2. CASE \E c \in Callbacks : RStep(c) \/ Invoke(c)
  BY <1>1, <1>2 DEF RStep, Create, CreateFails, Register, Unregister, DropReference, Finalize,
     Invoke, errors
<1>3. CASE HandlerStep
  <2>1. CASE FetchArgument \/ StartEval \/ ReturnValue \/ ZeroReturn \/ Leave
    BY <1>1, <2>1 DEF FetchArgument, StartEval, ReturnValue, ZeroReturn, Leave, errors
  <2>6. CASE BoundaryExit \/ PreserveRecord
    BY <1>1, <2>6 DEF BoundaryExit, PreserveRecord
  <2>2. CASE FetchUnsupported \/ FetchInvalid \/ ReturnMismatch \/ EvalFailed \/ EvalAborted
    BY <2>2, <1>1 DEF FetchUnsupported, FetchInvalid, ReturnMismatch, EvalFailed, EvalAborted,
       DisableError
  <2>3. CASE ReturnString
    BY <2>3, <1>1 DEF ReturnString, DisableError, errors
  <2>4. CASE EvalError
    <3>1. PICK e \in {"r_error", "r_interrupt"} : rError' = [rError EXCEPT ![Top.cb] = e]
      BY <2>4 DEF EvalError
    <3>2. UNCHANGED cError
      BY <2>4 DEF EvalError
    <3>. QED  BY <3>1, <3>2 DEF LastError, TypeInv, TypeOK
  <2>5. CASE RecordError
    <3>1. Top.why # "none" /\ Top.cb \in Callbacks
      BY <2>5, TopIsFrame DEF GoodFrames, GoodFrame, RecordError, At, Reasons
    <3>2. cError' = [cError EXCEPT ![Top.cb] = Top.why] /\ UNCHANGED rError
      BY <2>5 DEF RecordError
    <3>. QED  BY <3>1, <3>2 DEF LastError, TypeInv, TypeOK
  <2>. QED  BY <1>3, <2>1, <2>2, <2>3, <2>4, <2>5, <2>6 DEF HandlerStep
<1>4. CASE UNCHANGED vars
  BY <1>1, <1>4 DEF vars, errors
<1>. QED  BY <1>2, <1>3, <1>4 DEF Next

\* A diagnostic that last_error() could show is never lost: not to a later
\* failure, not to the finalizer, not to a jump out of a half recorded one.
THEOREM DiagnosticsStay == Spec => DiagnosticKept
<1>1. TypeInv /\ [Next]_vars
        => [\A c \in Callbacks :
              /\ LastError(c) # "none" => LastError(c)' # "none"
              /\ cError[c] # "none" => cError'[c] # "none"]_vars
  BY StepKeeps
<1>. QED  BY <1>1, TypeInvariance, PTL DEF Spec, DiagnosticKept

-----------------------------------------------------------------------------
(* The balance of preserved objects.                                        *)

\* Between the failure of a call and the preservation of its record nobody
\* else stores one: above such a call, those of the same callback are refused.
RecordAt(f) ==
  /\ f.pc = "record" => cError[f.cb] = "none"
  /\ f.pc = "stored" => /\ cError[f.cb] # "none"
                        /\ live[f.cb] = "live" => preserved[f.cb] = 5

StoresAlone(i) ==
  \A j \in 1..Depth : j > i /\ stack[j].cb = stack[i].cb => stack[j].pc \in {"zero", "leaving"}

StoreInv == \A i \in 1..Depth : Recording(stack[i]) => RecordAt(stack[i]) /\ StoresAlone(i)

\* A step of the top frame that does not touch another callback's record.
LEMMA StoreTop ==
  ASSUME TypeInv, StoreInv, stack # << >>, NEW g \in GoodFrames, g.cb = Top.cb, SetTop(g),
         UNCHANGED live,
         \A d \in Callbacks \ {Top.cb} : cError'[d] = cError[d] /\ preserved'[d] = preserved[d],
         Recording(g) => RecordAt(g)',
         \/ Top.pc \notin {"zero", "leaving"}
         \/ g.pc \in {"zero", "leaving"} /\ UNCHANGED <<cError, preserved>>
  PROVE  StoreInv'
<1>1. /\ stack'[Depth] = g /\ Depth' = Depth /\ Top = stack[Depth] /\ Depth \in 1..Depth
      /\ \A i \in 1..Depth : i # Depth => stack'[i] = stack[i]
  BY SetTopShape, TopIsFrame DEF Depth, Top
<1>2. Depth \in Nat
  BY TopIsFrame
<1>3. ASSUME NEW i \in 1..Depth, Recording(stack'[i])
      PROVE  (RecordAt(stack[i]) /\ StoresAlone(i))'
  <2>1. CASE i = Depth
    <3>1. RecordAt(stack[i])'
      BY <1>1, <1>3, <2>1 DEF RecordAt, Recording
    <3>2. \A j \in 1..Depth' : ~(j > i)
      BY <1>1, <1>2, <2>1
    <3>. QED  BY <3>1, <3>2 DEF StoresAlone
  <2>2. CASE i # Depth
    <3>1. PICK f \in Frame : f = stack[i] /\ f = stack'[i] /\ f.cb \in Callbacks
      BY <1>1, <2>2, FrameAt
    <3>2. Recording(f) /\ RecordAt(f) /\ StoresAlone(i) /\ Depth > i
      <4>1. Recording(f) /\ i \in 1..Depth
        BY <1>3, <3>1
      <4>2. Depth > i
        BY <1>2, <2>2, <4>1
      <4>. QED  BY <3>1, <4>1, <4>2 DEF StoreInv
    <3>3. f.cb = Top.cb => Top.pc \in {"zero", "leaving"}
      BY <1>1, <3>1, <3>2 DEF StoresAlone
    <3>4. cError'[f.cb] = cError[f.cb] /\ preserved'[f.cb] = preserved[f.cb] /\ live' = live
      BY <3>1, <3>3
    <3>5. RecordAt(stack[i])'
      BY <3>1, <3>2, <3>4 DEF RecordAt
    <3>6. ASSUME NEW j \in 1..Depth', j > i, stack'[j].cb = stack'[i].cb
          PROVE  stack'[j].pc \in {"zero", "leaving"}
      <4>1. CASE j = Depth
        BY <1>1, <3>1, <3>3, <3>6, <4>1
      <4>2. CASE j # Depth
        BY <1>1, <3>1, <3>2, <3>6, <4>2 DEF StoresAlone
      <4>. QED  BY <4>1, <4>2
    <3>7. StoresAlone(i)'
      BY <3>6 DEF StoresAlone
    <3>. QED  BY <3>5, <3>7
  <2>. QED  BY <2>1, <2>2
<1>. QED  BY <1>1, <1>3 DEF StoreInv, Recording

\* Steps that move the call on, end it, or let it throw.
LEMMA QuietStore ==
  ASSUME TypeInv, StoreInv,
         \/ FetchArgument \/ StartEval \/ ZeroReturn \/ EvalError \/ BoundaryExit
         \/ At("eval") /\ Success(Top.cb)
  PROVE  StoreInv'
<1>1. stack # << >> /\ UNCHANGED <<live, cError, preserved>>
  BY DEF FetchArgument, StartEval, ZeroReturn, EvalError, BoundaryExit, BoundaryPoint, Success,
     At, errors, lifetime
<1>2. SameCall
  <2>1. CASE At("eval") /\ Success(Top.cb)
    BY <2>1, SuccessType
  <2>. QED  BY <2>1, AdvanceType, ThrowType, BoundaryType
<1>3. PICK g \in GoodFrames : g.cb = Top.cb /\ SetTop(g)
  BY <1>2 DEF SameCall
<1>4. ~Recording(g) /\ (Top.pc \notin {"zero", "leaving"} \/ g.pc \in {"zero", "leaving"})
  <2>1. Top \in Frame
    BY <1>1, TopIsFrame DEF GoodFrames
  <2>2. stack'[Depth] = g
    BY <1>1, <1>3, SetTopShape
  <2>3. ASSUME NEW h, SetTop(h) PROVE h = g
    BY <1>1, <2>2, <2>3, SetTopShape
  <2>4. CASE FetchArgument
    <3>1. Top.pc = "marshal"
      BY <2>4 DEF FetchArgument, At
    <3>. QED  BY <2>1, <2>3, <2>4, <3>1 DEF FetchArgument, Passed, Frame, Recording
  <2>5. CASE StartEval \/ EvalError
    BY <2>1, <2>3, <2>5 DEF StartEval, EvalError, At, Frame, Recording
  <2>6. CASE ZeroReturn
    BY <2>1, <2>3, <2>6 DEF ZeroReturn, Drained, Frame, Recording
  <2>7. CASE At("eval") /\ Success(Top.cb)
    BY <2>1, <2>3, <2>7 DEF Success, At, Frame, Recording
  <2>8. CASE BoundaryExit
    BY <2>1, <2>3, <2>8 DEF BoundaryExit, Frame, Recording
  <2>. QED  BY <2>4, <2>5, <2>6, <2>7, <2>8
<1>. QED  BY <1>1, <1>3, <1>4, StoreTop

\* A call that fails stores a record only if its callback has none.
LEMMA FailStore ==
  ASSUME TypeInv, StoreInv,
         \/ FetchUnsupported \/ FetchInvalid \/ ReturnMismatch \/ EvalFailed \/ EvalAborted
         \/ At("eval") /\ DisableError(Top, "unsupported_return")
  PROVE  StoreInv' /\ UNCHANGED <<lifetime, cError, preserved>>
<1>1. stack # << >> /\ Top.pc \in {"marshal", "eval", "thrown"}
  BY DEF FetchUnsupported, FetchInvalid, ReturnMismatch, EvalFailed, EvalAborted, At
<1>2. Top \in Frame /\ GoodFrame(Top) /\ Top.cb \in Callbacks
  BY <1>1, TopIsFrame DEF GoodFrames
<1>3. PICK f \in Frame, why \in Reasons :
        f.cb = Top.cb /\ f.native = f.next /\ f.next <= NArgs(f.cb) /\ DisableError(f, why)
  <2>1. CASE FetchUnsupported
    BY <2>1, UnsupportedFrame DEF Reasons
  <2>2. CASE ~FetchUnsupported
    <3>1. PICK why \in Reasons : DisableError(Top, why)
      BY <2>2 DEF FetchInvalid, ReturnMismatch, EvalFailed, EvalAborted, Reasons
    <3>. QED  BY <1>2, <3>1 DEF GoodFrame
  <2>. QED  BY <2>1, <2>2
<1>4. PICK r \in Reasons, g \in GoodFrames :
        /\ g.cb = f.cb /\ SetTop(g)
        /\ g.pc = (IF LastError(f.cb) = "none" THEN "record" ELSE "zero")
        /\ UNCHANGED <<lifetime, cError, rError, preserved, invoked, succeeded, refused>>
  BY <1>3, DisableShape
<1>5. Recording(g) => RecordAt(g)'
  BY <1>4 DEF Recording, RecordAt, LastError
<1>6. UNCHANGED <<live, cError, preserved>>
  BY <1>4 DEF lifetime
<1>7. StoreInv'
  BY <1>1, <1>3, <1>4, <1>5, <1>6, StoreTop
<1>. QED  BY <1>4, <1>7

\* Storing the record, and preserving it.
LEMMA RecordStore ==
  ASSUME TypeInv, StoreInv, PreserveBalance, RecordError \/ PreserveRecord
  PROVE  StoreInv' /\ PreserveBalance'
<1>1. /\ stack # << >> /\ Top \in Frame /\ GoodFrame(Top) /\ Top.cb \in Callbacks
      /\ Top.pc \in {"record", "stored"} /\ live[Top.cb] = "live" /\ Depth \in 1..Depth
      /\ Top.why \in Reasons
  BY TopIsFrame DEF GoodFrames, GoodFrame, RecordError, PreserveRecord, At
<1>2. PICK c \in Callbacks : c = Top.cb
  BY <1>1
<1>3. UNCHANGED live
  BY DEF RecordError, PreserveRecord, lifetime
<1>4. RecordAt(Top)
  BY <1>1 DEF StoreInv, Recording, Top
<1>5. CASE RecordError
  <2>1. PICK g \in GoodFrames : g = [Top EXCEPT !.pc = "stored"]
    BY <1>1 DEF GoodFrames, GoodFrame, Frame, Steps
  <2>2. g.cb = c /\ g.pc = "stored" /\ SetTop(g)
    BY <1>1, <1>2, <1>5, <2>1 DEF RecordError, Frame
  <2>3. /\ cError' = [cError EXCEPT ![c] = Top.why] /\ preserved' = [preserved EXCEPT ![c] = 5]
    BY <1>2, <1>5 DEF RecordError
  <2>4. /\ cError'[c] # "none" /\ preserved'[c] = 5
        /\ \A d \in Callbacks \ {c} : cError'[d] = cError[d] /\ preserved'[d] = preserved[d]
    BY <1>1, <2>3 DEF TypeInv, TypeOK, Reasons
  <2>5. RecordAt(g)'
    BY <2>2, <2>4 DEF RecordAt
  <2>6. StoreInv'
    BY <1>1, <1>2, <1>3, <2>2, <2>4, <2>5, StoreTop
  <2>7. PreserveBalance'
    BY <1>1, <1>2, <1>3, <2>4 DEF PreserveBalance
  <2>. QED  BY <2>6, <2>7
<1>6. CASE PreserveRecord
  <2>1. PICK g \in GoodFrames : g = [Top EXCEPT !.pc = "zero"]
    BY <1>1 DEF GoodFrames, GoodFrame, Frame, Steps
  <2>2. g.cb = c /\ g.pc = "zero" /\ SetTop(g)
    BY <1>1, <1>2, <1>6, <2>1 DEF PreserveRecord, Frame
  <2>3. preserved[c] = 5 /\ cError[c] # "none"
    BY <1>1, <1>2, <1>4, <1>6 DEF RecordAt, PreserveRecord, At
  <2>4. preserved' = [preserved EXCEPT ![c] = @ + 1] /\ UNCHANGED cError
    BY <1>2, <1>6 DEF PreserveRecord
  <2>5. /\ preserved'[c] = 6
        /\ \A d \in Callbacks \ {c} : cError'[d] = cError[d] /\ preserved'[d] = preserved[d]
    BY <2>3, <2>4 DEF TypeInv, TypeOK
  <2>6. ~Recording(g)
    BY <2>2 DEF Recording
  <2>7. StoreInv'
    BY <1>1, <1>2, <1>3, <2>2, <2>5, <2>6, StoreTop
  <2>8. PreserveBalance'
    BY <1>1, <1>2, <1>3, <2>3, <2>4, <2>5 DEF PreserveBalance
  <2>. QED  BY <2>7, <2>8
<1>. QED  BY <1>5, <1>6

\* R code creates callbacks and finalizes them: the finalizer releases what is
\* preserved, whether or not a record is among it.
LEMMA RStepBalance ==
  ASSUME TypeInv, StoreInv, PreserveBalance, NEW c \in Callbacks, RStep(c)
  PROVE  StoreInv' /\ PreserveBalance'
<1>1. UNCHANGED <<stack, cError>>
  BY DEF RStep, Create, CreateFails, Register, Unregister, DropReference, Finalize, errors
<1>2. \A i \in 1..Depth : stack[i].cb \in Callbacks
  BY FrameAt
<1>3. ASSUME \A d \in Callbacks : live'[d] = "live" =>
               preserved'[d] = 5 \/ (live[d] = "live" /\ preserved'[d] = preserved[d])
      PROVE  StoreInv'
  <2>1. ASSUME NEW i \in 1..Depth, Recording(stack[i]) PROVE RecordAt(stack[i])'
    BY <1>1, <1>2, <1>3, <2>1 DEF StoreInv, RecordAt
  <2>. QED  BY <1>1, <2>1 DEF StoreInv, Recording, StoresAlone, Depth
<1>4. CASE Create(c)
  BY <1>1, <1>3, <1>4 DEF Create, PreserveBalance, TypeInv, TypeOK
<1>5. CASE CreateFails(c)
  <2>1. PICK n \in 0..5 : preserved' = [preserved EXCEPT ![c] = n]
    BY <1>5 DEF CreateFails
  <2>. QED  BY <1>1, <1>3, <1>5, <2>1 DEF CreateFails, PreserveBalance, TypeInv, TypeOK
<1>6. CASE Register(c) \/ Unregister(c) \/ DropReference(c)
  <2>1. UNCHANGED <<live, preserved>>
    BY <1>6 DEF Register, Unregister, DropReference, errors
  <2>. QED  BY <1>1, <1>3, <2>1 DEF PreserveBalance
<1>7. CASE Finalize(c)
  <2>1. preserved[c] = 5 \/ (preserved[c] = 6 /\ cError[c] # "none")
    BY <1>7 DEF Finalize, PreserveBalance
  <2>2. preserved[c] - Released(c) = 0
    BY <2>1 DEF Released, Dangling
  <2>3. preserved' = [preserved EXCEPT ![c] = 0]
    BY <1>7, <2>2 DEF Finalize
  <2>. QED  BY <1>1, <1>3, <1>7, <2>3 DEF Finalize, PreserveBalance, TypeInv, TypeOK
<1>. QED  BY <1>4, <1>5, <1>6, <1>7 DEF RStep

\* A new call of a callback that is storing its record is refused.
LEMMA InvokeStore ==
  ASSUME TypeInv, ReasonInv, StoreInv, NEW c \in Callbacks, Invoke(c)
  PROVE  StoreInv'
<1>1. UNCHANGED <<live, cError, preserved>>
  BY DEF Invoke, errors, lifetime
<1>2. ASSUME NEW i \in 1..Depth', Recording(stack'[i])
      PROVE  (RecordAt(stack[i]) /\ StoresAlone(i))'
  <2>1. i \in 1..Depth /\ stack'[i] = stack[i]
    BY <1>2, InvokeShape DEF Recording
  <2>2. RecordAt(stack[i]) /\ StoresAlone(i) /\ disabled[stack[i].cb]
    BY <1>2, <2>1 DEF StoreInv, ReasonInv, AllPending, Pending
  <2>3. ASSUME NEW j \in 1..Depth', j > i, stack'[j].cb = stack'[i].cb
        PROVE  stack'[j].pc \in {"zero", "leaving"}
    <3>1. CASE j \in 1..Depth
      BY <2>1, <2>2, <2>3, <3>1, InvokeShape DEF StoresAlone
    <3>2. CASE j = Depth + 1
      BY <2>1, <2>2, <2>3, <3>2, InvokeShape
    <3>. QED  BY <3>1, <3>2, InvokeShape
  <2>4. StoresAlone(i)'
    BY <2>3 DEF StoresAlone
  <2>5. RecordAt(stack[i])'
    BY <1>1, <2>1, <2>2 DEF RecordAt
  <2>. QED  BY <2>4, <2>5
<1>. QED  BY <1>2 DEF StoreInv, Recording

LEMMA LeaveStore ==
  ASSUME TypeInv, StoreInv, Leave
  PROVE  StoreInv'
<1>1. UNCHANGED <<live, cError, preserved>>
  BY DEF Leave, errors, lifetime
<1>2. ASSUME NEW i \in 1..Depth', Recording(stack'[i])
      PROVE  (RecordAt(stack[i]) /\ StoresAlone(i))'
  <2>1. i \in 1..Depth /\ stack'[i] = stack[i]
    BY <1>2, LeaveShape
  <2>2. RecordAt(stack[i]) /\ StoresAlone(i)
    BY <1>2, <2>1 DEF StoreInv
  <2>3. ASSUME NEW j \in 1..Depth', j > i, stack'[j].cb = stack'[i].cb
        PROVE  stack'[j].pc \in {"zero", "leaving"}
    <3>1. j \in 1..Depth /\ stack'[j] = stack[j]
      BY LeaveShape
    <3>. QED  BY <2>1, <2>2, <2>3, <3>1 DEF StoresAlone
  <2>4. StoresAlone(i)'
    BY <2>3 DEF StoresAlone
  <2>5. RecordAt(stack[i])'
    BY <1>1, <2>1, <2>2 DEF RecordAt
  <2>. QED  BY <2>4, <2>5
<1>. QED  BY <1>2 DEF StoreInv, Recording

LEMMA BalanceStep ==
  ASSUME TypeInv, ReasonInv, StoreInv, PreserveBalance, [Next]_vars
  PROVE  StoreInv' /\ PreserveBalance'
<1>1. CASE \E c \in Callbacks : RStep(c)
  BY <1>1, RStepBalance
<1>2. ASSUME UNCHANGED <<live, cError, preserved>> PROVE PreserveBalance'
  BY <1>2 DEF PreserveBalance
<1>3. CASE \E c \in Callbacks : Invoke(c)
  <2>1. UNCHANGED <<live, cError, preserved>>
    BY <1>3 DEF Invoke, lifetime, errors
  <2>. QED  BY <1>2, <1>3, <2>1, InvokeStore
<1>4. CASE HandlerStep
  <2>1. CASE FetchArgument \/ StartEval \/ ZeroReturn \/ EvalError \/ BoundaryExit
    <3>1. UNCHANGED <<live, cError, preserved>>
      BY <2>1 DEF FetchArgument, StartEval, ZeroReturn, EvalError, BoundaryExit, errors, lifetime
    <3>. QED  BY <1>2, <2>1, <3>1, QuietStore
  <2>2. CASE FetchUnsupported \/ FetchInvalid \/ ReturnMismatch \/ EvalFailed \/ EvalAborted
    BY <1>2, <2>2, FailStore DEF lifetime
  <2>3. CASE ReturnString \/ ReturnValue
    <3>1. \/ At("eval") /\ Success(Top.cb)
          \/ At("eval") /\ DisableError(Top, "unsupported_return")
      BY <2>3 DEF ReturnString, ReturnValue, Success
    <3>2. Success(Top.cb) => UNCHANGED <<live, cError, preserved>>
      BY DEF Success, errors, lifetime
    <3>. QED  BY <1>2, <3>1, <3>2, QuietStore, FailStore DEF lifetime
  <2>4. CASE RecordError \/ PreserveRecord
    BY <2>4, RecordStore
  <2>5. CASE Leave
    <3>1. UNCHANGED <<live, cError, preserved>>
      BY <2>5 DEF Leave, errors, lifetime
    <3>. QED  BY <1>2, <2>5, <3>1, LeaveStore
  <2>. QED  BY <1>4, <2>1, <2>2, <2>3, <2>4, <2>5 DEF HandlerStep
<1>5. CASE UNCHANGED vars
  BY <1>2, <1>5 DEF vars, lifetime, errors, StoreInv, RecordAt, StoresAlone, Recording, Depth
<1>. QED  BY <1>1, <1>3, <1>4, <1>5 DEF Next

LEMMA InitBalance == Init => StoreInv /\ PreserveBalance
BY EmptySeq DEF Init, StoreInv, PreserveBalance, Depth

\* What C_callback and the error records preserve, R_callback_finalizer
\* releases and nothing else, also when a jump out of R_PreserveObject left a
\* record that nothing preserves; and no two calls ever store one at a time.
THEOREM PreserveBalanced == Spec => [](PreserveBalance /\ StoreInv)
<1>. DEFINE Inv == TypeInv /\ ReasonInv /\ StoreInv /\ PreserveBalance
<1>1. Init => Inv
  BY InitType, InitReason, InitBalance
<1>2. Inv /\ [Next]_vars => Inv'
  BY NextType, ReasonStep, BalanceStep
<1>. QED  BY <1>1, <1>2, PTL DEF Spec

-----------------------------------------------------------------------------
(* The refinement.                                                          *)

\* The state of the contract that a state of the handler stands for.
Active == [c \in Callbacks |-> ~disabled[c]]
Calls  == [i \in 1..Depth |-> [cb |-> stack[i].cb, state |-> CallState(stack[i])]]

\* The contract's steps in these terms.
LEMMA ContractSteps ==
  /\ Calls # << >> /\ Calls[Len(Calls)].state = "open"
     /\ Calls' = [Calls EXCEPT ![Len(Calls)].state = "failing"]
     /\ Active' = [Active EXCEPT ![Calls[Len(Calls)].cb] = FALSE] => Contract!Fail
  /\ Calls # << >> /\ Calls[Len(Calls)].state = "open"
     /\ Calls' = [Calls EXCEPT ![Len(Calls)].state = "value"]
     /\ Active' = Active => Contract!Succeed
  /\ Calls # << >> /\ Calls[Len(Calls)].state = "failing"
     /\ Calls' = [Calls EXCEPT ![Len(Calls)].state = "zero"]
     /\ Active' = Active => Contract!AnswerZero
  /\ Calls # << >> /\ Calls[Len(Calls)].state \in {"value", "zero"}
     /\ Calls' = SubSeq(Calls, 1, Len(Calls) - 1)
     /\ Active' = Active => Contract!Leave
  /\ Calls' = Calls /\ Active' = Active => UNCHANGED Contract!vars
BY Zenon DEF Contract!Fail, Contract!Succeed, Contract!AnswerZero, Contract!Leave, Contract!vars,
   Contract!Last, Contract!Settle, Active, Calls

LEMMA EnterStep ==
  ASSUME NEW c \in Callbacks,
         Calls' = Append(Calls, [cb |-> c, state |-> IF Active[c] THEN "open" ELSE "failing"]),
         Active' = Active
  PROVE  Contract!Enter(c)
BY DEF Contract!Enter, Active, Calls

LEMMA CallsAreCalls ==
  ASSUME TypeInv
  PROVE  /\ Calls \in Seq(Contract!Call) /\ Len(Calls) = Depth /\ Depth \in Nat
         /\ stack = << >> <=> Calls = << >>
<1>1. Depth \in Nat /\ (stack = << >> <=> Depth = 0)
  BY EmptySeq, LenProperties DEF TypeInv, Depth
<1>2. ASSUME NEW i \in 1..Depth
      PROVE  [cb |-> stack[i].cb, state |-> CallState(stack[i])] \in Contract!Call
  BY FrameAt DEF Contract!Call, CallState
<1>3. Calls \in Seq(Contract!Call)
  BY <1>1, <1>2 DEF Calls
<1>4. Len(Calls) = Depth
  BY <1>1, <1>3, LenProperties DEF Calls
<1>5. Calls = << >> <=> Depth = 0
  BY <1>3, <1>4, EmptySeq
<1>. QED  BY <1>1, <1>3, <1>4, <1>5

\* A new top frame settles the last call of the contract, or leaves it.
LEMMA TopCall ==
  ASSUME TypeInv, stack # << >>, NEW g \in GoodFrames, g.cb = Top.cb, SetTop(g)
  PROVE  /\ Calls' = [Calls EXCEPT ![Len(Calls)].state = CallState(g)]
         /\ Calls[Len(Calls)] = [cb |-> Top.cb, state |-> CallState(Top)]
         /\ CallState(g) = CallState(Top) => Calls' = Calls
<1>1. /\ Len(stack') = Len(stack) /\ stack'[Depth] = g /\ Depth' = Depth
      /\ \A i \in 1..Depth : i # Depth => stack'[i] = stack[i]
  BY SetTopShape DEF Depth
<1>2. Len(Calls) = Depth /\ Depth \in 1..Depth
  BY CallsAreCalls, TopIsFrame
<1>3. Calls[Depth] = [cb |-> Top.cb, state |-> CallState(Top)]
  BY <1>2 DEF Calls, Top
<1>. DEFINE called(f) == [cb |-> f.cb, state |-> CallState(f)]
<1>4. Calls' = [i \in 1..Depth |-> called(stack'[i])]
  BY <1>1 DEF Calls, CallState
<1>5. Calls = [i \in 1..Depth |-> called(stack[i])]
  BY DEF Calls
<1>6. called(g) = [called(Top) EXCEPT !.state = CallState(g)]
  OBVIOUS
<1>7. Top = stack[Depth]
  BY DEF Top
<1>. HIDE DEF called
<1>8. Calls' = [Calls EXCEPT ![Depth] = called(g)]
  BY <1>1, <1>2, <1>4, <1>5
<1>9. Calls[Depth] = called(Top)
  BY <1>2, <1>5, <1>7
<1>10. Calls' = [Calls EXCEPT ![Depth].state = CallState(g)]
  BY <1>6, <1>8, <1>9
<1>11. CallState(g) = CallState(Top) => called(g) = called(Top)
  BY DEF called
<1>12. CallState(g) = CallState(Top) => Calls' = Calls
  BY <1>1, <1>4, <1>5, <1>7, <1>11
<1>. QED  BY <1>2, <1>3, <1>10, <1>12

\* C_callback_disable_error fails the call it is called for.
LEMMA FailContract ==
  ASSUME TypeInv, stack # << >>, NEW f \in Frame, f.cb = Top.cb,
         f.native = f.next, f.next <= NArgs(f.cb), Top.fate = "open",
         NEW why \in Reasons, DisableError(f, why)
  PROVE  Contract!Fail
<1>1. PICK r \in Reasons, g \in GoodFrames :
        /\ g.cb = f.cb /\ SetTop(g) /\ g.fate = "failed"
        /\ g.pc = (IF LastError(f.cb) = "none" THEN "record" ELSE "zero")
        /\ disabled' = [disabled EXCEPT ![f.cb] = TRUE]
  BY DisableShape
<1>2. g.cb = Top.cb /\ SetTop(g)
  BY <1>1
<1>3. g.fate = "failed" /\ g.pc # "leaving"
  BY <1>1
<1>4. CallState(g) = "failing" /\ CallState(Top) = "open"
  BY <1>3 DEF CallState
<1>5. /\ Calls' = [Calls EXCEPT ![Len(Calls)].state = "failing"]
      /\ Calls[Len(Calls)] = [cb |-> Top.cb, state |-> "open"] /\ Calls # << >>
  BY <1>2, <1>4, TopCall, CallsAreCalls
<1>6. disabled' = [disabled EXCEPT ![Top.cb] = TRUE]
  BY <1>1
<1>7. Active' = [Active EXCEPT ![Top.cb] = FALSE]
  BY <1>6 DEF Active, TypeInv, TypeOK
<1>. QED  BY <1>5, <1>7, ContractSteps

LEMMA EnterContract ==
  ASSUME TypeInv, TypeInv', NEW c \in Callbacks, Invoke(c)
  PROVE  Contract!Enter(c)
<1>. DEFINE e == [cb |-> c, state |-> IF Active[c] THEN "open" ELSE "failing"]
<1>1. UNCHANGED disabled
  BY DEF Invoke, errors
<1>2. e \in Contract!Call
  BY DEF Contract!Call
<1>3. /\ Calls \in Seq(Contract!Call) /\ Len(Calls) = Depth /\ Depth \in Nat
      /\ Calls' \in Seq(Contract!Call) /\ Len(Calls') = Depth'
  <2>1. TypeInv => /\ Calls \in Seq(Contract!Call) /\ Len(Calls) = Depth /\ Depth \in Nat
    BY CallsAreCalls
  <2>2. (TypeInv => Calls \in Seq(Contract!Call) /\ Len(Calls) = Depth)'
    BY CallsAreCalls, PTL
  <2>. QED  BY <2>1, <2>2 DEF Contract!Call
<1>4. ASSUME NEW i \in 1..Depth' PROVE Calls'[i] = Append(Calls, e)[i]
  <2>1. Calls'[i] = [cb |-> stack'[i].cb, state |-> CallState(stack'[i])]
    BY <1>4 DEF Calls, CallState
  <2>2. CASE i \in 1..Depth
    <3>1. Calls[i] = [cb |-> stack[i].cb, state |-> CallState(stack[i])]
      BY <2>2 DEF Calls
    <3>2. Append(Calls, e)[i] = Calls[i]
      BY <1>2, <1>3, <2>2, AppendProperties
    <3>. QED  BY <2>1, <2>2, <3>1, <3>2, InvokeShape
  <2>3. CASE i = Depth + 1
    <3>1. Append(Calls, e)[i] = e
      BY <1>2, <1>3, <2>3, AppendProperties
    <3>2. stack'[i].cb = c /\ CallState(stack'[i]) = (IF disabled[c] THEN "failing" ELSE "open")
      BY <2>3, InvokeShape DEF CallState
    <3>3. Active[c] = ~disabled[c] /\ disabled[c] \in BOOLEAN
      BY DEF Active, TypeInv, TypeOK
    <3>. QED  BY <2>1, <3>1, <3>2, <3>3
  <2>. QED  BY <1>3, <2>2, <2>3, InvokeShape
<1>5. Append(Calls, e) \in Seq(Contract!Call) /\ Len(Append(Calls, e)) = Depth'
  BY <1>2, <1>3, AppendProperties, InvokeShape
<1>. HIDE DEF e
<1>6. Calls' = Append(Calls, e)
  BY <1>3, <1>4, <1>5, SeqEqual
<1>7. Active' = Active
  BY <1>1 DEF Active
<1>. QED  BY <1>6, <1>7, EnterStep DEF e

LEMMA LeaveContract ==
  ASSUME TypeInv, TypeInv', Leave
  PROVE  Contract!Leave
<1>1. UNCHANGED disabled
  BY DEF Leave, errors
<1>2. /\ Calls \in Seq(Contract!Call) /\ Len(Calls) = Depth /\ Calls # << >>
      /\ Calls' \in Seq(Contract!Call) /\ Len(Calls') = Depth'
  <2>1. Calls \in Seq(Contract!Call) /\ Len(Calls) = Depth /\ Calls # << >>
    BY CallsAreCalls, LeaveShape
  <2>2. (TypeInv => Calls \in Seq(Contract!Call) /\ Len(Calls) = Depth)'
    BY CallsAreCalls, PTL
  <2>. QED  BY <2>1, <2>2 DEF Contract!Call
<1>. DEFINE t == SubSeq(Calls, 1, Len(Calls) - 1)
<1>3. t \in Seq(Contract!Call) /\ Len(t) = Depth' /\ \A i \in 1..Depth' : t[i] = Calls[i]
  BY <1>2, TopPopped, LeaveShape
<1>4. ASSUME NEW i \in 1..Depth' PROVE Calls'[i] = Calls[i]
  <2>1. Calls'[i] = [cb |-> stack'[i].cb, state |-> CallState(stack'[i])]
    BY <1>4 DEF Calls, CallState
  <2>2. i \in 1..Depth /\ stack'[i] = stack[i]
    BY LeaveShape
  <2>. QED  BY <2>1, <2>2 DEF Calls
<1>. HIDE DEF t
<1>5. Calls' = t
  BY <1>2, <1>3, <1>4, SeqEqual
<1>6. Calls[Len(Calls)].state \in {"value", "zero"}
  <2>1. Depth \in 1..Depth /\ Top = stack[Depth] /\ GoodFrame(Top) /\ Top.pc = "leaving"
    BY LeaveShape, TopIsFrame DEF Leave, At, Top, GoodFrames
  <2>2. CallState(Top) \in {"value", "zero"}
    BY <2>1 DEF GoodFrame, CallState
  <2>. QED  BY <1>2, <2>1, <2>2 DEF Calls
<1>7. Active' = Active
  BY <1>1 DEF Active
<1>. QED  BY <1>2, <1>5, <1>6, <1>7, ContractSteps DEF t

LEMMA SucceedContract ==
  ASSUME TypeInv, At("eval"), Success(Top.cb)
  PROVE  Contract!Succeed
<1>1. /\ stack # << >> /\ Top \in Frame /\ GoodFrame(Top) /\ Top.pc = "eval"
  BY TopIsFrame DEF GoodFrames, At
<1>2. PICK g \in GoodFrames : g = [Top EXCEPT !.pc = "leaving", !.fate = "ok"]
  BY <1>1 DEF GoodFrames, GoodFrame, Frame, Steps, Fates
<1>3. SetTop(g) /\ g.cb = Top.cb /\ g.fate = "ok"
  BY <1>1, <1>2 DEF Success, Frame
<1>4. CallState(g) = "value" /\ CallState(Top) = "open"
  BY <1>1, <1>3 DEF CallState, GoodFrame
<1>5. Active' = Active
  BY DEF Success, Active, errors
<1>. QED  BY <1>1, <1>3, <1>4, <1>5, TopCall, CallsAreCalls, ContractSteps

\* A jump out of a call that has failed already only moves the record on.
LEMMA BoundaryContract ==
  ASSUME TypeInv, ReasonInv, BoundaryExit
  PROVE  Contract!Fail \/ UNCHANGED Contract!vars
<1>1. /\ stack # << >> /\ Top \in Frame /\ GoodFrame(Top) /\ Top.cb \in Callbacks
      /\ Top.pc \in {"marshal", "eval", "record", "stored"} /\ Depth \in 1..Depth
  BY TopIsFrame DEF GoodFrames, BoundaryExit, BoundaryPoint, At
<1>2. PICK g : g = [Top EXCEPT !.pc = "zero",
                           !.fate = IF Top.fate = "failed" \/ ~disabled[Top.cb]
                                    THEN "failed" ELSE "lost"]
  OBVIOUS
<1>3. g \in GoodFrames /\ g.cb = Top.cb /\ SetTop(g) /\ CallState(g) = "failing"
  BY <1>1, <1>2 DEF BoundaryExit, GoodFrames, GoodFrame, Frame, Steps, Fates, CallState
<1>4. disabled' = [disabled EXCEPT ![Top.cb] = TRUE]
  BY DEF BoundaryExit
<1>5. CASE Top.pc \in {"record", "stored"}
  <2>1. disabled[Top.cb]
    BY <1>1, <1>5 DEF ReasonInv, AllPending, Pending, Recording, Top
  <2>2. Active' = Active
    BY <1>4, <2>1 DEF Active, TypeInv, TypeOK
  <2>3. CallState(Top) = "failing"
    BY <1>1, <1>5 DEF CallState, GoodFrame
  <2>4. Calls' = Calls
    BY <1>1, <1>3, <2>3, TopCall
  <2>. QED  BY <2>2, <2>4, ContractSteps
<1>6. CASE Top.pc \notin {"record", "stored"}
  <2>1. CallState(Top) = "open"
    BY <1>1, <1>6 DEF CallState, GoodFrame
  <2>2. Active' = [Active EXCEPT ![Top.cb] = FALSE]
    BY <1>1, <1>4 DEF Active, TypeInv, TypeOK
  <2>3. /\ Calls' = [Calls EXCEPT ![Len(Calls)].state = "failing"] /\ Calls # << >>
        /\ Calls[Len(Calls)] = [cb |-> Top.cb, state |-> "open"]
    BY <1>1, <1>3, <2>1, TopCall, CallsAreCalls
  <2>. QED  BY <2>2, <2>3, ContractSteps
<1>. QED  BY <1>5, <1>6

\* Fetching, evaluating, throwing and storing the record are invisible;
\* the zero of the return type is the answer of a failed call.
LEMMA AdvanceContract ==
  ASSUME TypeInv,
         \/ FetchArgument \/ StartEval \/ ZeroReturn
         \/ EvalError \/ RecordError \/ PreserveRecord
  PROVE  Contract!AnswerZero \/ UNCHANGED Contract!vars
<1>1. /\ stack # << >> /\ Top \in Frame /\ GoodFrame(Top)
  BY TopIsFrame DEF GoodFrames, FetchArgument, StartEval, ZeroReturn, EvalError, RecordError,
     PreserveRecord, At
<1>2. SameCall
  BY AdvanceType, ThrowType, RecordType
<1>3. PICK g \in GoodFrames : g.cb = Top.cb /\ SetTop(g)
  BY <1>2 DEF SameCall
<1>4. ASSUME NEW h, SetTop(h) PROVE h = g
  BY <1>1, <1>3, <1>4, SetTopShape
<1>5. Active' = Active
  BY DEF FetchArgument, StartEval, ZeroReturn, EvalError, RecordError, PreserveRecord,
     Active, errors
<1>6. CASE FetchArgument \/ StartEval \/ EvalError
  <2>1. Top.fate = "open"
    BY <1>1, <1>6 DEF FetchArgument, StartEval, EvalError, At, GoodFrame
  <2>2. g.fate = "open"
    BY <1>1, <1>4, <1>6, <2>1 DEF FetchArgument, StartEval, EvalError, Passed, Frame
  <2>3. CallState(g) = CallState(Top)
    BY <2>1, <2>2 DEF CallState
  <2>. QED  BY <1>1, <1>3, <1>5, <2>3, TopCall, ContractSteps
<1>7. CASE RecordError \/ PreserveRecord
  <2>1. Top.fate = "failed" /\ Top.pc # "leaving"
    BY <1>1, <1>7 DEF RecordError, PreserveRecord, At, GoodFrame
  <2>2. g.fate = "failed" /\ g.pc # "leaving"
    BY <1>1, <1>4, <1>7, <2>1 DEF RecordError, PreserveRecord, Frame
  <2>3. CallState(g) = CallState(Top)
    BY <2>1, <2>2 DEF CallState
  <2>. QED  BY <1>1, <1>3, <1>5, <2>3, TopCall, ContractSteps
<1>8. CASE ZeroReturn
  <2>1. Top.fate # "open" /\ Top.pc = "zero"
    BY <1>1, <1>8 DEF ZeroReturn, At, GoodFrame
  <2>2. g.fate = Top.fate /\ g.pc = "leaving"
    BY <1>1, <1>4, <1>8 DEF ZeroReturn, Drained, Frame
  <2>3. CASE Top.fate = "ok"
    <3>1. CallState(g) = CallState(Top)
      BY <2>2, <2>3 DEF CallState
    <3>. QED  BY <1>1, <1>3, <1>5, <3>1, TopCall, ContractSteps
  <2>4. CASE Top.fate # "ok"
    <3>1. CallState(g) = "zero" /\ CallState(Top) = "failing"
      BY <2>1, <2>2, <2>4 DEF CallState
    <3>. QED  BY <1>1, <1>3, <1>5, <3>1, TopCall, CallsAreCalls, ContractSteps
  <2>. QED  BY <2>3, <2>4
<1>. QED  BY <1>6, <1>7, <1>8

LEMMA FailingContract ==
  ASSUME TypeInv,
         \/ FetchUnsupported \/ FetchInvalid \/ ReturnMismatch \/ EvalFailed \/ EvalAborted
         \/ At("eval") /\ DisableError(Top, "unsupported_return")
  PROVE  Contract!Fail
<1>1. stack # << >> /\ Top.pc \in {"marshal", "eval", "thrown"}
  BY DEF FetchUnsupported, FetchInvalid, ReturnMismatch, EvalFailed, EvalAborted, At
<1>2. Top \in Frame /\ GoodFrame(Top) /\ Top.cb \in Callbacks
  BY <1>1, TopIsFrame DEF GoodFrames
<1>3. Top.native = Top.next /\ Top.next <= NArgs(Top.cb) /\ Top.fate = "open"
  BY <1>1, <1>2 DEF GoodFrame
<1>5. ASSUME NEW why \in Reasons, DisableError(Top, why) PROVE Contract!Fail
  BY <1>1, <1>2, <1>3, <1>5, FailContract
<1>6. CASE FetchUnsupported
  <2>1. PICK g \in Frame : /\ g.cb = Top.cb /\ g.native = g.next /\ g.next <= NArgs(g.cb)
                           /\ DisableError(g, "unsupported_argument")
    BY <1>6, UnsupportedFrame
  <2>. QED  BY <1>1, <1>3, <2>1, FailContract DEF Reasons
<1>7. CASE ~FetchUnsupported
  BY <1>5, <1>7 DEF FetchInvalid, ReturnMismatch, EvalFailed, EvalAborted, Reasons
<1>. QED  BY <1>6, <1>7

LEMMA StepContract ==
  ASSUME TypeInv, TypeInv', ReasonInv, [Next]_vars
  PROVE  [Contract!Next]_(Contract!vars)
<1>1. CASE UNCHANGED <<disabled, stack>>
  <2>1. Active' = Active /\ Calls' = Calls
    BY <1>1 DEF Active, Calls, Depth, CallState
  <2>. QED  BY <2>1, ContractSteps
<1>2. CASE \E c \in Callbacks : RStep(c)
  BY <1>1, <1>2 DEF RStep, Create, CreateFails, Register, Unregister, DropReference, Finalize,
     errors
<1>3. CASE \E c \in Callbacks : Invoke(c)
  BY <1>3, EnterContract DEF Contract!Next
<1>4. CASE HandlerStep
  <2>1. CASE \/ FetchArgument \/ StartEval \/ ZeroReturn
             \/ EvalError \/ RecordError \/ PreserveRecord
    BY <2>1, AdvanceContract DEF Contract!Next
  <2>2. CASE FetchUnsupported \/ FetchInvalid \/ ReturnMismatch \/ EvalFailed \/ EvalAborted
    BY <2>2, FailingContract DEF Contract!Next
  <2>3. CASE ReturnString \/ ReturnValue
    <3>1. \/ At("eval") /\ Success(Top.cb)
          \/ At("eval") /\ DisableError(Top, "unsupported_return")
      BY <2>3 DEF ReturnString, ReturnValue, Success
    <3>. QED  BY <3>1, SucceedContract, FailingContract DEF Contract!Next
  <2>4. CASE BoundaryExit
    BY <2>4, BoundaryContract DEF Contract!Next
  <2>5. CASE Leave
    BY <2>5, LeaveContract DEF Contract!Next
  <2>. QED  BY <1>4, <2>1, <2>2, <2>3, <2>4, <2>5 DEF HandlerStep
<1>5. CASE UNCHANGED vars
  BY <1>1, <1>5 DEF vars, errors
<1>. QED  BY <1>2, <1>3, <1>4, <1>5 DEF Next

LEMMA InitContract == Init => Contract!Init
<1>. SUFFICES ASSUME Init PROVE Contract!Init
  OBVIOUS
<1>1. Active = [c \in Callbacks |-> TRUE]
  BY DEF Init, Active
<1>2. Calls = << >>
  BY InitType, CallsAreCalls DEF Init
<1>. QED  BY Zenon, <1>1, <1>2 DEF Contract!Init, Active, Calls

\* For every callback set, every signature and every nesting, a pointer made by
\* ccallback() keeps the contract foreign code relies on: a failing call
\* answers zero, and no call is admitted to an inactive callback.
THEOREM ImplementsContract == Spec => ContractSpec
<1>1. TypeInv /\ ReasonInv /\ TypeInv' /\ [Next]_vars => [Contract!Next]_(Contract!vars)
  BY StepContract
<1>. QED  BY <1>1, InitContract, DiagnosesInvariant, PTL DEF Spec, ContractSpec, Contract!Spec

-----------------------------------------------------------------------------
(* The counters.                                                            *)

LEMMA OpenFinite ==
  ASSUME TypeInv, NEW c \in Callbacks
  PROVE  IsFiniteSet(Open(c)) /\ Cardinality(Open(c)) \in Nat
<1>1. Depth \in Nat
  BY LenProperties DEF TypeInv, Depth
<1>2. IsFiniteSet(1..Depth) /\ Open(c) \subseteq 1..Depth
  BY <1>1, FS_Interval DEF Open
<1>3. IsFiniteSet(Open(c))
  BY <1>2, FS_Subset
<1>. QED  BY <1>3, FS_CardinalityType

\* A step of the handler either leaves the open calls alone or closes the
\* innermost one.
LEMMA OpenMoves ==
  ASSUME TypeInv, stack # << >>, NEW g \in GoodFrames, g.cb = Top.cb, SetTop(g)
  PROVE  /\ \A c \in Callbacks : c # Top.cb => Open(c)' = Open(c)
         /\ g.fate = Top.fate \/ (g.fate # "open" /\ Top.fate # "open")
              => \A c \in Callbacks : Open(c)' = Open(c)
         /\ Top.fate = "open" /\ g.fate # "open"
              => \A c \in Callbacks : c = Top.cb =>
                   Cardinality(Open(c)) \in Nat /\ Cardinality(Open(c)') = Cardinality(Open(c)) - 1
<1>1. /\ stack'[Depth] = g /\ Depth' = Depth /\ Top = stack[Depth] /\ Depth \in 1..Depth
      /\ \A i \in 1..Depth : i # Depth => stack'[i] = stack[i]
  BY SetTopShape, TopIsFrame DEF Depth, Top
<1>2. ASSUME NEW c \in Callbacks, c # Top.cb PROVE Open(c)' = Open(c)
  BY <1>1, <1>2 DEF Open
<1>3. ASSUME NEW c \in Callbacks, g.fate = Top.fate \/ (g.fate # "open" /\ Top.fate # "open")
      PROVE  Open(c)' = Open(c)
  BY <1>1, <1>3 DEF Open
<1>4. ASSUME NEW c \in Callbacks, c = Top.cb, Top.fate = "open", g.fate # "open"
      PROVE  Cardinality(Open(c)) \in Nat /\ Cardinality(Open(c)') = Cardinality(Open(c)) - 1
  <2>1. Open(c)' = Open(c) \ {Depth} /\ Depth \in Open(c)
    BY <1>1, <1>4 DEF Open
  <2>. QED  BY <2>1, OpenFinite, FS_RemoveElement
<1>. QED  BY <1>2, <1>3, <1>4

Counted(c) ==
  /\ Settled(c) + Cardinality(Open(c)) <= invoked[c]
  /\ ~disabled[c] => /\ errored[c] = 0 /\ refused[c] = 0
                     /\ succeeded[c] + Cardinality(Open(c)) = invoked[c]

CountersOf(c) == <<invoked[c], succeeded[c], errored[c], refused[c]>>

LEMMA CountTypes ==
  ASSUME TypeInv, NEW c \in Callbacks
  PROVE  /\ invoked[c] \in Nat /\ succeeded[c] \in Nat /\ errored[c] \in Nat
         /\ refused[c] \in Nat /\ Cardinality(Open(c)) \in Nat
BY OpenFinite DEF TypeInv, TypeOK

LEMMA QuietCount ==
  ASSUME NEW c \in Callbacks, Counted(c), Open(c)' = Open(c),
         CountersOf(c)' = CountersOf(c), disabled'[c] = disabled[c]
  PROVE  Counted(c)'
BY DEF Counted, CountersOf, Settled

\* An open call succeeds, fails, or is lost by a callback that is off.
LEMMA SettleCount ==
  ASSUME TypeInv, CountedOnce, stack # << >>, NEW t \in Callbacks, t = Top.cb,
         NEW g \in GoodFrames, g.cb = t, SetTop(g), Top.fate = "open", g.fate # "open",
         \A c \in Callbacks : c # t =>
            CountersOf(c)' = CountersOf(c) /\ disabled'[c] = disabled[c],
         invoked'[t] = invoked[t], refused'[t] = refused[t],
         \/ /\ succeeded'[t] = succeeded[t] + 1 /\ errored'[t] = errored[t]
            /\ disabled'[t] = disabled[t]
         \/ /\ succeeded'[t] = succeeded[t] /\ errored'[t] = errored[t] + 1 /\ disabled'[t]
         \/ /\ succeeded'[t] = succeeded[t] /\ errored'[t] = errored[t] /\ disabled'[t]
  PROVE  CountedOnce'
<1>1. \A c \in Callbacks : Counted(c)
  BY DEF CountedOnce, Counted
<1>2. ASSUME NEW c \in Callbacks, c # t PROVE Counted(c)'
  BY <1>1, <1>2, OpenMoves, QuietCount
<1>3. Cardinality(Open(t)') = Cardinality(Open(t)) - 1
  BY OpenMoves
<1>4. Counted(t)'
  <2>. DEFINE n == Cardinality(Open(t))
              m == Cardinality(Open(t)')
              was == succeeded[t] + errored[t] + refused[t]
              is == succeeded'[t] + errored'[t] + refused'[t]
  <2>1. /\ n \in Nat /\ m = n - 1 /\ was + n <= invoked[t]
        /\ ~disabled[t] => errored[t] = 0 /\ refused[t] = 0 /\ succeeded[t] + n = invoked[t]
    BY <1>1, <1>3, CountTypes DEF Counted, Settled
  <2>2. /\ succeeded[t] \in Nat /\ errored[t] \in Nat /\ refused[t] \in Nat /\ invoked[t] \in Nat
    BY CountTypes
  <2>. HIDE DEF n, m
  <2>3. is = was \/ is = was + 1
    <3>1. PICK s \in Nat, e \in Nat, r \in Nat :
            s = succeeded[t] /\ e = errored[t] /\ r = refused[t]
      BY <2>2
    <3>2. was = s + e + r
      BY <3>1
    <3>3. is = s + 1 + e + r \/ is = s + (e + 1) + r \/ is = s + e + r
      BY <3>1
    <3>. HIDE DEF is, was
    <3>. QED  BY <3>2, <3>3
  <2>4. was \in Nat
    BY <2>2
  <2>. HIDE DEF is, was
  <2>5. is + m <= invoked'[t]
    BY <2>1, <2>2, <2>3, <2>4
  <2>6. ~disabled'[t] => errored'[t] = 0 /\ refused'[t] = 0 /\ succeeded'[t] + m = invoked'[t]
    BY <2>1, <2>2
  <2>. QED  BY <2>5, <2>6 DEF Counted, Settled, m, is
<1>5. \A c \in Callbacks : Counted(c)'
  BY <1>2, <1>4
<1>. QED  BY <1>5 DEF CountedOnce, Counted

\* Steps that close no call leave the counters alone.
LEMMA StillCount ==
  ASSUME TypeInv, CountedOnce, stack # << >>, NEW g \in GoodFrames, g.cb = Top.cb, SetTop(g),
         g.fate = Top.fate \/ (g.fate # "open" /\ Top.fate # "open"),
         \A c \in Callbacks : CountersOf(c)' = CountersOf(c) /\ disabled'[c] = disabled[c]
  PROVE  CountedOnce'
<1>1. \A c \in Callbacks : Counted(c)
  BY DEF CountedOnce, Counted
<1>2. ASSUME NEW c \in Callbacks PROVE Counted(c)'
  BY <1>1, OpenMoves, QuietCount
<1>. QED  BY <1>2 DEF CountedOnce, Counted

LEMMA AdvanceCount ==
  ASSUME TypeInv, CountedOnce,
         \/ FetchArgument \/ StartEval \/ ZeroReturn
         \/ EvalError \/ RecordError \/ PreserveRecord
  PROVE  CountedOnce'
<1>1. /\ stack # << >> /\ Top \in Frame
  BY TopIsFrame DEF GoodFrames, FetchArgument, StartEval, ZeroReturn, EvalError, RecordError,
     PreserveRecord, At
<1>2. PICK g \in GoodFrames : g.cb = Top.cb /\ SetTop(g)
  BY AdvanceType, ThrowType, RecordType DEF SameCall
<1>3. ASSUME NEW h, SetTop(h) PROVE h = g
  BY <1>1, <1>2, <1>3, SetTopShape
<1>4. g.fate = Top.fate
  BY <1>1, <1>3 DEF FetchArgument, StartEval, ZeroReturn, EvalError, RecordError,
     PreserveRecord, Passed, Drained, Frame
<1>5. \A c \in Callbacks : CountersOf(c)' = CountersOf(c) /\ disabled'[c] = disabled[c]
  BY DEF FetchArgument, StartEval, ZeroReturn, EvalError, RecordError,
     PreserveRecord, errors, counters, CountersOf
<1>. QED  BY <1>1, <1>2, <1>4, <1>5, StillCount

LEMMA SuccessCount ==
  ASSUME TypeInv, CountedOnce, At("eval"), Success(Top.cb)
  PROVE  CountedOnce'
<1>1. /\ stack # << >> /\ Top \in Frame /\ GoodFrame(Top) /\ Top.pc = "eval"
      /\ Top.fate = "open" /\ Top.cb \in Callbacks
  BY TopIsFrame DEF GoodFrames, At, GoodFrame
<1>2. PICK g \in GoodFrames : g = [Top EXCEPT !.pc = "leaving", !.fate = "ok"]
  BY <1>1 DEF GoodFrames, GoodFrame, Frame, Steps, Fates
<1>3. PICK t \in Callbacks : t = Top.cb
  BY <1>1
<1>4. SetTop(g) /\ g.cb = t /\ g.fate = "ok"
  BY <1>1, <1>2, <1>3 DEF Success, Frame
<1>5. /\ succeeded' = [succeeded EXCEPT ![t] = @ + 1]
      /\ UNCHANGED <<invoked, errored, refused, disabled>>
  BY <1>3 DEF Success, errors
<1>6. /\ succeeded'[t] = succeeded[t] + 1
      /\ \A c \in Callbacks : c # t => succeeded'[c] = succeeded[c]
  BY <1>5 DEF TypeInv, TypeOK
<1>7. \A c \in Callbacks : c # t => CountersOf(c)' = CountersOf(c) /\ disabled'[c] = disabled[c]
  BY <1>5, <1>6 DEF CountersOf
<1>. QED  BY <1>1, <1>3, <1>4, <1>5, <1>6, <1>7, SettleCount

LEMMA DisableCount ==
  ASSUME TypeInv, CountedOnce, stack # << >>, NEW f \in Frame, f.cb = Top.cb,
         f.native = f.next, f.next <= NArgs(f.cb), Top.fate = "open",
         NEW why \in Reasons, DisableError(f, why)
  PROVE  CountedOnce'
<1>1. PICK r \in Reasons, g \in GoodFrames :
        /\ g.cb = f.cb /\ SetTop(g) /\ g.fate = "failed"
        /\ errored' = [errored EXCEPT ![f.cb] = @ + 1]
        /\ disabled' = [disabled EXCEPT ![f.cb] = TRUE]
        /\ UNCHANGED <<invoked, succeeded, refused>>
  BY DisableShape
<1>2. g.cb = Top.cb /\ SetTop(g) /\ g.fate = "failed"
  BY <1>1
<1>3. PICK t \in Callbacks : t = Top.cb
  BY DEF Frame
<1>4. /\ errored' = [errored EXCEPT ![t] = @ + 1] /\ disabled' = [disabled EXCEPT ![t] = TRUE]
      /\ UNCHANGED <<invoked, succeeded, refused>>
  BY <1>1, <1>3
<1>5. /\ errored'[t] = errored[t] + 1 /\ disabled'[t]
      /\ \A c \in Callbacks : c # t => errored'[c] = errored[c] /\ disabled'[c] = disabled[c]
  BY <1>4 DEF TypeInv, TypeOK
<1>6. \A c \in Callbacks : c # t => CountersOf(c)' = CountersOf(c) /\ disabled'[c] = disabled[c]
  BY <1>4, <1>5 DEF CountersOf
<1>. QED  BY <1>1, <1>2, <1>3, <1>4, <1>5, <1>6, SettleCount

LEMMA FailingCount ==
  ASSUME TypeInv, CountedOnce,
         \/ FetchUnsupported \/ FetchInvalid \/ ReturnMismatch \/ EvalFailed \/ EvalAborted
         \/ At("eval") /\ DisableError(Top, "unsupported_return")
  PROVE  CountedOnce'
<1>1. stack # << >> /\ Top.pc \in {"marshal", "eval", "thrown"}
  BY DEF FetchUnsupported, FetchInvalid, ReturnMismatch, EvalFailed, EvalAborted, At
<1>2. Top \in Frame /\ GoodFrame(Top) /\ Top.cb \in Callbacks
  BY <1>1, TopIsFrame DEF GoodFrames
<1>3. Top.native = Top.next /\ Top.next <= NArgs(Top.cb) /\ Top.fate = "open"
  BY <1>1, <1>2 DEF GoodFrame
<1>5. ASSUME NEW why \in Reasons, DisableError(Top, why) PROVE CountedOnce'
  BY <1>1, <1>2, <1>3, <1>5, DisableCount
<1>6. CASE FetchUnsupported
  <2>1. PICK g \in Frame : /\ g.cb = Top.cb /\ g.native = g.next /\ g.next <= NArgs(g.cb)
                           /\ DisableError(g, "unsupported_argument")
    BY <1>6, UnsupportedFrame
  <2>. QED  BY <1>1, <1>3, <2>1, DisableCount DEF Reasons
<1>7. CASE ~FetchUnsupported
  BY <1>5, <1>7 DEF FetchInvalid, ReturnMismatch, EvalFailed, EvalAborted, Reasons
<1>. QED  BY <1>6, <1>7

LEMMA BoundaryCount ==
  ASSUME TypeInv, ReasonInv, CountedOnce, BoundaryExit
  PROVE  CountedOnce'
<1>1. /\ stack # << >> /\ Top \in Frame /\ GoodFrame(Top) /\ Top.cb \in Callbacks
      /\ Top.pc \in {"marshal", "eval", "record", "stored"} /\ Depth \in 1..Depth
  BY TopIsFrame DEF GoodFrames, BoundaryExit, BoundaryPoint, At
<1>2. PICK t \in Callbacks : t = Top.cb
  BY <1>1
<1>3. PICK g : g = [Top EXCEPT !.pc = "zero",
                           !.fate = IF Top.fate = "failed" \/ ~disabled[Top.cb]
                                    THEN "failed" ELSE "lost"]
  OBVIOUS
<1>4. g \in GoodFrames /\ g.cb = t /\ SetTop(g) /\ g.fate # "open"
  BY <1>1, <1>2, <1>3 DEF BoundaryExit, GoodFrames, GoodFrame, Frame, Steps, Fates
<1>5. /\ disabled' = [disabled EXCEPT ![t] = TRUE]
      /\ errored' = [errored EXCEPT ![t] = IF disabled[t] THEN @ ELSE @ + 1]
      /\ UNCHANGED <<invoked, succeeded, refused>>
  BY <1>2 DEF BoundaryExit
<1>6. /\ disabled'[t] /\ errored'[t] = (IF disabled[t] THEN errored[t] ELSE errored[t] + 1)
      /\ \A c \in Callbacks : c # t => errored'[c] = errored[c] /\ disabled'[c] = disabled[c]
  BY <1>5 DEF TypeInv, TypeOK
<1>7. \A c \in Callbacks : c # t => CountersOf(c)' = CountersOf(c) /\ disabled'[c] = disabled[c]
  BY <1>5, <1>6 DEF CountersOf
<1>8. CASE Top.pc \in {"record", "stored"}
  <2>1. disabled[t] /\ Top.fate # "open"
    BY <1>1, <1>2, <1>8 DEF ReasonInv, AllPending, Pending, Recording, Top, GoodFrame
  <2>2. CountersOf(t)' = CountersOf(t) /\ disabled'[t] = disabled[t]
    BY <1>5, <1>6, <2>1 DEF CountersOf, TypeInv, TypeOK
  <2>3. \A c \in Callbacks : CountersOf(c)' = CountersOf(c) /\ disabled'[c] = disabled[c]
    BY <1>7, <2>2
  <2>. QED  BY <1>1, <1>2, <1>4, <2>1, <2>3, StillCount
<1>9. CASE Top.pc \notin {"record", "stored"}
  <2>1. Top.fate = "open"
    BY <1>1, <1>9 DEF GoodFrame
  <2>2. invoked'[t] = invoked[t] /\ refused'[t] = refused[t] /\ succeeded'[t] = succeeded[t]
    BY <1>5
  <2>3. (errored'[t] = errored[t] + 1 \/ errored'[t] = errored[t]) /\ disabled'[t]
    BY <1>6
  <2>. QED  BY <1>1, <1>2, <1>4, <1>7, <2>1, <2>2, <2>3, SettleCount, Zenon
<1>. QED  BY <1>8, <1>9

LEMMA InvokeCount ==
  ASSUME TypeInv, CountedOnce, NEW t \in Callbacks, Invoke(t)
  PROVE  CountedOnce'
<1>1. \A c \in Callbacks : Counted(c)
  BY DEF CountedOnce, Counted
<1>2. /\ invoked' = [invoked EXCEPT ![t] = @ + 1]
      /\ refused' = [refused EXCEPT ![t] = IF disabled[t] THEN @ + 1 ELSE @]
      /\ UNCHANGED <<succeeded, errored, disabled>>
  BY DEF Invoke, errors
<1>3. /\ invoked'[t] = invoked[t] + 1
      /\ refused'[t] = (IF disabled[t] THEN refused[t] + 1 ELSE refused[t])
      /\ \A c \in Callbacks : c # t => invoked'[c] = invoked[c] /\ refused'[c] = refused[c]
  BY <1>2 DEF TypeInv, TypeOK
<1>4. ASSUME NEW c \in Callbacks, c # t \/ disabled[t] PROVE Open(c)' = Open(c)
  BY <1>4, InvokeShape DEF Open
<1>5. ASSUME NEW c \in Callbacks, c # t PROVE Counted(c)'
  <2>1. CountersOf(c)' = CountersOf(c) /\ disabled'[c] = disabled[c]
    BY <1>2, <1>3, <1>5 DEF CountersOf
  <2>. QED  BY <1>1, <1>4, <1>5, <2>1, QuietCount
<1>6. CASE disabled[t]
  <2>1. Open(t)' = Open(t)
    BY <1>4, <1>6
  <2>2. Settled(t) + Cardinality(Open(t)) <= invoked[t]
    BY <1>1 DEF Counted
  <2>3. Settled(t)' = Settled(t) + 1 /\ Settled(t) \in Nat
    BY <1>2, <1>3, <1>6, CountTypes DEF Settled
  <2>4. disabled'[t]
    BY <1>2, <1>6
  <2>5. Settled(t)' + Cardinality(Open(t)') <= invoked'[t]
    BY <1>3, <2>1, <2>2, <2>3, CountTypes
  <2>6. Counted(t)'
    BY <2>4, <2>5 DEF Counted
  <2>. QED  BY <1>5, <2>6 DEF CountedOnce, Counted
<1>7. CASE ~disabled[t]
  <2>1. Open(t)' = Open(t) \cup {Depth + 1} /\ Depth + 1 \notin Open(t)
    BY <1>7, InvokeShape DEF Open
  <2>2. Cardinality(Open(t)') = Cardinality(Open(t)) + 1
    BY <2>1, OpenFinite, FS_AddElement
  <2>3. Counted(t)'
    BY <1>1, <1>2, <1>3, <1>7, <2>2, CountTypes DEF Counted, Settled
  <2>. QED  BY <1>5, <2>3 DEF CountedOnce, Counted
<1>. QED  BY <1>6, <1>7

LEMMA CountStep ==
  ASSUME TypeInv, ReasonInv, CountedOnce, [Next]_vars
  PROVE  CountedOnce'
<1>0. \A c \in Callbacks : Counted(c)
  BY DEF CountedOnce, Counted
<1>1. CASE UNCHANGED <<disabled, invoked, succeeded, errored, refused, stack>>
  BY <1>1 DEF CountedOnce, Settled, Open, Depth
<1>2. CASE \E c \in Callbacks : RStep(c)
  BY <1>1, <1>2 DEF RStep, Create, CreateFails, Register, Unregister, DropReference, Finalize,
     errors, counters
<1>3. CASE \E c \in Callbacks : Invoke(c)
  BY <1>3, InvokeCount
<1>4. CASE HandlerStep
  <2>1. CASE \/ FetchArgument \/ StartEval \/ ZeroReturn
             \/ EvalError \/ RecordError \/ PreserveRecord
    BY <2>1, AdvanceCount
  <2>2. CASE FetchUnsupported \/ FetchInvalid \/ ReturnMismatch \/ EvalFailed \/ EvalAborted
    BY <2>2, FailingCount
  <2>3. CASE ReturnString \/ ReturnValue
    <3>1. \/ At("eval") /\ Success(Top.cb)
          \/ At("eval") /\ DisableError(Top, "unsupported_return")
      BY <2>3 DEF ReturnString, ReturnValue, Success
    <3>. QED  BY <3>1, SuccessCount, FailingCount
  <2>4. CASE BoundaryExit
    BY <2>4, BoundaryCount
  <2>5. CASE Leave
    <3>1. UNCHANGED <<disabled, invoked, succeeded, errored, refused>>
      BY <2>5 DEF Leave, errors, counters
    <3>2. stack[Depth].fate # "open"
      BY <2>5, TopIsFrame DEF Leave, At, GoodFrames, GoodFrame, Top
    <3>3. ASSUME NEW c \in Callbacks PROVE Open(c)' = Open(c)
      BY <2>5, <3>2, LeaveShape DEF Open
    <3>4. ASSUME NEW c \in Callbacks PROVE Counted(c)'
      BY <1>0, <3>1, <3>3, QuietCount DEF CountersOf
    <3>. QED  BY <3>4 DEF CountedOnce, Counted
  <2>. QED  BY <1>4, <2>1, <2>2, <2>3, <2>4, <2>5 DEF HandlerStep
<1>5. CASE UNCHANGED vars
  BY <1>1, <1>5 DEF vars, errors, counters
<1>. QED  BY <1>2, <1>3, <1>4, <1>5 DEF Next

LEMMA InitCount == Init => CountedOnce
<1>. SUFFICES ASSUME Init, NEW c \in Callbacks PROVE Counted(c)
  BY DEF CountedOnce, Counted
<1>1. Open(c) = {}
  BY EmptySeq DEF Init, Open, Depth
<1>. QED  BY <1>1, FS_EmptySet DEF Init, Counted, Settled

\* However calls of one callback nest and in whatever order they fail, status()
\* counts none of them twice, and an active callback has had successes only.
THEOREM EachCountedOnce == Spec => []CountedOnce
<1>. DEFINE Inv == TypeInv /\ ReasonInv /\ CountedOnce
<1>1. Init => Inv
  BY InitType, InitReason, InitCount
<1>2. Inv /\ [Next]_vars => Inv'
  BY NextType, ReasonStep, CountStep
<1>. QED  BY <1>1, <1>2, PTL DEF Spec
=============================================================================
