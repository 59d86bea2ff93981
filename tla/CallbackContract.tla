-------------------------- MODULE CallbackContract --------------------------
(***************************************************************************)
(* What a callback pointer made by ccallback() promises to the foreign     *)
(* code that calls it, with nothing said of how:                           *)
(*   - calls nest, and the innermost one answers first;                    *)
(*   - a call that finds the callback active may answer a value; one that  *)
(*     finds it inactive answers the zero of its return type;              *)
(*   - a call that fails answers zero and leaves the callback inactive;    *)
(*   - an inactive callback is never active again.                         *)
(***************************************************************************)
EXTENDS Sequences, Naturals

CONSTANT Callbacks

VARIABLES
  active,   \* [Callbacks -> BOOLEAN]: would the next call be admitted?
  calls     \* the foreign calls in progress, innermost last

vars == <<active, calls>>

\* A call is "open" until its answer is fixed.
Call == [cb : Callbacks, state : {"open", "failing", "value", "zero"}]

Last == calls[Len(calls)]

Settle(s) == calls' = [calls EXCEPT ![Len(calls)].state = s]

TypeOK ==
  /\ active \in [Callbacks -> BOOLEAN]
  /\ calls \in Seq(Call)

Init ==
  /\ active = [c \in Callbacks |-> TRUE]
  /\ calls = << >>

Enter(c) ==
  /\ calls' = Append(calls, [cb |-> c, state |-> IF active[c] THEN "open" ELSE "failing"])
  /\ UNCHANGED active

\* The call's own failure switches its callback off.
Fail ==
  /\ calls # << >> /\ Last.state = "open"
  /\ Settle("failing")
  /\ active' = [active EXCEPT ![Last.cb] = FALSE]

Succeed ==
  /\ calls # << >> /\ Last.state = "open"
  /\ Settle("value")
  /\ UNCHANGED active

AnswerZero ==
  /\ calls # << >> /\ Last.state = "failing"
  /\ Settle("zero")
  /\ UNCHANGED active

Leave ==
  /\ calls # << >> /\ Last.state \in {"value", "zero"}
  /\ calls' = SubSeq(calls, 1, Len(calls) - 1)
  /\ UNCHANGED active

Next ==
  \/ \E c \in Callbacks : Enter(c)
  \/ Fail \/ Succeed \/ AnswerZero \/ Leave

Spec == Init /\ [][Next]_vars
=============================================================================
