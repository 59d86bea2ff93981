----------------------------- MODULE ArgPlaces ------------------------------
(* Where the bytes of an argument are at the moment of a call.  A place is  *)
(* the sequence of the cells that hold the bytes of a value, in the order   *)
(* the value has in memory; a cell is a byte of a register or of the stack, *)
(* counted from the first stack argument of the call.                       *)
(*                                                                          *)
(* A cursor stands for the counters of one side: the CallVM fills registers *)
(* and its vector argument by argument, DCArgs empties them the same way.   *)
EXTENDS Integers, Sequences

CONSTANT BigEndian   \* DC__Endian_BIG: TRUE or FALSE

Bytes(area, at, n) == [k \in 1..n |-> <<area, at + k - 1>>]
\* The n low-order bytes of a word of `width` bytes.
Low(area, at, width, n) == Bytes(area, IF BigEndian THEN at + width - n ELSE at, n)

\* The counters of a side.  aux: a counter or flag that only one convention has;
\* hidden: the register of the result's address, -1 if there is none.
Start == [int |-> 0, float |-> 0, stack |-> 0, aux |-> 0, hidden |-> -1]

\* What one step of a side yields: where the value is, where a copy of it is
\* if there is one, and the cursor after it.
Placed(cur, at) == [cur |-> cur, at |-> at, copy |-> at]
Then(r, s)      == Placed(s.cur, r.at \o s.at)
Nowhere(cur)    == Placed(cur, <<>>)

\* The n low-order bytes of the next register of an area, `width` bytes wide.
InRegister(c, area, width, n) ==
  Placed([c EXCEPT ![area] = @ + 1], Low(area, width * c[area], width, n))
\* The n low-order bytes of the next `width` bytes of the stack.
OnStack(c, width, n) ==
  Placed([c EXCEPT !.stack = @ + width], Low("stack", c.stack, width, n))
RoundUp(n, to)     == to * ((n + to - 1) \div to)
Aligned(c, to)     == [c EXCEPT !.stack = RoundUp(@, to)]
Smaller(m, n)      == IF m < n THEN m ELSE n
=============================================================================
