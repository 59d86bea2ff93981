------------------------------ MODULE MCLayout ------------------------------
(* Small instances of the layouts: types of one and two bytes, R integers   *)
(* of 8 bits, C integers of up to 16, and doubles of 10 significant bits.   *)
EXTENDS LayoutProps, TLC

CONSTANTS c, C, S, B, d, P

MCTypes == {c, C, S, B, d, P}
MCSize  == c :> 1 @@ C :> 1 @@ S :> 2 @@ B :> 2 @@ d :> 2 @@ P :> 2
MCAlign == [MCSize EXCEPT ![P] = 1]
Shaped(type, len, width) == [type |-> type, len |-> len, width |-> width]

\* "c", "C[3]", "S", "d", and bitfields c:3, C:8, S:9, S:7, B:1; what is refused:
\* d:3, C:9, B:2, C[3]:2; ":0" of two types;
\* and "<P>", a structure of two chars.
MCShapes ==
  {Shaped(c, 1, NoBits), Shaped(C, 3, NoBits), Shaped(S, 1, NoBits), Shaped(d, 1, NoBits),
   Shaped(c, 1, 3), Shaped(C, 1, 8), Shaped(S, 1, 9), Shaped(S, 1, 7), Shaped(B, 1, 1),
   Shaped(d, 1, 3), Shaped(C, 1, 9), Shaped(B, 1, 2), Shaped(C, 3, 2),
   Shaped(C, 1, 0), Shaped(S, 1, 0), Shaped(P, 1, NoBits)}

Laid(kind, pack, align) == [kind |-> kind, pack |-> pack, align |-> align]
MCLayouts == {Laid(kind, NotGiven, NotGiven) : kind \in Kinds}
             \cup {Laid("struct", 1, NotGiven), Laid("struct", 1, 8), Laid("union", 2, 8)}

MCValues ==
  {[kind |-> "integer", n |-> -1],
   [kind |-> "double", n |-> -1], [kind |-> "double", n |-> 173]}
=============================================================================
