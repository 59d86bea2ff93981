-------------------------- MODULE ArgPassingProofs --------------------------
(* The caller and the callee of a call agree, for every convention that has  *)
(* a run, every set of aggregates and any number of arguments.               *)
(* Structures nested at eightbytes have the classes of the System V ABI.     *)
EXTENDS ArgPassingProps, SequenceTheorems, FiniteSetTheorems, WellFoundedInduction, TLAPS

Least(m, n) == IF m < n THEN m ELSE n

-----------------------------------------------------------------------------
(* Which registers and stack bytes a caller with counters c has left.       *)

Width(conv) == IF conv \in AggrAbis \cup {"riscv64", "ppc64", "ppc64_elf2", "n64",
                                          "n64_soft", "sparc64"} THEN 8 ELSE 4

IntMark(conv, c) ==
  CASE conv \in {"fast_ms", "fast_gnu"}                -> c.aux
    [] conv = "this_ms"                                -> IF c.stack = 0 THEN 0 ELSE 1
    [] conv \in {"atpcs", "eabi"}                      -> Least(c.stack \div 4, 4)
    [] conv = "armhf"                                  -> c.int \div 4
    [] OTHER                                           -> c.int
FloatMark(conv, c) ==
  CASE conv \in {"win64", "n64", "n64_soft"}           -> c.int
    [] conv \in {"ppc32", "ppc32_darwin"}              -> 2 * c.float
    [] conv \in {"o32", "o32_soft"}                    -> 2 * c.aux
    [] conv = "sparc64"                                -> c.stack \div 8
    [] OTHER                                           -> c.float
StackMark(conv, c) ==
  CASE conv \in {"fast_ms", "fast_gnu"}                -> c.stack - 8
    [] conv = "this_ms"                                -> IF c.stack = 0 THEN 0 ELSE c.stack - 4
    [] conv \in {"atpcs", "eabi"}                      -> IF c.stack < 16 THEN 0 ELSE c.stack - 16
    [] OTHER                                           -> c.stack

\* Hard float fills up the register between two double registers.
FreeRegister(conv, c, area, k) ==
  CASE area = "int"                         -> k >= IntMark(conv, c) /\ k # c.hidden
    [] area = "float" /\ conv = "armhf"     -> k >= c.aux \/ k = c.float
    [] area = "float" /\ conv # "armhf"     -> k >= FloatMark(conv, c)
Free(conv, c, cell) ==
  IF cell[1] = "stack" THEN cell[2] >= StackMark(conv, c)
                       ELSE FreeRegister(conv, c, cell[1], cell[2] \div Width(conv))

-----------------------------------------------------------------------------
(* How the counters of the two sides belong together.                       *)

Same == {"sysv", "win64", "arm64", "apple64", "riscv64", "cdecl", "std", "ppc32",
         "ppc32_darwin", "ppc64", "n64", "n64_soft", "sparc"}

\* The same counters; the result's address may be in the first integer register
\* or the second, or on AArch64 in one that holds no arguments.
SameLink(conv, p, g) ==
  /\ g = p /\ p.int <= 8 /\ p.float <= 13
  /\ conv \notin {"ppc32_darwin", "ppc64"} => p.float <= 8
  /\ p.hidden \in IF conv \in {"sysv", "win64"} THEN {-1, 0, 1} ELSE {-1, 8}
  /\ conv = "sysv" => p.stack % 8 = 0
  /\ conv = "ppc32_darwin" => p.int = 8 \/ p.int >= p.float

\* The caller's vector begins with the registers; the callee may have counted a
\* register too many.
FastLink(p, g) ==
  /\ p.int = 0 /\ p.float = 0 /\ g.int = 0 /\ g.float = 0
  /\ p.stack = g.stack + 8 /\ p.aux <= 2
  /\ p.aux < 2 => g.aux = p.aux
  /\ p.aux = 2 => g.aux >= 2

\* The object has been passed or not.
ThisLink(p, g) == (p = Zero /\ g = Zero) \/ (p.int = 0 /\ p.float = 0 /\ g.int = 0 /\ g.float = 0
                                             /\ p.stack = g.stack + 4 /\ g.aux = 1)

\* The first sixteen bytes of the vector go to four registers.
ArmLink(p, g) ==
  /\ p.int = 0 /\ p.float = 0 /\ g.float = 0 /\ p.stack % 4 = 0
  /\ \/ p.stack < 16  /\ g.stack = 0 /\ p.stack = 4 * g.int
     \/ p.stack >= 16 /\ g.int = 4 /\ p.stack = g.stack + 16

\* The callee lets the counter of double registers lag behind.
HardLink(p, g) ==
  /\ p.int = 4 * g.int /\ p.int <= 16 /\ p.stack = g.stack
  /\ p.float = g.float /\ p.float <= 16 /\ p.aux <= 16 /\ p.aux % 2 = 0
  /\ p.aux = IF g.aux < g.float THEN 2 * ((g.float + 1) \div 2) ELSE g.aux
  /\ p.float = p.aux \/ p.float = 16 \/ (p.float % 2 = 1 /\ p.float < p.aux)

\* The caller writes nothing before the registers are full, and then leaves room
\* for them; the callee's pointer runs from the beginning of that room.
Elf2Link(p, g) ==
  /\ p.int = g.int /\ p.float = g.float /\ p.int <= 8 /\ p.float <= 13
  /\ \/ p.int < 8 /\ p.float <= p.int /\ p.stack = 0 /\ g.stack = 8 * p.int
     \/ p.int = 8 /\ p.stack = 0 /\ g.stack = 64 /\ p.float <= 8
     \/ p.int = 8 /\ p.stack > 64 /\ g.stack = p.stack

\* The callee counts floats up to the first argument of another kind.
O32Link(conv, p, g) ==
  /\ p.int = 0 /\ p.float = 0 /\ g.int = 0 /\ g.float <= 2 /\ p.stack = g.stack
  /\ conv = "o32" /\ g.float < 2 => p.aux = g.float
  /\ p.aux = 0 => p.stack = 0
  /\ p.aux = 1 => p.stack \in {4, 8}

\* The callee counts arguments, the caller their bytes.
Sparc64Link(p, g) ==
  /\ p.int = 0 /\ p.float = 0 /\ g.int = 0 /\ g.float = 0
  /\ p.stack = 8 * g.aux

Linked(conv, p, g) ==
  /\ p \in Counters /\ g \in Counters /\ p.hidden = g.hidden
  /\ conv \notin Same                   => p.hidden = -1
  /\ conv \in Same                      => SameLink(conv, p, g)
  /\ conv \in {"fast_ms", "fast_gnu"}   => FastLink(p, g)
  /\ conv = "this_ms"                   => ThisLink(p, g)
  /\ conv \in {"atpcs", "eabi"}         => ArmLink(p, g)
  /\ conv = "armhf"                     => HardLink(p, g)
  /\ conv = "ppc64_elf2"                => Elf2Link(p, g)
  /\ conv \in {"o32", "o32_soft"}       => O32Link(conv, p, g)
  /\ conv = "sparc64"                   => Sparc64Link(p, g)

\* What the stub of the callback will remove.
Summed ==
  /\ sum \in Counters
  /\ abi = "std" => sum.stack = put.stack
  /\ abi \in {"fast_ms", "fast_gnu"} => sum.stack + 8 = put.stack /\ sum.aux = put.aux

\* What is in use is not free.
Filled ==
  /\ used \subseteq {"int", "float"} \X Nat
  /\ \A u \in used : ~FreeRegister(abi, put, u[1], u[2])
  /\ top \in Nat /\ top <= StackMark(abi, put)

Chosen ==
  /\ abi \in Abis /\ result \in Results(abi) /\ method \in BOOLEAN
  /\ put.hidden = CallerStart(abi, result, method).hidden

IInv == Chosen /\ Linked(abi, put, got) /\ Summed /\ Filled

-----------------------------------------------------------------------------
(* What one argument may do.                                                 *)

Run(area, at, n) == [k \in 1..n |-> <<area, at + k - 1>>]

\* A place that was free before and is in use after the argument.
Fresh(conv, c, d, place) ==
  \A k \in DOMAIN place :
    /\ place[k] \in {"int", "float", "stack"} \X Nat
    /\ Free(conv, c, place[k]) /\ ~Free(conv, d, place[k])

\* Nothing becomes free.
Onward(conv, c, d) ==
  /\ d.hidden = c.hidden
  /\ \A k \in Nat : FreeRegister(conv, d, "int", k) => FreeRegister(conv, c, "int", k)
  /\ \A k \in Nat : FreeRegister(conv, d, "float", k) => FreeRegister(conv, c, "float", k)
  /\ StackMark(conv, c) \in Nat /\ StackMark(conv, d) \in Nat
  /\ StackMark(conv, c) <= StackMark(conv, d)

Moves(conv, c, r) ==
  /\ Onward(conv, c, r.cur)
  /\ Fresh(conv, c, r.cur, r.at) /\ Fresh(conv, c, r.cur, r.copy)

\* What the convention owes to an argument.
Kept(conv, p, g, t) ==
  /\ Get(conv, g, t).at \in {Put(conv, p, t).at, Put(conv, p, t).copy}
  /\ Linked(conv, Put(conv, p, t).cur, Get(conv, g, t).cur)
  /\ Moves(conv, p, Put(conv, p, t))

LEMMA Registers ==
  ASSUME NEW w \in {4, 8}, NEW i \in Nat, NEW j \in Nat, NEW b \in Int, w * i <= b, b < w * j
  PROVE  b \in Nat /\ b \div w \in i..j - 1 /\ b \div w \in Nat
<1>1. CASE w = 4
  BY <1>1
<1>2. CASE w = 8
  BY <1>2
<1> QED BY <1>1, <1>2

LEMMA RegistersFresh ==
  ASSUME NEW conv, NEW c, NEW d, NEW area \in {"int", "float"}, NEW i \in Nat, NEW j \in Nat,
         NEW at \in Int, NEW n \in Int,
         Width(conv) * i <= at, at + n <= Width(conv) * j,
         \A k \in i..j - 1 : FreeRegister(conv, c, area, k) /\ ~FreeRegister(conv, d, area, k)
  PROVE  Fresh(conv, c, d, Run(area, at, n))
<1> DEFINE w == Width(conv)
<1>1. w \in {4, 8}
  BY DEF Width
<1> SUFFICES ASSUME NEW k \in 1..n
             PROVE  /\ <<area, at + k - 1>> \in {"int", "float", "stack"} \X Nat
                    /\ Free(conv, c, <<area, at + k - 1>>)
                    /\ ~Free(conv, d, <<area, at + k - 1>>)
  BY DEF Fresh, Run
<1>2. PICK b \in Int : b = at + k - 1
  OBVIOUS
<1>3. w * i <= b /\ b < w * j
  BY <1>1, <1>2
<1> HIDE DEF w
<1>4. b \in Nat /\ b \div w \in i..j - 1
  BY <1>1, <1>3, Registers
<1>5. area # "stack"
  OBVIOUS
<1> QED BY <1>2, <1>4, <1>5 DEF Free, w

LEMMA StackFresh ==
  ASSUME NEW conv, NEW c, NEW d, NEW at \in Nat, NEW n \in Int,
         StackMark(conv, c) \in Nat, StackMark(conv, d) \in Nat,
         StackMark(conv, c) <= at, at + n <= StackMark(conv, d)
  PROVE  Fresh(conv, c, d, Run("stack", at, n))
<1> SUFFICES ASSUME NEW k \in 1..n
             PROVE  /\ <<"stack", at + k - 1>> \in {"int", "float", "stack"} \X Nat
                    /\ Free(conv, c, <<"stack", at + k - 1>>)
                    /\ ~Free(conv, d, <<"stack", at + k - 1>>)
  BY DEF Fresh, Run
<1>1. PICK b \in Nat : b = at + k - 1
  OBVIOUS
<1> QED BY <1>1 DEF Free

\* Two arguments, or the two halves of one.
LEMMA OnwardOn ==
  ASSUME NEW conv, NEW c, NEW d, NEW e, Onward(conv, c, d), Onward(conv, d, e)
  PROVE  Onward(conv, c, e)
BY DEF Onward

LEMMA FreshBefore ==
  ASSUME NEW conv, NEW c, NEW d, NEW e, NEW place, Onward(conv, d, e), Fresh(conv, c, d, place)
  PROVE  Fresh(conv, c, e, place)
<1> SUFFICES ASSUME NEW k \in DOMAIN place PROVE ~Free(conv, e, place[k])
  BY DEF Fresh
<1>1. /\ place[k] \in {"int", "float", "stack"} \X Nat
      /\ ~Free(conv, d, place[k])
  BY DEF Fresh
<1>2. PICK area \in {"int", "float", "stack"}, b \in Nat : place[k] = <<area, b>>
  BY <1>1
<1>3. CASE area = "stack"
  BY <1>1, <1>2, <1>3 DEF Free, Onward
<1>4. CASE area # "stack"
  <2>1. Width(conv) \in {4, 8}
    BY DEF Width
  <2>2. b \div Width(conv) \in Nat
    BY <2>1
  <2> QED BY <1>1, <1>2, <1>4, <2>2 DEF Free, Onward
<1> QED BY <1>3, <1>4

LEMMA FreshAfter ==
  ASSUME NEW conv, NEW c, NEW d, NEW e, NEW place, Onward(conv, c, d), Fresh(conv, d, e, place)
  PROVE  Fresh(conv, c, e, place)
<1> SUFFICES ASSUME NEW k \in DOMAIN place PROVE Free(conv, c, place[k])
  BY DEF Fresh
<1>1. /\ place[k] \in {"int", "float", "stack"} \X Nat
      /\ Free(conv, d, place[k])
  BY DEF Fresh
<1>2. PICK area \in {"int", "float", "stack"}, b \in Nat : place[k] = <<area, b>>
  BY <1>1
<1>3. CASE area = "stack"
  BY <1>1, <1>2, <1>3 DEF Free, Onward
<1>4. CASE area # "stack"
  <2>1. Width(conv) \in {4, 8}
    BY DEF Width
  <2>2. b \div Width(conv) \in Nat
    BY <2>1
  <2> QED BY <1>1, <1>2, <1>4, <2>2 DEF Free, Onward
<1> QED BY <1>3, <1>4

LEMMA FreshBoth ==
  ASSUME NEW conv, NEW c, NEW d, NEW e, NEW a \in Seq({"int", "float", "stack"} \X Int),
         NEW b \in Seq({"int", "float", "stack"} \X Int),
         Onward(conv, c, d), Onward(conv, d, e), Fresh(conv, c, d, a), Fresh(conv, d, e, b)
  PROVE  Fresh(conv, c, e, a \o b)
<1>1. Fresh(conv, c, e, a) /\ Fresh(conv, c, e, b)
  BY FreshBefore, FreshAfter
<1>2. ASSUME NEW k \in DOMAIN (a \o b)
      PROVE  (\E i \in DOMAIN a : (a \o b)[k] = a[i]) \/ (\E i \in DOMAIN b : (a \o b)[k] = b[i])
  <2>1. k \in 1..Len(a) + Len(b) /\ Len(a) \in Nat /\ Len(b) \in Nat
    BY ConcatProperties
  <2>2. CASE k <= Len(a)
    BY <2>1, <2>2, ConcatProperties
  <2>3. CASE k > Len(a)
    <3>1. k - Len(a) \in DOMAIN b /\ (a \o b)[k] = b[k - Len(a)]
      BY <2>1, <2>3, ConcatProperties
    <3> QED BY <3>1
  <2> QED BY <2>1, <2>2, <2>3
<1> QED BY <1>1, <1>2 DEF Fresh

-----------------------------------------------------------------------------
(* Conventions in which the sides have the same counters.                    *)

Cells == {"int", "float", "stack"} \X Int
Whole(d, at) == [cur |-> d, at |-> at, copy |-> at]
Piece(conv, c, r) == Linked(conv, r.cur, r.cur) /\ r.at \in Seq(Cells) /\ Moves(conv, c, r)

Further(conv, c, d) ==
  /\ Linked(conv, d, d) /\ d.hidden = c.hidden
  /\ c.int <= d.int /\ c.float <= d.float /\ c.stack <= d.stack

LEMMA Typed ==
  ASSUME NEW conv, NEW p, NEW g, Linked(conv, p, g)
  PROVE  /\ p \in Counters /\ g \in Counters /\ p.hidden = g.hidden /\ p.hidden \in Int
         /\ p.int \in Nat /\ p.float \in Nat /\ p.stack \in Nat /\ p.aux \in Nat
         /\ g.int \in Nat /\ g.float \in Nat /\ g.stack \in Nat /\ g.aux \in Nat
BY DEF Linked, Counters

LEMMA SameLinked ==
  ASSUME NEW conv \in Same, NEW c
  PROVE  Linked(conv, c, c) <=> c \in Counters /\ SameLink(conv, c, c)
BY DEF Linked, Same

LEMMA SameMarks ==
  ASSUME NEW conv \in Same, NEW c
  PROVE  /\ IntMark(conv, c) = c.int /\ StackMark(conv, c) = c.stack
         /\ Width(conv) = IF conv \in {"cdecl", "std", "ppc32", "ppc32_darwin", "sparc"} THEN 4 ELSE 8
         /\ \A k : FreeRegister(conv, c, "int", k) <=> k >= c.int /\ k # c.hidden
         /\ \A k : FreeRegister(conv, c, "float", k) <=> k >= FloatMark(conv, c)
         /\ FloatMark(conv, c) = CASE conv \in {"win64", "n64", "n64_soft"} -> c.int
                                   [] conv \in {"ppc32", "ppc32_darwin"} -> 2 * c.float
                                   [] OTHER -> c.float
BY DEF Same, IntMark, FloatMark, StackMark, Width, AggrAbis, FreeRegister

LEMMA FurtherOnward ==
  ASSUME NEW conv \in Same, NEW c, NEW d, Linked(conv, c, c), Further(conv, c, d)
  PROVE  Onward(conv, c, d)
<1>1. /\ c.int \in Nat /\ c.float \in Nat /\ c.stack \in Nat
      /\ d.int \in Nat /\ d.float \in Nat /\ d.stack \in Nat
      /\ d.hidden = c.hidden /\ c.int <= d.int /\ c.float <= d.float /\ c.stack <= d.stack
  BY Typed DEF Further
<1>2. FloatMark(conv, c) \in Nat /\ FloatMark(conv, d) \in Nat /\ FloatMark(conv, c) <= FloatMark(conv, d)
  BY <1>1, SameMarks
<1> QED BY <1>1, <1>2, SameMarks DEF Onward

LEMMA RunIsSeq ==
  ASSUME NEW area \in {"int", "float", "stack"}, NEW at \in Int, NEW n \in Int
  PROVE  Run(area, at, n) \in Seq(Cells)
<1> DEFINE m == IF n < 0 THEN 0 ELSE n
<1>1. m \in Nat /\ 1..n = 1..m
  OBVIOUS
<1> HIDE DEF m
<1>2. Run(area, at, n) \in [1..m -> Cells]
  BY <1>1 DEF Run, Cells
<1> QED BY <1>1, <1>2

\* The integer registers from i up to j.
LEMMA IntFresh ==
  ASSUME NEW conv \in Same, NEW c, NEW d, Linked(conv, c, c), Further(conv, c, d),
         NEW w, w = Width(conv), NEW i \in Nat, NEW j \in Nat, NEW at \in Int, NEW n \in Int,
         w * i <= at, at + n <= w * j, c.int <= i, j <= d.int, c.hidden \notin i..j - 1
  PROVE  Fresh(conv, c, d, Run("int", at, n))
<1>1. /\ c.int \in Nat /\ d.int \in Nat /\ d.hidden = c.hidden
  BY Typed DEF Further
<1>2. \A k \in i..j - 1 : FreeRegister(conv, c, "int", k) /\ ~FreeRegister(conv, d, "int", k)
  BY <1>1, SameMarks
<1> QED BY <1>2, RegistersFresh

LEMMA FloatFresh ==
  ASSUME NEW conv \in Same, NEW c, NEW d, Linked(conv, c, c), Further(conv, c, d),
         NEW w, w = Width(conv), NEW i \in Nat, NEW j \in Nat, NEW at \in Int, NEW n \in Int,
         w * i <= at, at + n <= w * j, FloatMark(conv, c) <= i, j <= FloatMark(conv, d)
  PROVE  Fresh(conv, c, d, Run("float", at, n))
<1>1. FloatMark(conv, c) \in Nat /\ FloatMark(conv, d) \in Nat
  <2>1. c.int \in Nat /\ c.float \in Nat /\ d.int \in Nat /\ d.float \in Nat
    BY Typed DEF Further
  <2> QED BY <2>1, SameMarks
<1>2. \A k \in i..j - 1 : FreeRegister(conv, c, "float", k) /\ ~FreeRegister(conv, d, "float", k)
  BY <1>1, SameMarks
<1> QED BY <1>2, RegistersFresh

LEMMA BytesFresh ==
  ASSUME NEW conv \in Same, NEW c, NEW d, Linked(conv, c, c), Further(conv, c, d),
         NEW at \in Int, NEW n \in Int, c.stack <= at, at + n <= d.stack
  PROVE  Fresh(conv, c, d, Run("stack", at, n))
<1>1. c.stack \in Nat /\ d.stack \in Nat
  BY Typed DEF Further
<1>2. at \in Nat
  BY <1>1
<1> QED BY <1>1, <1>2, SameMarks, StackFresh

LEMMA WholePiece ==
  ASSUME NEW conv \in Same, NEW c, NEW d, Linked(conv, c, c), Further(conv, c, d),
         NEW place \in Seq(Cells), Fresh(conv, c, d, place)
  PROVE  Piece(conv, c, Whole(d, place))
BY FurtherOnward DEF Piece, Moves, Whole, Further

LEMMA PieceAfter ==
  ASSUME NEW conv \in Same, NEW c, NEW d, Linked(conv, c, c), Further(conv, c, d),
         NEW r, Piece(conv, d, r)
  PROVE  Piece(conv, c, r)
<1>1. Onward(conv, c, d)
  BY FurtherOnward
<1> QED BY <1>1, OnwardOn, FreshAfter DEF Piece, Moves

LEMMA PiecesJoin ==
  ASSUME NEW conv, NEW c, NEW r, NEW s, Piece(conv, c, r), Piece(conv, r.cur, s)
  PROVE  Piece(conv, c, Whole(s.cur, r.at \o s.at))
<1>1. Fresh(conv, c, s.cur, r.at \o s.at)
  BY FreshBoth DEF Piece, Moves, Cells
<1>2. Onward(conv, c, s.cur)
  BY OnwardOn DEF Piece, Moves
<1>3. r.at \o s.at \in Seq(Cells)
  BY ConcatProperties DEF Piece
<1> QED BY <1>1, <1>2, <1>3 DEF Piece, Moves, Whole

\* A word of one register, and a word of the stack.
Eight == {"sysv", "win64", "arm64", "apple64", "riscv64", "n64", "n64_soft"}

LEMMA IntWord ==
  ASSUME NEW conv \in Eight, NEW c, Linked(conv, c, c), c.int < 8, c.int # c.hidden,
         NEW at \in Int, NEW n \in Int, 8 * c.int <= at, at + n <= 8 * c.int + 8
  PROVE  Piece(conv, c, Whole([c EXCEPT !.int = @ + 1], Run("int", at, n)))
<1> DEFINE d == [c EXCEPT !.int = @ + 1]
<1>1. /\ c \in Counters /\ c.int \in Nat /\ c.float \in Nat /\ c.stack \in Nat
  BY Typed
<1>2. /\ d \in Counters /\ d.int = c.int + 1 /\ d.float = c.float /\ d.stack = c.stack
      /\ d.hidden = c.hidden
  BY <1>1 DEF Counters
<1> HIDE DEF d
<1>3. conv \in Same /\ Width(conv) = 8
  BY SameMarks DEF Eight, Same
<1>4. Linked(conv, d, d)
  BY <1>1, <1>2, <1>3, SameLinked DEF SameLink, Eight
<1>5. Further(conv, c, d)
  BY <1>1, <1>2, <1>4 DEF Further
<1>6. PICK i \in Nat, j \in Nat : i = c.int /\ j = c.int + 1
  BY <1>1
<1>7. 8 * i <= at /\ at + n <= 8 * j /\ c.int <= i /\ j <= d.int /\ c.hidden \notin i..j - 1
  BY <1>2, <1>6
<1>8. Fresh(conv, c, d, Run("int", at, n))
  BY <1>3, <1>5, <1>7, IntFresh
<1>9. Piece(conv, c, Whole(d, Run("int", at, n)))
  BY <1>3, <1>5, <1>8, WholePiece, RunIsSeq
<1> QED BY <1>9 DEF d

LEMMA FloatWord ==
  ASSUME NEW conv \in {"sysv", "arm64", "apple64", "riscv64"}, NEW c, Linked(conv, c, c), c.float < 8,
         NEW at \in Int, NEW n \in Int, 8 * c.float <= at, at + n <= 8 * c.float + 8
  PROVE  Piece(conv, c, Whole([c EXCEPT !.float = @ + 1], Run("float", at, n)))
<1> DEFINE d == [c EXCEPT !.float = @ + 1]
<1>1. /\ c \in Counters /\ c.int \in Nat /\ c.float \in Nat /\ c.stack \in Nat
  BY Typed
<1>2. /\ d \in Counters /\ d.int = c.int /\ d.float = c.float + 1 /\ d.stack = c.stack
      /\ d.hidden = c.hidden
  BY <1>1 DEF Counters
<1> HIDE DEF d
<1>3. /\ conv \in Same /\ Width(conv) = 8
      /\ FloatMark(conv, c) = c.float /\ FloatMark(conv, d) = d.float
  BY SameMarks DEF Same
<1>4. Linked(conv, d, d)
  BY <1>1, <1>2, <1>3, SameLinked DEF SameLink
<1>5. Further(conv, c, d)
  BY <1>1, <1>2, <1>4 DEF Further
<1>6. PICK i \in Nat, j \in Nat : i = c.float /\ j = c.float + 1
  BY <1>1
<1>7. 8 * i <= at /\ at + n <= 8 * j /\ FloatMark(conv, c) <= i /\ j <= FloatMark(conv, d)
  BY <1>2, <1>3, <1>6
<1>8. Fresh(conv, c, d, Run("float", at, n))
  BY <1>3, <1>5, <1>7, FloatFresh
<1>9. Piece(conv, c, Whole(d, Run("float", at, n)))
  BY <1>3, <1>5, <1>8, WholePiece, RunIsSeq
<1> QED BY <1>9 DEF d

\* Both kinds of register share the counter.
LEMMA SharedWord ==
  ASSUME NEW conv \in {"win64", "n64", "n64_soft"}, NEW c, Linked(conv, c, c), c.int < 8,
         NEW at \in Int, NEW n \in Int, 8 * c.int <= at, at + n <= 8 * c.int + 8
  PROVE  Piece(conv, c, Whole([c EXCEPT !.int = @ + 1], Run("float", at, n)))
<1> DEFINE d == [c EXCEPT !.int = @ + 1]
<1>1. /\ c \in Counters /\ c.int \in Nat /\ c.float \in Nat /\ c.stack \in Nat
  BY Typed
<1>2. /\ d \in Counters /\ d.int = c.int + 1 /\ d.float = c.float /\ d.stack = c.stack
      /\ d.hidden = c.hidden
  BY <1>1 DEF Counters
<1> HIDE DEF d
<1>3. /\ conv \in Same /\ Width(conv) = 8
      /\ FloatMark(conv, c) = c.int /\ FloatMark(conv, d) = d.int
  BY SameMarks DEF Same
<1>4. Linked(conv, d, d)
  BY <1>1, <1>2, <1>3, SameLinked DEF SameLink
<1>5. Further(conv, c, d)
  BY <1>1, <1>2, <1>4 DEF Further
<1>6. PICK i \in Nat, j \in Nat : i = c.int /\ j = c.int + 1
  BY <1>1
<1>7. 8 * i <= at /\ at + n <= 8 * j /\ FloatMark(conv, c) <= i /\ j <= FloatMark(conv, d)
  BY <1>2, <1>3, <1>6
<1>8. Fresh(conv, c, d, Run("float", at, n))
  BY <1>3, <1>5, <1>7, FloatFresh
<1>9. Piece(conv, c, Whole(d, Run("float", at, n)))
  BY <1>3, <1>5, <1>8, WholePiece, RunIsSeq
<1> QED BY <1>9 DEF d

LEMMA StackWord ==
  ASSUME NEW conv \in Same \ {"ppc32_darwin", "ppc64"}, NEW c, Linked(conv, c, c), NEW end \in Nat,
         conv = "sysv" => end % 8 = 0,
         NEW at \in Int, NEW n \in Int, c.stack <= at, at + n <= end, c.stack <= end
  PROVE  Piece(conv, c, Whole([c EXCEPT !.stack = end], Run("stack", at, n)))
<1> DEFINE d == [c EXCEPT !.stack = end]
<1>1. /\ c \in Counters /\ c.int \in Nat /\ c.float \in Nat /\ c.stack \in Nat
  BY Typed
<1>2. /\ d \in Counters /\ d.int = c.int /\ d.float = c.float /\ d.stack = end
      /\ d.hidden = c.hidden
  BY <1>1 DEF Counters
<1> HIDE DEF d
<1>3. Linked(conv, d, d)
  BY <1>1, <1>2, SameLinked DEF SameLink
<1>4. Further(conv, c, d)
  BY <1>1, <1>2, <1>3 DEF Further
<1>5. Fresh(conv, c, d, Run("stack", at, n))
  BY <1>2, <1>4, BytesFresh
<1>6. Piece(conv, c, Whole(d, Run("stack", at, n)))
  BY <1>4, <1>5, WholePiece, RunIsSeq
<1> QED BY <1>6 DEF d

\* The sides do the same.
LEMMA SameKept ==
  ASSUME NEW conv \in Same, NEW p, NEW g, Linked(conv, p, g), NEW t,
         Get(conv, p, t).cur = Put(conv, p, t).cur,
         Get(conv, p, t).at \in {Put(conv, p, t).at, Put(conv, p, t).copy},
         Piece(conv, p, Put(conv, p, t))
  PROVE  Kept(conv, p, g, t)
<1>1. g = p
  BY DEF Linked, SameLink
<1> QED BY <1>1 DEF Kept, Piece

-----------------------------------------------------------------------------
(* System V.                                                                 *)

LEMMA SysvBytes == \A area, at, n : Sysv!Bytes(area, at, n) = Run(area, at, n)
BY DEF Sysv!Bytes, Run

LEMMA SysvInt ==
  ASSUME NEW c, Linked("sysv", c, c), NEW n \in Int, n <= 8
  PROVE  /\ Sysv!GetInt(c, n) = Sysv!PutLongLong(c, n)
         /\ Piece("sysv", c, Sysv!PutLongLong(c, n))
<1>1. Sysv!GetInt(c, n) = Sysv!PutLongLong(c, n)
  BY DEF Sysv!GetInt, Sysv!PutLongLong
<1> DEFINE d == Sysv!SkipHidden(c)
<1>2. /\ c \in Counters /\ c.int \in Nat /\ c.float \in Nat /\ c.stack \in Nat
      /\ SameLink("sysv", c, c) /\ "sysv" \in Same
  BY Typed, SameLinked DEF Same
<1>3. /\ d \in Counters /\ d.float = c.float /\ d.stack = c.stack /\ d.hidden = c.hidden
      /\ d.int >= c.int /\ d.int # d.hidden /\ d.int \in Nat /\ d.int <= 8
  BY <1>2 DEF SameLink, Sysv!SkipHidden, Counters
<1> HIDE DEF d
<1>4. Linked("sysv", d, d)
  BY <1>2, <1>3, SameLinked DEF SameLink
<1>5. Further("sysv", c, d)
  BY <1>2, <1>3, <1>4 DEF Further
<1>6. CASE d.int < Sysv!NumInt
  <2>1. PICK at \in Int : at = 8 * d.int
    BY <1>3
  <2>2. Sysv!PutLongLong(c, n) = Whole([d EXCEPT !.int = @ + 1], Run("int", at, n))
    BY <1>6, <2>1, SysvBytes DEF d, Sysv!PutLongLong, Sysv!InRegister, Sysv!Placed, Sysv!Low, Whole
  <2>3. d.int < 8 /\ 8 * d.int <= at /\ at + n <= 8 * d.int + 8
    BY <1>3, <1>6, <2>1 DEF Sysv!NumInt
  <2>4. Piece("sysv", d, Whole([d EXCEPT !.int = @ + 1], Run("int", at, n)))
    BY <1>3, <1>4, <2>3, IntWord DEF Eight
  <2> QED BY <1>1, <1>2, <1>5, <2>2, <2>4, PieceAfter
<1>7. CASE ~(d.int < Sysv!NumInt)
  <2> DEFINE end == d.stack + 8
  <2>1. Sysv!PutLongLong(c, n) = Whole([d EXCEPT !.stack = end], Run("stack", c.stack, n))
    BY <1>3, <1>7, SysvBytes DEF d, Sysv!PutLongLong, Sysv!OnStack, Sysv!Placed, Sysv!Low, Whole
  <2>2. end \in Nat /\ end % 8 = 0 /\ c.stack + n <= end /\ d.stack <= end
    BY <1>2, <1>3 DEF SameLink
  <2> HIDE DEF end
  <2>3. Piece("sysv", d, Whole([d EXCEPT !.stack = end], Run("stack", c.stack, n)))
    BY <1>2, <1>3, <1>4, <2>2, StackWord
  <2> QED BY <1>1, <1>2, <1>5, <2>1, <2>3, PieceAfter
<1> QED BY <1>6, <1>7

LEMMA SysvDouble ==
  ASSUME NEW c, Linked("sysv", c, c), NEW n \in Int, n <= 8
  PROVE  /\ Sysv!GetDouble(c, n) = Sysv!PutDouble(c, n)
         /\ Piece("sysv", c, Sysv!PutDouble(c, n))
<1>1. Sysv!GetDouble(c, n) = Sysv!PutDouble(c, n)
  BY DEF Sysv!GetDouble, Sysv!PutDouble
<1>2. c.float \in Nat /\ c.stack \in Nat /\ "sysv" \in Same
  BY Typed DEF Same
<1>3. CASE c.float < 8
  <2>1. PICK at \in Int : at = 8 * c.float
    BY <1>2
  <2>2. Sysv!PutDouble(c, n) = Whole([c EXCEPT !.float = @ + 1], Run("float", at, n))
    BY <1>3, <2>1, SysvBytes DEF Sysv!PutDouble, Sysv!NumFloat, Sysv!SseCount, Sysv!Sse, Sysv!Placed, Whole
  <2>3. 8 * c.float <= at /\ at + n <= 8 * c.float + 8
    BY <1>2, <2>1
  <2> QED BY <1>1, <1>3, <2>2, <2>3, FloatWord
<1>4. CASE ~(c.float < 8)
  <2> DEFINE end == c.stack + 8
  <2>1. Sysv!PutDouble(c, n) = Whole([c EXCEPT !.stack = end], Run("stack", c.stack, n))
    BY <1>4, SysvBytes DEF Sysv!PutDouble, Sysv!NumFloat, Sysv!SseCount, Sysv!OnStack, Sysv!Low, Sysv!Placed, Whole
  <2>2. end \in Nat /\ end % 8 = 0 /\ c.stack + n <= end /\ c.stack <= end
    BY <1>2, SameLinked DEF SameLink
  <2> HIDE DEF end
  <2> QED BY <1>1, <1>2, <2>1, <2>2, StackWord
<1> QED BY <1>3, <1>4

\* An aggregate in registers and one on the stack.
LEMMA SysvEightbyte ==
  ASSUME NEW c, Linked("sysv", c, c), NEW ag \in Aggregates, NEW i \in 1..2, i \in DOMAIN ag.classes,
         ag.classes # <<"MEMORY">>
  PROVE  /\ Sysv!GetEightbyte(c, ag, i) = Sysv!PutEightbyte(c, ag, i)
         /\ Piece("sysv", c, Sysv!PutEightbyte(c, ag, i))
<1> DEFINE n == Sysv!EightbyteSize(ag, i)
<1>1. /\ ag.size \in Nat /\ ag.classes[i] \in {"INTEGER", "SSE"}
      /\ ag.classes[i] = "SSE" => ag.size = 8 * i - 4 \/ ag.size >= 8 * i
  BY AggregatesAssumption
<1>2. n \in Int /\ n <= 8 /\ (ag.classes[i] = "SSE" => n \in {4, 8})
  BY <1>1 DEF Sysv!EightbyteSize, Sysv!Smaller
<1> HIDE DEF n
<1>3. CASE ag.classes[i] = "INTEGER"
  BY <1>2, <1>3, SysvInt DEF n, Sysv!GetEightbyte, Sysv!PutEightbyte
<1>4. CASE ag.classes[i] = "SSE"
  BY <1>2, <1>4, SysvDouble DEF n, Sysv!GetEightbyte, Sysv!PutEightbyte
<1> QED BY <1>1, <1>3, <1>4

LEMMA SysvEightbytes ==
  ASSUME NEW c, Linked("sysv", c, c), NEW ag \in Aggregates, ag.classes # <<"MEMORY">>
  PROVE  /\ Sysv!GetEightbytes(c, ag) = Sysv!PutEightbytes(c, ag)
         /\ Piece("sysv", c, Sysv!PutEightbytes(c, ag))
<1> DEFINE r == Sysv!PutEightbyte(c, ag, 1)
           s == Sysv!PutEightbyte(r.cur, ag, 2)
<1>1. PICK m \in {1, 2} : ag.classes \in [1..m -> {"INTEGER", "SSE"}]
  BY AggregatesAssumption
<1>2. Len(ag.classes) = m /\ 1 \in DOMAIN ag.classes /\ (m = 2 => 2 \in DOMAIN ag.classes)
  BY <1>1
<1>3. Sysv!GetEightbyte(c, ag, 1) = r /\ Piece("sysv", c, r)
  BY <1>2, SysvEightbyte
<1>4. CASE m = 1
  BY <1>2, <1>3, <1>4 DEF Sysv!GetEightbytes, Sysv!PutEightbytes
<1>5. CASE m = 2
  <2>1. Linked("sysv", r.cur, r.cur)
    BY <1>3 DEF Piece
  <2> HIDE DEF r
  <2>2. Sysv!GetEightbyte(r.cur, ag, 2) = s /\ Piece("sysv", r.cur, s)
    BY <1>2, <1>5, <2>1, SysvEightbyte
  <2>3. Sysv!PutEightbytes(c, ag) = Whole(s.cur, r.at \o s.at)
    BY <1>2, <1>5 DEF r, s, Sysv!PutEightbytes, Sysv!Then, Sysv!Placed, Whole
  <2> HIDE DEF s
  <2>4. Sysv!GetEightbytes(c, ag) = Whole(s.cur, r.at \o s.at)
    <3>1. Sysv!GetEightbytes(c, ag) =
            LET first == Sysv!GetEightbyte(c, ag, 1)
            IN  Sysv!Then(first, Sysv!GetEightbyte(first.cur, ag, 2))
      BY <1>2, <1>5 DEF Sysv!GetEightbytes
    <3>2. Sysv!GetEightbytes(c, ag) = Sysv!Then(r, s)
      BY <1>3, <2>2, <3>1
    <3> QED BY <3>2 DEF Sysv!Then, Sysv!Placed, Whole
  <2> QED BY <1>3, <2>2, <2>3, <2>4, PiecesJoin
<1> QED BY <1>4, <1>5

\* The caller aligns the stack behind an aggregate, the callee rounds its size up.
LEMMA RoundedUp ==
  ASSUME NEW s \in Nat, NEW n \in Nat, s % 8 = 0
  PROVE  /\ 8 * ((s + n + 8 - 1) \div 8) = s + 8 * ((n + 7) \div 8)
         /\ s + n <= s + 8 * ((n + 7) \div 8) /\ (s + 8 * ((n + 7) \div 8)) % 8 = 0
         /\ 8 * ((n + 7) \div 8) \in Nat
OBVIOUS

LEMMA SysvMemory ==
  ASSUME NEW c, Linked("sysv", c, c), NEW ag \in Aggregates,
         ~ag.nontrivial, Sysv!InMemory(c, ag)
  PROVE  /\ Sysv!GetAggr(c, ag) = Sysv!PutAggr(c, ag)
         /\ Piece("sysv", c, Sysv!PutAggr(c, ag))
<1>1. PICK n \in Nat, s \in Nat : n = ag.size /\ s = c.stack
  BY Typed, AggregatesAssumption
<1>2. PICK m \in Nat : m = 8 * ((n + 7) \div 8)
  OBVIOUS
<1>3. "sysv" \in Same /\ c \in Counters /\ SameLink("sysv", c, c)
  BY SameLinked DEF Same
<1>4. s % 8 = 0 /\ 8 * ((s + n + 8 - 1) \div 8) = s + m /\ s + n <= s + m /\ (s + m) % 8 = 0
  <2>1. s % 8 = 0
    BY <1>1, <1>3 DEF SameLink
  <2> QED BY <1>2, <2>1, RoundedUp
<1> DEFINE d == [c EXCEPT !.stack = s + m]
<1>5. /\ d \in Counters /\ d.int = c.int /\ d.float = c.float /\ d.stack = s + m
      /\ d.hidden = c.hidden
  BY <1>1, <1>3 DEF Counters
<1>6. Sysv!PutAggr(c, ag) = Whole(d, Run("stack", s, n))
  <2>1. Sysv!Aligned([c EXCEPT !.stack = @ + ag.size], 8) = d
    <3>1. [c EXCEPT !.stack = @ + ag.size] = [c EXCEPT !.stack = s + n]
      BY <1>1
    <3>2. [c EXCEPT !.stack = s + n].stack = s + n
      BY <1>3 DEF Counters
    <3> QED BY <1>3, <1>4, <3>1, <3>2 DEF Sysv!Aligned, Sysv!RoundUp, Counters
  <2> QED BY <1>1, <2>1, SysvBytes DEF Sysv!PutAggr, Sysv!Placed, Whole
<1>7. Sysv!GetAggr(c, ag) = Whole(d, Run("stack", s, n))
  BY <1>1, <1>2, SysvBytes DEF Sysv!GetAggr, Sysv!Placed, Whole
<1> HIDE DEF d
<1>8. Linked("sysv", d, d)
  BY <1>3, <1>4, <1>5, SameLinked DEF SameLink
<1>9. Further("sysv", c, d)
  <2>1. c.int \in Nat /\ c.float \in Nat
    BY Typed
  <2> QED BY <1>1, <1>2, <1>5, <1>8, <2>1 DEF Further
<1>10. Fresh("sysv", c, d, Run("stack", s, n))
  BY <1>1, <1>3, <1>4, <1>5, <1>9, BytesFresh
<1> QED BY <1>3, <1>6, <1>7, <1>9, <1>10, WholePiece, RunIsSeq

LEMMA SysvKept ==
  ASSUME NEW p, NEW g, Linked("sysv", p, g), NEW t \in Types("sysv")
  PROVE  Kept("sysv", p, g, t)
<1>1. "sysv" \in Same /\ "sysv" \in AggrAbis
  BY DEF Same, AggrAbis
<1>2. Linked("sysv", p, p)
  BY <1>1 DEF Linked, SameLink
<1>3. Sysv!Get(p, t) = Sysv!Put(p, t) /\ Piece("sysv", p, Sysv!Put(p, t))
  <2>1. CASE t \in Scalars
    <3>1. Sysv!Sizes[t.type] \in Int /\ Sysv!Sizes[t.type] <= 8 /\ t.type # "aggr"
      BY <2>1 DEF Scalars, ScalarNames, Sysv!Sizes
    <3> QED BY <1>2, <3>1, SysvInt, SysvDouble DEF Sysv!Get, Sysv!Put
  <2>2. CASE t \in Aggregates
    <3>1. t.type = "aggr" /\ t.nontrivial \in BOOLEAN
      BY <2>2, AggregatesAssumption
    <3>2. CASE t.nontrivial
      <4>1. Sysv!GetAggr(p, t) = Sysv!GetInt(p, 8) /\ Sysv!PutAggr(p, t) = Sysv!PutLongLong(p, 8)
        BY <3>2 DEF Sysv!GetAggr, Sysv!PutAggr
      <4> QED BY <1>2, <3>1, <4>1, SysvInt DEF Sysv!Get, Sysv!Put
    <3>3. CASE ~t.nontrivial /\ Sysv!InMemory(p, t)
      BY <1>2, <2>2, <3>1, <3>3, SysvMemory DEF Sysv!Get, Sysv!Put
    <3>4. CASE ~t.nontrivial /\ ~Sysv!InMemory(p, t)
      <4>1. t.classes # <<"MEMORY">>
        BY <3>4 DEF Sysv!InMemory
      <4>2. Sysv!GetAggr(p, t) = Sysv!GetEightbytes(p, t) /\ Sysv!PutAggr(p, t) = Sysv!PutEightbytes(p, t)
        BY <3>4 DEF Sysv!GetAggr, Sysv!PutAggr
      <4> QED BY <1>2, <2>2, <3>1, <4>1, <4>2, SysvEightbytes DEF Sysv!Get, Sysv!Put
    <3> QED BY <3>1, <3>2, <3>3, <3>4
  <2> QED BY <1>1, <2>1, <2>2 DEF Types
<1>4. Get("sysv", p, t) = Sysv!Get(p, t) /\ Put("sysv", p, t) = Sysv!Put(p, t)
  BY DEF Get, Put
<1> QED BY <1>1, <1>3, <1>4, SameKept

-----------------------------------------------------------------------------
(* Windows on x86-64.                                                        *)

LEMMA Win64Bytes == \A area, at, n : Win64!Bytes(area, at, n) = Run(area, at, n)
BY DEF Win64!Bytes, Run

LEMMA Win64Skips ==
  ASSUME NEW c, Linked("win64", c, c)
  PROVE  /\ Further("win64", c, Win64!SkipHidden(c))
         /\ Linked("win64", Win64!SkipHidden(c), Win64!SkipHidden(c))
         /\ Win64!SkipHidden(c).int \in Nat /\ Win64!SkipHidden(c).stack \in Nat
         /\ Win64!SkipHidden(c).int # Win64!SkipHidden(c).hidden
<1> DEFINE d == Win64!SkipHidden(c)
<1>1. /\ c \in Counters /\ c.int \in Nat /\ c.float \in Nat /\ c.stack \in Nat
      /\ SameLink("win64", c, c) /\ "win64" \in Same
  BY Typed, SameLinked DEF Same
<1>2. /\ d \in Counters /\ d.float = c.float /\ d.stack = c.stack /\ d.hidden = c.hidden
      /\ d.int >= c.int /\ d.int # d.hidden /\ d.int \in Nat /\ d.int <= 8
  BY <1>1 DEF SameLink, Win64!SkipHidden, Counters
<1> HIDE DEF d
<1>3. Linked("win64", d, d)
  BY <1>1, <1>2, SameLinked DEF SameLink
<1>4. Further("win64", c, d)
  BY <1>1, <1>2, <1>3 DEF Further
<1> QED BY <1>1, <1>2, <1>3, <1>4 DEF d

LEMMA Win64Int ==
  ASSUME NEW c, Linked("win64", c, c), NEW n \in Int, n <= 8
  PROVE  /\ Win64!GetInt(c, n) = Win64!PutLongLong(c, n)
         /\ Piece("win64", c, Win64!PutLongLong(c, n))
<1> DEFINE d == Win64!SkipHidden(c)
<1>1. Win64!GetInt(c, n) = Win64!PutLongLong(c, n)
  BY DEF Win64!GetInt, Win64!PutLongLong
<1>2. /\ Further("win64", c, d) /\ Linked("win64", d, d) /\ d.int \in Nat /\ d.stack \in Nat
      /\ d.int # d.hidden /\ "win64" \in Same
  BY Win64Skips DEF Same
<1> HIDE DEF d
<1>3. CASE d.int < Win64!NumInt
  <2>1. PICK at \in Int : at = 8 * d.int
    BY <1>2
  <2>2. Win64!PutLongLong(c, n) = Whole([d EXCEPT !.int = @ + 1], Run("int", at, n))
    BY <1>3, <2>1, Win64Bytes
    DEF d, Win64!PutLongLong, Win64!InRegister, Win64!Placed, Win64!Low, Whole
  <2>3. d.int < 8 /\ 8 * d.int <= at /\ at + n <= 8 * d.int + 8
    BY <1>2, <1>3, <2>1 DEF Win64!NumInt
  <2>4. Piece("win64", d, Whole([d EXCEPT !.int = @ + 1], Run("int", at, n)))
    BY <1>2, <2>3, IntWord DEF Eight
  <2> QED BY <1>1, <1>2, <2>2, <2>4, PieceAfter
<1>4. CASE ~(d.int < Win64!NumInt)
  <2> DEFINE end == d.stack + 8
  <2>1. Win64!PutLongLong(c, n) = Whole([d EXCEPT !.stack = end], Run("stack", d.stack, n))
    BY <1>4, Win64Bytes DEF d, Win64!PutLongLong, Win64!OnStack, Win64!Placed, Win64!Low, Whole
  <2>2. end \in Nat /\ d.stack + n <= end /\ d.stack <= end
    BY <1>2
  <2> HIDE DEF end
  <2>3. Piece("win64", d, Whole([d EXCEPT !.stack = end], Run("stack", d.stack, n)))
    BY <1>2, <2>2, StackWord
  <2> QED BY <1>1, <1>2, <2>1, <2>3, PieceAfter
<1> QED BY <1>3, <1>4

LEMMA Win64Double ==
  ASSUME NEW c, Linked("win64", c, c), NEW n \in Int, n <= 8
  PROVE  /\ Win64!GetDouble(c, n) = Win64!PutDouble(c, n)
         /\ Piece("win64", c, Win64!PutDouble(c, n))
<1> DEFINE d == Win64!SkipHidden(c)
<1>1. Win64!GetDouble(c, n) = Win64!PutDouble(c, n)
  BY DEF Win64!GetDouble, Win64!PutDouble
<1>2. /\ Further("win64", c, d) /\ Linked("win64", d, d) /\ d.int \in Nat /\ d.stack \in Nat
      /\ "win64" \in Same
  BY Win64Skips DEF Same
<1> HIDE DEF d
<1>3. CASE d.int < 4
  <2>1. PICK at \in Int : at = 8 * d.int
    BY <1>2
  <2>2. Win64!PutDouble(c, n) = Whole([d EXCEPT !.int = @ + 1], Run("float", at, n))
    BY <1>3, <2>1, Win64Bytes
    DEF d, Win64!PutDouble, Win64!NumFloat, Win64!SseCount, Win64!Sse, Win64!Placed, Whole
  <2>3. d.int < 8 /\ 8 * d.int <= at /\ at + n <= 8 * d.int + 8
    BY <1>2, <1>3, <2>1
  <2>4. Piece("win64", d, Whole([d EXCEPT !.int = @ + 1], Run("float", at, n)))
    BY <1>2, <2>3, SharedWord
  <2> QED BY <1>1, <1>2, <2>2, <2>4, PieceAfter
<1>4. CASE ~(d.int < 4)
  <2> DEFINE end == d.stack + 8
  <2>1. Win64!PutDouble(c, n) = Whole([d EXCEPT !.stack = end], Run("stack", d.stack, n))
    BY <1>4, Win64Bytes
    DEF d, Win64!PutDouble, Win64!NumFloat, Win64!SseCount, Win64!OnStack, Win64!Low, Win64!Placed, Whole
  <2>2. end \in Nat /\ d.stack + n <= end /\ d.stack <= end
    BY <1>2
  <2> HIDE DEF end
  <2>3. Piece("win64", d, Whole([d EXCEPT !.stack = end], Run("stack", d.stack, n)))
    BY <1>2, <2>2, StackWord
  <2> QED BY <1>1, <1>2, <2>1, <2>3, PieceAfter
<1> QED BY <1>3, <1>4

LEMMA Win64Kept ==
  ASSUME NEW p, NEW g, Linked("win64", p, g), NEW t \in Types("win64")
  PROVE  Kept("win64", p, g, t)
<1>1. "win64" \in Same /\ "win64" \in AggrAbis
  BY DEF Same, AggrAbis
<1>2. Linked("win64", p, p)
  BY <1>1 DEF Linked, SameLink
<1>3. Win64!Get(p, t) = Win64!Put(p, t) /\ Piece("win64", p, Win64!Put(p, t))
  <2>1. CASE t \in Scalars
    <3>1. Win64!Sizes[t.type] \in Int /\ Win64!Sizes[t.type] <= 8 /\ t.type # "aggr"
      BY <2>1 DEF Scalars, ScalarNames, Win64!Sizes
    <3> QED BY <1>2, <3>1, Win64Int, Win64Double DEF Win64!Get, Win64!Put
  <2>2. CASE t \in Aggregates
    <3> DEFINE n == IF ~t.nontrivial /\ Win64!PowerOf2(t.size) THEN t.size ELSE 8
    <3>1. t.type = "aggr" /\ t.nontrivial \in BOOLEAN
      BY <2>2, AggregatesAssumption
    <3>2. n \in Int /\ n <= 8
      BY DEF Win64!PowerOf2
    <3>3. /\ Win64!Get(p, t) = Win64!GetInt(p, n)
          /\ Win64!Put(p, t) = Win64!PutLongLong(p, n)
      BY <3>1 DEF Win64!Get, Win64!Put, Win64!GetAggr, Win64!PutAggr
    <3> HIDE DEF n
    <3> QED BY <1>2, <3>2, <3>3, Win64Int
  <2> QED BY <1>1, <2>1, <2>2 DEF Types
<1>4. Get("win64", p, t) = Win64!Get(p, t) /\ Put("win64", p, t) = Win64!Put(p, t)
  BY DEF Get, Put
<1> QED BY <1>1, <1>3, <1>4, SameKept

-----------------------------------------------------------------------------
(* AArch64.                                                                  *)

LEMMA RoundsUp ==
  ASSUME NEW n \in Nat, NEW to \in {1, 2, 4, 8}
  PROVE  to * ((n + to - 1) \div to) \in Nat /\ n <= to * ((n + to - 1) \div to)
<1>1. CASE to = 1
  BY <1>1
<1>2. CASE to = 2
  BY <1>2
<1>3. CASE to = 4
  BY <1>3
<1>4. CASE to = 8
  BY <1>4
<1> QED BY <1>1, <1>2, <1>3, <1>4

\* Byte b of the fields of a homogeneous aggregate.
LEMMA HfaByte ==
  ASSUME NEW e \in {4, 8}, NEW h \in Nat, NEW f \in Nat, NEW b \in 1..h * e
  PROVE  /\ 8 * (f + ((b - 1) \div e)) + ((b - 1) % e) \in Nat
         /\ (8 * (f + ((b - 1) \div e)) + ((b - 1) % e)) \div 8 \in f..f + h - 1
<1>1. CASE e = 4
  BY <1>1
<1>2. CASE e = 8
  BY <1>2
<1> QED BY <1>1, <1>2

LEMMA StackTwice ==
  ASSUME NEW c \in Counters, NEW s, NEW t
  PROVE  /\ [[c EXCEPT !.stack = s] EXCEPT !.stack = t] = [c EXCEPT !.stack = t]
         /\ [c EXCEPT !.stack = s].stack = s
BY DEF Counters

LEMMA FloatsFree ==
  ASSUME NEW conv \in {"sysv", "arm64", "apple64", "riscv64"}, NEW c, NEW k
  PROVE  FreeRegister(conv, c, "float", k) <=> k >= c.float
<1>1. conv \in Same
  BY DEF Same
<1>2. FloatMark(conv, c) = c.float
  BY DEF FloatMark
<1> QED BY <1>1, <1>2, SameMarks

LEMMA IntsFresh ==
  ASSUME NEW conv \in Eight, NEW c, NEW d, Linked(conv, c, c), Further(conv, c, d),
         NEW i \in Nat, NEW j \in Nat, NEW at \in Int, NEW n \in Int,
         8 * i <= at, at + n <= 8 * j, c.int <= i, j <= d.int, c.hidden \notin i..j - 1
  PROVE  Fresh(conv, c, d, Run("int", at, n))
<1>1. conv \in Same
  BY DEF Eight, Same
<1>2. PICK w : w = 8 /\ w = Width(conv)
  BY <1>1, SameMarks DEF Eight
<1>3. w * i <= at /\ at + n <= w * j
  BY <1>2
<1> QED BY <1>1, <1>2, <1>3, IntFresh

LEMMA Arm64Bytes == \A area, at, n : Arm64!Bytes(area, at, n) = Run(area, at, n)
BY DEF Arm64!Bytes, Run

LEMMA Arm64Add ==
  ASSUME NEW c, Linked("arm64", c, c), NEW n \in {1, 2, 4, 8}
  PROVE  Arm64!Fetch(c, n) = Arm64!Add(c, n) /\ Piece("arm64", c, Arm64!Add(c, n))
<1>1. c.stack \in Nat /\ "arm64" \in Same
  BY Typed DEF Same
<1> DEFINE end == c.stack + 8
<1>2. Arm64!Add(c, n) = Whole([c EXCEPT !.stack = end], Run("stack", c.stack, n))
  BY Arm64Bytes DEF Arm64!Add, Arm64!OnStack, Arm64!Low, Arm64!Placed, Whole
<1>3. end \in Nat /\ c.stack + n <= end /\ c.stack <= end
  BY <1>1
<1> HIDE DEF end
<1>4. Arm64!Fetch(c, n) = Arm64!Add(c, n)
  BY DEF Arm64!Fetch, Arm64!Add
<1> QED BY <1>1, <1>2, <1>3, <1>4, StackWord

LEMMA Arm64Int ==
  ASSUME NEW c, Linked("arm64", c, c), NEW n \in {1, 2, 4, 8}
  PROVE  Arm64!GetInt(c, n) = Arm64!PutInt(c, n) /\ Piece("arm64", c, Arm64!PutInt(c, n))
<1>1. CASE c.int < 8
  <2>1. c.int \in Nat /\ c.int # c.hidden
    BY <1>1, Typed, SameLinked DEF SameLink, Same
  <2>2. PICK at \in Int : at = 8 * c.int
    BY <2>1
  <2>3. Arm64!PutInt(c, n) = Whole([c EXCEPT !.int = @ + 1], Run("int", at, n))
    BY <1>1, <2>2, Arm64Bytes
    DEF Arm64!PutInt, Arm64!NumRegs, Arm64!InRegister, Arm64!Low, Arm64!Placed, Whole
  <2>4. 8 * c.int <= at /\ at + n <= 8 * c.int + 8
    BY <2>1, <2>2
  <2>5. Arm64!GetInt(c, n) = Arm64!PutInt(c, n)
    BY <1>1 DEF Arm64!GetInt, Arm64!PutInt, Arm64!NumRegs
  <2> QED BY <1>1, <2>1, <2>3, <2>4, <2>5, IntWord DEF Eight
<1>2. CASE ~(c.int < 8)
  BY <1>2, Arm64Add DEF Arm64!GetInt, Arm64!PutInt, Arm64!NumRegs
<1> QED BY <1>1, <1>2

LEMMA Arm64Float ==
  ASSUME NEW c, Linked("arm64", c, c), NEW n \in {1, 2, 4, 8}
  PROVE  Arm64!GetFloat(c, n) = Arm64!PutFloat(c, n) /\ Piece("arm64", c, Arm64!PutFloat(c, n))
<1>1. CASE c.float < 8
  <2>1. c.float \in Nat
    BY Typed
  <2>2. PICK at \in Int : at = 8 * c.float
    BY <2>1
  <2>3. Arm64!PutFloat(c, n) = Whole([c EXCEPT !.float = @ + 1], Run("float", at, n))
    BY <1>1, <2>2, Arm64Bytes
    DEF Arm64!PutFloat, Arm64!NumRegs, Arm64!InRegister, Arm64!Low, Arm64!Placed, Whole
  <2>4. 8 * c.float <= at /\ at + n <= 8 * c.float + 8
    BY <2>1, <2>2
  <2>5. Arm64!GetFloat(c, n) = Arm64!PutFloat(c, n)
    BY <1>1 DEF Arm64!GetFloat, Arm64!PutFloat, Arm64!NumRegs
  <2> QED BY <1>1, <2>1, <2>3, <2>4, <2>5, FloatWord
<1>2. CASE ~(c.float < 8)
  BY <1>2, Arm64Add DEF Arm64!GetFloat, Arm64!PutFloat, Arm64!NumRegs
<1> QED BY <1>1, <1>2

\* An aggregate on the stack.
LEMMA Arm64Copy ==
  ASSUME NEW c, Linked("arm64", c, c), NEW ag \in Aggregates
  PROVE  Arm64!CopyStack(c, ag) = Arm64!AddAggr(c, ag) /\ Piece("arm64", c, Arm64!AddAggr(c, ag))
<1>1. PICK n \in Nat, s \in Nat : n = ag.size /\ s = c.stack
  BY Typed, AggregatesAssumption
<1>2. PICK m \in Nat, at \in Nat : m = 8 * ((n + 8 - 1) \div 8) /\ at = 8 * ((s + 8 - 1) \div 8)
  OBVIOUS
<1>3. c \in Counters /\ "arm64" \in Same
  BY Typed DEF Same
<1>4. n <= m /\ s <= at
  BY <1>2, RoundsUp
<1> DEFINE end == at + m
<1>5. Arm64!Aligned(c, 8) = [c EXCEPT !.stack = at]
  BY <1>1, <1>2 DEF Arm64!Aligned, Arm64!RoundUp
<1>6. Arm64!RoundUp(ag.size, 8) = m
  BY <1>1, <1>2 DEF Arm64!RoundUp
<1>7. Arm64!AddAggr(c, ag) = Whole([c EXCEPT !.stack = end], Run("stack", at, n))
  BY <1>1, <1>3, <1>5, <1>6, Arm64Bytes, StackTwice DEF Arm64!AddAggr, Arm64!Placed, Whole
<1>8. Arm64!CopyStack(c, ag) = Arm64!AddAggr(c, ag)
  BY DEF Arm64!CopyStack, Arm64!AddAggr
<1>9. end \in Nat /\ c.stack <= at /\ at + n <= end /\ c.stack <= end
  BY <1>1, <1>4
<1> HIDE DEF end
<1> QED BY <1>3, <1>7, <1>8, <1>9, StackWord

LEMMA Arm64Hfa ==
  ASSUME NEW c, Linked("arm64", c, c), NEW ag \in Aggregates, ag.hfa > 0
  PROVE  Arm64!GetHfa(c, ag) = Arm64!PutHfa(c, ag) /\ Piece("arm64", c, Arm64!PutHfa(c, ag))
<1>1. PICK h \in Nat, f \in Nat, e \in {4, 8} :
        h = ag.hfa /\ f = c.float /\ e = ag.elem /\ ag.size = h * e
  BY Typed, AggregatesAssumption DEF MaxHfaFields
<1>2. /\ c \in Counters /\ SameLink("arm64", c, c) /\ "arm64" \in Same /\ Width("arm64") = 8
      /\ c.int \in Nat /\ c.float \in Nat /\ c.stack \in Nat
  BY Typed, SameLinked, SameMarks DEF Same
<1>3. ASSUME NEW k \in Nat, f <= k, k <= 8
      PROVE  Further("arm64", c, [c EXCEPT !.float = k]) /\ Linked("arm64", [c EXCEPT !.float = k], [c EXCEPT !.float = k])
  <2> DEFINE d == [c EXCEPT !.float = k]
  <2>1. /\ d \in Counters /\ d.float = k /\ d.int = c.int /\ d.stack = c.stack /\ d.hidden = c.hidden
    BY <1>2 DEF Counters
  <2> HIDE DEF d
  <2>2. Linked("arm64", d, d)
    BY <1>1, <1>2, <1>3, <2>1, SameLinked DEF SameLink
  <2>3. Further("arm64", c, d)
    BY <1>1, <1>2, <1>3, <2>1, <2>2 DEF Further
  <2> QED BY <2>2, <2>3 DEF d
<1>4. CASE f + h <= 8
  <2> DEFINE d == [c EXCEPT !.float = f + h]
             place == Arm64!HfaPlace(f, ag)
  <2>1. Arm64!PutHfa(c, ag) = Whole(d, place) /\ Arm64!GetHfa(c, ag) = Whole(d, place)
    BY <1>1, <1>4 DEF Arm64!PutHfa, Arm64!GetHfa, Arm64!NumRegs, Arm64!Placed, Whole
  <2>2. Further("arm64", c, d)
    BY <1>1, <1>3, <1>4
  <2>3. d.float = f + h
    BY <1>2 DEF Counters
  <2>9. /\ \A k : FreeRegister("arm64", c, "float", k) <=> k >= c.float
        /\ \A k : FreeRegister("arm64", d, "float", k) <=> k >= d.float
    BY FloatsFree
  <2>4. ASSUME NEW b \in 1..h * e
        PROVE  /\ place[b] \in {"float"} \X Nat
               /\ Free("arm64", c, place[b]) /\ ~Free("arm64", d, place[b])
    <3>1. PICK x \in Nat : x = 8 * (f + ((b - 1) \div e)) + ((b - 1) % e)
      BY HfaByte
    <3>2. place[b] = <<"float", x>>
      BY <1>1, <3>1 DEF Arm64!HfaPlace
    <3>3. x \div 8 \in f..f + h - 1
      BY <3>1, HfaByte
    <3> HIDE DEF place, d
    <3>4. /\ Free("arm64", c, place[b]) <=> x \div 8 >= c.float
          /\ Free("arm64", d, place[b]) <=> x \div 8 >= d.float
      BY <1>2, <2>9, <3>2 DEF Free
    <3> QED BY <1>1, <2>3, <3>2, <3>3, <3>4
  <2>5. place = [b \in 1..h * e |-> place[b]] /\ h * e \in Nat
    BY <1>1 DEF Arm64!HfaPlace
  <2> HIDE DEF place, d
  <2>6. Fresh("arm64", c, d, place)
    BY <2>4, <2>5 DEF Fresh
  <2>7. place \in Seq(Cells)
    <3>1. \A b \in 1..h * e : place[b] \in Cells
      BY <2>4 DEF Cells
    <3> QED BY <2>5, <3>1
  <2> QED BY <1>2, <2>1, <2>2, <2>6, <2>7, WholePiece
<1>5. CASE ~(f + h <= 8)
  <2> DEFINE d == [c EXCEPT !.float = 8]
  <2>1. Arm64!PutHfa(c, ag) = Arm64!AddAggr(d, ag) /\ Arm64!GetHfa(c, ag) = Arm64!CopyStack(d, ag)
    BY <1>1, <1>5 DEF Arm64!PutHfa, Arm64!GetHfa, Arm64!NumRegs
  <2>2. Further("arm64", c, d) /\ Linked("arm64", d, d)
    BY <1>1, <1>2, <1>3 DEF SameLink
  <2> HIDE DEF d
  <2> QED BY <1>2, <2>1, <2>2, Arm64Copy, PieceAfter
<1> QED BY <1>4, <1>5

LEMMA Arm64Small ==
  ASSUME NEW c, Linked("arm64", c, c), NEW ag \in Aggregates
  PROVE  Arm64!GetSmall(c, ag) = Arm64!PutSmall(c, ag) /\ Piece("arm64", c, Arm64!PutSmall(c, ag))
<1>1. PICK n \in Nat, i \in Nat : n = ag.size /\ i = c.int
  BY Typed, AggregatesAssumption
<1>2. PICK m \in Nat : m = (8 * ((n + 8 - 1) \div 8)) \div 8 /\ n <= 8 * m
  OBVIOUS
<1>3. /\ c \in Counters /\ SameLink("arm64", c, c) /\ "arm64" \in Same /\ Width("arm64") = 8
      /\ c.int \in Nat /\ c.float \in Nat /\ c.stack \in Nat /\ c.hidden \in {-1, 8}
  BY Typed, SameLinked, SameMarks DEF Same, SameLink
<1>4. Arm64!Chunks(ag) = m
  BY <1>1, <1>2 DEF Arm64!Chunks, Arm64!RoundUp
<1>5. ASSUME NEW k \in Nat, i <= k, k <= 8
      PROVE  /\ Further("arm64", c, [c EXCEPT !.int = k])
             /\ Linked("arm64", [c EXCEPT !.int = k], [c EXCEPT !.int = k])
             /\ [c EXCEPT !.int = k].int = k
  <2> DEFINE d == [c EXCEPT !.int = k]
  <2>1. /\ d \in Counters /\ d.int = k /\ d.float = c.float /\ d.stack = c.stack /\ d.hidden = c.hidden
    BY <1>3 DEF Counters
  <2> HIDE DEF d
  <2>2. Linked("arm64", d, d)
    BY <1>1, <1>3, <1>5, <2>1, SameLinked DEF SameLink
  <2>3. Further("arm64", c, d)
    BY <1>1, <1>3, <1>5, <2>1, <2>2 DEF Further
  <2> QED BY <2>1, <2>2, <2>3 DEF d
<1>6. CASE i + m <= 8
  <2>1. PICK j \in Nat, at \in Int : j = i + m /\ at = 8 * i
    OBVIOUS
  <2> DEFINE d == [c EXCEPT !.int = j]
  <2>2. Arm64!PutSmall(c, ag) = Whole(d, Run("int", at, n)) /\ Arm64!GetSmall(c, ag) = Whole(d, Run("int", at, n))
    BY <1>1, <1>4, <1>6, <2>1, Arm64Bytes
    DEF Arm64!PutSmall, Arm64!GetSmall, Arm64!NumRegs, Arm64!Placed, Whole
  <2>3. Further("arm64", c, d) /\ d.int = j
    BY <1>1, <1>5, <1>6, <2>1
  <2> HIDE DEF d
  <2>4. 8 * i <= at /\ at + n <= 8 * j /\ c.int <= i /\ j <= d.int /\ c.hidden \notin i..j - 1
    BY <1>1, <1>2, <1>3, <1>6, <2>1, <2>3
  <2>5. "arm64" \in Eight
    BY DEF Eight
  <2>6. Fresh("arm64", c, d, Run("int", at, n))
    BY <2>3, <2>4, <2>5, IntsFresh
  <2> QED BY <1>3, <2>2, <2>3, <2>6, WholePiece, RunIsSeq
<1>7. CASE ~(i + m <= 8)
  <2> DEFINE d == [c EXCEPT !.int = 8]
  <2>1. Arm64!PutSmall(c, ag) = Arm64!AddAggr(d, ag) /\ Arm64!GetSmall(c, ag) = Arm64!CopyStack(d, ag)
    BY <1>1, <1>4, <1>7 DEF Arm64!PutSmall, Arm64!GetSmall, Arm64!NumRegs
  <2>2. Further("arm64", c, d) /\ Linked("arm64", d, d)
    BY <1>1, <1>3, <1>5 DEF SameLink
  <2> HIDE DEF d
  <2> QED BY <1>3, <2>1, <2>2, Arm64Copy, PieceAfter
<1> QED BY <1>6, <1>7

LEMMA Arm64Kept ==
  ASSUME NEW p, NEW g, Linked("arm64", p, g), NEW t \in Types("arm64")
  PROVE  Kept("arm64", p, g, t)
<1>1. "arm64" \in Same /\ "arm64" \in AggrAbis
  BY DEF Same, AggrAbis
<1>2. Linked("arm64", p, p)
  BY <1>1 DEF Linked, SameLink
<1>3. Arm64!Get(p, t) = Arm64!Put(p, t) /\ Piece("arm64", p, Arm64!Put(p, t))
  <2>1. CASE t \in Scalars
    <3>1. Arm64!Sizes[t.type] \in {1, 2, 4, 8} /\ t.type # "aggr"
      BY <2>1 DEF Scalars, ScalarNames, Arm64!Sizes
    <3> QED BY <1>2, <3>1, Arm64Int, Arm64Float DEF Arm64!Get, Arm64!Put
  <2>2. CASE t \in Aggregates
    <3>1. t.type = "aggr" /\ t.nontrivial \in BOOLEAN /\ t.hfa \in Nat /\ t.size \in Nat
      BY <2>2, AggregatesAssumption DEF MaxHfaFields
    <3>2. CASE Arm64!IsHfa(t)
      <4>1. Arm64!GetAggr(p, t) = Arm64!GetHfa(p, t) /\ Arm64!PutAggr(p, t) = Arm64!PutHfa(p, t)
        BY <3>2 DEF Arm64!GetAggr, Arm64!PutAggr, Arm64!IsHfa
      <4>2. t.hfa > 0
        BY <3>2 DEF Arm64!IsHfa
      <4> QED BY <1>2, <2>2, <3>1, <4>1, <4>2, Arm64Hfa DEF Arm64!Get, Arm64!Put
    <3>3. CASE ~Arm64!IsHfa(t) /\ ~t.nontrivial /\ t.size <= 16
      <4>1. Arm64!GetAggr(p, t) = Arm64!GetSmall(p, t) /\ Arm64!PutAggr(p, t) = Arm64!PutSmall(p, t)
        BY <3>1, <3>3 DEF Arm64!GetAggr, Arm64!PutAggr
      <4> QED BY <1>2, <2>2, <3>1, <4>1, Arm64Small DEF Arm64!Get, Arm64!Put
    <3>4. CASE ~Arm64!IsHfa(t) /\ (t.nontrivial \/ t.size > 16)
      <4>1. Arm64!GetAggr(p, t) = Arm64!GetInt(p, 8) /\ Arm64!PutAggr(p, t) = Arm64!PutInt(p, 8)
        BY <3>1, <3>4 DEF Arm64!GetAggr, Arm64!PutAggr
      <4> QED BY <1>2, <3>1, <4>1, Arm64Int DEF Arm64!Get, Arm64!Put
    <3> QED BY <3>1, <3>2, <3>3, <3>4
  <2> QED BY <1>1, <2>1, <2>2 DEF Types
<1>4. Get("arm64", p, t) = Arm64!Get(p, t) /\ Put("arm64", p, t) = Arm64!Put(p, t)
  BY DEF Get, Put
<1> QED BY <1>1, <1>3, <1>4, SameKept

-----------------------------------------------------------------------------
(* AArch64 on Apple.                                                         *)

LEMMA Apple64Bytes == \A area, at, n : Apple64!Bytes(area, at, n) = Run(area, at, n)
BY DEF Apple64!Bytes, Run

LEMMA Apple64Add ==
  ASSUME NEW c, Linked("apple64", c, c), NEW n \in {1, 2, 4, 8}
  PROVE  Apple64!Fetch(c, n) = Apple64!Add(c, n) /\ Piece("apple64", c, Apple64!Add(c, n))
<1>1. c \in Counters /\ c.stack \in Nat /\ "apple64" \in Same
  BY Typed DEF Same
<1>2. PICK at \in Nat : at = n * ((c.stack + n - 1) \div n) /\ c.stack <= at
  BY <1>1, RoundsUp
<1>3. Apple64!Aligned(c, n) = [c EXCEPT !.stack = at]
  BY <1>2 DEF Apple64!Aligned, Apple64!RoundUp
<1> DEFINE end == at + n
<1>4. Apple64!Add(c, n) = Whole([c EXCEPT !.stack = end], Run("stack", at, n))
  <2>1. Apple64!Low("stack", at, n, n) = Run("stack", at, n)
    BY Apple64Bytes DEF Apple64!Low
  <2> DEFINE d == [c EXCEPT !.stack = at]
  <2>2. d.stack = at /\ [d EXCEPT !.stack = end] = [c EXCEPT !.stack = end]
    BY <1>1, StackTwice
  <2> HIDE DEF d
  <2>3. Apple64!Add(c, n) = Apple64!OnStack(d, n, n)
    BY <1>3 DEF Apple64!Add, d
  <2> QED BY <2>1, <2>2, <2>3 DEF Apple64!OnStack, Apple64!Placed, Whole
<1>5. end \in Nat /\ at + n <= end /\ c.stack <= end
  BY <1>1, <1>2
<1> HIDE DEF end
<1>6. Apple64!Fetch(c, n) = Apple64!Add(c, n)
  BY DEF Apple64!Fetch, Apple64!Add
<1> QED BY <1>1, <1>2, <1>4, <1>5, <1>6, StackWord

LEMMA Apple64Int ==
  ASSUME NEW c, Linked("apple64", c, c), NEW n \in {1, 2, 4, 8}
  PROVE  Apple64!GetInt(c, n) = Apple64!PutInt(c, n) /\ Piece("apple64", c, Apple64!PutInt(c, n))
<1>1. CASE c.int < 8
  <2>1. c.int \in Nat /\ c.int # c.hidden
    BY <1>1, Typed, SameLinked DEF SameLink, Same
  <2>2. PICK at \in Int : at = 8 * c.int
    BY <2>1
  <2>3. Apple64!PutInt(c, n) = Whole([c EXCEPT !.int = @ + 1], Run("int", at, n))
    BY <1>1, <2>2, Apple64Bytes
    DEF Apple64!PutInt, Apple64!NumRegs, Apple64!InRegister, Apple64!Low, Apple64!Placed, Whole
  <2>4. 8 * c.int <= at /\ at + n <= 8 * c.int + 8
    BY <2>1, <2>2
  <2>5. Apple64!GetInt(c, n) = Apple64!PutInt(c, n)
    BY <1>1 DEF Apple64!GetInt, Apple64!PutInt, Apple64!NumRegs
  <2> QED BY <1>1, <2>1, <2>3, <2>4, <2>5, IntWord DEF Eight
<1>2. CASE ~(c.int < 8)
  BY <1>2, Apple64Add DEF Apple64!GetInt, Apple64!PutInt, Apple64!NumRegs
<1> QED BY <1>1, <1>2

LEMMA Apple64Float ==
  ASSUME NEW c, Linked("apple64", c, c), NEW n \in {1, 2, 4, 8}
  PROVE  Apple64!GetFloat(c, n) = Apple64!PutFloat(c, n) /\ Piece("apple64", c, Apple64!PutFloat(c, n))
<1>1. CASE c.float < 8
  <2>1. c.float \in Nat
    BY Typed
  <2>2. PICK at \in Int : at = 8 * c.float
    BY <2>1
  <2>3. Apple64!PutFloat(c, n) = Whole([c EXCEPT !.float = @ + 1], Run("float", at, n))
    BY <1>1, <2>2, Apple64Bytes
    DEF Apple64!PutFloat, Apple64!NumRegs, Apple64!InRegister, Apple64!Low, Apple64!Placed, Whole
  <2>4. 8 * c.float <= at /\ at + n <= 8 * c.float + 8
    BY <2>1, <2>2
  <2>5. Apple64!GetFloat(c, n) = Apple64!PutFloat(c, n)
    BY <1>1 DEF Apple64!GetFloat, Apple64!PutFloat, Apple64!NumRegs
  <2> QED BY <1>1, <2>1, <2>3, <2>4, <2>5, FloatWord
<1>2. CASE ~(c.float < 8)
  BY <1>2, Apple64Add DEF Apple64!GetFloat, Apple64!PutFloat, Apple64!NumRegs
<1> QED BY <1>1, <1>2

\* An aggregate on the stack.
LEMMA Apple64Copy ==
  ASSUME NEW c, Linked("apple64", c, c), NEW ag \in Aggregates
  PROVE  Apple64!CopyStack(c, ag) = Apple64!AddAggr(c, ag) /\ Piece("apple64", c, Apple64!AddAggr(c, ag))
<1>1. PICK n \in Nat, s \in Nat : n = ag.size /\ s = c.stack
  BY Typed, AggregatesAssumption
<1>2. PICK m \in Nat, at \in Nat : m = 8 * ((n + 8 - 1) \div 8) /\ at = 8 * ((s + 8 - 1) \div 8)
  OBVIOUS
<1>3. c \in Counters /\ "apple64" \in Same
  BY Typed DEF Same
<1>4. n <= m /\ s <= at
  BY <1>2, RoundsUp
<1> DEFINE end == at + m
<1>5. Apple64!Aligned(c, 8) = [c EXCEPT !.stack = at]
  BY <1>1, <1>2 DEF Apple64!Aligned, Apple64!RoundUp
<1>6. Apple64!RoundUp(ag.size, 8) = m
  BY <1>1, <1>2 DEF Apple64!RoundUp
<1>7. Apple64!AddAggr(c, ag) = Whole([c EXCEPT !.stack = end], Run("stack", at, n))
  BY <1>1, <1>3, <1>5, <1>6, Apple64Bytes, StackTwice DEF Apple64!AddAggr, Apple64!Placed, Whole
<1>8. Apple64!CopyStack(c, ag) = Apple64!AddAggr(c, ag)
  BY DEF Apple64!CopyStack, Apple64!AddAggr
<1>9. end \in Nat /\ c.stack <= at /\ at + n <= end /\ c.stack <= end
  BY <1>1, <1>4
<1> HIDE DEF end
<1> QED BY <1>3, <1>7, <1>8, <1>9, StackWord

LEMMA Apple64Hfa ==
  ASSUME NEW c, Linked("apple64", c, c), NEW ag \in Aggregates, ag.hfa > 0
  PROVE  Apple64!GetHfa(c, ag) = Apple64!PutHfa(c, ag) /\ Piece("apple64", c, Apple64!PutHfa(c, ag))
<1>1. PICK h \in Nat, f \in Nat, e \in {4, 8} :
        h = ag.hfa /\ f = c.float /\ e = ag.elem /\ ag.size = h * e
  BY Typed, AggregatesAssumption DEF MaxHfaFields
<1>2. /\ c \in Counters /\ SameLink("apple64", c, c) /\ "apple64" \in Same /\ Width("apple64") = 8
      /\ c.int \in Nat /\ c.float \in Nat /\ c.stack \in Nat
  BY Typed, SameLinked, SameMarks DEF Same
<1>3. ASSUME NEW k \in Nat, f <= k, k <= 8
      PROVE  Further("apple64", c, [c EXCEPT !.float = k]) /\ Linked("apple64", [c EXCEPT !.float = k], [c EXCEPT !.float = k])
  <2> DEFINE d == [c EXCEPT !.float = k]
  <2>1. /\ d \in Counters /\ d.float = k /\ d.int = c.int /\ d.stack = c.stack /\ d.hidden = c.hidden
    BY <1>2 DEF Counters
  <2> HIDE DEF d
  <2>2. Linked("apple64", d, d)
    BY <1>1, <1>2, <1>3, <2>1, SameLinked DEF SameLink
  <2>3. Further("apple64", c, d)
    BY <1>1, <1>2, <1>3, <2>1, <2>2 DEF Further
  <2> QED BY <2>2, <2>3 DEF d
<1>4. CASE f + h <= 8
  <2> DEFINE d == [c EXCEPT !.float = f + h]
             place == Apple64!HfaPlace(f, ag)
  <2>1. Apple64!PutHfa(c, ag) = Whole(d, place) /\ Apple64!GetHfa(c, ag) = Whole(d, place)
    BY <1>1, <1>4 DEF Apple64!PutHfa, Apple64!GetHfa, Apple64!NumRegs, Apple64!Placed, Whole
  <2>2. Further("apple64", c, d)
    BY <1>1, <1>3, <1>4
  <2>3. d.float = f + h
    BY <1>2 DEF Counters
  <2>9. /\ \A k : FreeRegister("apple64", c, "float", k) <=> k >= c.float
        /\ \A k : FreeRegister("apple64", d, "float", k) <=> k >= d.float
    BY FloatsFree
  <2>4. ASSUME NEW b \in 1..h * e
        PROVE  /\ place[b] \in {"float"} \X Nat
               /\ Free("apple64", c, place[b]) /\ ~Free("apple64", d, place[b])
    <3>1. PICK x \in Nat : x = 8 * (f + ((b - 1) \div e)) + ((b - 1) % e)
      BY HfaByte
    <3>2. place[b] = <<"float", x>>
      BY <1>1, <3>1 DEF Apple64!HfaPlace
    <3>3. x \div 8 \in f..f + h - 1
      BY <3>1, HfaByte
    <3> HIDE DEF place, d
    <3>4. /\ Free("apple64", c, place[b]) <=> x \div 8 >= c.float
          /\ Free("apple64", d, place[b]) <=> x \div 8 >= d.float
      BY <1>2, <2>9, <3>2 DEF Free
    <3> QED BY <1>1, <2>3, <3>2, <3>3, <3>4
  <2>5. place = [b \in 1..h * e |-> place[b]] /\ h * e \in Nat
    BY <1>1 DEF Apple64!HfaPlace
  <2> HIDE DEF place, d
  <2>6. Fresh("apple64", c, d, place)
    BY <2>4, <2>5 DEF Fresh
  <2>7. place \in Seq(Cells)
    <3>1. \A b \in 1..h * e : place[b] \in Cells
      BY <2>4 DEF Cells
    <3> QED BY <2>5, <3>1
  <2> QED BY <1>2, <2>1, <2>2, <2>6, <2>7, WholePiece
<1>5. CASE ~(f + h <= 8)
  <2> DEFINE d == [c EXCEPT !.float = 8]
  <2>1. Apple64!PutHfa(c, ag) = Apple64!AddAggr(d, ag) /\ Apple64!GetHfa(c, ag) = Apple64!CopyStack(d, ag)
    BY <1>1, <1>5 DEF Apple64!PutHfa, Apple64!GetHfa, Apple64!NumRegs
  <2>2. Further("apple64", c, d) /\ Linked("apple64", d, d)
    BY <1>1, <1>2, <1>3 DEF SameLink
  <2> HIDE DEF d
  <2> QED BY <1>2, <2>1, <2>2, Apple64Copy, PieceAfter
<1> QED BY <1>4, <1>5

LEMMA Apple64Small ==
  ASSUME NEW c, Linked("apple64", c, c), NEW ag \in Aggregates
  PROVE  Apple64!GetSmall(c, ag) = Apple64!PutSmall(c, ag) /\ Piece("apple64", c, Apple64!PutSmall(c, ag))
<1>1. PICK n \in Nat, i \in Nat : n = ag.size /\ i = c.int
  BY Typed, AggregatesAssumption
<1>2. PICK m \in Nat : m = (8 * ((n + 8 - 1) \div 8)) \div 8 /\ n <= 8 * m
  OBVIOUS
<1>3. /\ c \in Counters /\ SameLink("apple64", c, c) /\ "apple64" \in Same /\ Width("apple64") = 8
      /\ c.int \in Nat /\ c.float \in Nat /\ c.stack \in Nat /\ c.hidden \in {-1, 8}
  BY Typed, SameLinked, SameMarks DEF Same, SameLink
<1>4. Apple64!Chunks(ag) = m
  BY <1>1, <1>2 DEF Apple64!Chunks, Apple64!RoundUp
<1>5. ASSUME NEW k \in Nat, i <= k, k <= 8
      PROVE  /\ Further("apple64", c, [c EXCEPT !.int = k])
             /\ Linked("apple64", [c EXCEPT !.int = k], [c EXCEPT !.int = k])
             /\ [c EXCEPT !.int = k].int = k
  <2> DEFINE d == [c EXCEPT !.int = k]
  <2>1. /\ d \in Counters /\ d.int = k /\ d.float = c.float /\ d.stack = c.stack /\ d.hidden = c.hidden
    BY <1>3 DEF Counters
  <2> HIDE DEF d
  <2>2. Linked("apple64", d, d)
    BY <1>1, <1>3, <1>5, <2>1, SameLinked DEF SameLink
  <2>3. Further("apple64", c, d)
    BY <1>1, <1>3, <1>5, <2>1, <2>2 DEF Further
  <2> QED BY <2>1, <2>2, <2>3 DEF d
<1>6. CASE i + m <= 8
  <2>1. PICK j \in Nat, at \in Int : j = i + m /\ at = 8 * i
    OBVIOUS
  <2> DEFINE d == [c EXCEPT !.int = j]
  <2>2. Apple64!PutSmall(c, ag) = Whole(d, Run("int", at, n)) /\ Apple64!GetSmall(c, ag) = Whole(d, Run("int", at, n))
    BY <1>1, <1>4, <1>6, <2>1, Apple64Bytes
    DEF Apple64!PutSmall, Apple64!GetSmall, Apple64!NumRegs, Apple64!Placed, Whole
  <2>3. Further("apple64", c, d) /\ d.int = j
    BY <1>1, <1>5, <1>6, <2>1
  <2> HIDE DEF d
  <2>4. 8 * i <= at /\ at + n <= 8 * j /\ c.int <= i /\ j <= d.int /\ c.hidden \notin i..j - 1
    BY <1>1, <1>2, <1>3, <1>6, <2>1, <2>3
  <2>5. "apple64" \in Eight
    BY DEF Eight
  <2>6. Fresh("apple64", c, d, Run("int", at, n))
    BY <2>3, <2>4, <2>5, IntsFresh
  <2> QED BY <1>3, <2>2, <2>3, <2>6, WholePiece, RunIsSeq
<1>7. CASE ~(i + m <= 8)
  <2> DEFINE d == [c EXCEPT !.int = 8]
  <2>1. Apple64!PutSmall(c, ag) = Apple64!AddAggr(d, ag) /\ Apple64!GetSmall(c, ag) = Apple64!CopyStack(d, ag)
    BY <1>1, <1>4, <1>7 DEF Apple64!PutSmall, Apple64!GetSmall, Apple64!NumRegs
  <2>2. Further("apple64", c, d) /\ Linked("apple64", d, d)
    BY <1>1, <1>3, <1>5 DEF SameLink
  <2> HIDE DEF d
  <2> QED BY <1>3, <2>1, <2>2, Apple64Copy, PieceAfter
<1> QED BY <1>6, <1>7

LEMMA Apple64Kept ==
  ASSUME NEW p, NEW g, Linked("apple64", p, g), NEW t \in Types("apple64")
  PROVE  Kept("apple64", p, g, t)
<1>1. "apple64" \in Same /\ "apple64" \in AggrAbis
  BY DEF Same, AggrAbis
<1>2. Linked("apple64", p, p)
  BY <1>1 DEF Linked, SameLink
<1>3. Apple64!Get(p, t) = Apple64!Put(p, t) /\ Piece("apple64", p, Apple64!Put(p, t))
  <2>1. CASE t \in Scalars
    <3>1. Apple64!Sizes[t.type] \in {1, 2, 4, 8} /\ t.type # "aggr"
      BY <2>1 DEF Scalars, ScalarNames, Apple64!Sizes
    <3> QED BY <1>2, <3>1, Apple64Int, Apple64Float DEF Apple64!Get, Apple64!Put
  <2>2. CASE t \in Aggregates
    <3>1. t.type = "aggr" /\ t.nontrivial \in BOOLEAN /\ t.hfa \in Nat /\ t.size \in Nat
      BY <2>2, AggregatesAssumption DEF MaxHfaFields
    <3>2. CASE Apple64!IsHfa(t)
      <4>1. Apple64!GetAggr(p, t) = Apple64!GetHfa(p, t) /\ Apple64!PutAggr(p, t) = Apple64!PutHfa(p, t)
        BY <3>2 DEF Apple64!GetAggr, Apple64!PutAggr, Apple64!IsHfa
      <4>2. t.hfa > 0
        BY <3>2 DEF Apple64!IsHfa
      <4> QED BY <1>2, <2>2, <3>1, <4>1, <4>2, Apple64Hfa DEF Apple64!Get, Apple64!Put
    <3>3. CASE ~Apple64!IsHfa(t) /\ ~t.nontrivial /\ t.size <= 16
      <4>1. Apple64!GetAggr(p, t) = Apple64!GetSmall(p, t) /\ Apple64!PutAggr(p, t) = Apple64!PutSmall(p, t)
        BY <3>1, <3>3 DEF Apple64!GetAggr, Apple64!PutAggr
      <4> QED BY <1>2, <2>2, <3>1, <4>1, Apple64Small DEF Apple64!Get, Apple64!Put
    <3>4. CASE ~Apple64!IsHfa(t) /\ (t.nontrivial \/ t.size > 16)
      <4>1. Apple64!GetAggr(p, t) = Apple64!GetInt(p, 8) /\ Apple64!PutAggr(p, t) = Apple64!PutInt(p, 8)
        BY <3>1, <3>4 DEF Apple64!GetAggr, Apple64!PutAggr
      <4> QED BY <1>2, <3>1, <4>1, Apple64Int DEF Apple64!Get, Apple64!Put
    <3> QED BY <3>1, <3>2, <3>3, <3>4
  <2> QED BY <1>1, <2>1, <2>2 DEF Types
<1>4. Get("apple64", p, t) = Apple64!Get(p, t) /\ Put("apple64", p, t) = Apple64!Put(p, t)
  BY DEF Get, Put
<1> QED BY <1>1, <1>3, <1>4, SameKept

-----------------------------------------------------------------------------
(* RISC-V.                                                                   *)

LEMMA Riscv64Bytes == \A area, at, n : Riscv64!Bytes(area, at, n) = Run(area, at, n)
BY DEF Riscv64!Bytes, Run

LEMMA Riscv64Stack ==
  ASSUME NEW c, Linked("riscv64", c, c), NEW n \in Int, n <= 8
  PROVE  Piece("riscv64", c, Riscv64!OnStack(c, 8, n))
<1>1. c.stack \in Nat /\ "riscv64" \in Same
  BY Typed DEF Same
<1> DEFINE end == c.stack + 8
<1>2. Riscv64!OnStack(c, 8, n) = Whole([c EXCEPT !.stack = end], Run("stack", c.stack, n))
  BY Riscv64Bytes DEF Riscv64!OnStack, Riscv64!Low, Riscv64!Placed, Whole
<1>3. end \in Nat /\ c.stack + n <= end /\ c.stack <= end
  BY <1>1
<1> HIDE DEF end
<1> QED BY <1>1, <1>2, <1>3, StackWord

LEMMA Riscv64InInt ==
  ASSUME NEW c, Linked("riscv64", c, c), NEW n \in Int, n <= 8, c.int < 8
  PROVE  Piece("riscv64", c, Riscv64!InRegister(c, "int", 8, n))
<1>1. c.int \in Nat /\ c.int # c.hidden
  BY Typed, SameLinked DEF SameLink, Same
<1>2. PICK at \in Int : at = 8 * c.int
  BY <1>1
<1>3. Riscv64!InRegister(c, "int", 8, n) = Whole([c EXCEPT !.int = @ + 1], Run("int", at, n))
  BY <1>2, Riscv64Bytes DEF Riscv64!InRegister, Riscv64!Low, Riscv64!Placed, Whole
<1>4. 8 * c.int <= at /\ at + n <= 8 * c.int + 8
  BY <1>1, <1>2
<1> QED BY <1>1, <1>3, <1>4, IntWord DEF Eight

LEMMA Riscv64InFloat ==
  ASSUME NEW c, Linked("riscv64", c, c), NEW n \in Int, n <= 8, c.float < 8
  PROVE  Piece("riscv64", c, Riscv64!InRegister(c, "float", 8, n))
<1>1. c.float \in Nat
  BY Typed
<1>2. PICK at \in Int : at = 8 * c.float
  BY <1>1
<1>3. Riscv64!InRegister(c, "float", 8, n) = Whole([c EXCEPT !.float = @ + 1], Run("float", at, n))
  BY <1>2, Riscv64Bytes DEF Riscv64!InRegister, Riscv64!Low, Riscv64!Placed, Whole
<1>4. 8 * c.float <= at /\ at + n <= 8 * c.float + 8
  BY <1>1, <1>2
<1> QED BY <1>1, <1>3, <1>4, FloatWord

LEMMA Riscv64Kept ==
  ASSUME NEW p, NEW g, Linked("riscv64", p, g), NEW t \in Types("riscv64")
  PROVE  Kept("riscv64", p, g, t)
<1>1. "riscv64" \in Same /\ t \in Scalars
  BY DEF Same, AggrAbis, Types
<1>2. Linked("riscv64", p, p) /\ p.int \in Nat /\ p.float \in Nat
  BY <1>1, Typed DEF Linked, SameLink
<1>3. PICK n \in Int : n = Riscv64!Sizes[t.type] /\ n <= 8
  BY <1>1 DEF Scalars, ScalarNames, Riscv64!Sizes
<1>4. Riscv64!GetInt(p, n) = Riscv64!PutInt(p, n) /\ Piece("riscv64", p, Riscv64!PutInt(p, n))
  BY <1>2, <1>3, Riscv64InInt, Riscv64Stack DEF Riscv64!GetInt, Riscv64!PutInt, Riscv64!NumRegs
<1>5. Riscv64!GetFloat(p, n) = Riscv64!PutFloat(p, n) /\ Piece("riscv64", p, Riscv64!PutFloat(p, n))
  <2>1. CASE p.float < 8
    BY <1>2, <1>3, <2>1, Riscv64InFloat DEF Riscv64!GetFloat, Riscv64!PutFloat, Riscv64!NumRegs
  <2>2. CASE p.float >= 8 /\ p.int < 8
    BY <1>2, <1>3, <2>2, Riscv64InInt DEF Riscv64!GetFloat, Riscv64!PutFloat, Riscv64!NumRegs
  <2>3. CASE p.float >= 8 /\ p.int >= 8
    BY <1>2, <1>3, <2>3, Riscv64Stack DEF Riscv64!GetFloat, Riscv64!PutFloat, Riscv64!NumRegs
  <2> QED BY <1>2, <2>1, <2>2, <2>3
<1>6. Riscv64!Get(p, t) = Riscv64!Put(p, t) /\ Piece("riscv64", p, Riscv64!Put(p, t))
  BY <1>3, <1>4, <1>5 DEF Riscv64!Get, Riscv64!Put
<1>7. Get("riscv64", p, t) = Riscv64!Get(p, t) /\ Put("riscv64", p, t) = Riscv64!Put(p, t)
  BY DEF Get, Put
<1> QED BY <1>1, <1>6, <1>7, SameKept

-----------------------------------------------------------------------------
(* MIPS n64.                                                                *)

LEMMA N64Bytes == \A area, at, n : N64!Bytes(area, at, n) = Run(area, at, n)
BY DEF N64!Bytes, Run

LEMMA N64Stack ==
  ASSUME NEW c, Linked("n64", c, c), NEW n \in Int, n <= 8
  PROVE  /\ Piece("n64", c, N64!OnStack(c, 8, n))
         /\ Piece("n64", c, N64!Placed([c EXCEPT !.stack = @ + 8], N64!Bytes("stack", c.stack, n)))
<1>1. c.stack \in Nat /\ "n64" \in Same
  BY Typed DEF Same
<1> DEFINE end == c.stack + 8
           at == c.stack + 8 - n
<1>2. N64!OnStack(c, 8, n) = Whole([c EXCEPT !.stack = end], Run("stack", at, n))
  BY N64Bytes DEF N64!OnStack, N64!Low, N64!Placed, Whole
<1>3. N64!Placed([c EXCEPT !.stack = @ + 8], N64!Bytes("stack", c.stack, n))
        = Whole([c EXCEPT !.stack = end], Run("stack", c.stack, n))
  BY N64Bytes DEF N64!Placed, Whole
<1>4. /\ end \in Nat /\ at \in Int /\ c.stack <= end /\ c.stack <= at
      /\ c.stack + n <= end /\ at + n <= end
  BY <1>1
<1> HIDE DEF end, at
<1>5. Piece("n64", c, Whole([c EXCEPT !.stack = end], Run("stack", at, n)))
  BY <1>1, <1>4, StackWord
<1>6. Piece("n64", c, Whole([c EXCEPT !.stack = end], Run("stack", c.stack, n)))
  BY <1>1, <1>4, StackWord
<1> QED BY <1>2, <1>3, <1>5, <1>6

LEMMA N64Register ==
  ASSUME NEW c, Linked("n64", c, c), NEW n \in Int, n <= 8, c.int < 8, NEW area \in {"int", "float"}
  PROVE  /\ N64!InRegister(c, "int", 8, n)
              = N64!Placed([c EXCEPT !.int = @ + 1], N64!Low("int", 8 * c.int, 8, n))
         /\ Piece("n64", c, N64!Placed([c EXCEPT !.int = @ + 1], N64!Low(area, 8 * c.int, 8, n)))
<1>1. c.int \in Nat /\ c.int # c.hidden
  BY Typed, SameLinked DEF SameLink, Same
<1>2. PICK at \in Int : at = 8 * c.int + 8 - n
  BY <1>1
<1>3. N64!Placed([c EXCEPT !.int = @ + 1], N64!Low(area, 8 * c.int, 8, n))
        = Whole([c EXCEPT !.int = @ + 1], Run(area, at, n))
  BY <1>2, N64Bytes DEF N64!Low, N64!Placed, Whole
<1>4. 8 * c.int <= at /\ at + n <= 8 * c.int + 8
  BY <1>1, <1>2
<1>5. CASE area = "int"
  BY <1>1, <1>3, <1>4, <1>5, IntWord DEF Eight, N64!InRegister
<1>6. CASE area = "float"
  BY <1>1, <1>3, <1>4, <1>6, SharedWord DEF N64!InRegister
<1> QED BY <1>5, <1>6

LEMMA N64Kept ==
  ASSUME NEW p, NEW g, Linked("n64", p, g), NEW t \in Types("n64")
  PROVE  Kept("n64", p, g, t)
<1>1. "n64" \in Same /\ t \in Scalars
  BY DEF Same, AggrAbis, Types
<1>2. Linked("n64", p, p) /\ p.int \in Nat
  BY <1>1, Typed DEF Linked, SameLink
<1>3. PICK n \in Int : n = N64!Sizes[t.type] /\ n <= 8
  BY <1>1 DEF Scalars, ScalarNames, N64!Sizes, N64!Word
<1>4. ASSUME NEW m \in Int, m <= 8
      PROVE  /\ N64!GetLongLongN64(p, m) = N64!PutLongLongN64(p, m)
             /\ Piece("n64", p, N64!PutLongLongN64(p, m))
  BY <1>2, <1>4, N64Register, N64Stack DEF N64!GetLongLongN64, N64!PutLongLongN64
<1>5. ASSUME NEW m \in {4, 8}
      PROVE  /\ Piece("n64", p, N64!OnStack(p, 8, m))
             /\ Piece("n64", p, N64!Placed([p EXCEPT !.stack = @ + 8], N64!Bytes("stack", p.stack, m)))
  <2>1. m \in Int /\ m <= 8
    OBVIOUS
  <2> QED BY <1>2, <2>1, N64Stack
<1>6. ASSUME NEW m \in {4, 8}, p.int < 8, NEW area \in {"int", "float"}
      PROVE  Piece("n64", p, N64!Placed([p EXCEPT !.int = @ + 1], N64!Low(area, 8 * p.int, 8, m)))
  <2>1. m \in Int /\ m <= 8
    OBVIOUS
  <2> QED BY <1>2, <1>6, <2>1, N64Register
<1>7. N64!GetDoubleN64(p) = N64!PutDoubleN64(p) /\ Piece("n64", p, N64!PutDoubleN64(p))
  <2>1. CASE p.int < 8
    <3> DEFINE r == N64!Placed([p EXCEPT !.int = @ + 1], N64!Low("float", 8 * p.int, 8, 8))
    <3>1. N64!Bytes("float", 8 * p.int, 8) = N64!Low("float", 8 * p.int, 8, 8)
      BY <1>2 DEF N64!Low
    <3>2. N64!GetDoubleN64(p) = r /\ N64!PutDoubleN64(p) = r
      BY <1>2, <2>1, <3>1 DEF N64!GetDoubleN64, N64!PutDoubleN64, N64!FregData
    <3>3. Piece("n64", p, r)
      BY <1>2, <2>1, N64Register
    <3> QED BY <3>2, <3>3
  <2>2. CASE p.int >= 8
    <3>1. N64!GetDoubleN64(p) = N64!OnStack(p, 8, 8) /\ N64!PutDoubleN64(p) = N64!OnStack(p, 8, 8)
      BY <1>2, <2>2 DEF N64!GetDoubleN64, N64!PutDoubleN64
    <3>2. Piece("n64", p, N64!OnStack(p, 8, 8))
      BY <1>5
    <3> QED BY <3>1, <3>2
  <2> QED BY <1>2, <2>1, <2>2
<1>8. N64!GetFloatN64(p) = N64!PutFloatN64(p) /\ Piece("n64", p, N64!PutFloatN64(p))
  <2> DEFINE r == N64!Placed([p EXCEPT !.int = @ + 1], N64!Low(N64!FregData, 8 * p.int, 8, 4))
             s == N64!Placed([p EXCEPT !.stack = @ + 8], N64!Bytes("stack", p.stack, 4))
  <2>1. N64!GetFloatN64(p) = IF p.int < 8 THEN r ELSE s
    BY DEF N64!GetFloatN64
  <2>2. N64!PutFloatN64(p) = IF p.int < 8 THEN r ELSE s
    BY DEF N64!PutFloatN64, N64!FregData
  <2>3. p.int < 8 => Piece("n64", p, r)
    BY <1>6 DEF N64!FregData
  <2>4. Piece("n64", p, s)
    BY <1>5
  <2> HIDE DEF r, s
  <2> QED BY <2>1, <2>2, <2>3, <2>4
<1>9. N64!GetN64(p, t) = N64!PutN64(p, t) /\ Piece("n64", p, N64!PutN64(p, t))
  BY <1>3, <1>4, <1>7, <1>8 DEF N64!GetN64, N64!PutN64
<1>10. N64!Get(p, t) = N64!GetN64(p, t) /\ N64!Put(p, t) = N64!PutN64(p, t)
  BY DEF N64!Get, N64!Put
<1>11. Get("n64", p, t) = N64!Get(p, t) /\ Put("n64", p, t) = N64!Put(p, t)
  BY DEF Get, Put
<1> QED BY <1>1, <1>9, <1>10, <1>11, SameKept

-----------------------------------------------------------------------------
(* MIPS n64 without floating point.                                         *)

LEMMA N64SoftBytes == \A area, at, n : N64Soft!Bytes(area, at, n) = Run(area, at, n)
BY DEF N64Soft!Bytes, Run

LEMMA N64SoftStack ==
  ASSUME NEW c, Linked("n64_soft", c, c), NEW n \in Int, n <= 8
  PROVE  /\ Piece("n64_soft", c, N64Soft!OnStack(c, 8, n))
         /\ Piece("n64_soft", c, N64Soft!Placed([c EXCEPT !.stack = @ + 8], N64Soft!Bytes("stack", c.stack, n)))
<1>1. c.stack \in Nat /\ "n64_soft" \in Same
  BY Typed DEF Same
<1> DEFINE end == c.stack + 8
           at == c.stack + 8 - n
<1>2. N64Soft!OnStack(c, 8, n) = Whole([c EXCEPT !.stack = end], Run("stack", at, n))
  BY N64SoftBytes DEF N64Soft!OnStack, N64Soft!Low, N64Soft!Placed, Whole
<1>3. N64Soft!Placed([c EXCEPT !.stack = @ + 8], N64Soft!Bytes("stack", c.stack, n))
        = Whole([c EXCEPT !.stack = end], Run("stack", c.stack, n))
  BY N64SoftBytes DEF N64Soft!Placed, Whole
<1>4. /\ end \in Nat /\ at \in Int /\ c.stack <= end /\ c.stack <= at
      /\ c.stack + n <= end /\ at + n <= end
  BY <1>1
<1> HIDE DEF end, at
<1>5. Piece("n64_soft", c, Whole([c EXCEPT !.stack = end], Run("stack", at, n)))
  BY <1>1, <1>4, StackWord
<1>6. Piece("n64_soft", c, Whole([c EXCEPT !.stack = end], Run("stack", c.stack, n)))
  BY <1>1, <1>4, StackWord
<1> QED BY <1>2, <1>3, <1>5, <1>6

LEMMA N64SoftRegister ==
  ASSUME NEW c, Linked("n64_soft", c, c), NEW n \in Int, n <= 8, c.int < 8, NEW area \in {"int", "float"}
  PROVE  /\ N64Soft!InRegister(c, "int", 8, n)
              = N64Soft!Placed([c EXCEPT !.int = @ + 1], N64Soft!Low("int", 8 * c.int, 8, n))
         /\ Piece("n64_soft", c, N64Soft!Placed([c EXCEPT !.int = @ + 1], N64Soft!Low(area, 8 * c.int, 8, n)))
<1>1. c.int \in Nat /\ c.int # c.hidden
  BY Typed, SameLinked DEF SameLink, Same
<1>2. PICK at \in Int : at = 8 * c.int + 8 - n
  BY <1>1
<1>3. N64Soft!Placed([c EXCEPT !.int = @ + 1], N64Soft!Low(area, 8 * c.int, 8, n))
        = Whole([c EXCEPT !.int = @ + 1], Run(area, at, n))
  BY <1>2, N64SoftBytes DEF N64Soft!Low, N64Soft!Placed, Whole
<1>4. 8 * c.int <= at /\ at + n <= 8 * c.int + 8
  BY <1>1, <1>2
<1>5. CASE area = "int"
  BY <1>1, <1>3, <1>4, <1>5, IntWord DEF Eight, N64Soft!InRegister
<1>6. CASE area = "float"
  BY <1>1, <1>3, <1>4, <1>6, SharedWord DEF N64Soft!InRegister
<1> QED BY <1>5, <1>6

LEMMA N64SoftKept ==
  ASSUME NEW p, NEW g, Linked("n64_soft", p, g), NEW t \in Types("n64_soft")
  PROVE  Kept("n64_soft", p, g, t)
<1>1. "n64_soft" \in Same /\ t \in Scalars
  BY DEF Same, AggrAbis, Types
<1>2. Linked("n64_soft", p, p) /\ p.int \in Nat
  BY <1>1, Typed DEF Linked, SameLink
<1>3. PICK n \in Int : n = N64Soft!Sizes[t.type] /\ n <= 8
  BY <1>1 DEF Scalars, ScalarNames, N64Soft!Sizes, N64Soft!Word
<1>4. ASSUME NEW m \in Int, m <= 8
      PROVE  /\ N64Soft!GetLongLongN64(p, m) = N64Soft!PutLongLongN64(p, m)
             /\ Piece("n64_soft", p, N64Soft!PutLongLongN64(p, m))
  BY <1>2, <1>4, N64SoftRegister, N64SoftStack DEF N64Soft!GetLongLongN64, N64Soft!PutLongLongN64
<1>5. ASSUME NEW m \in {4, 8}
      PROVE  /\ Piece("n64_soft", p, N64Soft!OnStack(p, 8, m))
             /\ Piece("n64_soft", p, N64Soft!Placed([p EXCEPT !.stack = @ + 8], N64Soft!Bytes("stack", p.stack, m)))
  <2>1. m \in Int /\ m <= 8
    OBVIOUS
  <2> QED BY <1>2, <2>1, N64SoftStack
<1>6. ASSUME NEW m \in {4, 8}, p.int < 8, NEW area \in {"int", "float"}
      PROVE  Piece("n64_soft", p, N64Soft!Placed([p EXCEPT !.int = @ + 1], N64Soft!Low(area, 8 * p.int, 8, m)))
  <2>1. m \in Int /\ m <= 8
    OBVIOUS
  <2> QED BY <1>2, <1>6, <2>1, N64SoftRegister
<1>7. N64Soft!GetDoubleN64(p) = N64Soft!PutDoubleN64(p) /\ Piece("n64_soft", p, N64Soft!PutDoubleN64(p))
  <2>1. CASE p.int < 8
    <3> DEFINE r == N64Soft!Placed([p EXCEPT !.int = @ + 1], N64Soft!Low("int", 8 * p.int, 8, 8))
    <3>1. N64Soft!Bytes("int", 8 * p.int, 8) = N64Soft!Low("int", 8 * p.int, 8, 8)
      BY <1>2 DEF N64Soft!Low
    <3>2. N64Soft!PutDoubleN64(p) = N64Soft!InRegister(p, "int", 8, 8)
      BY <2>1 DEF N64Soft!PutDoubleN64, N64Soft!PutLongLongN64
    <3>3. Piece("n64_soft", p, r) /\ N64Soft!InRegister(p, "int", 8, 8) = r
      BY <1>2, <2>1, N64SoftRegister
    <3>4. N64Soft!GetDoubleN64(p) = r
      BY <2>1, <3>1 DEF N64Soft!GetDoubleN64, N64Soft!FregData
    <3> QED BY <3>2, <3>3, <3>4
  <2>2. CASE p.int >= 8
    <3>1. N64Soft!GetDoubleN64(p) = N64Soft!OnStack(p, 8, 8) /\ N64Soft!PutDoubleN64(p) = N64Soft!OnStack(p, 8, 8)
      BY <1>2, <2>2 DEF N64Soft!GetDoubleN64, N64Soft!PutDoubleN64, N64Soft!PutLongLongN64
    <3>2. Piece("n64_soft", p, N64Soft!OnStack(p, 8, 8))
      BY <1>5
    <3> QED BY <3>1, <3>2
  <2> QED BY <1>2, <2>1, <2>2
<1>8. N64Soft!GetFloatN64(p) = N64Soft!PutFloatN64(p) /\ Piece("n64_soft", p, N64Soft!PutFloatN64(p))
  <2> DEFINE r == N64Soft!Placed([p EXCEPT !.int = @ + 1], N64Soft!Low(N64Soft!FregData, 8 * p.int, 8, 4))
             s == N64Soft!Placed([p EXCEPT !.stack = @ + 8], N64Soft!Bytes("stack", p.stack, 4))
  <2>1. N64Soft!GetFloatN64(p) = IF p.int < 8 THEN r ELSE s
    BY DEF N64Soft!GetFloatN64
  <2>2. N64Soft!PutFloatN64(p) = IF p.int < 8 THEN r ELSE s
    BY DEF N64Soft!PutFloatN64, N64Soft!FregData
  <2>3. p.int < 8 => Piece("n64_soft", p, r)
    BY <1>6 DEF N64Soft!FregData
  <2>4. Piece("n64_soft", p, s)
    BY <1>5
  <2> HIDE DEF r, s
  <2> QED BY <2>1, <2>2, <2>3, <2>4
<1>9. N64Soft!GetN64(p, t) = N64Soft!PutN64(p, t) /\ Piece("n64_soft", p, N64Soft!PutN64(p, t))
  BY <1>3, <1>4, <1>7, <1>8 DEF N64Soft!GetN64, N64Soft!PutN64
<1>10. N64Soft!Get(p, t) = N64Soft!GetN64(p, t) /\ N64Soft!Put(p, t) = N64Soft!PutN64(p, t)
  BY DEF N64Soft!Get, N64Soft!Put
<1>11. Get("n64_soft", p, t) = N64Soft!Get(p, t) /\ Put("n64_soft", p, t) = N64Soft!Put(p, t)
  BY DEF Get, Put
<1> QED BY <1>1, <1>9, <1>10, <1>11, SameKept

-----------------------------------------------------------------------------
(* cdecl on x86.                                                             *)

LEMMA CdeclBytes == \A area, at, n : Cdecl!Bytes(area, at, n) = Run(area, at, n)
BY DEF Cdecl!Bytes, Run

LEMMA CdeclAdd ==
  ASSUME NEW c, Linked("cdecl", c, c), NEW w \in {4, 8}, NEW n \in Int, n <= w
  PROVE  Cdecl!OnStack(c, w, n) = Cdecl!Add(c, w, n) /\ Piece("cdecl", c, Cdecl!Add(c, w, n))
<1>1. c.stack \in Nat /\ "cdecl" \in Same
  BY Typed DEF Same
<1> DEFINE end == c.stack + w
<1>2. Cdecl!Loaded = 0
  BY DEF Cdecl!Loaded, Cdecl!Fast
<1>3. Cdecl!Add(c, w, n) = Whole([c EXCEPT !.stack = end], Run("stack", c.stack, n))
  BY <1>1, <1>2, CdeclBytes DEF Cdecl!Add, Cdecl!Placed, Whole
<1>4. Cdecl!OnStack(c, w, n) = Whole([c EXCEPT !.stack = end], Run("stack", c.stack, n))
  BY <1>1, CdeclBytes DEF Cdecl!OnStack, Cdecl!Low, Cdecl!Placed, Whole
<1>5. end \in Nat /\ c.stack + n <= end /\ c.stack <= end
  BY <1>1
<1> HIDE DEF end
<1> QED BY <1>1, <1>3, <1>4, <1>5, StackWord

LEMMA CdeclKept ==
  ASSUME NEW p, NEW g, Linked("cdecl", p, g), NEW t \in Types("cdecl")
  PROVE  Kept("cdecl", p, g, t)
<1>1. "cdecl" \in Same /\ t \in Scalars
  BY DEF Same, AggrAbis, Types
<1>2. Linked("cdecl", p, p)
  BY <1>1 DEF Linked, SameLink
<1>3. p.aux \in Nat /\ p \in Counters /\ [p EXCEPT !.aux = p.aux] = p
  BY <1>2, Typed DEF Counters
<1>4. PICK n \in Int : n = Cdecl!Sizes[t.type] /\ (t.type \notin {"longlong", "double"} => n <= 4)
  BY <1>1 DEF Scalars, ScalarNames, Cdecl!Sizes
<1>5. ASSUME NEW w \in {4, 8}, NEW m \in Int, m <= w
      PROVE  /\ Cdecl!OnStack(p, w, m) = Cdecl!Add(p, w, m)
             /\ Piece("cdecl", p, Cdecl!Add(p, w, m))
  BY <1>2, <1>5, CdeclAdd
<1>6. /\ Cdecl!PutLongLong(p) = Cdecl!Add(p, 8, 8)
      /\ Cdecl!GetLongLong(p) = Cdecl!OnStack(p, 8, 8)
  BY <1>3 DEF Cdecl!PutLongLong, Cdecl!GetLongLong
<1>7. /\ Cdecl!PutInt(p, n) = Cdecl!Add(p, 4, n)
      /\ Cdecl!GetInt(p, n) = Cdecl!OnStack(p, 4, n)
  BY DEF Cdecl!PutInt, Cdecl!GetInt, Cdecl!DefaultI32, Cdecl!Fast
<1>8. Cdecl!Get(p, t) = Cdecl!Put(p, t) /\ Piece("cdecl", p, Cdecl!Put(p, t))
  BY <1>4, <1>5, <1>6, <1>7 DEF Cdecl!Get, Cdecl!Put
<1>9. Get("cdecl", p, t) = Cdecl!Get(p, t) /\ Put("cdecl", p, t) = Cdecl!Put(p, t)
  BY DEF Get, Put
<1> QED BY <1>1, <1>8, <1>9, SameKept

-----------------------------------------------------------------------------
(* stdcall on x86.                                                           *)

LEMMA StdBytes == \A area, at, n : Std!Bytes(area, at, n) = Run(area, at, n)
BY DEF Std!Bytes, Run

LEMMA StdAdd ==
  ASSUME NEW c, Linked("std", c, c), NEW w \in {4, 8}, NEW n \in Int, n <= w
  PROVE  Std!OnStack(c, w, n) = Std!Add(c, w, n) /\ Piece("std", c, Std!Add(c, w, n))
<1>1. c.stack \in Nat /\ "std" \in Same
  BY Typed DEF Same
<1> DEFINE end == c.stack + w
<1>2. Std!Loaded = 0
  BY DEF Std!Loaded, Std!Fast
<1>3. Std!Add(c, w, n) = Whole([c EXCEPT !.stack = end], Run("stack", c.stack, n))
  BY <1>1, <1>2, StdBytes DEF Std!Add, Std!Placed, Whole
<1>4. Std!OnStack(c, w, n) = Whole([c EXCEPT !.stack = end], Run("stack", c.stack, n))
  BY <1>1, StdBytes DEF Std!OnStack, Std!Low, Std!Placed, Whole
<1>5. end \in Nat /\ c.stack + n <= end /\ c.stack <= end
  BY <1>1
<1> HIDE DEF end
<1> QED BY <1>1, <1>3, <1>4, <1>5, StackWord

LEMMA StdKept ==
  ASSUME NEW p, NEW g, Linked("std", p, g), NEW t \in Types("std")
  PROVE  Kept("std", p, g, t)
<1>1. "std" \in Same /\ t \in Scalars
  BY DEF Same, AggrAbis, Types
<1>2. Linked("std", p, p)
  BY <1>1 DEF Linked, SameLink
<1>3. p.aux \in Nat /\ p \in Counters /\ [p EXCEPT !.aux = p.aux] = p
  BY <1>2, Typed DEF Counters
<1>4. PICK n \in Int : n = Std!Sizes[t.type] /\ (t.type \notin {"longlong", "double"} => n <= 4)
  BY <1>1 DEF Scalars, ScalarNames, Std!Sizes
<1>5. ASSUME NEW w \in {4, 8}, NEW m \in Int, m <= w
      PROVE  /\ Std!OnStack(p, w, m) = Std!Add(p, w, m)
             /\ Piece("std", p, Std!Add(p, w, m))
  BY <1>2, <1>5, StdAdd
<1>6. /\ Std!PutLongLong(p) = Std!Add(p, 8, 8)
      /\ Std!GetLongLong(p) = Std!OnStack(p, 8, 8)
  BY <1>3 DEF Std!PutLongLong, Std!GetLongLong
<1>7. /\ Std!PutInt(p, n) = Std!Add(p, 4, n)
      /\ Std!GetInt(p, n) = Std!OnStack(p, 4, n)
  BY DEF Std!PutInt, Std!GetInt, Std!DefaultI32, Std!Fast
<1>8. Std!Get(p, t) = Std!Put(p, t) /\ Piece("std", p, Std!Put(p, t))
  BY <1>4, <1>5, <1>6, <1>7 DEF Std!Get, Std!Put
<1>9. Get("std", p, t) = Std!Get(p, t) /\ Put("std", p, t) = Std!Put(p, t)
  BY DEF Get, Put
<1> QED BY <1>1, <1>8, <1>9, SameKept

-----------------------------------------------------------------------------
(* SPARC.                                                                    *)

LEMMA SparcBytes == \A area, at, n : Sparc!Bytes(area, at, n) = Run(area, at, n)
BY DEF Sparc!Bytes, Run

LEMMA SparcStack ==
  ASSUME NEW c, Linked("sparc", c, c), NEW w \in {4, 8}, NEW n \in Int, n <= w
  PROVE  Piece("sparc", c, Sparc!OnStack(c, w, n))
<1>1. c.stack \in Nat /\ "sparc" \in Same
  BY Typed DEF Same
<1> DEFINE end == c.stack + w
           at == c.stack + w - n
<1>2. Sparc!OnStack(c, w, n) = Whole([c EXCEPT !.stack = end], Run("stack", at, n))
  BY SparcBytes DEF Sparc!OnStack, Sparc!Low, Sparc!Placed, Whole
<1>3. /\ end \in Nat /\ at \in Int /\ c.stack <= at /\ at + n <= end /\ c.stack <= end
  BY <1>1
<1> HIDE DEF end, at
<1> QED BY <1>1, <1>2, <1>3, StackWord

LEMMA SparcKept ==
  ASSUME NEW p, NEW g, Linked("sparc", p, g), NEW t \in Types("sparc")
  PROVE  Kept("sparc", p, g, t)
<1>1. "sparc" \in Same /\ t \in Scalars
  BY DEF Same, AggrAbis, Types
<1>2. Linked("sparc", p, p)
  BY <1>1 DEF Linked, SameLink
<1>3. PICK n \in Int : n = Sparc!Sizes[t.type] /\ (n = 8 <=> t.type \in {"longlong", "double"}) /\ (n # 8 => n <= 4)
  BY <1>1 DEF Scalars, ScalarNames, Sparc!Sizes, Sparc!Word
<1>4. ASSUME NEW w \in {4, 8}, NEW m \in Int, m <= w
      PROVE  Piece("sparc", p, Sparc!OnStack(p, w, m))
  BY <1>2, <1>4, SparcStack
<1>5. Sparc!Get(p, t) = Sparc!Put(p, t) /\ Piece("sparc", p, Sparc!Put(p, t))
  BY <1>3, <1>4
  DEF Sparc!Get, Sparc!Put, Sparc!GetV8, Sparc!PutV8, Sparc!SparcWord, Sparc!SparcDword
<1>6. Get("sparc", p, t) = Sparc!Get(p, t) /\ Put("sparc", p, t) = Sparc!Put(p, t)
  BY DEF Get, Put
<1> QED BY <1>1, <1>5, <1>6, SameKept

-----------------------------------------------------------------------------
(* 32-bit PowerPC.                                                           *)

Ppc32Abis == {"ppc32", "ppc32_darwin"}

LEMMA WordsFresh ==
  ASSUME NEW conv \in Ppc32Abis, NEW c, NEW d, Linked(conv, c, c), Further(conv, c, d),
         NEW i \in Nat, NEW j \in Nat, NEW at \in Int, NEW n \in Int,
         4 * i <= at, at + n <= 4 * j, c.int <= i, j <= d.int, j <= 8
  PROVE  Fresh(conv, c, d, Run("int", at, n))
<1>1. conv \in Same
  BY DEF Ppc32Abis, Same
<1>2. PICK w : w = 4 /\ w = Width(conv)
  BY <1>1, SameMarks DEF Ppc32Abis
<1>3. w * i <= at /\ at + n <= w * j
  BY <1>2
<1>4. c.hidden \in {-1, 8}
  BY <1>1, SameLinked DEF SameLink, Ppc32Abis
<1>5. c.hidden \notin i..j - 1
  BY <1>4
<1> QED BY <1>1, <1>2, <1>3, <1>5, IntFresh

\* A floating-point register is two words.
LEMMA FprFresh ==
  ASSUME NEW conv \in Ppc32Abis, NEW c, NEW d, Linked(conv, c, c), Further(conv, c, d),
         c.float < d.float, NEW at \in Int, at = 8 * c.float
  PROVE  Fresh(conv, c, d, Run("float", at, 8))
<1>1. conv \in Same /\ c.float \in Nat /\ d.float \in Nat
  BY Typed DEF Ppc32Abis, Same, Further
<1>2. PICK w : w = 4 /\ w = Width(conv)
  BY <1>1, SameMarks DEF Ppc32Abis
<1>3. PICK i \in Nat, j \in Nat : i = 2 * c.float /\ j = 2 * d.float
  BY <1>1
<1>4. FloatMark(conv, c) = i /\ FloatMark(conv, d) = j
  BY <1>1, <1>3 DEF FloatMark, Ppc32Abis
<1>5. w * i <= at /\ at + 8 <= w * j /\ FloatMark(conv, c) <= i /\ j <= FloatMark(conv, d)
  BY <1>1, <1>2, <1>3, <1>4
<1> QED BY <1>1, <1>2, <1>5, FloatFresh

LEMMA Ppc32Bytes == \A area, at, n : Ppc32!Bytes(area, at, n) = Run(area, at, n)
BY DEF Ppc32!Bytes, Run

LEMMA Ppc32Skips ==
  ASSUME NEW c, Linked("ppc32", c, c), NEW j \in Nat, c.int <= j, j <= 8
  PROVE  /\ Further("ppc32", c, [c EXCEPT !.int = j]) /\ [c EXCEPT !.int = j].int = j
         /\ Linked("ppc32", [c EXCEPT !.int = j], [c EXCEPT !.int = j])
         /\ [c EXCEPT !.int = j].stack = c.stack
<1>1. /\ c \in Counters /\ c.int \in Nat /\ c.float \in Nat /\ c.stack \in Nat
      /\ SameLink("ppc32", c, c) /\ "ppc32" \in Same
  BY Typed, SameLinked DEF Same
<1> DEFINE d == [c EXCEPT !.int = j]
<1>2. /\ d \in Counters /\ d.int = j /\ d.float = c.float /\ d.stack = c.stack
      /\ d.hidden = c.hidden
  BY <1>1 DEF Counters
<1> HIDE DEF d
<1>3. Linked("ppc32", d, d)
  BY <1>1, <1>2, SameLinked DEF SameLink
<1>4. Further("ppc32", c, d)
  BY <1>1, <1>2, <1>3 DEF Further
<1> QED BY <1>2, <1>3, <1>4 DEF d

LEMMA Ppc32Stack ==
  ASSUME NEW c, Linked("ppc32", c, c), NEW w \in {4, 8}, NEW n \in Int, n <= w
  PROVE  /\ Piece("ppc32", c, Ppc32!OnStack(c, w, n))
         /\ Piece("ppc32", c, Ppc32!OnStack(Ppc32!Aligned(c, 8), w, n))
<1>1. c \in Counters /\ c.stack \in Nat /\ "ppc32" \in Same
  BY Typed DEF Same
<1>2. ASSUME NEW s \in Nat, c.stack <= s
      PROVE  Piece("ppc32", c, Ppc32!OnStack([c EXCEPT !.stack = s], w, n))
  <2> DEFINE end == s + w
             at == s + w - n
  <2>1. Ppc32!OnStack([c EXCEPT !.stack = s], w, n) = Whole([c EXCEPT !.stack = end], Run("stack", at, n))
    <3> DEFINE d == [c EXCEPT !.stack = s]
    <3>1. d.stack = s /\ [d EXCEPT !.stack = end] = [c EXCEPT !.stack = end]
      BY <1>1, StackTwice
    <3> HIDE DEF d
    <3>2. Ppc32!OnStack(d, w, n) = Whole([d EXCEPT !.stack = end], Run("stack", at, n))
      BY <3>1, Ppc32Bytes DEF Ppc32!OnStack, Ppc32!Low, Ppc32!Placed, Whole
    <3> QED BY <3>1, <3>2 DEF d
  <2>2. end \in Nat /\ at \in Int /\ c.stack <= at /\ at + n <= end /\ c.stack <= end
    BY <1>1, <1>2
  <2> HIDE DEF end, at
  <2>3. Piece("ppc32", c, Whole([c EXCEPT !.stack = end], Run("stack", at, n)))
    BY <1>1, <2>2, StackWord
  <2> QED BY <2>1, <2>3
<1>3. [c EXCEPT !.stack = c.stack] = c
  BY <1>1 DEF Counters
<1>4. PICK s \in Nat : s = 8 * ((c.stack + 8 - 1) \div 8) /\ c.stack <= s
  BY <1>1, RoundsUp
<1>5. Ppc32!Aligned(c, 8) = [c EXCEPT !.stack = s]
  BY <1>4 DEF Ppc32!Aligned, Ppc32!RoundUp
<1>6. Piece("ppc32", c, Ppc32!OnStack([c EXCEPT !.stack = s], w, n))
  BY <1>2, <1>4
<1>7. Piece("ppc32", c, Ppc32!OnStack([c EXCEPT !.stack = c.stack], w, n))
  BY <1>1, <1>2
<1> QED BY <1>3, <1>5, <1>6, <1>7

LEMMA Ppc32Int ==
  ASSUME NEW c, Linked("ppc32", c, c), NEW n \in Int, n <= 4
  PROVE  Ppc32!GetIntSysv(c, n) = Ppc32!PutIntSysv(c, n) /\ Piece("ppc32", c, Ppc32!PutIntSysv(c, n))
<1>1. CASE c.int < 8
  <2>1. PICK i \in Nat, j \in Nat, at \in Int : i = c.int /\ j = i + 1 /\ at = 4 * i + 4 - n
    BY Typed
  <2> DEFINE d == [c EXCEPT !.int = j]
  <2>2. Ppc32!InRegister(c, "int", 4, n) = Whole(d, Run("int", at, n))
    BY <2>1, Ppc32Bytes DEF Ppc32!InRegister, Ppc32!Low, Ppc32!Placed, Whole
  <2>3. Further("ppc32", c, d) /\ d.int = j
    BY <1>1, <2>1, Ppc32Skips
  <2> HIDE DEF d
  <2>4. 4 * i <= at /\ at + n <= 4 * j /\ c.int <= i /\ j <= d.int /\ j <= 8
    BY <1>1, <2>1, <2>3
  <2>5. "ppc32" \in Ppc32Abis /\ "ppc32" \in Same
    BY DEF Ppc32Abis, Same
  <2>6. Fresh("ppc32", c, d, Run("int", at, n))
    BY <2>3, <2>4, <2>5, WordsFresh
  <2>7. Piece("ppc32", c, Whole(d, Run("int", at, n)))
    BY <2>3, <2>5, <2>6, WholePiece, RunIsSeq
  <2> QED BY <1>1, <2>2, <2>7 DEF Ppc32!GetIntSysv, Ppc32!PutIntSysv, Ppc32!NumInt
<1>2. CASE ~(c.int < 8)
  BY <1>2, Ppc32Stack DEF Ppc32!GetIntSysv, Ppc32!PutIntSysv, Ppc32!NumInt
<1> QED BY <1>1, <1>2

LEMMA Ppc32LongLong ==
  ASSUME NEW c, Linked("ppc32", c, c)
  PROVE  Ppc32!GetLongLongSysv(c) = Ppc32!PutLongLongSysv(c) /\ Piece("ppc32", c, Ppc32!PutLongLongSysv(c))
<1>1. c.int \in Nat /\ c.int <= 8 /\ "ppc32" \in Ppc32Abis /\ "ppc32" \in Same
  BY Typed, SameLinked DEF SameLink, Same, Ppc32Abis
<1>2. CASE c.int < 7
  <2>1. PICK i \in Nat : i = 2 * ((c.int + 2 - 1) \div 2) /\ c.int <= i /\ i <= 6
    BY <1>1, <1>2
  <2>2. PICK j \in Nat, at \in Int : j = i + 2 /\ at = 4 * i
    OBVIOUS
  <2> DEFINE d == [c EXCEPT !.int = j]
  <2>3. /\ Ppc32!PutLongLongSysv(c) = Whole(d, Run("int", at, 8))
        /\ Ppc32!GetLongLongSysv(c) = Whole(d, Run("int", at, 8))
    BY <1>2, <2>1, <2>2, Ppc32Bytes
    DEF Ppc32!PutLongLongSysv, Ppc32!GetLongLongSysv, Ppc32!NumInt, Ppc32!RoundUp, Ppc32!Placed, Whole
  <2>4. Further("ppc32", c, d) /\ d.int = j
    BY <1>1, <2>1, <2>2, Ppc32Skips
  <2> HIDE DEF d
  <2>5. 4 * i <= at /\ at + 8 <= 4 * j /\ c.int <= i /\ j <= d.int /\ j <= 8
    BY <2>1, <2>2, <2>4
  <2>6. Fresh("ppc32", c, d, Run("int", at, 8))
    BY <1>1, <2>4, <2>5, WordsFresh
  <2> QED BY <1>1, <2>3, <2>4, <2>6, WholePiece, RunIsSeq
<1>3. CASE ~(c.int < 7)
  <2> DEFINE d == [c EXCEPT !.int = 8]
             r == Ppc32!OnStack(Ppc32!Aligned(d, 8), 8, 8)
  <2>1. Ppc32!PutLongLongSysv(c) = r /\ Ppc32!GetLongLongSysv(c) = r
    BY <1>3 DEF Ppc32!PutLongLongSysv, Ppc32!GetLongLongSysv, Ppc32!NumInt
  <2>2. Further("ppc32", c, d) /\ Linked("ppc32", d, d)
    BY <1>1, Ppc32Skips
  <2> HIDE DEF d
  <2>3. PICK w \in {4, 8}, n \in Int : w = 8 /\ n = 8 /\ n <= w
    OBVIOUS
  <2>4. Piece("ppc32", d, Ppc32!OnStack(Ppc32!Aligned(d, 8), w, n))
    BY <2>2, <2>3, Ppc32Stack
  <2>5. Piece("ppc32", d, r)
    BY <2>3, <2>4
  <2> QED BY <1>1, <2>1, <2>2, <2>5, PieceAfter
<1> QED BY <1>2, <1>3

LEMMA Ppc32Fpr ==
  ASSUME NEW c, Linked("ppc32", c, c), c.float < 8
  PROVE  Piece("ppc32", c, Ppc32!Fpr(c))
<1>1. /\ c \in Counters /\ c.int \in Nat /\ c.float \in Nat /\ c.stack \in Nat
      /\ SameLink("ppc32", c, c) /\ "ppc32" \in Same /\ "ppc32" \in Ppc32Abis
  BY Typed, SameLinked DEF Same, Ppc32Abis
<1> DEFINE d == [c EXCEPT !.float = @ + 1]
<1>2. /\ d \in Counters /\ d.int = c.int /\ d.float = c.float + 1 /\ d.stack = c.stack
      /\ d.hidden = c.hidden
  BY <1>1 DEF Counters
<1>3. PICK at \in Int : at = 8 * c.float
  BY <1>1
<1>4. Ppc32!Fpr(c) = Whole(d, Run("float", at, 8))
  BY <1>3, Ppc32Bytes DEF Ppc32!Fpr, Ppc32!Placed, Whole
<1> HIDE DEF d
<1>5. Linked("ppc32", d, d)
  BY <1>1, <1>2, SameLinked DEF SameLink
<1>6. Further("ppc32", c, d)
  BY <1>1, <1>2, <1>5 DEF Further
<1>7. c.float < d.float
  BY <1>1, <1>2
<1>8. Fresh("ppc32", c, d, Run("float", at, 8))
  BY <1>1, <1>3, <1>6, <1>7, FprFresh
<1> QED BY <1>1, <1>4, <1>6, <1>8, WholePiece, RunIsSeq

LEMMA Ppc32Kept ==
  ASSUME NEW p, NEW g, Linked("ppc32", p, g), NEW t \in Types("ppc32")
  PROVE  Kept("ppc32", p, g, t)
<1>1. "ppc32" \in Same /\ t \in Scalars
  BY DEF Same, AggrAbis, Types
<1>2. Linked("ppc32", p, p)
  BY <1>1 DEF Linked, SameLink
<1>3. PICK n \in Int : n = Ppc32!Sizes[t.type] /\ (t.type \notin {"longlong", "double"} => n <= 4)
  BY <1>1 DEF Scalars, ScalarNames, Ppc32!Sizes
<1>4. ASSUME NEW w \in {4, 8}
      PROVE  /\ Piece("ppc32", p, Ppc32!OnStack(p, w, w))
             /\ Piece("ppc32", p, Ppc32!OnStack(Ppc32!Aligned(p, 8), w, w))
  BY <1>2, Ppc32Stack
<1>5. Ppc32!GetDoubleSysv(p) = Ppc32!PutDoubleSysv(p) /\ Piece("ppc32", p, Ppc32!PutDoubleSysv(p))
  <2>1. Ppc32!GetDoubleSysv(p) = Ppc32!PutDoubleSysv(p)
    BY DEF Ppc32!GetDoubleSysv, Ppc32!PutDoubleSysv, Ppc32!NumFloat
  <2>2. CASE p.float < 8
    BY <1>2, <2>1, <2>2, Ppc32Fpr DEF Ppc32!GetDoubleSysv
  <2>3. CASE ~(p.float < 8)
    BY <1>4, <2>1, <2>3 DEF Ppc32!GetDoubleSysv
  <2> QED BY <2>2, <2>3
<1>6. Ppc32!GetFloatSysv(p) = Ppc32!PutFloatSysv(p) /\ Piece("ppc32", p, Ppc32!PutFloatSysv(p))
  <2>1. Ppc32!GetFloatSysv(p) = Ppc32!PutFloatSysv(p)
    BY DEF Ppc32!GetFloatSysv, Ppc32!PutFloatSysv, Ppc32!NumFloat
  <2>2. CASE p.float < 8
    BY <1>2, <2>1, <2>2, Ppc32Fpr DEF Ppc32!GetFloatSysv
  <2>3. CASE ~(p.float < 8)
    BY <1>4, <2>1, <2>3 DEF Ppc32!GetFloatSysv
  <2> QED BY <2>2, <2>3
<1>7. Ppc32!GetSysv(p, t) = Ppc32!PutSysv(p, t) /\ Piece("ppc32", p, Ppc32!PutSysv(p, t))
  BY <1>2, <1>3, <1>5, <1>6, Ppc32Int, Ppc32LongLong DEF Ppc32!GetSysv, Ppc32!PutSysv
<1>8. Get("ppc32", p, t) = Ppc32!GetSysv(p, t) /\ Put("ppc32", p, t) = Ppc32!PutSysv(p, t)
  BY DEF Get, Put, Ppc32!Get, Ppc32!Put
<1> QED BY <1>1, <1>7, <1>8, SameKept

-----------------------------------------------------------------------------
(* 32-bit PowerPC on Darwin.                                                 *)

LEMMA DarwinBytes == \A area, at, n : Ppc32Darwin!Bytes(area, at, n) = Run(area, at, n)
BY DEF Ppc32Darwin!Bytes, Run

LEMMA DarwinHomed ==
  ASSUME NEW e \in Counters, NEW at, NEW m
  PROVE  Ppc32Darwin!Homed(Whole(e, at), m) = Whole([e EXCEPT !.stack = e.stack + m], at)
BY DEF Ppc32Darwin!Homed, Whole

LEMMA DarwinFurther ==
  ASSUME NEW c, Linked("ppc32_darwin", c, c), NEW d \in Counters, d.hidden = c.hidden,
         c.int <= d.int, d.int <= 8, c.float <= d.float, d.float <= 13, c.stack <= d.stack,
         d.int = 8 \/ d.int >= d.float
  PROVE  Further("ppc32_darwin", c, d) /\ Linked("ppc32_darwin", d, d)
<1>1. SameLink("ppc32_darwin", c, c) /\ "ppc32_darwin" \in Same
  BY SameLinked DEF Same
<1>2. Linked("ppc32_darwin", d, d)
  BY <1>1, SameLinked DEF SameLink
<1> QED BY <1>2 DEF Further

LEMMA DarwinCounts ==
  ASSUME NEW c, Linked("ppc32_darwin", c, c)
  PROVE  /\ "ppc32_darwin" \in Same /\ "ppc32_darwin" \in Ppc32Abis
         /\ c \in Counters /\ c.int \in Nat /\ c.float \in Nat /\ c.stack \in Nat
         /\ c.int <= 8 /\ c.float <= 13 /\ (c.int = 8 \/ c.int >= c.float)
BY Typed, SameLinked DEF Same, SameLink, Ppc32Abis

\* A value on the stack, after a register or two have been skipped.
LEMMA DarwinStack ==
  ASSUME NEW c, Linked("ppc32_darwin", c, c), NEW w \in {4, 8}, NEW n \in Int, n <= w
  PROVE  Piece("ppc32_darwin", c, Ppc32Darwin!OnStack(c, w, n))
<1>1. /\ "ppc32_darwin" \in Same /\ c \in Counters /\ c.int \in Nat /\ c.float \in Nat
      /\ c.stack \in Nat /\ c.int <= 8 /\ c.float <= 13 /\ (c.int = 8 \/ c.int >= c.float)
  BY DarwinCounts
<1>2. PICK at \in Int, end \in Nat : at = c.stack + w - n /\ end = c.stack + w
  BY <1>1
<1> DEFINE d == [c EXCEPT !.stack = end]
<1>3. Ppc32Darwin!OnStack(c, w, n) = Whole(d, Run("stack", at, n))
  BY <1>2, DarwinBytes DEF Ppc32Darwin!OnStack, Ppc32Darwin!Low, Ppc32Darwin!Placed, Whole
<1>4. /\ d \in Counters /\ d.int = c.int /\ d.float = c.float /\ d.stack = end
      /\ d.hidden = c.hidden
  BY <1>1 DEF Counters
<1> HIDE DEF d
<1>5. c.stack <= end /\ c.stack <= at /\ at + n <= end
  BY <1>1, <1>2
<1>6. Further("ppc32_darwin", c, d)
  BY <1>1, <1>4, <1>5, DarwinFurther
<1>7. Fresh("ppc32_darwin", c, d, Run("stack", at, n))
  BY <1>1, <1>4, <1>5, <1>6, BytesFresh
<1> QED BY <1>1, <1>3, <1>6, <1>7, WholePiece, RunIsSeq

LEMMA DarwinInt ==
  ASSUME NEW c, Linked("ppc32_darwin", c, c), NEW n \in Int, n <= 4
  PROVE  /\ Ppc32Darwin!Fetch(c, 4, n) = Ppc32Darwin!PutIntDarwin(c, n)
         /\ Piece("ppc32_darwin", c, Ppc32Darwin!PutIntDarwin(c, n))
<1>1. Ppc32Darwin!Fetch(c, 4, n) = Ppc32Darwin!PutIntDarwin(c, n)
  BY DEF Ppc32Darwin!Fetch, Ppc32Darwin!PutIntDarwin
<1>2. CASE c.int < 8
  <2>1. /\ "ppc32_darwin" \in Same /\ "ppc32_darwin" \in Ppc32Abis
        /\ c \in Counters /\ c.int \in Nat /\ c.float \in Nat
        /\ c.stack \in Nat /\ c.int <= 8 /\ c.float <= 13 /\ (c.int = 8 \/ c.int >= c.float)
    BY DarwinCounts
  <2>2. PICK i \in Nat, j \in Nat, at \in Int : i = c.int /\ j = i + 1 /\ at = 4 * i + 4 - n
    BY <2>1
  <2> DEFINE r == Ppc32Darwin!PutIntDarwin(c, n)
             d == r.cur
  <2>3. r = Ppc32Darwin!Homed(Ppc32Darwin!InRegister(c, "int", 4, n), 4)
    BY <1>2 DEF Ppc32Darwin!PutIntDarwin, Ppc32Darwin!NumInt
  <2>4. Ppc32Darwin!InRegister(c, "int", 4, n) = Whole([c EXCEPT !.int = j], Run("int", at, n))
    BY <2>2, DarwinBytes DEF Ppc32Darwin!InRegister, Ppc32Darwin!Low, Ppc32Darwin!Placed, Whole
  <2> DEFINE e == [c EXCEPT !.int = j]
  <2>11. /\ e \in Counters /\ e.int = j /\ e.float = c.float /\ e.stack = c.stack
         /\ e.hidden = c.hidden
    BY <2>1 DEF Counters
  <2> HIDE DEF e
  <2>5. r = Whole([e EXCEPT !.stack = e.stack + 4], Run("int", at, n))
    BY <2>3, <2>4, <2>11, DarwinHomed DEF e
  <2>12. d = [e EXCEPT !.stack = e.stack + 4] /\ r = Whole(d, Run("int", at, n))
    BY <2>5 DEF Whole
  <2> HIDE DEF d, r
  <2>6. /\ d \in Counters /\ d.int = j /\ d.float = c.float /\ d.stack = c.stack + 4
        /\ d.hidden = c.hidden
    BY <2>1, <2>11, <2>12 DEF Counters
  <2>7. Further("ppc32_darwin", c, d)
    BY <1>2, <2>1, <2>2, <2>6, DarwinFurther
  <2>8. 4 * i <= at /\ at + n <= 4 * j /\ c.int <= i /\ j <= d.int /\ j <= 8
    BY <1>2, <2>2, <2>6
  <2>9. Fresh("ppc32_darwin", c, d, Run("int", at, n))
    BY <2>1, <2>7, <2>8, WordsFresh
  <2>10. Piece("ppc32_darwin", c, r)
    BY <2>1, <2>12, <2>7, <2>9, WholePiece, RunIsSeq
  <2> QED BY <1>1, <2>10 DEF r
<1>3. CASE ~(c.int < 8)
  <2>1. Ppc32Darwin!PutIntDarwin(c, n) = Ppc32Darwin!OnStack(c, 4, n)
    BY <1>3 DEF Ppc32Darwin!PutIntDarwin, Ppc32Darwin!NumInt
  <2> QED BY <1>1, <2>1, DarwinStack
<1> QED BY <1>2, <1>3

LEMMA DarwinLongLong ==
  ASSUME NEW c, Linked("ppc32_darwin", c, c)
  PROVE  /\ Ppc32Darwin!GetLongLongDarwin(c) = Ppc32Darwin!PutLongLongDarwin(c)
         /\ Piece("ppc32_darwin", c, Ppc32Darwin!PutLongLongDarwin(c))
<1>1. PICK n \in Int : n = 4
  OBVIOUS
<1>2. ASSUME NEW d, Linked("ppc32_darwin", d, d)
      PROVE  /\ Ppc32Darwin!Fetch(d, 4, 4) = Ppc32Darwin!PutIntDarwin(d, 4)
             /\ Piece("ppc32_darwin", d, Ppc32Darwin!PutIntDarwin(d, 4))
  BY <1>1, <1>2, DarwinInt
<1> DEFINE r == Ppc32Darwin!PutIntDarwin(c, 4)
           s == Ppc32Darwin!PutIntDarwin(r.cur, 4)
<1>3. Piece("ppc32_darwin", c, r) /\ Ppc32Darwin!Fetch(c, 4, 4) = r
  BY <1>2
<1> HIDE DEF r
<1>4. Piece("ppc32_darwin", r.cur, s) /\ Ppc32Darwin!Fetch(r.cur, 4, 4) = s
  BY <1>2, <1>3 DEF Piece
<1> HIDE DEF s
<1>5. Ppc32Darwin!PutLongLongDarwin(c) = Whole(s.cur, r.at \o s.at)
  BY DEF r, s, Ppc32Darwin!PutLongLongDarwin, Ppc32Darwin!Then, Ppc32Darwin!Placed, Whole
<1>6. Ppc32Darwin!GetLongLongDarwin(c) = Ppc32Darwin!Then(r, s)
  BY <1>3, <1>4 DEF Ppc32Darwin!GetLongLongDarwin
<1> QED BY <1>3, <1>4, <1>5, <1>6, PiecesJoin DEF Ppc32Darwin!Then, Ppc32Darwin!Placed, Whole

\* A float takes the integer registers of its size, where a copy of it is.
LEMMA DarwinCopied ==
  ASSUME NEW c, Linked("ppc32_darwin", c, c), NEW d, Further("ppc32_darwin", c, d),
         NEW words \in {1, 2}, d.int = Ppc32Darwin!Smaller(c.int + words, 8)
  PROVE  /\ Fresh("ppc32_darwin", c, d, Ppc32Darwin!Bytes("int", 4 * c.int, 4 * Ppc32Darwin!Smaller(words, 8 - c.int)))
<1>1. "ppc32_darwin" \in Ppc32Abis /\ c.int \in Nat /\ c.int <= 8
  BY DarwinCounts
<1>2. PICK i \in Nat, j \in Nat, at \in Int, n \in Int :
         i = c.int /\ j = Ppc32Darwin!Smaller(c.int + words, 8) /\ at = 4 * c.int
         /\ n = 4 * Ppc32Darwin!Smaller(words, 8 - c.int)
  BY <1>1 DEF Ppc32Darwin!Smaller
<1>3. 4 * i <= at /\ at + n <= 4 * j /\ c.int <= i /\ j <= d.int /\ j <= 8
  BY <1>1, <1>2 DEF Ppc32Darwin!Smaller
<1>4. Fresh("ppc32_darwin", c, d, Run("int", at, n))
  BY <1>1, <1>3, WordsFresh
<1> QED BY <1>2, <1>4, DarwinBytes

LEMMA DarwinFpr ==
  ASSUME NEW c, Linked("ppc32_darwin", c, c), c.float < 13, NEW words \in {1, 2},
         NEW m, m = 4 * words, NEW r,
         r = Ppc32Darwin!Copied(Ppc32Darwin!Homed(Ppc32Darwin!Fpr(Ppc32Darwin!Skip(c, words)), m), c, words)
  PROVE  Piece("ppc32_darwin", c, r)
<1>1. /\ "ppc32_darwin" \in Same /\ "ppc32_darwin" \in Ppc32Abis
      /\ c \in Counters /\ c.int \in Nat /\ c.float \in Nat
      /\ c.stack \in Nat /\ c.int <= 8 /\ c.float <= 13 /\ (c.int = 8 \/ c.int >= c.float)
  BY DarwinCounts
<1>2. PICK j \in Nat, f \in Nat, s \in Nat, at \in Int :
        /\ j = Ppc32Darwin!Smaller(c.int + words, 8) /\ f = c.float + 1
        /\ s = c.stack + m /\ at = 8 * c.float
  <2>1. Ppc32Darwin!Smaller(c.int + words, 8) \in Nat
    BY <1>1 DEF Ppc32Darwin!Smaller
  <2>2. c.float + 1 \in Nat /\ c.stack + m \in Nat /\ 8 * c.float \in Int
    BY <1>1
  <2> QED BY <2>1, <2>2
<1> DEFINE e == Ppc32Darwin!Skip(c, words)
           d == r.cur
<1>3. /\ e \in Counters /\ e.int = j /\ e.float = c.float /\ e.stack = c.stack
      /\ e.hidden = c.hidden
  BY <1>1, <1>2 DEF Counters, Ppc32Darwin!Skip, Ppc32Darwin!NumInt
<1> HIDE DEF e
<1>4. Ppc32Darwin!Fpr(e) = Whole([e EXCEPT !.float = f], Run("float", at, 8))
  BY <1>2, <1>3, DarwinBytes DEF Ppc32Darwin!Fpr, Ppc32Darwin!Placed, Whole
<1> DEFINE b == [e EXCEPT !.float = f]
<1>13. /\ b \in Counters /\ b.int = j /\ b.float = f /\ b.stack = c.stack
       /\ b.hidden = c.hidden
  BY <1>1, <1>2, <1>3 DEF Counters
<1> HIDE DEF b
<1>5. Ppc32Darwin!Homed(Ppc32Darwin!Fpr(e), m) = Whole([b EXCEPT !.stack = b.stack + m], Run("float", at, 8))
  BY <1>4, <1>13, DarwinHomed DEF b
<1>6. /\ d = [b EXCEPT !.stack = b.stack + m]
      /\ r.at = Run("float", at, 8)
      /\ r.copy = Ppc32Darwin!Bytes("int", 4 * c.int, 4 * Ppc32Darwin!Smaller(words, 8 - c.int))
  BY <1>5 DEF e, Ppc32Darwin!Copied, Ppc32Darwin!NumInt, Whole
<1>7. /\ d \in Counters /\ d.int = j /\ d.float = f /\ d.stack = s
      /\ d.hidden = c.hidden
  BY <1>1, <1>2, <1>13, <1>6 DEF Counters
<1> HIDE DEF d
<1>8. c.int <= j /\ j <= 8 /\ f <= 13 /\ c.stack <= s /\ (j = 8 \/ j >= f)
  BY <1>1, <1>2 DEF Ppc32Darwin!Smaller
<1>9. Further("ppc32_darwin", c, d) /\ Linked("ppc32_darwin", d, d)
  BY <1>1, <1>2, <1>7, <1>8, DarwinFurther
<1>10. Fresh("ppc32_darwin", c, d, Run("float", at, 8))
  <2>1. c.float < d.float
    BY <1>1, <1>2, <1>7
  <2> QED BY <1>1, <1>2, <1>9, <2>1, FprFresh
<1>11. Fresh("ppc32_darwin", c, d, r.copy)
  BY <1>2, <1>6, <1>7, <1>9, DarwinCopied
<1>12. Onward("ppc32_darwin", c, d)
  BY <1>1, <1>9, FurtherOnward
<1>14. r.at \in Seq(Cells)
  <2>1. PICK n \in Int : n = 8
    OBVIOUS
  <2> QED BY <1>6, <2>1, RunIsSeq
<1>15. Fresh("ppc32_darwin", c, d, r.at)
  BY <1>6, <1>10
<1> QED BY <1>9, <1>11, <1>12, <1>14, <1>15 DEF Piece, Moves, d

LEMMA DarwinFloat ==
  ASSUME NEW c, Linked("ppc32_darwin", c, c)
  PROVE  /\ Ppc32Darwin!GetFloatDarwin(c).cur = Ppc32Darwin!PutFloatDarwin(c).cur
         /\ Ppc32Darwin!GetFloatDarwin(c).at = Ppc32Darwin!PutFloatDarwin(c).at
         /\ Piece("ppc32_darwin", c, Ppc32Darwin!PutFloatDarwin(c))
<1>1. /\ "ppc32_darwin" \in Same /\ c \in Counters /\ c.int \in Nat /\ c.float \in Nat
      /\ c.stack \in Nat /\ c.int <= 8 /\ c.float <= 13 /\ (c.int = 8 \/ c.int >= c.float)
  BY DarwinCounts
<1> DEFINE e == Ppc32Darwin!Skip(c, 1)
<1>2. e = IF c.int < 8 THEN [c EXCEPT !.int = @ + 1] ELSE c
  BY <1>1 DEF Ppc32Darwin!Skip, Ppc32Darwin!Smaller, Ppc32Darwin!NumInt, Counters
<1>3. /\ e \in Counters /\ e.int = Ppc32Darwin!Smaller(c.int + 1, 8) /\ e.float = c.float
      /\ e.stack = c.stack /\ e.hidden = c.hidden
  BY <1>1 DEF Counters, Ppc32Darwin!Skip, Ppc32Darwin!Smaller, Ppc32Darwin!NumInt
<1>4. Ppc32Darwin!GetFloatDarwin(c) = IF e.float < 13 THEN Ppc32Darwin!Homed(Ppc32Darwin!Fpr(e), 4)
                                                     ELSE Ppc32Darwin!OnStack(e, 4, 4)
  BY <1>2 DEF Ppc32Darwin!GetFloatDarwin
<1>5. Ppc32Darwin!PutFloatDarwin(c)
        = Ppc32Darwin!Copied(IF c.float < 13 THEN Ppc32Darwin!Homed(Ppc32Darwin!Fpr(e), 4)
                                             ELSE Ppc32Darwin!OnStack(e, 4, 4), c, 1)
  BY DEF Ppc32Darwin!PutFloatDarwin, Ppc32Darwin!NumFloat
<1>6. CASE c.float < 13
  <2> DEFINE r == Ppc32Darwin!PutFloatDarwin(c)
             h == Ppc32Darwin!Homed(Ppc32Darwin!Fpr(e), 4)
  <2>1. h = Whole(h.cur, h.at)
    BY DEF Ppc32Darwin!Homed, Ppc32Darwin!Fpr, Ppc32Darwin!Placed, Whole
  <2>2. r = Ppc32Darwin!Copied(h, c, 1) /\ Ppc32Darwin!GetFloatDarwin(c) = h
    BY <1>3, <1>4, <1>5, <1>6
  <2>3. PICK words \in {1, 2}, m \in Nat : words = 1 /\ m = 4 /\ m = 4 * words
    OBVIOUS
  <2>4. r = Ppc32Darwin!Copied(Ppc32Darwin!Homed(Ppc32Darwin!Fpr(Ppc32Darwin!Skip(c, words)), m), c, words)
    BY <2>2, <2>3
  <2> HIDE DEF h, r, e
  <2>5. Piece("ppc32_darwin", c, r)
    BY <1>6, <2>3, <2>4, DarwinFpr
  <2>6. r.cur = h.cur /\ r.at = h.at
    BY <2>1, <2>2 DEF Ppc32Darwin!Copied, Whole
  <2> QED BY <2>2, <2>5, <2>6 DEF r
<1>7. CASE ~(c.float < 13)
  <2> DEFINE r == Ppc32Darwin!PutFloatDarwin(c)
             h == Ppc32Darwin!OnStack(e, 4, 4)
  <2>1. h = Whole(h.cur, h.at)
    BY DEF Ppc32Darwin!OnStack, Ppc32Darwin!Placed, Whole
  <2>2. r = Ppc32Darwin!Copied(h, c, 1) /\ Ppc32Darwin!GetFloatDarwin(c) = h
    BY <1>3, <1>4, <1>5, <1>7
  <2> HIDE DEF e
  <2>3. Further("ppc32_darwin", c, e) /\ Linked("ppc32_darwin", e, e)
    BY <1>1, <1>3, <1>7, DarwinFurther DEF Ppc32Darwin!Smaller
  <2>4. Piece("ppc32_darwin", e, h)
    <3>1. PICK w \in {4, 8}, n \in Int : w = 4 /\ n = 4 /\ n <= w
      OBVIOUS
    <3>2. Piece("ppc32_darwin", e, Ppc32Darwin!OnStack(e, w, n))
      BY <2>3, <3>1, DarwinStack
    <3> QED BY <3>1, <3>2
  <2> HIDE DEF h, r
  <2>5. Piece("ppc32_darwin", c, h)
    BY <1>1, <2>3, <2>4, PieceAfter
  <2>6. /\ r.cur = h.cur /\ r.at = h.at
        /\ r.copy = Ppc32Darwin!Bytes("int", 4 * c.int, 4 * Ppc32Darwin!Smaller(1, 8 - c.int))
    BY <2>1, <2>2 DEF Ppc32Darwin!Copied, Ppc32Darwin!NumInt, Whole
  <2>7. Fresh("ppc32_darwin", c, e, r.copy)
    <3>1. PICK words \in {1, 2} : words = 1
      OBVIOUS
    <3>2. e.int = Ppc32Darwin!Smaller(c.int + words, 8)
      BY <1>3, <3>1
    <3> QED BY <2>3, <2>6, <3>1, <3>2, DarwinCopied
  <2>8. Fresh("ppc32_darwin", c, h.cur, r.copy)
    BY <2>4, <2>7, FreshBefore DEF Piece, Moves
  <2>9. Piece("ppc32_darwin", c, r)
    BY <2>5, <2>6, <2>8 DEF Piece, Moves
  <2> QED BY <2>2, <2>6, <2>9 DEF r
<1> QED BY <1>6, <1>7

LEMMA DarwinDouble ==
  ASSUME NEW c, Linked("ppc32_darwin", c, c)
  PROVE  /\ Ppc32Darwin!GetDoubleDarwin(c).cur = Ppc32Darwin!PutDoubleDarwin(c).cur
         /\ Ppc32Darwin!GetDoubleDarwin(c).at = Ppc32Darwin!PutDoubleDarwin(c).at
         /\ Piece("ppc32_darwin", c, Ppc32Darwin!PutDoubleDarwin(c))
<1>1. /\ "ppc32_darwin" \in Same /\ c \in Counters /\ c.int \in Nat /\ c.float \in Nat
      /\ c.stack \in Nat /\ c.int <= 8 /\ c.float <= 13 /\ (c.int = 8 \/ c.int >= c.float)
  BY DarwinCounts
<1> DEFINE e == Ppc32Darwin!Skip(c, 2)
           d == CASE c.int < 7 -> [c EXCEPT !.int = @ + 2]
                  [] c.int = 7 -> [c EXCEPT !.int = 8]
                  [] OTHER     -> c
<1>2. e = d
  <2>1. CASE c.int < 7
    BY <1>1, <2>1 DEF Ppc32Darwin!Skip, Ppc32Darwin!Smaller, Ppc32Darwin!NumInt
  <2>2. CASE c.int = 7
    BY <1>1, <2>2 DEF Ppc32Darwin!Skip, Ppc32Darwin!Smaller, Ppc32Darwin!NumInt
  <2>3. CASE c.int = 8
    <3>1. [c EXCEPT !.int = 8] = c
      BY <1>1, <2>3 DEF Counters
    <3>2. e = [c EXCEPT !.int = 8]
      BY <2>3 DEF Ppc32Darwin!Skip, Ppc32Darwin!Smaller, Ppc32Darwin!NumInt
    <3> QED BY <2>3, <3>1, <3>2
  <2> QED BY <1>1, <2>1, <2>2, <2>3
<1>3. e.float = c.float
  BY <1>1 DEF Ppc32Darwin!Skip, Counters
<1> DEFINE h == Ppc32Darwin!Homed(Ppc32Darwin!Fpr(e), 8)
<1>4. Ppc32Darwin!GetDoubleDarwin(c) = IF d.float < 13 THEN Ppc32Darwin!Homed(Ppc32Darwin!Fpr(d), 8)
                                                      ELSE Ppc32Darwin!OnStack(d, 8, 8)
  BY DEF Ppc32Darwin!GetDoubleDarwin
<1>5. CASE c.float < 13
  <2> DEFINE r == Ppc32Darwin!PutDoubleDarwin(c)
  <2>1. h = Whole(h.cur, h.at)
    BY DEF Ppc32Darwin!Homed, Ppc32Darwin!Fpr, Ppc32Darwin!Placed, Whole
  <2>2. Ppc32Darwin!GetDoubleDarwin(c) = h
    BY <1>2, <1>3, <1>4, <1>5
  <2>3. r = Ppc32Darwin!Copied(h, c, 2)
    BY <1>5 DEF Ppc32Darwin!PutDoubleDarwin, Ppc32Darwin!NumFloat
  <2>4. PICK words \in {1, 2}, m \in Nat : words = 2 /\ m = 8 /\ m = 4 * words
    OBVIOUS
  <2>5. r = Ppc32Darwin!Copied(Ppc32Darwin!Homed(Ppc32Darwin!Fpr(Ppc32Darwin!Skip(c, words)), m), c, words)
    BY <2>3, <2>4
  <2> HIDE DEF h, r, e, d
  <2>6. Piece("ppc32_darwin", c, r)
    BY <1>5, <2>4, <2>5, DarwinFpr
  <2>7. r.cur = h.cur /\ r.at = h.at
    BY <2>1, <2>3 DEF Ppc32Darwin!Copied, Whole
  <2> QED BY <2>2, <2>6, <2>7 DEF r
<1>6. CASE ~(c.float < 13)
  <2>1. c.int = 8
    BY <1>1, <1>6
  <2>2. d = c
    BY <2>1
  <2>3. Ppc32Darwin!GetDoubleDarwin(c) = Ppc32Darwin!OnStack(c, 8, 8)
    BY <1>4, <1>6, <2>2
  <2>4. Ppc32Darwin!PutDoubleDarwin(c) = Ppc32Darwin!OnStack(c, 8, 8)
    BY <1>6 DEF Ppc32Darwin!PutDoubleDarwin, Ppc32Darwin!NumFloat
  <2>5. PICK w \in {4, 8}, n \in Int : w = 8 /\ n = 8 /\ n <= w
    OBVIOUS
  <2>6. Piece("ppc32_darwin", c, Ppc32Darwin!OnStack(c, w, n))
    BY <2>5, DarwinStack
  <2> QED BY <2>3, <2>4, <2>5, <2>6
<1> QED BY <1>5, <1>6

LEMMA Ppc32DarwinKept ==
  ASSUME NEW p, NEW g, Linked("ppc32_darwin", p, g), NEW t \in Types("ppc32_darwin")
  PROVE  Kept("ppc32_darwin", p, g, t)
<1>1. "ppc32_darwin" \in Same /\ t \in Scalars
  BY DEF Same, AggrAbis, Types
<1>2. Linked("ppc32_darwin", p, p)
  BY <1>1 DEF Linked, SameLink
<1>3. PICK n \in Int : n = Ppc32Darwin!Sizes[t.type] /\ (t.type \notin {"longlong", "double"} => n <= 4)
  BY <1>1 DEF Scalars, ScalarNames, Ppc32Darwin!Sizes
<1>4. t.type \notin {"longlong", "double"} =>
        /\ Ppc32Darwin!Fetch(p, 4, n) = Ppc32Darwin!PutIntDarwin(p, n)
        /\ Piece("ppc32_darwin", p, Ppc32Darwin!PutIntDarwin(p, n))
  BY <1>2, <1>3, DarwinInt
<1> DEFINE r == Ppc32Darwin!PutDarwin(p, t)
           s == Ppc32Darwin!GetDarwin(p, t)
<1>5. s.cur = r.cur /\ s.at = r.at /\ Piece("ppc32_darwin", p, r)
  <2>1. CASE t.type = "longlong"
    BY <1>2, <2>1, DarwinLongLong DEF Ppc32Darwin!GetDarwin, Ppc32Darwin!PutDarwin
  <2>2. CASE t.type = "float"
    BY <1>2, <2>2, DarwinFloat DEF Ppc32Darwin!GetDarwin, Ppc32Darwin!PutDarwin
  <2>3. CASE t.type = "double"
    BY <1>2, <2>3, DarwinDouble DEF Ppc32Darwin!GetDarwin, Ppc32Darwin!PutDarwin
  <2>4. CASE t.type \notin {"longlong", "float", "double"}
    BY <1>3, <1>4, <2>4 DEF Ppc32Darwin!GetDarwin, Ppc32Darwin!PutDarwin
  <2> QED BY <2>1, <2>2, <2>3, <2>4
<1>6. Get("ppc32_darwin", p, t) = s /\ Put("ppc32_darwin", p, t) = r
  BY DEF Get, Put, Ppc32Darwin!Get, Ppc32Darwin!Put
<1> HIDE DEF r, s
<1> QED BY <1>1, <1>5, <1>6, SameKept

-----------------------------------------------------------------------------
(* 64-bit PowerPC, ELF v1.                                                   *)

LEMMA Ppc64Bytes == \A area, at, n : Ppc64!Bytes(area, at, n) = Run(area, at, n)
BY DEF Ppc64!Bytes, Run

LEMMA Ppc64Counts ==
  ASSUME NEW c, Linked("ppc64", c, c)
  PROVE  /\ "ppc64" \in Same /\ Width("ppc64") = 8
         /\ c \in Counters /\ c.int \in Nat /\ c.float \in Nat /\ c.stack \in Nat
         /\ c.int <= 8 /\ c.float <= 13 /\ c.hidden \in {-1, 8}
BY Typed, SameLinked DEF Same, SameLink, Width

LEMMA Ppc64Further ==
  ASSUME NEW c, Linked("ppc64", c, c), NEW d \in Counters, d.hidden = c.hidden,
         c.int <= d.int, d.int <= 8, c.float <= d.float, d.float <= 13, c.stack <= d.stack
  PROVE  Further("ppc64", c, d) /\ Linked("ppc64", d, d)
<1>1. SameLink("ppc64", c, c) /\ "ppc64" \in Same
  BY SameLinked DEF Same
<1>2. Linked("ppc64", d, d)
  BY <1>1, SameLinked DEF SameLink
<1> QED BY <1>2 DEF Further

\* The eight bytes of the parameter area that every argument has.
LEMMA Ppc64Slot ==
  ASSUME NEW e \in Counters, NEW at, NEW copy,
         NEW r, r = [cur |-> e, at |-> at, copy |-> copy]
  PROVE  /\ [r EXCEPT !.cur = Ppc64!Push(@)]
              = [cur |-> [e EXCEPT !.stack = e.stack + 8], at |-> at, copy |-> copy]
         /\ Ppc64!NextSlot(r) = [cur |-> [e EXCEPT !.stack = e.stack + 8], at |-> at, copy |-> copy]
<1>1. Ppc64!Push(e) = [e EXCEPT !.stack = e.stack + 8]
  BY DEF Ppc64!Push, Counters
<1>2. [r EXCEPT !.cur = Ppc64!Push(@)] = [cur |-> Ppc64!Push(e), at |-> at, copy |-> copy]
  OBVIOUS
<1>3. Ppc64!NextSlot(r) = [cur |-> [e EXCEPT !.stack = e.stack + 8], at |-> at, copy |-> copy]
  BY DEF Ppc64!NextSlot
<1> QED BY <1>1, <1>2, <1>3

LEMMA Ppc64Stack ==
  ASSUME NEW c, Linked("ppc64", c, c), NEW n \in Int, n <= 8
  PROVE  /\ Ppc64!OnStack(c, 8, n) = Ppc64!Pushed(c, n)
         /\ Piece("ppc64", c, Ppc64!Pushed(c, n))
<1>1. /\ "ppc64" \in Same /\ c \in Counters /\ c.int \in Nat /\ c.float \in Nat
      /\ c.stack \in Nat /\ c.int <= 8 /\ c.float <= 13
  BY Ppc64Counts
<1>2. PICK at \in Int, end \in Nat : at = c.stack + 8 - n /\ end = c.stack + 8
  BY <1>1
<1> DEFINE d == [c EXCEPT !.stack = end]
<1>3. Ppc64!OnStack(c, 8, n) = Whole(d, Run("stack", at, n))
  BY <1>2, Ppc64Bytes DEF Ppc64!OnStack, Ppc64!Low, Ppc64!Placed, Whole
<1>4. /\ d \in Counters /\ d.int = c.int /\ d.float = c.float /\ d.stack = end
      /\ d.hidden = c.hidden
  BY <1>1 DEF Counters
<1>5. Ppc64!Pushed(c, n) = Whole(d, Run("stack", at, n))
  <2>1. Ppc64!Push(c) = d
    BY <1>1, <1>2 DEF Ppc64!Push
  <2> HIDE DEF d
  <2>2. d.stack - 8 + 8 - n = at
    BY <1>1, <1>2, <1>4
  <2> QED BY <2>1, <2>2, Ppc64Bytes DEF Ppc64!Pushed, Ppc64!Low, Ppc64!Placed, Whole
<1> HIDE DEF d
<1>6. c.stack <= end /\ c.stack <= at /\ at + n <= end
  BY <1>1, <1>2
<1>7. Further("ppc64", c, d)
  BY <1>1, <1>4, <1>6, Ppc64Further
<1>8. Fresh("ppc64", c, d, Run("stack", at, n))
  BY <1>1, <1>4, <1>6, <1>7, BytesFresh
<1> QED BY <1>1, <1>3, <1>5, <1>7, <1>8, WholePiece, RunIsSeq

LEMMA Ppc64GprFresh ==
  ASSUME NEW c, Linked("ppc64", c, c), NEW d, Further("ppc64", c, d), c.int < d.int, d.int <= 8,
         NEW at \in Int, NEW n \in Int, 8 * c.int <= at, at + n <= 8 * c.int + 8
  PROVE  Fresh("ppc64", c, d, Run("int", at, n))
<1>1. "ppc64" \in Same /\ Width("ppc64") = 8 /\ c.int \in Nat /\ c.hidden \in {-1, 8} /\ d.int \in Nat
  BY Ppc64Counts, Typed DEF Further
<1>2. PICK i \in Nat, j \in Nat, w \in Nat : i = c.int /\ j = c.int + 1 /\ w = Width("ppc64") /\ w = 8
  BY <1>1
<1>3. w * i <= at /\ at + n <= w * j /\ c.int <= i /\ j <= d.int /\ c.hidden \notin i..j - 1
  BY <1>1, <1>2
<1> QED BY <1>1, <1>2, <1>3, IntFresh

LEMMA Ppc64FprFresh ==
  ASSUME NEW c, Linked("ppc64", c, c), NEW d, Further("ppc64", c, d), c.float < d.float,
         NEW at \in Int, at = 8 * c.float
  PROVE  Fresh("ppc64", c, d, Run("float", at, 8))
<1>1. "ppc64" \in Same /\ Width("ppc64") = 8 /\ c.float \in Nat /\ d.float \in Nat
  BY Ppc64Counts, Typed DEF Further
<1>2. PICK i \in Nat, j \in Nat, w \in Nat : i = c.float /\ j = c.float + 1 /\ w = Width("ppc64") /\ w = 8
  BY <1>1
<1>3. FloatMark("ppc64", c) = c.float /\ FloatMark("ppc64", d) = d.float
  BY DEF FloatMark
<1>4. w * i <= at /\ at + 8 <= w * j /\ FloatMark("ppc64", c) <= i /\ j <= FloatMark("ppc64", d)
  BY <1>1, <1>2, <1>3
<1> QED BY <1>1, <1>2, <1>4, FloatFresh

LEMMA Ppc64Int ==
  ASSUME NEW c, Linked("ppc64", c, c), NEW n \in Int, n <= 8
  PROVE  /\ Ppc64!GetLongLong(c, n) = Ppc64!PutLongLong(c, n)
         /\ Piece("ppc64", c, Ppc64!PutLongLong(c, n))
<1>1. /\ "ppc64" \in Same /\ c \in Counters /\ c.int \in Nat /\ c.float \in Nat
      /\ c.stack \in Nat /\ c.int <= 8 /\ c.float <= 13
  BY Ppc64Counts
<1>2. CASE c.int < 8
  <2>1. PICK at \in Int : at = 8 * c.int + 8 - n
    BY <1>1
  <2> DEFINE e == [c EXCEPT !.int = @ + 1]
             d == [e EXCEPT !.stack = e.stack + 8]
             r == Ppc64!InRegister(c, "int", 8, n)
  <2>9. e \in Counters /\ e.int = c.int + 1 /\ e.float = c.float
        /\ e.stack = c.stack /\ e.hidden = c.hidden
    BY <1>1 DEF Counters
  <2>3. r = Whole(e, Run("int", at, n))
    BY <2>1, Ppc64Bytes DEF Ppc64!InRegister, Ppc64!Low, Ppc64!Placed, Whole
  <2>4. Ppc64!PutLongLong(c, n) = [r EXCEPT !.cur = Ppc64!Push(@)] /\ Ppc64!GetLongLong(c, n) = Ppc64!NextSlot(r)
    BY <1>1, <1>2 DEF Ppc64!PutLongLong, Ppc64!GetLongLong, Ppc64!NumInt
  <2> HIDE DEF e, r
  <2>2. d \in Counters /\ d.int = c.int + 1 /\ d.float = c.float
        /\ d.stack = c.stack + 8 /\ d.hidden = c.hidden
    BY <1>1, <2>9 DEF Counters
  <2>5. [r EXCEPT !.cur = Ppc64!Push(@)] = Whole(d, Run("int", at, n)) /\ Ppc64!NextSlot(r) = Whole(d, Run("int", at, n))
    BY <2>9, <2>3, Ppc64Slot DEF Whole
  <2> HIDE DEF d
  <2>6. Further("ppc64", c, d)
    BY <1>1, <1>2, <2>2, Ppc64Further
  <2>7. Fresh("ppc64", c, d, Run("int", at, n))
    <3>1. c.int < d.int /\ d.int <= 8 /\ 8 * c.int <= at /\ at + n <= 8 * c.int + 8
      BY <1>1, <1>2, <2>1, <2>2
    <3> QED BY <2>6, <3>1, Ppc64GprFresh
  <2>8. Piece("ppc64", c, Whole(d, Run("int", at, n)))
    BY <1>1, <2>6, <2>7, WholePiece, RunIsSeq
  <2> QED BY <2>4, <2>5, <2>8
<1>3. CASE ~(c.int < 8)
  <2>1. Ppc64!PutLongLong(c, n) = Ppc64!Pushed(c, n) /\ Ppc64!GetLongLong(c, n) = Ppc64!OnStack(c, 8, n)
    BY <1>1, <1>3 DEF Ppc64!PutLongLong, Ppc64!GetLongLong, Ppc64!NumInt
  <2> QED BY <2>1, Ppc64Stack
<1> QED BY <1>2, <1>3

LEMMA Ppc64Double ==
  ASSUME NEW c, Linked("ppc64", c, c), NEW n \in Int, n <= 8
  PROVE  /\ Ppc64!GetDouble(c, n).cur = Ppc64!PutDouble(c, n).cur
         /\ Ppc64!GetDouble(c, n).at = Ppc64!PutDouble(c, n).at
         /\ Piece("ppc64", c, Ppc64!PutDouble(c, n))
<1>1. /\ "ppc64" \in Same /\ c \in Counters /\ c.int \in Nat /\ c.float \in Nat
      /\ c.stack \in Nat /\ c.int <= 8 /\ c.float <= 13
  BY Ppc64Counts
<1>2. CASE ~(c.float < 13)
  <2>1. Ppc64!PutDouble(c, n) = Ppc64!Pushed(c, n) /\ Ppc64!GetDouble(c, n) = Ppc64!OnStack(c, 8, n)
    BY <1>1, <1>2 DEF Ppc64!PutDouble, Ppc64!GetDouble, Ppc64!NumFloat
  <2> QED BY <2>1, Ppc64Stack
<1>3. CASE c.float < 13
  <2>1. PICK at \in Int, cat \in Int : at = 8 * c.float /\ cat = 8 * c.int
    BY <1>1
  <2> DEFINE b == IF c.int < 8 THEN [c EXCEPT !.int = @ + 1] ELSE c
             e == [b EXCEPT !.float = @ + 1]
             d == [e EXCEPT !.stack = e.stack + 8]
             place == Run("float", at, 8)
             copy == IF c.int < 8 THEN Run("int", cat, 8) ELSE place
             r == Ppc64!FprAndGpr(c)
             s == Ppc64!Fpr(b)
  <2>2. /\ b \in Counters /\ b.float = c.float /\ b.stack = c.stack /\ b.hidden = c.hidden
        /\ b.int = IF c.int < 8 THEN c.int + 1 ELSE c.int
    BY <1>1 DEF Counters
  <2> HIDE DEF b
  <2>3. /\ e \in Counters /\ e.float = c.float + 1 /\ e.stack = c.stack /\ e.hidden = c.hidden
        /\ e.int = b.int
    BY <1>1, <2>2 DEF Counters
  <2>4. s = Whole(e, place)
    BY <2>1, <2>2, Ppc64Bytes DEF Ppc64!Fpr, Ppc64!Placed, Whole
  <2> HIDE DEF e, s
  <2>5. r = [cur |-> e, at |-> place, copy |-> copy]
    <3>1. CASE c.int < 8
      <4>1. r = [s EXCEPT !.copy = Run("int", cat, 8)]
        BY <2>1, <3>1, Ppc64Bytes DEF b, s, Ppc64!FprAndGpr, Ppc64!NumInt
      <4> QED BY <2>4, <3>1, <4>1 DEF Whole
    <3>2. CASE ~(c.int < 8)
      <4>1. r = s
        BY <3>2 DEF b, s, Ppc64!FprAndGpr, Ppc64!NumInt
      <4> QED BY <2>4, <3>2, <4>1 DEF Whole
    <3> QED BY <3>1, <3>2
  <2>6. Ppc64!PutDouble(c, n) = [r EXCEPT !.cur = Ppc64!Push(@)]
    BY <1>1, <1>3 DEF Ppc64!PutDouble, Ppc64!NumFloat
  <2>7. Ppc64!GetDouble(c, n) = Ppc64!NextSlot(s)
    BY <1>3 DEF b, s, Ppc64!GetDouble
  <2> HIDE DEF r
  <2>8. /\ Ppc64!PutDouble(c, n) = [cur |-> d, at |-> place, copy |-> copy]
        /\ Ppc64!GetDouble(c, n) = Whole(d, place)
    <3> HIDE DEF place, copy
    <3> QED BY <2>3, <2>4, <2>5, <2>6, <2>7, Ppc64Slot DEF Whole
  <2>9. /\ d \in Counters /\ d.float = c.float + 1 /\ d.stack = c.stack + 8 /\ d.hidden = c.hidden
        /\ d.int = b.int
    BY <1>1, <2>3 DEF Counters
  <2> HIDE DEF d
  <2>10. Further("ppc64", c, d) /\ Linked("ppc64", d, d) /\ d.int <= 8 /\ c.float < d.float
    BY <1>1, <1>3, <2>2, <2>9, Ppc64Further
  <2>11. Fresh("ppc64", c, d, place)
    BY <2>1, <2>10, Ppc64FprFresh
  <2>12. Fresh("ppc64", c, d, copy)
    <3>1. CASE c.int < 8
      <4>1. PICK m \in Int : m = 8 /\ 8 * c.int <= cat /\ cat + m <= 8 * c.int + 8
        BY <1>1, <2>1
      <4>2. c.int < d.int
        BY <1>1, <2>2, <2>9, <3>1
      <4>3. Fresh("ppc64", c, d, Run("int", cat, m))
        BY <2>10, <4>1, <4>2, Ppc64GprFresh
      <4> QED BY <3>1, <4>1, <4>3
    <3>2. CASE ~(c.int < 8)
      BY <2>11, <3>2
    <3> QED BY <3>1, <3>2
  <2>13. place \in Seq(Cells)
    <3>1. PICK m \in Int : m = 8
      OBVIOUS
    <3> QED BY <3>1, RunIsSeq
  <2>14. Onward("ppc64", c, d)
    BY <1>1, <2>10, FurtherOnward
  <2> HIDE DEF place, copy
  <2> QED BY <2>8, <2>10, <2>11, <2>12, <2>13, <2>14 DEF Piece, Moves, Whole
<1> QED BY <1>2, <1>3

LEMMA Ppc64Kept ==
  ASSUME NEW p, NEW g, Linked("ppc64", p, g), NEW t \in Types("ppc64")
  PROVE  Kept("ppc64", p, g, t)
<1>1. "ppc64" \in Same /\ t \in Scalars
  BY DEF Same, AggrAbis, Types
<1>2. Linked("ppc64", p, p)
  BY <1>1 DEF Linked, SameLink
<1>3. PICK n \in Int : n = Ppc64!Sizes[t.type] /\ n <= 8
  BY <1>1 DEF Scalars, ScalarNames, Ppc64!Sizes
<1> DEFINE r == Ppc64!Put(p, t)
           s == Ppc64!Get(p, t)
<1>4. s.cur = r.cur /\ s.at = r.at /\ Piece("ppc64", p, r)
  BY <1>2, <1>3, Ppc64Int, Ppc64Double DEF Ppc64!Get, Ppc64!Put
<1>5. Get("ppc64", p, t) = s /\ Put("ppc64", p, t) = r
  BY DEF Get, Put
<1> HIDE DEF r, s
<1> QED BY <1>1, <1>4, <1>5, SameKept

-----------------------------------------------------------------------------
(* Conventions in which the sides count differently.                         *)

Agreed(conv, p, r, s) ==
  s.at \in {r.at, r.copy} /\ Linked(conv, r.cur, s.cur) /\ Moves(conv, p, r)

-----------------------------------------------------------------------------
(* fastcall on x86, by Microsoft and by GNU.                                 *)

LEMMA FastMsBytes == \A area, at, n : FastMs!Bytes(area, at, n) = Run(area, at, n)
BY DEF FastMs!Bytes, Run

LEMMA FastMsMarks ==
  ASSUME NEW c
  PROVE  /\ IntMark("fast_ms", c) = c.aux /\ FloatMark("fast_ms", c) = c.float
         /\ StackMark("fast_ms", c) = c.stack - 8 /\ Width("fast_ms") = 4
         /\ \A k : FreeRegister("fast_ms", c, "int", k) <=> k >= c.aux /\ k # c.hidden
         /\ \A k : FreeRegister("fast_ms", c, "float", k) <=> k >= c.float
BY DEF IntMark, FloatMark, StackMark, Width, AggrAbis, FreeRegister

LEMMA FastMsLinked ==
  ASSUME NEW p, NEW g
  PROVE  Linked("fast_ms", p, g) <=> /\ p \in Counters /\ g \in Counters /\ p.hidden = -1 /\ g.hidden = -1
                                     /\ FastLink(p, g)
BY DEF Linked, Same

LEMMA FastMsOnward ==
  ASSUME NEW p, NEW g, Linked("fast_ms", p, g), NEW d, NEW e, Linked("fast_ms", d, e),
         p.aux <= d.aux, p.stack <= d.stack
  PROVE  Onward("fast_ms", p, d)
<1>1. /\ p.aux \in Nat /\ p.stack \in Nat /\ g.stack \in Nat /\ d.aux \in Nat /\ d.stack \in Nat /\ e.stack \in Nat
      /\ p.float = 0 /\ d.float = 0 /\ p.hidden = -1 /\ d.hidden = -1
      /\ p.stack = g.stack + 8 /\ d.stack = e.stack + 8
  BY Typed, FastMsLinked DEF FastLink
<1> QED BY <1>1, FastMsMarks DEF Onward

\* A value in the vector, or in one of the registers.
LEMMA FastMsStack ==
  ASSUME NEW p, NEW g, Linked("fast_ms", p, g), NEW a \in Nat, NEW b \in Nat,
         p.aux <= a, a <= 2, a < 2 => b = a, a = 2 => b >= 2,
         NEW w \in {4, 8}, NEW n \in Int, n <= w
  PROVE  Agreed("fast_ms", p, FastMs!Add([p EXCEPT !.aux = a], w, n),
                FastMs!OnStack([g EXCEPT !.aux = b], w, n))
<1>1. /\ p \in Counters /\ g \in Counters /\ p.hidden = -1 /\ g.hidden = -1 /\ FastLink(p, g)
      /\ p.stack \in Nat /\ g.stack \in Nat /\ p.aux \in Nat /\ g.aux \in Nat
  BY Typed, FastMsLinked
<1>2. p.stack = g.stack + 8
  BY <1>1 DEF FastLink
<1>3. PICK at \in Nat : at = g.stack
  BY <1>1
<1> DEFINE pa == [p EXCEPT !.aux = a]
           ga == [g EXCEPT !.aux = b]
           d == [pa EXCEPT !.stack = @ + w]
           e == [ga EXCEPT !.stack = @ + w]
           r == FastMs!Add(pa, w, n)
           s == FastMs!OnStack(ga, w, n)
<1>4. /\ pa \in Counters /\ pa.stack = p.stack /\ pa.aux = a /\ pa.int = p.int /\ pa.float = p.float /\ pa.hidden = -1
      /\ ga \in Counters /\ ga.stack = g.stack /\ ga.aux = b /\ ga.int = g.int /\ ga.float = g.float /\ ga.hidden = -1
  BY <1>1 DEF Counters
<1> HIDE DEF pa, ga
<1>5. r = Whole(d, Run("stack", at, n))
  <2>1. FastMs!Loaded = 8
    BY DEF FastMs!Loaded, FastMs!Fast
  <2> QED BY <1>1, <1>2, <1>3, <1>4, <2>1, FastMsBytes DEF FastMs!Add, FastMs!Placed, Whole
<1>6. s = Whole(e, Run("stack", at, n))
  BY <1>1, <1>3, <1>4, FastMsBytes DEF FastMs!OnStack, FastMs!Low, FastMs!Placed, Whole
<1>7. /\ d \in Counters /\ d.stack = p.stack + w /\ d.aux = a /\ d.int = p.int /\ d.float = p.float /\ d.hidden = -1
      /\ e \in Counters /\ e.stack = g.stack + w /\ e.aux = b /\ e.int = g.int /\ e.float = g.float /\ e.hidden = -1
  BY <1>1, <1>4 DEF Counters
<1> HIDE DEF d, e, r, s
<1>8. Linked("fast_ms", d, e)
  <2>1. FastLink(d, e)
    BY <1>1, <1>2, <1>7 DEF FastLink
  <2> QED BY <1>7, <2>1, FastMsLinked
<1>9. Onward("fast_ms", p, d)
  BY <1>1, <1>7, <1>8, FastMsOnward
<1>10. Fresh("fast_ms", p, d, Run("stack", at, n))
  <2>1. /\ StackMark("fast_ms", p) \in Nat /\ StackMark("fast_ms", d) \in Nat
        /\ StackMark("fast_ms", p) <= at /\ at + n <= StackMark("fast_ms", d)
    BY <1>1, <1>2, <1>3, <1>7, FastMsMarks
  <2> QED BY <2>1, StackFresh
<1> QED BY <1>5, <1>6, <1>8, <1>9, <1>10 DEF Agreed, Moves, Whole, r, s, pa, ga

LEMMA FastMsRegister ==
  ASSUME NEW p, NEW g, Linked("fast_ms", p, g), p.aux < 2, NEW n \in Int, n <= 4
  PROVE  Agreed("fast_ms", p, FastMs!PutInt(p, n), FastMs!FastI32(g, n))
<1>1. /\ p \in Counters /\ g \in Counters /\ p.hidden = -1 /\ g.hidden = -1 /\ FastLink(p, g)
      /\ p.stack \in Nat /\ g.stack \in Nat /\ p.aux \in Nat /\ g.aux = p.aux
  BY Typed, FastMsLinked DEF FastLink
<1>2. PICK at \in Int, i \in Nat, j \in Nat : at = 4 * p.aux /\ i = p.aux /\ j = i + 1
  BY <1>1
<1> DEFINE d == [p EXCEPT !.aux = @ + 1]
           e == [g EXCEPT !.aux = @ + 1]
<1>3. FastMs!PutInt(p, n) = Whole(d, Run("int", at, n)) /\ FastMs!FastI32(g, n) = Whole(e, Run("int", at, n))
  BY <1>1, <1>2, FastMsBytes DEF FastMs!PutInt, FastMs!FastI32, FastMs!Fast, FastMs!Placed, Whole
<1>4. /\ d \in Counters /\ d.stack = p.stack /\ d.aux = p.aux + 1 /\ d.int = p.int /\ d.float = p.float /\ d.hidden = -1
      /\ e \in Counters /\ e.stack = g.stack /\ e.aux = p.aux + 1 /\ e.int = g.int /\ e.float = g.float /\ e.hidden = -1
  BY <1>1 DEF Counters
<1> HIDE DEF d, e
<1>5. Linked("fast_ms", d, e)
  <2>1. FastLink(d, e)
    BY <1>1, <1>4 DEF FastLink
  <2> QED BY <1>4, <2>1, FastMsLinked
<1>6. Onward("fast_ms", p, d)
  BY <1>1, <1>4, <1>5, FastMsOnward
<1>7. Fresh("fast_ms", p, d, Run("int", at, n))
  <2>1. PICK w : w = 4 /\ w = Width("fast_ms")
    BY FastMsMarks
  <2>2. w * i <= at /\ at + n <= w * j
    BY <1>2, <2>1
  <2>3. \A k \in i..j - 1 : FreeRegister("fast_ms", p, "int", k) /\ ~FreeRegister("fast_ms", d, "int", k)
    BY <1>1, <1>2, <1>4, FastMsMarks
  <2> QED BY <2>1, <2>2, <2>3, RegistersFresh
<1> QED BY <1>3, <1>5, <1>6, <1>7 DEF Agreed, Moves, Whole

LEMMA FastMsKept ==
  ASSUME NEW p, NEW g, Linked("fast_ms", p, g), NEW t \in Types("fast_ms")
  PROVE  Kept("fast_ms", p, g, t)
<1>1. t \in Scalars
  BY DEF AggrAbis, Types
<1>2. PICK n \in Int : n = FastMs!Sizes[t.type] /\ (t.type \notin {"longlong", "double"} => n <= 4)
  BY <1>1 DEF Scalars, ScalarNames, FastMs!Sizes
<1>3. /\ p.aux \in Nat /\ g.aux \in Nat /\ p.aux <= 2 /\ (p.aux < 2 => g.aux = p.aux) /\ (p.aux = 2 => g.aux >= 2)
      /\ [p EXCEPT !.aux = p.aux] = p /\ [g EXCEPT !.aux = g.aux] = g
  BY Typed, FastMsLinked DEF FastLink, Counters
<1>4. ASSUME NEW w \in {4, 8}, NEW m \in Int, m <= w
      PROVE  Agreed("fast_ms", p, FastMs!Add(p, w, m), FastMs!OnStack(g, w, m))
  <2>1. PICK a \in Nat, b \in Nat : a = p.aux /\ b = g.aux /\ p.aux <= a /\ a <= 2 /\ (a < 2 => b = a) /\ (a = 2 => b >= 2)
    BY <1>3
  <2>2. Agreed("fast_ms", p, FastMs!Add([p EXCEPT !.aux = a], w, m), FastMs!OnStack([g EXCEPT !.aux = b], w, m))
    BY <1>4, <2>1, FastMsStack
  <2> QED BY <1>3, <2>1, <2>2
<1>5. Agreed("fast_ms", p, FastMs!PutLongLong(p), FastMs!GetLongLong(g))
  <2>1. /\ FastMs!PutLongLong(p) = FastMs!Add(p, 8, 8)
        /\ FastMs!GetLongLong(g) = FastMs!OnStack(g, 8, 8)
    BY <1>3 DEF FastMs!PutLongLong, FastMs!GetLongLong
  <2> QED BY <1>4, <2>1
<1>6. n <= 4 => Agreed("fast_ms", p, FastMs!PutInt(p, n), FastMs!GetInt(g, n))
  <2>1. FastMs!GetInt(g, n) = FastMs!FastI32(g, n)
    BY DEF FastMs!GetInt, FastMs!Fast
  <2>2. CASE p.aux < 2
    BY <2>1, <2>2, FastMsRegister
  <2>3. CASE ~(p.aux < 2)
    <3>1. FastMs!PutInt(p, n) = FastMs!Add(p, 4, n) /\ FastMs!FastI32(g, n) = FastMs!OnStack(g, 4, n)
      BY <1>3, <2>3 DEF FastMs!PutInt, FastMs!FastI32, FastMs!DefaultI32
    <3> QED BY <1>4, <2>1, <3>1
  <2> QED BY <2>2, <2>3
<1>7. Agreed("fast_ms", p, FastMs!Put(p, t), FastMs!Get(g, t))
  <2>1. CASE t.type = "longlong"
    BY <1>5, <2>1 DEF FastMs!Put, FastMs!Get
  <2>2. CASE t.type = "float"
    BY <1>4, <2>2 DEF FastMs!Put, FastMs!Get
  <2>3. CASE t.type = "double"
    BY <1>4, <2>3 DEF FastMs!Put, FastMs!Get
  <2>4. CASE t.type \notin {"longlong", "float", "double"}
    BY <1>2, <1>6, <2>4 DEF FastMs!Put, FastMs!Get
  <2> QED BY <2>1, <2>2, <2>3, <2>4
<1>8. Get("fast_ms", g, t) = FastMs!Get(g, t) /\ Put("fast_ms", p, t) = FastMs!Put(p, t)
  BY DEF Get, Put
<1> QED BY <1>7, <1>8 DEF Kept, Agreed

LEMMA FastGnuBytes == \A area, at, n : FastGnu!Bytes(area, at, n) = Run(area, at, n)
BY DEF FastGnu!Bytes, Run

LEMMA FastGnuMarks ==
  ASSUME NEW c
  PROVE  /\ IntMark("fast_gnu", c) = c.aux /\ FloatMark("fast_gnu", c) = c.float
         /\ StackMark("fast_gnu", c) = c.stack - 8 /\ Width("fast_gnu") = 4
         /\ \A k : FreeRegister("fast_gnu", c, "int", k) <=> k >= c.aux /\ k # c.hidden
         /\ \A k : FreeRegister("fast_gnu", c, "float", k) <=> k >= c.float
BY DEF IntMark, FloatMark, StackMark, Width, AggrAbis, FreeRegister

LEMMA FastGnuLinked ==
  ASSUME NEW p, NEW g
  PROVE  Linked("fast_gnu", p, g) <=> /\ p \in Counters /\ g \in Counters /\ p.hidden = -1 /\ g.hidden = -1
                                     /\ FastLink(p, g)
BY DEF Linked, Same

LEMMA FastGnuOnward ==
  ASSUME NEW p, NEW g, Linked("fast_gnu", p, g), NEW d, NEW e, Linked("fast_gnu", d, e),
         p.aux <= d.aux, p.stack <= d.stack
  PROVE  Onward("fast_gnu", p, d)
<1>1. /\ p.aux \in Nat /\ p.stack \in Nat /\ g.stack \in Nat /\ d.aux \in Nat /\ d.stack \in Nat /\ e.stack \in Nat
      /\ p.float = 0 /\ d.float = 0 /\ p.hidden = -1 /\ d.hidden = -1
      /\ p.stack = g.stack + 8 /\ d.stack = e.stack + 8
  BY Typed, FastGnuLinked DEF FastLink
<1> QED BY <1>1, FastGnuMarks DEF Onward

\* A value in the vector, or in one of the registers.
LEMMA FastGnuStack ==
  ASSUME NEW p, NEW g, Linked("fast_gnu", p, g), NEW a \in Nat, NEW b \in Nat,
         p.aux <= a, a <= 2, a < 2 => b = a, a = 2 => b >= 2,
         NEW w \in {4, 8}, NEW n \in Int, n <= w
  PROVE  Agreed("fast_gnu", p, FastGnu!Add([p EXCEPT !.aux = a], w, n),
                FastGnu!OnStack([g EXCEPT !.aux = b], w, n))
<1>1. /\ p \in Counters /\ g \in Counters /\ p.hidden = -1 /\ g.hidden = -1 /\ FastLink(p, g)
      /\ p.stack \in Nat /\ g.stack \in Nat /\ p.aux \in Nat /\ g.aux \in Nat
  BY Typed, FastGnuLinked
<1>2. p.stack = g.stack + 8
  BY <1>1 DEF FastLink
<1>3. PICK at \in Nat : at = g.stack
  BY <1>1
<1> DEFINE pa == [p EXCEPT !.aux = a]
           ga == [g EXCEPT !.aux = b]
           d == [pa EXCEPT !.stack = @ + w]
           e == [ga EXCEPT !.stack = @ + w]
           r == FastGnu!Add(pa, w, n)
           s == FastGnu!OnStack(ga, w, n)
<1>4. /\ pa \in Counters /\ pa.stack = p.stack /\ pa.aux = a /\ pa.int = p.int /\ pa.float = p.float /\ pa.hidden = -1
      /\ ga \in Counters /\ ga.stack = g.stack /\ ga.aux = b /\ ga.int = g.int /\ ga.float = g.float /\ ga.hidden = -1
  BY <1>1 DEF Counters
<1> HIDE DEF pa, ga
<1>5. r = Whole(d, Run("stack", at, n))
  <2>1. FastGnu!Loaded = 8
    BY DEF FastGnu!Loaded, FastGnu!Fast
  <2> QED BY <1>1, <1>2, <1>3, <1>4, <2>1, FastGnuBytes DEF FastGnu!Add, FastGnu!Placed, Whole
<1>6. s = Whole(e, Run("stack", at, n))
  BY <1>1, <1>3, <1>4, FastGnuBytes DEF FastGnu!OnStack, FastGnu!Low, FastGnu!Placed, Whole
<1>7. /\ d \in Counters /\ d.stack = p.stack + w /\ d.aux = a /\ d.int = p.int /\ d.float = p.float /\ d.hidden = -1
      /\ e \in Counters /\ e.stack = g.stack + w /\ e.aux = b /\ e.int = g.int /\ e.float = g.float /\ e.hidden = -1
  BY <1>1, <1>4 DEF Counters
<1> HIDE DEF d, e, r, s
<1>8. Linked("fast_gnu", d, e)
  <2>1. FastLink(d, e)
    BY <1>1, <1>2, <1>7 DEF FastLink
  <2> QED BY <1>7, <2>1, FastGnuLinked
<1>9. Onward("fast_gnu", p, d)
  BY <1>1, <1>7, <1>8, FastGnuOnward
<1>10. Fresh("fast_gnu", p, d, Run("stack", at, n))
  <2>1. /\ StackMark("fast_gnu", p) \in Nat /\ StackMark("fast_gnu", d) \in Nat
        /\ StackMark("fast_gnu", p) <= at /\ at + n <= StackMark("fast_gnu", d)
    BY <1>1, <1>2, <1>3, <1>7, FastGnuMarks
  <2> QED BY <2>1, StackFresh
<1> QED BY <1>5, <1>6, <1>8, <1>9, <1>10 DEF Agreed, Moves, Whole, r, s, pa, ga

LEMMA FastGnuRegister ==
  ASSUME NEW p, NEW g, Linked("fast_gnu", p, g), p.aux < 2, NEW n \in Int, n <= 4
  PROVE  Agreed("fast_gnu", p, FastGnu!PutInt(p, n), FastGnu!FastI32(g, n))
<1>1. /\ p \in Counters /\ g \in Counters /\ p.hidden = -1 /\ g.hidden = -1 /\ FastLink(p, g)
      /\ p.stack \in Nat /\ g.stack \in Nat /\ p.aux \in Nat /\ g.aux = p.aux
  BY Typed, FastGnuLinked DEF FastLink
<1>2. PICK at \in Int, i \in Nat, j \in Nat : at = 4 * p.aux /\ i = p.aux /\ j = i + 1
  BY <1>1
<1> DEFINE d == [p EXCEPT !.aux = @ + 1]
           e == [g EXCEPT !.aux = @ + 1]
<1>3. FastGnu!PutInt(p, n) = Whole(d, Run("int", at, n)) /\ FastGnu!FastI32(g, n) = Whole(e, Run("int", at, n))
  BY <1>1, <1>2, FastGnuBytes DEF FastGnu!PutInt, FastGnu!FastI32, FastGnu!Fast, FastGnu!Placed, Whole
<1>4. /\ d \in Counters /\ d.stack = p.stack /\ d.aux = p.aux + 1 /\ d.int = p.int /\ d.float = p.float /\ d.hidden = -1
      /\ e \in Counters /\ e.stack = g.stack /\ e.aux = p.aux + 1 /\ e.int = g.int /\ e.float = g.float /\ e.hidden = -1
  BY <1>1 DEF Counters
<1> HIDE DEF d, e
<1>5. Linked("fast_gnu", d, e)
  <2>1. FastLink(d, e)
    BY <1>1, <1>4 DEF FastLink
  <2> QED BY <1>4, <2>1, FastGnuLinked
<1>6. Onward("fast_gnu", p, d)
  BY <1>1, <1>4, <1>5, FastGnuOnward
<1>7. Fresh("fast_gnu", p, d, Run("int", at, n))
  <2>1. PICK w : w = 4 /\ w = Width("fast_gnu")
    BY FastGnuMarks
  <2>2. w * i <= at /\ at + n <= w * j
    BY <1>2, <2>1
  <2>3. \A k \in i..j - 1 : FreeRegister("fast_gnu", p, "int", k) /\ ~FreeRegister("fast_gnu", d, "int", k)
    BY <1>1, <1>2, <1>4, FastGnuMarks
  <2> QED BY <2>1, <2>2, <2>3, RegistersFresh
<1> QED BY <1>3, <1>5, <1>6, <1>7 DEF Agreed, Moves, Whole

LEMMA FastGnuKept ==
  ASSUME NEW p, NEW g, Linked("fast_gnu", p, g), NEW t \in Types("fast_gnu")
  PROVE  Kept("fast_gnu", p, g, t)
<1>1. t \in Scalars
  BY DEF AggrAbis, Types
<1>2. PICK n \in Int : n = FastGnu!Sizes[t.type] /\ (t.type \notin {"longlong", "double"} => n <= 4)
  BY <1>1 DEF Scalars, ScalarNames, FastGnu!Sizes
<1>3. /\ p.aux \in Nat /\ g.aux \in Nat /\ p.aux <= 2 /\ (p.aux < 2 => g.aux = p.aux) /\ (p.aux = 2 => g.aux >= 2)
      /\ [p EXCEPT !.aux = p.aux] = p /\ [g EXCEPT !.aux = g.aux] = g
  BY Typed, FastGnuLinked DEF FastLink, Counters
<1>4. ASSUME NEW w \in {4, 8}, NEW m \in Int, m <= w
      PROVE  Agreed("fast_gnu", p, FastGnu!Add(p, w, m), FastGnu!OnStack(g, w, m))
  <2>1. PICK a \in Nat, b \in Nat : a = p.aux /\ b = g.aux /\ p.aux <= a /\ a <= 2 /\ (a < 2 => b = a) /\ (a = 2 => b >= 2)
    BY <1>3
  <2>2. Agreed("fast_gnu", p, FastGnu!Add([p EXCEPT !.aux = a], w, m), FastGnu!OnStack([g EXCEPT !.aux = b], w, m))
    BY <1>4, <2>1, FastGnuStack
  <2> QED BY <1>3, <2>1, <2>2
<1>5. Agreed("fast_gnu", p, FastGnu!PutLongLong(p), FastGnu!GetLongLong(g))
  <2>1. PICK a \in Nat, b \in Nat : a = 2 /\ b = g.aux + 2
    BY <1>3
  <2>2. /\ FastGnu!PutLongLong(p) = FastGnu!Add([p EXCEPT !.aux = a], 8, 8)
        /\ FastGnu!GetLongLong(g) = FastGnu!OnStack([g EXCEPT !.aux = b], 8, 8)
    BY <2>1 DEF FastGnu!PutLongLong, FastGnu!GetLongLong
  <2>3. PICK w \in {4, 8}, m \in Int : w = 8 /\ m = 8 /\ m <= w
    OBVIOUS
  <2>4. p.aux <= a /\ a <= 2 /\ (a < 2 => b = a) /\ (a = 2 => b >= 2)
    BY <1>3, <2>1
  <2>5. Agreed("fast_gnu", p, FastGnu!Add([p EXCEPT !.aux = a], w, m), FastGnu!OnStack([g EXCEPT !.aux = b], w, m))
    BY <2>3, <2>4, FastGnuStack
  <2> QED BY <2>2, <2>3, <2>5
<1>6. n <= 4 => Agreed("fast_gnu", p, FastGnu!PutInt(p, n), FastGnu!GetInt(g, n))
  <2>1. FastGnu!GetInt(g, n) = FastGnu!FastI32(g, n)
    BY DEF FastGnu!GetInt, FastGnu!Fast
  <2>2. CASE p.aux < 2
    BY <2>1, <2>2, FastGnuRegister
  <2>3. CASE ~(p.aux < 2)
    <3>1. FastGnu!PutInt(p, n) = FastGnu!Add(p, 4, n) /\ FastGnu!FastI32(g, n) = FastGnu!OnStack(g, 4, n)
      BY <1>3, <2>3 DEF FastGnu!PutInt, FastGnu!FastI32, FastGnu!DefaultI32
    <3> QED BY <1>4, <2>1, <3>1
  <2> QED BY <2>2, <2>3
<1>7. Agreed("fast_gnu", p, FastGnu!Put(p, t), FastGnu!Get(g, t))
  <2>1. CASE t.type = "longlong"
    BY <1>5, <2>1 DEF FastGnu!Put, FastGnu!Get
  <2>2. CASE t.type = "float"
    BY <1>4, <2>2 DEF FastGnu!Put, FastGnu!Get
  <2>3. CASE t.type = "double"
    BY <1>4, <2>3 DEF FastGnu!Put, FastGnu!Get
  <2>4. CASE t.type \notin {"longlong", "float", "double"}
    BY <1>2, <1>6, <2>4 DEF FastGnu!Put, FastGnu!Get
  <2> QED BY <2>1, <2>2, <2>3, <2>4
<1>8. Get("fast_gnu", g, t) = FastGnu!Get(g, t) /\ Put("fast_gnu", p, t) = FastGnu!Put(p, t)
  BY DEF Get, Put
<1> QED BY <1>7, <1>8 DEF Kept, Agreed

-----------------------------------------------------------------------------
(* thiscall on x86, by Microsoft.                                            *)

LEMMA ThisMsBytes == \A area, at, n : ThisMs!Bytes(area, at, n) = Run(area, at, n)
BY DEF ThisMs!Bytes, Run

LEMMA ThisMsMarks ==
  ASSUME NEW c
  PROVE  /\ IntMark("this_ms", c) = IF c.stack = 0 THEN 0 ELSE 1
         /\ StackMark("this_ms", c) = IF c.stack = 0 THEN 0 ELSE c.stack - 4
         /\ Width("this_ms") = 4
         /\ \A k : FreeRegister("this_ms", c, "int", k) <=> k >= IntMark("this_ms", c) /\ k # c.hidden
         /\ \A k : FreeRegister("this_ms", c, "float", k) <=> k >= c.float
BY DEF IntMark, FloatMark, StackMark, Width, AggrAbis, FreeRegister

LEMMA ThisMsLinked ==
  ASSUME NEW p, NEW g
  PROVE  Linked("this_ms", p, g) <=> /\ p \in Counters /\ g \in Counters /\ p.hidden = -1 /\ g.hidden = -1
                                     /\ ThisLink(p, g)
BY DEF Linked, Same

\* The object, in ECX.
LEMMA ThisMsObject ==
  ASSUME NEW t \in Scalars, t.type = "pointer"
  PROVE  Agreed("this_ms", Zero, ThisMs!Put(Zero, t), ThisMs!Get(Zero, t))
<1> DEFINE d == [Zero EXCEPT !.stack = 4]
           e == [Zero EXCEPT !.aux = 1]
           place == Run("int", 0, 4)
<1>1. /\ Zero.stack = 0 /\ Zero.aux = 0 /\ Zero.hidden = -1 /\ Zero.float = 0
  BY DEF Zero
<1>2. ThisMs!Put(Zero, t) = Whole(d, place)
  <2>1. ThisMs!Loaded = 4
    BY DEF ThisMs!Loaded, ThisMs!Fast
  <2>2. ThisMs!Put(Zero, t) = ThisMs!Add(Zero, 4, 4)
    BY DEF ThisMs!Put, ThisMs!PutInt, ThisMs!Fast, ThisMs!Sizes
  <2> QED BY <1>1, <2>1, <2>2, ThisMsBytes DEF ThisMs!Add, ThisMs!Placed, Whole
<1>3. ThisMs!Get(Zero, t) = Whole(e, place)
  BY <1>1, ThisMsBytes
  DEF ThisMs!Get, ThisMs!GetInt, ThisMs!Fast, ThisMs!ThisI32, ThisMs!Sizes, ThisMs!Placed, Whole
<1>4. /\ d \in Counters /\ d.int = 0 /\ d.float = 0 /\ d.stack = 4 /\ d.hidden = -1
      /\ e \in Counters /\ e.int = 0 /\ e.float = 0 /\ e.stack = 0 /\ e.aux = 1 /\ e.hidden = -1
  BY DEF Counters, Zero
<1> HIDE DEF d, e, place
<1>5. Linked("this_ms", d, e)
  BY <1>4, ThisMsLinked DEF ThisLink
<1>6. Onward("this_ms", Zero, d)
  BY <1>1, <1>4, ThisMsMarks DEF Onward
<1>7. Fresh("this_ms", Zero, d, place)
  <2>1. PICK w, i \in Nat, j \in Nat, n \in Int : w = Width("this_ms") /\ w = 4 /\ i = 0 /\ j = 1 /\ n = 4
    BY ThisMsMarks
  <2>2. w * i <= i /\ i + n <= w * j
    BY <2>1
  <2>3. \A k \in i..j - 1 : FreeRegister("this_ms", Zero, "int", k) /\ ~FreeRegister("this_ms", d, "int", k)
    BY <1>1, <1>4, <2>1, ThisMsMarks
  <2>4. i \in Int
    OBVIOUS
  <2> QED BY <2>1, <2>2, <2>3, <2>4, RegistersFresh DEF place
<1> QED BY <1>2, <1>3, <1>5, <1>6, <1>7 DEF Agreed, Moves, Whole

LEMMA ThisMsStack ==
  ASSUME NEW p, NEW g, Linked("this_ms", p, g), p # Zero,
         NEW w \in {4, 8}, NEW n \in Int, n <= w
  PROVE  Agreed("this_ms", p, ThisMs!Add(p, w, n), ThisMs!OnStack(g, w, n))
<1>1. /\ p \in Counters /\ g \in Counters /\ p.hidden = -1 /\ g.hidden = -1
      /\ p.stack \in Nat /\ g.stack \in Nat
      /\ p.int = 0 /\ p.float = 0 /\ g.int = 0 /\ g.float = 0 /\ p.stack = g.stack + 4 /\ g.aux = 1
  BY Typed, ThisMsLinked DEF ThisLink
<1>2. PICK at \in Nat : at = g.stack
  BY <1>1
<1> DEFINE d == [p EXCEPT !.stack = @ + w]
           e == [g EXCEPT !.stack = @ + w]
<1>3. ThisMs!Add(p, w, n) = Whole(d, Run("stack", at, n))
  <2>1. ThisMs!Loaded = 4
    BY DEF ThisMs!Loaded, ThisMs!Fast
  <2> QED BY <1>1, <1>2, <2>1, ThisMsBytes DEF ThisMs!Add, ThisMs!Placed, Whole
<1>4. ThisMs!OnStack(g, w, n) = Whole(e, Run("stack", at, n))
  BY <1>1, <1>2, ThisMsBytes DEF ThisMs!OnStack, ThisMs!Low, ThisMs!Placed, Whole
<1>5. /\ d \in Counters /\ d.stack = p.stack + w /\ d.int = 0 /\ d.float = 0 /\ d.hidden = -1
      /\ e \in Counters /\ e.stack = g.stack + w /\ e.aux = 1 /\ e.int = 0 /\ e.float = 0 /\ e.hidden = -1
  BY <1>1 DEF Counters
<1> HIDE DEF d, e
<1>6. Linked("this_ms", d, e)
  BY <1>1, <1>5, ThisMsLinked DEF ThisLink
<1>7. /\ StackMark("this_ms", p) = at /\ StackMark("this_ms", d) = at + w
      /\ IntMark("this_ms", p) = 1 /\ IntMark("this_ms", d) = 1
  BY <1>1, <1>2, <1>5, ThisMsMarks
<1>8. Onward("this_ms", p, d)
  BY <1>1, <1>5, <1>7, ThisMsMarks DEF Onward
<1>9. Fresh("this_ms", p, d, Run("stack", at, n))
  <2>1. /\ StackMark("this_ms", p) \in Nat /\ StackMark("this_ms", d) \in Nat
        /\ StackMark("this_ms", p) <= at /\ at + n <= StackMark("this_ms", d)
    BY <1>7
  <2> QED BY <2>1, StackFresh
<1> QED BY <1>3, <1>4, <1>6, <1>8, <1>9 DEF Agreed, Moves, Whole

LEMMA ThisMsKept ==
  ASSUME NEW p, NEW g, Linked("this_ms", p, g), NEW t \in Types("this_ms"),
         p # Zero \/ t.type = "pointer"
  PROVE  Kept("this_ms", p, g, t)
<1>1. t \in Scalars
  BY DEF AggrAbis, Types
<1>2. PICK n \in Int : n = ThisMs!Sizes[t.type] /\ (t.type \notin {"longlong", "double"} => n <= 4)
  BY <1>1 DEF Scalars, ScalarNames, ThisMs!Sizes
<1>3. Agreed("this_ms", p, ThisMs!Put(p, t), ThisMs!Get(g, t))
  <2>1. CASE p = Zero /\ g = Zero
    BY <1>1, <2>1, ThisMsObject
  <2>2. CASE p # Zero
    <3>1. ASSUME NEW w \in {4, 8}, NEW m \in Int, m <= w
          PROVE  Agreed("this_ms", p, ThisMs!Add(p, w, m), ThisMs!OnStack(g, w, m))
      BY <2>2, <3>1, ThisMsStack
    <3>2. g.aux = 1 /\ [p EXCEPT !.aux = p.aux] = p /\ [g EXCEPT !.aux = g.aux] = g
      BY <2>2, ThisMsLinked DEF ThisLink, Counters
    <3>3. CASE t.type = "longlong"
      <4>1. ThisMs!Put(p, t) = ThisMs!Add(p, 8, 8) /\ ThisMs!Get(g, t) = ThisMs!OnStack(g, 8, 8)
        BY <3>2, <3>3 DEF ThisMs!Put, ThisMs!Get, ThisMs!PutLongLong, ThisMs!GetLongLong
      <4> QED BY <3>1, <4>1
    <3>4. CASE t.type = "float"
      BY <3>1, <3>4 DEF ThisMs!Put, ThisMs!Get
    <3>5. CASE t.type = "double"
      BY <3>1, <3>5 DEF ThisMs!Put, ThisMs!Get
    <3>6. CASE t.type \notin {"longlong", "float", "double"}
      <4>1. ThisMs!Put(p, t) = ThisMs!Add(p, 4, n) /\ ThisMs!Get(g, t) = ThisMs!OnStack(g, 4, n)
        BY <1>2, <3>2, <3>6
        DEF ThisMs!Put, ThisMs!Get, ThisMs!PutInt, ThisMs!GetInt, ThisMs!Fast, ThisMs!ThisI32, ThisMs!DefaultI32
      <4> QED BY <1>2, <3>1, <3>6, <4>1
    <3> QED BY <3>3, <3>4, <3>5, <3>6
  <2>3. p = Zero => g = Zero
    <3>1. ThisLink(p, g) /\ p.stack \in Nat /\ g.stack \in Nat
      BY ThisMsLinked, Typed
    <3> QED BY <3>1 DEF ThisLink, Zero
  <2> QED BY <2>1, <2>2, <2>3
<1>4. Get("this_ms", g, t) = ThisMs!Get(g, t) /\ Put("this_ms", p, t) = ThisMs!Put(p, t)
  BY DEF Get, Put
<1> QED BY <1>3, <1>4 DEF Kept, Agreed

-----------------------------------------------------------------------------
(* 32-bit ARM without hard float.                                            *)

SoftAbis == {"atpcs", "eabi"}

LEMMA SoftMarks ==
  ASSUME NEW conv \in SoftAbis, NEW c
  PROVE  /\ IntMark(conv, c) = Least(c.stack \div 4, 4) /\ Width(conv) = 4
         /\ StackMark(conv, c) = IF c.stack < 16 THEN 0 ELSE c.stack - 16
         /\ \A k : FreeRegister(conv, c, "int", k) <=> k >= IntMark(conv, c) /\ k # c.hidden
         /\ \A k : FreeRegister(conv, c, "float", k) <=> k >= c.float
BY DEF SoftAbis, IntMark, FloatMark, StackMark, Width, AggrAbis, FreeRegister

LEMMA SoftLinked ==
  ASSUME NEW conv \in SoftAbis, NEW p, NEW g
  PROVE  Linked(conv, p, g) <=> /\ p \in Counters /\ g \in Counters /\ p.hidden = -1 /\ g.hidden = -1
                                /\ ArmLink(p, g)
BY DEF Linked, Same, SoftAbis

Vector(at, n) == [k \in 1..n |-> IF at + k <= 16 THEN <<"int", at + k - 1>>
                                                 ELSE <<"stack", at + k - 17>>]

LEMMA VectorInt ==
  ASSUME NEW at \in Nat, NEW n \in Int, at + n <= 16
  PROVE  Vector(at, n) = Run("int", at, n)
BY DEF Vector, Run

LEMMA VectorStack ==
  ASSUME NEW at \in Nat, NEW n \in Int, at >= 16
  PROVE  Vector(at, n) = Run("stack", at - 16, n)
BY DEF Vector, Run

LEMMA VectorTwo ==
  ASSUME NEW at \in Nat, NEW m \in Nat, NEW n \in Nat
  PROVE  Vector(at, m + n) = Vector(at, m) \o Vector(at + m, n)
<1> DEFINE a == Vector(at, m)
           b == Vector(at + m, n)
           c == Vector(at, m + n)
<1>1. a \in [1..m -> Cells] /\ b \in [1..n -> Cells] /\ c \in [1..m + n -> Cells]
  BY DEF Vector, Cells
<1>2. \A k \in 1..m : a[k] = c[k]
  BY DEF Vector
<1>3. \A k \in 1..n : b[k] = c[k + m]
  BY DEF Vector
<1> HIDE DEF a, b, c
<1>4. /\ a \in Seq(Cells) /\ b \in Seq(Cells) /\ c \in Seq(Cells)
      /\ Len(a) = m /\ Len(b) = n /\ Len(c) = m + n
  BY <1>1
<1>5. a \o b \in Seq(Cells) /\ Len(a \o b) = m + n
  BY <1>4, ConcatProperties
<1>6. /\ \A k \in 1..m : (a \o b)[k] = a[k]
      /\ \A k \in m + 1..m + n : (a \o b)[k] = b[k - m]
  BY <1>4, ConcatProperties
<1>7. ASSUME NEW k \in 1..m + n
      PROVE  (a \o b)[k] = c[k]
  <2>1. CASE k \in 1..m
    <3>1. (a \o b)[k] = a[k]
      BY <1>6, <2>1
    <3>2. a[k] = c[k]
      BY <1>2, <2>1
    <3> QED BY <3>1, <3>2
  <2>2. CASE k \in m + 1..m + n
    <3>1. PICK j \in 1..n : j = k - m /\ k = j + m
      BY <2>2
    <3>2. (a \o b)[k] = b[k - m]
      BY <1>6, <2>2
    <3>3. b[j] = c[j + m]
      BY <1>3
    <3> QED BY <3>1, <3>2, <3>3
  <2>3. k \in 1..m \/ k \in m + 1..m + n
    OBVIOUS
  <2> QED BY <2>1, <2>2, <2>3
<1>8. a \o b = c
  BY <1>4, <1>5, <1>7, SeqEqual
<1> QED BY <1>8 DEF a, b, c

LEMMA VectorFresh ==
  ASSUME NEW conv \in SoftAbis, NEW c \in Counters, NEW d \in Counters, c.hidden = -1, d.hidden = -1,
         NEW at \in Nat, NEW n \in Int, c.stack <= at, at + n <= d.stack, d.stack % 4 = 0
  PROVE  Fresh(conv, c, d, Vector(at, n))
<1>1. PICK s \in Nat, m \in Nat : s = c.stack /\ m = d.stack
  BY DEF Counters
<1> SUFFICES ASSUME NEW k \in 1..n
             PROVE  /\ Vector(at, n)[k] \in {"int", "float", "stack"} \X Nat
                    /\ Free(conv, c, Vector(at, n)[k]) /\ ~Free(conv, d, Vector(at, n)[k])
  BY DEF Fresh, Vector
<1>2. CASE at + k <= 16
  <2>1. PICK b \in Nat : b = at + k - 1 /\ b < 16 /\ s <= b /\ b < m
    BY <1>1, <1>2
  <2>2. Vector(at, n)[k] = <<"int", b>>
    BY <1>2, <2>1 DEF Vector
  <2>3. b \div 4 \in Nat /\ b \div 4 >= Least(s \div 4, 4) /\ b \div 4 < Least(m \div 4, 4)
    BY <1>1, <2>1 DEF Least
  <2>4. /\ Free(conv, c, <<"int", b>>) <=> FreeRegister(conv, c, "int", b \div 4)
        /\ Free(conv, d, <<"int", b>>) <=> FreeRegister(conv, d, "int", b \div 4)
    BY SoftMarks DEF Free
  <2>5. FreeRegister(conv, c, "int", b \div 4) /\ ~FreeRegister(conv, d, "int", b \div 4)
    BY <1>1, <2>3, SoftMarks DEF Least
  <2> QED BY <2>2, <2>4, <2>5
<1>3. CASE ~(at + k <= 16)
  <2>1. PICK b \in Nat : b = at + k - 17 /\ s <= b + 16 /\ b + 16 < m
    BY <1>1, <1>3
  <2>2. Vector(at, n)[k] = <<"stack", b>>
    BY <1>3, <2>1 DEF Vector
  <2>3. StackMark(conv, c) <= b /\ ~(StackMark(conv, d) <= b)
    BY <1>1, <2>1, SoftMarks
  <2>4. StackMark(conv, c) \in Int /\ StackMark(conv, d) \in Int
    BY <1>1, SoftMarks
  <2>5. Free(conv, c, <<"stack", b>>) /\ ~Free(conv, d, <<"stack", b>>)
    BY <2>3, <2>4 DEF Free
  <2> QED BY <2>2, <2>5
<1> QED BY <1>2, <1>3

LEMMA SoftOnward ==
  ASSUME NEW conv \in SoftAbis, NEW p, NEW g, Linked(conv, p, g), NEW d, NEW e, Linked(conv, d, e),
         p.stack <= d.stack
  PROVE  Onward(conv, p, d)
<1>1. /\ p \in Counters /\ d \in Counters /\ p.hidden = -1 /\ d.hidden = -1 /\ p.float = 0 /\ d.float = 0
  BY SoftLinked DEF ArmLink
<1>2. PICK s \in Nat, m \in Nat : s = p.stack /\ m = d.stack /\ s <= m
  BY Typed
<1>3. Least(s \div 4, 4) \in Nat /\ Least(m \div 4, 4) \in Nat /\ Least(s \div 4, 4) <= Least(m \div 4, 4)
  BY <1>2 DEF Least
<1>4. /\ StackMark(conv, p) \in Nat /\ StackMark(conv, d) \in Nat /\ StackMark(conv, p) <= StackMark(conv, d)
  BY <1>2, SoftMarks
<1>5. \A k \in Nat : FreeRegister(conv, d, "int", k) => FreeRegister(conv, p, "int", k)
  BY <1>1, <1>2, <1>3, SoftMarks
<1>6. \A k \in Nat : FreeRegister(conv, d, "float", k) => FreeRegister(conv, p, "float", k)
  BY <1>1, SoftMarks
<1> QED BY <1>1, <1>4, <1>5, <1>6 DEF Onward

LEMMA AtpcsBytes ==
  /\ \A area, at, n : Atpcs!Bytes(area, at, n) = Run(area, at, n)
  /\ \A at, n : Atpcs!FromVector(at, n) = Vector(at, n)
BY DEF Atpcs!Bytes, Atpcs!FromVector, Run, Vector

\* A word, and what the two sides have counted after it.
LEMMA AtpcsWord ==
  ASSUME NEW p, NEW g, Linked("atpcs", p, g), NEW n \in Int, n <= 4
  PROVE  /\ Atpcs!ArmWord(g, n).at = Vector(p.stack, n)
         /\ Linked("atpcs", [p EXCEPT !.stack = @ + 4], Atpcs!ArmWord(g, n).cur)
<1>1. /\ p \in Counters /\ g \in Counters /\ p.hidden = -1 /\ g.hidden = -1 /\ ArmLink(p, g)
      /\ p.stack \in Nat /\ g.stack \in Nat /\ g.int \in Nat /\ "atpcs" \in SoftAbis
  BY Typed, SoftLinked DEF SoftAbis
<1> DEFINE d == [p EXCEPT !.stack = @ + 4]
<1>2. /\ d \in Counters /\ d.stack = p.stack + 4 /\ d.int = p.int /\ d.float = p.float /\ d.hidden = -1
  BY <1>1 DEF Counters
<1> HIDE DEF d
<1>3. CASE g.int < 4
  <2>1. PICK at \in Nat : at = p.stack /\ at = 4 * g.int
    BY <1>1, <1>3 DEF ArmLink
  <2> DEFINE e == [g EXCEPT !.int = @ + 1]
  <2>2. Atpcs!ArmWord(g, n) = Whole(e, Run("int", at, n))
    BY <1>3, <2>1, AtpcsBytes DEF Atpcs!ArmWord, Atpcs!InRegister, Atpcs!Low, Atpcs!Placed, Whole
  <2>3. Run("int", at, n) = Vector(at, n)
    BY <1>1, <1>3, <2>1, VectorInt
  <2>4. /\ e \in Counters /\ e.stack = g.stack /\ e.int = g.int + 1 /\ e.float = g.float /\ e.hidden = -1
    BY <1>1 DEF Counters
  <2> HIDE DEF e
  <2>5. ArmLink(d, e)
    BY <1>1, <1>2, <1>3, <2>1, <2>4 DEF ArmLink
  <2>6. Linked("atpcs", d, e)
    BY <1>1, <1>2, <2>4, <2>5, SoftLinked
  <2> QED BY <2>1, <2>2, <2>3, <2>6 DEF Whole, d
<1>4. CASE ~(g.int < 4)
  <2>1. PICK at \in Nat : at = p.stack /\ at = g.stack + 16 /\ g.int = 4
    BY <1>1, <1>4 DEF ArmLink
  <2>7. PICK s \in Nat : s = g.stack /\ s = at - 16
    BY <1>1, <2>1
  <2> DEFINE e == [g EXCEPT !.stack = @ + 4]
  <2>2. Atpcs!ArmWord(g, n) = Whole(e, Run("stack", s, n))
    BY <1>4, <2>7, AtpcsBytes DEF Atpcs!ArmWord, Atpcs!OnStack, Atpcs!Low, Atpcs!Placed, Whole
  <2>3. Run("stack", s, n) = Vector(at, n)
    BY <2>1, <2>7, VectorStack
  <2>4. /\ e \in Counters /\ e.stack = g.stack + 4 /\ e.int = g.int /\ e.float = g.float /\ e.hidden = -1
    BY <1>1 DEF Counters
  <2> HIDE DEF e
  <2>5. ArmLink(d, e)
    BY <1>1, <1>2, <2>1, <2>4 DEF ArmLink
  <2>6. Linked("atpcs", d, e)
    BY <1>1, <1>2, <2>4, <2>5, SoftLinked
  <2> QED BY <2>1, <2>2, <2>3, <2>6 DEF Whole, d
<1> QED BY <1>3, <1>4

LEMMA AtpcsOne ==
  ASSUME NEW p, NEW g, Linked("atpcs", p, g), NEW n \in Int, n <= 4
  PROVE  Agreed("atpcs", p, Atpcs!Add(p, 4, n), Atpcs!ArmWord(g, n))
<1> DEFINE d == [p EXCEPT !.stack = @ + 4]
           s == Atpcs!ArmWord(g, n)
<1>1. s.at = Vector(p.stack, n) /\ Linked("atpcs", d, s.cur)
  BY AtpcsWord
<1>2. Atpcs!Add(p, 4, n) = Whole(d, Vector(p.stack, n))
  BY AtpcsBytes DEF Atpcs!Add, Atpcs!Placed, Whole
<1>3. "atpcs" \in SoftAbis /\ p \in Counters /\ p.hidden = -1 /\ p.stack \in Nat /\ p.stack % 4 = 0 /\ d.stack = p.stack + 4
  BY Typed, SoftLinked DEF SoftAbis, ArmLink, Counters
<1> HIDE DEF d, s
<1>4. d \in Counters /\ d.hidden = -1
  BY <1>1, <1>3, SoftLinked
<1>5. p.stack <= d.stack /\ p.stack + n <= d.stack /\ d.stack % 4 = 0
  BY <1>3
<1>6. Onward("atpcs", p, d)
  BY <1>1, <1>3, <1>5, SoftOnward
<1>7. Fresh("atpcs", p, d, Vector(p.stack, n))
  BY <1>3, <1>4, <1>5, VectorFresh
<1> QED BY <1>1, <1>2, <1>6, <1>7 DEF Agreed, Moves, Whole, s

LEMMA AtpcsTwo ==
  ASSUME NEW p, NEW g, Linked("atpcs", p, g)
  PROVE  Agreed("atpcs", p, Atpcs!AddDouble(p), Atpcs!TwoWords(g))
<1>10. "atpcs" \in SoftAbis
  BY DEF SoftAbis
<1> DEFINE a == p
           b == g
<1>1. Linked("atpcs", a, b)
  OBVIOUS
<1>2. Atpcs!ArmAlign64(g) = b
  BY DEF Atpcs!ArmAlign64
<1>3. Atpcs!AddDouble(p) = Atpcs!Add(a, 8, 8)
  BY DEF Atpcs!AddDouble
<1>4. p.stack <= a.stack
  BY Typed
<1> HIDE DEF b
<1> DEFINE one == [a EXCEPT !.stack = @ + 4]
           d == [a EXCEPT !.stack = @ + 8]
           r == Atpcs!ArmWord(b, 4)
           s == Atpcs!ArmWord(r.cur, 4)
<1>11. /\ a \in Counters /\ a.hidden = -1 /\ a.stack \in Nat /\ a.stack % 4 = 0
       /\ p \in Counters /\ p.hidden = -1 /\ p.stack \in Nat
  BY <1>1, <1>10, Typed, SoftLinked DEF ArmLink
<1>12. PICK n \in Int : n = 4
  OBVIOUS
<1>13. r.at = Vector(a.stack, 4) /\ Linked("atpcs", one, r.cur)
  BY <1>1, <1>12, AtpcsWord
<1>14. /\ one.stack = a.stack + 4 /\ [one EXCEPT !.stack = @ + 4] = d /\ d.stack = a.stack + 8
  <2>1. one.stack = a.stack + 4 /\ d.stack = a.stack + 8
    BY <1>11 DEF Counters
  <2>2. PICK x \in Nat, y \in Nat : x = a.stack + 4 /\ y = a.stack + 8 /\ y = x + 4
    BY <1>11
  <2>3. [[a EXCEPT !.stack = x] EXCEPT !.stack = y] = [a EXCEPT !.stack = y]
    BY <1>11, StackTwice
  <2> QED BY <2>1, <2>2, <2>3
<1> HIDE DEF r, one
<1>15. s.at = Vector(one.stack, 4) /\ Linked("atpcs", [one EXCEPT !.stack = @ + 4], s.cur)
  BY <1>12, <1>13, AtpcsWord
<1> HIDE DEF s
<1>16. Atpcs!TwoWords(g) = Whole(s.cur, r.at \o s.at)
  BY <1>2 DEF Atpcs!TwoWords, Atpcs!Then, Atpcs!Placed, Whole, r, s
<1>17. Atpcs!AddDouble(p) = Whole(d, Vector(a.stack, 8))
  BY <1>3, AtpcsBytes DEF Atpcs!AddDouble, Atpcs!Add, Atpcs!Placed, Whole
<1>18. r.at \o s.at = Vector(a.stack, 8)
  <2>1. PICK at \in Nat, m \in Nat : at = a.stack /\ m = 4 /\ m + m = 8
    BY <1>11
  <2>2. Vector(at, m + m) = Vector(at, m) \o Vector(at + m, m)
    BY VectorTwo
  <2> QED BY <1>13, <1>14, <1>15, <2>1, <2>2
<1>19. Linked("atpcs", d, s.cur)
  BY <1>14, <1>15
<1> HIDE DEF d
<1>20. d \in Counters /\ d.hidden = -1 /\ "atpcs" \in SoftAbis
  BY <1>10, <1>19, SoftLinked
<1>21. p.stack <= d.stack /\ a.stack + 8 <= d.stack /\ d.stack % 4 = 0 /\ p.stack <= a.stack
  BY <1>4, <1>11, <1>14
<1>22. Onward("atpcs", p, d)
  BY <1>19, <1>20, <1>21, SoftOnward
<1>23. Fresh("atpcs", p, d, Vector(a.stack, 8))
  <2>1. PICK m \in Int, at \in Nat : m = 8 /\ at = a.stack
    BY <1>11
  <2>2. p.stack <= at /\ at + m <= d.stack
    BY <1>21, <2>1
  <2>3. Fresh("atpcs", p, d, Vector(at, m))
    BY <1>11, <1>20, <1>21, <2>2, VectorFresh
  <2> QED BY <2>1, <2>3
<1> QED BY <1>16, <1>17, <1>18, <1>19, <1>22, <1>23 DEF Agreed, Moves, Whole

LEMMA AtpcsKept ==
  ASSUME NEW p, NEW g, Linked("atpcs", p, g), NEW t \in Types("atpcs")
  PROVE  Kept("atpcs", p, g, t)
<1>1. t \in Scalars
  BY DEF AggrAbis, Types
<1>2. PICK n \in Int : n = Atpcs!Sizes[t.type] /\ (n = 8 <=> t.type \in {"longlong", "double"})
                       /\ (n # 8 => n <= 4) /\ (t.type = "float" => n = 4)
  BY <1>1 DEF Scalars, ScalarNames, Atpcs!Sizes
<1>3. Agreed("atpcs", p, Atpcs!PutSoft(p, t), Atpcs!Get(g, t))
  <2>1. CASE n = 8
    <3>1. Atpcs!PutSoft(p, t) = Atpcs!AddDouble(p)
      BY <1>2, <2>1 DEF Atpcs!PutSoft
    <3>2. Atpcs!Get(g, t) = Atpcs!TwoWords(g)
      BY <1>2, <2>1 DEF Atpcs!Get, Atpcs!ArmDouble, Atpcs!HardFloat
    <3> QED BY <3>1, <3>2, AtpcsTwo
  <2>2. CASE n # 8
    <3>1. Atpcs!PutSoft(p, t) = Atpcs!Add(p, 4, n)
      BY <1>2, <2>2 DEF Atpcs!PutSoft
    <3>2. Atpcs!Get(g, t) = Atpcs!ArmWord(g, n)
      BY <1>2, <2>2 DEF Atpcs!Get, Atpcs!ArmFloat, Atpcs!HardFloat
    <3> QED BY <1>2, <2>2, <3>1, <3>2, AtpcsOne
  <2> QED BY <2>1, <2>2
<1>4. Get("atpcs", g, t) = Atpcs!Get(g, t) /\ Put("atpcs", p, t) = Atpcs!PutSoft(p, t)
  BY DEF Get, Put, Atpcs!Put, Atpcs!HardFloat
<1> QED BY <1>3, <1>4 DEF Kept, Agreed

LEMMA EabiBytes ==
  /\ \A area, at, n : Eabi!Bytes(area, at, n) = Run(area, at, n)
  /\ \A at, n : Eabi!FromVector(at, n) = Vector(at, n)
BY DEF Eabi!Bytes, Eabi!FromVector, Run, Vector

\* A word, and what the two sides have counted after it.
LEMMA EabiWord ==
  ASSUME NEW p, NEW g, Linked("eabi", p, g), NEW n \in Int, n <= 4
  PROVE  /\ Eabi!ArmWord(g, n).at = Vector(p.stack, n)
         /\ Linked("eabi", [p EXCEPT !.stack = @ + 4], Eabi!ArmWord(g, n).cur)
<1>1. /\ p \in Counters /\ g \in Counters /\ p.hidden = -1 /\ g.hidden = -1 /\ ArmLink(p, g)
      /\ p.stack \in Nat /\ g.stack \in Nat /\ g.int \in Nat /\ "eabi" \in SoftAbis
  BY Typed, SoftLinked DEF SoftAbis
<1> DEFINE d == [p EXCEPT !.stack = @ + 4]
<1>2. /\ d \in Counters /\ d.stack = p.stack + 4 /\ d.int = p.int /\ d.float = p.float /\ d.hidden = -1
  BY <1>1 DEF Counters
<1> HIDE DEF d
<1>3. CASE g.int < 4
  <2>1. PICK at \in Nat : at = p.stack /\ at = 4 * g.int
    BY <1>1, <1>3 DEF ArmLink
  <2> DEFINE e == [g EXCEPT !.int = @ + 1]
  <2>2. Eabi!ArmWord(g, n) = Whole(e, Run("int", at, n))
    BY <1>3, <2>1, EabiBytes DEF Eabi!ArmWord, Eabi!InRegister, Eabi!Low, Eabi!Placed, Whole
  <2>3. Run("int", at, n) = Vector(at, n)
    BY <1>1, <1>3, <2>1, VectorInt
  <2>4. /\ e \in Counters /\ e.stack = g.stack /\ e.int = g.int + 1 /\ e.float = g.float /\ e.hidden = -1
    BY <1>1 DEF Counters
  <2> HIDE DEF e
  <2>5. ArmLink(d, e)
    BY <1>1, <1>2, <1>3, <2>1, <2>4 DEF ArmLink
  <2>6. Linked("eabi", d, e)
    BY <1>1, <1>2, <2>4, <2>5, SoftLinked
  <2> QED BY <2>1, <2>2, <2>3, <2>6 DEF Whole, d
<1>4. CASE ~(g.int < 4)
  <2>1. PICK at \in Nat : at = p.stack /\ at = g.stack + 16 /\ g.int = 4
    BY <1>1, <1>4 DEF ArmLink
  <2>7. PICK s \in Nat : s = g.stack /\ s = at - 16
    BY <1>1, <2>1
  <2> DEFINE e == [g EXCEPT !.stack = @ + 4]
  <2>2. Eabi!ArmWord(g, n) = Whole(e, Run("stack", s, n))
    BY <1>4, <2>7, EabiBytes DEF Eabi!ArmWord, Eabi!OnStack, Eabi!Low, Eabi!Placed, Whole
  <2>3. Run("stack", s, n) = Vector(at, n)
    BY <2>1, <2>7, VectorStack
  <2>4. /\ e \in Counters /\ e.stack = g.stack + 4 /\ e.int = g.int /\ e.float = g.float /\ e.hidden = -1
    BY <1>1 DEF Counters
  <2> HIDE DEF e
  <2>5. ArmLink(d, e)
    BY <1>1, <1>2, <2>1, <2>4 DEF ArmLink
  <2>6. Linked("eabi", d, e)
    BY <1>1, <1>2, <2>4, <2>5, SoftLinked
  <2> QED BY <2>1, <2>2, <2>3, <2>6 DEF Whole, d
<1> QED BY <1>3, <1>4

LEMMA EabiOne ==
  ASSUME NEW p, NEW g, Linked("eabi", p, g), NEW n \in Int, n <= 4
  PROVE  Agreed("eabi", p, Eabi!Add(p, 4, n), Eabi!ArmWord(g, n))
<1> DEFINE d == [p EXCEPT !.stack = @ + 4]
           s == Eabi!ArmWord(g, n)
<1>1. s.at = Vector(p.stack, n) /\ Linked("eabi", d, s.cur)
  BY EabiWord
<1>2. Eabi!Add(p, 4, n) = Whole(d, Vector(p.stack, n))
  BY EabiBytes DEF Eabi!Add, Eabi!Placed, Whole
<1>3. "eabi" \in SoftAbis /\ p \in Counters /\ p.hidden = -1 /\ p.stack \in Nat /\ p.stack % 4 = 0 /\ d.stack = p.stack + 4
  BY Typed, SoftLinked DEF SoftAbis, ArmLink, Counters
<1> HIDE DEF d, s
<1>4. d \in Counters /\ d.hidden = -1
  BY <1>1, <1>3, SoftLinked
<1>5. p.stack <= d.stack /\ p.stack + n <= d.stack /\ d.stack % 4 = 0
  BY <1>3
<1>6. Onward("eabi", p, d)
  BY <1>1, <1>3, <1>5, SoftOnward
<1>7. Fresh("eabi", p, d, Vector(p.stack, n))
  BY <1>3, <1>4, <1>5, VectorFresh
<1> QED BY <1>1, <1>2, <1>6, <1>7 DEF Agreed, Moves, Whole, s

\* A double word begins at a register of an even number, or at a multiple of eight bytes.
LEMMA EabiAligned ==
  ASSUME NEW p, NEW g, Linked("eabi", p, g)
  PROVE  Linked("eabi", Eabi!Aligned(p, 8), Eabi!ArmAlign64(g)) /\ p.stack <= Eabi!Aligned(p, 8).stack
<1>1. /\ p \in Counters /\ g \in Counters /\ p.hidden = -1 /\ g.hidden = -1 /\ ArmLink(p, g)
      /\ p.stack \in Nat /\ g.stack \in Nat /\ g.int \in Nat /\ "eabi" \in SoftAbis
  BY Typed, SoftLinked DEF SoftAbis
<1>2. PICK s \in Nat, x \in Nat : s = p.stack /\ x = 8 * ((s + 8 - 1) \div 8) /\ s <= x
  BY <1>1, RoundsUp
<1> DEFINE d == Eabi!Aligned(p, 8)
           e == Eabi!ArmAlign64(g)
<1>3. /\ d \in Counters /\ d.stack = x /\ d.int = p.int /\ d.float = p.float /\ d.hidden = -1
  BY <1>1, <1>2 DEF Eabi!Aligned, Eabi!RoundUp, Counters
<1>4. CASE s < 16
  <2>1. PICK i \in Nat : i = g.int /\ i < 4 /\ s = 4 * i /\ g.stack = 0
    BY <1>1, <1>2, <1>4 DEF ArmLink
  <2>2. PICK j \in Nat : j = 2 * ((i + 2 - 1) \div 2) /\ x = 4 * j /\ j <= 4
    BY <1>2, <2>1
  <2>3. e = [g EXCEPT !.int = j]
    <3> DEFINE h == [g EXCEPT !.int = j]
    <3>1. h.int = j /\ h.stack = 0 /\ h \in Counters
      BY <1>1, <2>1 DEF Counters
    <3>2. e = IF h.int >= 4 THEN Eabi!Aligned(h, 8) ELSE h
      BY <2>1, <2>2 DEF Eabi!ArmAlign64, Eabi!RoundUp
    <3>3. Eabi!Aligned(h, 8) = h
      <4>1. 8 * ((0 + 8 - 1) \div 8) = 0
        OBVIOUS
      <4> QED BY <3>1, <4>1 DEF Eabi!Aligned, Eabi!RoundUp, Counters
    <3> QED BY <3>2, <3>3
  <2>4. /\ e \in Counters /\ e.int = j /\ e.stack = 0 /\ e.float = g.float /\ e.hidden = -1
    BY <1>1, <2>1, <2>3 DEF Counters
  <2> HIDE DEF d, e
  <2>5. ArmLink(d, e)
    BY <1>1, <1>3, <2>2, <2>4 DEF ArmLink
  <2> QED BY <1>1, <1>2, <1>3, <2>4, <2>5, SoftLinked DEF d, e
<1>5. CASE ~(s < 16)
  <2>1. PICK y \in Nat : y = g.stack /\ s = y + 16 /\ g.int = 4
    BY <1>1, <1>2, <1>5 DEF ArmLink
  <2>2. PICK z \in Nat : z = 8 * ((y + 8 - 1) \div 8) /\ x = z + 16
    BY <1>2, <2>1
  <2>3. e = [g EXCEPT !.stack = z]
    BY <2>1, <2>2 DEF Eabi!ArmAlign64, Eabi!Aligned, Eabi!RoundUp
  <2>4. /\ e \in Counters /\ e.int = 4 /\ e.stack = z /\ e.float = g.float /\ e.hidden = -1
    BY <1>1, <2>1, <2>3 DEF Counters
  <2> HIDE DEF d, e
  <2>5. ArmLink(d, e)
    <3>1. x % 4 = 0 /\ x >= 16
      BY <1>2, <1>5
    <3> QED BY <1>1, <1>3, <2>2, <2>4, <3>1 DEF ArmLink
  <2> QED BY <1>1, <1>2, <1>3, <2>4, <2>5, SoftLinked DEF d, e
<1> QED BY <1>4, <1>5

LEMMA EabiTwo ==
  ASSUME NEW p, NEW g, Linked("eabi", p, g)
  PROVE  Agreed("eabi", p, Eabi!AddDouble(p), Eabi!TwoWords(g))
<1>10. "eabi" \in SoftAbis
  BY DEF SoftAbis
<1> DEFINE a == Eabi!Aligned(p, 8)
           b == Eabi!ArmAlign64(g)
<1>1. Linked("eabi", a, b)
  BY EabiAligned
<1>2. Eabi!ArmAlign64(g) = b
  OBVIOUS
<1>3. Eabi!AddDouble(p) = Eabi!Add(a, 8, 8)
  BY DEF Eabi!AddDouble
<1>4. p.stack <= a.stack
  BY EabiAligned
<1> HIDE DEF a, b
<1> DEFINE one == [a EXCEPT !.stack = @ + 4]
           d == [a EXCEPT !.stack = @ + 8]
           r == Eabi!ArmWord(b, 4)
           s == Eabi!ArmWord(r.cur, 4)
<1>11. /\ a \in Counters /\ a.hidden = -1 /\ a.stack \in Nat /\ a.stack % 4 = 0
       /\ p \in Counters /\ p.hidden = -1 /\ p.stack \in Nat
  BY <1>1, <1>10, Typed, SoftLinked DEF ArmLink
<1>12. PICK n \in Int : n = 4
  OBVIOUS
<1>13. r.at = Vector(a.stack, 4) /\ Linked("eabi", one, r.cur)
  BY <1>1, <1>12, EabiWord
<1>14. /\ one.stack = a.stack + 4 /\ [one EXCEPT !.stack = @ + 4] = d /\ d.stack = a.stack + 8
  <2>1. one.stack = a.stack + 4 /\ d.stack = a.stack + 8
    BY <1>11 DEF Counters
  <2>2. PICK x \in Nat, y \in Nat : x = a.stack + 4 /\ y = a.stack + 8 /\ y = x + 4
    BY <1>11
  <2>3. [[a EXCEPT !.stack = x] EXCEPT !.stack = y] = [a EXCEPT !.stack = y]
    BY <1>11, StackTwice
  <2> QED BY <2>1, <2>2, <2>3
<1> HIDE DEF r, one
<1>15. s.at = Vector(one.stack, 4) /\ Linked("eabi", [one EXCEPT !.stack = @ + 4], s.cur)
  BY <1>12, <1>13, EabiWord
<1> HIDE DEF s
<1>16. Eabi!TwoWords(g) = Whole(s.cur, r.at \o s.at)
  BY <1>2 DEF Eabi!TwoWords, Eabi!Then, Eabi!Placed, Whole, r, s
<1>17. Eabi!AddDouble(p) = Whole(d, Vector(a.stack, 8))
  BY <1>3, EabiBytes DEF Eabi!AddDouble, Eabi!Add, Eabi!Placed, Whole
<1>18. r.at \o s.at = Vector(a.stack, 8)
  <2>1. PICK at \in Nat, m \in Nat : at = a.stack /\ m = 4 /\ m + m = 8
    BY <1>11
  <2>2. Vector(at, m + m) = Vector(at, m) \o Vector(at + m, m)
    BY VectorTwo
  <2> QED BY <1>13, <1>14, <1>15, <2>1, <2>2
<1>19. Linked("eabi", d, s.cur)
  BY <1>14, <1>15
<1> HIDE DEF d
<1>20. d \in Counters /\ d.hidden = -1 /\ "eabi" \in SoftAbis
  BY <1>10, <1>19, SoftLinked
<1>21. p.stack <= d.stack /\ a.stack + 8 <= d.stack /\ d.stack % 4 = 0 /\ p.stack <= a.stack
  BY <1>4, <1>11, <1>14
<1>22. Onward("eabi", p, d)
  BY <1>19, <1>20, <1>21, SoftOnward
<1>23. Fresh("eabi", p, d, Vector(a.stack, 8))
  <2>1. PICK m \in Int, at \in Nat : m = 8 /\ at = a.stack
    BY <1>11
  <2>2. p.stack <= at /\ at + m <= d.stack
    BY <1>21, <2>1
  <2>3. Fresh("eabi", p, d, Vector(at, m))
    BY <1>11, <1>20, <1>21, <2>2, VectorFresh
  <2> QED BY <2>1, <2>3
<1> QED BY <1>16, <1>17, <1>18, <1>19, <1>22, <1>23 DEF Agreed, Moves, Whole

LEMMA EabiKept ==
  ASSUME NEW p, NEW g, Linked("eabi", p, g), NEW t \in Types("eabi")
  PROVE  Kept("eabi", p, g, t)
<1>1. t \in Scalars
  BY DEF AggrAbis, Types
<1>2. PICK n \in Int : n = Eabi!Sizes[t.type] /\ (n = 8 <=> t.type \in {"longlong", "double"})
                       /\ (n # 8 => n <= 4) /\ (t.type = "float" => n = 4)
  BY <1>1 DEF Scalars, ScalarNames, Eabi!Sizes
<1>3. Agreed("eabi", p, Eabi!PutSoft(p, t), Eabi!Get(g, t))
  <2>1. CASE n = 8
    <3>1. Eabi!PutSoft(p, t) = Eabi!AddDouble(p)
      BY <1>2, <2>1 DEF Eabi!PutSoft
    <3>2. Eabi!Get(g, t) = Eabi!TwoWords(g)
      BY <1>2, <2>1 DEF Eabi!Get, Eabi!ArmDouble, Eabi!HardFloat
    <3> QED BY <3>1, <3>2, EabiTwo
  <2>2. CASE n # 8
    <3>1. Eabi!PutSoft(p, t) = Eabi!Add(p, 4, n)
      BY <1>2, <2>2 DEF Eabi!PutSoft
    <3>2. Eabi!Get(g, t) = Eabi!ArmWord(g, n)
      BY <1>2, <2>2 DEF Eabi!Get, Eabi!ArmFloat, Eabi!HardFloat
    <3> QED BY <1>2, <2>2, <3>1, <3>2, EabiOne
  <2> QED BY <2>1, <2>2
<1>4. Get("eabi", g, t) = Eabi!Get(g, t) /\ Put("eabi", p, t) = Eabi!PutSoft(p, t)
  BY DEF Get, Put, Eabi!Put, Eabi!HardFloat
<1> QED BY <1>3, <1>4 DEF Kept, Agreed

-----------------------------------------------------------------------------
(* 64-bit SPARC: the callee counts words, the caller their bytes.            *)

LEMMA Sparc64Bytes == \A area, at, n : Sparc64!Low(area, at, 8, n) = Run(area, at + 8 - n, n)
BY DEF Sparc64!Low, Sparc64!Bytes, Run

LEMMA Sparc64Marks ==
  ASSUME NEW c
  PROVE  /\ IntMark("sparc64", c) = c.int /\ FloatMark("sparc64", c) = c.stack \div 8
         /\ StackMark("sparc64", c) = c.stack /\ Width("sparc64") = 8
         /\ \A k : FreeRegister("sparc64", c, "int", k) <=> k >= c.int /\ k # c.hidden
         /\ \A k : FreeRegister("sparc64", c, "float", k) <=> k >= c.stack \div 8
BY DEF IntMark, FloatMark, StackMark, Width, AggrAbis, FreeRegister

LEMMA Sparc64Linked ==
  ASSUME NEW p, NEW g
  PROVE  Linked("sparc64", p, g) <=> /\ p \in Counters /\ g \in Counters /\ p.hidden = -1 /\ g.hidden = -1
                                     /\ Sparc64Link(p, g)
BY DEF Linked, Same

LEMMA Sparc64Kept ==
  ASSUME NEW p, NEW g, Linked("sparc64", p, g), NEW t \in Types("sparc64")
  PROVE  Kept("sparc64", p, g, t)
<1>1. t \in Scalars
  BY DEF AggrAbis, Types
<1>2. PICK n \in Int : n = Sparc64!Sizes[t.type] /\ n <= 8
  BY <1>1 DEF Scalars, ScalarNames, Sparc64!Sizes, Sparc64!Word
<1>3. /\ p \in Counters /\ g \in Counters /\ p.hidden = -1 /\ g.hidden = -1
      /\ p.int = 0 /\ p.float = 0 /\ g.int = 0 /\ g.float = 0
      /\ p.stack \in Nat /\ g.aux \in Nat /\ p.stack = 8 * g.aux
  BY Typed, Sparc64Linked DEF Sparc64Link
<1>4. PICK i \in Nat, j \in Nat, b \in Nat, at \in Int :
        i = g.aux /\ j = i + 1 /\ b = p.stack /\ b = 8 * i /\ at = b + 8 - n
  <2>1. PICK i \in Nat, b \in Nat : i = g.aux /\ b = p.stack /\ b = 8 * i
    BY <1>3
  <2>2. PICK j \in Nat, at \in Int : j = i + 1 /\ at = b + 8 - n
    BY <1>2, <2>1
  <2> QED BY <2>1, <2>2
<1> DEFINE d == [p EXCEPT !.stack = @ + 8]
           e == [g EXCEPT !.aux = @ + 1]
           stack == Run("stack", at, n)
           float == Run("float", at, n)
           r == Sparc64!Put(p, t)
           s == Sparc64!Get(g, t)
<1>5. /\ r.cur = d /\ r.at = stack
      /\ IF i < 16 THEN r.copy = float ELSE r.copy = stack
  <2>1. Sparc64!OnStack(p, 8, n) = Whole(d, stack)
    BY <1>4, Sparc64Bytes DEF Sparc64!OnStack, Sparc64!Placed, Whole
  <2>2. CASE i < 16
    <3>1. p.stack < 128
      BY <1>4, <2>2
    <3> QED BY <1>2, <1>4, <2>1, <2>2, <3>1, Sparc64Bytes DEF Sparc64!Put, Sparc64!PutV9, Whole
  <2>3. CASE ~(i < 16)
    <3>1. ~(p.stack < 128)
      BY <1>4, <2>3
    <3> QED BY <1>2, <1>4, <2>1, <2>3, <3>1 DEF Sparc64!Put, Sparc64!PutV9, Whole
  <2> QED BY <2>2, <2>3
<1>6. s.cur = e /\ (s.at = stack \/ (i < 16 /\ s.at = float))
  <2>1. 8 * g.aux = b
    BY <1>4
  <2>2. CASE Sparc64!Floating(t) /\ g.aux < 16
    BY <1>2, <1>4, <2>1, <2>2, Sparc64Bytes DEF Sparc64!Get, Sparc64!GetV9, Sparc64!GetDoubleV9, Sparc64!Placed
  <2>3. CASE Sparc64!Floating(t) /\ ~(g.aux < 16)
    BY <1>2, <1>4, <2>1, <2>3, Sparc64Bytes DEF Sparc64!Get, Sparc64!GetV9, Sparc64!GetDoubleV9, Sparc64!Placed
  <2>4. CASE ~Sparc64!Floating(t)
    BY <1>2, <1>4, <2>1, <2>4, Sparc64Bytes DEF Sparc64!Get, Sparc64!GetV9, Sparc64!GetULongLongV9, Sparc64!Placed
  <2> QED BY <2>2, <2>3, <2>4
<1>7. /\ d \in Counters /\ d.stack = p.stack + 8 /\ d.int = 0 /\ d.float = 0 /\ d.hidden = -1
      /\ e \in Counters /\ e.aux = g.aux + 1 /\ e.int = 0 /\ e.float = 0 /\ e.hidden = -1
  BY <1>3 DEF Counters
<1>8. s.at \in {r.at, r.copy}
  BY <1>5, <1>6
<1> HIDE DEF d, e, r, s
<1>9. Linked("sparc64", d, e)
  <2>1. Sparc64Link(d, e)
    BY <1>3, <1>7 DEF Sparc64Link
  <2> QED BY <1>7, <2>1, Sparc64Linked
<1>10. p.stack \div 8 = i /\ d.stack \div 8 = j /\ d.stack = 8 * j
  BY <1>3, <1>4, <1>7
<1>11. Onward("sparc64", p, d)
  <2>1. d.stack \in Nat /\ p.stack <= d.stack
    BY <1>3, <1>7
  <2> QED BY <1>3, <1>4, <1>7, <1>10, <2>1, Sparc64Marks DEF Onward
<1>12. Fresh("sparc64", p, d, stack)
  <2>1. at \in Nat /\ b <= at /\ at + n <= d.stack /\ d.stack \in Nat
    <3>1. d.stack = b + 8 /\ b \in Nat /\ at = b + 8 - n
      BY <1>4, <1>7
    <3>2. PICK m \in Nat : m = b + 8
      BY <3>1
    <3> QED BY <1>2, <3>1, <3>2
  <2> QED BY <1>4, <2>1, StackFresh, Sparc64Marks
<1>13. Fresh("sparc64", p, d, float)
  <2>1. PICK w : w = 8 /\ w = Width("sparc64")
    BY Sparc64Marks
  <2>2. w * i <= at /\ at + n <= w * j
    BY <1>2, <1>4, <2>1
  <2>3. \A k \in i..j - 1 : FreeRegister("sparc64", p, "float", k) /\ ~FreeRegister("sparc64", d, "float", k)
    <3>1. \A k \in i..j - 1 : k >= i /\ ~(k >= j)
      BY <1>4
    <3> QED BY <1>10, <3>1, Sparc64Marks
  <2> QED BY <2>1, <2>2, <2>3, RegistersFresh
<1> HIDE DEF stack, float
<1>14. r.at = stack /\ r.copy \in {stack, float}
  BY <1>5
<1>15. Moves("sparc64", p, r)
  BY <1>5, <1>11, <1>12, <1>13, <1>14 DEF Moves
<1>16. Linked("sparc64", r.cur, s.cur)
  BY <1>5, <1>6, <1>9
<1>17. Get("sparc64", g, t) = s /\ Put("sparc64", p, t) = r
  BY DEF Get, Put, r, s
<1> QED BY <1>8, <1>15, <1>16, <1>17 DEF Kept

-----------------------------------------------------------------------------
(* 64-bit PowerPC, ELF version 2.                                            *)

LEMMA Elf2Bytes ==
  /\ \A area, at, n : Ppc64Elf2!Low(area, at, 8, n) = Run(area, at, n)
  /\ \A area, at, n : Ppc64Elf2!Bytes(area, at, n) = Run(area, at, n)
BY DEF Ppc64Elf2!Low, Ppc64Elf2!Bytes, Run

LEMMA Elf2Marks ==
  ASSUME NEW c
  PROVE  /\ StackMark("ppc64_elf2", c) = c.stack /\ Width("ppc64_elf2") = 8
         /\ \A k : FreeRegister("ppc64_elf2", c, "int", k) <=> k >= c.int /\ k # c.hidden
         /\ \A k : FreeRegister("ppc64_elf2", c, "float", k) <=> k >= c.float
BY DEF IntMark, FloatMark, StackMark, Width, AggrAbis, FreeRegister

LEMMA Elf2Linked ==
  ASSUME NEW p, NEW g
  PROVE  Linked("ppc64_elf2", p, g) <=> /\ p \in Counters /\ g \in Counters /\ p.hidden = -1 /\ g.hidden = -1
                                        /\ Elf2Link(p, g)
BY DEF Linked, Same

LEMMA Elf2Onward ==
  ASSUME NEW p \in Counters, NEW d \in Counters, p.hidden = -1, d.hidden = -1,
         p.int <= d.int, p.float <= d.float, p.stack <= d.stack
  PROVE  Onward("ppc64_elf2", p, d)
<1>1. /\ p.int \in Nat /\ p.float \in Nat /\ p.stack \in Nat /\ d.int \in Nat /\ d.float \in Nat /\ d.stack \in Nat
  BY DEF Counters
<1> QED BY <1>1, Elf2Marks DEF Onward

\* The next register, in one area.
LEMMA Elf2Register ==
  ASSUME NEW p \in Counters, NEW d \in Counters, p.hidden = -1, d.hidden = -1,
         NEW area \in {"int", "float"}, d[area] = p[area] + 1, NEW n \in Int, n <= 8
  PROVE  Fresh("ppc64_elf2", p, d, Run(area, 8 * p[area], n))
<1>1. p.int \in Nat /\ p.float \in Nat
  BY DEF Counters
<1>2. PICK i \in Nat, j \in Nat : i = p[area] /\ j = i + 1
  BY <1>1
<1>3. PICK at \in Int : at = 8 * i
  OBVIOUS
<1>4. PICK w : w = 8 /\ w = Width("ppc64_elf2")
  BY Elf2Marks
<1>5. w * i <= at /\ at + n <= w * j
  BY <1>2, <1>3, <1>4
<1>6. d[area] = j
  BY <1>2
<1>7. \A k \in i..j - 1 : k >= i /\ ~(k >= j) /\ k # -1
  BY <1>2
<1>8. \A k \in i..j - 1 : FreeRegister("ppc64_elf2", p, area, k) /\ ~FreeRegister("ppc64_elf2", d, area, k)
  BY <1>2, <1>6, <1>7, Elf2Marks
<1> QED BY <1>2, <1>3, <1>4, <1>5, <1>8, RegistersFresh

LEMMA Elf2Stack ==
  ASSUME NEW p, NEW g, Linked("ppc64_elf2", p, g), p.int = 8, NEW n \in Int, n <= 8
  PROVE  Agreed("ppc64_elf2", p, Ppc64Elf2!Pushed(p, n), Ppc64Elf2!OnStack(g, 8, n))
<1>1. /\ p \in Counters /\ g \in Counters /\ p.hidden = -1 /\ g.hidden = -1 /\ Elf2Link(p, g)
      /\ p.stack \in Nat /\ g.stack \in Nat
  BY Typed, Elf2Linked
<1>2. PICK at \in Nat, end \in Nat : at = g.stack /\ end = at + 8
  BY <1>1
<1>3. p.stack <= at /\ 8 + (IF p.stack = 0 THEN 64 ELSE p.stack) = end
  BY <1>1, <1>2 DEF Elf2Link
<1> DEFINE d == [p EXCEPT !.stack = end]
           e == [g EXCEPT !.stack = end]
<1>4. Ppc64Elf2!Push(p) = d
  BY <1>3 DEF Ppc64Elf2!Push, Ppc64Elf2!NumInt
<1>5. /\ d \in Counters /\ d.stack = end /\ d.int = p.int /\ d.float = p.float /\ d.hidden = -1
      /\ e \in Counters /\ e.stack = end /\ e.int = g.int /\ e.float = g.float /\ e.hidden = -1
  BY <1>1 DEF Counters
<1>6. Ppc64Elf2!OnStack(g, 8, n) = Whole(e, Run("stack", at, n))
  BY <1>2, Elf2Bytes DEF Ppc64Elf2!OnStack, Ppc64Elf2!Placed, Whole
<1> HIDE DEF d, e
<1>7. Ppc64Elf2!Pushed(p, n) = Whole(d, Run("stack", at, n))
  <2>1. d.stack - 8 = at
    BY <1>2, <1>5
  <2> QED BY <1>4, <2>1, Elf2Bytes DEF Ppc64Elf2!Pushed, Ppc64Elf2!Placed, Whole
<1>8. Elf2Link(d, e)
  BY <1>1, <1>2, <1>5 DEF Elf2Link
<1>9. Linked("ppc64_elf2", d, e)
  BY <1>5, <1>8, Elf2Linked
<1>10. Onward("ppc64_elf2", p, d)
  <2>1. p.int <= d.int /\ p.float <= d.float /\ p.stack <= d.stack
    BY <1>1, <1>2, <1>3, <1>5 DEF Counters
  <2> QED BY <1>1, <1>5, <2>1, Elf2Onward
<1>11. Fresh("ppc64_elf2", p, d, Run("stack", at, n))
  BY <1>1, <1>2, <1>3, <1>5, Elf2Marks, StackFresh
<1> QED BY <1>6, <1>7, <1>9, <1>10, <1>11 DEF Agreed, Moves, Whole

LEMMA Elf2Int ==
  ASSUME NEW p, NEW g, Linked("ppc64_elf2", p, g), p.int < 8, NEW n \in Int, n <= 8
  PROVE  Agreed("ppc64_elf2", p, Ppc64Elf2!InRegister(p, "int", 8, n),
                Ppc64Elf2!NextSlot(Ppc64Elf2!InRegister(g, "int", 8, n)))
<1>1. /\ p \in Counters /\ g \in Counters /\ p.hidden = -1 /\ g.hidden = -1 /\ Elf2Link(p, g)
      /\ p.stack \in Nat /\ g.stack \in Nat /\ p.int \in Nat /\ p.float \in Nat /\ g.int = p.int
  BY Typed, Elf2Linked DEF Elf2Link
<1> DEFINE d == [p EXCEPT !.int = @ + 1]
           e == [g EXCEPT !.int = @ + 1]
           f == [e EXCEPT !.stack = @ + 8]
           place == Run("int", 8 * p.int, n)
<1>2. /\ Ppc64Elf2!InRegister(p, "int", 8, n) = Whole(d, place)
      /\ Ppc64Elf2!InRegister(g, "int", 8, n) = Whole(e, place)
  BY <1>1, Elf2Bytes DEF Ppc64Elf2!InRegister, Ppc64Elf2!Placed, Whole
<1>3. /\ d \in Counters /\ d.stack = p.stack /\ d.int = p.int + 1 /\ d.float = p.float /\ d.hidden = -1
      /\ e \in Counters /\ e.stack = g.stack /\ e.int = g.int + 1 /\ e.float = g.float /\ e.hidden = -1
  BY <1>1 DEF Counters
<1>4. Fresh("ppc64_elf2", p, d, place)
  BY <1>1, <1>3, Elf2Register
<1> HIDE DEF d, e, place
<1>5. /\ f \in Counters /\ f.stack = g.stack + 8 /\ f.int = g.int + 1 /\ f.float = g.float /\ f.hidden = -1
  BY <1>1, <1>3 DEF Counters
<1>6. Ppc64Elf2!NextSlot(Whole(e, place)) = Whole(f, place)
  BY DEF Ppc64Elf2!NextSlot, Whole
<1> HIDE DEF f
<1>7. Elf2Link(d, f)
  BY <1>1, <1>3, <1>5 DEF Elf2Link
<1>8. Linked("ppc64_elf2", d, f)
  BY <1>3, <1>5, <1>7, Elf2Linked
<1>9. Onward("ppc64_elf2", p, d)
  BY <1>1, <1>3, Elf2Onward
<1> QED BY <1>2, <1>4, <1>6, <1>8, <1>9 DEF Agreed, Moves, Whole

\* A float, while there are integer registers.
LEMMA Elf2FloatAndInt ==
  ASSUME NEW p, NEW g, Linked("ppc64_elf2", p, g), p.int < 8, NEW n
  PROVE  Agreed("ppc64_elf2", p, Ppc64Elf2!PutDouble(p, n), Ppc64Elf2!GetDouble(g, n))
<1>1. /\ p \in Counters /\ g \in Counters /\ p.hidden = -1 /\ g.hidden = -1 /\ Elf2Link(p, g)
      /\ p.stack \in Nat /\ g.stack \in Nat /\ p.int \in Nat /\ p.float \in Nat
      /\ g.int = p.int /\ g.float = p.float /\ p.float < 8
  BY Typed, Elf2Linked DEF Elf2Link
<1> DEFINE a == [p EXCEPT !.int = @ + 1]
           b == [g EXCEPT !.int = @ + 1]
           d == [a EXCEPT !.float = @ + 1]
           e == [b EXCEPT !.float = @ + 1]
           f == [e EXCEPT !.stack = @ + 8]
           float == Run("float", 8 * p.float, 8)
           int == Run("int", 8 * p.int, 8)
<1>2. /\ a \in Counters /\ a.stack = p.stack /\ a.int = p.int + 1 /\ a.float = p.float /\ a.hidden = -1
      /\ b \in Counters /\ b.stack = g.stack /\ b.int = g.int + 1 /\ b.float = g.float /\ b.hidden = -1
  BY <1>1 DEF Counters
<1>3. Ppc64Elf2!PutDouble(p, n) = [Ppc64Elf2!Fpr(a) EXCEPT !.copy = int]
  BY <1>1, Elf2Bytes DEF Ppc64Elf2!PutDouble, Ppc64Elf2!FprAndGpr, Ppc64Elf2!NumInt, Ppc64Elf2!NumFloat
<1>4. Ppc64Elf2!GetDouble(g, n) = Ppc64Elf2!NextSlot(Ppc64Elf2!Fpr(b))
  BY <1>1 DEF Ppc64Elf2!GetDouble
<1> HIDE DEF a, b
<1>5. /\ d \in Counters /\ d.stack = p.stack /\ d.int = p.int + 1 /\ d.float = p.float + 1 /\ d.hidden = -1
      /\ e \in Counters /\ e.stack = g.stack /\ e.int = g.int + 1 /\ e.float = g.float + 1 /\ e.hidden = -1
  BY <1>1, <1>2 DEF Counters
<1>6. Ppc64Elf2!Fpr(a) = Whole(d, float) /\ Ppc64Elf2!Fpr(b) = Whole(e, float)
  BY <1>1, <1>2, Elf2Bytes DEF Ppc64Elf2!Fpr, Ppc64Elf2!Placed, Whole
<1> HIDE DEF d, e, float, int
<1>7. PICK eight \in Int : eight = 8
  OBVIOUS
<1>8. Fresh("ppc64_elf2", p, d, float) /\ Fresh("ppc64_elf2", p, d, int)
  <2>1. Fresh("ppc64_elf2", p, d, Run("float", 8 * p.float, eight))
    BY <1>1, <1>5, <1>7, Elf2Register
  <2>2. Fresh("ppc64_elf2", p, d, Run("int", 8 * p.int, eight))
    BY <1>1, <1>5, <1>7, Elf2Register
  <2> QED BY <1>7, <2>1, <2>2 DEF float, int
<1>9. /\ f \in Counters /\ f.stack = g.stack + 8 /\ f.int = g.int + 1 /\ f.float = g.float + 1 /\ f.hidden = -1
  BY <1>1, <1>5 DEF Counters
<1>10. /\ Ppc64Elf2!NextSlot(Whole(e, float)) = Whole(f, float)
       /\ [Whole(d, float) EXCEPT !.copy = int] = [cur |-> d, at |-> float, copy |-> int]
  BY DEF Ppc64Elf2!NextSlot, Whole
<1> HIDE DEF f
<1>11. Elf2Link(d, f)
  BY <1>1, <1>5, <1>9 DEF Elf2Link
<1>12. Linked("ppc64_elf2", d, f)
  BY <1>5, <1>9, <1>11, Elf2Linked
<1>13. Onward("ppc64_elf2", p, d)
  BY <1>1, <1>5, Elf2Onward
<1> QED BY <1>3, <1>4, <1>6, <1>8, <1>10, <1>12, <1>13 DEF Agreed, Moves, Whole

LEMMA Elf2Float ==
  ASSUME NEW p, NEW g, Linked("ppc64_elf2", p, g), p.int = 8, p.float < 13, NEW n
  PROVE  Agreed("ppc64_elf2", p, Ppc64Elf2!PutDouble(p, n), Ppc64Elf2!GetDouble(g, n))
<1>1. /\ p \in Counters /\ g \in Counters /\ p.hidden = -1 /\ g.hidden = -1 /\ Elf2Link(p, g)
      /\ p.stack \in Nat /\ g.stack \in Nat /\ p.int \in Nat /\ p.float \in Nat
      /\ g.int = p.int /\ g.float = p.float
  BY Typed, Elf2Linked DEF Elf2Link
<1>2. PICK at \in Nat, end \in Nat : at = g.stack /\ end = at + 8
  BY <1>1
<1>3. p.stack <= at /\ 8 + (IF p.stack = 0 THEN 64 ELSE p.stack) = end
  BY <1>1, <1>2 DEF Elf2Link
<1> DEFINE a == [p EXCEPT !.float = @ + 1]
           b == [g EXCEPT !.float = @ + 1]
           d == [a EXCEPT !.stack = end]
           e == [b EXCEPT !.stack = end]
           float == Run("float", 8 * p.float, 8)
<1>4. /\ a \in Counters /\ a.stack = p.stack /\ a.int = p.int /\ a.float = p.float + 1 /\ a.hidden = -1
      /\ b \in Counters /\ b.stack = g.stack /\ b.int = g.int /\ b.float = g.float + 1 /\ b.hidden = -1
  BY <1>1 DEF Counters
<1>5. Ppc64Elf2!Fpr(p) = Whole(a, float) /\ Ppc64Elf2!Fpr(g) = Whole(b, float)
  BY <1>1, Elf2Bytes DEF Ppc64Elf2!Fpr, Ppc64Elf2!Placed, Whole
<1>6. Ppc64Elf2!PutDouble(p, n) = [Ppc64Elf2!Fpr(p) EXCEPT !.cur = Ppc64Elf2!Push(@)]
  BY <1>1 DEF Ppc64Elf2!PutDouble, Ppc64Elf2!FprAndGpr, Ppc64Elf2!NumInt, Ppc64Elf2!NumFloat
<1>7. Ppc64Elf2!GetDouble(g, n) = Ppc64Elf2!NextSlot(Ppc64Elf2!Fpr(g))
  BY <1>1 DEF Ppc64Elf2!GetDouble
<1> HIDE DEF a, b, float
<1>8. Ppc64Elf2!Push(a) = d
  BY <1>3, <1>4 DEF Ppc64Elf2!Push, Ppc64Elf2!NumInt
<1>9. b.stack + 8 = end
  BY <1>2, <1>4
<1>10. Ppc64Elf2!NextSlot(Whole(b, float)) = Whole(e, float)
  BY <1>9 DEF Ppc64Elf2!NextSlot, Whole
<1>11. [Whole(a, float) EXCEPT !.cur = Ppc64Elf2!Push(@)] = Whole(d, float)
  BY <1>8 DEF Whole
<1>12. /\ d \in Counters /\ d.stack = end /\ d.int = p.int /\ d.float = p.float + 1 /\ d.hidden = -1
       /\ e \in Counters /\ e.stack = end /\ e.int = g.int /\ e.float = g.float + 1 /\ e.hidden = -1
  BY <1>1, <1>4 DEF Counters
<1> HIDE DEF d, e
<1>13. PICK eight \in Int : eight = 8
  OBVIOUS
<1>14. Fresh("ppc64_elf2", p, d, float)
  BY <1>1, <1>12, <1>13, Elf2Register DEF float
<1>15. Elf2Link(d, e)
  BY <1>1, <1>2, <1>12 DEF Elf2Link
<1>16. Linked("ppc64_elf2", d, e)
  BY <1>12, <1>15, Elf2Linked
<1>17. Onward("ppc64_elf2", p, d)
  <2>1. p.int <= d.int /\ p.float <= d.float /\ p.stack <= d.stack
    BY <1>1, <1>2, <1>3, <1>12
  <2> QED BY <1>1, <1>12, <2>1, Elf2Onward
<1> QED BY <1>5, <1>6, <1>7, <1>10, <1>11, <1>14, <1>16, <1>17 DEF Agreed, Moves, Whole

LEMMA Elf2Kept ==
  ASSUME NEW p, NEW g, Linked("ppc64_elf2", p, g), NEW t \in Types("ppc64_elf2")
  PROVE  Kept("ppc64_elf2", p, g, t)
<1>1. t \in Scalars
  BY DEF AggrAbis, Types
<1>2. PICK n \in Int : n = Ppc64Elf2!Sizes[t.type] /\ n <= 8
  BY <1>1 DEF Scalars, ScalarNames, Ppc64Elf2!Sizes
<1>3. /\ p.int \in Nat /\ p.float \in Nat /\ p.int <= 8 /\ g.int = p.int /\ g.float = p.float
      /\ (p.int < 8 => p.float <= p.int)
  BY Typed, Elf2Linked DEF Elf2Link
<1>4. Agreed("ppc64_elf2", p, Ppc64Elf2!PutDouble(p, n), Ppc64Elf2!GetDouble(g, n))
  <2>1. CASE p.float >= 13
    <3>1. p.int = 8
      BY <1>3, <2>1
    <3>2. Ppc64Elf2!PutDouble(p, n) = Ppc64Elf2!Pushed(p, n) /\ Ppc64Elf2!GetDouble(g, n) = Ppc64Elf2!OnStack(g, 8, n)
      BY <1>3, <2>1 DEF Ppc64Elf2!PutDouble, Ppc64Elf2!GetDouble, Ppc64Elf2!NumFloat
    <3> QED BY <1>2, <3>1, <3>2, Elf2Stack
  <2>2. CASE p.float < 13 /\ p.int < 8
    BY <2>2, Elf2FloatAndInt
  <2>3. CASE p.float < 13 /\ p.int = 8
    BY <2>3, Elf2Float
  <2> QED BY <1>3, <2>1, <2>2, <2>3
<1>5. Agreed("ppc64_elf2", p, Ppc64Elf2!PutLongLong(p, n), Ppc64Elf2!GetLongLong(g, n))
  <2>1. CASE p.int < 8
    BY <1>2, <1>3, <2>1, Elf2Int DEF Ppc64Elf2!PutLongLong, Ppc64Elf2!GetLongLong, Ppc64Elf2!NumInt
  <2>2. CASE p.int = 8
    <3>1. Ppc64Elf2!PutLongLong(p, n) = Ppc64Elf2!Pushed(p, n) /\ Ppc64Elf2!GetLongLong(g, n) = Ppc64Elf2!OnStack(g, 8, n)
      BY <1>3, <2>2 DEF Ppc64Elf2!PutLongLong, Ppc64Elf2!GetLongLong, Ppc64Elf2!NumInt
    <3> QED BY <1>2, <2>2, <3>1, Elf2Stack
  <2> QED BY <1>3, <2>1, <2>2
<1>6. Agreed("ppc64_elf2", p, Ppc64Elf2!Put(p, t), Ppc64Elf2!Get(g, t))
  <2>1. CASE t.type \in {"float", "double"}
    BY <1>2, <1>4, <2>1 DEF Ppc64Elf2!Put, Ppc64Elf2!Get
  <2>2. CASE t.type \notin {"float", "double"}
    BY <1>2, <1>5, <2>2 DEF Ppc64Elf2!Put, Ppc64Elf2!Get
  <2> QED BY <2>1, <2>2
<1>7. Get("ppc64_elf2", g, t) = Ppc64Elf2!Get(g, t) /\ Put("ppc64_elf2", p, t) = Ppc64Elf2!Put(p, t)
  BY DEF Get, Put
<1> QED BY <1>6, <1>7 DEF Kept, Agreed

-----------------------------------------------------------------------------
(* 32-bit MIPS, o32.                                                         *)

O32Abis == {"o32", "o32_soft"}

LEMMA O32Marks ==
  ASSUME NEW conv \in O32Abis, NEW c
  PROVE  /\ StackMark(conv, c) = c.stack /\ Width(conv) = 4
         /\ \A k : FreeRegister(conv, c, "int", k) <=> k >= c.int /\ k # c.hidden
         /\ \A k : FreeRegister(conv, c, "float", k) <=> k >= 2 * c.aux
BY DEF O32Abis, IntMark, FloatMark, StackMark, Width, AggrAbis, FreeRegister

LEMMA O32Linked ==
  ASSUME NEW conv \in O32Abis, NEW p, NEW g
  PROVE  Linked(conv, p, g) <=> /\ p \in Counters /\ g \in Counters /\ p.hidden = -1 /\ g.hidden = -1
                                /\ O32Link(conv, p, g)
BY DEF Linked, Same, O32Abis

LEMMA O32Even ==
  ASSUME NEW n \in Nat
  PROVE  /\ 8 * ((n + 8 - 1) \div 8) \in Nat /\ n <= 8 * ((n + 8 - 1) \div 8)
         /\ n = 0 => 8 * ((n + 8 - 1) \div 8) = 0
         /\ n \in {4, 8} => 8 * ((n + 8 - 1) \div 8) = 8
OBVIOUS

\* What the two sides count for an argument of w bytes that is put at base.
LEMMA O32Step ==
  ASSUME NEW conv \in O32Abis, NEW p, NEW g, Linked(conv, p, g),
         NEW base \in Nat, p.stack <= base, p.stack = 0 => base = 0, NEW w \in {4, 8},
         NEW d \in Counters, d.int = 0, d.float = 0, d.hidden = -1,
         d.stack = base + w, d.aux = p.aux + 1,
         NEW e \in Counters, e.int = 0, e.hidden = -1, e.stack = base + w,
         e.float <= 2, conv = "o32" /\ e.float < 2 => e.float = p.aux + 1
  PROVE  Linked(conv, d, e) /\ Onward(conv, p, d)
<1>1. /\ p \in Counters /\ p.hidden = -1 /\ p.stack \in Nat /\ p.aux \in Nat /\ p.int = 0 /\ p.float = 0
      /\ O32Link(conv, p, g)
  BY Typed, O32Linked DEF O32Link
<1>2. p.aux = 0 => d.stack \in {4, 8}
  BY <1>1 DEF O32Link
<1>3. O32Link(conv, d, e)
  BY <1>1, <1>2 DEF O32Link
<1>4. Linked(conv, d, e)
  BY <1>3, O32Linked
<1>5. d.stack \in Nat /\ d.aux \in Nat /\ p.stack <= d.stack /\ p.aux <= d.aux
  BY <1>1
<1>6. \A k \in Nat : k >= 2 * d.aux => k >= 2 * p.aux
  BY <1>1, <1>5
<1> QED BY <1>1, <1>4, <1>5, <1>6, O32Marks DEF Onward

LEMMA O32Float ==
  ASSUME NEW conv \in O32Abis, NEW p, NEW d, p.aux \in Nat, d.aux = p.aux + 1,
         NEW at \in Int, NEW n \in Int, 8 * p.aux <= at, at + n <= 8 * p.aux + 8
  PROVE  Fresh(conv, p, d, Run("float", at, n))
<1>1. PICK i \in Nat, j \in Nat : i = 2 * p.aux /\ j = i + 2
  OBVIOUS
<1>2. PICK w : w = 4 /\ w = Width(conv)
  BY O32Marks
<1>3. w * i <= at /\ at + n <= w * j
  BY <1>1, <1>2
<1>4. 2 * d.aux = j
  BY <1>1
<1>5. \A k \in i..j - 1 : k >= i /\ ~(k >= j)
  BY <1>1
<1>6. \A k \in i..j - 1 : FreeRegister(conv, p, "float", k) /\ ~FreeRegister(conv, d, "float", k)
  BY <1>1, <1>4, <1>5, O32Marks
<1> QED BY <1>2, <1>3, <1>6, RegistersFresh


\* What an argument has moved the sides to.
O32Moved(p, d, end) ==
  /\ d \in Counters /\ d.stack = end /\ d.aux = p.aux + 1
  /\ d.int = 0 /\ d.float = 0 /\ d.hidden = -1
O32Got(e, end, f) ==
  e \in Counters /\ e.stack = end /\ e.float = f /\ e.int = 0 /\ e.hidden = -1

LEMMA O32Agreed ==
  ASSUME NEW conv \in O32Abis, NEW p, NEW g, Linked(conv, p, g),
         NEW base \in Nat, p.stack <= base, p.stack = 0 => base = 0, NEW w \in {4, 8},
         NEW f \in Nat, f <= 2, conv = "o32" /\ f < 2 => f = p.aux + 1,
         NEW r, O32Moved(p, r.cur, base + w), NEW s, O32Got(s.cur, base + w, f),
         NEW n \in Int, NEW at \in Int, base <= at, at + n <= base + w, r.at = Run("stack", at, n),
         NEW fat \in Int, 8 * p.aux <= fat, fat + n <= 8 * p.aux + 8,
         r.copy \in {Run("stack", at, n), Run("float", fat, n)},
         s.at \in {r.at, r.copy}
  PROVE  Agreed(conv, p, r, s)
<1> DEFINE d == r.cur
           e == s.cur
<1>1. /\ d \in Counters /\ d.stack = base + w /\ d.aux = p.aux + 1 /\ d.int = 0 /\ d.float = 0 /\ d.hidden = -1
      /\ e \in Counters /\ e.stack = base + w /\ e.float = f /\ e.int = 0 /\ e.hidden = -1
      /\ p.stack \in Nat /\ p.aux \in Nat
  BY Typed DEF O32Moved, O32Got
<1> HIDE DEF d, e
<1>2. Linked(conv, d, e) /\ Onward(conv, p, d)
  BY <1>1, O32Step
<1>3. Fresh(conv, p, d, Run("stack", at, n))
  <2>1. at \in Nat /\ p.stack <= at /\ at + n <= d.stack /\ d.stack \in Nat
    BY <1>1
  <2> QED BY <1>1, <2>1, O32Marks, StackFresh
<1>4. Fresh(conv, p, d, Run("float", fat, n))
  BY <1>1, O32Float
<1> QED BY <1>2, <1>3, <1>4 DEF Agreed, Moves, d, e

LEMMA O32Bytes ==
  /\ \A area, at, w, n : O32!Low(area, at, w, n) = Run(area, at + w - n, n)
  /\ \A area, at, n : O32!Bytes(area, at, n) = Run(area, at, n)
BY DEF O32!Low, O32!Bytes, Run

\* A value in memory, on the callee's side.
LEMMA O32Memory ==
  ASSUME NEW b \in Counters, b.int = 0, b.hidden = -1, NEW base \in Nat, b.stack = base,
         NEW w \in {4, 8}, NEW n \in Int
  PROVE  /\ O32Got(O32!OnStack(b, w, n).cur, base + w, b.float)
         /\ O32!OnStack(b, w, n).at = Run("stack", base + w - n, n)
<1> DEFINE e == [b EXCEPT !.stack = @ + w]
<1>1. O32!OnStack(b, w, n) = Whole(e, Run("stack", base + w - n, n))
  BY O32Bytes DEF O32!OnStack, O32!Placed, Whole
<1>2. e \in Counters /\ e.stack = base + w /\ e.float = b.float /\ e.int = 0 /\ e.hidden = -1
  BY DEF Counters
<1> HIDE DEF e
<1> QED BY <1>1, <1>2 DEF Whole, O32Got

LEMMA O32Aligned ==
  ASSUME NEW c \in Counters
  PROVE  /\ O32!Aligned(c, 8) \in Counters /\ O32!Aligned(c, 8).stack = O32!RoundUp(c.stack, 8)
         /\ O32!Aligned(c, 8).int = c.int /\ O32!Aligned(c, 8).float = c.float
         /\ O32!Aligned(c, 8).aux = c.aux /\ O32!Aligned(c, 8).hidden = c.hidden
         /\ O32!RoundUp(c.stack, 8) \in Nat /\ c.stack <= O32!RoundUp(c.stack, 8)
         /\ c.stack = 0 => O32!RoundUp(c.stack, 8) = 0
         /\ c.stack \in {4, 8} => O32!RoundUp(c.stack, 8) = 8
<1>1. c.stack \in Nat
  BY DEF Counters
<1>2. PICK m : m = 8 * ((c.stack + 8 - 1) \div 8)
  OBVIOUS
<1>3. /\ m \in Nat /\ c.stack <= m /\ (c.stack = 0 => m = 0) /\ (c.stack \in {4, 8} => m = 8)
  BY <1>1, <1>2, O32Even
<1>4. O32!RoundUp(c.stack, 8) = m
  BY <1>2 DEF O32!RoundUp
<1>5. O32!Aligned(c, 8) = [c EXCEPT !.stack = m]
  BY <1>4 DEF O32!Aligned
<1> QED BY <1>3, <1>4, <1>5 DEF Counters

\* The caller's side.
LEMMA O32Put ==
  ASSUME NEW p \in Counters, p.hidden = -1, p.int = 0, p.float = 0, NEW t \in Scalars,
         NEW n \in Int, n = O32!Sizes[t.type], NEW w \in {4, 8}, w = (IF n = 8 THEN 8 ELSE 4),
         NEW base \in Nat, base = IF n = 8 THEN O32!RoundUp(p.stack, 8) ELSE p.stack
  PROVE  /\ O32Moved(p, O32!PutO32(p, t).cur, base + w)
         /\ O32!PutO32(p, t).at = Run("stack", base + w - n, n)
         /\ O32!PutO32(p, t).copy = IF O32!Floating(t) /\ p.aux < 2 THEN Run("float", 8 * p.aux + 8 - n, n)
                                                              ELSE O32!PutO32(p, t).at
<1> DEFINE pb == IF n = 8 THEN O32!Aligned(p, 8) ELSE p
           pa == [pb EXCEPT !.aux = @ + 1]
           d == [pa EXCEPT !.stack = @ + w]
           one == O32!OnStack(pa, w, n)
<1>1. p.stack \in Nat /\ p.aux \in Nat
  BY DEF Counters
<1>2. /\ pb \in Counters /\ pb.stack = base /\ pb.aux = p.aux /\ pb.int = 0 /\ pb.float = 0 /\ pb.hidden = -1
  BY <1>1, O32Aligned
<1>3. O32!PutO32(p, t) = IF O32!Floating(t) /\ p.aux < 2
                         THEN [one EXCEPT !.copy = O32!Low("float", 8 * p.aux, 8, n)] ELSE one
  BY DEF O32!PutO32
<1> HIDE DEF pb
<1>4. /\ pa \in Counters /\ pa.stack = base /\ pa.aux = p.aux + 1 /\ pa.int = 0 /\ pa.float = 0 /\ pa.hidden = -1
  BY <1>1, <1>2 DEF Counters
<1>5. one = Whole(d, Run("stack", base + w - n, n))
  BY <1>4, O32Bytes DEF O32!OnStack, O32!Placed, Whole
<1> HIDE DEF pa
<1>6. d \in Counters /\ d.stack = base + w /\ d.aux = p.aux + 1 /\ d.int = 0 /\ d.float = 0 /\ d.hidden = -1
  BY <1>4 DEF Counters
<1> HIDE DEF d, one
<1>7. O32Moved(p, one.cur, base + w) /\ one.at = Run("stack", base + w - n, n) /\ one.copy = one.at
      /\ one = [cur |-> one.cur, at |-> one.at, copy |-> one.copy]
  BY <1>5, <1>6 DEF Whole, O32Moved
<1>8. CASE O32!Floating(t) /\ p.aux < 2
  BY <1>3, <1>7, <1>8, O32Bytes
<1>9. CASE ~(O32!Floating(t) /\ p.aux < 2)
  BY <1>3, <1>7, <1>9
<1> QED BY <1>8, <1>9

LEMMA O32Kept ==
  ASSUME NEW p, NEW g, Linked("o32", p, g), NEW t \in Types("o32")
  PROVE  Kept("o32", p, g, t)
<1>1. t \in Scalars
  BY DEF AggrAbis, Types
<1>2. PICK n \in Int : n = O32!Sizes[t.type] /\ n <= 8
                       /\ (n = 8 <=> t.type \in {"longlong", "double"})
                       /\ (n # 8 => n <= 4) /\ (t.type = "float" => n = 4)
  BY <1>1 DEF Scalars, ScalarNames, O32!Sizes, O32!Word
<1>3. /\ p \in Counters /\ g \in Counters /\ p.hidden = -1 /\ g.hidden = -1 /\ O32Link("o32", p, g)
      /\ p.stack \in Nat /\ g.stack = p.stack /\ p.aux \in Nat /\ g.float \in Nat /\ g.float <= 2
      /\ p.int = 0 /\ p.float = 0 /\ g.int = 0 /\ "o32" \in O32Abis
  BY Typed, O32Linked DEF O32Link, O32Abis
<1>4. PICK w \in {4, 8} : w = (IF n = 8 THEN 8 ELSE 4)
  OBVIOUS
<1>5. PICK base \in Nat : base = IF n = 8 THEN O32!RoundUp(p.stack, 8) ELSE p.stack
  BY <1>3, O32Aligned
<1>6. p.stack <= base /\ (p.stack = 0 => base = 0)
  BY <1>3, <1>5, O32Aligned
<1>7. PICK at \in Int, fat \in Int : at = base + w - n /\ fat = 8 * p.aux + 8 - n
  BY <1>3
<1>8. base <= at /\ at + n <= base + w /\ 8 * p.aux <= fat /\ fat + n <= 8 * p.aux + 8
  BY <1>2, <1>3, <1>4, <1>7
<1> DEFINE r == O32!PutO32(p, t)
           s == O32!GetO32(g, t)
<1>9. /\ O32Moved(p, r.cur, base + w) /\ r.at = Run("stack", at, n)
      /\ r.copy = IF O32!Floating(t) /\ p.aux < 2 THEN Run("float", fat, n) ELSE r.at
  BY <1>1, <1>2, <1>3, <1>4, <1>5, <1>7, O32Put
<1> HIDE DEF r
<1>10. ASSUME NEW f \in Nat, f <= 2, "o32" = "o32" /\ f < 2 => f = p.aux + 1,
              O32Got(s.cur, base + w, f), s.at \in {r.at, r.copy}
       PROVE  Agreed("o32", p, r, s)
  <2> HIDE DEF s
  <2> QED BY <1>3, <1>4, <1>5, <1>6, <1>8, <1>9, <1>10, O32Agreed
\* In memory: b are the callee's counters before.
<1>11. ASSUME NEW b \in Counters, b.int = 0, b.hidden = -1, b.stack = base, b.float \in Nat, b.float <= 2,
              ~(b.float < 2), s = O32!OnStack(b, w, n)
       PROVE  Agreed("o32", p, r, s)
  <2>1. O32Got(s.cur, base + w, b.float) /\ s.at = Run("stack", at, n)
    BY <1>7, <1>11, O32Memory
  <2> HIDE DEF s
  <2> QED BY <1>9, <1>10, <1>11, <2>1
<1>12. ASSUME t.type = "longlong"
       PROVE  Agreed("o32", p, r, s)
  <2> DEFINE c == [g EXCEPT !.float = 2]
             b == O32!Aligned(c, 8)
  <2>1. c \in Counters /\ c.stack = g.stack /\ c.float = 2 /\ c.int = 0 /\ c.hidden = -1
    BY <1>3 DEF Counters
  <2>2. s = O32!OnStack(b, w, n)
    BY <1>2, <1>4, <1>12 DEF O32!GetO32, O32!GetLongLongO32
  <2> HIDE DEF c, s
  <2>3. b \in Counters /\ b.int = 0 /\ b.hidden = -1 /\ b.float = 2
    BY <2>1, O32Aligned
  <2>4. b.stack = base
    BY <1>2, <1>3, <1>5, <1>12, <2>1, O32Aligned
  <2> HIDE DEF b
  <2>5. b.float \in Nat /\ b.float <= 2 /\ ~(b.float < 2)
    BY <2>3
  <2> QED BY <1>11, <2>2, <2>3, <2>4, <2>5
<1>13. ASSUME t.type \notin {"longlong", "float", "double"}
       PROVE  Agreed("o32", p, r, s)
  <2> DEFINE b == [g EXCEPT !.float = 2]
  <2>1. b \in Counters /\ b.stack = g.stack /\ b.float = 2 /\ b.int = 0 /\ b.hidden = -1
    BY <1>3 DEF Counters
  <2>2. s = O32!OnStack(b, w, n)
    BY <1>2, <1>4, <1>13 DEF O32!GetO32, O32!GetIntO32
  <2> HIDE DEF b, s
  <2>3. b.stack = base
    BY <1>2, <1>3, <1>5, <1>13, <2>1
  <2>4. b.float \in Nat /\ b.float <= 2 /\ ~(b.float < 2)
    BY <2>1
  <2> QED BY <1>11, <2>1, <2>2, <2>3, <2>4
<1>14. ASSUME t.type = "float", ~(g.float < 2)
       PROVE  Agreed("o32", p, r, s)
  <2>1. s = O32!OnStack(g, w, n)
    BY <1>2, <1>3, <1>4, <1>14 DEF O32!GetO32, O32!GetFloatO32
  <2>2. g.stack = base
    BY <1>2, <1>3, <1>5, <1>14
  <2> HIDE DEF s
  <2> QED BY <1>3, <1>11, <1>14, <2>1, <2>2
<1>15. ASSUME t.type = "double", ~(g.float < 2)
       PROVE  Agreed("o32", p, r, s)
  <2> DEFINE b == O32!Aligned(g, 8)
  <2>1. s = O32!OnStack(b, w, n)
    BY <1>2, <1>3, <1>4, <1>15 DEF O32!GetO32, O32!GetDoubleO32
  <2>2. b \in Counters /\ b.int = 0 /\ b.hidden = -1 /\ b.float = g.float
    BY <1>3, O32Aligned
  <2>3. b.stack = base
    BY <1>2, <1>3, <1>5, <1>15, O32Aligned
  <2> HIDE DEF b, s
  <2> QED BY <1>3, <1>11, <1>15, <2>1, <2>2, <2>3
\* In a register, and so were all arguments before: the saved registers are
\* found by the pointer to the arguments.
<1>20. g.float < 2 => O32!RoundUp(p.stack, 8) = 8 * p.aux /\ p.aux = g.float
  <2>1. CASE g.float = 0
    BY <1>3, <2>1, O32Aligned DEF O32Link
  <2>2. CASE g.float = 1
    BY <1>3, <2>2, O32Aligned DEF O32Link
  <2> QED BY <1>3, <2>1, <2>2
<1>16. ASSUME t.type = "float", g.float < 2
       PROVE  Agreed("o32", p, r, s)
  <2> DEFINE a == [g EXCEPT !.float = @ + 1]
             b == [a EXCEPT !.stack = @ + 4]
  <2>1. a \in Counters /\ a.stack = g.stack /\ a.float = g.float + 1 /\ a.int = 0 /\ a.hidden = -1
    BY <1>3 DEF Counters
  <2>2. s = Whole(b, Run("float", O32!RoundUp(g.stack, 8) + 8 - 4, 4))
    BY <1>16, O32Bytes DEF O32!GetO32, O32!GetFloatO32, O32!Placed, Whole
  <2> HIDE DEF a, s
  <2>3. b \in Counters /\ b.stack = a.stack + 4 /\ b.float = a.float /\ b.int = 0 /\ b.hidden = -1
    BY <1>3, <2>1 DEF Counters
  <2> HIDE DEF b
  <2>4. w = 4 /\ base = g.stack /\ n = 4
    BY <1>2, <1>3, <1>4, <1>5, <1>16
  <2>5. O32Got(s.cur, base + w, g.float + 1)
    BY <2>1, <2>2, <2>3, <2>4 DEF Whole, O32Got
  <2>6. s.at = Run("float", fat, n)
    BY <1>3, <1>7, <1>16, <1>20, <2>2, <2>4 DEF Whole
  <2>7. r.copy = Run("float", fat, n)
    BY <1>3, <1>9, <1>16, <1>20 DEF O32!Floating
  <2> QED BY <1>3, <1>10, <1>16, <1>20, <2>5, <2>6, <2>7
<1>17. ASSUME t.type = "double", g.float < 2
       PROVE  Agreed("o32", p, r, s)
  <2> DEFINE c == O32!Aligned(g, 8)
             a == [c EXCEPT !.float = @ + 1]
             b == [a EXCEPT !.stack = @ + 8]
  <2>1. /\ c \in Counters /\ c.stack = base /\ c.float = g.float /\ c.int = 0 /\ c.hidden = -1
        /\ base = 8 * p.aux /\ w = 8 /\ n = 8
    BY <1>2, <1>3, <1>4, <1>5, <1>17, <1>20, O32Aligned
  <2>2. s = Whole(b, Run("float", c.stack, 8))
    BY <1>17, O32Bytes DEF O32!GetO32, O32!GetDoubleO32, O32!Placed, Whole
  <2> HIDE DEF c, s
  <2>3. a \in Counters /\ a.stack = c.stack /\ a.float = g.float + 1 /\ a.int = 0 /\ a.hidden = -1
    BY <1>3, <2>1 DEF Counters
  <2> HIDE DEF a
  <2>4. b \in Counters /\ b.stack = base + 8 /\ b.float = g.float + 1 /\ b.int = 0 /\ b.hidden = -1
    BY <1>3, <2>1, <2>3 DEF Counters
  <2> HIDE DEF b
  <2>5. O32Got(s.cur, base + w, g.float + 1)
    BY <2>1, <2>2, <2>4 DEF Whole, O32Got
  <2>6. s.at = Run("float", fat, n)
    <3>1. c.stack = fat
      BY <1>3, <1>7, <2>1
    <3> QED BY <2>1, <2>2, <3>1 DEF Whole
  <2>7. r.copy = Run("float", fat, n)
    BY <1>3, <1>9, <1>17, <1>20 DEF O32!Floating
  <2> QED BY <1>3, <1>10, <1>17, <1>20, <2>5, <2>6, <2>7
<1>18. Get("o32", g, t) = s /\ Put("o32", p, t) = r
  BY DEF Get, Put, O32!Get, O32!Put, r
<1>19. Agreed("o32", p, r, s)
  <2> HIDE DEF s
  <2> QED BY <1>12, <1>13, <1>14, <1>15, <1>16, <1>17
<1> HIDE DEF s
<1> QED BY <1>18, <1>19 DEF Kept, Agreed

LEMMA O32SoftBytes ==
  /\ \A area, at, w, n : O32Soft!Low(area, at, w, n) = Run(area, at, n)
  /\ \A area, at, n : O32Soft!Bytes(area, at, n) = Run(area, at, n)
BY DEF O32Soft!Low, O32Soft!Bytes, Run

\* A value in memory, on the callee's side.
LEMMA O32SoftMemory ==
  ASSUME NEW b \in Counters, b.int = 0, b.hidden = -1, NEW base \in Nat, b.stack = base,
         NEW w \in {4, 8}, NEW n \in Int
  PROVE  /\ O32Got(O32Soft!OnStack(b, w, n).cur, base + w, b.float)
         /\ O32Soft!OnStack(b, w, n).at = Run("stack", base, n)
<1> DEFINE e == [b EXCEPT !.stack = @ + w]
<1>1. O32Soft!OnStack(b, w, n) = Whole(e, Run("stack", base, n))
  BY O32SoftBytes DEF O32Soft!OnStack, O32Soft!Placed, Whole
<1>2. e \in Counters /\ e.stack = base + w /\ e.float = b.float /\ e.int = 0 /\ e.hidden = -1
  BY DEF Counters
<1> HIDE DEF e
<1> QED BY <1>1, <1>2 DEF Whole, O32Got

LEMMA O32SoftAligned ==
  ASSUME NEW c \in Counters
  PROVE  /\ O32Soft!Aligned(c, 8) \in Counters /\ O32Soft!Aligned(c, 8).stack = O32Soft!RoundUp(c.stack, 8)
         /\ O32Soft!Aligned(c, 8).int = c.int /\ O32Soft!Aligned(c, 8).float = c.float
         /\ O32Soft!Aligned(c, 8).aux = c.aux /\ O32Soft!Aligned(c, 8).hidden = c.hidden
         /\ O32Soft!RoundUp(c.stack, 8) \in Nat /\ c.stack <= O32Soft!RoundUp(c.stack, 8)
         /\ c.stack = 0 => O32Soft!RoundUp(c.stack, 8) = 0
         /\ c.stack \in {4, 8} => O32Soft!RoundUp(c.stack, 8) = 8
<1>1. c.stack \in Nat
  BY DEF Counters
<1>2. PICK m : m = 8 * ((c.stack + 8 - 1) \div 8)
  OBVIOUS
<1>3. /\ m \in Nat /\ c.stack <= m /\ (c.stack = 0 => m = 0) /\ (c.stack \in {4, 8} => m = 8)
  BY <1>1, <1>2, O32Even
<1>4. O32Soft!RoundUp(c.stack, 8) = m
  BY <1>2 DEF O32Soft!RoundUp
<1>5. O32Soft!Aligned(c, 8) = [c EXCEPT !.stack = m]
  BY <1>4 DEF O32Soft!Aligned
<1> QED BY <1>3, <1>4, <1>5 DEF Counters

\* The caller's side.
LEMMA O32SoftPut ==
  ASSUME NEW p \in Counters, p.hidden = -1, p.int = 0, p.float = 0, NEW t \in Scalars,
         NEW n \in Int, n = O32Soft!Sizes[t.type], NEW w \in {4, 8}, w = (IF n = 8 THEN 8 ELSE 4),
         NEW base \in Nat, base = IF n = 8 THEN O32Soft!RoundUp(p.stack, 8) ELSE p.stack
  PROVE  /\ O32Moved(p, O32Soft!PutO32(p, t).cur, base + w)
         /\ O32Soft!PutO32(p, t).at = Run("stack", base, n)
         /\ O32Soft!PutO32(p, t).copy = O32Soft!PutO32(p, t).at
<1> DEFINE pb == IF n = 8 THEN O32Soft!Aligned(p, 8) ELSE p
           pa == [pb EXCEPT !.aux = @ + 1]
           d == [pa EXCEPT !.stack = @ + w]
           one == O32Soft!OnStack(pa, w, n)
<1>1. p.stack \in Nat /\ p.aux \in Nat
  BY DEF Counters
<1>2. /\ pb \in Counters /\ pb.stack = base /\ pb.aux = p.aux /\ pb.int = 0 /\ pb.float = 0 /\ pb.hidden = -1
  BY <1>1, O32SoftAligned
<1>3. O32Soft!PutO32(p, t) = one
  BY DEF O32Soft!PutO32
<1> HIDE DEF pb
<1>4. /\ pa \in Counters /\ pa.stack = base /\ pa.aux = p.aux + 1 /\ pa.int = 0 /\ pa.float = 0 /\ pa.hidden = -1
  BY <1>1, <1>2 DEF Counters
<1>5. one = Whole(d, Run("stack", base, n))
  BY <1>4, O32SoftBytes DEF O32Soft!OnStack, O32Soft!Placed, Whole
<1> HIDE DEF pa
<1>6. d \in Counters /\ d.stack = base + w /\ d.aux = p.aux + 1 /\ d.int = 0 /\ d.float = 0 /\ d.hidden = -1
  BY <1>4 DEF Counters
<1> HIDE DEF d, one
<1>7. O32Moved(p, one.cur, base + w) /\ one.at = Run("stack", base, n) /\ one.copy = one.at
      /\ one = [cur |-> one.cur, at |-> one.at, copy |-> one.copy]
  BY <1>5, <1>6 DEF Whole, O32Moved
<1> QED BY <1>3, <1>7

LEMMA O32SoftKept ==
  ASSUME NEW p, NEW g, Linked("o32_soft", p, g), NEW t \in Types("o32_soft")
  PROVE  Kept("o32_soft", p, g, t)
<1>1. t \in Scalars
  BY DEF AggrAbis, Types
<1>2. PICK n \in Int : n = O32Soft!Sizes[t.type] /\ n <= 8
                       /\ (n = 8 <=> t.type \in {"longlong", "double"})
                       /\ (n # 8 => n <= 4) /\ (t.type = "float" => n = 4)
  BY <1>1 DEF Scalars, ScalarNames, O32Soft!Sizes, O32Soft!Word
<1>3. /\ p \in Counters /\ g \in Counters /\ p.hidden = -1 /\ g.hidden = -1 /\ O32Link("o32_soft", p, g)
      /\ p.stack \in Nat /\ g.stack = p.stack /\ p.aux \in Nat /\ g.float \in Nat /\ g.float <= 2
      /\ p.int = 0 /\ p.float = 0 /\ g.int = 0 /\ "o32_soft" \in O32Abis
  BY Typed, O32Linked DEF O32Link, O32Abis
<1>4. PICK w \in {4, 8} : w = (IF n = 8 THEN 8 ELSE 4)
  OBVIOUS
<1>5. PICK base \in Nat : base = IF n = 8 THEN O32Soft!RoundUp(p.stack, 8) ELSE p.stack
  BY <1>3, O32SoftAligned
<1>6. p.stack <= base /\ (p.stack = 0 => base = 0)
  BY <1>3, <1>5, O32SoftAligned
<1>7. PICK at \in Int, fat \in Int : at = base /\ fat = 8 * p.aux + 8 - n
  BY <1>3
<1>8. base <= at /\ at + n <= base + w /\ 8 * p.aux <= fat /\ fat + n <= 8 * p.aux + 8
  BY <1>2, <1>3, <1>4, <1>7
<1> DEFINE r == O32Soft!PutO32(p, t)
           s == O32Soft!GetO32(g, t)
<1>9. /\ O32Moved(p, r.cur, base + w) /\ r.at = Run("stack", at, n)
      /\ r.copy = r.at
  BY <1>1, <1>2, <1>3, <1>4, <1>5, <1>7, O32SoftPut
<1> HIDE DEF r
<1>10. ASSUME NEW f \in Nat, f <= 2, "o32_soft" = "o32" /\ f < 2 => f = p.aux + 1,
              O32Got(s.cur, base + w, f), s.at \in {r.at, r.copy}
       PROVE  Agreed("o32_soft", p, r, s)
  <2> HIDE DEF s
  <2> QED BY <1>3, <1>4, <1>5, <1>6, <1>8, <1>9, <1>10, O32Agreed
\* In memory: b are the callee's counters before.
<1>11. ASSUME NEW b \in Counters, b.int = 0, b.hidden = -1, b.stack = base, b.float \in Nat, b.float <= 2,
              s = O32Soft!OnStack(b, w, n)
       PROVE  Agreed("o32_soft", p, r, s)
  <2>1. O32Got(s.cur, base + w, b.float) /\ s.at = Run("stack", at, n)
    BY <1>7, <1>11, O32SoftMemory
  <2> HIDE DEF s
  <2> QED BY <1>9, <1>10, <1>11, <2>1
<1>12. ASSUME t.type = "longlong"
       PROVE  Agreed("o32_soft", p, r, s)
  <2> DEFINE c == [g EXCEPT !.float = 2]
             b == O32Soft!Aligned(c, 8)
  <2>1. c \in Counters /\ c.stack = g.stack /\ c.float = 2 /\ c.int = 0 /\ c.hidden = -1
    BY <1>3 DEF Counters
  <2>2. s = O32Soft!OnStack(b, w, n)
    BY <1>2, <1>4, <1>12 DEF O32Soft!GetO32, O32Soft!GetLongLongO32
  <2> HIDE DEF c, s
  <2>3. b \in Counters /\ b.int = 0 /\ b.hidden = -1 /\ b.float = 2
    BY <2>1, O32SoftAligned
  <2>4. b.stack = base
    BY <1>2, <1>3, <1>5, <1>12, <2>1, O32SoftAligned
  <2> HIDE DEF b
  <2>5. b.float \in Nat /\ b.float <= 2 /\ ~(b.float < 2)
    BY <2>3
  <2> QED BY <1>11, <2>2, <2>3, <2>4, <2>5
<1>13. ASSUME t.type \notin {"longlong", "float", "double"}
       PROVE  Agreed("o32_soft", p, r, s)
  <2> DEFINE b == [g EXCEPT !.float = 2]
  <2>1. b \in Counters /\ b.stack = g.stack /\ b.float = 2 /\ b.int = 0 /\ b.hidden = -1
    BY <1>3 DEF Counters
  <2>2. s = O32Soft!OnStack(b, w, n)
    BY <1>2, <1>4, <1>13 DEF O32Soft!GetO32, O32Soft!GetIntO32
  <2> HIDE DEF b, s
  <2>3. b.stack = base
    BY <1>2, <1>3, <1>5, <1>13, <2>1
  <2>4. b.float \in Nat /\ b.float <= 2 /\ ~(b.float < 2)
    BY <2>1
  <2> QED BY <1>11, <2>1, <2>2, <2>3, <2>4
<1>14. ASSUME t.type = "float"
       PROVE  Agreed("o32_soft", p, r, s)
  <2>1. s = O32Soft!OnStack(g, w, n)
    BY <1>2, <1>3, <1>4, <1>14 DEF O32Soft!GetO32, O32Soft!GetFloatO32
  <2>2. g.stack = base
    BY <1>2, <1>3, <1>5, <1>14
  <2> HIDE DEF s
  <2> QED BY <1>3, <1>11, <1>14, <2>1, <2>2
<1>15. ASSUME t.type = "double"
       PROVE  Agreed("o32_soft", p, r, s)
  <2> DEFINE b == O32Soft!Aligned(g, 8)
  <2>1. s = O32Soft!OnStack(b, w, n)
    BY <1>2, <1>3, <1>4, <1>15 DEF O32Soft!GetO32, O32Soft!GetDoubleO32
  <2>2. b \in Counters /\ b.int = 0 /\ b.hidden = -1 /\ b.float = g.float
    BY <1>3, O32SoftAligned
  <2>3. b.stack = base
    BY <1>2, <1>3, <1>5, <1>15, O32SoftAligned
  <2> HIDE DEF b, s
  <2> QED BY <1>3, <1>11, <1>15, <2>1, <2>2, <2>3
<1>18. Get("o32_soft", g, t) = s /\ Put("o32_soft", p, t) = r
  BY DEF Get, Put, O32Soft!Get, O32Soft!Put, r
<1>19. Agreed("o32_soft", p, r, s)
  <2> HIDE DEF s
  <2> QED BY <1>12, <1>13, <1>14, <1>15
<1> HIDE DEF s
<1> QED BY <1>18, <1>19 DEF Kept, Agreed

-----------------------------------------------------------------------------
(* 32-bit ARM with hard float.                                               *)

LEMMA HardBytes == \A area, at, n : Armhf!Bytes(area, at, n) = Run(area, at, n)
BY DEF Armhf!Bytes, Run

LEMMA HardMarks ==
  ASSUME NEW c
  PROVE  /\ StackMark("armhf", c) = c.stack /\ Width("armhf") = 4
         /\ \A k : FreeRegister("armhf", c, "int", k) <=> k >= c.int \div 4 /\ k # c.hidden
         /\ \A k : FreeRegister("armhf", c, "float", k) <=> k >= c.aux \/ k = c.float
BY DEF IntMark, FloatMark, StackMark, Width, AggrAbis, FreeRegister

LEMMA HardLinked ==
  ASSUME NEW p, NEW g
  PROVE  Linked("armhf", p, g) <=> /\ p \in Counters /\ g \in Counters /\ p.hidden = -1 /\ g.hidden = -1
                                   /\ HardLink(p, g)
BY DEF Linked, Same

LEMMA HardOnward ==
  ASSUME NEW p \in Counters, NEW d \in Counters, p.hidden = -1, d.hidden = -1,
         p.int <= d.int, p.stack <= d.stack,
         \A k \in Nat : k >= d.aux \/ k = d.float => k >= p.aux \/ k = p.float
  PROVE  Onward("armhf", p, d)
<1>1. p.int \in Nat /\ p.stack \in Nat /\ d.int \in Nat /\ d.stack \in Nat
  BY DEF Counters
<1>2. PICK i \in Nat, j \in Nat : i = p.int \div 4 /\ j = d.int \div 4 /\ i <= j
  BY <1>1
<1>3. \A k \in Nat : FreeRegister("armhf", d, "int", k) => FreeRegister("armhf", p, "int", k)
  BY <1>2, HardMarks
<1>4. \A k \in Nat : FreeRegister("armhf", d, "float", k) => FreeRegister("armhf", p, "float", k)
  BY HardMarks
<1> QED BY <1>1, <1>3, <1>4, HardMarks DEF Onward

\* Core registers from i up to j.
LEMMA HardIntFresh ==
  ASSUME NEW p, NEW d, p.hidden = -1, NEW i \in Nat, NEW j \in Nat, p.int <= 4 * i, p.int \in Nat,
         d.int = 4 * j, NEW at \in Int, NEW n \in Int, 4 * i <= at, at + n <= 4 * j
  PROVE  Fresh("armhf", p, d, Run("int", at, n))
<1>1. p.int \div 4 <= i /\ d.int \div 4 = j /\ p.int \div 4 \in Nat
  OBVIOUS
<1>2. PICK w : w = 4 /\ w = Width("armhf")
  BY HardMarks
<1>3. w * i <= at /\ at + n <= w * j
  BY <1>2
<1>4. \A k \in i..j - 1 : k >= p.int \div 4 /\ ~(k >= d.int \div 4) /\ k # -1
  BY <1>1
<1>5. \A k \in i..j - 1 : FreeRegister("armhf", p, "int", k) /\ ~FreeRegister("armhf", d, "int", k)
  BY <1>4, HardMarks
<1> QED BY <1>2, <1>3, <1>5, RegistersFresh

HardTaken(p, d, i, j) ==
  \A k \in i..j - 1 : (k >= p.aux \/ k = p.float) /\ ~(k >= d.aux) /\ k # d.float

LEMMA HardFloatFresh ==
  ASSUME NEW p, NEW d, NEW i \in Nat, NEW j \in Nat, HardTaken(p, d, i, j),
         NEW at \in Int, NEW n \in Int, 4 * i <= at, at + n <= 4 * j
  PROVE  Fresh("armhf", p, d, Run("float", at, n))
<1>1. PICK w : w = 4 /\ w = Width("armhf")
  BY HardMarks
<1>2. w * i <= at /\ at + n <= w * j
  BY <1>1
<1>3. \A k \in i..j - 1 : FreeRegister("armhf", p, "float", k) /\ ~FreeRegister("armhf", d, "float", k)
  BY HardMarks DEF HardTaken
<1> QED BY <1>1, <1>2, <1>3, RegistersFresh

\* A word, and two words, in memory and in core registers.
LEMMA HardWord ==
  ASSUME NEW c \in Counters, NEW n \in Int
  PROVE  /\ c.int < 4 => Armhf!ArmWord(c, n) = Whole([c EXCEPT !.int = @ + 1], Run("int", 4 * c.int, n))
         /\ ~(c.int < 4) => Armhf!ArmWord(c, n) = Whole([c EXCEPT !.stack = @ + 4], Run("stack", c.stack, n))
BY HardBytes DEF Armhf!ArmWord, Armhf!InRegister, Armhf!OnStack, Armhf!Low, Armhf!Placed, Whole, Counters

LEMMA RunTwo ==
  ASSUME NEW area \in {"int", "float", "stack"}, NEW at \in Nat, NEW m \in Nat, NEW n \in Nat
  PROVE  Run(area, at, m + n) = Run(area, at, m) \o Run(area, at + m, n)
<1> DEFINE a == Run(area, at, m)
           b == Run(area, at + m, n)
           c == Run(area, at, m + n)
<1>1. a \in [1..m -> Cells] /\ b \in [1..n -> Cells] /\ c \in [1..m + n -> Cells]
  BY DEF Run, Cells
<1>2. \A k \in 1..m : a[k] = c[k]
  BY DEF Run
<1>3. \A k \in 1..n : b[k] = c[k + m]
  BY DEF Run
<1> HIDE DEF a, b, c
<1>4. /\ a \in Seq(Cells) /\ b \in Seq(Cells) /\ c \in Seq(Cells)
      /\ Len(a) = m /\ Len(b) = n /\ Len(c) = m + n
  BY <1>1
<1>5. a \o b \in Seq(Cells) /\ Len(a \o b) = m + n
  BY <1>4, ConcatProperties
<1>6. /\ \A k \in 1..m : (a \o b)[k] = a[k]
      /\ \A k \in m + 1..m + n : (a \o b)[k] = b[k - m]
  BY <1>4, ConcatProperties
<1>7. ASSUME NEW k \in 1..m + n
      PROVE  (a \o b)[k] = c[k]
  <2>1. CASE k \in 1..m
    <3>1. (a \o b)[k] = a[k]
      BY <1>6, <2>1
    <3>2. a[k] = c[k]
      BY <1>2, <2>1
    <3> QED BY <3>1, <3>2
  <2>2. CASE k \in m + 1..m + n
    <3>1. PICK j \in 1..n : j = k - m /\ k = j + m
      BY <2>2
    <3>2. (a \o b)[k] = b[k - m]
      BY <1>6, <2>2
    <3>3. b[j] = c[j + m]
      BY <1>3
    <3> QED BY <3>1, <3>2, <3>3
  <2>3. k \in 1..m \/ k \in m + 1..m + n
    OBVIOUS
  <2> QED BY <2>1, <2>2, <2>3
<1>8. a \o b = c
  BY <1>4, <1>5, <1>7, SeqEqual
<1> QED BY <1>8 DEF a, b, c

LEMMA RunTwice ==
  \A at \in Nat, m \in Nat :
    Run("int", at, m + m) = Run("int", at, m) \o Run("int", at + m, m)
  BY RunTwo

LEMMA IntTwice ==
  ASSUME NEW c \in Counters, NEW s, NEW t
  PROVE  /\ [[c EXCEPT !.int = s] EXCEPT !.int = t] = [c EXCEPT !.int = t]
         /\ [c EXCEPT !.int = s].int = s
BY DEF Counters

LEMMA HardTwoWords ==
  ASSUME NEW c \in Counters, c.int <= 4, NEW i \in Nat, i = Armhf!RoundUp(c.int, 2), i < 4
  PROVE  Armhf!TwoWords(c) = Whole([c EXCEPT !.int = i + 2], Run("int", 4 * i, 8))
<1>1. c.int \in Nat /\ c.int < 4
  BY DEF Counters, Armhf!RoundUp
<1> DEFINE b == [c EXCEPT !.int = i]
           r == Armhf!ArmWord(b, 4)
           one == [b EXCEPT !.int = i + 1]
           s == Armhf!ArmWord(one, 4)
           end == [one EXCEPT !.int = i + 2]
<1>2. b \in Counters /\ b.int = i
  BY DEF Counters
<1>3. Armhf!ArmAlign64(c) = b
  BY <1>1, <1>2 DEF Armhf!ArmAlign64
<1>4. end = [c EXCEPT !.int = i + 2]
  BY IntTwice
<1>5. Armhf!TwoWords(c) = Whole(Armhf!ArmWord(r.cur, 4).cur, r.at \o Armhf!ArmWord(r.cur, 4).at)
  BY <1>3 DEF Armhf!TwoWords, Armhf!Then, Armhf!Placed, Whole
<1>6. i \in {0, 2}
  BY <1>1 DEF Armhf!RoundUp
<1>7. PICK four \in Int, i4 \in Nat : four = 4 /\ i4 = 4 * i
  OBVIOUS
<1> HIDE DEF b
<1>8. r = Whole(one, Run("int", i4, four))
  <2>1. Armhf!ArmWord(b, four) = Whole(one, Run("int", 4 * b.int, four))
    <3>1. b.int < 4 /\ b.int + 1 = i + 1
      BY <1>2, <1>6
    <3>2. Armhf!ArmWord(b, four) = Whole([b EXCEPT !.int = b.int + 1], Run("int", 4 * b.int, four))
      BY <1>2, <3>1, HardWord
    <3> QED BY <3>1, <3>2
  <2> QED BY <1>2, <1>7, <2>1
<1>9. one \in Counters /\ one.int = i + 1
  BY <1>2 DEF Counters
<1> HIDE DEF one, r
<1>10. s = Whole(end, Run("int", i4 + 4, four))
  <2>1. Armhf!ArmWord(one, four) = Whole(end, Run("int", 4 * one.int, four))
    <3>1. one.int < 4 /\ one.int + 1 = i + 2
      BY <1>6, <1>9
    <3>2. Armhf!ArmWord(one, four) = Whole([one EXCEPT !.int = one.int + 1], Run("int", 4 * one.int, four))
      BY <1>9, <3>1, HardWord
    <3> QED BY <3>1, <3>2
  <2>2. 4 * one.int = i4 + 4
    BY <1>7, <1>9
  <2> QED BY <1>7, <2>1, <2>2
<1> HIDE DEF end, s
<1>11. r.cur = one /\ r.at = Run("int", i4, four) /\ s.cur = end /\ s.at = Run("int", i4 + 4, four)
  BY <1>8, <1>10 DEF Whole
<1>12. Armhf!ArmWord(r.cur, 4) = s
  BY <1>11 DEF s
<1>13. r.at \o s.at = Run("int", i4, 8)
  <2>1. PICK m \in Nat : m = 4 /\ m + m = 8
    OBVIOUS
  <2>2. Run("int", i4, m + m) = Run("int", i4, m) \o Run("int", i4 + m, m)
    BY RunTwice, Zenon
  <2> QED BY <1>7, <1>11, <2>1, <2>2
<1> QED BY <1>4, <1>5, <1>7, <1>11, <1>12, <1>13

LEMMA HardTwoInMemory ==
  ASSUME NEW c \in Counters, c.int \in {3, 4}, NEW base \in Nat, base = Armhf!RoundUp(c.stack, 8)
  PROVE  LET d == [c EXCEPT !.int = 4]
         IN  Armhf!TwoWords(c) = Whole([d EXCEPT !.stack = base + 8], Run("stack", base, 8))
<1> DEFINE d == [c EXCEPT !.int = 4]
           b == [d EXCEPT !.stack = base]
           r == Armhf!ArmWord(b, 4)
           one == [b EXCEPT !.stack = base + 4]
           s == Armhf!ArmWord(one, 4)
           end == [one EXCEPT !.stack = base + 8]
<1>1. d \in Counters /\ d.int = 4 /\ d.stack = c.stack
  BY DEF Counters
<1>2. Armhf!ArmAlign64(c) = b
  <2>1. CASE c.int = 3
    <3>1. Armhf!RoundUp(c.int, 2) = 4 /\ c.int < 4
      BY <2>1 DEF Armhf!RoundUp
    <3>2. Armhf!ArmAlign64(c) = Armhf!Aligned(d, 8)
      BY <1>1, <3>1 DEF Armhf!ArmAlign64
    <3> QED BY <1>1, <3>2 DEF Armhf!Aligned
  <2>2. CASE c.int = 4
    <3>1. c = d
      BY <2>2 DEF Counters
    <3>2. Armhf!ArmAlign64(c) = Armhf!Aligned(c, 8)
      BY <2>2 DEF Armhf!ArmAlign64
    <3> QED BY <1>1, <3>1, <3>2 DEF Armhf!Aligned
  <2> QED BY <2>1, <2>2
<1> HIDE DEF d
<1>3. b \in Counters /\ b.int = 4 /\ b.stack = base
  BY <1>1 DEF Counters
<1>4. end = [d EXCEPT !.stack = base + 8]
  BY <1>1, StackTwice
<1>5. Armhf!TwoWords(c) = Whole(Armhf!ArmWord(r.cur, 4).cur, r.at \o Armhf!ArmWord(r.cur, 4).at)
  BY <1>2 DEF Armhf!TwoWords, Armhf!Then, Armhf!Placed, Whole
<1>6. PICK four \in Int : four = 4
  OBVIOUS
<1> HIDE DEF b
<1>7. r = Whole(one, Run("stack", base, four))
  <2>1. ~(b.int < 4)
    BY <1>3
  <2>2. Armhf!ArmWord(b, four) = Whole([b EXCEPT !.stack = b.stack + 4], Run("stack", b.stack, four))
    BY <1>3, <2>1, HardWord
  <2> QED BY <1>3, <1>6, <2>2
<1>8. one \in Counters /\ one.int = 4 /\ one.stack = base + 4
  BY <1>3 DEF Counters
<1> HIDE DEF one, r
<1>9. s = Whole(end, Run("stack", base + 4, four))
  <2>1. ~(one.int < 4) /\ one.stack + 4 = base + 8
    BY <1>8
  <2>2. Armhf!ArmWord(one, four) = Whole([one EXCEPT !.stack = one.stack + 4], Run("stack", one.stack, four))
    BY <1>8, <2>1, HardWord
  <2> QED BY <1>6, <1>8, <2>1, <2>2
<1> HIDE DEF end, s
<1>10. r.cur = one /\ r.at = Run("stack", base, four) /\ s.cur = end /\ s.at = Run("stack", base + 4, four)
  BY <1>7, <1>9 DEF Whole
<1>11. Armhf!ArmWord(r.cur, 4) = s
  BY <1>10 DEF s
<1>12. r.at \o s.at = Run("stack", base, 8)
  <2>1. PICK m \in Nat : m = 4 /\ m + m = 8
    OBVIOUS
  <2>2. Run("stack", base, m + m) = Run("stack", base, m) \o Run("stack", base + m, m)
    BY RunTwo
  <2> QED BY <1>6, <1>10, <2>1, <2>2
<1> QED BY <1>4, <1>5, <1>10, <1>11, <1>12 DEF d

LEMMA HardRoundUp ==
  ASSUME NEW n \in Nat
  PROVE  /\ Armhf!RoundUp(n, 8) \in Nat /\ n <= Armhf!RoundUp(n, 8)
BY DEF Armhf!RoundUp

\* A value in memory, when the core registers are full.
LEMMA HardMemory ==
  ASSUME NEW p, NEW g, Linked("armhf", p, g), NEW d, NEW e, Linked("armhf", d, e), d.int = 16,
         \A k \in Nat : k >= d.aux \/ k = d.float => k >= p.aux \/ k = p.float,
         NEW base \in Nat, p.stack <= base, NEW n \in Int, base + n <= d.stack, p.stack <= d.stack
  PROVE  Agreed("armhf", p, Whole(d, Run("stack", base, n)), Whole(e, Run("stack", base, n)))
<1>1. /\ p \in Counters /\ d \in Counters /\ p.hidden = -1 /\ d.hidden = -1 /\ p.int <= d.int
      /\ p.stack \in Nat /\ d.stack \in Nat
  BY Typed, HardLinked DEF HardLink
<1>2. Onward("armhf", p, d)
  BY <1>1, HardOnward
<1>3. Fresh("armhf", p, d, Run("stack", base, n))
  BY <1>1, HardMarks, StackFresh
<1> QED BY <1>2, <1>3 DEF Agreed, Moves, Whole

LEMMA HardInt ==
  ASSUME NEW p, NEW g, Linked("armhf", p, g), NEW n \in Int, n <= 4
  PROVE  Agreed("armhf", p, Armhf!PutInt(p, n), Armhf!ArmWord(g, n))
<1>1. /\ p \in Counters /\ g \in Counters /\ p.hidden = -1 /\ g.hidden = -1 /\ HardLink(p, g)
      /\ p.stack \in Nat /\ g.stack = p.stack /\ p.int \in Nat /\ g.int \in Nat
      /\ p.int = 4 * g.int /\ p.int <= 16
  BY Typed, HardLinked DEF HardLink
<1>2. CASE p.int < 16
  <2>1. PICK i \in Nat, j \in Nat, at \in Nat : i = g.int /\ j = i + 1 /\ at = 4 * i
    BY <1>1
  <2> DEFINE d == [p EXCEPT !.int = at + 4]
             e == [g EXCEPT !.int = i + 1]
  <2>2. i < 4 /\ p.int = at
    BY <1>1, <1>2, <2>1
  <2>3. Armhf!PutInt(p, n) = Whole(d, Run("int", at, n))
    BY <1>2, <2>2, HardBytes DEF Armhf!PutInt, Armhf!Placed, Whole
  <2>4. Armhf!ArmWord(g, n) = Whole(e, Run("int", at, n))
    BY <1>1, <2>1, <2>2, HardWord
  <2>5. /\ d \in Counters /\ d.int = at + 4 /\ d.float = p.float /\ d.stack = p.stack /\ d.aux = p.aux /\ d.hidden = -1
        /\ e \in Counters /\ e.int = i + 1 /\ e.float = g.float /\ e.stack = g.stack /\ e.aux = g.aux /\ e.hidden = -1
    <3>1. p \in Counters /\ g \in Counters /\ p.hidden = -1 /\ g.hidden = -1 /\ at + 4 \in Nat /\ i + 1 \in Nat
      BY <1>1
    <3> QED BY <3>1 DEF Counters
  <2> HIDE DEF d, e
  <2>6. HardLink(d, e)
    BY <1>1, <2>1, <2>2, <2>5 DEF HardLink
  <2>7. Linked("armhf", d, e)
    BY <2>5, <2>6, HardLinked
  <2>8. Onward("armhf", p, d)
    <3>1. p.int <= d.int /\ p.stack <= d.stack
      BY <1>1, <2>2, <2>5
    <3> QED BY <1>1, <2>5, <3>1, HardOnward
  <2>9. Fresh("armhf", p, d, Run("int", at, n))
    <3>1. p.int <= 4 * i /\ d.int = 4 * j /\ 4 * i <= at /\ at + n <= 4 * j
      BY <2>1, <2>2, <2>5
    <3> QED BY <1>1, <3>1, HardIntFresh
  <2> QED BY <2>3, <2>4, <2>7, <2>8, <2>9 DEF Agreed, Moves, Whole
<1>3. CASE ~(p.int < 16)
  <2> DEFINE d == [p EXCEPT !.stack = @ + 4]
             e == [g EXCEPT !.stack = @ + 4]
  <2>1. PICK at \in Nat : at = p.stack
    BY <1>1
  <2>2. p.int = 16 /\ g.int = 4 /\ ~(g.int < 4)
    BY <1>1, <1>3
  <2>3. Armhf!PutInt(p, n) = Whole(d, Run("stack", at, n))
    BY <1>3, <2>1, HardBytes DEF Armhf!PutInt, Armhf!OnStack, Armhf!Low, Armhf!Placed, Whole
  <2>4. Armhf!ArmWord(g, n) = Whole(e, Run("stack", at, n))
    BY <1>1, <2>1, <2>2, HardWord
  <2>5. /\ d \in Counters /\ d.int = 16 /\ d.float = p.float /\ d.stack = at + 4 /\ d.aux = p.aux /\ d.hidden = -1
        /\ e \in Counters /\ e.int = 4 /\ e.float = g.float /\ e.stack = at + 4 /\ e.aux = g.aux /\ e.hidden = -1
    BY <1>1, <2>1, <2>2 DEF Counters
  <2> HIDE DEF d, e
  <2>6. HardLink(d, e)
    BY <1>1, <2>5 DEF HardLink
  <2>7. Linked("armhf", d, e)
    BY <2>5, <2>6, HardLinked
  <2>8. Agreed("armhf", p, Whole(d, Run("stack", at, n)), Whole(e, Run("stack", at, n)))
    <3>1. p.stack <= at /\ at + n <= d.stack /\ p.stack <= d.stack
      BY <1>1, <2>1, <2>5
    <3> QED BY <2>5, <2>7, <3>1, HardMemory
  <2> QED BY <2>3, <2>4, <2>8
<1> QED BY <1>2, <1>3

LEMMA HardLongLong ==
  ASSUME NEW p, NEW g, Linked("armhf", p, g)
  PROVE  Agreed("armhf", p, Armhf!PutLongLong(p), Armhf!TwoWords(g))
<1>1. /\ p \in Counters /\ g \in Counters /\ p.hidden = -1 /\ g.hidden = -1 /\ HardLink(p, g)
      /\ p.stack \in Nat /\ g.stack = p.stack /\ p.int \in Nat /\ g.int \in Nat
      /\ p.int = 4 * g.int /\ g.int <= 4
  BY Typed, HardLinked DEF HardLink
<1>2. PICK i \in Nat : i = Armhf!RoundUp(g.int, 2) /\ g.int <= i
  BY <1>1 DEF Armhf!RoundUp
<1>3. 8 * ((p.int + 4) \div 8) = 4 * i
  BY <1>1, <1>2 DEF Armhf!RoundUp
<1>4. PICK n \in Int : n = 8
  OBVIOUS
<1>5. CASE i < 4
  <2> DEFINE d == [p EXCEPT !.int = 4 * i + 8]
             e == [g EXCEPT !.int = i + 2]
  <2>1. PICK j \in Nat, at \in Nat : j = i + 2 /\ at = 4 * i /\ j <= 4
    BY <1>1, <1>2, <1>5 DEF Armhf!RoundUp
  <2>2. Armhf!PutLongLong(p) = Whole(d, Run("int", at, n))
    BY <1>3, <1>4, <1>5, <2>1, HardBytes DEF Armhf!PutLongLong, Armhf!Placed, Whole
  <2>3. Armhf!TwoWords(g) = Whole(e, Run("int", at, n))
    BY <1>1, <1>2, <1>4, <1>5, <2>1, HardTwoWords
  <2>4. /\ d \in Counters /\ d.int = 4 * j /\ d.float = p.float /\ d.stack = p.stack /\ d.aux = p.aux /\ d.hidden = -1
        /\ e \in Counters /\ e.int = j /\ e.float = g.float /\ e.stack = g.stack /\ e.aux = g.aux /\ e.hidden = -1
    BY <1>1, <2>1 DEF Counters
  <2> HIDE DEF d, e
  <2>5. HardLink(d, e)
    BY <1>1, <2>1, <2>4 DEF HardLink
  <2>6. Linked("armhf", d, e)
    BY <2>4, <2>5, HardLinked
  <2>7. p.int <= 4 * i /\ p.int <= d.int
    BY <1>1, <1>2, <2>1, <2>4
  <2>8. Onward("armhf", p, d)
    <3>1. p.stack <= d.stack
      BY <1>1, <2>4
    <3> QED BY <1>1, <2>4, <2>7, <3>1, HardOnward
  <2>9. Fresh("armhf", p, d, Run("int", at, n))
    <3>1. 4 * i <= at /\ at + n <= 4 * j
      BY <1>4, <2>1
    <3> QED BY <1>1, <2>4, <2>7, <3>1, HardIntFresh
  <2> QED BY <2>2, <2>3, <2>6, <2>8, <2>9 DEF Agreed, Moves, Whole
<1>6. CASE ~(i < 4)
  <2>1. g.int \in {3, 4} /\ i = 4
    BY <1>1, <1>2, <1>6 DEF Armhf!RoundUp
  <2>2. PICK base \in Nat : base = Armhf!RoundUp(p.stack, 8) /\ p.stack <= base
    BY <1>1, HardRoundUp
  <2> DEFINE a == [p EXCEPT !.int = 16]
             b == [g EXCEPT !.int = 4]
             c == [a EXCEPT !.stack = base]
             d == [a EXCEPT !.stack = base + 8]
             e == [b EXCEPT !.stack = base + 8]
  <2>3. a \in Counters /\ a.int = 16 /\ a.float = p.float /\ a.stack = p.stack /\ a.aux = p.aux /\ a.hidden = -1
    BY <1>1 DEF Counters
  <2>4. Armhf!PutLongLong(p) = Armhf!OnStack(Armhf!Aligned(a, 8), 8, 8)
    BY <1>3, <2>1 DEF Armhf!PutLongLong
  <2>5. Armhf!TwoWords(g) = Whole(e, Run("stack", base, n))
    BY <1>1, <1>4, <2>1, <2>2, HardTwoInMemory
  <2>6. b \in Counters /\ b.int = 4 /\ b.float = g.float /\ b.stack = g.stack /\ b.aux = g.aux /\ b.hidden = -1
    BY <1>1 DEF Counters
  <2> HIDE DEF a, b
  <2>7. Armhf!Aligned(a, 8) = c /\ c.stack = base /\ [c EXCEPT !.stack = base + 8] = d
    <3>1. Armhf!Aligned(a, 8) = c
      BY <2>2, <2>3 DEF Armhf!Aligned
    <3>2. c.stack = base /\ [c EXCEPT !.stack = base + 8] = d
      BY <2>3, StackTwice
    <3> QED BY <3>1, <3>2
  <2>8. Armhf!OnStack(c, 8, 8) = Whole(d, Run("stack", base, n))
    BY <1>4, <2>7, HardBytes DEF Armhf!OnStack, Armhf!Low, Armhf!Placed, Whole
  <2>9. /\ d \in Counters /\ d.int = 16 /\ d.float = p.float /\ d.stack = base + 8 /\ d.aux = p.aux /\ d.hidden = -1
        /\ e \in Counters /\ e.int = 4 /\ e.float = g.float /\ e.stack = base + 8 /\ e.aux = g.aux /\ e.hidden = -1
    BY <2>3, <2>6 DEF Counters
  <2> HIDE DEF c, d, e
  <2>10. HardLink(d, e)
    BY <1>1, <2>9 DEF HardLink
  <2>11. Linked("armhf", d, e)
    BY <2>9, <2>10, HardLinked
  <2>12. Agreed("armhf", p, Whole(d, Run("stack", base, n)), Whole(e, Run("stack", base, n)))
    <3>1. base + n <= d.stack /\ p.stack <= d.stack
      BY <1>1, <1>4, <2>2, <2>9
    <3> QED BY <2>2, <2>9, <2>11, <3>1, HardMemory
  <2> QED BY <2>4, <2>5, <2>7, <2>8, <2>12
<1> QED BY <1>5, <1>6

\* Where the float goes to, and what is free after it.
LEMMA HardFloatCount ==
  ASSUME NEW f \in Nat, NEW a \in Nat, NEW x \in Nat, f < 16, a <= 16, a % 2 = 0,
         a = IF x < f THEN 2 * ((f + 1) \div 2) ELSE x,
         f = a \/ (f % 2 = 1 /\ f < a)
  PROVE  IF a < f + 1
           THEN /\ f = a /\ f % 2 = 0 /\ x <= f /\ (f + 1) % 2 # 0
                /\ 2 * ((f + 1 + 2 - 1) \div 2) = a + 2 /\ a + 2 <= 16 /\ a + 2 \in Nat /\ (a + 2) % 2 = 0
                /\ 2 * ((f + 1 + 1) \div 2) = a + 2
           ELSE /\ f % 2 = 1 /\ (f + 1) % 2 = 0
                /\ (IF f + 1 < x THEN x ELSE f + 1) = a
                /\ a = IF x < a THEN 2 * ((a + 1) \div 2) ELSE x
<1>1. CASE a < f + 1
  <2>1. f = a
    BY <1>1
  <2>2. PICK h \in Nat : a = 2 * h
    <3>1. a \div 2 \in Nat /\ a = 2 * (a \div 2)
      OBVIOUS
    <3> QED BY <3>1
  <2>3. (f + 1) % 2 # 0 /\ 2 * ((f + 2) \div 2) = a + 2 /\ a + 2 <= 16 /\ (a + 2) % 2 = 0
    BY <2>1, <2>2
  <2>4. x <= f
    BY <2>1
  <2> QED BY <1>1, <2>1, <2>3, <2>4
<1>2. CASE ~(a < f + 1)
  <2>1. f % 2 = 1 /\ f < a
    BY <1>2
  <2>2. (f + 1) % 2 = 0 /\ 2 * ((f + 1) \div 2) = f + 1 /\ 2 * ((a + 1) \div 2) = a
    BY <2>1
  <2>3. CASE x < f
    <3>1. a = f + 1
      BY <2>2, <2>3
    <3> QED BY <1>2, <2>1, <2>2, <2>3, <3>1
  <2>4. CASE ~(x < f)
    <3>1. a = x /\ f + 1 <= x
      BY <2>1, <2>4
    <3> QED BY <1>2, <2>1, <2>2, <2>4, <3>1
  <2> QED BY <2>3, <2>4
<1> QED BY <1>1, <1>2

LEMMA HardFloat ==
  ASSUME NEW p, NEW g, Linked("armhf", p, g), p.int < 16 => ~(p.float >= 16)
  PROVE  Agreed("armhf", p, Armhf!PutFloat(p), Armhf!ArmFloat(g))
<1>1. /\ p \in Counters /\ g \in Counters /\ p.hidden = -1 /\ g.hidden = -1 /\ HardLink(p, g)
      /\ p.stack \in Nat /\ g.stack = p.stack /\ p.int \in Nat /\ p.int <= 16 /\ g.int \in Nat
      /\ p.float \in Nat /\ g.float = p.float /\ p.float <= 16
      /\ p.aux \in Nat /\ g.aux \in Nat /\ p.aux <= 16 /\ p.aux % 2 = 0 /\ p.int = 4 * g.int
      /\ p.aux = IF g.aux < p.float THEN 2 * ((p.float + 1) \div 2) ELSE g.aux
      /\ p.float = 16 \/ p.float = p.aux \/ (p.float % 2 = 1 /\ p.float < p.aux)
  BY Typed, HardLinked DEF HardLink
<1>2. PICK four \in Int : four = 4
  OBVIOUS
<1>3. CASE p.float < 16
  <2>1. PICK f \in Nat, a \in Nat, x \in Nat, at \in Nat :
          f = p.float /\ a = p.aux /\ x = g.aux /\ at = 4 * f /\ f < 16
    BY <1>1, <1>3
  <2>2. IF a < f + 1
          THEN /\ f = a /\ f % 2 = 0 /\ x <= f /\ (f + 1) % 2 # 0
               /\ 2 * ((f + 1 + 2 - 1) \div 2) = a + 2 /\ a + 2 <= 16 /\ a + 2 \in Nat /\ (a + 2) % 2 = 0
               /\ 2 * ((f + 1 + 1) \div 2) = a + 2
          ELSE /\ f % 2 = 1 /\ (f + 1) % 2 = 0
               /\ (IF f + 1 < x THEN x ELSE f + 1) = a
               /\ a = IF x < a THEN 2 * ((a + 1) \div 2) ELSE x
    BY <1>1, <2>1, HardFloatCount
  <2>3. CASE a < f + 1
    <3> DEFINE c == [p EXCEPT !.float = f + 1]
               d == [c EXCEPT !.aux = a + 2]
               e == [g EXCEPT !.float = f + 1]
    <3>1. Armhf!PutFloat(p) = Whole(d, Run("float", at, four))
      <4>1. Armhf!RoundUp(p.float + 1, 2) = a + 2
        BY <2>1, <2>2, <2>3 DEF Armhf!RoundUp
      <4>2. p.aux < p.float + 1
        BY <2>1, <2>3
      <4> QED BY <1>2, <1>3, <2>1, <4>1, <4>2, HardBytes DEF Armhf!PutFloat, Armhf!Placed, Whole
    <3>2. Armhf!ArmFloat(g) = Whole(e, Run("float", at, four))
      <4>1. ~Armhf!Even(g.float + 1)
        BY <1>1, <2>1, <2>2, <2>3 DEF Armhf!Even
      <4> QED BY <1>1, <1>2, <1>3, <2>1, <4>1, HardBytes DEF Armhf!ArmFloat, Armhf!HardFloat, Armhf!Placed, Whole
    <3>3. c \in Counters /\ c.int = p.int /\ c.float = f + 1 /\ c.stack = p.stack /\ c.hidden = -1
      BY <1>1, <2>1 DEF Counters
    <3> HIDE DEF c
    <3>4. /\ d \in Counters /\ d.int = p.int /\ d.float = f + 1 /\ d.stack = p.stack /\ d.aux = a + 2 /\ d.hidden = -1
          /\ e \in Counters /\ e.int = g.int /\ e.float = f + 1 /\ e.stack = g.stack /\ e.aux = x /\ e.hidden = -1
      BY <1>1, <2>1, <2>2, <2>3, <3>3 DEF Counters
    <3> HIDE DEF d, e
    <3>5. HardLink(d, e)
      <4>1. a + 2 = (IF x < f + 1 THEN 2 * ((f + 1 + 1) \div 2) ELSE x)
        BY <2>2, <2>3
      <4>2. (f + 1) % 2 = 1 /\ f + 1 < a + 2 /\ f + 1 <= 16
        BY <2>1, <2>2, <2>3
      <4> QED BY <1>1, <2>1, <2>2, <2>3, <3>4, <4>1, <4>2 DEF HardLink
    <3>6. Linked("armhf", d, e)
      BY <3>4, <3>5, HardLinked
    <3>7. Onward("armhf", p, d)
      <4>1. \A k \in Nat : k >= d.aux \/ k = d.float => k >= p.aux \/ k = p.float
        BY <2>1, <2>2, <2>3, <3>4
      <4> QED BY <1>1, <3>4, <4>1, HardOnward
    <3>8. Fresh("armhf", p, d, Run("float", at, four))
      <4>1. PICK j \in Nat : j = f + 1
        OBVIOUS
      <4>2. HardTaken(p, d, f, j)
        BY <2>1, <2>2, <2>3, <3>4, <4>1 DEF HardTaken
      <4>3. 4 * f <= at /\ at + four <= 4 * j
        BY <1>2, <2>1, <4>1
      <4> QED BY <4>2, <4>3, HardFloatFresh
    <3> QED BY <3>1, <3>2, <3>6, <3>7, <3>8 DEF Agreed, Moves, Whole
  <2>4. CASE ~(a < f + 1)
    <3> DEFINE d == [p EXCEPT !.float = a]
               e == [g EXCEPT !.float = a]
    <3>1. Armhf!PutFloat(p) = Whole(d, Run("float", at, four))
      <4>1. ~(p.aux < p.float + 1)
        BY <2>1, <2>4
      <4> QED BY <1>2, <1>3, <2>1, <4>1, HardBytes DEF Armhf!PutFloat, Armhf!Placed, Whole
    <3>2. Armhf!ArmFloat(g) = Whole(e, Run("float", at, four))
      <4>1. Armhf!Even(g.float + 1) /\ (IF g.float + 1 < g.aux THEN g.aux ELSE g.float + 1) = a
        BY <1>1, <2>1, <2>2, <2>4 DEF Armhf!Even
      <4>2. (IF Armhf!Even(g.float + 1) /\ g.float + 1 < g.aux THEN g.aux ELSE g.float + 1) = a
        BY <4>1
      <4> QED BY <1>1, <1>2, <1>3, <2>1, <4>2, HardBytes DEF Armhf!ArmFloat, Armhf!HardFloat, Armhf!Placed, Whole
    <3>3. /\ d \in Counters /\ d.int = p.int /\ d.float = a /\ d.stack = p.stack /\ d.aux = a /\ d.hidden = -1
          /\ e \in Counters /\ e.int = g.int /\ e.float = a /\ e.stack = g.stack /\ e.aux = x /\ e.hidden = -1
      BY <1>1, <2>1 DEF Counters
    <3> HIDE DEF d, e
    <3>4. HardLink(d, e)
      <4>1. a = (IF x < a THEN 2 * ((a + 1) \div 2) ELSE x)
        BY <2>2, <2>4
      <4> QED BY <1>1, <2>1, <3>3, <4>1 DEF HardLink
    <3>5. Linked("armhf", d, e)
      BY <3>3, <3>4, HardLinked
    <3>6. Onward("armhf", p, d)
      <4>1. \A k \in Nat : k >= d.aux \/ k = d.float => k >= p.aux \/ k = p.float
        BY <2>1, <3>3
      <4> QED BY <1>1, <3>3, <4>1, HardOnward
    <3>7. Fresh("armhf", p, d, Run("float", at, four))
      <4>1. PICK j \in Nat : j = f + 1
        OBVIOUS
      <4>2. HardTaken(p, d, f, j)
        BY <2>1, <2>4, <3>3, <4>1 DEF HardTaken
      <4>3. 4 * f <= at /\ at + four <= 4 * j
        BY <1>2, <2>1, <4>1
      <4> QED BY <4>2, <4>3, HardFloatFresh
    <3> QED BY <3>1, <3>2, <3>5, <3>6, <3>7 DEF Agreed, Moves, Whole
  <2> QED BY <2>3, <2>4
<1>4. CASE ~(p.float < 16)
  <2>1. p.int = 16 /\ ~(p.int < 16)
    BY <1>1, <1>4
  <2>2. Armhf!PutFloat(p) = Armhf!PutInt(p, four)
    BY <1>1, <1>2, <1>4, <2>1 DEF Armhf!PutFloat, Armhf!PutInt
  <2>3. Armhf!ArmFloat(g) = Armhf!ArmWord(g, four)
    BY <1>1, <1>2, <1>4 DEF Armhf!ArmFloat
  <2>4. Agreed("armhf", p, Armhf!PutInt(p, four), Armhf!ArmWord(g, four))
    BY <1>2, HardInt
  <2> QED BY <2>2, <2>3, <2>4
<1> QED BY <1>3, <1>4

\* The callee's counter of double registers, brought up to date.
LEMMA HardCounted ==
  ASSUME NEW g, NEW a \in Nat, (IF g.aux < g.float THEN Armhf!RoundUp(g.float, 2) ELSE g.aux) = a
  PROVE  /\ a < 16 => Armhf!ArmDouble(g) = Armhf!Placed([g EXCEPT !.aux = a + 2, !.float = IF Armhf!Even(g.float) THEN a + 2 ELSE g.float],
                                                      Armhf!Bytes("float", 4 * a, 8))
         /\ a >= 16 => Armhf!ArmDouble(g) = Armhf!TwoWords([g EXCEPT !.aux = a, !.float = 16])
<1> DEFINE d == IF g.aux < g.float THEN Armhf!RoundUp(g.float, 2) ELSE g.aux
<1>1. Armhf!ArmDouble(g) =
        IF d < 16 THEN Armhf!Placed([g EXCEPT !.aux = d + 2, !.float = IF Armhf!Even(g.float) THEN d + 2 ELSE g.float],
                                    Armhf!Bytes("float", 4 * d, 8))
                  ELSE Armhf!TwoWords([g EXCEPT !.aux = d, !.float = 16])
  <2>1. d < 16 \/ d >= 16
    OBVIOUS
  <2>2. CASE d < 16
    BY <2>2 DEF Armhf!ArmDouble, Armhf!HardFloat
  <2>3. CASE ~(d < 16)
    BY <2>1, <2>3 DEF Armhf!ArmDouble, Armhf!HardFloat
  <2> QED BY <2>2, <2>3
<1>2. d = a
  OBVIOUS
<1> HIDE DEF d
<1> QED BY <1>1, <1>2

LEMMA HardDouble ==
  ASSUME NEW p, NEW g, Linked("armhf", p, g), p.int < 16 => ~(p.aux >= 16)
  PROVE  Agreed("armhf", p, Armhf!PutDouble(p), Armhf!ArmDouble(g))
<1>1. /\ p \in Counters /\ g \in Counters /\ p.hidden = -1 /\ g.hidden = -1 /\ HardLink(p, g)
      /\ p.stack \in Nat /\ g.stack = p.stack /\ p.int \in Nat /\ p.int <= 16 /\ g.int \in Nat
      /\ p.float \in Nat /\ g.float = p.float /\ p.float <= 16
      /\ p.aux \in Nat /\ g.aux \in Nat /\ p.aux <= 16 /\ p.aux % 2 = 0 /\ p.int = 4 * g.int
      /\ p.aux = IF g.aux < p.float THEN 2 * ((p.float + 1) \div 2) ELSE g.aux
      /\ p.float = 16 \/ p.float = p.aux \/ (p.float % 2 = 1 /\ p.float < p.aux)
  BY Typed, HardLinked DEF HardLink
<1>2. PICK eight \in Int : eight = 8
  OBVIOUS
<1>3. (IF g.aux < g.float THEN Armhf!RoundUp(g.float, 2) ELSE g.aux) = p.aux
  BY <1>1 DEF Armhf!RoundUp
<1>4. CASE p.aux < 16
  <2>1. PICK f \in Nat, a \in Nat, b \in Nat, at \in Nat :
          f = p.float /\ a = p.aux /\ b = a + 2 /\ at = 4 * a /\ a < 16
    BY <1>1, <1>4
  <2>2. /\ f % 2 = 0 => f = a
        /\ f % 2 # 0 => f < a
        /\ b % 2 = 0 /\ b <= 16
    <3>1. f # 16
      BY <1>1, <2>1
    <3> QED BY <1>1, <2>1, <3>1
  <2>3. PICK h \in Nat : h = (IF f % 2 = 0 THEN b ELSE f) /\ (h = b \/ (h % 2 = 1 /\ h < a /\ h = f)) /\ h <= b
    BY <2>1, <2>2
  <2> DEFINE c == [p EXCEPT !.aux = b]
             d == [c EXCEPT !.float = h]
             x == [g EXCEPT !.aux = b]
             e == [x EXCEPT !.float = h]
  <2>4. Armhf!PutDouble(p) = Whole(d, Run("float", at, eight))
    <3>1. p.aux + 2 = b /\ (IF Armhf!Even(p.float) THEN p.aux + 2 ELSE p.float) = h /\ c.float = p.float
      BY <1>1, <2>1, <2>3 DEF Armhf!Even, Counters
    <3> QED BY <1>2, <1>4, <2>1, <3>1, HardBytes DEF Armhf!PutDouble, Armhf!Placed, Whole
  <2>5. Armhf!ArmDouble(g) = Whole(e, Run("float", at, eight))
    <3>1. /\ p.aux + 2 = b /\ (IF Armhf!Even(g.float) THEN p.aux + 2 ELSE g.float) = h /\ x.float = g.float
          /\ 4 * p.aux = at
      BY <1>1, <2>1, <2>3 DEF Armhf!Even, Counters
    <3>2. Armhf!ArmDouble(g) = Whole([[g EXCEPT !.aux = p.aux + 2] EXCEPT !.float = IF Armhf!Even(g.float) THEN p.aux + 2 ELSE g.float],
                                     Run("float", 4 * p.aux, eight))
      BY <1>1, <1>2, <1>3, <1>4, HardBytes, HardCounted DEF Armhf!Placed, Whole
    <3> QED BY <3>1, <3>2
  <2>6. /\ c \in Counters /\ c.int = p.int /\ c.float = p.float /\ c.stack = p.stack /\ c.aux = b /\ c.hidden = -1
        /\ x \in Counters /\ x.int = g.int /\ x.float = g.float /\ x.stack = g.stack /\ x.aux = b /\ x.hidden = -1
    BY <1>1 DEF Counters
  <2> HIDE DEF c, x
  <2>7. /\ d \in Counters /\ d.int = p.int /\ d.float = h /\ d.stack = p.stack /\ d.aux = b /\ d.hidden = -1
        /\ e \in Counters /\ e.int = g.int /\ e.float = h /\ e.stack = g.stack /\ e.aux = b /\ e.hidden = -1
    BY <2>6 DEF Counters
  <2> HIDE DEF d, e
  <2>8. HardLink(d, e)
    <3>1. ~(b < h) /\ h <= 16 /\ (h = b \/ (h % 2 = 1 /\ h < b))
      BY <2>1, <2>2, <2>3
    <3> QED BY <1>1, <2>2, <2>7, <3>1 DEF HardLink
  <2>9. Linked("armhf", d, e)
    BY <2>7, <2>8, HardLinked
  <2>10. Onward("armhf", p, d)
    <3>1. \A k \in Nat : k >= d.aux \/ k = d.float => k >= p.aux \/ k = p.float
      BY <2>1, <2>3, <2>7
    <3> QED BY <1>1, <2>7, <3>1, HardOnward
  <2>11. Fresh("armhf", p, d, Run("float", at, eight))
    <3>1. HardTaken(p, d, a, b)
      BY <2>1, <2>3, <2>7 DEF HardTaken
    <3>2. 4 * a <= at /\ at + eight <= 4 * b
      BY <1>2, <2>1
    <3> QED BY <3>1, <3>2, HardFloatFresh
  <2> QED BY <2>4, <2>5, <2>9, <2>10, <2>11 DEF Agreed, Moves, Whole
<1>5. CASE ~(p.aux < 16)
  <2>1. p.int = 16 /\ p.aux = 16 /\ g.int = 4
    BY <1>1, <1>5
  <2>2. PICK base \in Nat : base = Armhf!RoundUp(p.stack, 8) /\ p.stack <= base
    BY <1>1, HardRoundUp
  <2> DEFINE a == [p EXCEPT !.float = 16]
             c == [a EXCEPT !.stack = base]
             d == [a EXCEPT !.stack = base + 8]
             x == [g EXCEPT !.aux = 16]
             y == [x EXCEPT !.float = 16]
             z == [y EXCEPT !.int = 4]
             e == [z EXCEPT !.stack = base + 8]
  <2>3. Armhf!PutDouble(p) = Armhf!OnStack(Armhf!Aligned(a, 8), 8, 8)
    BY <1>5 DEF Armhf!PutDouble
  <2>4. Armhf!ArmDouble(g) = Armhf!TwoWords(y)
    <3>1. (IF g.aux < g.float THEN Armhf!RoundUp(g.float, 2) ELSE g.aux) = 16
      BY <1>3, <2>1
    <3>2. PICK m \in Nat : m = 16 /\ m >= 16
      OBVIOUS
    <3>3. Armhf!ArmDouble(g) = Armhf!TwoWords([g EXCEPT !.aux = m, !.float = 16])
      BY <3>1, <3>2, HardCounted
    <3> QED BY <3>2, <3>3
  <2>5. /\ a \in Counters /\ a.int = 16 /\ a.float = 16 /\ a.stack = p.stack /\ a.aux = 16 /\ a.hidden = -1
        /\ x \in Counters /\ x.int = 4 /\ x.float = g.float /\ x.stack = g.stack /\ x.aux = 16 /\ x.hidden = -1
    BY <1>1, <2>1 DEF Counters
  <2> HIDE DEF a, x
  <2>6. y \in Counters /\ y.int = 4 /\ y.float = 16 /\ y.stack = g.stack /\ y.aux = 16 /\ y.hidden = -1
    BY <2>5 DEF Counters
  <2> HIDE DEF y
  <2>7. z \in Counters /\ z.int = 4 /\ z.float = 16 /\ z.stack = g.stack /\ z.aux = 16 /\ z.hidden = -1
    BY <2>6 DEF Counters
  <2>8. Armhf!TwoWords(y) = Whole(e, Run("stack", base, eight))
    <3>1. base = Armhf!RoundUp(y.stack, 8) /\ y.int \in {3, 4}
      BY <1>1, <2>2, <2>6
    <3> QED BY <1>2, <2>6, <3>1, HardTwoInMemory
  <2> HIDE DEF z
  <2>9. Armhf!Aligned(a, 8) = c
    BY <2>2, <2>5 DEF Armhf!Aligned
  <2>10. c.stack = base /\ [c EXCEPT !.stack = base + 8] = d
    BY <2>5, StackTwice
  <2> HIDE DEF c
  <2>11. Armhf!OnStack(c, 8, 8) = Whole(d, Run("stack", base, eight))
    BY <1>2, <2>10, HardBytes DEF Armhf!OnStack, Armhf!Low, Armhf!Placed, Whole
  <2>12. /\ d \in Counters /\ d.int = 16 /\ d.float = 16 /\ d.stack = base + 8 /\ d.aux = 16 /\ d.hidden = -1
         /\ e \in Counters /\ e.int = 4 /\ e.float = 16 /\ e.stack = base + 8 /\ e.aux = 16 /\ e.hidden = -1
    BY <2>5, <2>7 DEF Counters
  <2> HIDE DEF d, e
  <2>13. HardLink(d, e)
    BY <2>12 DEF HardLink
  <2>14. Linked("armhf", d, e)
    BY <2>12, <2>13, HardLinked
  <2>15. Agreed("armhf", p, Whole(d, Run("stack", base, eight)), Whole(e, Run("stack", base, eight)))
    <3>1. base + eight <= d.stack /\ p.stack <= d.stack
      BY <1>1, <1>2, <2>2, <2>12
    <3>2. \A k \in Nat : k >= d.aux \/ k = d.float => k >= p.aux \/ k = p.float
      BY <2>1, <2>12
    <3> QED BY <2>2, <2>12, <2>14, <3>1, <3>2, HardMemory
  <2> QED BY <2>3, <2>4, <2>8, <2>9, <2>11, <2>15
<1> QED BY <1>1, <1>4, <1>5

LEMMA HardKept ==
  ASSUME NEW p, NEW g, Linked("armhf", p, g), NEW t \in Types("armhf"),
         p.int < 16 => ~Armhf!Spills(p, t)
  PROVE  Kept("armhf", p, g, t)
<1>1. t \in Scalars
  BY DEF AggrAbis, Types
<1>2. PICK n \in Int : n = Armhf!Sizes[t.type] /\ (t.type \notin {"longlong", "double"} => n <= 4)
  BY <1>1 DEF Scalars, ScalarNames, Armhf!Sizes
<1>3. Agreed("armhf", p, Armhf!PutHard(p, t), Armhf!Get(g, t))
  <2>1. CASE t.type = "float"
    <3>1. p.int < 16 => ~(p.float >= 16)
      BY <2>1 DEF Armhf!Spills
    <3>2. Armhf!PutHard(p, t) = Armhf!PutFloat(p) /\ Armhf!Get(g, t) = Armhf!ArmFloat(g)
      BY <2>1 DEF Armhf!PutHard, Armhf!Get
    <3> QED BY <3>1, <3>2, HardFloat
  <2>2. CASE t.type = "double"
    <3>1. p.int < 16 => ~(p.aux >= 16)
      BY <2>2 DEF Armhf!Spills
    <3>2. Armhf!PutHard(p, t) = Armhf!PutDouble(p) /\ Armhf!Get(g, t) = Armhf!ArmDouble(g)
      BY <2>2 DEF Armhf!PutHard, Armhf!Get
    <3> QED BY <3>1, <3>2, HardDouble
  <2>3. CASE t.type = "longlong"
    <3>1. Armhf!PutHard(p, t) = Armhf!PutLongLong(p) /\ Armhf!Get(g, t) = Armhf!TwoWords(g)
      BY <2>3 DEF Armhf!PutHard, Armhf!Get
    <3> QED BY <3>1, HardLongLong
  <2>4. CASE t.type \notin {"float", "double", "longlong"}
    <3>1. Armhf!PutHard(p, t) = Armhf!PutInt(p, n) /\ Armhf!Get(g, t) = Armhf!ArmWord(g, n)
      BY <1>2, <2>4 DEF Armhf!PutHard, Armhf!Get
    <3> QED BY <1>2, <2>4, <3>1, HardInt
  <2> QED BY <2>1, <2>2, <2>3, <2>4
<1>4. Get("armhf", g, t) = Armhf!Get(g, t) /\ Put("armhf", p, t) = Armhf!PutHard(p, t)
  BY DEF Get, Put, Armhf!Put, Armhf!HardFloat
<1> QED BY <1>3, <1>4 DEF Kept, Agreed

-----------------------------------------------------------------------------
(* All conventions but the EABI of MIPS, which has no run.                   *)

Proved == AllAbis \ {"mips_eabi"}

LEMMA KeptAll ==
  ASSUME NEW conv \in Proved, NEW p, NEW g, Linked(conv, p, g), NEW t \in Types(conv),
         conv = "this_ms" => p # Zero \/ t.type = "pointer",
         conv = "armhf" /\ p.int < 16 => ~Armhf!Spills(p, t)
  PROVE  Kept(conv, p, g, t)
<1>1. CASE conv \in AggrAbis
  BY <1>1, SysvKept, Win64Kept, Arm64Kept, Apple64Kept DEF AggrAbis
<1>2. CASE conv \in X86Abis
  BY <1>2, CdeclKept, StdKept, FastMsKept, FastGnuKept, ThisMsKept DEF X86Abis
<1>3. CASE conv \in MipsAbis
  BY <1>3, N64Kept, N64SoftKept, O32Kept, O32SoftKept DEF MipsAbis, Proved
<1>4. CASE conv \in {"riscv64", "atpcs", "eabi", "armhf"}
  BY <1>4, Riscv64Kept, AtpcsKept, EabiKept, HardKept
<1>5. CASE conv \in {"ppc32", "ppc32_darwin", "ppc64", "ppc64_elf2"}
  BY <1>5, Ppc32Kept, Ppc32DarwinKept, Ppc64Kept, Elf2Kept
<1>6. CASE conv \in {"sparc", "sparc64"}
  BY <1>6, SparcKept, Sparc64Kept
<1> QED BY <1>1, <1>2, <1>3, <1>4, <1>5, <1>6 DEF Proved, AllAbis

-----------------------------------------------------------------------------
(* What is used is what is not free.                                         *)

LEMMA MaxBelow ==
  ASSUME NEW S \in SUBSET Nat, NEW n \in S, NEW b \in Nat, \A k \in S : k <= b
  PROVE  \E m \in S : \A k \in S : k <= m
<1> DEFINE D == {b - k : k \in S}
<1>1. D \subseteq Nat /\ b - n \in D
  OBVIOUS
<1>2. PICK d \in D : \A e \in D : ~(<<e, d>> \in OpToRel(<, Nat))
  BY <1>1, WFMin, NatLessThanWellFounded, Zenon
<1>3. PICK m \in S : d = b - m
  OBVIOUS
<1>4. ASSUME NEW k \in S PROVE k <= m
  <2>1. b - k \in D /\ b - k \in Nat /\ d \in Nat
    BY <1>1
  <2>2. ~(b - k < d)
    BY <1>2, <2>1 DEF OpToRel
  <2> QED BY <1>3, <2>2
<1> QED BY <1>4

LEMMA AfterBelow ==
  ASSUME NEW n \in Nat, NEW offsets \in SUBSET Nat, NEW b \in Nat, n <= b,
         \A k \in offsets : k < b
  PROVE  After(n, offsets) \in Nat /\ After(n, offsets) <= b
<1> DEFINE S == {n} \cup {k + 1 : k \in offsets}
<1>1. S \subseteq Nat /\ n \in S /\ \A k \in S : k <= b
  OBVIOUS
<1>2. After(n, offsets) = CHOOSE m \in S : \A k \in S : k <= m
  BY DEF After
<1> HIDE DEF S
<1>3. \E m \in S : \A k \in S : k <= m
  BY <1>1, MaxBelow
<1>4. After(n, offsets) \in S
  BY <1>2, <1>3
<1> QED BY <1>1, <1>4

LEMMA CellsFresh ==
  ASSUME NEW conv, NEW c, NEW r, Moves(conv, c, r), NEW cell \in CellsOf(r)
  PROVE  /\ cell \in {"int", "float", "stack"} \X Nat
         /\ Free(conv, c, cell) /\ ~Free(conv, r.cur, cell)
<1>1. CASE \E k \in DOMAIN r.at : cell = r.at[k]
  BY <1>1 DEF Moves, Fresh
<1>2. CASE \E k \in DOMAIN r.copy : cell = r.copy[k]
  BY <1>2 DEF Moves, Fresh
<1> QED BY <1>1, <1>2 DEF CellsOf

LEMMA FilledStep ==
  ASSUME Filled, NEW r, Moves(abi, put, r), abi' = abi, put' = r.cur,
         used' = used \cup RegistersOf(r), top' = After(top, StackOf(r))
  PROVE  Filled'
<1>1. RegisterSize = Width(abi) /\ Width(abi) \in {4, 8}
  BY DEF RegisterSize, Width
<1>2. ASSUME NEW u \in RegistersOf(r)
      PROVE  u \in {"int", "float"} \X Nat /\ ~FreeRegister(abi, r.cur, u[1], u[2])
  <2>1. PICK cell \in CellsOf(r) : cell[1] # "stack" /\ u = <<cell[1], cell[2] \div RegisterSize>>
    BY DEF RegistersOf
  <2>2. cell \in {"int", "float", "stack"} \X Nat /\ ~Free(abi, r.cur, cell)
    BY <2>1, CellsFresh
  <2>3. PICK area \in {"int", "float"}, b \in Nat : cell = <<area, b>>
    BY <2>1, <2>2
  <2>4. b \div Width(abi) \in Nat
    BY <1>1
  <2> QED BY <1>1, <2>1, <2>2, <2>3, <2>4 DEF Free
<1>3. ASSUME NEW u \in used PROVE ~FreeRegister(abi, r.cur, u[1], u[2])
  <2>1. PICK area \in {"int", "float"}, k \in Nat : u = <<area, k>>
    BY DEF Filled
  <2>2. ~FreeRegister(abi, put, area, k)
    BY <2>1 DEF Filled
  <2> QED BY <2>1, <2>2 DEF Moves, Onward
<1>4. PICK b \in Nat : b = StackMark(abi, r.cur) /\ top <= b /\ top \in Nat
  BY DEF Filled, Moves, Onward
<1>5. ASSUME NEW k \in StackOf(r) PROVE k \in Nat /\ k < b
  <2>1. PICK cell \in CellsOf(r) : cell[1] = "stack" /\ k = cell[2]
    BY DEF StackOf
  <2>2. cell \in {"int", "float", "stack"} \X Nat /\ ~Free(abi, r.cur, cell)
    BY <2>1, CellsFresh
  <2>3. k \in Nat
    BY <2>1, <2>2
  <2> QED BY <1>4, <2>1, <2>2, <2>3 DEF Free
<1>6. After(top, StackOf(r)) \in Nat /\ After(top, StackOf(r)) <= b
  <2>1. StackOf(r) \in SUBSET Nat
    BY <1>5
  <2> HIDE DEF StackOf
  <2> QED BY <1>4, <1>5, <2>1, AfterBelow
<1>7. used' \subseteq {"int", "float"} \X Nat
  BY <1>2 DEF Filled
<1> QED BY <1>2, <1>3, <1>4, <1>6, <1>7 DEF Filled

LEMMA MarkIsNatural ==
  ASSUME NEW conv, NEW p, NEW g, Linked(conv, p, g)
  PROVE  StackMark(conv, p) \in Nat
<1>1. PICK s \in Nat, m \in Nat : s = p.stack /\ m = g.stack
  BY Typed
<1>2. CASE conv \in {"fast_ms", "fast_gnu"}
  <2>1. s = m + 8
    BY <1>1, <1>2 DEF Linked, FastLink
  <2> QED BY <1>1, <1>2, <2>1 DEF StackMark
<1>3. CASE conv = "this_ms"
  <2>1. s = 0 \/ s = m + 4
    BY <1>1, <1>3 DEF Linked, ThisLink, Zero
  <2> QED BY <1>1, <1>3, <2>1 DEF StackMark
<1>4. CASE conv \in {"atpcs", "eabi"}
  BY <1>1, <1>4 DEF StackMark
<1>5. CASE conv \notin {"fast_ms", "fast_gnu", "this_ms", "atpcs", "eabi"}
  BY <1>1, <1>5 DEF StackMark
<1> QED BY <1>2, <1>3, <1>4, <1>5

\* A place that is free holds nothing.
LEMMA FreeUnused ==
  ASSUME Filled, StackMark(abi, put) \in Nat, NEW r,
         \A cell \in CellsOf(r) : cell \in {"int", "float", "stack"} \X Nat /\ Free(abi, put, cell)
  PROVE  RegistersOf(r) \cap used = {} /\ \A k \in StackOf(r) : k >= top
<1>1. RegisterSize = Width(abi) /\ Width(abi) \in {4, 8}
  BY DEF RegisterSize, Width
<1>2. ASSUME NEW u \in RegistersOf(r) PROVE u \notin used
  <2>1. PICK cell \in CellsOf(r) : cell[1] # "stack" /\ u = <<cell[1], cell[2] \div RegisterSize>>
    BY DEF RegistersOf
  <2>2. FreeRegister(abi, put, u[1], u[2])
    BY <1>1, <2>1 DEF Free
  <2> QED BY <2>2 DEF Filled
<1>3. ASSUME NEW k \in StackOf(r) PROVE k >= top
  <2>1. PICK cell \in CellsOf(r) : cell[1] = "stack" /\ k = cell[2]
    BY DEF StackOf
  <2>2. k \in Nat /\ k >= StackMark(abi, put)
    BY <2>1 DEF Free
  <2> QED BY <2>2 DEF Filled
<1> QED BY <1>2, <1>3

-----------------------------------------------------------------------------
(* The places of an argument are free, also where the callee would take it  *)
(* from elsewhere.                                                          *)

Places(conv, p, r) ==
  \A cell \in CellsOf(r) : cell \in {"int", "float", "stack"} \X Nat /\ Free(conv, p, cell)

LEMMA HardSpilled ==
  ASSUME NEW p, NEW g, Linked("armhf", p, g), NEW t, Armhf!Spills(p, t)
  PROVE  Places("armhf", p, Put("armhf", p, t))
<1>1. p \in Counters /\ p.stack \in Nat /\ Width("armhf") = 4
  BY Typed DEF Width, AggrAbis
<1>2. ASSUME NEW at \in Nat, NEW n \in Int, p.stack <= at, NEW r,
             r.at = Run("stack", at, n), r.copy = r.at
      PROVE  Places("armhf", p, r)
  <2>1. ASSUME NEW cell \in CellsOf(r)
        PROVE  cell \in {"int", "float", "stack"} \X Nat /\ Free("armhf", p, cell)
    <3>1. PICK k \in 1..n : cell = <<"stack", at + k - 1>>
      <4>1. r.at = [k \in 1..n |-> <<"stack", at + k - 1>>]
        BY <1>2 DEF Run
      <4>2. CellsOf(r) = {r.at[k] : k \in DOMAIN r.at}
        BY <1>2 DEF CellsOf
      <4>3. PICK k \in DOMAIN r.at : cell = r.at[k]
        BY <4>2
      <4> QED BY <4>1, <4>3
    <3>2. PICK b \in Nat : b = at + k - 1 /\ p.stack <= b
      BY <1>1, <1>2
    <3>3. StackMark("armhf", p) = p.stack
      BY DEF StackMark
    <3> QED BY <3>1, <3>2, <3>3 DEF Free
  <2> QED BY <2>1 DEF Places
<1>3. CASE t.type = "float" /\ p.float >= 16
  <2>1. Put("armhf", p, t) = Armhf!PutFloat(p)
    BY <1>3 DEF Put, Armhf!Put, Armhf!HardFloat, Armhf!PutHard
  <2>2. ~(p.float < 16)
    BY <1>3, Typed
  <2>3. Armhf!PutFloat(p).at = Run("stack", p.stack, 4) /\ Armhf!PutFloat(p).copy = Run("stack", p.stack, 4)
    BY <2>2, HardBytes DEF Armhf!PutFloat, Armhf!OnStack, Armhf!Low, Armhf!Placed
  <2> QED BY <1>1, <1>2, <2>1, <2>3
<1>4. CASE t.type = "double" /\ p.aux >= 16
  <2>1. Put("armhf", p, t) = Armhf!PutDouble(p)
    BY <1>4 DEF Put, Armhf!Put, Armhf!HardFloat, Armhf!PutHard
  <2>2. ~(p.aux < 16)
    BY <1>4, Typed
  <2> DEFINE a == [p EXCEPT !.float = 16]
             at == Armhf!RoundUp(p.stack, 8)
  <2>3. Armhf!PutDouble(p) = Armhf!OnStack(Armhf!Aligned(a, 8), 8, 8)
    BY <2>2 DEF Armhf!PutDouble
  <2>4. a \in Counters /\ a.stack = p.stack
    BY <1>1 DEF Counters
  <2> HIDE DEF a
  <2>5. Armhf!Aligned(a, 8).stack = at
    BY <2>4 DEF Armhf!Aligned, Counters
  <2>6. Armhf!PutDouble(p).at = Run("stack", at, 8) /\ Armhf!PutDouble(p).copy = Run("stack", at, 8)
    BY <2>3, <2>5, HardBytes DEF Armhf!OnStack, Armhf!Low, Armhf!Placed
  <2>7. at \in Nat /\ p.stack <= at
    BY <1>1, HardRoundUp
  <2> QED BY <1>2, <2>1, <2>6, <2>7
<1> QED BY <1>3, <1>4 DEF Armhf!Spills

LEMMA ThisMsFirst ==
  ASSUME NEW t \in Types("this_ms")
  PROVE  Places("this_ms", Zero, Put("this_ms", Zero, t))
<1>1. t \in Scalars
  BY DEF AggrAbis, Types
<1>2. PICK n \in Int : n = ThisMs!Sizes[t.type]
  BY <1>1 DEF Scalars, ScalarNames, ThisMs!Sizes
<1>3. /\ Zero.stack = 0 /\ Zero.hidden = -1 /\ ThisMs!Loaded = 4 /\ [Zero EXCEPT !.aux = @] = Zero
      /\ IntMark("this_ms", Zero) = 0 /\ Width("this_ms") = 4
  BY DEF Zero, ThisMs!Loaded, ThisMs!Fast, IntMark, Width, AggrAbis
<1>4. ASSUME NEW w \in Int, NEW m \in Int
      PROVE  Places("this_ms", Zero, ThisMs!Add(Zero, w, m))
  <2>1. ThisMs!Add(Zero, w, m).at = Run("int", 0, m) /\ ThisMs!Add(Zero, w, m).copy = Run("int", 0, m)
    BY <1>3, ThisMsBytes DEF ThisMs!Add, ThisMs!Placed
  <2>2. ASSUME NEW cell \in CellsOf(ThisMs!Add(Zero, w, m))
        PROVE  cell \in {"int", "float", "stack"} \X Nat /\ Free("this_ms", Zero, cell)
    <3>1. PICK k \in 1..m : cell = <<"int", 0 + k - 1>>
      BY <2>1 DEF CellsOf, Run
    <3>2. PICK b \in Nat : b = 0 + k - 1
      OBVIOUS
    <3>3. b \div 4 \in Nat
      BY <3>2
    <3> QED BY <1>3, <3>1, <3>2, <3>3 DEF Free, FreeRegister
  <2> QED BY <2>2 DEF Places
<1>5. Put("this_ms", Zero, t) = ThisMs!Put(Zero, t)
  BY DEF Put
<1>6. ThisMs!PutInt(Zero, n) = ThisMs!Add(Zero, 4, n)
  BY DEF ThisMs!PutInt, ThisMs!Fast
<1>7. ThisMs!PutLongLong(Zero) = ThisMs!Add(Zero, 8, 8)
  BY <1>3 DEF ThisMs!PutLongLong
<1> QED BY <1>2, <1>4, <1>5, <1>6, <1>7 DEF ThisMs!Put

LEMMA PutPlaces ==
  ASSUME NEW conv \in Proved, NEW p, NEW g, Linked(conv, p, g), NEW t \in Types(conv)
  PROVE  Places(conv, p, Put(conv, p, t))
<1>1. CASE conv = "this_ms" /\ p = Zero
  BY <1>1, ThisMsFirst
<1>2. CASE conv = "armhf" /\ Armhf!Spills(p, t)
  BY <1>2, HardSpilled
<1>3. CASE ~(conv = "this_ms" /\ p = Zero) /\ ~(conv = "armhf" /\ Armhf!Spills(p, t))
  <2>1. Kept(conv, p, g, t)
    BY <1>3, KeptAll
  <2> QED BY <2>1, CellsFresh DEF Kept, Places
<1> QED BY <1>1, <1>2, <1>3

-----------------------------------------------------------------------------
(* Before the first argument.                                                *)

LEMMA Begins ==
  ASSUME NEW conv \in Proved, NEW ag \in Results(conv), NEW this \in BOOLEAN
  PROVE  /\ Linked(conv, CallerStart(conv, ag, this), CalleeStart(conv, ag, this))
         /\ CallerStart(conv, ag, this).hidden \in Nat \cup {-1}
<1>1. /\ \A h \in Int : [Zero EXCEPT !.hidden = h] \in Counters
      /\ Zero \in Counters /\ Zero.hidden = -1
  BY DEF Zero, Counters
<1>2. CASE ag # NoAggr
  <2>1. conv \in AggrAbis /\ conv \in Same
    BY <1>2 DEF Results, AggrAbis, Same
  <2>2. PICK h \in Int : /\ h \in IF conv \in {"sysv", "win64"} THEN {-1, 0, 1} ELSE {-1, 8}
                         /\ CallerStart(conv, ag, this) = [Zero EXCEPT !.hidden = h]
                         /\ CalleeStart(conv, ag, this) = [Zero EXCEPT !.hidden = h]
    <3>1. CASE conv = "sysv"
      <4> DEFINE h == IF ag.nontrivial \/ Sysv!Through(ag) THEN 0 ELSE -1
      <4>1. h \in {-1, 0, 1} /\ h \in Int
        OBVIOUS
      <4>2. CallerStart(conv, ag, this) = [Zero EXCEPT !.hidden = h]
        BY <1>2, <3>1 DEF CallerStart, Sysv!BeginAggr, Sysv!Start, Zero
      <4>3. CalleeStart(conv, ag, this) = [Zero EXCEPT !.hidden = h]
        BY <1>2, <3>1 DEF CalleeStart, Sysv!InitCallback, Sysv!Start, Zero
      <4> QED BY <3>1, <4>1, <4>2, <4>3
    <3>2. CASE conv = "win64"
      <4> DEFINE h == IF this THEN 1 ELSE IF ag.nontrivial \/ Win64!Through(ag) THEN 0 ELSE -1
      <4>1. h \in {-1, 0, 1} /\ h \in Int
        OBVIOUS
      <4>2. CallerStart(conv, ag, this) = [Zero EXCEPT !.hidden = h]
        BY <1>2, <3>2 DEF CallerStart, Win64!BeginAggr, Win64!Start, Zero
      <4>3. CalleeStart(conv, ag, this) = [Zero EXCEPT !.hidden = h]
        BY <1>2, <3>2 DEF CalleeStart, Win64!InitCallback, Win64!Start, Zero
      <4> QED BY <3>2, <4>1, <4>2, <4>3
    <3>3. CASE conv = "arm64"
      <4> DEFINE h == Arm64!Hidden(ag)
      <4>1. h \in {-1, 8} /\ h \in Int
        BY DEF Arm64!Hidden
      <4>2. CallerStart(conv, ag, this) = [Zero EXCEPT !.hidden = h]
        BY <1>2, <3>3 DEF CallerStart, Arm64!BeginAggr, Arm64!Start, Zero
      <4>3. CalleeStart(conv, ag, this) = [Zero EXCEPT !.hidden = h]
        BY <1>2, <3>3 DEF CalleeStart, Arm64!InitCallback, Arm64!Hidden, Arm64!IsHfa, Arm64!Start, Zero
      <4> QED BY <3>3, <4>1, <4>2, <4>3
    <3>4. CASE conv = "apple64"
      <4> DEFINE h == Apple64!Hidden(ag)
      <4>1. h \in {-1, 8} /\ h \in Int
        BY DEF Apple64!Hidden
      <4>2. CallerStart(conv, ag, this) = [Zero EXCEPT !.hidden = h]
        BY <1>2, <3>4 DEF CallerStart, Apple64!BeginAggr, Apple64!Start, Zero
      <4>3. CalleeStart(conv, ag, this) = [Zero EXCEPT !.hidden = h]
        BY <1>2, <3>4 DEF CalleeStart, Apple64!InitCallback, Apple64!Hidden, Apple64!IsHfa, Apple64!Start, Zero
      <4> QED BY <3>4, <4>1, <4>2, <4>3
    <3> QED BY <2>1, <3>1, <3>2, <3>3, <3>4 DEF AggrAbis
  <2> DEFINE c == [Zero EXCEPT !.hidden = h]
  <2>3. c \in Counters /\ c.int = 0 /\ c.float = 0 /\ c.stack = 0 /\ c.hidden = h
    BY <1>1 DEF Zero
  <2> HIDE DEF c
  <2>4. SameLink(conv, c, c)
    <3>1. c.stack % 8 = 0
      BY <2>3
    <3>2. conv # "ppc32_darwin"
      BY <2>1 DEF AggrAbis
    <3> QED BY <2>2, <2>3, <3>1, <3>2 DEF SameLink
  <2>5. Linked(conv, c, c)
    BY <2>1, <2>3, <2>4, SameLinked
  <2>6. h \in Nat \cup {-1}
    BY <2>2
  <2> QED BY <2>2, <2>3, <2>5, <2>6 DEF c
<1>3. CASE ag = NoAggr /\ conv \in {"fast_ms", "fast_gnu"}
  <2> DEFINE c == [Zero EXCEPT !.stack = 8]
  <2>1. CallerStart(conv, ag, this) = c /\ CalleeStart(conv, ag, this) = Zero
    BY <1>3 DEF CallerStart, CalleeStart, FastMs!Reset, FastMs!Fast, FastMs!Start, Zero
  <2>2. /\ c \in Counters /\ c.int = 0 /\ c.float = 0 /\ c.stack = 8 /\ c.aux = 0 /\ c.hidden = -1
        /\ Zero.int = 0 /\ Zero.float = 0 /\ Zero.stack = 0 /\ Zero.aux = 0
    BY DEF Zero, Counters
  <2> HIDE DEF c
  <2>3. Linked(conv, c, Zero)
    BY <1>1, <1>3, <2>2 DEF Linked, FastLink, Same
  <2> QED BY <2>1, <2>2, <2>3
<1>4. CASE ag = NoAggr /\ conv \notin {"fast_ms", "fast_gnu"}
  <2>1. CallerStart(conv, ag, this) = Zero /\ CalleeStart(conv, ag, this) = Zero
    BY <1>4 DEF CallerStart, CalleeStart
  <2>2. /\ Zero.int = 0 /\ Zero.float = 0 /\ Zero.stack = 0 /\ Zero.aux = 0 /\ Zero.hidden = -1
        /\ Zero.stack % 8 = 0 /\ Zero.stack % 4 = 0 /\ Zero.aux % 2 = 0
    BY DEF Zero
  <2>3. conv \in Same => SameLink(conv, Zero, Zero)
    BY <2>2 DEF SameLink
  <2>4. /\ ThisLink(Zero, Zero) /\ ArmLink(Zero, Zero) /\ HardLink(Zero, Zero)
        /\ Elf2Link(Zero, Zero) /\ O32Link(conv, Zero, Zero) /\ Sparc64Link(Zero, Zero)
    BY <2>2 DEF ThisLink, ArmLink, HardLink, Elf2Link, O32Link, Sparc64Link
  <2>5. Linked(conv, Zero, Zero)
    BY <1>1, <1>4, <2>3, <2>4 DEF Linked
  <2> QED BY <2>1, <2>2, <2>5
<1> QED BY <1>2, <1>3, <1>4

LEMMA InitInv ==
  ASSUME "mips_eabi" \notin Abis, Init
  PROVE  IInv
<1>1. abi \in Proved /\ abi \in Abis /\ result \in Results(abi) /\ method \in BOOLEAN
  BY AbisAssumption DEF Init, Proved
<1>2. put = CallerStart(abi, result, method) /\ got = CalleeStart(abi, result, method)
  BY DEF Init
<1>3. Linked(abi, put, got) /\ put.hidden \in Nat \cup {-1}
  BY <1>1, <1>2, Begins
<1>4. Filled
  <2>1. top = 0 /\ StackMark(abi, put) \in Nat
    BY <1>3, MarkIsNatural DEF Init
  <2>2. used = IF put.hidden >= 0 THEN {<<"int", put.hidden>>} ELSE {}
    BY DEF Init
  <2>3. ~FreeRegister(abi, put, "int", put.hidden)
    BY DEF FreeRegister
  <2> QED BY <1>3, <2>1, <2>2, <2>3 DEF Filled
<1>5. Summed
  <2>1. sum = Zero /\ Zero \in Counters /\ Zero.stack = 0 /\ Zero.aux = 0
    BY DEF Init, Zero, Counters
  <2>2. CASE abi = "std"
    <3>1. put = Zero
      BY <1>1, <1>2, <2>2 DEF CallerStart, Results, AggrAbis
    <3> QED BY <2>1, <2>2, <3>1 DEF Summed
  <2>3. CASE abi \in {"fast_ms", "fast_gnu"}
    <3>1. put = [Zero EXCEPT !.stack = 8]
      BY <1>1, <1>2, <2>3 DEF CallerStart, Results, AggrAbis, FastMs!Reset, FastMs!Fast, FastMs!Start, Zero
    <3>2. put.stack = 8 /\ put.aux = 0
      BY <3>1 DEF Zero
    <3> QED BY <2>1, <2>3, <3>2 DEF Summed
  <2>4. CASE abi \notin {"std", "fast_ms", "fast_gnu"}
    BY <2>1, <2>4 DEF Summed
  <2> QED BY <2>2, <2>3, <2>4
<1> QED BY <1>1, <1>2, <1>3, <1>4, <1>5 DEF IInv, Chosen

-----------------------------------------------------------------------------
(* dcbInitCallback2 adds up what the caller's kernel pushes.                 *)

LEMMA StackSet ==
  ASSUME NEW s \in Counters, NEW n \in Nat, NEW d, d = [s EXCEPT !.stack = n]
  PROVE  d \in Counters /\ d.stack = n /\ d.aux = s.aux
BY DEF Counters

LEMMA AuxSet ==
  ASSUME NEW s \in Counters, NEW n \in Nat, NEW d, d = [s EXCEPT !.aux = n]
  PROVE  d \in Counters /\ d.stack = s.stack /\ d.aux = n
BY DEF Counters

LEMMA StackAdded ==
  ASSUME NEW s \in Counters, NEW w \in Nat, NEW d, d = [s EXCEPT !.stack = @ + w]
  PROVE  d \in Counters /\ d.stack = s.stack + w /\ d.aux = s.aux
<1>1. s.stack \in Nat /\ s.stack + w \in Nat
  BY DEF Counters
<1> QED BY <1>1, StackSet

LEMMA AuxAdded ==
  ASSUME NEW s \in Counters, NEW d, d = [s EXCEPT !.aux = @ + 1]
  PROVE  d \in Counters /\ d.stack = s.stack /\ d.aux = s.aux + 1
<1>1. s.aux \in Nat /\ s.aux + 1 \in Nat
  BY DEF Counters
<1> QED BY <1>1, AuxSet

LEMMA SumNumbers ==
  ASSUME NEW s \in Counters
  PROVE  s.stack \in Nat /\ s.aux \in Nat
BY DEF Counters

Wide(t) == IF t.type \in {"double", "longlong"} THEN 8 ELSE 4

LEMMA SumStd ==
  ASSUME NEW s \in Counters, NEW p \in Counters, s.stack = p.stack, NEW t \in Scalars
  PROVE  /\ Std!CleanupSize(s, t) \in Counters
         /\ Std!CleanupSize(s, t).stack = Std!Put(p, t).cur.stack
<1>1. PICK w \in Nat : w = Wide(t)
  BY DEF Wide
<1>2. Std!CleanupSize(s, t) = [[s EXCEPT !.stack = @ + w] EXCEPT !.aux = s.aux]
  BY <1>1 DEF Std!CleanupSize, Std!TakesRegister, Std!Fast, Wide
<1>3. ASSUME NEW v, NEW n PROVE Std!Add(p, v, n).cur = [p EXCEPT !.stack = @ + v]
  BY DEF Std!Add, Std!Placed
<1>4. Std!PutLongLong(p).cur = [p EXCEPT !.stack = @ + 8]
  <2>1. [p EXCEPT !.aux = p.aux] = p
    BY DEF Counters
  <2>2. Std!PutLongLong(p) = Std!Add(p, 8, 8)
    BY <2>1 DEF Std!PutLongLong
  <2> QED BY <1>3, <2>2
<1>5. Std!Put(p, t).cur = [p EXCEPT !.stack = @ + w]
  BY <1>1, <1>3, <1>4 DEF Std!Put, Std!PutInt, Std!Fast, Wide, Scalars, ScalarNames
<1>6. s.aux \in Nat
  BY SumNumbers
<1>7. Std!CleanupSize(s, t) \in Counters /\ Std!CleanupSize(s, t).stack = s.stack + w
  <2> DEFINE e == [s EXCEPT !.stack = @ + w]
  <2>1. e \in Counters /\ e.stack = s.stack + w
    BY <1>6, StackAdded
  <2>2. Std!CleanupSize(s, t) = [e EXCEPT !.aux = s.aux]
    BY <1>2
  <2> HIDE DEF e
  <2> QED BY <1>6, <2>1, <2>2, AuxSet, SumNumbers
<1>8. Std!Put(p, t).cur.stack = p.stack + w
  BY <1>5, StackAdded
<1> QED BY <1>7, <1>8

LEMMA SumFastMs ==
  ASSUME NEW s \in Counters, NEW p \in Counters, s.stack + 8 = p.stack, s.aux = p.aux,
         NEW t \in Scalars
  PROVE  /\ FastMs!CleanupSize(s, t) \in Counters
         /\ FastMs!CleanupSize(s, t).stack + 8 = FastMs!Put(p, t).cur.stack
         /\ FastMs!CleanupSize(s, t).aux = FastMs!Put(p, t).cur.aux
<1>1. PICK w \in Nat, a \in Nat : w = Wide(t) /\ a = p.aux
  BY SumNumbers DEF Wide
<1>2. ASSUME NEW v \in Nat, NEW n PROVE FastMs!Add(p, v, n).cur = [p EXCEPT !.stack = @ + v]
  BY DEF FastMs!Add, FastMs!Placed
<1>3. CASE t.type \notin {"float", "double", "longlong"} /\ a < 2
  <2>1. FastMs!CleanupSize(s, t) = [s EXCEPT !.aux = @ + 1]
    BY <1>1, <1>3 DEF FastMs!CleanupSize, FastMs!TakesRegister, FastMs!Fast
  <2>2. FastMs!Put(p, t).cur = [p EXCEPT !.aux = @ + 1]
    BY <1>1, <1>3 DEF FastMs!Put, FastMs!PutInt, FastMs!Fast, FastMs!Placed
  <2>3. /\ FastMs!CleanupSize(s, t) \in Counters /\ FastMs!CleanupSize(s, t).stack = s.stack
        /\ FastMs!CleanupSize(s, t).aux = s.aux + 1
    BY <2>1, AuxAdded
  <2>4. FastMs!Put(p, t).cur.stack = p.stack /\ FastMs!Put(p, t).cur.aux = p.aux + 1
    BY <2>2, AuxAdded
  <2> QED BY <2>3, <2>4
<1>4. CASE ~(t.type \notin {"float", "double", "longlong"} /\ a < 2)
  <2>1. FastMs!CleanupSize(s, t) = [[s EXCEPT !.stack = @ + w] EXCEPT !.aux = a]
    BY <1>1, <1>4 DEF FastMs!CleanupSize, FastMs!TakesRegister, FastMs!Fast, Wide
  <2>2. FastMs!PutLongLong(p).cur = [p EXCEPT !.stack = @ + 8]
    <3>1. [p EXCEPT !.aux = p.aux] = p
      BY DEF Counters
    <3>2. FastMs!PutLongLong(p) = FastMs!Add(p, 8, 8)
      BY <3>1 DEF FastMs!PutLongLong
    <3> QED BY <1>2, <3>2
  <2>3. FastMs!Put(p, t).cur = [p EXCEPT !.stack = @ + w]
    BY <1>1, <1>2, <1>4, <2>2 DEF FastMs!Put, FastMs!PutInt, FastMs!Fast, Wide, Scalars, ScalarNames
  <2>4. /\ FastMs!CleanupSize(s, t) \in Counters /\ FastMs!CleanupSize(s, t).stack = s.stack + w
        /\ FastMs!CleanupSize(s, t).aux = a /\ s.stack \in Nat
    <3> DEFINE e == [s EXCEPT !.stack = @ + w]
    <3>1. e \in Counters /\ e.stack = s.stack + w
      BY StackAdded
    <3>2. FastMs!CleanupSize(s, t) = [e EXCEPT !.aux = a]
      BY <2>1
    <3> HIDE DEF e
    <3> QED BY <3>1, <3>2, AuxSet, SumNumbers
  <2>5. FastMs!Put(p, t).cur.stack = p.stack + w /\ FastMs!Put(p, t).cur.aux = a
    BY <1>1, <2>3, StackAdded
  <2> QED BY <2>4, <2>5
<1> QED BY <1>3, <1>4

LEMMA SumFastGnu ==
  ASSUME NEW s \in Counters, NEW p \in Counters, s.stack + 8 = p.stack, s.aux = p.aux,
         NEW t \in Scalars
  PROVE  /\ FastGnu!CleanupSize(s, t) \in Counters
         /\ FastGnu!CleanupSize(s, t).stack + 8 = FastGnu!Put(p, t).cur.stack
         /\ FastGnu!CleanupSize(s, t).aux = FastGnu!Put(p, t).cur.aux
<1>1. PICK w \in Nat, a \in Nat : w = Wide(t) /\ a = p.aux
  BY SumNumbers DEF Wide
<1>2. ASSUME NEW v \in Nat, NEW n PROVE FastGnu!Add(p, v, n).cur = [p EXCEPT !.stack = @ + v]
  BY DEF FastGnu!Add, FastGnu!Placed
<1>3. CASE t.type \notin {"float", "double", "longlong"} /\ a < 2
  <2>1. FastGnu!CleanupSize(s, t) = [s EXCEPT !.aux = @ + 1]
    BY <1>1, <1>3 DEF FastGnu!CleanupSize, FastGnu!TakesRegister, FastGnu!Fast
  <2>2. FastGnu!Put(p, t).cur = [p EXCEPT !.aux = @ + 1]
    BY <1>1, <1>3 DEF FastGnu!Put, FastGnu!PutInt, FastGnu!Fast, FastGnu!Placed
  <2>3. /\ FastGnu!CleanupSize(s, t) \in Counters /\ FastGnu!CleanupSize(s, t).stack = s.stack
        /\ FastGnu!CleanupSize(s, t).aux = s.aux + 1
    BY <2>1, AuxAdded
  <2>4. FastGnu!Put(p, t).cur.stack = p.stack /\ FastGnu!Put(p, t).cur.aux = p.aux + 1
    BY <2>2, AuxAdded
  <2> QED BY <2>3, <2>4
<1>4. CASE t.type = "longlong"
  <2>1. FastGnu!CleanupSize(s, t) = [[s EXCEPT !.stack = @ + 8] EXCEPT !.aux = 2]
    BY <1>4 DEF FastGnu!CleanupSize, FastGnu!TakesRegister, FastGnu!Fast
  <2>2. FastGnu!Put(p, t).cur = [[p EXCEPT !.aux = 2] EXCEPT !.stack = @ + 8]
    BY <1>4 DEF FastGnu!Put, FastGnu!PutLongLong, FastGnu!Add, FastGnu!Placed
  <2>3. /\ FastGnu!CleanupSize(s, t) \in Counters /\ FastGnu!CleanupSize(s, t).stack = s.stack + 8
        /\ FastGnu!CleanupSize(s, t).aux = 2 /\ s.stack \in Nat
    <3> DEFINE e == [s EXCEPT !.stack = @ + 8]
    <3>1. e \in Counters /\ e.stack = s.stack + 8
      BY StackAdded
    <3>2. FastGnu!CleanupSize(s, t) = [e EXCEPT !.aux = 2]
      BY <2>1
    <3> HIDE DEF e
    <3> QED BY <3>1, <3>2, AuxSet, SumNumbers
  <2>4. FastGnu!Put(p, t).cur.stack = p.stack + 8 /\ FastGnu!Put(p, t).cur.aux = 2
    <3> DEFINE e == [p EXCEPT !.aux = 2]
    <3>1. e \in Counters /\ e.stack = p.stack /\ e.aux = 2
      BY AuxSet
    <3>2. FastGnu!Put(p, t).cur = [e EXCEPT !.stack = @ + 8]
      BY <2>2
    <3> HIDE DEF e
    <3> QED BY <3>1, <3>2, StackAdded
  <2> QED BY <2>3, <2>4
<1>5. CASE t.type # "longlong" /\ ~(t.type \notin {"float", "double", "longlong"} /\ a < 2)
  <2>1. FastGnu!CleanupSize(s, t) = [[s EXCEPT !.stack = @ + w] EXCEPT !.aux = a]
    BY <1>1, <1>5 DEF FastGnu!CleanupSize, FastGnu!TakesRegister, FastGnu!Fast, Wide
  <2>2. FastGnu!Put(p, t).cur = [p EXCEPT !.stack = @ + w]
    BY <1>1, <1>2, <1>5 DEF FastGnu!Put, FastGnu!PutInt, FastGnu!Fast, Wide, Scalars, ScalarNames
  <2>3. /\ FastGnu!CleanupSize(s, t) \in Counters /\ FastGnu!CleanupSize(s, t).stack = s.stack + w
        /\ FastGnu!CleanupSize(s, t).aux = a /\ s.stack \in Nat
    <3> DEFINE e == [s EXCEPT !.stack = @ + w]
    <3>1. e \in Counters /\ e.stack = s.stack + w
      BY StackAdded
    <3>2. FastGnu!CleanupSize(s, t) = [e EXCEPT !.aux = a]
      BY <2>1
    <3> HIDE DEF e
    <3> QED BY <3>1, <3>2, AuxSet, SumNumbers
  <2>4. FastGnu!Put(p, t).cur.stack = p.stack + w /\ FastGnu!Put(p, t).cur.aux = a
    BY <1>1, <2>2, StackAdded
  <2> QED BY <2>3, <2>4
<1> QED BY <1>3, <1>4, <1>5

LEMMA SummedStep ==
  ASSUME Summed, put \in Counters, NEW t \in Types(abi), abi' = abi,
         put' = Put(abi, put, t).cur, sum' = CleanupSize(abi, sum, t)
  PROVE  Summed'
<1>1. sum \in Counters
  BY DEF Summed
<1>2. CASE abi = "std"
  <2>1. t \in Scalars
    BY <1>2 DEF Types, AggrAbis
  <2>2. Put(abi, put, t) = Std!Put(put, t) /\ CleanupSize(abi, sum, t) = Std!CleanupSize(sum, t)
    BY <1>2 DEF Put, CleanupSize
  <2>3. sum.stack = put.stack
    BY <1>2 DEF Summed
  <2>4. sum' \in Counters /\ sum'.stack = put'.stack
    BY <1>1, <2>1, <2>2, <2>3, SumStd
  <2> QED BY <1>2, <2>4 DEF Summed
<1>3. CASE abi = "fast_ms"
  <2>1. t \in Scalars
    BY <1>3 DEF Types, AggrAbis
  <2>2. Put(abi, put, t) = FastMs!Put(put, t) /\ CleanupSize(abi, sum, t) = FastMs!CleanupSize(sum, t)
    BY <1>3 DEF Put, CleanupSize
  <2>3. sum.stack + 8 = put.stack /\ sum.aux = put.aux
    BY <1>3 DEF Summed
  <2>4. sum' \in Counters /\ sum'.stack + 8 = put'.stack /\ sum'.aux = put'.aux
    BY <1>1, <2>1, <2>2, <2>3, SumFastMs
  <2> QED BY <1>3, <2>4 DEF Summed
<1>4. CASE abi = "fast_gnu"
  <2>1. t \in Scalars
    BY <1>4 DEF Types, AggrAbis
  <2>2. Put(abi, put, t) = FastGnu!Put(put, t) /\ CleanupSize(abi, sum, t) = FastGnu!CleanupSize(sum, t)
    BY <1>4 DEF Put, CleanupSize
  <2>3. sum.stack + 8 = put.stack /\ sum.aux = put.aux
    BY <1>4 DEF Summed
  <2>4. sum' \in Counters /\ sum'.stack + 8 = put'.stack /\ sum'.aux = put'.aux
    BY <1>1, <2>1, <2>2, <2>3, SumFastGnu
  <2> QED BY <1>4, <2>4 DEF Summed
<1>5. CASE abi = "this_ms"
  <2>1. CleanupSize(abi, sum, t) = ThisMs!CleanupSize(sum, t)
    BY <1>5 DEF CleanupSize
  <2>2. PICK w \in Nat : w = Wide(t)
    BY DEF Wide
  <2>3. ThisMs!CleanupSize(sum, t) = [[sum EXCEPT !.stack = @ + w] EXCEPT !.aux = sum.aux]
    BY <2>2 DEF ThisMs!CleanupSize, ThisMs!TakesRegister, ThisMs!Fast, Wide
  <2>4. sum' \in Counters
    <3> DEFINE e == [sum EXCEPT !.stack = @ + w]
    <3>1. e \in Counters /\ sum.aux \in Nat
      BY <1>1, StackAdded, SumNumbers
    <3>2. sum' = [e EXCEPT !.aux = sum.aux]
      BY <2>1, <2>3
    <3> HIDE DEF e
    <3> QED BY <3>1, <3>2, AuxSet
  <2> QED BY <1>5, <2>4 DEF Summed
<1>6. CASE abi \notin X86Abis \/ abi = "cdecl"
  <2>1. CleanupSize(abi, sum, t) = sum
    BY <1>6 DEF CleanupSize, X86Abis
  <2> QED BY <1>1, <1>6, <2>1 DEF Summed, X86Abis
<1> QED BY <1>2, <1>3, <1>4, <1>5, <1>6 DEF X86Abis

-----------------------------------------------------------------------------
(* A result that comes back in registers.                                    *)

LEMMA SameCardinality == \A S : Sysv!Cardinality(S) = Cardinality(S)
BY DEF Sysv!Cardinality, Cardinality

LEMMA SysvTaken ==
  ASSUME NEW ag, NEW i \in {1, 2}, NEW m \in {1, 2}, i <= m,
         ag.classes \in [1..m -> {"INTEGER", "SSE"}]
  PROVE  Sysv!TakenFrom(ag, i) = Sysv!GivenIn(ag, i)
<1> DEFINE same == {j \in 1..i - 1 : ag.classes[j] = ag.classes[i]}
<1>1. CASE i = 1
  <2>1. same = {}
    BY <1>1
  <2>2. Cardinality(same) = 0
    BY <2>1, FS_EmptySet
  <2> HIDE DEF same
  <2>3. 8 * Cardinality(same) = 0
    BY <2>2
  <2>4. Sysv!TakenFrom(ag, i) =
          Sysv!Bytes(IF ag.classes[i] = "INTEGER" THEN "int" ELSE "float", 8 * Cardinality(same),
                     Sysv!EightbyteSize(ag, i))
    BY SameCardinality DEF same, Sysv!TakenFrom
  <2>5. ag.classes[1] \in {"INTEGER", "SSE"}
    BY <1>1
  <2> QED BY <1>1, <2>3, <2>4, <2>5 DEF Sysv!GivenIn
<1>2. CASE i = 2 /\ ag.classes[1] = ag.classes[2]
  <2>1. same = {1}
    BY <1>2
  <2>2. Cardinality(same) = 1
    BY <2>1, FS_Singleton
  <2> HIDE DEF same
  <2>3. 8 * Cardinality(same) = 8
    BY <2>2
  <2>4. Sysv!TakenFrom(ag, i) =
          Sysv!Bytes(IF ag.classes[i] = "INTEGER" THEN "int" ELSE "float", 8 * Cardinality(same),
                     Sysv!EightbyteSize(ag, i))
    BY SameCardinality DEF same, Sysv!TakenFrom
  <2>5. ag.classes[2] \in {"INTEGER", "SSE"}
    BY <1>2
  <2> QED BY <1>2, <2>3, <2>4, <2>5 DEF Sysv!GivenIn
<1>3. CASE i = 2 /\ ag.classes[1] # ag.classes[2]
  <2>1. same = {}
    BY <1>3
  <2>2. Cardinality(same) = 0
    BY <2>1, FS_EmptySet
  <2> HIDE DEF same
  <2>3. 8 * Cardinality(same) = 0
    BY <2>2
  <2>4. Sysv!TakenFrom(ag, i) =
          Sysv!Bytes(IF ag.classes[i] = "INTEGER" THEN "int" ELSE "float", 8 * Cardinality(same),
                     Sysv!EightbyteSize(ag, i))
    BY SameCardinality DEF same, Sysv!TakenFrom
  <2>5. ag.classes[1] \in {"INTEGER", "SSE"} /\ ag.classes[2] \in {"INTEGER", "SSE"}
    BY <1>3
  <2> QED BY <1>3, <2>3, <2>4, <2>5 DEF Sysv!GivenIn
<1> QED BY <1>1, <1>2, <1>3

LEMMA ReturnSame ==
  ASSUME NEW conv \in AggrAbis, NEW ag \in Aggregates, NEW this \in BOOLEAN,
         ag # NoAggr, CallerStart(conv, ag, this).hidden = -1
  PROVE  ResultTaken(conv, ag) = ResultGiven(conv, ag)
<1>1. CASE conv = "sysv"
  <2>1. CallerStart(conv, ag, this) = Sysv!BeginAggr(ag, this)
    BY <1>1 DEF CallerStart
  <2>2. ~ag.nontrivial /\ ag.classes[1] # "MEMORY"
    BY <2>1 DEF Sysv!BeginAggr, Sysv!Through, Sysv!Start
  <2>3. PICK m \in {1, 2} : ag.classes \in [1..m -> {"INTEGER", "SSE"}]
    <3>1. ag.classes # <<"MEMORY">>
      BY <2>2
    <3> QED BY <3>1, AggregatesAssumption
  <2>4. Len(ag.classes) = m
    BY <2>3
  <2>5. Sysv!TakenFrom(ag, 1) = Sysv!GivenIn(ag, 1)
    <3>1. PICK i \in {1, 2} : i = 1
      OBVIOUS
    <3>2. i <= m
      BY <3>1
    <3>3. Sysv!TakenFrom(ag, i) = Sysv!GivenIn(ag, i)
      BY <2>3, <3>2, SysvTaken
    <3> QED BY <3>1, <3>3
  <2>6. m = 2 => Sysv!TakenFrom(ag, 2) = Sysv!GivenIn(ag, 2)
    BY <2>3, SysvTaken
  <2>7. Sysv!ResultTaken(ag) = Sysv!ResultGiven(ag)
    BY <2>4, <2>5, <2>6 DEF Sysv!ResultTaken, Sysv!ResultGiven
  <2> QED BY <1>1, <2>7 DEF ResultTaken, ResultGiven
<1>2. CASE conv = "win64"
  BY <1>2 DEF ResultTaken, ResultGiven, Win64!ResultTaken, Win64!ResultGiven, Win64!Bytes
<1>3. CASE conv = "arm64"
  BY <1>3 DEF ResultTaken, ResultGiven, Arm64!ResultTaken, Arm64!ResultGiven
<1>4. CASE conv = "apple64"
  BY <1>4 DEF ResultTaken, ResultGiven, Apple64!ResultTaken, Apple64!ResultGiven
<1> QED BY <1>1, <1>2, <1>3, <1>4 DEF AggrAbis

-----------------------------------------------------------------------------
(* The step, and what follows from the invariant.                            *)

LEMMA Pairs ==
  ASSUME "mips_eabi" \notin Abis, IInv, NEW t \in Types(abi), MayPass(t)
  PROVE  Kept(abi, put, got, t)
<1>1. abi \in Proved /\ Linked(abi, put, got)
  BY AbisAssumption DEF IInv, Chosen, Proved
<1>2. abi = "this_ms" => put # Zero \/ t.type = "pointer"
  <2>1. ASSUME abi = "this_ms" PROVE CallerStart(abi, result, method) = Zero
    BY <2>1 DEF IInv, Chosen, Results, AggrAbis, CallerStart
  <2> QED BY <2>1 DEF MayPass
<1>3. abi = "armhf" /\ put.int < 16 => ~Armhf!Spills(put, t)
  BY DEF MayPass
<1> QED BY <1>1, <1>2, <1>3, KeptAll

LEMMA PassInv ==
  ASSUME "mips_eabi" \notin Abis, IInv, NEW t \in Types(abi), Pass(t)
  PROVE  IInv'
<1> DEFINE r == Put(abi, put, t)
<1>1. /\ put' = r.cur /\ got' = Get(abi, got, t).cur /\ used' = used \cup RegistersOf(r)
      /\ top' = After(top, StackOf(r)) /\ sum' = CleanupSize(abi, sum, t)
      /\ abi' = abi /\ result' = result /\ method' = method /\ MayPass(t)
  BY DEF Pass
<1>2. Linked(abi, r.cur, Get(abi, got, t).cur) /\ Moves(abi, put, r)
  BY <1>1, Pairs DEF Kept
<1> HIDE DEF r
<1>3. Linked(abi, put, got)'
  BY <1>1, <1>2 DEF Linked, SameLink, FastLink, ThisLink, ArmLink, HardLink, Elf2Link, O32Link, Sparc64Link
<1>4. Chosen'
  <2>1. put'.hidden = put.hidden
    BY <1>1, <1>2 DEF Moves, Onward
  <2>2. CallerStart(abi, result, method)' = CallerStart(abi, result, method)
    BY <1>1 DEF CallerStart
  <2>3. Results(abi)' = Results(abi)
    BY <1>1 DEF Results
  <2> QED BY <1>1, <2>1, <2>2, <2>3 DEF IInv, Chosen
<1>5. Filled'
  BY <1>1, <1>2, FilledStep DEF IInv
<1>6. Summed'
  <2>1. put \in Counters
    BY DEF IInv, Linked
  <2>2. put' = Put(abi, put, t).cur
    BY <1>1 DEF r
  <2> QED BY <1>1, <2>1, <2>2, SummedStep DEF IInv
<1> QED BY <1>3, <1>4, <1>5, <1>6 DEF IInv

LEMMA StepInv ==
  ASSUME "mips_eabi" \notin Abis, IInv, [Next]_vars
  PROVE  IInv'
<1>1. CASE Next
  BY <1>1, PassInv DEF Next
<1>2. CASE UNCHANGED vars
  BY <1>2 DEF vars, IInv, Chosen, Linked, SameLink, FastLink, ThisLink, ArmLink, HardLink, Elf2Link,
              O32Link, Sparc64Link, Summed, Filled, Results, CallerStart
<1> QED BY <1>1, <1>2

LEMMA InvTypeOK ==
  ASSUME "mips_eabi" \notin Abis, IInv
  PROVE  TypeOK
<1>1. /\ put \in Counters /\ got \in Counters /\ sum \in Counters /\ top \in Nat
      /\ abi \in Abis /\ result \in Results(abi) /\ method \in BOOLEAN
  BY DEF IInv, Linked, Chosen, Summed, Filled
<1>2. abi \in AllAbis /\ Linked(abi, put, got)
  BY AbisAssumption, <1>1 DEF IInv
<1>3. PICK pi \in Nat, pf \in Nat : pi = put.int /\ pf = put.float
  BY <1>1 DEF Counters
<1>4. PICK gi \in Nat, gf \in Nat : gi = got.int /\ gf = got.float
  BY <1>1 DEF Counters
<1>5. (pi <= 16 /\ pf <= 16 /\ gi <= 16 /\ gf <= 16)
  <2>1. CASE abi \in Same
    BY <1>2, <1>3, <1>4, <2>1 DEF Linked, SameLink
  <2>2. CASE abi \in {"fast_ms", "fast_gnu"}
    BY <1>2, <1>3, <1>4, <2>2 DEF Linked, FastLink
  <2>3. CASE abi = "this_ms"
    BY <1>2, <1>3, <1>4, <2>3 DEF Linked, ThisLink, Zero
  <2>4. CASE abi \in {"atpcs", "eabi"}
    <3>1. ArmLink(put, got) /\ put.stack \in Nat
      BY <1>1, <1>2, <2>4 DEF Linked, Counters
    <3> QED BY <1>3, <1>4, <3>1 DEF ArmLink
  <2>5. CASE abi = "armhf"
    BY <1>2, <1>3, <1>4, <2>5 DEF Linked, HardLink
  <2>6. CASE abi = "ppc64_elf2"
    BY <1>2, <1>3, <1>4, <2>6 DEF Linked, Elf2Link
  <2>7. CASE abi \in {"o32", "o32_soft"}
    BY <1>2, <1>3, <1>4, <2>7 DEF Linked, O32Link
  <2>8. CASE abi = "sparc64"
    BY <1>2, <1>3, <1>4, <2>8 DEF Linked, Sparc64Link
  <2> QED BY <1>1, <1>2, <2>1, <2>2, <2>3, <2>4, <2>5, <2>6, <2>7, <2>8
          DEF AllAbis, AggrAbis, X86Abis, MipsAbis, Same
<1> QED BY <1>1, <1>3, <1>4, <1>5 DEF TypeOK

-----------------------------------------------------------------------------
(* The theorems.  The EABI of MIPS has no run, and is left out.              *)

\* The invariant the others follow from: the counters of the two sides belong
\* together, what holds an argument is not free, and the sum is the caller's.
THEOREM Invariant ==
  ASSUME "mips_eabi" \notin Abis
  PROVE  Spec => []IInv
<1>1. Init => IInv
  BY InitInv
<1>2. IInv /\ [Next]_vars => IInv'
  BY StepInv
<1> QED BY <1>1, <1>2, PTL DEF Spec

\* No side ever counts more registers than there are.
THEOREM CountersBounded ==
  ASSUME "mips_eabi" \notin Abis
  PROVE  Spec => []TypeOK
<1>1. IInv => TypeOK
  BY InvTypeOK
<1> QED BY <1>1, Invariant, PTL

\* Whatever arguments went before, the callback looks for the next one where
\* the caller puts it.
THEOREM SidesAgree ==
  ASSUME "mips_eabi" \notin Abis
  PROVE  Spec => []Agree
<1>1. IInv => Agree
  <2> SUFFICES ASSUME IInv, NEW t \in Types(abi), MayPass(t)
               PROVE  Get(abi, got, t).at \in {Put(abi, put, t).at, Put(abi, put, t).copy}
    BY DEF Agree
  <2> QED BY Pairs DEF Kept
<1> QED BY <1>1, Invariant, PTL

\* No argument is put where an earlier one is, or the address of the result.
THEOREM ArgumentsKept ==
  ASSUME "mips_eabi" \notin Abis
  PROVE  Spec => []NothingOverwritten
<1>1. IInv => NothingOverwritten
  <2> SUFFICES ASSUME IInv, NEW t \in Types(abi)
               PROVE  /\ RegistersOf(Put(abi, put, t)) \cap used = {}
                      /\ \A k \in StackOf(Put(abi, put, t)) : k >= top
    BY DEF NothingOverwritten
  <2>1. abi \in Proved /\ Linked(abi, put, got) /\ Filled
    BY AbisAssumption DEF IInv, Chosen, Proved
  <2>2. Places(abi, put, Put(abi, put, t))
    BY <2>1, PutPlaces
  <2>3. StackMark(abi, put) \in Nat
    BY <2>1, MarkIsNatural
  <2> QED BY <2>1, <2>2, <2>3, FreeUnused DEF Places
<1> QED BY <1>1, Invariant, PTL

\* The stub of the callback removes what the kernel of the caller has pushed.
THEOREM CalleeCleansUp ==
  ASSUME "mips_eabi" \notin Abis
  PROVE  Spec => []CleanedUp
<1>1. IInv => CleanedUp
  <2> SUFFICES ASSUME IInv, abi \in {"std", "fast_ms", "fast_gnu"}
               PROVE  sum.stack = Pushed(abi, put)
    BY DEF CleanedUp
  <2>1. PICK s \in Nat, m \in Nat : s = sum.stack /\ m = put.stack
    BY SumNumbers DEF IInv, Summed, Linked
  <2>2. CASE abi = "std"
    <3>1. s = m
      BY <2>1, <2>2 DEF IInv, Summed
    <3>2. Pushed(abi, put) = IF m > 0 THEN m - 0 ELSE 0
      BY <2>1, <2>2 DEF Pushed, Std!Pushed, Std!Loaded, Std!Fast
    <3> QED BY <2>1, <3>1, <3>2
  <2>3. CASE abi = "fast_ms"
    <3>1. s + 8 = m
      BY <2>1, <2>3 DEF IInv, Summed
    <3>2. Pushed(abi, put) = IF m > 8 THEN m - 8 ELSE 0
      BY <2>1, <2>3 DEF Pushed, FastMs!Pushed, FastMs!Loaded, FastMs!Fast
    <3> QED BY <2>1, <3>1, <3>2
  <2>4. CASE abi = "fast_gnu"
    <3>1. s + 8 = m
      BY <2>1, <2>4 DEF IInv, Summed
    <3>2. Pushed(abi, put) = IF m > 8 THEN m - 8 ELSE 0
      BY <2>1, <2>4 DEF Pushed, FastGnu!Pushed, FastGnu!Loaded, FastGnu!Fast
    <3> QED BY <2>1, <3>1, <3>2
  <2> QED BY <2>2, <2>3, <2>4
<1> QED BY <1>1, Invariant, PTL

\* Both sides agree on whether the result has an address, and if it has none on
\* the registers it comes back in.
THEOREM ResultAgreed ==
  ASSUME "mips_eabi" \notin Abis
  PROVE  Spec => []ReturnAgrees
<1>1. IInv => ReturnAgrees
  <2> SUFFICES ASSUME IInv PROVE ReturnAgrees
    OBVIOUS
  <2>1. put.hidden = got.hidden
    BY DEF IInv, Linked
  <2>2. ASSUME result # NoAggr, put.hidden = -1
        PROVE  ResultTaken(abi, result) = ResultGiven(abi, result)
    <3>1. abi \in AggrAbis /\ result \in Aggregates /\ method \in BOOLEAN
      BY <2>2 DEF IInv, Chosen, Results
    <3>2. CallerStart(abi, result, method).hidden = -1
      BY <2>2 DEF IInv, Chosen
    <3> QED BY <2>2, <3>1, <3>2, ReturnSame
  <2> QED BY <2>1, <2>2 DEF ReturnAgrees
<1> QED BY <1>1, Invariant, PTL

-----------------------------------------------------------------------------
(* The classes of eightbytes.                                               *)

\* What one scalar has to say about an eightbyte.
ScalarIn(s, i) ==
  IF s.at < 8 * i + 8 /\ s.at + FieldSizes[s.type] > 8 * i
    THEN IF s.at % FieldSizes[s.type] # 0 THEN "MEMORY" ELSE ScalarClass(s.type)
    ELSE "NONE"

\* The classes that win against all others: how merging can be told from outside.
Tops == {{"MEMORY"}, {"MEMORY", "INTEGER"}, {"MEMORY", "INTEGER", "SSE"}}

LEMMA MergedUp ==
  ASSUME NEW T, NEW U \in Tops
  PROVE  Merged(T) \in U <=> \E t \in T : t \in U
  BY DEF Merged, Tops

LEMMA MergedKinds == \A T : Merged(T) \in {"MEMORY", "INTEGER", "SSE", "NONE"}
  BY DEF Merged

LEMMA MergedSame ==
  ASSUME NEW S, NEW T,
         \A U \in Tops : (\E t \in S : t \in U) <=> (\E t \in T : t \in U)
  PROVE  Merged(S) = Merged(T)
<1>1. \A U \in Tops : Merged(S) \in U <=> Merged(T) \in U
  BY MergedUp
<1>2. /\ Merged(S) = "MEMORY" <=> Merged(T) = "MEMORY"
      /\ Merged(S) \in {"MEMORY", "INTEGER"} <=> Merged(T) \in {"MEMORY", "INTEGER"}
      /\ Merged(S) \in {"MEMORY", "INTEGER", "SSE"} <=> Merged(T) \in {"MEMORY", "INTEGER", "SSE"}
  BY <1>1 DEF Tops
<1> QED
  BY <1>2, MergedKinds

\* The fields of regular aggregates are small: nothing is lost in a conversion.
LEMMA SmallSize == \A n \in 0..16 : AsSize(n) = n
  BY DEF AsSize, SizeRange
LEMMA SmallInt == \A n \in 0..32 : AsInt(n) = n
  BY DEF AsInt, IntRange

LEMMA ScalarSizes == \A t \in DOMAIN FieldSizes : FieldSizes[t] \in {1, 2, 4, 8}
  BY DEF FieldSizes

\* An array of scalars that reaches into an eightbyte has an element that does.
LEMMA ElementReaches ==
  ASSUME NEW z \in {1, 2, 4, 8}, NEW o \in Nat, NEW n \in Nat \ {0}, NEW lo \in Nat,
         o < lo + 8, o + z * n > lo
  PROVE  \E j \in 0..(n - 1) : o + z * j < lo + 8 /\ o + z * j + z > lo
<1>1. CASE o + z > lo
  <2>1. o + z * 0 < lo + 8 /\ o + z * 0 + z > lo /\ 0 \in 0..(n - 1)
    BY <1>1
  <2> QED
    BY <2>1
<1>2. CASE o + z <= lo
  <2> DEFINE j == (lo - o) \div z
  <2>1. j \in Nat /\ z * j <= lo - o /\ lo - o < z * j + z
    <3>1. CASE z = 1
      BY <1>2, <3>1
    <3>2. CASE z = 2
      BY <1>2, <3>2
    <3>3. CASE z = 4
      BY <1>2, <3>3
    <3>4. CASE z = 8
      BY <1>2, <3>4
    <3> QED
      BY <3>1, <3>2, <3>3, <3>4
  <2> HIDE DEF j
  <2>2. j < n
    <3>1. CASE z = 1
      BY <2>1, <3>1
    <3>2. CASE z = 2
      BY <2>1, <3>2
    <3>3. CASE z = 4
      BY <2>1, <3>3
    <3>4. CASE z = 8
      BY <2>1, <3>4
    <3> QED
      BY <3>1, <3>2, <3>3, <3>4
  <2>3. z * j \in Nat
    BY <2>1
  <2>4. o + z * j < lo + 8 /\ o + z * j + z > lo
    BY <2>1, <2>3
  <2> QED
    BY <2>1, <2>2, <2>4
<1> QED
  BY <1>1, <1>2

LEMMA ElementInside ==
  ASSUME NEW z \in {1, 2, 4, 8}, NEW n \in Nat \ {0}, NEW j \in 0..(n - 1)
  PROVE  /\ z * j \in Nat /\ z * j + z <= z * n
         /\ \A o \in Nat : ((o + z * j) % z) = (o % z)
<1>1. CASE z = 1
  BY <1>1
<1>2. CASE z = 2
  BY <1>2
<1>3. CASE z = 4
  BY <1>3
<1>4. CASE z = 8
  BY <1>4
<1> QED
  BY <1>1, <1>2, <1>3, <1>4

-----------------------------------------------------------------------------
(* Fields that are scalars.                                                 *)

Elems(f, base)     == {[type |-> f.type, at |-> base + f.offset + FieldSize(f) * j] : j \in 0..(f.len - 1)}
Outside(f, i, base) ==
  \/ base + f.offset >= 8 * i + 8
  \/ base + f.offset + FieldSize(f) * f.len <= 8 * i
SimpleClass(f, i, base) ==
  IF Outside(f, i, base) THEN "NONE"
  ELSE IF (base + f.offset) % FieldSize(f) # 0 THEN "MEMORY" ELSE ScalarClass(f.type)

Fits(f, base) ==
  /\ base \in Nat /\ f.offset \in Nat /\ f.len \in Nat \ {0}
  /\ base + f.offset + FieldSize(f) * f.len <= 16

LEMMA SimpleNumbers ==
  ASSUME NEW f, Simple(f), NEW base, Fits(f, base)
  PROVE  /\ FieldSize(f) = FieldSizes[f.type] /\ FieldSize(f) \in {1, 2, 4, 8}
         /\ FieldAlignment(f) = FieldSize(f) /\ f.type # "aggr"
         /\ base + f.offset \in 0..16 /\ FieldSize(f) * f.len \in Nat
         /\ base + f.offset + FieldSize(f) * f.len \in 0..16
<1>1. f.type # "aggr" /\ FieldSizes[f.type] \in {1, 2, 4, 8}
  BY ScalarSizes DEF Simple, FieldSizes
<1>2. FieldSize(f) = FieldSizes[f.type] /\ FieldAlignment(f) = FieldSizes[f.type]
  BY <1>1 DEF FieldSize, FieldAlignment
<1>3. PICK z \in {1, 2, 4, 8} : z = FieldSize(f)
  BY <1>1, <1>2
<1>4. PICK n \in Nat \ {0} : n = f.len
  BY DEF Fits
<1>5. PICK b \in Nat, o \in Nat : b = base /\ o = f.offset
  BY DEF Fits
<1>6. b + o + z * n <= 16
  BY <1>3, <1>4, <1>5 DEF Fits
<1>7. b + o \in 0..16 /\ z * n \in Nat /\ b + o + z * n \in 0..16
  BY <1>6
<1> QED
  BY <1>1, <1>2, <1>3, <1>4, <1>5, <1>7

\* What the elements of an array of scalars say is what its class says.
LEMMA SimpleRight ==
  ASSUME NEW f, Simple(f), NEW base, Fits(f, base), NEW i \in {0, 1}, NEW U \in Tops
  PROVE  SimpleClass(f, i, base) \in U <=> \E s \in Elems(f, base) : ScalarIn(s, i) \in U
<1>0. /\ FieldSize(f) = FieldSizes[f.type] /\ base + f.offset \in Nat
  BY SimpleNumbers
<1>1. PICK z \in {1, 2, 4, 8} : z = FieldSize(f)
  BY SimpleNumbers
<1>2. PICK o \in Nat : o = base + f.offset
  BY <1>0
<1>3. PICK n \in Nat \ {0} : n = f.len
  BY DEF Fits
<1>4. PICK lo \in Nat : lo = 8 * i
  OBVIOUS
<1>5. Elems(f, base) = {[type |-> f.type, at |-> o + z * j] : j \in 0..(n - 1)}
  BY <1>1, <1>2, <1>3 DEF Elems
<1> DEFINE here(j)  == o + z * j < lo + 8 /\ o + z * j + z > lo
           class(j) == IF here(j) THEN IF (o + z * j) % z # 0 THEN "MEMORY" ELSE ScalarClass(f.type)
                                  ELSE "NONE"
           says == IF o % z # 0 THEN "MEMORY" ELSE ScalarClass(f.type)
<1>6. \A j \in 0..(n - 1) : ScalarIn([type |-> f.type, at |-> o + z * j], i) = class(j)
  BY <1>0, <1>1, <1>4 DEF ScalarIn
<1>7. (\E s \in Elems(f, base) : ScalarIn(s, i) \in U) <=> \E j \in 0..(n - 1) : class(j) \in U
  BY <1>5, <1>6
<1>8. \A j \in 0..(n - 1) : class(j) = IF here(j) THEN says ELSE "NONE"
  <2>1. \A j \in 0..(n - 1) : ((o + z * j) % z) = (o % z)
    BY ElementInside
  <2> QED
    BY <2>1
<1>9. "NONE" \notin U
  BY DEF Tops
<1>10. SimpleClass(f, i, base) = IF o >= lo + 8 \/ o + z * n <= lo THEN "NONE" ELSE says
  BY <1>1, <1>2, <1>3, <1>4 DEF SimpleClass, Outside
<1>11. CASE o >= lo + 8 \/ o + z * n <= lo
  <2>1. \A j \in 0..(n - 1) : ~here(j)
    <3> SUFFICES ASSUME NEW j \in 0..(n - 1) PROVE ~here(j)
      OBVIOUS
    <3>1. PICK k \in Nat, m \in Nat : k = z * j /\ m = z * n
      BY ElementInside
    <3>2. k + z <= m
      BY <3>1, ElementInside
    <3>3. o >= lo + 8 \/ o + m <= lo
      BY <1>11, <3>1
    <3>4. ~(o + k < lo + 8 /\ o + k + z > lo)
      BY <3>2, <3>3
    <3> QED
      BY <3>1, <3>4
  <2> HIDE DEF here, says
  <2>2. SimpleClass(f, i, base) = "NONE"
    BY <1>10, <1>11
  <2>3. \A j \in 0..(n - 1) : class(j) = "NONE"
    BY <1>8, <2>1
  <2> HIDE DEF class
  <2> QED
    BY <1>7, <1>9, <2>2, <2>3
<1>12. CASE o < lo + 8 /\ o + z * n > lo
  <2>1. \E j \in 0..(n - 1) : here(j)
    BY <1>12, ElementReaches
  <2> HIDE DEF here
  <2>2. SimpleClass(f, i, base) = says
    <3>1. PICK m \in Nat : m = z * n
      BY ElementInside
    <3>2. ~(o >= lo + 8 \/ o + z * n <= lo)
      BY <1>12, <3>1
    <3> QED
      BY <1>10, <3>2
  <2> HIDE DEF says
  <2>3. (\E j \in 0..(n - 1) : class(j) \in U) <=> says \in U
    BY <1>8, <1>9, <2>1
  <2> HIDE DEF class
  <2> QED
    BY <1>7, <2>2, <2>3
<1>13. PICK m \in Nat : m = z * n
  OBVIOUS
<1> QED
  BY <1>11, <1>12, <1>13

\* And they lie within the field.
LEMMA SimpleWithin ==
  ASSUME NEW f, Simple(f), NEW base, Fits(f, base), NEW s \in Elems(f, base)
  PROVE  /\ s.type \in DOMAIN FieldSizes /\ s.at \in Nat
         /\ base + f.offset <= s.at
         /\ s.at + FieldSizes[s.type] <= base + f.offset + FieldSize(f) * f.len
<1>1. PICK z \in {1, 2, 4, 8} : z = FieldSize(f) /\ z = FieldSizes[f.type]
  BY SimpleNumbers
<1>2. PICK o \in Nat, n \in Nat \ {0} : o = base + f.offset /\ n = f.len
  BY SimpleNumbers DEF Fits
<1>3. PICK j \in 0..(n - 1) : s = [type |-> f.type, at |-> o + z * j]
  BY <1>1, <1>2 DEF Elems
<1>4. PICK k \in Nat, m \in Nat : k = z * j /\ m = z * n /\ k + z <= m
  BY ElementInside
<1>5. s.type = f.type /\ s.at = o + k
  BY <1>3, <1>4
<1>6. o <= o + k /\ o + k + z <= o + m /\ o + k \in Nat
  BY <1>4
<1>7. o + m = base + f.offset + FieldSize(f) * f.len
  BY <1>1, <1>2, <1>4
<1> QED
  BY <1>1, <1>2, <1>5, <1>6, <1>7 DEF Simple

-----------------------------------------------------------------------------
(* The level of scalars.                                                    *)

LEMMA SimpleFieldClass ==
  ASSUME NEW f, Simple(f), NEW base, Fits(f, base), NEW i \in {0, 1}
  PROVE  /\ FieldClass(f, i, base, NoClass) = SimpleClass(f, i, base)
         /\ FieldClass(f, i, base, Innermost) = SimpleClass(f, i, base)
         /\ FieldClass(f, i, base, Inner) = SimpleClass(f, i, base)
<1>1. /\ f.type # "aggr" /\ FieldAlignment(f) = FieldSize(f) /\ FieldSize(f) # 0
      /\ AsSize(base + f.offset) = base + f.offset
      /\ AsSize(base + f.offset + FieldSize(f) * f.len) = base + f.offset + FieldSize(f) * f.len
  BY SimpleNumbers, SmallSize
<1>2. (base + f.offset) % FieldSize(f) = 0 <=> ~((base + f.offset) % FieldSize(f) # 0)
  OBVIOUS
<1> HIDE DEF Simple
<1>3. FieldClass(f, i, base, NoClass) = SimpleClass(f, i, base)
  BY <1>1 DEF FieldClass, SimpleClass, Outside
<1>4. FieldClass(f, i, base, Innermost) = SimpleClass(f, i, base)
  BY <1>1 DEF FieldClass, SimpleClass, Outside
<1>5. FieldClass(f, i, base, Inner) = SimpleClass(f, i, base)
  BY <1>1 DEF FieldClass, SimpleClass, Outside
<1> QED
  BY <1>3, <1>4, <1>5

LEMMA SimpleScalars ==
  ASSUME NEW f, Simple(f), NEW base
  PROVE  /\ ScalarsOf(f, base, NoScalars) = Elems(f, base)
         /\ ScalarsOf(f, base, InnermostScalars) = Elems(f, base)
         /\ ScalarsOf(f, base, InnerScalars) = Elems(f, base)
<1>1. f.type # "aggr"
  BY DEF Simple, FieldSizes
<1> QED
  BY <1>1 DEF ScalarsOf, Elems

LEMMA InsideFits ==
  ASSUME NEW ag, ag.size \in Nat, NEW f, Inside(f, ag), FieldSize(f) \in Nat,
         NEW base \in Nat, base + ag.size <= 16
  PROVE  /\ Fits(f, base) /\ FieldSize(f) * f.len \in Nat
         /\ base <= base + f.offset
         /\ base + f.offset + FieldSize(f) * f.len <= base + ag.size
<1>1. PICK z \in Nat, n \in Nat \ {0}, o \in Nat, m \in Nat :
        z = FieldSize(f) /\ n = f.len /\ o = f.offset /\ m = ag.size
  BY DEF Inside
<1>2. PICK p \in Nat : p = z * n
  BY <1>1
<1>3. o + p <= m
  BY <1>1, <1>2 DEF Inside
<1>4. base + o + p <= 16 /\ base <= base + o /\ base + o + p <= base + m
  BY <1>1, <1>3
<1> QED
  BY <1>1, <1>2, <1>4 DEF Fits

\* Scalars that lie between two offsets.
Between(S, lo, hi) ==
  \A s \in S : /\ s.type \in DOMAIN FieldSizes /\ s.at \in Nat
               /\ lo <= s.at /\ s.at + FieldSizes[s.type] <= hi

LEMMA InnermostRight ==
  ASSUME NEW ag, ag.size \in Nat, RegularInnermost(ag), NEW base \in Nat, base + ag.size <= 16,
         NEW i \in {0, 1}, NEW U \in Tops
  PROVE  Innermost(ag, i, base) \in U <=> \E s \in InnermostScalars(ag, base) : ScalarIn(s, i) \in U
<1>1. \A f \in Fields(ag) : Simple(f) /\ Fits(f, base)
  <2> SUFFICES ASSUME NEW f \in Fields(ag) PROVE Simple(f) /\ Fits(f, base)
    OBVIOUS
  <2>1. Simple(f) /\ Inside(f, ag)
    BY DEF RegularInnermost
  <2>2. FieldSize(f) \in Nat
    <3>1. f.type # "aggr" /\ FieldSizes[f.type] \in Nat
      BY <2>1, ScalarSizes DEF Simple, FieldSizes
    <3> QED
      BY <3>1 DEF FieldSize
  <2> QED
    BY <2>1, <2>2, InsideFits
<1>2. Innermost(ag, i, base) \in U <=> \E f \in Fields(ag) : FieldClass(f, i, base, NoClass) \in U
  BY MergedUp DEF Innermost
<1>3. \A f \in Fields(ag) : FieldClass(f, i, base, NoClass) \in U
                            <=> \E s \in ScalarsOf(f, base, NoScalars) : ScalarIn(s, i) \in U
  BY <1>1, SimpleFieldClass, SimpleScalars, SimpleRight
<1>4. (\E s \in InnermostScalars(ag, base) : ScalarIn(s, i) \in U)
      <=> \E f \in Fields(ag) : \E s \in ScalarsOf(f, base, NoScalars) : ScalarIn(s, i) \in U
  BY DEF InnermostScalars
<1> QED
  BY <1>2, <1>3, <1>4

LEMMA InnermostBetween ==
  ASSUME NEW ag, ag.size \in Nat, RegularInnermost(ag), NEW base \in Nat, base + ag.size <= 16
  PROVE  Between(InnermostScalars(ag, base), base, base + ag.size)
<1> SUFFICES ASSUME NEW f \in Fields(ag), NEW s \in Elems(f, base), Simple(f)
             PROVE  /\ s.type \in DOMAIN FieldSizes /\ s.at \in Nat
                    /\ base <= s.at /\ s.at + FieldSizes[s.type] <= base + ag.size
  BY SimpleScalars DEF Between, InnermostScalars, RegularInnermost
<1>1. FieldSize(f) = FieldSizes[f.type] /\ FieldSize(f) \in Nat
  BY ScalarSizes DEF Simple, FieldSizes, FieldSize
<1>2. /\ Fits(f, base) /\ base <= base + f.offset
      /\ base + f.offset + FieldSize(f) * f.len <= base + ag.size
      /\ FieldSize(f) * f.len \in Nat
  BY <1>1, InsideFits DEF RegularInnermost
<1>3. /\ s.type \in DOMAIN FieldSizes /\ s.at \in Nat
      /\ base + f.offset <= s.at
      /\ s.at + FieldSizes[s.type] <= base + f.offset + FieldSize(f) * f.len
  BY <1>2, SimpleWithin
<1>4. PICK a \in Nat, b \in Nat, c \in Nat, d \in Nat, e \in Nat :
        /\ a = s.at /\ b = FieldSizes[s.type] /\ c = f.offset /\ d = FieldSize(f) * f.len
        /\ e = ag.size
  BY <1>2, <1>3, ScalarSizes DEF Fits
<1>5. base <= a /\ a + b <= base + e
  BY <1>2, <1>3, <1>4
<1> QED
  BY <1>3, <1>4, <1>5

-----------------------------------------------------------------------------
(* The levels of nested aggregates.                                         *)

\* Of an array that begins where an eightbyte does, no element is forgotten that
\* reaches into the eightbyte; z is the size of an element.
LEMMA ElementsCover ==
  ASSUME NEW z \in 1..16, NEW n \in Nat \ {0}, NEW o \in {0, 8}, NEW i \in {0, 1},
         o + z * n <= 16, o < 8 * i + 8
  PROVE  LET first == (8 * i - o) \div z
             last  == 8 \div z + first + 1
             end   == IF last > n THEN n ELSE last
         IN  /\ 8 * i - o \in 0..8 /\ first \in 0..8 /\ last \in 0..17
             /\ first..(end - 1) \subseteq 0..(n - 1)
             /\ \A j \in 0..(n - 1) : j \notin first..(end - 1)
                                      => o + z * j + z <= 8 * i \/ o + z * j >= 8 * i + 8
<1> DEFINE goal(w) == LET first == (8 * i - o) \div w
                          last  == 8 \div w + first + 1
                          end   == IF last > n THEN n ELSE last
                      IN  /\ 8 * i - o \in 0..8 /\ first \in 0..8 /\ last \in 0..17
                          /\ first..(end - 1) \subseteq 0..(n - 1)
                          /\ \A j \in 0..(n - 1) : j \notin first..(end - 1)
                              => o + w * j + w <= 8 * i \/ o + w * j >= 8 * i + 8
<1>1. CASE z = 1
  BY <1>1
<1>2. CASE z = 2
  BY <1>2
<1>3. CASE z = 3
  BY <1>3
<1>4. CASE z = 4
  BY <1>4
<1>5. CASE z = 5
  BY <1>5
<1>6. CASE z = 6
  BY <1>6
<1>7. CASE z = 7
  BY <1>7
<1>8. CASE z = 8
  BY <1>8
<1>9. CASE z \in 9..16
  BY <1>9
<1> QED
  BY <1>1, <1>2, <1>3, <1>4, <1>5, <1>6, <1>7, <1>8, <1>9

SubArray(f, base) ==
  /\ f.type = "aggr" /\ f.sub.size \in Nat \ {0} /\ f.sub.align \in {1, 2, 4, 8}
  /\ (base + f.offset) % 8 = 0 /\ Fits(f, base)

LEMMA ArrayNumbers ==
  ASSUME NEW f, NEW base, SubArray(f, base)
  PROVE  /\ FieldSize(f) = f.sub.size /\ f.sub.size \in 1..16 /\ f.len \in Nat \ {0}
         /\ base + f.offset \in {0, 8} /\ base + f.offset + f.sub.size * f.len \in 0..16
         /\ \A j \in 0..(f.len - 1) :
              /\ f.sub.size * j \in Nat
              /\ base + f.offset + f.sub.size * j \in 0..16
              /\ base + f.offset + f.sub.size * j + f.sub.size <= 16
              /\ base + f.offset + f.sub.size * j + f.sub.size
                   <= base + f.offset + f.sub.size * f.len
<1>1. FieldSize(f) = f.sub.size
  BY DEF SubArray, FieldSize
<1>2. PICK z \in Nat \ {0}, n \in Nat \ {0}, b \in Nat, o \in Nat :
        z = f.sub.size /\ n = f.len /\ b = base /\ o = f.offset
  BY DEF SubArray, Fits
<1>3. b + o + z * n <= 16 /\ (b + o) % 8 = 0
  BY <1>1, <1>2 DEF SubArray, Fits
<1>4. z * n >= z /\ z * n >= n
  BY <1>2
<1>5. z \in 1..16 /\ n \in 1..16 /\ b + o \in {0, 8} /\ b + o + z * n \in 0..16
  <2>1. PICK p \in Nat : p = z * n
    OBVIOUS
  <2>2. p >= z /\ p >= n /\ b + o + p <= 16
    BY <1>3, <1>4, <2>1
  <2> QED
    BY <1>3, <2>1, <2>2
<1>6. ASSUME NEW j \in 0..(n - 1)
      PROVE  /\ z * j \in Nat /\ b + o + z * j \in 0..16 /\ b + o + z * j + z <= 16
             /\ b + o + z * j + z <= b + o + z * n
  <2>1. z * j + z <= z * n /\ z * j >= 0
    <3>1. n - 1 - j >= 0 /\ z * (n - 1 - j) >= 0
      BY <1>5
    <3>2. z * (n - 1 - j) = z * n - z - z * j
      BY <1>5
    <3>3. z * j >= 0
      BY <1>5
    <3> QED
      BY <3>1, <3>2, <3>3, <1>5
  <2>2. PICK p \in Int, q \in Int : p = z * n /\ q = z * j
    BY <1>5
  <2>3. q \in Nat /\ q + z <= p /\ b + o + p <= 16
    BY <1>3, <2>1, <2>2
  <2>4. b + o + q \in 0..16 /\ b + o + q + z <= 16 /\ b + o + q + z <= b + o + p
    BY <1>5, <2>3
  <2> QED
    BY <2>2, <2>3, <2>4
<1> QED
  BY <1>1, <1>2, <1>5, <1>6

LEMMA ArrayNaturals ==
  ASSUME NEW f, NEW base, SubArray(f, base)
  PROVE  /\ base + f.offset \in Nat /\ f.sub.size \in Nat
         /\ base + f.offset + f.sub.size * f.len \in Nat
         /\ \A j \in 0..(f.len - 1) :
              /\ f.sub.size * j \in Nat
              /\ base + f.offset + f.sub.size * j \in Nat
              /\ base + f.offset + f.sub.size * j + f.sub.size \in Nat
              /\ base + f.offset <= base + f.offset + f.sub.size * j
<1>1. PICK o \in {0, 8}, z \in 1..16 : o = base + f.offset /\ z = f.sub.size
  BY ArrayNumbers
<1>2. o \in Nat /\ z \in Nat
  OBVIOUS
<1>3. base + f.offset + f.sub.size * f.len \in Nat
  BY ArrayNumbers
<1>4. ASSUME NEW j \in 0..(f.len - 1)
      PROVE  /\ z * j \in Nat /\ o + z * j \in Nat /\ o + z * j + z \in Nat /\ o <= o + z * j
  <2>1. z * j \in Nat
    BY <1>1, ArrayNumbers
  <2>2. PICK q \in Nat : q = z * j
    BY <2>1
  <2>3. o + q \in Nat /\ o + q + z \in Nat /\ o <= o + q
    BY <1>2
  <2> QED
    BY <2>1, <2>2, <2>3
<1> HIDE DEF SubArray
<1> QED
  BY <1>1, <1>2, <1>3, <1>4

LEMMA ArrayElements ==
  ASSUME NEW f, NEW base, SubArray(f, base), NEW i \in {0, 1}, ~Outside(f, i, base)
  PROVE  /\ Elements(f, i, base + f.offset) \subseteq 0..(f.len - 1)
         /\ \A j \in 0..(f.len - 1) : j \notin Elements(f, i, base + f.offset)
              => \/ base + f.offset + f.sub.size * j + f.sub.size <= 8 * i
                 \/ base + f.offset + f.sub.size * j >= 8 * i + 8
<1>1. PICK z \in 1..16, n \in Nat \ {0}, o \in {0, 8} :
        /\ z = f.sub.size /\ n = f.len /\ o = base + f.offset /\ FieldSize(f) = z
        /\ o + z * n \in 0..16
  BY ArrayNumbers
<1>2. o < 8 * i + 8 /\ o + z * n <= 16
  BY <1>1 DEF Outside
<1> DEFINE first == (8 * i - o) \div z
           last  == 8 \div z + first + 1
           end   == IF last > n THEN n ELSE last
<1>3. /\ 8 * i - o \in 0..8 /\ first \in 0..8 /\ last \in 0..17
      /\ first..(end - 1) \subseteq 0..(n - 1)
      /\ \A j \in 0..(n - 1) : j \notin first..(end - 1)
           => o + z * j + z <= 8 * i \/ o + z * j >= 8 * i + 8
  BY <1>2, ElementsCover
<1>4. AsSize(8 * i - o) = 8 * i - o /\ AsInt(first) = first /\ AsInt(last) = last
  BY <1>3, SmallSize, SmallInt
<1>5. AsSize(last) = last
  BY <1>3 DEF AsSize, SizeRange
<1>6. Elements(f, i, o) = first..(end - 1)
  <2> HIDE DEF first
  <2>1. AsInt(AsSize(8 * i - o) \div z) = first
    BY <1>4 DEF first
  <2>2. Elements(f, i, o) = first..((IF AsSize(last) > n THEN n ELSE last) - 1)
    BY <1>1, <1>4, <2>1 DEF Elements
  <2> QED
    BY <1>5, <2>2
<1> QED
  BY <1>1, <1>3, <1>6

LEMMA NoScalarThere ==
  ASSUME NEW A, NEW lo \in Nat, NEW hi \in Nat, Between(A, lo, hi), NEW i \in {0, 1}, NEW U \in Tops,
         hi <= 8 * i \/ lo >= 8 * i + 8
  PROVE  ~ \E s \in A : ScalarIn(s, i) \in U
<1> SUFFICES ASSUME NEW s \in A PROVE ScalarIn(s, i) \notin U
  OBVIOUS
<1>1. s.at \in Nat /\ lo <= s.at /\ s.at + FieldSizes[s.type] <= hi /\ FieldSizes[s.type] \in Nat
  BY ScalarSizes DEF Between
<1>2. ~(s.at < 8 * i + 8 /\ s.at + FieldSizes[s.type] > 8 * i)
  BY <1>1
<1>3. ScalarIn(s, i) = "NONE"
  BY <1>2 DEF ScalarIn
<1> QED
  BY <1>3 DEF Tops

\* K holds the classes of the elements of an array, A their scalars: the class the
\* array gets, and whether a class of U is among those of its scalars.
ArrayClass(K, f, i, base) ==
  IF Outside(f, i, base) THEN "NONE" ELSE Merged({K[j] : j \in Elements(f, i, base + f.offset)})
SomeIn(A, f, i, U) == \E j \in 0..(f.len - 1) : \E s \in A[j] : ScalarIn(s, i) \in U
ElementsRight(K, A, f, i, U) ==
  \A j \in 0..(f.len - 1) : K[j] \in U <=> \E s \in A[j] : ScalarIn(s, i) \in U
InElements(A, f, base) ==
  \A j \in 0..(f.len - 1) : Between(A[j], base + f.offset + f.sub.size * j,
                                    base + f.offset + f.sub.size * j + f.sub.size)

\* If every element has the class its scalars ask for, so has the array.
LEMMA ArrayRight ==
  ASSUME NEW f, NEW base, SubArray(f, base), NEW i \in {0, 1}, NEW U \in Tops, NEW K, NEW A,
         ElementsRight(K, A, f, i, U), InElements(A, f, base)
  PROVE  ArrayClass(K, f, i, base) \in U <=> SomeIn(A, f, i, U)
<1> SUFFICES (IF Outside(f, i, base) THEN "NONE"
              ELSE Merged({K[j] : j \in Elements(f, i, base + f.offset)})) \in U
             <=> \E j \in 0..(f.len - 1) : \E s \in A[j] : ScalarIn(s, i) \in U
  BY DEF ArrayClass, SomeIn
<1> DEFINE lo(j) == base + f.offset + f.sub.size * j
           hi(j) == base + f.offset + f.sub.size * j + f.sub.size
           some(j) == \E s \in A[j] : ScalarIn(s, i) \in U
<1>0. \A j \in 0..(f.len - 1) :
        /\ lo(j) \in Nat /\ hi(j) \in Nat
        /\ hi(j) <= base + f.offset + f.sub.size * f.len /\ base + f.offset <= lo(j)
  BY ArrayNaturals, ArrayNumbers
<1>1. \A j \in 0..(f.len - 1) : hi(j) <= 8 * i \/ lo(j) >= 8 * i + 8 => ~some(j)
  BY <1>0, NoScalarThere DEF InElements
<1>2. CASE Outside(f, i, base)
  <2>1. \A j \in 0..(f.len - 1) : hi(j) <= 8 * i \/ lo(j) >= 8 * i + 8
    <3> SUFFICES ASSUME NEW j \in 0..(f.len - 1) PROVE hi(j) <= 8 * i \/ lo(j) >= 8 * i + 8
      OBVIOUS
    <3>0. lo(j) \in Nat /\ hi(j) \in Nat
      BY <1>0
    <3>5. base + f.offset \in Nat /\ base + f.offset + f.sub.size * f.len \in Nat
      BY ArrayNaturals
    <3>1. PICK l \in Nat, h \in Nat, o \in Nat, e \in Nat :
            l = lo(j) /\ h = hi(j) /\ o = base + f.offset /\ e = base + f.offset + f.sub.size * f.len
      <4> HIDE DEF lo, hi
      <4> QED
        BY <3>0, <3>5, Zenon
    <3>2. h <= e /\ o <= l
      BY <1>0, <3>1
    <3>3. o >= 8 * i + 8 \/ e <= 8 * i
      BY <1>2, <3>1, ArrayNumbers DEF Outside
    <3>4. h <= 8 * i \/ l >= 8 * i + 8
      BY <3>2, <3>3
    <3> QED
      BY <3>1, <3>4
  <2>2. "NONE" \notin U
    BY DEF Tops
  <2> HIDE DEF lo, hi
  <2> QED
    BY <1>1, <1>2, <2>1, <2>2
<1>3. CASE ~Outside(f, i, base)
  <2>1. /\ Elements(f, i, base + f.offset) \subseteq 0..(f.len - 1)
        /\ \A j \in 0..(f.len - 1) : j \notin Elements(f, i, base + f.offset)
             => hi(j) <= 8 * i \/ lo(j) >= 8 * i + 8
    BY <1>3, ArrayElements
  <2>2. Merged({K[j] : j \in Elements(f, i, base + f.offset)}) \in U
        <=> \E j \in Elements(f, i, base + f.offset) : K[j] \in U
    BY MergedUp
  <2> HIDE DEF lo, hi
  <2> QED
    BY <1>1, <1>3, <2>1, <2>2 DEF ElementsRight
<1> QED
  BY <1>2, <1>3

\* The classes of the elements of an array that are looked at for an eightbyte.
InnermostOf(f, i, base) ==
  {Innermost(f.sub, i, base + f.offset + f.sub.size * j) : j \in Elements(f, i, base + f.offset)}
InnerOf(f, i, base) ==
  {Inner(f.sub, i, base + f.offset + f.sub.size * j) : j \in Elements(f, i, base + f.offset)}

LEMMA ArrayFieldClass ==
  ASSUME NEW f, NEW base, SubArray(f, base), NEW i \in {0, 1}
  PROVE  /\ FieldClass(f, i, base, Innermost) =
              IF Outside(f, i, base) THEN "NONE" ELSE Merged(InnermostOf(f, i, base))
         /\ FieldClass(f, i, base, Inner) =
              IF Outside(f, i, base) THEN "NONE" ELSE Merged(InnerOf(f, i, base))
<1> DEFINE o == base + f.offset
           outside == o >= 8 * i + 8 \/ o + FieldSize(f) * f.len <= 8 * i
<1>1. /\ f.type = "aggr" /\ FieldSize(f) = f.sub.size /\ FieldSize(f) # 0
      /\ FieldAlignment(f) = f.sub.align /\ f.sub.align \in {1, 2, 4, 8}
      /\ o \in {0, 8} /\ o + FieldSize(f) * f.len \in 0..16
  BY ArrayNumbers DEF SubArray, FieldAlignment
<1>2. AsSize(o) = o /\ AsSize(o + FieldSize(f) * f.len) = o + FieldSize(f) * f.len
  BY <1>1, SmallSize
<1>3. o % FieldAlignment(f) = 0
  <2> HIDE DEF o
  <2> QED
    BY <1>1
<1>4. Outside(f, i, base) <=> outside
  BY DEF Outside
<1>5. ~Outside(f, i, base) =>
        \A j \in Elements(f, i, o) : AsInt(o + FieldSize(f) * j) = o + f.sub.size * j
  <2> SUFFICES ASSUME ~Outside(f, i, base), NEW j \in Elements(f, i, o)
               PROVE  AsInt(o + FieldSize(f) * j) = o + f.sub.size * j
    OBVIOUS
  <2>1. j \in 0..(f.len - 1)
    BY ArrayElements
  <2>2. o + f.sub.size * j \in 0..16
    BY <2>1, ArrayNumbers
  <2>3. AsInt(o + f.sub.size * j) = o + f.sub.size * j
    <3> HIDE DEF o
    <3> QED
      BY <2>2, SmallInt
  <2> QED
    BY <1>1, <2>3
<1> HIDE DEF SubArray
<1>6. FieldClass(f, i, base, Innermost) =
        IF outside THEN "NONE"
        ELSE Merged({Innermost(f.sub, i, AsInt(o + FieldSize(f) * j)) : j \in Elements(f, i, o)})
  BY <1>1, <1>2, <1>3 DEF FieldClass
<1>7. FieldClass(f, i, base, Inner) =
        IF outside THEN "NONE"
        ELSE Merged({Inner(f.sub, i, AsInt(o + FieldSize(f) * j)) : j \in Elements(f, i, o)})
  BY <1>1, <1>2, <1>3 DEF FieldClass
<1> HIDE DEF o, outside
<1>8. CASE Outside(f, i, base)
  BY <1>4, <1>6, <1>7, <1>8
<1>9. CASE ~Outside(f, i, base)
  <2>1. {Innermost(f.sub, i, AsInt(o + FieldSize(f) * j)) : j \in Elements(f, i, o)}
        = InnermostOf(f, i, base)
    BY <1>5, <1>9 DEF InnermostOf, o
  <2>2. {Inner(f.sub, i, AsInt(o + FieldSize(f) * j)) : j \in Elements(f, i, o)}
        = InnerOf(f, i, base)
    BY <1>5, <1>9 DEF InnerOf, o
  <2> QED
    BY <1>4, <1>6, <1>7, <1>9, <2>1, <2>2
<1> QED
  BY <1>8, <1>9

LEMMA ArrayScalars ==
  ASSUME NEW f, NEW base, SubArray(f, base)
  PROVE  /\ ScalarsOf(f, base, InnermostScalars) =
              UNION {InnermostScalars(f.sub, base + f.offset + f.sub.size * j) : j \in 0..(f.len - 1)}
         /\ ScalarsOf(f, base, InnerScalars) =
              UNION {InnerScalars(f.sub, base + f.offset + f.sub.size * j) : j \in 0..(f.len - 1)}
<1>1. f.type = "aggr" /\ FieldSize(f) = f.sub.size
  BY ArrayNumbers DEF SubArray
<1> HIDE DEF SubArray
<1> QED
  BY <1>1 DEF ScalarsOf

LEMMA FieldFits ==
  ASSUME NEW ag, ag.size \in Nat, NEW f, Inside(f, ag), NEW base \in Nat, base + ag.size <= 16,
         Simple(f) \/ Nests(f, base)
  PROVE  /\ Simple(f) \/ SubArray(f, base)
         /\ Fits(f, base)
         /\ base <= base + f.offset /\ base + f.offset \in Nat
         /\ base + f.offset + FieldSize(f) * f.len \in Nat
         /\ base + f.offset + FieldSize(f) * f.len <= base + ag.size
<1>1. FieldSize(f) \in Nat
  <2>1. CASE Simple(f)
    <3>1. f.type # "aggr" /\ FieldSizes[f.type] \in Nat
      BY <2>1, ScalarSizes DEF Simple, FieldSizes
    <3> QED
      BY <3>1 DEF FieldSize
  <2>2. CASE Nests(f, base)
    BY <2>2 DEF Nests, FieldSize
  <2> QED
    BY <2>1, <2>2
<1>2. /\ Fits(f, base) /\ FieldSize(f) * f.len \in Nat
      /\ base <= base + f.offset
      /\ base + f.offset + FieldSize(f) * f.len <= base + ag.size
  BY <1>1, InsideFits
<1>3. Simple(f) \/ SubArray(f, base)
  BY <1>2 DEF SubArray, Nests
<1>4. f.offset \in Nat
  BY DEF Inside
<1> QED
  BY <1>2, <1>3, <1>4

LEMMA Widen ==
  ASSUME NEW S, NEW lo \in Nat, NEW hi \in Nat, Between(S, lo, hi),
         NEW low \in Nat, NEW high \in Nat, low <= lo, hi <= high
  PROVE  Between(S, low, high)
<1> SUFFICES ASSUME NEW s \in S
             PROVE  /\ s.type \in DOMAIN FieldSizes /\ s.at \in Nat
                    /\ low <= s.at /\ s.at + FieldSizes[s.type] <= high
  BY DEF Between
<1>1. /\ s.type \in DOMAIN FieldSizes /\ s.at \in Nat
      /\ lo <= s.at /\ s.at + FieldSizes[s.type] <= hi /\ FieldSizes[s.type] \in Nat
  BY ScalarSizes DEF Between
<1> QED
  BY <1>1

LEMMA SimpleBetween ==
  ASSUME NEW f, Simple(f), NEW base, Fits(f, base)
  PROVE  Between(Elems(f, base), base + f.offset, base + f.offset + FieldSize(f) * f.len)
  BY SimpleWithin DEF Between

LEMMA ArrayBetween ==
  ASSUME NEW f, NEW base, SubArray(f, base), NEW A,
         InElements(A, f, base)
  PROVE  Between(UNION {A[j] : j \in 0..(f.len - 1)},
                 base + f.offset, base + f.offset + FieldSize(f) * f.len)
<1> SUFFICES ASSUME NEW j \in 0..(f.len - 1)
             PROVE  Between(A[j], base + f.offset, base + f.offset + FieldSize(f) * f.len)
  BY DEF Between
<1>1. PICK o \in Nat, q \in Nat, z \in Nat, m \in Nat :
        /\ o = base + f.offset /\ q = f.sub.size * j /\ z = f.sub.size
        /\ m = base + f.offset + f.sub.size * f.len
  <2>1. /\ base + f.offset \in Nat /\ f.sub.size * j \in Nat /\ f.sub.size \in Nat
        /\ base + f.offset + f.sub.size * f.len \in Nat
    BY ArrayNaturals
  <2> HIDE DEF SubArray
  <2> QED
    BY <2>1, Zenon
<1>2. o <= o + q /\ o + q \in Nat /\ o + q + z \in Nat /\ o + q + z <= m
  BY <1>1, ArrayNumbers
<1>3. Between(A[j], o + q, o + q + z)
  BY <1>1 DEF InElements
<1>4. Between(A[j], o, m)
  BY <1>2, <1>3, Widen
<1>5. FieldSize(f) = f.sub.size
  BY ArrayNumbers
<1> QED
  BY <1>1, <1>4, <1>5

-----------------------------------------------------------------------------
(* A field of an aggregate in the middle.                                   *)

LEMMA MiddleFieldRight ==
  ASSUME NEW f, NEW base, Fits(f, base),
         Simple(f) \/ (SubArray(f, base) /\ RegularInnermost(f.sub))
  PROVE  /\ Between(ScalarsOf(f, base, InnermostScalars),
                    base + f.offset, base + f.offset + FieldSize(f) * f.len)
         /\ \A i \in {0, 1} : \A U \in Tops :
              FieldClass(f, i, base, Innermost) \in U
              <=> \E s \in ScalarsOf(f, base, InnermostScalars) : ScalarIn(s, i) \in U
<1>1. CASE Simple(f)
  <2>1. ScalarsOf(f, base, InnermostScalars) = Elems(f, base)
    BY <1>1, SimpleScalars
  <2>2. Between(Elems(f, base), base + f.offset, base + f.offset + FieldSize(f) * f.len)
    BY <1>1, SimpleBetween
  <2>3. ASSUME NEW i \in {0, 1}, NEW U \in Tops
        PROVE  FieldClass(f, i, base, Innermost) \in U <=> \E s \in Elems(f, base) : ScalarIn(s, i) \in U
    BY <1>1, SimpleFieldClass, SimpleRight
  <2> QED
    BY <2>1, <2>2, <2>3
<1>2. CASE SubArray(f, base) /\ RegularInnermost(f.sub)
  <2> DEFINE at(j) == base + f.offset + f.sub.size * j
             A == [j \in 0..(f.len - 1) |-> InnermostScalars(f.sub, at(j))]
  <2>1. ScalarsOf(f, base, InnermostScalars) = UNION {A[j] : j \in 0..(f.len - 1)}
    <3>1. ScalarsOf(f, base, InnermostScalars) =
            UNION {InnermostScalars(f.sub, at(j)) : j \in 0..(f.len - 1)}
      BY <1>2, ArrayScalars, Zenon
    <3> HIDE DEF at
    <3>2. {InnermostScalars(f.sub, at(j)) : j \in 0..(f.len - 1)} = {A[j] : j \in 0..(f.len - 1)}
      OBVIOUS
    <3> QED
      BY <3>1, <3>2
  <2>2. f.sub.size \in Nat /\ \A j \in 0..(f.len - 1) : at(j) \in Nat /\ at(j) + f.sub.size <= 16
    BY <1>2, ArrayNumbers
  <2> HIDE DEF at
  <2>3. \A j \in 0..(f.len - 1) : Between(A[j], at(j), at(j) + f.sub.size)
    BY <1>2, <2>2, InnermostBetween
  <2>4. Between(UNION {A[j] : j \in 0..(f.len - 1)},
                base + f.offset, base + f.offset + FieldSize(f) * f.len)
    <3> HIDE DEF A
    <3>1. InElements(A, f, base)
      BY <2>3 DEF at, InElements
    <3> QED
      BY <1>2, <3>1, ArrayBetween
  <2>5. ASSUME NEW i \in {0, 1}, NEW U \in Tops
        PROVE  FieldClass(f, i, base, Innermost) \in U
               <=> \E j \in 0..(f.len - 1) : \E s \in A[j] : ScalarIn(s, i) \in U
    <3> DEFINE K == [j \in 0..(f.len - 1) |-> Innermost(f.sub, i, at(j))]
    <3>1. ElementsRight(K, A, f, i, U)
      BY <1>2, <2>2, InnermostRight DEF ElementsRight
    <3>2. FieldClass(f, i, base, Innermost) =
            IF Outside(f, i, base) THEN "NONE" ELSE Merged(InnermostOf(f, i, base))
      BY <1>2, ArrayFieldClass
    <3>3. ~Outside(f, i, base)
            => InnermostOf(f, i, base) = {K[j] : j \in Elements(f, i, base + f.offset)}
      BY <1>2, ArrayElements DEF InnermostOf, at
    <3> HIDE DEF K, A
    <3>4. InElements(A, f, base)
      BY <2>3 DEF at, InElements
    <3>5. ArrayClass(K, f, i, base) \in U <=> SomeIn(A, f, i, U)
      BY <1>2, <3>1, <3>4, ArrayRight
    <3>6. SomeIn(A, f, i, U) <=> \E j \in 0..(f.len - 1) : \E s \in A[j] : ScalarIn(s, i) \in U
      BY DEF SomeIn
    <3>7. FieldClass(f, i, base, Innermost) = ArrayClass(K, f, i, base)
      BY <3>2, <3>3 DEF ArrayClass
    <3> QED
      BY <3>5, <3>6, <3>7
  <2> HIDE DEF A
  <2> QED
    BY <2>1, <2>4, <2>5
<1> QED
  BY <1>1, <1>2

LEMMA MiddleFields ==
  ASSUME NEW ag, ag.size \in Nat, NEW base \in Nat, base + ag.size <= 16, RegularInner(ag, base),
         NEW f \in Fields(ag)
  PROVE  /\ Between(ScalarsOf(f, base, InnermostScalars), base, base + ag.size)
         /\ \A i \in {0, 1} : \A U \in Tops :
              FieldClass(f, i, base, Innermost) \in U
              <=> \E s \in ScalarsOf(f, base, InnermostScalars) : ScalarIn(s, i) \in U
<1>1. Inside(f, ag) /\ (Simple(f) \/ (Nests(f, base) /\ RegularInnermost(f.sub)))
  BY DEF RegularInner
<1>2. /\ Simple(f) \/ SubArray(f, base)
      /\ Fits(f, base)
      /\ base <= base + f.offset /\ base + f.offset \in Nat
      /\ base + f.offset + FieldSize(f) * f.len \in Nat
      /\ base + f.offset + FieldSize(f) * f.len <= base + ag.size
  BY <1>1, FieldFits
<1>3. Simple(f) \/ (SubArray(f, base) /\ RegularInnermost(f.sub))
  <2>1. f.type = "aggr" => ~Simple(f)
    BY DEF Simple, FieldSizes
  <2>2. SubArray(f, base) => f.type = "aggr"
    BY DEF SubArray
  <2> QED
    BY <1>1, <1>2, <2>1, <2>2
<1>4. /\ Between(ScalarsOf(f, base, InnermostScalars),
                 base + f.offset, base + f.offset + FieldSize(f) * f.len)
      /\ \A i \in {0, 1} : \A U \in Tops :
           FieldClass(f, i, base, Innermost) \in U
           <=> \E s \in ScalarsOf(f, base, InnermostScalars) : ScalarIn(s, i) \in U
  BY <1>2, <1>3, MiddleFieldRight
<1>5. base + ag.size \in Nat
  OBVIOUS
<1>6. Between(ScalarsOf(f, base, InnermostScalars), base, base + ag.size)
  BY <1>2, <1>4, <1>5, Widen
<1> QED
  BY <1>4, <1>6

LEMMA InnerRight ==
  ASSUME NEW ag, ag.size \in Nat, NEW base \in Nat, base + ag.size <= 16, RegularInner(ag, base)
  PROVE  /\ Between(InnerScalars(ag, base), base, base + ag.size)
         /\ \A i \in {0, 1} : \A U \in Tops :
              Inner(ag, i, base) \in U <=> \E s \in InnerScalars(ag, base) : ScalarIn(s, i) \in U
<1> DEFINE scalars(f) == ScalarsOf(f, base, InnermostScalars)
           class(f, i) == FieldClass(f, i, base, Innermost)
<1>1. \A f \in Fields(ag) :
        /\ Between(scalars(f), base, base + ag.size)
        /\ \A i \in {0, 1} : \A U \in Tops :
             class(f, i) \in U <=> \E s \in scalars(f) : ScalarIn(s, i) \in U
  BY MiddleFields
<1>2. InnerScalars(ag, base) = UNION {scalars(f) : f \in Fields(ag)}
  BY DEF InnerScalars
<1>3. \A i \in {0, 1} : Inner(ag, i, base) = Merged({class(f, i) : f \in Fields(ag)})
  BY DEF Inner
<1> HIDE DEF scalars, class
<1>4. Between(InnerScalars(ag, base), base, base + ag.size)
  BY <1>1, <1>2 DEF Between
<1>5. ASSUME NEW i \in {0, 1}, NEW U \in Tops
      PROVE  Inner(ag, i, base) \in U <=> \E s \in InnerScalars(ag, base) : ScalarIn(s, i) \in U
  <2>1. Inner(ag, i, base) \in U <=> \E f \in Fields(ag) : class(f, i) \in U
    BY <1>3, MergedUp
  <2> QED
    BY <1>1, <1>2, <2>1
<1> QED
  BY <1>4, <1>5

-----------------------------------------------------------------------------
(* A field of an aggregate that is passed.                                  *)

LEMMA OuterFieldRight ==
  ASSUME NEW ag, ag.size \in 0..16, NEW f, RegularField(f, ag)
  PROVE  /\ Between(ScalarsOf(f, 0, InnerScalars), 0, ag.size)
         /\ \A i \in {0, 1} : \A U \in Tops :
              FieldClass(f, i, 0, Inner) \in U
              <=> \E s \in ScalarsOf(f, 0, InnerScalars) : ScalarIn(s, i) \in U
<1>1. /\ Simple(f) \/ SubArray(f, 0)
      /\ Fits(f, 0)
      /\ 0 <= 0 + f.offset /\ 0 + f.offset \in Nat
      /\ 0 + f.offset + FieldSize(f) * f.len \in Nat
      /\ 0 + f.offset + FieldSize(f) * f.len <= 0 + ag.size
  <2>1. ag.size \in Nat /\ 0 + ag.size <= 16 /\ 0 \in Nat
    OBVIOUS
  <2> QED
    BY <2>1, FieldFits DEF RegularField
<1>2. ASSUME Between(ScalarsOf(f, 0, InnerScalars),
                     0 + f.offset, 0 + f.offset + FieldSize(f) * f.len)
      PROVE  Between(ScalarsOf(f, 0, InnerScalars), 0, ag.size)
  <2>1. 0 \in Nat /\ ag.size \in Nat /\ 0 + f.offset + FieldSize(f) * f.len <= ag.size
    <3>1. 0 + ag.size = ag.size /\ ag.size \in Nat
      OBVIOUS
    <3> QED
      BY <1>1, <3>1
  <2> QED
    BY <1>1, <1>2, <2>1, Widen
<1>3. CASE Simple(f)
  <2>1. ScalarsOf(f, 0, InnerScalars) = Elems(f, 0)
    BY <1>3, SimpleScalars
  <2>2. Between(Elems(f, 0), 0 + f.offset, 0 + f.offset + FieldSize(f) * f.len)
    BY <1>1, <1>3, SimpleBetween
  <2>3. ASSUME NEW i \in {0, 1}, NEW U \in Tops
        PROVE  FieldClass(f, i, 0, Inner) \in U <=> \E s \in Elems(f, 0) : ScalarIn(s, i) \in U
    BY <1>1, <1>3, SimpleFieldClass, SimpleRight
  <2> QED
    BY <1>2, <2>1, <2>2, <2>3
<1>4. CASE ~Simple(f)
  <2> DEFINE at(j) == 0 + f.offset + f.sub.size * j
             A == [j \in 0..(f.len - 1) |-> InnerScalars(f.sub, at(j))]
  <2>0. SubArray(f, 0)
    BY <1>1, <1>4
  <2>1. ScalarsOf(f, 0, InnerScalars) = UNION {A[j] : j \in 0..(f.len - 1)}
    <3>1. ScalarsOf(f, 0, InnerScalars) =
            UNION {InnerScalars(f.sub, at(j)) : j \in 0..(f.len - 1)}
      BY <2>0, ArrayScalars, Zenon
    <3> HIDE DEF at
    <3>2. {InnerScalars(f.sub, at(j)) : j \in 0..(f.len - 1)} = {A[j] : j \in 0..(f.len - 1)}
      OBVIOUS
    <3> QED
      BY <3>1, <3>2
  <2>2. f.sub.size \in Nat /\ \A j \in 0..(f.len - 1) : at(j) \in Nat /\ at(j) + f.sub.size <= 16
    BY <2>0, ArrayNumbers
  <2>3. \A j \in 0..(f.len - 1) : RegularInner(f.sub, at(j))
    <3>1. \A j \in 0..(f.len - 1) : RegularInner(f.sub, f.offset + f.sub.size * j)
      BY <1>4 DEF RegularField
    <3>2. 0 + f.offset = f.offset
      BY <1>1 DEF Fits
    <3> QED
      BY <3>1, <3>2
  <2> HIDE DEF at
  <2>4. \A j \in 0..(f.len - 1) : Between(A[j], at(j), at(j) + f.sub.size)
    BY <2>2, <2>3, InnerRight
  <2>5. Between(UNION {A[j] : j \in 0..(f.len - 1)},
                0 + f.offset, 0 + f.offset + FieldSize(f) * f.len)
    <3> HIDE DEF A
    <3>1. InElements(A, f, 0)
      BY <2>4 DEF at, InElements
    <3> QED
      BY <2>0, <3>1, ArrayBetween
  <2>6. ASSUME NEW i \in {0, 1}, NEW U \in Tops
        PROVE  FieldClass(f, i, 0, Inner) \in U
               <=> \E j \in 0..(f.len - 1) : \E s \in A[j] : ScalarIn(s, i) \in U
    <3> DEFINE K == [j \in 0..(f.len - 1) |-> Inner(f.sub, i, at(j))]
    <3>1. ElementsRight(K, A, f, i, U)
      BY <2>2, <2>3, InnerRight DEF ElementsRight
    <3>2. FieldClass(f, i, 0, Inner) =
            IF Outside(f, i, 0) THEN "NONE" ELSE Merged(InnerOf(f, i, 0))
      BY <2>0, ArrayFieldClass
    <3>3. ~Outside(f, i, 0) => InnerOf(f, i, 0) = {K[j] : j \in Elements(f, i, 0 + f.offset)}
      BY <2>0, ArrayElements DEF InnerOf, at
    <3> HIDE DEF K, A
    <3>4. InElements(A, f, 0)
      BY <2>4 DEF at, InElements
    <3>5. ArrayClass(K, f, i, 0) \in U <=> SomeIn(A, f, i, U)
      BY <2>0, <3>1, <3>4, ArrayRight
    <3>6. SomeIn(A, f, i, U) <=> \E j \in 0..(f.len - 1) : \E s \in A[j] : ScalarIn(s, i) \in U
      BY DEF SomeIn
    <3>7. FieldClass(f, i, 0, Inner) = ArrayClass(K, f, i, 0)
      BY <3>2, <3>3 DEF ArrayClass
    <3> QED
      BY <3>5, <3>6, <3>7
  <2> HIDE DEF A
  <2> QED
    BY <1>2, <2>1, <2>5, <2>6
<1> QED
  BY <1>3, <1>4

LEMMA ClassRight ==
  ASSUME NEW ag, ag.size \in 0..16, \A f \in Fields(ag) : RegularField(f, ag)
  PROVE  /\ Between(AllScalars(ag), 0, ag.size)
         /\ \A i \in {0, 1} : \A U \in Tops :
              ClassOf8byte(ag, i) \in U <=> \E s \in AllScalars(ag) : ScalarIn(s, i) \in U
<1> DEFINE scalars(f) == ScalarsOf(f, 0, InnerScalars)
           class(f, i) == FieldClass(f, i, 0, Inner)
<1>1. \A f \in Fields(ag) :
        /\ Between(scalars(f), 0, ag.size)
        /\ \A i \in {0, 1} : \A U \in Tops :
             class(f, i) \in U <=> \E s \in scalars(f) : ScalarIn(s, i) \in U
  BY OuterFieldRight
<1>2. AllScalars(ag) = UNION {scalars(f) : f \in Fields(ag)}
  BY DEF AllScalars
<1>3. \A i \in {0, 1} : ClassOf8byte(ag, i) = Merged({class(f, i) : f \in Fields(ag)})
  BY DEF ClassOf8byte
<1> HIDE DEF scalars, class
<1>4. Between(AllScalars(ag), 0, ag.size)
  BY <1>1, <1>2 DEF Between
<1>5. ASSUME NEW i \in {0, 1}, NEW U \in Tops
      PROVE  ClassOf8byte(ag, i) \in U <=> \E s \in AllScalars(ag) : ScalarIn(s, i) \in U
  <2>1. ClassOf8byte(ag, i) \in U <=> \E f \in Fields(ag) : class(f, i) \in U
    BY <1>3, MergedUp
  <2> QED
    BY <1>1, <1>2, <2>1
<1> QED
  BY <1>4, <1>5

\* A class that can be told apart by Tops is one of the four.
LEMMA TopsTell ==
  ASSUME NEW c \in {"MEMORY", "INTEGER", "SSE", "NONE"}, NEW d \in {"MEMORY", "INTEGER", "SSE", "NONE"},
         \A U \in Tops : c \in U <=> d \in U
  PROVE  c = d
<1>1. /\ c \in {"MEMORY"} <=> d \in {"MEMORY"}
      /\ c \in {"MEMORY", "INTEGER"} <=> d \in {"MEMORY", "INTEGER"}
      /\ c \in {"MEMORY", "INTEGER", "SSE"} <=> d \in {"MEMORY", "INTEGER", "SSE"}
  BY DEF Tops
<1> QED
  BY <1>1

\* Every scalar of an aggregate of at most 16 bytes reaches into an eightbyte.
LEMMA Reaches ==
  ASSUME NEW size \in 0..16, NEW S, Between(S, 0, size), NEW s \in S
  PROVE  \E i \in {0, 1} : s.at < 8 * i + 8 /\ s.at + FieldSizes[s.type] > 8 * i
<1>1. PICK a \in Nat, z \in {1, 2, 4, 8} : a = s.at /\ z = FieldSizes[s.type] /\ a + z <= size
  BY ScalarSizes DEF Between
<1>2. CASE a < 8
  <2>1. a < 8 * 0 + 8 /\ a + z > 8 * 0
    BY <1>2
  <2> QED
    BY <1>1, <2>1
<1>3. CASE a >= 8
  <2>1. a < 8 * 1 + 8 /\ a + z > 8 * 1
    BY <1>1, <1>3
  <2> QED
    BY <1>1, <2>1
<1> QED
  BY <1>2, <1>3

\* The classes that the code computes for a regular aggregate, by a recursion over
\* fields and elements with offsets that are cut to an int, are those the ABI gives
\* to its scalars.
THEOREM RegularClasses == \A ag : Regular(ag) => SysvClasses(ag) = AbiClasses(ag)
<1> SUFFICES ASSUME NEW ag, Regular(ag) PROVE SysvClasses(ag) = AbiClasses(ag)
  OBVIOUS
<1> DEFINE class(i)   == ClassOf8byte(ag, i)
           misaligned == \E s \in AllScalars(ag) : s.at % FieldSizes[s.type] # 0
<1>1. CASE ag.size > 16
  BY <1>1 DEF SysvClasses, AbiClasses
<1>2. CASE ag.size \in 0..16
  <2>1. /\ Between(AllScalars(ag), 0, ag.size)
        /\ \A i \in {0, 1} : \A U \in Tops :
             class(i) \in U <=> \E s \in AllScalars(ag) : ScalarIn(s, i) \in U
    BY <1>2, ClassRight DEF Regular
  <2>2. \A s \in AllScalars(ag) :
          \E i \in {0, 1} : s.at < 8 * i + 8 /\ s.at + FieldSizes[s.type] > 8 * i
    BY <1>2, <2>1, Reaches
  <2>3. \A s, i : ScalarIn(s, i) = "MEMORY"
                  <=> /\ s.at < 8 * i + 8 /\ s.at + FieldSizes[s.type] > 8 * i
                      /\ s.at % FieldSizes[s.type] # 0
    BY DEF ScalarIn, ScalarClass
  <2>4. misaligned <=> "MEMORY" \in {class(0), class(1)}
    <3>1. \A i \in {0, 1} : class(i) = "MEMORY" <=> \E s \in AllScalars(ag) : ScalarIn(s, i) = "MEMORY"
      <4>1. {"MEMORY"} \in Tops
        BY DEF Tops
      <4> QED
        BY <2>1, <4>1
    <3> HIDE DEF class
    <3> QED
      BY <2>2, <2>3, <3>1
  <2>5. CASE misaligned
    BY <1>2, <2>4, <2>5 DEF SysvClasses, AbiClasses
  <2>6. CASE ~misaligned
    <3>1. ASSUME NEW i \in {0, 1} PROVE class(i) = AbiClass(ag, i)
      <4> DEFINE There == {x \in AllScalars(ag) : x.at < 8 * i + 8 /\
                                                  x.at + FieldSizes[x.type] > 8 * i}
                 T == {ScalarClass(s.type) : s \in There}
      <4>1. AbiClass(ag, i) = Merged(T)
        BY DEF AbiClass
      <4>2. ASSUME NEW U \in Tops PROVE class(i) \in U <=> Merged(T) \in U
        <5>1. Merged(T) \in U <=> \E s \in There : ScalarClass(s.type) \in U
          <6>1. Merged(T) \in U <=> \E t \in T : t \in U
            <7> HIDE DEF T
            <7> QED
              BY MergedUp
          <6> QED
            BY <6>1
        <5>2. \A s \in AllScalars(ag) :
                ScalarIn(s, i) = IF s \in There THEN ScalarClass(s.type) ELSE "NONE"
          BY <2>6 DEF ScalarIn
        <5>3. "NONE" \notin U
          BY DEF Tops
        <5>4. There \subseteq AllScalars(ag)
          OBVIOUS
        <5> HIDE DEF There, T, class
        <5> QED
          BY <2>1, <5>1, <5>2, <5>3, <5>4
      <4>3. class(i) \in {"MEMORY", "INTEGER", "SSE", "NONE"}
        BY MergedKinds DEF ClassOf8byte
      <4> HIDE DEF class, T
      <4> QED
        BY <4>1, <4>2, <4>3, MergedKinds, TopsTell
    <3>2. class(0) # "NONE"
      <4>1. PICK s \in AllScalars(ag) : s.at < 8
        BY DEF Regular
      <4>2. s.at + FieldSizes[s.type] > 0 /\ s.at < 8 * 0 + 8
        <5>1. s.at \in Nat /\ FieldSizes[s.type] \in {1, 2, 4, 8}
          BY <2>1, ScalarSizes DEF Between
        <5> QED
          BY <4>1, <5>1
      <4>3. ScalarIn(s, 0) = ScalarClass(s.type)
        BY <2>6, <4>2 DEF ScalarIn
      <4>4. ScalarIn(s, 0) \in {"MEMORY", "INTEGER", "SSE"}
        BY <4>3 DEF ScalarClass
      <4>5. {"MEMORY", "INTEGER", "SSE"} \in Tops
        BY DEF Tops
      <4> HIDE DEF class
      <4> QED
        BY <2>1, <4>4, <4>5
    <3>3. SysvClasses(ag) = BeforeNone(<<class(0), class(1)>>)
      <4>1. ~(ag.size > 16)
        BY <1>2
      <4> QED
        BY <2>4, <2>6, <4>1 DEF SysvClasses
    <3>4. AbiClasses(ag) = Present(<<AbiClass(ag, 0), AbiClass(ag, 1)>>)
      <4>1. ~(ag.size > 16)
        BY <1>2
      <4> QED
        BY <2>6, <4>1 DEF AbiClasses
    <3> HIDE DEF class
    <3>5. BeforeNone(<<class(0), class(1)>>) = Present(<<class(0), class(1)>>)
      BY <3>2 DEF BeforeNone
    <3> QED
      BY <3>1, <3>3, <3>4, <3>5
  <2> HIDE DEF misaligned
  <2> QED
    BY <2>5, <2>6
<1>3. ag.size > 16 \/ ag.size \in 0..16
  BY DEF Regular
<1> QED
  BY <1>1, <1>2, <1>3

\* Where the aggregates are regular, the classes by which the System V backend
\* puts one into registers are those of the ABI: the eightbytes of the caller and
\* of dcbReturnAggr are the ones that compiled code on the other side uses.
THEOREM ClassesAgree ==
  ASSUME \A ag \in Aggregates : ~ag.nontrivial => ag.classes = SysvClasses(ag.of) /\ Regular(ag.of)
  PROVE  Spec => []ClassesRight
<1> DEFINE Taken == result \in Results(abi)
<1>1. Init => Taken
  BY DEF Init
<1>2. Taken /\ [Next]_vars => Taken'
  BY DEF Next, Pass, vars
<1>3. Taken => ClassesRight
  <2> SUFFICES ASSUME Taken, abi = "sysv", result # NoAggr, ~result.nontrivial
               PROVE  result.classes = AbiClasses(result.of)
    BY DEF ClassesRight
  <2>1. result \in Aggregates
    BY DEF Results
  <2> QED
    BY <2>1, RegularClasses
<1> HIDE DEF Taken
<1> QED
  BY <1>1, <1>2, <1>3, PTL DEF Spec
=============================================================================
