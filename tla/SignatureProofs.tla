--------------------------- MODULE SignatureProofs ---------------------------
(* The readers of a signature agree on its aggregates, for every text, every *)
(* set of type characters and every set of registered aggregates.            *)
EXTENDS SignatureProps, SequenceTheorems, WellFoundedInduction, TLAPS

USE CharAssumption

Char == STRING
Line == Seq(Char)

LEMMA WrittenChars == "_" \in Char /\ "e" \in Char /\ "." \in Char /\ "p" \in Char /\ "A" \in Char
BY WrittenAssumption, Zenon DEF Char

-----------------------------------------------------------------------------
(* What First and Past return.                                               *)

\* A set of places has a first one.
LEMMA FirstPlace ==
  ASSUME NEW U, U \subseteq Nat, U # {}
  PROVE  \E k \in U : \A m \in U : k <= m
<1>1. PICK k \in U : \A m \in U : ~(<<m, k>> \in OpToRel(<, Nat))
  BY NatLessThanWellFounded, WFMin, Zenon
<1>2. \A m \in U : ~(m < k)
  BY <1>1 DEF OpToRel
<1> QED BY <1>2

LEMMA FirstFound ==
  ASSUME NEW s \in Line, NEW from \in Nat \ {0}, NEW chars
  PROVE  /\ First(s, from, chars) \in Nat \ {0}
         /\ First(s, from, chars) <= Len(s) =>
              /\ First(s, from, chars) \in from..Len(s)
              /\ s[First(s, from, chars)] \in chars
         /\ \A m \in from..Len(s) : m < First(s, from, chars) => s[m] \notin chars
<1> DEFINE U == {k \in from..Len(s) : s[k] \in chars}
<1>1. Len(s) \in Nat
  BY DEF Line
<1>2. CASE U = {}
  BY <1>1, <1>2 DEF First
<1>3. CASE U # {}
  <2>1. PICK k \in U : \A m \in U : k <= m
    <3>1. U \subseteq Nat
      BY <1>1
    <3> QED BY <3>1, <1>3, FirstPlace
  <2>2. \E j \in from..Len(s) : s[j] \in chars /\ \A m \in from..j - 1 : s[m] \notin chars
    BY <1>1, <2>1
  <2>3. First(s, from, chars) =
          CHOOSE j \in from..Len(s) : s[j] \in chars /\ \A m \in from..j - 1 : s[m] \notin chars
    BY <2>1 DEF First
  <2>4. /\ First(s, from, chars) \in from..Len(s)
        /\ s[First(s, from, chars)] \in chars
        /\ \A m \in from..First(s, from, chars) - 1 : s[m] \notin chars
    BY <2>2, <2>3
  <2> QED BY <1>1, <2>4
<1> QED BY <1>2, <1>3

LEMMA PastFound ==
  ASSUME NEW s \in Line, NEW from \in Nat \ {0}, NEW chars
  PROVE  /\ Past(s, from, chars) \in Nat \ {0}
         /\ Past(s, from, chars) <= Len(s) =>
              /\ Past(s, from, chars) \in from..Len(s)
              /\ s[Past(s, from, chars)] \notin chars
         /\ \A m \in from..Len(s) : m < Past(s, from, chars) => s[m] \in chars
<1> DEFINE U == {k \in from..Len(s) : s[k] \notin chars}
<1>1. Len(s) \in Nat
  BY DEF Line
<1>2. CASE U = {}
  BY <1>1, <1>2 DEF Past
<1>3. CASE U # {}
  <2>1. PICK k \in U : \A m \in U : k <= m
    <3>1. U \subseteq Nat
      BY <1>1
    <3> QED BY <3>1, <1>3, FirstPlace
  <2>2. \E j \in from..Len(s) : s[j] \notin chars /\ \A m \in from..j - 1 : s[m] \in chars
    BY <1>1, <2>1
  <2>3. Past(s, from, chars) =
          CHOOSE j \in from..Len(s) : s[j] \notin chars /\ \A m \in from..j - 1 : s[m] \in chars
    BY <2>1 DEF Past
  <2>4. /\ Past(s, from, chars) \in from..Len(s)
        /\ s[Past(s, from, chars)] \notin chars
        /\ \A m \in from..Past(s, from, chars) - 1 : s[m] \in chars
    BY <2>2, <2>3
  <2> QED BY <1>1, <2>4
<1> QED BY <1>2, <1>3

\* No character that a reader looks for is the end of the string.
LEMMA NotTheEnd == \A ch \in {"*", "<", ">", ")", "_", "A", "p"} : ch # Nul
BY Zenon DEF Nul

\* R code looks for the '>' behind a name, C code for the end of an identifier:
\* where C finds a '>', both have found the same one.
LEMMA SameName ==
  ASSUME NEW s \in Line, NEW from \in Nat \ {0}, At(s, Past(s, from, Alnum)) = ">"
  PROVE  First(s, from, {">"}) = Past(s, from, Alnum) /\ Past(s, from, Alnum) <= Len(s)
<1> DEFINE e == Past(s, from, Alnum)
           f == First(s, from, {">"})
<1>1. Len(s) \in Nat
  BY DEF Line
<1>2. e \in from..Len(s) /\ s[e] = ">" /\ \A m \in from..Len(s) : m < e => s[m] \in Alnum
  <2>1. e \in 1..Len(s) /\ s[e] = ">"
    BY NotTheEnd DEF At
  <2> HIDE DEF e
  <2> QED BY <1>1, <2>1, PastFound DEF e
<1>3. /\ f \in Nat \ {0}
      /\ f <= Len(s) => f \in from..Len(s) /\ s[f] = ">"
      /\ \A m \in from..Len(s) : m < f => s[m] # ">"
  BY <1>1, FirstFound
<1> HIDE DEF e, f
<1>4. ~(e < f)
  BY <1>1, <1>2, <1>3
<1>5. ~(f < e)
  BY <1>1, <1>2, <1>3
<1> QED BY <1>1, <1>2, <1>3, <1>4, <1>5 DEF e, f

LEMMA AtIsChar ==
  ASSUME NEW s \in Line, NEW k \in Int, At(s, k) # Nul
  PROVE  k \in 1..Len(s) /\ k <= Len(s) /\ At(s, k) = s[k] /\ s[k] \in Char
<1>1. k \in 1..Len(s) /\ At(s, k) = s[k]
  BY DEF At
<1>2. Len(s) \in Nat
  BY DEF Line
<1> QED BY <1>1, <1>2, ElementOfSeq DEF Line

LEMMA PieceIsLine ==
  ASSUME NEW s \in Line, NEW i \in Nat \ {0}, NEW j \in Int, j <= Len(s)
  PROVE  SubSeq(s, i, j) \in Line
<1>1. \A k \in i..j : s[k] \in Char
  BY ElementOfSeq DEF Line
<1> QED BY <1>1, SubSeqProperties DEF Line

-----------------------------------------------------------------------------
(* The way of the R reader through a text: where it was after each turn of   *)
(* its loop, with how many stars, and how many layouts it had made.          *)

Point == [pos : Nat \ {0}, stars : Nat, n : Nat]
Begin(t) == IF Len(t) >= 2 /\ Prefixed(t) THEN 3 ELSE 1
NameAt(t, k) == SubSeq(t, k + 1, First(t, k + 1, {">"}) - 1)

Turn(t, a, b) ==
  /\ a.pos <= Len(t) /\ At(t, a.pos) # ")"
  /\ b = CASE At(t, a.pos) = "*" -> [pos |-> a.pos + 1, stars |-> a.stars + 1, n |-> a.n]
           [] At(t, a.pos) = "<" ->
                [pos |-> First(t, a.pos + 1, {">"}) + 1, stars |-> 0,
                 n |-> IF a.stars = 0 THEN a.n + 1 ELSE a.n]
           [] At(t, a.pos) = "_" -> [pos |-> a.pos + 2, stars |-> 0, n |-> a.n]
           [] OTHER              -> [pos |-> a.pos + 1, stars |-> 0, n |-> a.n]

\* The layouts f hold what a turn at this point has made.
Laid(t, f, a) ==
  At(t, a.pos) = "<" /\ a.stars = 0 => a.n < Len(f) /\ f[a.n + 1] = NameAt(t, a.pos)

Trail(t, f, h) ==
  /\ h \in Seq(Point) /\ Len(h) > 0
  /\ h[1] = [pos |-> Begin(t), stars |-> 0, n |-> 0]
  /\ \A i \in 1..Len(h) - 1 : Turn(t, h[i], h[i + 1]) /\ Laid(t, f, h[i])

LEMMA TrailBegins ==
  ASSUME NEW t, NEW f
  PROVE  Trail(t, f, <<[pos |-> Begin(t), stars |-> 0, n |-> 0]>>)
<1>1. [pos |-> Begin(t), stars |-> 0, n |-> 0] \in Point
  BY DEF Point, Begin
<1> QED BY <1>1 DEF Trail

\* A layout found stays where it is when layouts are made.
LEMMA LaidOn ==
  ASSUME NEW t, NEW f \in Seq(Line), NEW g \in Seq(Line), Len(g) >= Len(f),
         \A j \in 1..Len(f) : g[j] = f[j],
         NEW a, a.n \in Nat, Laid(t, f, a)
  PROVE  Laid(t, g, a)
<1>1. ASSUME NEW n \in Nat, n < Len(f) PROVE n < Len(g) /\ g[n + 1] = f[n + 1]
  BY <1>1
<1>2. SUFFICES ASSUME At(t, a.pos) = "<", a.stars = 0
               PROVE  a.n < Len(g) /\ g[a.n + 1] = NameAt(t, a.pos)
  BY DEF Laid
<1>3. a.n < Len(f) /\ f[a.n + 1] = NameAt(t, a.pos)
  BY <1>2 DEF Laid
<1>4. a.n < Len(g) /\ g[a.n + 1] = f[a.n + 1]
  BY <1>1, <1>3
<1> QED BY <1>3, <1>4

\* One more turn, which may make one more layout.
LEMMA TrailGrows ==
  ASSUME NEW t, NEW f \in Seq(Line), NEW g \in Seq(Line), Len(g) >= Len(f),
         \A j \in 1..Len(f) : g[j] = f[j],
         NEW h, Trail(t, f, h), NEW b \in Point,
         Turn(t, h[Len(h)], b), Laid(t, g, h[Len(h)])
  PROVE  Trail(t, g, Append(h, b)) /\ Append(h, b)[Len(Append(h, b))] = b
<1> DEFINE k == Append(h, b)
<1>1. h \in Seq(Point) /\ Len(h) \in Nat \ {0}
  BY DEF Trail
<1>2. /\ k \in Seq(Point) /\ Len(k) = Len(h) + 1
      /\ k[Len(h) + 1] = b /\ \A i \in 1..Len(h) : k[i] = h[i]
  BY <1>1
<1>3. ASSUME NEW i \in 1..Len(k) - 1
      PROVE  Turn(t, k[i], k[i + 1]) /\ Laid(t, g, k[i])
  <2>1. CASE i = Len(h)
    BY <1>1, <1>2, <2>1
  <2>2. CASE i < Len(h)
    <3>1. i \in 1..Len(h) - 1 /\ i + 1 \in 1..Len(h)
      BY <1>1, <2>2
    <3>2. k[i] = h[i] /\ k[i + 1] = h[i + 1]
      BY <1>2, <3>1
    <3>3. Turn(t, h[i], h[i + 1]) /\ Laid(t, f, h[i])
      BY <3>1 DEF Trail
    <3>4. h[i].n \in Nat
      <4>1. h[i] \in Point
        BY <1>1, <3>1, ElementOfSeq
      <4> QED BY <4>1 DEF Point
    <3>5. Laid(t, g, h[i])
      BY <3>3, <3>4, LaidOn
    <3> QED BY <3>2, <3>3, <3>5
  <2> QED BY <1>1, <1>2, <2>1, <2>2
<1> HIDE DEF k
<1>4. k[1] = h[1] /\ Len(k) > 0
  BY <1>1, <1>2
<1>5. Trail(t, g, k)
  BY <1>2, <1>3, <1>4 DEF Trail
<1> QED BY <1>2, <1>5 DEF k

-----------------------------------------------------------------------------
(* The inductive invariant of a call.                                        *)

ResultName(t, k) == IF At(t, k) = "<" THEN NameAt(t, k) ELSE NoName

LayoutsInv ==
  reader = "layouts" =>
    /\ pos \in Nat \ {0} /\ stars \in Nat /\ found \in Seq(Line) /\ used = 0
    /\ \E h : Trail(text, found, h) /\ h[Len(h)] = [pos |-> pos, stars |-> stars, n |-> Len(found)]

\* Native code stands on a point of the same way.
OnTrail(h, i) ==
  /\ Trail(text, found, h) /\ i \in 1..Len(h)
  /\ h[i] = [pos |-> pos, stars |-> stars, n |-> used]
  /\ h[Len(h)].n = Len(found)
  /\ At(text, h[Len(h)].pos) = ")" \/ h[Len(h)].pos > Len(text)
  /\ h[Len(h)].pos <= Len(text) + 1
  /\ At(text, h[Len(h)].pos) = ")" => back = ResultName(text, h[Len(h)].pos + 1)
LoadsInv ==
  reader = "loads" =>
    /\ pos \in Nat \ {0} /\ stars \in Nat /\ used \in Nat /\ found \in Seq(Line)
    /\ \E h, i : OnTrail(h, i)

ResultInv ==
  reader = "result" => /\ pos \in Nat \ {0} /\ used = Len(found)
                       /\ back = ResultName(text, pos) /\ pos <= Len(text) + 1

\* Which texts a reader has.
Forwarded ==
  /\ text \in Line /\ reader # "internal"
  /\ reader \in {"rewrite", "fetch", "answer"} => form = "callback"
  /\ reader \in {"tokens", "lengths", "fields"} => form \in {"types", "tail"}
  /\ reader = "done" /\ form \in {"call", "variadic"} => used = Len(found)

CallInv == Forwarded /\ LayoutsInv /\ LoadsInv /\ ResultInv

\* What the actions of a reader leave to show.
LEMMA Stopped ==
  ASSUME CallInv, NEW how \in {"refused", "invalid", "beyond"}, Stop(how), UNCHANGED inputs
  PROVE  CallInv'
BY DEF CallInv, Forwarded, LayoutsInv, LoadsInv, ResultInv, Stop, inputs

\* One turn of the R reader.
LEMMA LayoutsTurn ==
  ASSUME CallInv, reader = "layouts", reader' = "layouts", UNCHANGED inputs, used' = used,
         pos' \in Nat \ {0}, stars' \in Nat, found' \in Seq(Line), Len(found') >= Len(found),
         \A j \in 1..Len(found) : found'[j] = found[j],
         LET a == [pos |-> pos, stars |-> stars, n |-> Len(found)]
             b == [pos |-> pos', stars |-> stars', n |-> Len(found')]
         IN  Turn(text, a, b) /\ Laid(text, found', a)
  PROVE  CallInv'
<1> DEFINE b == [pos |-> pos', stars |-> stars', n |-> Len(found')]
<1>1. PICK h : /\ Trail(text, found, h)
               /\ h[Len(h)] = [pos |-> pos, stars |-> stars, n |-> Len(found)]
  BY DEF CallInv, LayoutsInv
<1>2. b \in Point
  BY DEF Point
<1>3. found \in Seq(Line)
  BY DEF CallInv, LayoutsInv
<1> HIDE DEF b
<1>4. Turn(text, h[Len(h)], b) /\ Laid(text, found', h[Len(h)])
  BY <1>1 DEF b
<1>5. Trail(text, found', Append(h, b)) /\ Append(h, b)[Len(Append(h, b))] = b
  BY <1>1, <1>2, <1>3, <1>4, TrailGrows, SMTT(60)
<1>6. LayoutsInv'
  BY <1>5 DEF b, LayoutsInv, CallInv, inputs
<1> QED BY <1>6 DEF CallInv, Forwarded, LoadsInv, ResultInv, inputs

LEMMA LayoutsStarKeeps == CallInv /\ LayoutsStar /\ UNCHANGED inputs => CallInv'
<1> SUFFICES ASSUME CallInv, LayoutsStar, UNCHANGED inputs PROVE CallInv'
  OBVIOUS
<1>1. pos \in Nat \ {0} /\ stars \in Nat /\ found \in Seq(Line) /\ reader = "layouts" /\ text \in Line
  BY DEF CallInv, LayoutsInv, LayoutsStar, Reads, Forwarded
<1>2. At(text, pos) = "*" /\ pos <= Len(text)
  <2>1. At(text, pos) = "*" /\ At(text, pos) # Nul
    BY NotTheEnd DEF LayoutsStar, Reads
  <2> QED BY <1>1, <2>1, AtIsChar
<1>3. pos' = pos + 1 /\ stars' = stars + 1 /\ found' = found /\ used' = used /\ reader' = reader
  BY DEF LayoutsStar, Goes
<1> QED BY <1>1, <1>2, <1>3, LayoutsTurn DEF Turn, Laid

LEMMA LayoutsSkipKeeps == CallInv /\ LayoutsSkip /\ UNCHANGED inputs => CallInv'
<1> SUFFICES ASSUME CallInv, LayoutsSkip, UNCHANGED inputs PROVE CallInv'
  OBVIOUS
<1>1. pos \in Nat \ {0} /\ stars \in Nat /\ found \in Seq(Line) /\ reader = "layouts" /\ text \in Line
  BY DEF CallInv, LayoutsInv, LayoutsSkip, Forwarded
<1>2. At(text, pos) \notin {"*", "<", ")"} /\ pos <= Len(text)
  BY DEF LayoutsSkip
<1>3. /\ pos' = IF At(text, pos) = "_" THEN pos + 2 ELSE pos + 1
      /\ stars' = 0 /\ found' = found /\ used' = used /\ reader' = reader
  BY DEF LayoutsSkip, Goes
<1>6. pos' \in Nat \ {0}
  <2>1. pos' = pos + 1 \/ pos' = pos + 2
    BY <1>3
  <2> QED BY <1>1, <2>1
<1>7. /\ found' \in Seq(Line) /\ Len(found') >= Len(found)
      /\ \A j \in 1..Len(found) : found'[j] = found[j]
  <2>1. found' = found
    BY <1>3
  <2> QED BY <1>1, <2>1
<1> DEFINE a == [pos |-> pos, stars |-> stars, n |-> Len(found)]
           b == [pos |-> pos', stars |-> stars', n |-> Len(found')]
<1>4. /\ a.pos = pos /\ a.n = Len(found)
      /\ b = [pos |-> IF At(text, pos) = "_" THEN pos + 2 ELSE pos + 1, stars |-> 0, n |-> Len(found)]
  BY <1>3
<1>5. Turn(text, a, b) /\ Laid(text, found', a)
  BY <1>2, <1>4 DEF Turn, Laid
<1> HIDE DEF a, b
<1> QED BY <1>1, <1>3, <1>5, <1>6, <1>7, LayoutsTurn DEF a, b

LEMMA LayoutsAggregateKeeps == CallInv /\ LayoutsAggregate /\ UNCHANGED inputs => CallInv'
<1> SUFFICES ASSUME CallInv, LayoutsAggregate, UNCHANGED inputs PROVE CallInv'
  OBVIOUS
<1> DEFINE close == Close(text)
           name  == NameTo(text, close)
<1>1. pos \in Nat \ {0} /\ stars \in Nat /\ found \in Seq(Line) /\ reader = "layouts" /\ text \in Line
  BY DEF CallInv, LayoutsInv, LayoutsAggregate, Reads, Forwarded
<1>2. At(text, pos) = "<" /\ pos <= Len(text)
  <2>1. At(text, pos) = "<" /\ At(text, pos) # Nul
    BY NotTheEnd DEF LayoutsAggregate, Reads
  <2> QED BY <1>1, <2>1, AtIsChar
<1>3. CASE Stop("refused")
  BY <1>3, Stopped
<1>4. CASE /\ close <= Len(text)
           /\ Goes(close + 1) /\ stars' = 0 /\ used' = used
           /\ found' = IF stars = 0 THEN Append(found, name) ELSE found
  <2>1. close = First(text, pos + 1, {">"}) /\ close \in Nat \ {0} /\ name = NameAt(text, pos)
    BY <1>1, FirstFound DEF Close, NameTo, NameAt
  <2> HIDE DEF close, name
  <2>2. name \in Line
    BY <1>1, <1>4, <2>1, PieceIsLine DEF NameAt
  <2>3. pos' = close + 1 /\ reader' = reader
    BY <1>4 DEF Goes
  <2>4. CASE stars = 0
    <3>1. found' = Append(found, name)
      BY <1>4, <2>4
    <3>2. /\ found' \in Seq(Line) /\ Len(found') = Len(found) + 1
          /\ found'[Len(found) + 1] = name /\ \A j \in 1..Len(found) : found'[j] = found[j]
      BY <1>1, <2>2, <3>1
    <3> QED BY <1>1, <1>2, <1>4, <2>1, <2>3, <2>4, <3>2, LayoutsTurn DEF Turn, Laid
  <2>5. CASE stars # 0
    BY <1>1, <1>2, <1>4, <2>1, <2>3, <2>5, LayoutsTurn DEF Turn, Laid
  <2> QED BY <2>4, <2>5
<1> QED BY <1>3, <1>4 DEF LayoutsAggregate

\* Behind the arguments: the C reader begins where the R reader began.
LEMMA LayoutsResultKeeps == CallInv /\ LayoutsResult /\ UNCHANGED inputs => CallInv'
<1> SUFFICES ASSUME CallInv, LayoutsResult, UNCHANGED inputs PROVE CallInv'
  OBVIOUS
<1> DEFINE behind  == IF At(text, pos) = ")" THEN pos + 1 ELSE pos
           at      == Past(text, behind, {"*"})
           close   == First(text, at + 1, {">"})
           name    == SubSeq(text, at + 1, close - 1)
           byValue == At(text, at) = "<" /\ at = behind
           bad == \/ pos > Len(text) /\ (pos > Len(text) + 1 \/ At(text, pos - 1) # ")")
                  \/ At(text, at) = "<" /\ close > Len(text)
                  \/ byValue /\ name \notin Known
                  \/ Prefixed(text) /\ At(text, 2) \notin Modes
<1>1. /\ pos \in Nat \ {0} /\ stars \in Nat /\ found \in Seq(Line) /\ used = 0
      /\ reader = "layouts" /\ text \in Line /\ Len(text) \in Nat
  <2>1. reader = "layouts"
    BY DEF LayoutsResult
  <2>2. /\ pos \in Nat \ {0} /\ stars \in Nat /\ found \in Seq(Line) /\ used = 0 /\ text \in Line
    BY <2>1 DEF CallInv, LayoutsInv, Forwarded
  <2>3. Len(text) \in Nat
    BY <2>2 DEF Line
  <2> QED BY <2>1, <2>2, <2>3
<1>2. CASE Stop("refused")
  BY <1>2, Stopped
<1>3. CASE /\ ~bad
           /\ reader' = "loads" /\ stars' = 0 /\ found' = found /\ used' = used
           /\ back' = IF byValue THEN name ELSE NoName
           /\ pos' = IF Prefixed(text) THEN 3 ELSE 1
  <2>1. At(text, pos) = ")" \/ pos > Len(text)
    BY DEF LayoutsResult
  <2>2. behind \in Nat \ {0}
    BY <1>1
  <2>3. ASSUME At(text, behind) = "<" PROVE at = behind
    <3>1. behind <= Len(text) /\ text[behind] = "<"
      <4>1. At(text, behind) # Nul
        BY <2>3, NotTheEnd
      <4> QED BY <1>1, <2>2, <2>3, <4>1, AtIsChar
    <3>2. text[behind] \notin {"*"}
      BY <3>1
    <3>3. /\ at \in Nat \ {0} /\ (at <= Len(text) => at \in behind..Len(text))
          /\ \A m \in behind..Len(text) : m < at => text[m] \in {"*"}
      BY <1>1, <2>2, PastFound
    <3> HIDE DEF at, behind
    <3>4. ~(behind < at)
      BY <1>1, <2>2, <3>1, <3>2, <3>3
    <3> QED BY <1>1, <2>2, <3>1, <3>3, <3>4
  <2>4. back' = ResultName(text, behind)
    BY <1>3, <2>3 DEF ResultName, NameAt
  <2>5. pos' = Begin(text)
    <3>1. ASSUME Prefixed(text), ~(Len(text) >= 2) PROVE FALSE
      <4>1. At(text, 1) = "_" /\ At(text, 1) # Nul
        BY <3>1, NotTheEnd DEF Prefixed
      <4>2. 1 <= Len(text) /\ Len(text) <= 1
        <5>1. At(text, 1) # Nul /\ text \in Line /\ Len(text) \in Nat
          BY <1>1, <4>1
        <5>2. ~(Len(text) >= 2)
          BY <3>1
        <5>3. 1 <= Len(text)
          BY <5>1, AtIsChar
        <5>4. Len(text) \in Nat
          BY <5>1
        <5> QED BY <5>2, <5>3, <5>4
      <4>3. At(text, pos) # ")" /\ (pos > Len(text) => pos = 2 /\ At(text, pos - 1) = ")")
        <5>1. pos = 1 \/ pos > Len(text)
          BY <1>1, <4>2
        <5>2. pos > Len(text) => pos = 2 /\ At(text, pos - 1) = ")"
          BY <1>1, <1>3, <4>2
        <5>3. pos > Len(text) => At(text, pos) # ")"
          <6>1. pos > Len(text) => pos \notin 1..Len(text)
            BY <1>1
          <6> QED BY <6>1, NotTheEnd DEF At
        <5> QED BY <5>1, <5>2, <5>3, <4>1
      <4>4. pos = 2 /\ At(text, pos - 1) = ")"
        BY <2>1, <4>3
      <4>5. At(text, 1) = ")"
        BY <4>4
      <4> QED BY <4>1, <4>5
    <3> QED BY <1>3, <3>1 DEF Begin
  <2>6. PICK h : /\ Trail(text, found, h)
                 /\ h[Len(h)] = [pos |-> pos, stars |-> stars, n |-> Len(found)]
    BY <1>1 DEF CallInv, LayoutsInv
  <2>7. h[Len(h)].pos = pos /\ h[Len(h)].n = Len(found)
    BY <2>6
  <2>8. h[1] = [pos |-> pos', stars |-> stars', n |-> used'] /\ 1 \in 1..Len(h)
    BY <1>1, <1>3, <2>5, <2>6 DEF Trail
  <2>9. At(text, pos) = ")" => back' = ResultName(text, pos + 1)
    BY <2>4
  <2>10. text' = text /\ form' = form
    BY DEF inputs
  <2>13. pos <= Len(text) + 1
    BY <1>1, <1>3
  <2> HIDE DEF bad, byValue, name, close, at, behind
  <2>11. OnTrail(h, 1)'
    BY <1>3, <2>1, <2>6, <2>7, <2>8, <2>9, <2>10, <2>13 DEF OnTrail
  <2>12. LoadsInv'
    <3>1. pos' \in Nat \ {0}
      BY <1>3
    <3> QED BY <1>1, <1>3, <2>11, <3>1 DEF LoadsInv
  <2> QED BY <1>1, <1>3, <2>10, <2>12 DEF CallInv, Forwarded, LayoutsInv, ResultInv
<1> QED BY <1>2, <1>3 DEF LayoutsResult

-----------------------------------------------------------------------------
(* C_dyncall follows the trail, turn by turn.                                *)

LEMMA LoadsTurn ==
  ASSUME CallInv, reader = "loads", reader' = "loads", UNCHANGED inputs,
         UNCHANGED <<found, back>>, pos' \in Nat \ {0}, stars' \in Nat, used' \in Nat,
         pos <= Len(text), At(text, pos) # ")",
         LET a == [pos |-> pos, stars |-> stars, n |-> used]
             b == [pos |-> pos', stars |-> stars', n |-> used']
         IN  \A c : Turn(text, a, c) => c = b
  PROVE  CallInv'
<1> DEFINE a == [pos |-> pos, stars |-> stars, n |-> used]
           b == [pos |-> pos', stars |-> stars', n |-> used']
<1>1. PICK h, i : OnTrail(h, i)
  BY DEF CallInv, LoadsInv
<1>2. h[i] = a /\ i \in 1..Len(h) /\ Trail(text, found, h)
  BY <1>1 DEF OnTrail
<1>3. Len(h) \in Nat /\ pos \in Nat /\ Len(text) \in Nat
  BY <1>2 DEF Trail, CallInv, LoadsInv, Forwarded, Line
<1>4. i # Len(h)
  <2>1. SUFFICES ASSUME i = Len(h) PROVE FALSE
    OBVIOUS
  <2>2. h[Len(h)].pos = pos
    BY <1>2, <2>1
  <2> QED BY <1>1, <1>3, <2>2 DEF OnTrail
<1>5. i \in 1..Len(h) - 1 /\ i + 1 \in 1..Len(h)
  BY <1>2, <1>3, <1>4
<1> HIDE DEF a, b
<1>6. Turn(text, a, h[i + 1])
  BY <1>2, <1>5 DEF Trail
<1>7. h[i + 1] = b
  BY <1>6 DEF a, b
<1>8. text' = text /\ form' = form /\ found' = found /\ back' = back
  BY DEF inputs
<1>9. OnTrail(h, i + 1)'
  BY <1>1, <1>2, <1>5, <1>7, <1>8 DEF OnTrail, b
<1>10. LoadsInv'
  BY <1>8, <1>9 DEF LoadsInv, CallInv
<1> QED BY <1>8, <1>10 DEF CallInv, Forwarded, LayoutsInv, ResultInv

\* What LoadsTurn and the actions below need to know of the state.
LEMMA LoadsTypes ==
  ASSUME CallInv, reader = "loads"
  PROVE  /\ pos \in Nat \ {0} /\ stars \in Nat /\ used \in Nat /\ found \in Seq(Line)
         /\ text \in Line
BY DEF CallInv, LoadsInv, Forwarded

LEMMA LoadsTerminatorKeeps == CallInv /\ LoadsTerminator /\ UNCHANGED inputs => CallInv'
<1> SUFFICES ASSUME CallInv, LoadsTerminator, UNCHANGED inputs PROVE CallInv'
  OBVIOUS
<1>1. reader = "loads" /\ At(text, pos) = ")" /\ reader' = "result" /\ pos' = pos + 1
  BY DEF LoadsTerminator, Reads
<1>2. found' = found /\ used' = used /\ back' = back /\ text' = text /\ form' = form
  BY DEF LoadsTerminator, inputs
<1>3. pos \in Nat \ {0} /\ used \in Nat
  BY <1>1, LoadsTypes
<1>4. PICK h, i : OnTrail(h, i)
  BY <1>1 DEF CallInv, LoadsInv
<1>5. /\ h[i] = [pos |-> pos, stars |-> stars, n |-> used]
      /\ i \in 1..Len(h) /\ Len(h) \in Nat /\ Trail(text, found, h)
  BY <1>4 DEF OnTrail, Trail
<1>6. i = Len(h)
  <2>1. SUFFICES ASSUME i # Len(h) PROVE FALSE
    OBVIOUS
  <2>2. i \in 1..Len(h) - 1
    BY <1>5, <2>1
  <2>3. At(text, h[i].pos) # ")"
    BY <1>5, <2>2 DEF Trail, Turn
  <2> QED BY <1>1, <1>5, <2>3
<1>7. h[Len(h)].pos = pos /\ h[Len(h)].n = used
  BY <1>5, <1>6
<1>8. used = Len(found) /\ back = ResultName(text, pos + 1)
  BY <1>1, <1>4, <1>7 DEF OnTrail
<1>9. pos' \in Nat \ {0} /\ pos' <= Len(text) + 1
  <2>1. At(text, pos) # Nul /\ text \in Line
    BY <1>1, NotTheEnd, LoadsTypes
  <2>2. pos <= Len(text) /\ Len(text) \in Nat
    BY <1>3, <2>1, AtIsChar DEF Line
  <2> QED BY <1>1, <1>3, <2>2
<1> QED BY <1>1, <1>2, <1>8, <1>9 DEF CallInv, Forwarded, LayoutsInv, LoadsInv, ResultInv

LEMMA LoadsModeKeeps == CallInv /\ LoadsMode /\ UNCHANGED inputs => CallInv'
<1> SUFFICES ASSUME CallInv, LoadsMode, UNCHANGED inputs PROVE CallInv'
  OBVIOUS
<1>0. At(text, pos) = "_"
  BY DEF LoadsMode, Reads
<1>1. reader = "loads" /\ At(text, pos) # Nul /\ At(text, pos) # ")"
  BY <1>0, NotTheEnd DEF LoadsMode, Reads
<1>2. pos \in Nat \ {0} /\ used \in Nat /\ text \in Line
  BY <1>1, LoadsTypes
<1>3. pos <= Len(text)
  BY <1>1, <1>2, AtIsChar
<1>4. CASE Stop("refused")
  BY <1>4, Stopped
<1>5. CASE /\ Goes(pos + 2) /\ stars' = 0 /\ UNCHANGED <<found, back, used>>
  <2>1. pos' = pos + 2 /\ reader' = reader /\ stars' = 0 /\ used' = used /\ pos' \in Nat \ {0}
    BY <1>2, <1>5 DEF Goes
  <2>2. ASSUME NEW c, Turn(text, [pos |-> pos, stars |-> stars, n |-> used], c)
        PROVE  c = [pos |-> pos', stars |-> stars', n |-> used']
    BY <1>0, <2>1, <2>2 DEF Turn
  <2> QED BY <1>1, <1>2, <1>3, <1>5, <2>1, <2>2, LoadsTurn
<1> QED BY <1>4, <1>5 DEF LoadsMode

LEMMA LoadsStarKeeps == CallInv /\ LoadsStar /\ UNCHANGED inputs => CallInv'
<1> SUFFICES ASSUME CallInv, LoadsStar, UNCHANGED inputs PROVE CallInv'
  OBVIOUS
<1>1. reader = "loads" /\ At(text, pos) = "*" /\ At(text, pos) # Nul
  BY NotTheEnd DEF LoadsStar, Reads
<1>2. pos \in Nat \ {0} /\ stars \in Nat /\ used \in Nat /\ text \in Line
  BY <1>1, LoadsTypes
<1>3. pos <= Len(text)
  BY <1>1, <1>2, AtIsChar
<1>4. /\ pos' = pos + 1 /\ reader' = reader /\ stars' = stars + 1 /\ used' = used
      /\ UNCHANGED <<found, back>>
  BY DEF LoadsStar, Goes
<1>5. ASSUME NEW c, Turn(text, [pos |-> pos, stars |-> stars, n |-> used], c)
      PROVE  c = [pos |-> pos', stars |-> stars', n |-> used']
  BY <1>1, <1>4, <1>5 DEF Turn
<1>6. pos' \in Nat \ {0} /\ stars' \in Nat /\ used' \in Nat
  BY <1>2, <1>4
<1> QED BY <1>1, <1>3, <1>4, <1>5, <1>6, LoadsTurn

LEMMA LoadsAggregateKeeps == CallInv /\ LoadsAggregate /\ UNCHANGED inputs => CallInv'
<1> SUFFICES ASSUME CallInv, LoadsAggregate, UNCHANGED inputs PROVE CallInv'
  OBVIOUS
<1> DEFINE end  == NameEnd(pos + 1)
           name == NameTo(text, end)
           mine == used < Len(found) /\ found[used + 1] = name
<1>1. reader = "loads" /\ At(text, pos) = "<" /\ At(text, pos) # Nul
  BY NotTheEnd DEF LoadsAggregate, Reads
<1>2. pos \in Nat \ {0} /\ stars \in Nat /\ used \in Nat /\ text \in Line
  BY <1>1, LoadsTypes
<1>3. pos <= Len(text)
  BY <1>1, <1>2, AtIsChar
<1>4. CASE Stop("refused")
  BY <1>4, Stopped
<1>5. ASSUME Named(pos + 1)
      PROVE  /\ end = First(text, pos + 1, {">"}) /\ end \in Nat \ {0}
             /\ name = NameAt(text, pos)
  <2>1. pos + 1 \in Nat \ {0} /\ At(text, Past(text, pos + 1, Alnum)) = ">"
    BY <1>2, <1>5 DEF Named, NameEnd
  <2>2. First(text, pos + 1, {">"}) = Past(text, pos + 1, Alnum)
    BY <1>2, <2>1, SameName
  <2>3. Past(text, pos + 1, Alnum) \in Nat \ {0}
    BY <1>2, <2>1, PastFound
  <2> QED BY <2>2, <2>3 DEF NameEnd, NameTo, NameAt
<1>6. CASE /\ Named(pos + 1) /\ Goes(end + 1) /\ stars' = 0 /\ UNCHANGED <<found, back>>
           /\ used' = IF stars = 0 THEN used + 1 ELSE used
  <2> HIDE DEF end, name, mine
  <2>1. pos' = end + 1 /\ reader' = reader
    BY <1>6 DEF Goes
  <2>2. end = First(text, pos + 1, {">"}) /\ end \in Nat \ {0}
    BY <1>5, <1>6
  <2>3. ASSUME NEW c, Turn(text, [pos |-> pos, stars |-> stars, n |-> used], c)
        PROVE  c = [pos |-> pos', stars |-> stars', n |-> used']
    BY <1>1, <1>6, <2>1, <2>2, <2>3 DEF Turn
  <2>4. pos' \in Nat \ {0} /\ stars' \in Nat /\ used' \in Nat
    BY <1>2, <1>6, <2>1, <2>2
  <2> QED BY <1>1, <1>3, <1>6, <2>1, <2>3, <2>4, LoadsTurn
<1>7. CASE Named(pos + 1) /\ stars = 0 /\ ~mine
  <2>1. PICK h, i : OnTrail(h, i)
    BY <1>1 DEF CallInv, LoadsInv
  <2>2. /\ h[i] = [pos |-> pos, stars |-> stars, n |-> used]
        /\ i \in 1..Len(h) /\ Len(h) \in Nat /\ Trail(text, found, h) /\ Len(text) \in Nat
    BY <1>2, <2>1 DEF OnTrail, Trail, Line
  <2>3. i # Len(h)
    <3>1. SUFFICES ASSUME i = Len(h) PROVE FALSE
      OBVIOUS
    <3>2. h[Len(h)].pos = pos
      BY <2>2, <3>1
    <3> QED BY <1>1, <1>2, <1>3, <2>1, <2>2, <3>2 DEF OnTrail
  <2>4. i \in 1..Len(h) - 1
    BY <2>2, <2>3
  <2>5. Laid(text, found, [pos |-> pos, stars |-> stars, n |-> used])
    BY <2>2, <2>4 DEF Trail
  <2>6. used < Len(found) /\ found[used + 1] = NameAt(text, pos)
    BY <1>1, <1>7, <2>5 DEF Laid
  <2> QED BY <1>5, <1>7, <2>6
<1> QED BY <1>4, <1>6, <1>7 DEF LoadsAggregate

LEMMA LoadsBaseKeeps == CallInv /\ LoadsBase /\ UNCHANGED inputs => CallInv'
<1> SUFFICES ASSUME CallInv, LoadsBase, UNCHANGED inputs PROVE CallInv'
  OBVIOUS
<1>1. reader = "loads" /\ At(text, pos) \notin {")", "_", "*", "<"}
  BY DEF LoadsBase
<1>2. pos \in Nat \ {0} /\ stars \in Nat /\ used \in Nat /\ text \in Line
  BY <1>1, LoadsTypes
<1>3. CASE Stop("refused")
  BY <1>3, Stopped
<1>4. CASE At(text, pos) # Nul /\ Goes(pos + 1) /\ stars' = 0 /\ UNCHANGED <<found, back, used>>
  <2>1. pos <= Len(text)
    BY <1>2, <1>4, AtIsChar
  <2>2. pos' = pos + 1 /\ reader' = reader /\ stars' = 0 /\ used' = used
    BY <1>4 DEF Goes
  <2>3. ASSUME NEW c, Turn(text, [pos |-> pos, stars |-> stars, n |-> used], c)
        PROVE  c = [pos |-> pos', stars |-> stars', n |-> used']
    BY <1>1, <2>2, <2>3 DEF Turn
  <2>4. pos' \in Nat \ {0} /\ stars' \in Nat /\ used' \in Nat
    BY <1>2, <2>2
  <2> QED BY <1>1, <1>4, <2>1, <2>2, <2>3, <2>4, LoadsTurn
<1> QED BY <1>3, <1>4 DEF LoadsBase

LEMMA Returned ==
  ASSUME CallInv, reader = "result", NEW kind, NEW name, Returns(kind, name), UNCHANGED inputs
  PROVE  CallInv'
BY DEF CallInv, Forwarded, LayoutsInv, LoadsInv, ResultInv, Returns, inputs

LEMMA ReturnsAggregateKeeps == CallInv /\ ReturnsAggregate /\ UNCHANGED inputs => CallInv'
<1> SUFFICES ASSUME CallInv, ReturnsAggregate, UNCHANGED inputs PROVE CallInv'
  OBVIOUS
<1> DEFINE name == NameTo(text, NameEnd(pos + 1))
<1>1. reader = "result" /\ At(text, pos) = "<"
  BY DEF ReturnsAggregate, Reads
<1>2. CASE Stop("refused")
  BY <1>2, Stopped
<1>3. CASE Named(pos + 1) /\ back # name
  <2>1. pos \in Nat \ {0} /\ text \in Line /\ back = NameAt(text, pos)
    BY <1>1 DEF CallInv, ResultInv, Forwarded, ResultName
  <2>2. pos + 1 \in Nat \ {0} /\ At(text, Past(text, pos + 1, Alnum)) = ">"
    BY <1>3, <2>1 DEF Named, NameEnd
  <2>3. First(text, pos + 1, {">"}) = Past(text, pos + 1, Alnum)
    BY <2>1, <2>2, SameName
  <2> QED BY <1>3, <2>1, <2>3 DEF NameEnd, NameTo, NameAt
<1>4. CASE Returns("<", name)
  BY <1>1, <1>4, Returned
<1> QED BY <1>2, <1>3, <1>4 DEF ReturnsAggregate

LEMMA ReturnsOtherKeeps ==
  ASSUME CallInv, ReturnsBase \/ ReturnsPointer \/ ReturnsUnknown, UNCHANGED inputs
  PROVE  CallInv'
<1>1. reader = "result" /\ (Stop("refused") \/ \E kind, name : Returns(kind, name))
  BY DEF ReturnsBase, ReturnsPointer, ReturnsUnknown, Reads
<1> QED BY <1>1, Stopped, Returned

-----------------------------------------------------------------------------
(* A callback: where the aggregates are in the signature that the R code     *)
(* writes, in their order.                                                   *)

ArgsFrom(p) == IF Prefixed(p) THEN 3 ELSE 1
Marks(p, f, a) ==
  /\ a \in Seq(Nat) /\ Len(a) = Len(f)
  /\ \A j \in 1..Len(a) : a[j] \in ArgsFrom(p)..Len(p) /\ p[a[j]] = "A"
  /\ \A k \in ArgsFrom(p)..Len(p) : p[k] = "A" => \E j \in 1..Len(a) : a[j] = k
  /\ \A i, j \in 1..Len(a) : i < j => a[i] < a[j]
\* The reader at place k has met the first u of them.
Met(a, k, u) == \A j \in 1..Len(a) : a[j] < k <=> j <= u

LEMMA PrefixStays ==
  ASSUME NEW p \in Line, p # <<>>, NEW ch \in Char
  PROVE  Prefixed(Append(p, ch)) = Prefixed(p) /\ ArgsFrom(Append(p, ch)) = ArgsFrom(p)
<1>1. Len(p) \in Nat \ {0} /\ Len(Append(p, ch)) = Len(p) + 1 /\ Append(p, ch)[1] = p[1]
  BY DEF Line
<1>2. 1 \in 1..Len(p) /\ 1 \in 1..Len(Append(p, ch))
  BY <1>1
<1>3. At(Append(p, ch), 1) = At(p, 1)
  BY <1>1, <1>2 DEF At
<1> QED BY <1>3 DEF Prefixed, ArgsFrom

LEMMA Appended ==
  ASSUME NEW p \in Line, NEW ch \in Char
  PROVE  /\ Append(p, ch) \in Line /\ Len(Append(p, ch)) = Len(p) + 1 /\ Len(p) \in Nat
         /\ Append(p, ch)[Len(p) + 1] = ch /\ \A k \in 1..Len(p) : Append(p, ch)[k] = p[k]
BY DEF Line

LEMMA NotTheMark == "A" # "_" /\ "p" # "_"
BY Zenon

\* What is written first decides whether there is a prefix.
LEMMA FirstWritten ==
  ASSUME NEW p, p = <<>>, NEW ch \in Char
  PROVE  Prefixed(Append(p, ch)) <=> ch = "_"
<1>1. At(Append(p, ch), 1) = ch
  <2>1. Append(p, ch) = <<ch>>
    OBVIOUS
  <2> QED BY <2>1 DEF At
<1> HIDE DEF Char
<1> QED BY <1>1, Zenon DEF Prefixed

LEMMA ArgsFromAppended ==
  ASSUME NEW p \in Line, NEW ch \in Char, NEW f, NEW a, Marks(p, f, a)
  PROVE  /\ ArgsFrom(Append(p, ch)) \in {1, 3}
         /\ ArgsFrom(Append(p, ch)) = ArgsFrom(p) \/ (p = <<>> /\ Len(p) = 0 /\ Len(a) = 0)
<1>1. ArgsFrom(Append(p, ch)) \in {1, 3} /\ ArgsFrom(p) \in {1, 3}
  BY DEF ArgsFrom
<1>2. CASE p = <<>>
  <2>1. Len(p) = 0
    BY <1>2
  <2>2. Len(a) \in Nat /\ \A j \in 1..Len(a) : a[j] \in ArgsFrom(p)..0
    BY <2>1 DEF Marks
  <2>3. \A j \in 1..Len(a) : FALSE
    BY <1>1, <2>2
  <2>4. Len(a) = 0
    BY <2>2, <2>3
  <2> QED BY <1>1, <1>2, <2>1, <2>4
<1>3. CASE p # <<>>
  BY <1>1, <1>3, PrefixStays
<1> QED BY <1>2, <1>3

LEMMA MarksKept ==
  ASSUME NEW p \in Line, NEW ch \in Char, ch # "A", NEW f, NEW a, Marks(p, f, a)
  PROVE  Marks(Append(p, ch), f, a)
<1> DEFINE q == Append(p, ch)
<1>1. /\ Len(q) = Len(p) + 1 /\ Len(p) \in Nat
      /\ q[Len(p) + 1] = ch /\ \A k \in 1..Len(p) : q[k] = p[k]
  BY Appended
<1>2. ArgsFrom(q) \in {1, 3} /\ (ArgsFrom(q) = ArgsFrom(p) \/ (Len(p) = 0 /\ Len(a) = 0))
  BY ArgsFromAppended
<1>3. Len(a) \in Nat /\ Len(a) = Len(f) /\ a \in Seq(Nat)
  BY DEF Marks
<1> HIDE DEF q
<1>4. ASSUME NEW j \in 1..Len(a)
      PROVE  a[j] \in ArgsFrom(q)..Len(q) /\ q[a[j]] = "A"
  <2>1. ArgsFrom(q) = ArgsFrom(p)
    BY <1>2, <1>3
  <2>2. a[j] \in ArgsFrom(p)..Len(p) /\ p[a[j]] = "A"
    BY DEF Marks
  <2>3. a[j] \in 1..Len(p)
    BY <1>1, <1>2, <2>1, <2>2
  <2>4. q[a[j]] = p[a[j]]
    BY <1>1, <2>3
  <2> QED BY <1>1, <1>2, <2>1, <2>2, <2>4
<1>5. ASSUME NEW k \in ArgsFrom(q)..Len(q), q[k] = "A"
      PROVE  \E j \in 1..Len(a) : a[j] = k
  <2>1. k # Len(p) + 1
    BY <1>1, <1>5
  <2>2. k \in 1..Len(p) /\ k \in ArgsFrom(q)..Len(p)
    BY <1>1, <1>2, <2>1
  <2>3. ArgsFrom(q) = ArgsFrom(p) /\ p[k] = "A"
    BY <1>1, <1>2, <1>5, <2>2
  <2> QED BY <2>2, <2>3 DEF Marks
<1>6. \A i, j \in 1..Len(a) : i < j => a[i] < a[j]
  BY DEF Marks
<1>7. Marks(q, f, a)
  BY <1>3, <1>4, <1>5, <1>6 DEF Marks
<1> QED BY <1>7 DEF q

LEMMA MarksGrow ==
  ASSUME NEW p \in Line, NEW f \in Seq(Line), NEW g, Len(g) = Len(f) + 1, NEW a, Marks(p, f, a),
         Prefixed(p) => Len(p) >= 2
  PROVE  Marks(Append(p, "A"), g, Append(a, Len(p) + 1))
<1> DEFINE q == Append(p, "A")
           b == Append(a, Len(p) + 1)
<1>0. "A" \in Char
  BY WrittenChars, Zenon
<1>1. /\ Len(q) = Len(p) + 1 /\ Len(p) \in Nat
      /\ q[Len(p) + 1] = "A" /\ \A k \in 1..Len(p) : q[k] = p[k]
  BY <1>0, Appended
<1>2. ArgsFrom(q) \in {1, 3} /\ (ArgsFrom(q) = ArgsFrom(p) \/ (p = <<>> /\ Len(p) = 0 /\ Len(a) = 0))
  BY <1>0, ArgsFromAppended
<1>3. Len(a) \in Nat /\ Len(a) = Len(f) /\ a \in Seq(Nat)
  BY DEF Marks
<1>4. /\ b \in Seq(Nat) /\ Len(b) = Len(a) + 1 /\ b[Len(a) + 1] = Len(p) + 1
      /\ \A j \in 1..Len(a) : b[j] = a[j]
  BY <1>1, <1>3
<1>5. ArgsFrom(q) <= Len(p) + 1
  <2>1. CASE p = <<>>
    <3>1. ~Prefixed(q)
      BY <1>0, <2>1, FirstWritten, NotTheMark
    <3>2. ArgsFrom(q) = 1
      BY <3>1 DEF ArgsFrom
    <3> QED BY <1>1, <3>2
  <2>2. CASE p # <<>>
    <3>1. ArgsFrom(q) = ArgsFrom(p)
      BY <1>2, <2>2
    <3>2. ArgsFrom(p) = 3 => Len(p) >= 2
      BY DEF ArgsFrom
    <3> QED BY <1>1, <1>2, <3>1, <3>2
  <2> QED BY <2>1, <2>2
<1> HIDE DEF q, b
<1>6. ASSUME NEW j \in 1..Len(a)
      PROVE  /\ a[j] \in ArgsFrom(q)..Len(q) /\ q[a[j]] = "A" /\ a[j] < Len(p) + 1
  <2>1. ArgsFrom(q) = ArgsFrom(p)
    BY <1>2, <1>3
  <2>2. a[j] \in ArgsFrom(p)..Len(p) /\ p[a[j]] = "A"
    BY DEF Marks
  <2>3. a[j] \in 1..Len(p)
    BY <1>1, <1>2, <2>1, <2>2
  <2>4. q[a[j]] = p[a[j]]
    BY <1>1, <2>3
  <2> QED BY <1>1, <1>2, <2>1, <2>2, <2>4
<1>7. ASSUME NEW j \in 1..Len(b)
      PROVE  b[j] \in ArgsFrom(q)..Len(q) /\ q[b[j]] = "A"
  <2>1. CASE j = Len(a) + 1
    BY <1>1, <1>2, <1>4, <1>5, <2>1
  <2>2. CASE j \in 1..Len(a)
    BY <1>4, <1>6, <2>2
  <2> QED BY <1>3, <1>4, <2>1, <2>2
<1>8. ASSUME NEW k \in ArgsFrom(q)..Len(q), q[k] = "A"
      PROVE  \E j \in 1..Len(b) : b[j] = k
  <2>1. CASE k = Len(p) + 1
    <3>1. Len(a) + 1 \in 1..Len(b)
      BY <1>3, <1>4
    <3> QED BY <1>4, <2>1, <3>1
  <2>2. CASE k # Len(p) + 1
    <3>1. k \in 1..Len(p) /\ k \in ArgsFrom(q)..Len(p)
      BY <1>1, <1>2, <2>2
    <3>2. ArgsFrom(q) = ArgsFrom(p) /\ p[k] = "A"
      BY <1>1, <1>2, <1>8, <3>1
    <3>3. PICK j \in 1..Len(a) : a[j] = k
      BY <3>1, <3>2 DEF Marks
    <3> QED BY <1>3, <1>4, <3>3
  <2> QED BY <2>1, <2>2
<1>9. ASSUME NEW i \in 1..Len(b), NEW j \in 1..Len(b), i < j
      PROVE  b[i] < b[j]
  <2>1. i \in 1..Len(a)
    BY <1>3, <1>4, <1>9
  <2>2. CASE j = Len(a) + 1
    BY <1>4, <1>6, <2>1, <2>2
  <2>3. CASE j \in 1..Len(a)
    BY <1>4, <1>9, <2>1, <2>3 DEF Marks
  <2> QED BY <1>3, <1>4, <2>2, <2>3
<1>10. Marks(q, g, b)
  BY <1>3, <1>4, <1>7, <1>8, <1>9 DEF Marks
<1> QED BY <1>10 DEF q, b

-----------------------------------------------------------------------------
(* The inductive invariant of a callback.                                    *)

RewriteInv ==
  reader = "rewrite" =>
    /\ plain \in Line /\ pos \in Nat \ {0} /\ found \in Seq(Line) /\ used = 0 /\ taken = <<>>
    /\ plain = <<>> => pos = 1 /\ (Prefixed(text) => Len(text) < 2)
    /\ Prefixed(plain) => Len(plain) >= 2 \/ pos > Len(text)
    /\ \E a : Marks(plain, found, a)

\* The R reader does not step over the ')' that ends the arguments; once it has
\* been there, the native readers have a ')' to find.
Closed(p) == \E j \in ArgsFrom(p)..Len(p) : p[j] = ")"
Ahead == \A k \in 1..Len(text) : EndsArguments(text, k) => pos <= k \/ Closed(plain)
CountedInv ==
  /\ reader = "rewrite" => Ahead
  /\ reader = "beyond" => form = "callback" /\ ~\E k \in 1..Len(text) : EndsArguments(text, k)

\* The ')' that the arguments were counted to is still ahead, and each character
\* before it is one argument.
ArgsEnd == ArgsFrom(plain) + nargs
FetchInv ==
  reader = "fetch" =>
    /\ plain \in Line /\ nargs \in Nat /\ used \in Nat
    /\ pos \in ArgsFrom(plain)..ArgsEnd /\ ArgsEnd <= Len(plain) /\ plain[ArgsEnd] = ")"
    /\ Len(taken) = pos - ArgsFrom(plain) /\ \E S : taken \in Seq(S)
    /\ \E a : Marks(plain, found, a) /\ Met(a, pos, used)

AnswerInv ==
  reader = "answer" =>
    /\ plain \in Line /\ used \in Nat /\ pos \in Nat /\ pos >= ArgsFrom(plain)
    /\ pos <= Len(plain) + 1
    /\ \E a : Marks(plain, found, a) /\ Met(a, pos, used)

Inv == CallInv /\ RewriteInv /\ FetchInv /\ AnswerInv

LEMMA ArgsFromPlace == \A p : ArgsFrom(p) \in {1, 3}
BY DEF ArgsFrom

\* At an aggregate, the next descriptor is there.
LEMMA NextMark ==
  ASSUME NEW p \in Line, NEW f, NEW a, Marks(p, f, a), NEW k \in Nat, NEW u \in Nat,
         Met(a, k, u), k >= ArgsFrom(p), k <= Len(p), p[k] = "A"
  PROVE  u < Len(f) /\ Met(a, k + 1, u + 1)
<1>1. Len(p) \in Nat /\ ArgsFrom(p) \in Nat /\ Len(a) \in Nat /\ Len(a) = Len(f)
  BY ArgsFromPlace DEF Line, Marks
<1>2. PICK j \in 1..Len(a) : a[j] = k
  <2>1. k \in ArgsFrom(p)..Len(p)
    BY <1>1
  <2> QED BY <2>1 DEF Marks
<1>3. \A i \in 1..Len(a) : a[i] \in Nat
  BY ElementOfSeq DEF Marks
<1>4. ~(j <= u)
  BY <1>2, <1>3 DEF Met
<1>5. ~(u + 1 < j)
  <2>1. SUFFICES ASSUME u + 1 < j PROVE FALSE
    OBVIOUS
  <2>2. u + 1 \in 1..Len(a) /\ ~(u + 1 <= u)
    BY <1>1, <2>1
  <2>3. a[u + 1] < a[j]
    BY <2>1, <2>2 DEF Marks
  <2> QED BY <1>2, <2>2, <2>3 DEF Met
<1>6. j = u + 1
  BY <1>4, <1>5
<1>7. ASSUME NEW i \in 1..Len(a) PROVE a[i] < k + 1 <=> i <= u + 1
  <2>1. CASE i = j
    BY <1>2, <1>6, <2>1
  <2>2. CASE i < j
    <3>1. a[i] < a[j]
      BY <2>2 DEF Marks
    <3> QED BY <1>2, <1>3, <1>6, <2>2, <3>1
  <2>3. CASE j < i
    <3>1. a[j] < a[i]
      BY <2>3 DEF Marks
    <3> QED BY <1>2, <1>3, <1>6, <2>3, <3>1
  <2> QED BY <2>1, <2>2, <2>3
<1> QED BY <1>1, <1>6, <1>7 DEF Met

LEMMA NoMark ==
  ASSUME NEW p \in Line, NEW f, NEW a, Marks(p, f, a), NEW k \in Nat, NEW u \in Nat,
         Met(a, k, u), p[k] # "A"
  PROVE  Met(a, k + 1, u)
<1>1. \A i \in 1..Len(a) : a[i] \in Nat /\ p[a[i]] = "A"
  BY ElementOfSeq DEF Marks
<1>2. \A i \in 1..Len(a) : a[i] # k
  BY <1>1
<1>3. \A i \in 1..Len(a) : a[i] < k + 1 <=> a[i] < k
  BY <1>1, <1>2
<1> QED BY <1>3 DEF Met

-----------------------------------------------------------------------------
(* callback_signature_info marks every aggregate that it finds.              *)

\* An action of the callback's readers leaves nothing to show for a call.
LEMMA CallApart ==
  ASSUME CallInv, form = "callback", UNCHANGED inputs,
         reader' \in {"rewrite", "fetch", "answer", "done", "refused", "invalid", "beyond"}
  PROVE  CallInv'
BY DEF CallInv, Forwarded, LayoutsInv, LoadsInv, ResultInv, inputs

\* One turn writes one character.
LEMMA Written ==
  ASSUME Inv, reader = "rewrite", reader' = "rewrite", UNCHANGED inputs,
         UNCHANGED <<used, taken>>, pos <= Len(text), pos' \in Nat \ {0},
         NEW ch \in Char, plain' = Append(plain, ch),
         plain = <<>> /\ Prefixed(Append(plain, ch)) => pos' > Len(text),
         found' \in Seq(Line),
         \/ ch # "A" /\ found' = found
         \/ ch = "A" /\ Len(found') = Len(found) + 1
  PROVE  Inv'
<1>1. /\ plain \in Line /\ found \in Seq(Line) /\ used = 0 /\ taken = <<>>
      /\ Prefixed(plain) => Len(plain) >= 2
      /\ form = "callback" /\ Len(text) \in Nat /\ pos \in Nat /\ text' = text
  BY DEF Inv, RewriteInv, CallInv, Forwarded, inputs, Line
<1>2. PICK a : Marks(plain, found, a)
  BY DEF Inv, RewriteInv
<1>3. /\ plain' \in Line /\ Len(plain') = Len(plain) + 1 /\ Len(plain) \in Nat
  BY <1>1, Appended
<1>4. plain' # <<>>
  BY <1>3
<1>5. Prefixed(plain') => Len(plain') >= 2 \/ pos' > Len(text)
  <2>1. CASE plain = <<>>
    BY <2>1
  <2>2. CASE plain # <<>>
    <3>1. Prefixed(plain') = Prefixed(plain)
      BY <1>1, <2>2, PrefixStays
    <3> QED BY <1>1, <1>3, <3>1
  <2> QED BY <2>1, <2>2
<1>6. found' \in Seq(Line) /\ \E b : Marks(plain', found', b)
  <2>1. CASE ch # "A" /\ found' = found
    BY <1>1, <1>2, <2>1, MarksKept
  <2>2. CASE ch = "A" /\ Len(found') = Len(found) + 1
    <3>1. Marks(Append(plain, "A"), found', Append(a, Len(plain) + 1))
      BY <1>1, <1>2, <2>2, MarksGrow
    <3> QED BY <2>2, <3>1
  <2> QED BY <2>1, <2>2
<1>7. RewriteInv'
  BY <1>1, <1>3, <1>4, <1>5, <1>6 DEF RewriteInv
<1>8. CallInv'
  BY <1>1, CallApart DEF Inv
<1> QED BY <1>7, <1>8 DEF Inv, FetchInv, AnswerInv

LEMMA StoppedKeeps ==
  ASSUME Inv, NEW how \in {"refused", "invalid", "beyond"}, Stop(how), UNCHANGED inputs
  PROVE  Inv'
<1>1. CallInv'
  BY Stopped DEF Inv
<1>2. reader' = how
  BY DEF Stop
<1> QED BY <1>1, <1>2 DEF Inv, RewriteInv, FetchInv, AnswerInv

LEMMA RewriteTypes ==
  ASSUME Inv, reader = "rewrite"
  PROVE  /\ pos \in Nat \ {0} /\ plain \in Line /\ found \in Seq(Line) /\ text \in Line
         /\ Len(text) \in Nat
BY DEF Inv, RewriteInv, CallInv, Forwarded, Line

LEMMA RewritePointerKeeps == Inv /\ RewritePointer /\ UNCHANGED inputs => Inv'
<1> SUFFICES ASSUME Inv, RewritePointer, UNCHANGED inputs PROVE Inv'
  OBVIOUS
<1> DEFINE at  == Past(text, pos, {"*"})
           end == PointeeEnd(at)
<1>1. reader = "rewrite" /\ At(text, pos) = "*" /\ At(text, pos) # Nul
  BY NotTheEnd DEF RewritePointer, Reads
<1>2. pos \in Nat \ {0} /\ text \in Line
  BY <1>1, RewriteTypes
<1>3. pos <= Len(text)
  BY <1>1, <1>2, AtIsChar
<1>4. CASE Stop("refused")
  BY <1>4, StoppedKeeps
<1>5. CASE Goes(end + 1) /\ Writes("p") /\ UNCHANGED <<found, used, taken>>
  <2>1. at \in Nat \ {0}
    BY <1>2, PastFound
  <2> HIDE DEF at
  <2>2. end \in Nat \ {0}
    <3>1. First(text, at + 1, {">"}) \in Nat \ {0}
      BY <1>2, <2>1, FirstFound
    <3> QED BY <2>1, <3>1 DEF PointeeEnd
  <2>3. "p" \in Char /\ "p" # "A"
    BY WrittenChars, Zenon
  <2>4. plain = <<>> => ~Prefixed(Append(plain, "p"))
    BY <2>3, FirstWritten, NotTheMark
  <2> HIDE DEF end
  <2>5. pos' \in Nat \ {0} /\ reader' = reader
    BY <1>5, <2>2 DEF Goes
  <2>6. plain' = Append(plain, "p") /\ found' = found /\ used' = used /\ taken' = taken
    BY <1>5 DEF Writes
  <2>7. found' \in Seq(Line)
    BY <1>1, <2>6, RewriteTypes
  <2> QED BY <1>1, <1>3, <2>3, <2>4, <2>5, <2>6, <2>7, Written
<1> QED BY <1>4, <1>5 DEF RewritePointer

LEMMA RewriteAggregateKeeps == Inv /\ RewriteAggregate /\ UNCHANGED inputs => Inv'
<1> SUFFICES ASSUME Inv, RewriteAggregate, UNCHANGED inputs PROVE Inv'
  OBVIOUS
<1> DEFINE close == Close(text)
           name  == NameTo(text, close)
<1>1. reader = "rewrite" /\ At(text, pos) = "<" /\ At(text, pos) # Nul
  BY NotTheEnd DEF RewriteAggregate, Reads
<1>2. pos \in Nat \ {0} /\ text \in Line
  BY <1>1, RewriteTypes
<1>3. pos <= Len(text)
  BY <1>1, <1>2, AtIsChar
<1>4. CASE Stop("refused")
  BY <1>4, StoppedKeeps
<1>5. CASE /\ close <= Len(text) /\ Goes(close + 1) /\ Writes("A")
           /\ found' = Append(found, name) /\ UNCHANGED <<used, taken>>
  <2>1. close \in Nat \ {0}
    BY <1>2, FirstFound DEF Close
  <2> HIDE DEF close
  <2>2. name \in Line
    BY <1>2, <1>5, <2>1, PieceIsLine DEF NameTo
  <2>3. "A" \in Char
    BY WrittenChars, Zenon
  <2>4. plain = <<>> => ~Prefixed(Append(plain, "A"))
    BY <2>3, FirstWritten, NotTheMark
  <2> HIDE DEF name
  <2>5. pos' \in Nat \ {0} /\ reader' = reader
    BY <1>5, <2>1 DEF Goes
  <2>6. plain' = Append(plain, "A") /\ used' = used /\ taken' = taken
    BY <1>5 DEF Writes
  <2>7. found' \in Seq(Line) /\ Len(found') = Len(found) + 1
    <3>1. found \in Seq(Line) /\ found' = Append(found, name)
      BY <1>1, <1>5, RewriteTypes
    <3> QED BY <2>2, <3>1, AppendProperties
  <2> QED BY <1>1, <1>3, <2>3, <2>4, <2>5, <2>6, <2>7, Written
<1>6. \/ Stop("refused")
      \/ /\ ~(close > Len(text) \/ name \notin Known) /\ Goes(close + 1) /\ Writes("A")
         /\ found' = Append(found, name)
         /\ UNCHANGED <<stars, mode, back, nargs, used, taken, result, part>>
  BY Zenon DEF RewriteAggregate
<1>7. close \in Nat /\ Len(text) \in Nat
  BY <1>1, <1>2, RewriteTypes, FirstFound DEF Close
<1> HIDE DEF close, name
<1> QED BY <1>4, <1>5, <1>6, <1>7

LEMMA RewriteOtherKeeps == Inv /\ RewriteOther /\ UNCHANGED inputs => Inv'
<1> SUFFICES ASSUME Inv, RewriteOther, UNCHANGED inputs PROVE Inv'
  OBVIOUS
<1> DEFINE ch == At(text, pos)
<1>1. reader = "rewrite" /\ pos <= Len(text)
  BY DEF RewriteOther
<1>2. pos \in Nat \ {0} /\ text \in Line /\ Len(text) \in Nat
  BY <1>1, RewriteTypes
<1>3. ch \in Char
  <2>1. pos \in 1..Len(text)
    BY <1>1, <1>2
  <2>2. ch = text[pos]
    BY <2>1 DEF At
  <2> QED BY <1>2, <2>1, <2>2, ElementOfSeq DEF Line
<1>4. CASE Stop("refused")
  BY <1>4, StoppedKeeps
<1>5. CASE ch # "A" /\ Goes(pos + 1) /\ Writes(ch) /\ UNCHANGED <<found, used, taken>>
  <2>1. ASSUME plain = <<>>, Prefixed(Append(plain, ch)) PROVE pos' > Len(text)
    <3>1. pos = 1 /\ (Prefixed(text) => Len(text) < 2)
      BY <1>1, <2>1 DEF Inv, RewriteInv
    <3> HIDE DEF ch
    <3>2. ch = "_"
      BY <1>3, <2>1, FirstWritten
    <3>3. Prefixed(text)
      BY <3>1, <3>2, Zenon DEF Prefixed, ch
    <3> QED BY <1>2, <1>5, <3>1, <3>3 DEF Goes
  <2> HIDE DEF ch
  <2>2. pos' \in Nat \ {0} /\ reader' = reader
    BY <1>2, <1>5 DEF Goes
  <2>3. /\ plain' = Append(plain, ch) /\ found' = found /\ used' = used /\ taken' = taken
        /\ ch # "A" /\ ch \in Char
    BY <1>3, <1>5 DEF Writes
  <2>4. found' \in Seq(Line)
    BY <1>1, <2>3, RewriteTypes
  <2> QED BY <1>1, <2>1, <2>2, <2>3, <2>4, Written
<1> QED BY <1>4, <1>5 DEF RewriteOther

-----------------------------------------------------------------------------
(* C_callback and rcallback_invoke read what was written.                    *)

LEMMA CountKeeps == Inv /\ Count /\ UNCHANGED inputs => Inv'
<1> SUFFICES ASSUME Inv, Count, UNCHANGED inputs PROVE Inv'
  OBVIOUS
<1> DEFINE base == ArgsFrom(plain)
           end  == First(plain, base, {")"})
<1>1. reader = "rewrite" /\ form = "callback"
  BY DEF Count, Inv, CallInv, Forwarded
<1>2. plain \in Line /\ used = 0 /\ taken = <<>> /\ base \in Nat \ {0} /\ Len(plain) \in Nat
  <2>1. plain \in Line /\ used = 0 /\ taken = <<>>
    BY <1>1 DEF Inv, RewriteInv
  <2>2. base \in Nat \ {0}
    BY ArgsFromPlace
  <2>3. Len(plain) \in Nat
    BY <2>1 DEF Line
  <2> QED BY <2>1, <2>2, <2>3
<1>3. CASE Stop("beyond")
  BY <1>3, StoppedKeeps
<1>4. CASE /\ \E k \in base..Len(plain) : plain[k] = ")"
           /\ reader' = "fetch" /\ pos' = base /\ nargs' = end - base
           /\ UNCHANGED <<found, plain, used, taken>>
  <2>1. /\ end \in Nat \ {0}
        /\ end <= Len(plain) => end \in base..Len(plain) /\ plain[end] \in {")"}
        /\ \A m \in base..Len(plain) : m < end => plain[m] \notin {")"}
    BY <1>2, FirstFound
  <2> HIDE DEF end, base
  <2>2. PICK k \in base..Len(plain) : plain[k] = ")"
    BY <1>4
  <2>3. end <= Len(plain)
    BY <1>2, <2>1, <2>2
  <2>4. end \in base..Len(plain) /\ plain[end] = ")"
    BY <2>1, <2>3
  <2>5. PICK a : Marks(plain, found, a)
    BY <1>1 DEF Inv, RewriteInv
  <2>6. Met(a, base, 0)
    <3>1. \A j \in 1..Len(a) : a[j] \in base..Len(plain)
      BY <2>5 DEF Marks, base
    <3>2. \A j \in 1..Len(a) : ~(a[j] < base) /\ ~(j <= 0)
      BY <1>2, <3>1
    <3> QED BY <3>2 DEF Met
  <2>7. nargs' \in Nat /\ base + nargs' = end
    BY <1>2, <1>4, <2>4
  <2>8. Len(taken') = 0 /\ taken' \in Seq({})
    BY <1>2, <1>4
  <2>9. ArgsFrom(plain') = base /\ ArgsEnd' = end
    BY <1>4, <2>7 DEF base, ArgsEnd
  <2>10. FetchInv'
    <3>1. plain' \in Line /\ nargs' \in Nat /\ used' \in Nat
      BY <1>2, <1>4, <2>7
    <3>2. pos' \in base..end /\ end <= Len(plain') /\ plain'[end] = ")" /\ Len(taken') = pos' - base
      BY <1>2, <1>4, <2>4, <2>8
    <3>3. \E b : Marks(plain', found', b) /\ Met(b, pos', used')
      BY <1>2, <1>4, <2>5, <2>6
    <3> QED BY <2>8, <2>9, <3>1, <3>2, <3>3 DEF FetchInv
  <2>11. CallInv'
    BY <1>1, <1>4, CallApart DEF Inv
  <2> QED BY <1>4, <2>10, <2>11 DEF Inv, RewriteInv, AnswerInv
<1> QED BY <1>3, <1>4 DEF Count, ArgsFrom

LEMMA FetchTypes ==
  ASSUME Inv, reader = "fetch"
  PROVE  /\ plain \in Line /\ nargs \in Nat /\ used \in Nat /\ pos \in Nat \ {0}
         /\ Len(plain) \in Nat /\ ArgsFrom(plain) \in Nat \ {0} /\ ArgsEnd \in Nat
         /\ pos >= ArgsFrom(plain) /\ pos <= ArgsEnd /\ pos <= Len(plain)
         /\ At(plain, pos) = plain[pos] /\ form = "callback"
<1>1. /\ plain \in Line /\ nargs \in Nat /\ used \in Nat /\ form = "callback"
      /\ pos \in ArgsFrom(plain)..ArgsEnd /\ ArgsEnd <= Len(plain)
  BY DEF Inv, FetchInv, CallInv, Forwarded
<1>2. Len(plain) \in Nat /\ ArgsFrom(plain) \in Nat \ {0} /\ ArgsEnd \in Nat
  BY <1>1, ArgsFromPlace DEF Line, ArgsEnd
<1>3. pos \in 1..Len(plain) /\ pos >= ArgsFrom(plain) /\ pos <= ArgsEnd
  BY <1>1, <1>2
<1>4. At(plain, pos) = plain[pos]
  BY <1>3 DEF At
<1> QED BY <1>1, <1>2, <1>3, <1>4

\* One argument is taken, before the ')'.
LEMMA Fetched ==
  ASSUME Inv, reader = "fetch", UNCHANGED inputs, UNCHANGED <<found, plain, nargs>>,
         Len(taken) < nargs, Goes(pos + 1), NEW x, Take(x), used' \in Nat,
         \A a : Marks(plain, found, a) /\ Met(a, pos, used) => Met(a, pos + 1, used')
  PROVE  Inv'
<1>1. PICK a : Marks(plain, found, a) /\ Met(a, pos, used)
  BY DEF Inv, FetchInv
<1>2. PICK S : taken \in Seq(S)
  BY DEF Inv, FetchInv
<1>3. taken' \in Seq(S \cup {x}) /\ Len(taken') = Len(taken) + 1
  <2>1. taken \in Seq(S \cup {x})
    BY <1>2
  <2>2. taken' = Append(taken, x)
    BY DEF Take
  <2> QED BY <2>1, <2>2, AppendProperties
<1>4. pos' = pos + 1 /\ reader' = "fetch"
  BY DEF Goes
<1>5. /\ plain \in Line /\ nargs \in Nat /\ pos \in Nat /\ ArgsFrom(plain) \in Nat
      /\ pos >= ArgsFrom(plain) /\ Len(plain) \in Nat
  BY FetchTypes
<1>6. /\ ArgsEnd <= Len(plain) /\ plain[ArgsEnd] = ")"
      /\ Len(taken) = pos - ArgsFrom(plain)
  BY DEF Inv, FetchInv
<1>7. pos' \in ArgsFrom(plain)..ArgsEnd /\ Len(taken') = pos' - ArgsFrom(plain)
  BY <1>3, <1>4, <1>5, <1>6 DEF ArgsEnd
<1>8. ArgsFrom(plain') = ArgsFrom(plain) /\ ArgsEnd' = ArgsEnd
  BY DEF ArgsEnd
<1>9. \E b : Marks(plain', found', b) /\ Met(b, pos', used')
  BY <1>1, <1>4
<1>10. FetchInv'
  BY <1>3, <1>4, <1>5, <1>6, <1>7, <1>8, <1>9 DEF FetchInv
<1>11. CallInv'
  BY <1>4, FetchTypes, CallApart DEF Inv
<1> QED BY <1>4, <1>10, <1>11 DEF Inv, RewriteInv, AnswerInv

LEMMA FetchBaseKeeps == Inv /\ FetchBase /\ UNCHANGED inputs => Inv'
<1> SUFFICES ASSUME Inv, FetchBase, UNCHANGED inputs PROVE Inv'
  OBVIOUS
<1>1. reader = "fetch" /\ At(plain, pos) \in Base /\ Len(taken) < nargs /\ Goes(pos + 1)
  BY DEF FetchBase, Reads
<1>2. plain \in Line /\ used \in Nat /\ pos \in Nat /\ plain[pos] # "A"
  BY <1>1, FetchTypes
<1>3. UNCHANGED <<found, plain, nargs, used>> /\ \E x : Take(x)
  BY DEF FetchBase
<1>4. ASSUME NEW a, Marks(plain, found, a), Met(a, pos, used) PROVE Met(a, pos + 1, used')
  BY <1>2, <1>3, <1>4, NoMark
<1> QED BY <1>1, <1>2, <1>3, <1>4, Fetched

LEMMA FetchAggregateKeeps == Inv /\ FetchAggregate /\ UNCHANGED inputs => Inv'
<1> SUFFICES ASSUME Inv, FetchAggregate, UNCHANGED inputs PROVE Inv'
  OBVIOUS
<1>1. reader = "fetch" /\ At(plain, pos) = "A" /\ Len(taken) < nargs /\ Goes(pos + 1)
  BY DEF FetchAggregate, Reads
<1>2. /\ plain \in Line /\ used \in Nat /\ pos \in Nat /\ plain[pos] = "A"
      /\ pos >= ArgsFrom(plain) /\ pos <= Len(plain)
  BY <1>1, FetchTypes
<1>3. UNCHANGED <<found, plain, nargs>> /\ used' = used + 1 /\ \E x : Take(x)
  BY DEF FetchAggregate
<1>4. ASSUME NEW a, Marks(plain, found, a), Met(a, pos, used) PROVE Met(a, pos + 1, used')
  BY <1>2, <1>3, <1>4, NextMark
<1>5. used' \in Nat
  BY <1>2, <1>3
<1> QED BY <1>1, <1>3, <1>4, <1>5, Fetched

LEMMA FetchTerminatorKeeps == Inv /\ FetchTerminator /\ UNCHANGED inputs => Inv'
<1> SUFFICES ASSUME Inv, FetchTerminator, UNCHANGED inputs PROVE Inv'
  OBVIOUS
<1>1. reader = "fetch" /\ At(plain, pos) = ")"
  BY DEF FetchTerminator, Reads
<1>2. reader' = "answer" /\ pos' = pos + 1 /\ UNCHANGED <<found, plain, used>>
  BY DEF FetchTerminator
<1>3. /\ plain \in Line /\ used \in Nat /\ pos \in Nat /\ plain[pos] # "A"
      /\ pos >= ArgsFrom(plain) /\ ArgsFrom(plain) \in Nat /\ form = "callback"
  BY <1>1, FetchTypes
<1>4. PICK a : Marks(plain, found, a) /\ Met(a, pos, used)
  BY <1>1 DEF Inv, FetchInv
<1>5. Met(a, pos + 1, used)
  BY <1>3, <1>4, NoMark
<1>6. pos + 1 \in Nat /\ pos + 1 >= ArgsFrom(plain) /\ pos + 1 <= Len(plain) + 1
  BY <1>1, <1>3, FetchTypes
<1>7. AnswerInv'
  BY <1>2, <1>3, <1>4, <1>5, <1>6 DEF AnswerInv
<1>8. CallInv'
  BY <1>2, <1>3, CallApart DEF Inv
<1> QED BY <1>2, <1>7, <1>8 DEF Inv, RewriteInv, FetchInv

\* An argument too many, or an aggregate without a descriptor: neither happens.
LEMMA FetchInvalidKeeps == Inv /\ FetchInvalid /\ UNCHANGED inputs => Inv'
<1> SUFFICES ASSUME Inv, FetchInvalid, UNCHANGED inputs PROVE Inv'
  OBVIOUS
<1>1. reader = "fetch" /\ At(plain, pos) # ")"
  BY DEF FetchInvalid
<1>2. /\ plain \in Line /\ nargs \in Nat /\ used \in Nat /\ pos \in Nat /\ ArgsFrom(plain) \in Nat
      /\ pos >= ArgsFrom(plain) /\ pos <= ArgsEnd /\ pos <= Len(plain)
      /\ At(plain, pos) = plain[pos]
  BY <1>1, FetchTypes
<1>3. CASE Stop("invalid")
  BY <1>3, StoppedKeeps
<1>4. ~(Len(taken) >= nargs)
  <2>1. SUFFICES ASSUME Len(taken) >= nargs PROVE FALSE
    OBVIOUS
  <2>2. Len(taken) = pos - ArgsFrom(plain) /\ plain[ArgsEnd] = ")"
    BY <1>1 DEF Inv, FetchInv
  <2>3. pos = ArgsEnd
    BY <1>2, <2>1, <2>2 DEF ArgsEnd
  <2> QED BY <1>1, <1>2, <2>2, <2>3
<1>5. ~(At(plain, pos) = "A" /\ used >= Len(found))
  <2>1. SUFFICES ASSUME At(plain, pos) = "A", used >= Len(found) PROVE FALSE
    OBVIOUS
  <2>2. PICK a : Marks(plain, found, a) /\ Met(a, pos, used)
    BY <1>1 DEF Inv, FetchInv
  <2>3. used < Len(found)
    <3>1. plain[pos] = "A"
      BY <1>2, <2>1
    <3> QED BY <1>2, <2>2, <3>1, NextMark
  <2>4. Len(found) \in Nat
    BY <2>2 DEF Marks
  <2> QED BY <1>2, <2>1, <2>3, <2>4
<1> QED BY <1>3, <1>4, <1>5 DEF FetchInvalid

LEMMA AnswerKeeps == Inv /\ Answer /\ UNCHANGED inputs => Inv'
<1> SUFFICES ASSUME Inv, Answer, UNCHANGED inputs PROVE Inv'
  OBVIOUS
<1>1. reader = "answer" /\ form = "callback"
  BY DEF Answer, Inv, CallInv, Forwarded
<1>2. CASE \E kind, name : Returns(kind, name)
  <2>1. reader' = "done"
    BY <1>2 DEF Returns
  <2>2. CallInv'
    BY <1>1, <2>1, CallApart DEF Inv
  <2> QED BY <2>1, <2>2 DEF Inv, RewriteInv, FetchInv, AnswerInv
<1>3. ~(At(plain, pos) = "A" /\ used >= Len(found))
  <2>1. SUFFICES ASSUME At(plain, pos) = "A", used >= Len(found) PROVE FALSE
    OBVIOUS
  <2>2. plain \in Line /\ used \in Nat /\ pos \in Nat /\ pos >= ArgsFrom(plain)
    BY <1>1 DEF Inv, AnswerInv
  <2>3. pos <= Len(plain) /\ plain[pos] = "A"
    <3>1. At(plain, pos) # Nul
      BY <2>1, NotTheEnd
    <3> QED BY <2>1, <2>2, <3>1, AtIsChar
  <2>4. PICK a : Marks(plain, found, a) /\ Met(a, pos, used)
    BY <1>1 DEF Inv, AnswerInv
  <2>5. used < Len(found)
    BY <2>2, <2>3, <2>4, NextMark
  <2>6. Len(found) \in Nat
    BY <2>4 DEF Marks
  <2> QED BY <2>1, <2>2, <2>5, <2>6
<1> QED BY <1>2, <1>3 DEF Answer

-----------------------------------------------------------------------------
(* The readers agree.                                                        *)

LEMMA TextIsLine == Text \subseteq Line
BY DEF Text, Line, Char

LEMMA MarksBegin == ASSUME NEW p \in Line, Len(p) < ArgsFrom(p) PROVE Marks(p, <<>>, <<>>)
BY ArgsFromPlace DEF Marks, Line

LEMMA VariadicIsLine ==
  ASSUME NEW s \in Line, NEW v \in Line, IsVariadic(s, v)
  PROVE  VariadicSignature(s, v) \in Line
<1>1. <<"_", "e">> \in Line /\ <<"_", ".">> \in Line
  <2>1. "_" \in Char /\ "e" \in Char /\ "." \in Char
    BY WrittenChars, Zenon
  <2>2. \A x, y \in Char : <<x, y>> \in Line
    BY DEF Line
  <2> QED BY <2>1, <2>2, Zenon
<1>2. End(s) \in Nat \ {0} /\ End(s) < Len(s) /\ Len(s) \in Nat
  BY FirstFound DEF End, IsVariadic, Line
<1>3. SubSeq(s, 1, End(s) - 1) \in Line /\ SubSeq(s, End(s), Len(s)) \in Line
  BY <1>2, PieceIsLine
<1>4. \A x, y \in Line : x \o y \in Line
  BY ConcatProperties DEF Line
<1> QED BY <1>1, <1>3, <1>4 DEF VariadicSignature

LEMMA InitHolds == Init => Inv
<1> SUFFICES ASSUME Init PROVE Inv
  OBVIOUS
<1>1. PICK b \in DOMAIN Inputs : \E in \in Inputs[b] :
        /\ form = in.form /\ asked = in.asked
        /\ text = IF form = "variadic" /\ IsVariadic(in.text, in.varargs)
                  THEN VariadicSignature(in.text, in.varargs) ELSE in.text
  BY DEF Init
<1>2. PICK in \in Inputs[b] :
        /\ form = in.form /\ asked = in.asked
        /\ text = IF form = "variadic" /\ IsVariadic(in.text, in.varargs)
                  THEN VariadicSignature(in.text, in.varargs) ELSE in.text
  BY <1>1
<1>3. text \in Line /\ form \in Forms /\ Len(text) \in Nat
  <2>1. in.form \in Forms /\ in.text \in Line /\ in.varargs \in Line
    BY InputAssumption, TextIsLine
  <2>2. text \in Line
    BY <1>2, <2>1, VariadicIsLine
  <2> QED BY <1>2, <2>1, <2>2 DEF Line
<1>4. /\ pos = IF reader \in {"layouts", "rewrite"} /\ Len(text) >= 2 /\ Prefixed(text)
               THEN 3 ELSE 1
      /\ plain = IF reader = "rewrite" /\ pos = 3 THEN SubSeq(text, 1, 2) ELSE <<>>
      /\ stars = 0 /\ found = <<>> /\ used = 0 /\ taken = <<>>
  BY DEF Init
<1>5. /\ reader \in {"layouts", "refused", "rewrite", "tokens", "fields"}
      /\ reader = "layouts" => form \in {"call", "variadic"}
      /\ reader = "rewrite" => form = "callback"
      /\ reader = "tokens" => form = "types"
      /\ reader = "fields" => form = "tail"
  BY <1>3 DEF Init, Forms
<1>6. Forwarded
  BY <1>3, <1>5 DEF Forwarded
<1>7. LayoutsInv
  <2>1. SUFFICES ASSUME reader = "layouts"
                 PROVE  /\ pos \in Nat \ {0} /\ stars \in Nat /\ found \in Seq(Line) /\ used = 0
                        /\ \E h : /\ Trail(text, found, h)
                                  /\ h[Len(h)] = [pos |-> pos, stars |-> stars, n |-> Len(found)]
    BY DEF LayoutsInv
  <2>2. pos = Begin(text) /\ pos \in Nat \ {0}
    BY <1>4, <2>1 DEF Begin
  <2> DEFINE h == <<[pos |-> Begin(text), stars |-> 0, n |-> 0]>>
  <2>3. Trail(text, found, h)
    BY TrailBegins
  <2>4. Len(found) = 0 /\ found \in Seq(Line)
    BY <1>4
  <2>5. h[Len(h)] = [pos |-> pos, stars |-> stars, n |-> Len(found)]
    BY <1>4, <2>2, <2>4
  <2> QED BY <1>4, <2>2, <2>3, <2>4, <2>5
<1>8. RewriteInv
  <2>1. SUFFICES ASSUME reader = "rewrite"
                 PROVE  /\ plain \in Line /\ pos \in Nat \ {0}
                        /\ plain = <<>> => pos = 1 /\ (Prefixed(text) => Len(text) < 2)
                        /\ Prefixed(plain) => Len(plain) >= 2
                        /\ Marks(plain, <<>>, <<>>)
    BY <1>4 DEF RewriteInv
  <2>2. CASE Len(text) >= 2 /\ Prefixed(text)
    <3>1. pos = 3 /\ plain = SubSeq(text, 1, 2)
      BY <1>4, <2>1, <2>2
    <3>2. /\ plain \in Line /\ Len(plain) = 2 /\ 1 \in 1..Len(plain) /\ 1 \in 1..Len(text)
          /\ plain[1] = text[1]
      BY <1>3, <2>2, <3>1, SubSeqProperties DEF Line
    <3>3. At(plain, 1) = At(text, 1)
      BY <3>2 DEF At
    <3>4. Prefixed(plain)
      BY <2>2, <3>3 DEF Prefixed
    <3>5. Len(plain) < ArgsFrom(plain)
      BY <3>2, <3>4 DEF ArgsFrom
    <3>6. Marks(plain, <<>>, <<>>)
      BY <3>2, <3>5, MarksBegin
    <3>7. Len(plain) # 0
      BY <3>2
    <3>8. plain # <<>>
      BY <3>7
    <3> QED BY <3>1, <3>2, <3>6, <3>8
  <2>3. CASE ~(Len(text) >= 2 /\ Prefixed(text))
    <3>1. pos = 1 /\ plain = <<>> /\ plain \in Line /\ Len(plain) = 0
      BY <1>4, <2>3 DEF Line
    <3>2. ~Prefixed(plain)
      <4>1. At(plain, 1) = Nul
        BY <3>1 DEF At
      <4>2. Nul # "_"
        BY NotTheEnd
      <4> QED BY <4>1, <4>2, Zenon DEF Prefixed
    <3>3. Len(plain) < ArgsFrom(plain)
      BY <3>1, ArgsFromPlace
    <3> QED BY <1>3, <2>3, <3>1, <3>2, <3>3, MarksBegin
  <2> QED BY <2>2, <2>3
<1> QED BY <1>5, <1>6, <1>7, <1>8 DEF Inv, CallInv, LoadsInv, ResultInv, FetchInv, AnswerInv

\* The native readers of a call and the R reader leave nothing to show for a callback.
LEMMA CallKeeps == Inv /\ CallNext /\ UNCHANGED inputs => Inv'
<1> SUFFICES ASSUME Inv, CallNext, UNCHANGED inputs PROVE Inv'
  OBVIOUS
<1>1. CallInv'
  BY LayoutsStarKeeps, LayoutsSkipKeeps, LayoutsAggregateKeeps, LayoutsResultKeeps,
     LoadsTerminatorKeeps, LoadsModeKeeps, LoadsStarKeeps, LoadsAggregateKeeps, LoadsBaseKeeps,
     ReturnsAggregateKeeps, ReturnsOtherKeeps DEF Inv, CallNext
<1>2. reader' \notin {"rewrite", "fetch", "answer"}
  BY DEF CallNext, LayoutsStar, LayoutsSkip, LayoutsAggregate, LayoutsResult, LoadsTerminator,
     LoadsMode, LoadsStar, LoadsAggregate, LoadsBase, ReturnsBase, ReturnsAggregate,
     ReturnsPointer, ReturnsUnknown, Reads, Goes, Stop, Returns
<1> QED BY <1>1, <1>2 DEF Inv, RewriteInv, FetchInv, AnswerInv

LEMMA CallbackKeeps == Inv /\ CallbackNext /\ UNCHANGED inputs => Inv'
BY RewritePointerKeeps, RewriteAggregateKeeps, RewriteOtherKeeps, CountKeeps,
   FetchTerminatorKeeps, FetchBaseKeeps, FetchAggregateKeeps, FetchInvalidKeeps, AnswerKeeps
   DEF CallbackNext

\* The scanners of members read texts of other forms.
LEMMA ScanKeeps == Inv /\ ScanNext /\ UNCHANGED inputs => Inv'
<1> SUFFICES ASSUME Inv, ScanNext, UNCHANGED inputs PROVE Inv'
  OBVIOUS
<1>1. /\ reader \in {"tokens", "lengths", "fields"}
      /\ reader' \in {"tokens", "lengths", "fields", "refused", "done"}
  BY DEF ScanNext, ScanType, ScanLength, ScanToken, ScanEnd, ScanField, ScanTailEnd, Stop,
     Reads, Goes
<1>2. text' = text /\ form' = form
  BY DEF inputs
<1> QED BY <1>1, <1>2 DEF Inv, CallInv, Forwarded, LayoutsInv, LoadsInv, ResultInv,
     RewriteInv, FetchInv, AnswerInv

LEMMA Keeps == Inv /\ [Next]_vars => Inv'
<1> SUFFICES ASSUME Inv, [Next]_vars PROVE Inv'
  OBVIOUS
<1>1. CASE UNCHANGED vars
  BY <1>1 DEF vars, Inv, CallInv, Forwarded, LayoutsInv, LoadsInv, ResultInv, OnTrail,
     RewriteInv, FetchInv, AnswerInv, ArgsEnd
<1>2. CASE Next
  BY <1>2, CallKeeps, CallbackKeeps, ScanKeeps DEF Next
<1> QED BY <1>1, <1>2

\* Whatever the text: native code never lacks the layout of an aggregate, never
\* finds that of another type, and has used all of them when a call is made.
THEOREM SignatureAgrees == Spec => []LayoutsFit
<1>1. Inv => LayoutsFit
  BY DEF Inv, CallInv, Forwarded, LayoutsFit
<1> QED BY <1>1, InitHolds, Keeps, PTL DEF Spec
-----------------------------------------------------------------------------
(* rsignature_parse_decimal: a recursive function, which exists and stays in *)
(* the range of an int.                                                      *)

Numbers == 0..IntMax \cup {NoNumber}
\* f holds what s[from..k] amounts to, for every k up to n.
Counts(s, from, n, f) ==
  f = [k \in from - 1..n |-> IF k = from - 1 THEN 0 ELSE WithDigit(f[k - 1], s[k])]

LEMMA CountsExist ==
  ASSUME NEW s, NEW from \in Nat \ {0}, NEW last \in Nat, last >= from - 1
  PROVE  \E f : Counts(s, from, last, f)
<1> DEFINE U == {n \in Nat : n >= from - 1 /\ ~\E f : Counts(s, from, n, f)}
<1>1. SUFFICES ASSUME U # {} PROVE FALSE
  OBVIOUS
<1>2. PICK m \in U : \A n \in U : m <= n
  BY <1>1, FirstPlace
<1>3. CASE m = from - 1
  <2> DEFINE f == [k \in from - 1..m |-> 0]
  <2>1. \A k \in from - 1..m : k = from - 1
    BY <1>3
  <2>2. Counts(s, from, m, f)
    BY <2>1 DEF Counts
  <2> QED BY <1>2, <2>2
<1>4. CASE m # from - 1
  <2>1. m \in Nat /\ m >= from /\ m - 1 \in Nat /\ m - 1 >= from - 1 /\ m - 1 < m
    BY <1>2, <1>4
  <2>2. PICK f : Counts(s, from, m - 1, f)
    BY <1>2, <2>1
  <2> DEFINE g == [k \in from - 1..m |-> IF k = m THEN WithDigit(f[m - 1], s[m]) ELSE f[k]]
  <2>3. ASSUME NEW k \in from - 1..m
        PROVE  g[k] = IF k = from - 1 THEN 0 ELSE WithDigit(g[k - 1], s[k])
    <3>1. CASE k = m
      <4>1. g[k] = WithDigit(f[m - 1], s[m]) /\ m - 1 \in from - 1..m /\ m - 1 # m
        BY <2>1, <3>1
      <4>2. g[m - 1] = f[m - 1]
        BY <4>1
      <4> HIDE DEF g
      <4> QED BY <1>4, <3>1, <4>1, <4>2
    <3>2. CASE k # m
      <4>1. k \in from - 1..m - 1
        BY <2>1, <3>2
      <4>2. f[k] = IF k = from - 1 THEN 0 ELSE WithDigit(f[k - 1], s[k])
        BY <2>2, <4>1 DEF Counts
      <4>3. g[k] = f[k]
        BY <3>2
      <4>4. k # from - 1 => k - 1 \in from - 1..m /\ k - 1 # m
        BY <2>1, <4>1
      <4>5. k # from - 1 => g[k - 1] = f[k - 1]
        BY <4>4
      <4> HIDE DEF g
      <4> QED BY <4>2, <4>3, <4>5
    <3> QED BY <3>1, <3>2
  <2>4. g = [k \in from - 1..m |-> g[k]]
    OBVIOUS
  <2> HIDE DEF g
  <2>5. Counts(s, from, m, g)
    BY <2>3, <2>4 DEF Counts
  <2> QED BY <1>2, <2>5
<1> QED BY <1>3, <1>4

LEMMA DigitRange ==
  ASSUME NEW ch, IsDigit(ch)
  PROVE  Digit(ch) \in 0..9 /\ (Digit(ch) = 0 => ch = "0")
<1>1. \E d \in 1..10 : DigitChars[d] = ch
  BY DEF IsDigit
<1> DEFINE e == CHOOSE d \in 1..10 : DigitChars[d] = ch
<1>2. e \in 1..10 /\ DigitChars[e] = ch
  BY <1>1
<1>3. Digit(ch) = e - 1
  BY DEF Digit
<1>4. DigitChars[1] = "0"
  BY DEF DigitChars
<1> HIDE DEF e
<1> QED BY <1>2, <1>3, <1>4

LEMMA WithDigitRange ==
  ASSUME NEW p \in Numbers, NEW ch
  PROVE  /\ WithDigit(p, ch) \in Numbers
         /\ p # 0 \/ ch # "0" => WithDigit(p, ch) # 0
<1>1. IntMax \in Nat
  BY IntAssumption
<1>2. CASE WithDigit(p, ch) = NoNumber
  BY <1>2 DEF Numbers, NoNumber
<1>3. CASE WithDigit(p, ch) # NoNumber
  <2>1. /\ p # NoNumber /\ IsDigit(ch) /\ ~(p > IntMax \div 10)
        /\ ~(p = IntMax \div 10 /\ Digit(ch) > IntMax % 10)
        /\ WithDigit(p, ch) = p * 10 + Digit(ch)
    BY <1>3 DEF WithDigit
  <2>2. PICK d \in 0..9 : d = Digit(ch) /\ (d = 0 => ch = "0")
    BY <2>1, DigitRange
  <2>3. p \in Nat
    BY <1>1, <2>1 DEF Numbers
  <2>4. p * 10 + d \in 0..IntMax
    BY <1>1, <2>1, <2>2, <2>3
  <2>5. p # 0 \/ d # 0 => p * 10 + d # 0
    BY <2>2, <2>3
  <2> QED BY <2>1, <2>2, <2>4, <2>5 DEF Numbers
<1> QED BY <1>2, <1>3

\* A number has no leading zero, unless it is zero and zero is allowed.
LEMMA DecimalRange ==
  ASSUME NEW s, Len(s) \in Nat, NEW from \in Nat \ {0}, NEW last \in Int, last <= Len(s),
         NEW allowZero \in BOOLEAN
  PROVE  /\ Decimal(s, from, last, allowZero) \in Numbers
         /\ ~allowZero => Decimal(s, from, last, allowZero) # 0
<1> DEFINE parsed == CHOOSE f : Counts(s, from, last, f)
<1>1. Decimal(s, from, last, allowZero) =
        IF from > last \/ (At(s, from) = "0" /\ (~allowZero \/ from < last))
        THEN NoNumber ELSE parsed[last]
  BY DEF Decimal, Counts
<1>2. CASE Decimal(s, from, last, allowZero) = NoNumber
  BY <1>2 DEF Numbers, NoNumber
<1>3. CASE Decimal(s, from, last, allowZero) # NoNumber
  <2>1. /\ from <= last /\ Decimal(s, from, last, allowZero) = parsed[last]
        /\ ~allowZero => At(s, from) # "0"
    BY <1>1, <1>3
  <2>2. last \in Nat /\ last >= from - 1 /\ from \in 1..Len(s)
    BY <2>1
  <2>3. Counts(s, from, last, parsed)
    BY <2>2, CountsExist
  <2>4. \A k \in from - 1..last : parsed[k] = IF k = from - 1 THEN 0 ELSE WithDigit(parsed[k - 1], s[k])
    <3> HIDE DEF parsed
    <3> QED BY <2>3 DEF Counts
  <2> HIDE DEF parsed
  <2> DEFINE Good(k) == /\ parsed[k] \in Numbers
                        /\ k >= from /\ s[from] # "0" => parsed[k] # 0
             U == {k \in from - 1..last : ~Good(k)}
  <2>5. U = {}
    <3>1. SUFFICES ASSUME U # {} PROVE FALSE
      OBVIOUS
    <3>2. U \subseteq Nat
      BY <2>2
    <3> HIDE DEF U
    <3>3. PICK m \in U : \A n \in U : m <= n
      BY <3>1, <3>2, FirstPlace
    <3>4. m \in from - 1..last /\ ~Good(m) /\ (m - 1 \in from - 1..last => Good(m - 1))
      <4>1. m \in from - 1..last /\ ~Good(m)
        BY <3>3 DEF U
      <4>2. m \in Nat /\ m - 1 \notin U
        BY <3>2, <3>3
      <4> QED BY <4>1, <4>2 DEF U
    <3>5. CASE m = from - 1
      <4>1. parsed[m] = 0 /\ ~(m >= from)
        BY <2>4, <3>4, <3>5
      <4>2. 0 \in Numbers
        BY IntAssumption DEF Numbers
      <4> QED BY <3>4, <4>1, <4>2
    <3>6. CASE m # from - 1
      <4>1. m - 1 \in from - 1..last /\ m \in Nat /\ m >= from
        BY <2>2, <3>4, <3>6
      <4>2. parsed[m] = WithDigit(parsed[m - 1], s[m])
        BY <2>4, <3>4, <3>6
      <4>3. Good(m - 1)
        BY <3>4, <4>1
      <4>4. ASSUME s[from] # "0" PROVE parsed[m] # 0
        <5>1. CASE m = from
          BY <4>2, <4>3, <4>4, <5>1, WithDigitRange
        <5>2. CASE m # from
          <6>1. parsed[m - 1] # 0
            BY <4>1, <4>3, <4>4, <5>2
          <6> QED BY <4>2, <4>3, <6>1, WithDigitRange
        <5> QED BY <5>1, <5>2
      <4>5. parsed[m] \in Numbers
        BY <4>2, <4>3, WithDigitRange
      <4> QED BY <3>4, <4>4, <4>5
    <3> QED BY <3>5, <3>6
  <2>6. Good(last)
    BY <2>2, <2>5
  <2>7. At(s, from) = s[from]
    BY <2>2 DEF At
  <2> QED BY <2>1, <2>2, <2>6, <2>7
<1> QED BY <1>2, <1>3

\* The test for overflow keeps the product of the lengths in an int.
LEMMA FitsIsEnough ==
  ASSUME NEW len \in 1..IntMax, NEW value \in 1..IntMax, Fits(len, value)
  PROVE  len * value \in 1..IntMax
<1>1. PICK n \in Nat, q \in Nat : n = IntMax /\ q = n \div value /\ len <= q
  BY IntAssumption DEF Fits
<1>2. q * value <= n
  BY <1>1
<1>3. len * value <= q * value
  BY <1>1
<1>4. len * value >= 1
  OBVIOUS
<1> QED BY <1>1, <1>2, <1>3, <1>4

-----------------------------------------------------------------------------
(* The type invariant.                                                       *)

\* Which readers a text of each form has.
FormReads ==
  \/ reader \in Over
  \/ form \in {"call", "variadic"} /\ reader \in {"layouts", "loads", "result"}
  \/ form = "callback" /\ reader \in {"rewrite", "fetch", "answer"}
  \/ form = "types" /\ reader \in {"tokens", "lengths"}
  \/ form = "tail" /\ reader = "fields"

Parts == [from : Nat, last : Nat, len : 1..IntMax]
Types ==
  /\ form \in Forms /\ text \in Line /\ FormReads
  /\ pos \in Nat \ {0} /\ stars \in Nat /\ nargs \in Nat /\ used \in Nat
  /\ mode \in Modes \cup {Nul} /\ plain \in Line /\ part \in Parts

LEMMA TypesEnough == Types => TypeOK
BY DEF Types, TypeOK, FormReads, Over, Readers, Parts, Line, Text, Char

\* What an action has to show of the variables that it changes.
LEMMA TypesKept ==
  ASSUME Types, UNCHANGED inputs, FormReads',
         pos' \in Nat \ {0}, stars' \in Nat, nargs' \in Nat, used' \in Nat,
         mode' \in Modes \cup {Nul}, plain' \in Line, part' \in Parts
  PROVE  Types'
BY DEF Types, inputs

LEMMA TypesStop == ASSUME Types, NEW how \in Over, Stop(how), UNCHANGED inputs PROVE Types'
<1>1. FormReads'
  BY DEF Stop, FormReads
<1> QED BY <1>1, TypesKept DEF Stop, Types

\* A turn of a loop that changes neither reader nor form.
LEMMA SameReader == ASSUME FormReads, UNCHANGED <<reader, form>> PROVE FormReads'
BY DEF FormReads

LEMMA TypesInit == Init => Types
<1> SUFFICES ASSUME Init PROVE Types
  OBVIOUS
<1>1. Inv
  BY InitHolds
<1>2. text \in Line
  BY <1>1 DEF Inv, CallInv, Forwarded
<1>3. PICK b \in DOMAIN Inputs : \E in \in Inputs[b] : form = in.form
  BY DEF Init
<1>4. form \in Forms
  BY <1>3, InputAssumption
<1>5. FormReads
  <2>1. reader = CASE form = "call"     -> "layouts"
                   [] form = "variadic" -> reader
                   [] form = "callback" -> "rewrite"
                   [] form = "types"    -> "tokens"
                   [] form = "tail"     -> "fields"
    BY <1>4 DEF Init, Forms
  <2>2. form = "variadic" => reader \in {"layouts", "refused"}
    BY DEF Init
  <2> QED BY <1>4, <2>1, <2>2 DEF Forms, FormReads, Over
<1>6. /\ pos = IF reader \in {"layouts", "rewrite"} /\ Len(text) >= 2 /\ Prefixed(text)
               THEN 3 ELSE 1
      /\ plain = IF reader = "rewrite" /\ pos = 3 THEN SubSeq(text, 1, 2) ELSE <<>>
      /\ stars = 0 /\ mode = Nul /\ nargs = 0 /\ used = 0 /\ part = NoPart
  BY DEF Init
<1>7. plain \in Line
  <2>1. pos = 3 => 2 <= Len(text)
    BY <1>6
  <2>2. pos = 3 => SubSeq(text, 1, 2) \in Line
    BY <1>2, <2>1, PieceIsLine
  <2>3. <<>> \in Line
    BY DEF Line
  <2> QED BY <1>6, <2>2, <2>3
<1>8. NoPart \in Parts
  BY IntAssumption DEF NoPart, Parts
<1> QED BY <1>2, <1>4, <1>5, <1>6, <1>7, <1>8 DEF Types

\* The places that readers go to.
LEMMA Forward ==
  ASSUME NEW s \in Line, NEW k \in Nat \ {0}
  PROVE  /\ \A chars : First(s, k, chars) \in Nat \ {0} /\ Past(s, k, chars) \in Nat \ {0}
         /\ \A chars : First(s, k + 1, chars) \in Nat \ {0} /\ Past(s, k + 1, chars) \in Nat \ {0}
BY FirstFound, PastFound

LEMMA TypesLayouts ==
  ASSUME Types, Inv, LayoutsStar \/ LayoutsSkip \/ LayoutsAggregate \/ LayoutsResult,
         UNCHANGED inputs
  PROVE  Types'
<1>1. CASE \E how \in Over : Stop(how)
  BY <1>1, TypesStop
<1>2. pos \in Nat \ {0} /\ stars \in Nat /\ text \in Line /\ form' = form
  BY DEF Types, inputs
<1>3. CASE LayoutsStar \/ LayoutsSkip
  <2>1. pos' \in {pos + 1, pos + 2} /\ stars' \in {stars + 1, 0}
    BY <1>3 DEF LayoutsStar, LayoutsSkip, Goes
  <2>2. UNCHANGED <<reader, mode, plain, nargs, used, part>>
    BY <1>3 DEF LayoutsStar, LayoutsSkip, Goes
  <2>3. FormReads'
    BY <1>2, <2>2, SameReader DEF Types
  <2> QED BY <1>2, <2>1, <2>2, <2>3, TypesKept DEF Types
<1>4. CASE LayoutsAggregate /\ ~\E how \in Over : Stop(how)
  <2>1. pos' = Close(text) + 1 /\ stars' = 0
    BY <1>4 DEF LayoutsAggregate, Goes, Over
  <2>2. UNCHANGED <<reader, mode, plain, nargs, used, part>>
    BY <1>4 DEF LayoutsAggregate, Goes, Over
  <2>3. FormReads'
    BY <1>2, <2>2, SameReader DEF Types
  <2>4. Close(text) \in Nat
    BY <1>2, Forward DEF Close
  <2> QED BY <1>2, <2>1, <2>2, <2>3, <2>4, TypesKept DEF Types
<1>5. CASE LayoutsResult /\ ~\E how \in Over : Stop(how)
  <2>1. /\ reader = "layouts" /\ reader' = "loads" /\ stars' = 0
        /\ mode' = (IF Prefixed(text) THEN text[2] ELSE Nul)
        /\ pos' = (IF Prefixed(text) THEN 3 ELSE 1)
        /\ Prefixed(text) => At(text, 2) \in Modes
        /\ UNCHANGED <<plain, nargs, used, part>>
    BY <1>5 DEF LayoutsResult, Over
  <2>2. FormReads'
    BY <1>2, <2>1 DEF Types, FormReads, Over
  <2>3. mode' \in Modes \cup {Nul}
    <3>1. Prefixed(text) => At(text, 2) = text[2]
      <4>1. Nul \notin Modes
        OBVIOUS
      <4>2. Prefixed(text) => At(text, 2) # Nul
        BY <2>1, <4>1
      <4> QED BY <1>2, <4>2, AtIsChar
    <3> QED BY <2>1, <3>1
  <2>4. pos' \in Nat \ {0}
    BY <2>1
  <2> QED BY <2>1, <2>2, <2>3, <2>4, TypesKept DEF Types
<1> QED BY <1>1, <1>3, <1>4, <1>5

LEMMA TypesLoads ==
  ASSUME Types, LoadsTerminator \/ LoadsMode \/ LoadsStar \/ LoadsAggregate \/ LoadsBase,
         UNCHANGED inputs
  PROVE  Types'
<1>1. CASE \E how \in Over : Stop(how)
  BY <1>1, TypesStop
<1>2. pos \in Nat \ {0} /\ stars \in Nat /\ used \in Nat /\ text \in Line /\ form' = form
  BY DEF Types, inputs
<1>3. CASE LoadsTerminator
  <2>1. /\ reader = "loads" /\ reader' = "result" /\ pos' = pos + 1
        /\ UNCHANGED <<stars, mode, plain, nargs, used, part>>
    BY <1>3 DEF LoadsTerminator, Reads
  <2>2. FormReads'
    BY <1>2, <2>1 DEF Types, FormReads, Over
  <2> QED BY <1>2, <2>1, <2>2, TypesKept DEF Types
<1>4. CASE LoadsMode /\ ~\E how \in Over : Stop(how)
  <2>1. /\ UNCHANGED reader /\ pos' = pos + 2 /\ stars' = 0
        /\ At(text, pos + 1) \in Modes /\ mode' = text[pos + 1]
        /\ UNCHANGED <<plain, nargs, used, part>>
    BY <1>4 DEF LoadsMode, Goes, Over
  <2>2. FormReads'
    BY <1>2, <2>1, SameReader DEF Types
  <2>3. mode' \in Modes
    <3>1. At(text, pos + 1) # Nul
      BY <2>1
    <3>2. At(text, pos + 1) = text[pos + 1]
      BY <1>2, <3>1, AtIsChar
    <3> QED BY <2>1, <3>2
  <2> QED BY <1>2, <2>1, <2>2, <2>3, TypesKept DEF Types
<1>5. CASE (LoadsStar \/ LoadsBase) /\ ~\E how \in Over : Stop(how)
  <2>1. /\ UNCHANGED reader /\ pos' = pos + 1 /\ stars' \in {stars + 1, 0}
        /\ UNCHANGED <<mode, plain, nargs, used, part>>
    BY <1>5 DEF LoadsStar, LoadsBase, Goes, Over
  <2>2. FormReads'
    BY <1>2, <2>1, SameReader DEF Types
  <2> QED BY <1>2, <2>1, <2>2, TypesKept DEF Types
<1>6. CASE LoadsAggregate /\ ~\E how \in Over : Stop(how)
  <2>1. ~Stop("refused") /\ ~Stop("internal")
    BY <1>6 DEF Over
  <2>2. /\ UNCHANGED reader /\ pos' = NameEnd(pos + 1) + 1 /\ stars' = 0
        /\ used' \in {used, used + 1}
        /\ UNCHANGED <<mode, plain, nargs, part>>
    BY <1>6, <2>1 DEF LoadsAggregate, Goes
  <2>3. FormReads'
    BY <1>2, <2>2, SameReader DEF Types
  <2>4. NameEnd(pos + 1) \in Nat
    BY <1>2, Forward DEF NameEnd
  <2> QED BY <1>2, <2>2, <2>3, <2>4, TypesKept DEF Types
<1> QED BY <1>1, <1>3, <1>4, <1>5, <1>6

LEMMA TypesReturn ==
  ASSUME Types, NEW kind, NEW name, Returns(kind, name), UNCHANGED inputs PROVE Types'
<1>1. FormReads'
  BY DEF Returns, FormReads, Over
<1> QED BY <1>1, TypesKept DEF Returns, Types

LEMMA TypesReturns ==
  ASSUME Types, ReturnsBase \/ ReturnsAggregate \/ ReturnsPointer \/ ReturnsUnknown \/ Answer,
         UNCHANGED inputs
  PROVE  Types'
<1>1. \/ Stop("refused") \/ Stop("internal")
      \/ \E kind, name : Returns(kind, name)
  BY DEF ReturnsBase, ReturnsAggregate, ReturnsPointer, ReturnsUnknown, Answer
<1> QED BY <1>1, TypesStop, TypesReturn DEF Over

LEMMA TypesRewrite ==
  ASSUME Types, RewritePointer \/ RewriteAggregate \/ RewriteOther, UNCHANGED inputs
  PROVE  Types'
<1>1. CASE \E how \in Over : Stop(how)
  BY <1>1, TypesStop
<1>2. pos \in Nat \ {0} /\ text \in Line /\ plain \in Line /\ form' = form
  BY DEF Types, inputs
<1>3. ASSUME NEW k \in Nat, Goes(k + 1), NEW ch \in Char, Writes(ch),
             UNCHANGED <<stars, mode, nargs, used, part>>
      PROVE  Types'
  <2>1. pos' = k + 1 /\ UNCHANGED reader /\ plain' = Append(plain, ch)
    BY <1>3 DEF Goes, Writes
  <2>2. FormReads'
    BY <1>2, <2>1, SameReader DEF Types
  <2>3. plain' \in Line
    BY <1>2, <2>1, Appended
  <2> QED BY <1>3, <2>1, <2>2, <2>3, TypesKept DEF Types
<1>4. CASE RewritePointer /\ ~\E how \in Over : Stop(how)
  <2> DEFINE end == PointeeEnd(Past(text, pos, {"*"}))
  <2>1. Goes(end + 1) /\ Writes("p") /\ UNCHANGED <<stars, mode, nargs, used, part>>
    BY <1>4 DEF RewritePointer, Over
  <2>2. end \in Nat
    BY <1>2, Forward DEF PointeeEnd
  <2>3. "p" \in Char
    BY WrittenChars, Zenon
  <2> HIDE DEF end
  <2> QED BY <1>3, <2>1, <2>2, <2>3
<1>5. CASE RewriteAggregate /\ ~\E how \in Over : Stop(how)
  <2> DEFINE end == Close(text)
  <2>1. Goes(end + 1) /\ Writes("A") /\ UNCHANGED <<stars, mode, nargs, used, part>>
    BY <1>5 DEF RewriteAggregate, Over
  <2>2. end \in Nat
    BY <1>2, Forward DEF Close
  <2>3. "A" \in Char
    BY WrittenChars, Zenon
  <2> HIDE DEF end
  <2> QED BY <1>3, <2>1, <2>2, <2>3
<1>6. CASE RewriteOther /\ ~\E how \in Over : Stop(how)
  <2> DEFINE ch == At(text, pos)
  <2>1. Goes(pos + 1) /\ Writes(ch) /\ UNCHANGED <<stars, mode, nargs, used, part>> /\ pos <= Len(text)
    BY <1>6 DEF RewriteOther, Over
  <2>2. ch \in Char
    <3>1. pos \in 1..Len(text)
      BY <1>2, <2>1 DEF Line
    <3> QED BY <1>2, <3>1, ElementOfSeq DEF At, Line
  <2> HIDE DEF ch
  <2> QED BY <1>2, <1>3, <2>1, <2>2
<1> QED BY <1>1, <1>4, <1>5, <1>6

LEMMA TypesFetch ==
  ASSUME Types, Count \/ FetchTerminator \/ FetchBase \/ FetchAggregate \/ FetchInvalid,
         UNCHANGED inputs
  PROVE  Types'
<1>1. CASE \E how \in Over : Stop(how)
  BY <1>1, TypesStop
<1>2. pos \in Nat \ {0} /\ used \in Nat /\ plain \in Line /\ form' = form
  BY DEF Types, inputs
<1>3. CASE Count /\ ~\E how \in Over : Stop(how)
  <2> DEFINE base == ArgsFrom(plain)
             end  == First(plain, base, {")"})
  <2>1. /\ reader = "rewrite" /\ reader' = "fetch" /\ pos' = base /\ nargs' = end - base
        /\ \E k \in base..Len(plain) : plain[k] = ")"
        /\ UNCHANGED <<stars, mode, plain, used, part>>
    BY <1>3 DEF Count, ArgsFrom, Over
  <2>2. base \in Nat \ {0} /\ Len(plain) \in Nat
    BY <1>2, ArgsFromPlace DEF Line
  <2>3. /\ end \in Nat
        /\ end <= Len(plain) => end \in base..Len(plain)
        /\ \A m \in base..Len(plain) : m < end => plain[m] \notin {")"}
    BY <1>2, <2>2, FirstFound
  <2> HIDE DEF base, end
  <2>4. nargs' \in Nat
    <3>1. PICK k \in base..Len(plain) : plain[k] = ")"
      BY <2>1
    <3>2. end <= k
      BY <2>2, <2>3, <3>1
    <3> QED BY <2>1, <2>2, <2>3, <3>1, <3>2
  <2>5. FormReads'
    BY <1>2, <2>1 DEF Types, FormReads, Over
  <2> QED BY <2>1, <2>2, <2>4, <2>5, TypesKept DEF Types
<1>4. CASE FetchTerminator
  <2>1. /\ reader = "fetch" /\ reader' = "answer" /\ pos' = pos + 1
        /\ UNCHANGED <<stars, mode, plain, nargs, used, part>>
    BY <1>4 DEF FetchTerminator, Reads
  <2>2. FormReads'
    BY <1>2, <2>1 DEF Types, FormReads, Over
  <2> QED BY <1>2, <2>1, <2>2, TypesKept DEF Types
<1>5. CASE FetchBase \/ FetchAggregate
  <2>1. /\ UNCHANGED reader /\ pos' = pos + 1 /\ used' \in {used, used + 1}
        /\ UNCHANGED <<stars, mode, plain, nargs, part>>
    BY <1>5 DEF FetchBase, FetchAggregate, Goes
  <2>2. FormReads'
    BY <1>2, <2>1, SameReader DEF Types
  <2> QED BY <1>2, <2>1, <2>2, TypesKept DEF Types
<1>6. CASE FetchInvalid
  BY <1>1, <1>6 DEF FetchInvalid, Over
<1> QED BY <1>1, <1>3, <1>4, <1>5, <1>6

LEMMA TypesScan ==
  ASSUME Types, ScanNext, UNCHANGED inputs
  PROVE  Types'
<1>1. CASE \E how \in Over : Stop(how)
  BY <1>1, TypesStop
<1>2. pos \in Nat \ {0} /\ text \in Line /\ part \in Parts /\ Len(text) \in Nat /\ form' = form
  BY DEF Types, inputs, Line
<1>3. CASE ScanType /\ ~\E how \in Over : Stop(how)
  <2> DEFINE at    == Past(text, pos, {"*"})
             close == First(text, at + 1, {">"})
             last  == CASE at > Len(text)     -> Len(text)
                        [] At(text, at) = "<" -> close
                        [] OTHER              -> at
  <2>1. /\ reader = "tokens" /\ reader' = "lengths" /\ pos' = last + 1
        /\ part' = [from |-> pos, last |-> last, len |-> 1]
        /\ UNCHANGED <<stars, mode, plain, nargs, used>>
    BY <1>3 DEF ScanType, Over
  <2>2. last \in Nat
    <3>1. at \in Nat \ {0}
      BY <1>2, Forward
    <3> HIDE DEF at
    <3>2. close \in Nat
      BY <1>2, <3>1, Forward
    <3> QED BY <1>2, <3>1, <3>2
  <2> HIDE DEF last
  <2>3. FormReads'
    BY <1>2, <2>1 DEF Types, FormReads, Over
  <2>4. part' \in Parts
    BY <1>2, <2>1, <2>2, IntAssumption DEF Parts
  <2> QED BY <2>1, <2>2, <2>3, <2>4, TypesKept DEF Types
<1>4. CASE ScanLength /\ ~\E how \in Over : Stop(how)
  <2> DEFINE close == First(text, pos, {"]"})
             value == Decimal(text, pos + 1, close - 1, FALSE)
  <2>1. /\ UNCHANGED reader /\ pos' = close + 1
        /\ close <= Len(text) /\ value # NoNumber /\ Fits(part.len, value)
        /\ part' = [part EXCEPT !.len = @ * value]
        /\ UNCHANGED <<stars, mode, plain, nargs, used>>
    <3>1. ~Stop("refused")
      BY <1>4 DEF Over
    <3>2. /\ ~(close > Len(text) \/ value = NoNumber \/ ~Fits(part.len, value))
          /\ Goes(close + 1) /\ part' = [part EXCEPT !.len = @ * value]
          /\ UNCHANGED <<stars, mode, plain, nargs, used>>
      BY <1>4, <3>1, Zenon DEF ScanLength
    <3>3. close \in Nat
      BY <1>2, Forward
    <3> HIDE DEF close, value
    <3> QED BY <1>2, <3>2, <3>3 DEF Goes
  <2>2. close \in Nat
    BY <1>2, Forward
  <2>3. value \in Numbers /\ value # 0
    <3> HIDE DEF close
    <3>1. close - 1 \in Int /\ close - 1 <= Len(text) /\ pos + 1 \in Nat \ {0}
      BY <1>2, <2>1, <2>2
    <3> QED BY <1>2, <3>1, DecimalRange
  <2> HIDE DEF value, close
  <2>4. value \in 1..IntMax
    BY <2>1, <2>3, IntAssumption DEF Numbers
  <2>5. part.len \in 1..IntMax
    BY <1>2 DEF Parts
  <2>6. part.len * value \in 1..IntMax
    BY <2>1, <2>4, <2>5, FitsIsEnough
  <2>7. part' \in Parts
    BY <1>2, <2>1, <2>6 DEF Parts
  <2>8. FormReads'
    BY <1>2, <2>1, SameReader DEF Types
  <2> QED BY <2>1, <2>2, <2>7, <2>8, TypesKept DEF Types
<1>5. CASE ScanToken
  <2>1. /\ reader = "lengths" /\ reader' = "tokens" /\ part' = NoPart
        /\ UNCHANGED <<pos, stars, mode, plain, nargs, used>>
    BY <1>5 DEF ScanToken
  <2>2. FormReads'
    BY <1>2, <2>1 DEF Types, FormReads, Over
  <2>3. NoPart \in Parts
    BY IntAssumption DEF NoPart, Parts
  <2> QED BY <2>1, <2>2, <2>3, TypesKept DEF Types
<1>6. CASE ScanField /\ ~\E how \in Over : Stop(how)
  <2> DEFINE from == Past(text, pos, Spaces)
             next == First(text, from, Spaces)
  <2>1. UNCHANGED reader /\ pos' = (next - 1) + 1 /\ UNCHANGED <<stars, mode, plain, nargs, used, part>>
    BY <1>6 DEF ScanField, Goes, Over
  <2>2. from \in Nat \ {0}
    BY <1>2, Forward
  <2> HIDE DEF from
  <2>3. next \in Nat \ {0}
    BY <1>2, <2>2, Forward
  <2> HIDE DEF next
  <2>4. pos' \in Nat \ {0}
    BY <2>1, <2>3
  <2>5. FormReads'
    BY <1>2, <2>1, SameReader DEF Types
  <2> QED BY <2>1, <2>4, <2>5, TypesKept DEF Types
<1>7. CASE ScanEnd \/ ScanTailEnd
  BY <1>1, <1>7 DEF ScanEnd, ScanTailEnd, Over
<1> QED BY <1>1, <1>3, <1>4, <1>5, <1>6, <1>7 DEF ScanNext

LEMMA TypesNext == Types /\ Inv /\ [Next]_vars => Types'
<1> SUFFICES ASSUME Types, Inv, [Next]_vars PROVE Types'
  OBVIOUS
<1>1. CASE UNCHANGED vars
  <2>1. FormReads'
    BY <1>1, SameReader DEF vars, Types
  <2> QED BY <1>1, <2>1, TypesKept DEF vars, Types, inputs
<1>2. CASE Next
  BY <1>2, TypesLayouts, TypesLoads, TypesReturns, TypesRewrite, TypesFetch, TypesScan
     DEF Next, CallNext, CallbackNext
<1> QED BY <1>1, <1>2

\* Every variable has its type; in particular no array length leaves the range of
\* an int, however many are multiplied.
THEOREM SignatureTypes == Spec => []TypeOK
<1>1. Spec => [](Inv /\ Types)
  BY InitHolds, Keeps, TypesInit, TypesNext, PTL DEF Spec
<1> QED BY <1>1, TypesEnough, PTL

-----------------------------------------------------------------------------
(* The members of an aggregate: one token begins where the last has ended.   *)

Token == [from : Nat, last : Nat, end : Nat, len : 1..IntMax]
Tiles(f) ==
  \A k \in 1..Len(f) : /\ f[k].from = IF k = 1 THEN 1 ELSE f[k - 1].end + 1
                       /\ f[k].from <= f[k].last /\ f[k].last <= f[k].end
Ended(f) == IF f = <<>> THEN 0 ELSE f[Len(f)].end

TokensInv ==
  form = "types" =>
    /\ found \in Seq(Token) /\ Tiles(found)
    /\ reader \in {"tokens", "lengths"} => pos <= Len(text) + 1
    /\ reader = "tokens" => pos = Ended(found) + 1
    /\ reader = "lengths" => part.from = Ended(found) + 1 /\ part.from <= part.last /\ part.last < pos
    /\ reader = "done" => Ended(found) = Len(text)

LEMMA TokensEnough == TokensInv => TokensTile
<1> SUFFICES ASSUME TokensInv, form = "types" PROVE TokensTile
  BY DEF TokensTile
<1>1. found \in Seq(Token) /\ Tiles(found) /\ (reader = "done" => Ended(found) = Len(text))
  BY DEF TokensInv
<1>2. DOMAIN found = 1..Len(found)
  BY <1>1
<1>3. ASSUME NEW k \in 1..Len(found) PROVE found[k].len \in 1..IntMax
  <2>1. found[k] \in Token
    BY <1>1, ElementOfSeq
  <2> QED BY <2>1 DEF Token
<1> QED BY <1>1, <1>2, <1>3 DEF TokensTile, Tiles, Ended

\* A search ends behind its beginning or at the end of the string.
LEMMA FirstEnds ==
  ASSUME NEW s \in Line, NEW from \in Nat \ {0}, NEW chars
  PROVE  /\ First(s, from, chars) \in Nat \ {0}
         /\ First(s, from, chars) >= from \/ First(s, from, chars) = Len(s) + 1
         /\ First(s, from, chars) <= Len(s) + 1
<1>1. Len(s) \in Nat
  BY DEF Line
<1>0. /\ First(s, from, chars) \in Nat \ {0}
      /\ First(s, from, chars) <= Len(s) => First(s, from, chars) >= from
  BY <1>1, FirstFound
<1>2. CASE First(s, from, chars) <= Len(s)
  BY <1>0, <1>1, <1>2
<1>3. CASE ~(First(s, from, chars) <= Len(s))
  <2>1. First(s, from, chars) = Len(s) + 1
    <3>1. SUFFICES ASSUME \E k \in from..Len(s) : s[k] \in chars PROVE FALSE
      BY DEF First
    <3>2. PICK k \in from..Len(s) : s[k] \in chars
      BY <3>1
    <3>3. ~(k < First(s, from, chars))
      BY <3>2, FirstFound
    <3> QED BY <1>1, <1>3, <3>2, <3>3, FirstFound
  <2> QED BY <1>1, <2>1
<1> QED BY <1>2, <1>3

LEMMA PastEnds ==
  ASSUME NEW s \in Line, NEW from \in Nat \ {0}, NEW chars
  PROVE  /\ Past(s, from, chars) \in Nat \ {0}
         /\ Past(s, from, chars) >= from \/ Past(s, from, chars) = Len(s) + 1
         /\ Past(s, from, chars) <= Len(s) + 1
<1>1. Len(s) \in Nat
  BY DEF Line
<1>0. /\ Past(s, from, chars) \in Nat \ {0}
      /\ Past(s, from, chars) <= Len(s) => Past(s, from, chars) >= from
  BY <1>1, PastFound
<1>2. CASE Past(s, from, chars) <= Len(s)
  BY <1>0, <1>1, <1>2
<1>3. CASE ~(Past(s, from, chars) <= Len(s))
  <2>1. Past(s, from, chars) = Len(s) + 1
    <3>1. SUFFICES ASSUME \E k \in from..Len(s) : s[k] \notin chars PROVE FALSE
      BY DEF Past
    <3>2. PICK k \in from..Len(s) : s[k] \notin chars
      BY <3>1
    <3>3. ~(k < Past(s, from, chars))
      BY <3>2, PastFound
    <3> QED BY <1>1, <1>3, <3>2, <3>3, PastFound
  <2> QED BY <1>1, <2>1
<1> QED BY <1>2, <1>3

\* One token more.
LEMMA TilesGrow ==
  ASSUME NEW f \in Seq(Token), Tiles(f), NEW t \in Token,
         t.from = Ended(f) + 1, t.from <= t.last, t.last <= t.end
  PROVE  Append(f, t) \in Seq(Token) /\ Tiles(Append(f, t)) /\ Ended(Append(f, t)) = t.end
<1> DEFINE g == Append(f, t)
<1>1. /\ g \in Seq(Token) /\ Len(g) = Len(f) + 1 /\ Len(f) \in Nat
      /\ g[Len(f) + 1] = t /\ \A k \in 1..Len(f) : g[k] = f[k]
  OBVIOUS
<1>2. g # <<>> /\ (f = <<>> <=> Len(f) = 0)
  OBVIOUS
<1> HIDE DEF g
<1>3. Ended(g) = t.end
  BY <1>1, <1>2 DEF Ended
<1>4. ASSUME NEW k \in 1..Len(g)
      PROVE  /\ g[k].from = IF k = 1 THEN 1 ELSE g[k - 1].end + 1
             /\ g[k].from <= g[k].last /\ g[k].last <= g[k].end
  <2>1. CASE k = Len(f) + 1
    <3>1. CASE k = 1
      BY <1>1, <1>2, <2>1, <3>1 DEF Ended
    <3>2. CASE k # 1
      <4>1. k - 1 = Len(f) /\ Len(f) \in 1..Len(f) /\ f # <<>>
        BY <1>1, <1>2, <2>1, <3>2
      <4>2. g[k - 1].end = Ended(f)
        BY <1>1, <4>1 DEF Ended
      <4> QED BY <1>1, <2>1, <3>2, <4>2
    <3> QED BY <3>1, <3>2
  <2>2. CASE k \in 1..Len(f)
    <3>1. k # 1 => k - 1 \in 1..Len(f)
      BY <1>1, <2>2
    <3> QED BY <1>1, <2>2, <3>1 DEF Tiles
  <2> QED BY <1>1, <2>1, <2>2
<1>5. Tiles(g)
  BY <1>4 DEF Tiles
<1> QED BY <1>1, <1>3, <1>5 DEF g

LEMMA TokensInit == Init => TokensInv
<1> SUFFICES ASSUME Init, form = "types" PROVE TokensInv
  BY DEF TokensInv
<1>1. Types
  BY TypesInit
<1>2. reader = "tokens" /\ pos = 1 /\ found = <<>>
  BY DEF Init
<1>3. Len(text) \in Nat /\ found \in Seq(Token) /\ Len(found) = 0
  BY <1>1, <1>2 DEF Types, Line
<1> QED BY <1>2, <1>3 DEF TokensInv, Tiles, Ended

\* Nobody reads when the reading is over.
LEMMA ReadingEnds == reader \in Over => ~Next
BY DEF Next, CallNext, CallbackNext, ScanNext, LayoutsStar, LayoutsSkip, LayoutsAggregate,
   LayoutsResult, LoadsTerminator, LoadsMode, LoadsStar, LoadsAggregate, LoadsBase, ReturnsBase,
   ReturnsAggregate, ReturnsPointer, ReturnsUnknown, RewritePointer, RewriteAggregate,
   RewriteOther, Count, FetchTerminator, FetchBase, FetchAggregate, FetchInvalid, Answer,
   ScanType, ScanLength, ScanToken, ScanEnd, ScanField, ScanTailEnd, Reads, Over

LEMMA TokensNext == TokensInv /\ Types /\ [Next]_vars => TokensInv'
<1> SUFFICES ASSUME TokensInv, Types, [Next]_vars PROVE TokensInv'
  OBVIOUS
<1>0. form' = form
  BY DEF Next, inputs, vars
<1> SUFFICES ASSUME form = "types" PROVE TokensInv'
  BY <1>0 DEF TokensInv
<1>1. /\ found \in Seq(Token) /\ Tiles(found) /\ pos \in Nat \ {0} /\ text \in Line /\ Len(text) \in Nat
      /\ reader \in {"tokens", "lengths"} \cup Over /\ part \in Parts
  BY DEF TokensInv, Types, FormReads, Line
<1>2. CASE UNCHANGED vars
  BY <1>2 DEF vars, TokensInv
<1>3. text' = text /\ form' = form
  BY DEF Next, inputs, vars
<1>4. CASE Stop("refused")
  BY <1>3, <1>4 DEF Stop, TokensInv
<1>5. CASE ScanType /\ ~Stop("refused")
  <2> DEFINE at    == Past(text, pos, {"*"})
             close == First(text, at + 1, {">"})
             last  == CASE at > Len(text)     -> Len(text)
                        [] At(text, at) = "<" -> close
                        [] OTHER              -> at
  <2>1. /\ reader = "tokens" /\ reader' = "lengths" /\ pos' = last + 1 /\ pos <= Len(text)
        /\ last <= Len(text)
        /\ part' = [from |-> pos, last |-> last, len |-> 1] /\ found' = found
    BY <1>5 DEF ScanType
  <2>2. at \in Nat \ {0} /\ at >= pos
    <3>1. at \in Nat \ {0} /\ (at <= Len(text) => at \in pos..Len(text))
      BY <1>1, PastFound
    <3> HIDE DEF at
    <3> QED BY <1>1, <2>1, <3>1
  <2> HIDE DEF at
  <2>3. close \in Nat /\ close >= at
    <3>1. close \in Nat \ {0} /\ (close >= at + 1 \/ close = Len(text) + 1)
      BY <1>1, <2>2, FirstEnds
    <3> HIDE DEF close
    <3>2. at <= Len(text) + 1
      BY <1>1, PastEnds DEF at
    <3> QED BY <1>1, <2>2, <3>1, <3>2
  <2> HIDE DEF close
  <2>4. last \in Nat /\ last >= pos
    BY <1>1, <2>1, <2>2, <2>3
  <2> HIDE DEF last
  <2>5. part'.from = pos /\ part'.last = last
    BY <2>1
  <2>6. pos = Ended(found) + 1
    BY <2>1 DEF TokensInv
  <2> QED BY <1>1, <1>3, <2>1, <2>4, <2>5, <2>6 DEF TokensInv
<1>6. CASE ScanLength /\ ~Stop("refused")
  <2> DEFINE close == First(text, pos, {"]"})
             value == Decimal(text, pos + 1, close - 1, FALSE)
  <2>1. reader = "lengths" /\ At(text, pos) = "["
    BY <1>6 DEF ScanLength, Reads
  <2>2. /\ ~(close > Len(text) \/ value = NoNumber \/ ~Fits(part.len, value))
        /\ Goes(close + 1) /\ part' = [part EXCEPT !.len = @ * value]
        /\ found' = found
    BY <1>6, Zenon DEF ScanLength
  <2>3. close \in Nat /\ (close <= Len(text) => close >= pos)
    BY <1>1, FirstFound
  <2> HIDE DEF close, value
  <2>4. pos' = close + 1 /\ reader' = reader /\ part'.from = part.from /\ part'.last = part.last
    BY <1>1, <2>2 DEF Goes, Parts
  <2>5. part.from = Ended(found) + 1 /\ part.from <= part.last /\ part.last < pos /\ part.last \in Nat
    BY <1>1, <2>1 DEF TokensInv, Parts
  <2>6. close <= Len(text) /\ part.last < close + 1 /\ close + 1 <= Len(text) + 1
    BY <1>1, <2>2, <2>3, <2>5
  <2> QED BY <1>1, <1>3, <2>1, <2>2, <2>4, <2>5, <2>6 DEF TokensInv
<1>7. CASE ScanToken
  <2> DEFINE t == [from |-> part.from, last |-> part.last, end |-> pos - 1, len |-> part.len]
  <2>1. /\ reader = "lengths" /\ reader' = "tokens" /\ pos' = pos /\ found' = Append(found, t)
    BY <1>7 DEF ScanToken
  <2>2. part.from = Ended(found) + 1 /\ part.from <= part.last /\ part.last < pos /\ pos <= Len(text) + 1
    BY <2>1 DEF TokensInv
  <2>3. part.from \in Nat /\ part.last \in Nat /\ part.len \in 1..IntMax
    BY <1>1 DEF Parts
  <2>4. /\ t \in Token /\ t.from = Ended(found) + 1 /\ t.from <= t.last /\ t.last <= t.end
        /\ t.end = pos - 1
    BY <1>1, <2>2, <2>3 DEF Token
  <2> HIDE DEF t
  <2>5. found' \in Seq(Token) /\ Tiles(found') /\ Ended(found') = pos - 1
    BY <1>1, <2>1, <2>4, TilesGrow
  <2> QED BY <1>1, <1>3, <2>1, <2>2, <2>5 DEF TokensInv
<1>8. CASE ScanEnd
  <2>1. reader = "tokens" /\ pos > Len(text) /\ reader' = "done" /\ found' = found
    BY <1>8 DEF ScanEnd, Stop
  <2>2. pos = Ended(found) + 1 /\ pos <= Len(text) + 1
    BY <2>1 DEF TokensInv
  <2>3. Ended(found) \in Int
    <3>1. found # <<>> => found[Len(found)] \in Token
      BY <1>1, ElementOfSeq
    <3> QED BY <3>1 DEF Ended, Token
  <2>4. Ended(found) = Len(text)
    BY <1>1, <2>1, <2>2, <2>3
  <2> QED BY <1>1, <1>3, <2>1, <2>4 DEF TokensInv
<1>9. reader \in {"tokens", "lengths"} /\ Next => ScanType \/ ScanLength \/ ScanToken \/ ScanEnd
  BY DEF Next, CallNext, CallbackNext, ScanNext, LayoutsStar, LayoutsSkip, LayoutsAggregate,
     LayoutsResult, LoadsTerminator, LoadsMode, LoadsStar, LoadsAggregate, LoadsBase, ReturnsBase,
     ReturnsAggregate, ReturnsPointer, ReturnsUnknown, RewritePointer, RewriteAggregate,
     RewriteOther, Count, FetchTerminator, FetchBase, FetchAggregate, FetchInvalid, Answer,
     ScanField, ScanTailEnd, Reads
<1> QED BY <1>1, <1>2, <1>4, <1>5, <1>6, <1>7, <1>8, <1>9, ReadingEnds

\* The members of a declaration are cut up without a gap.
THEOREM TokensCover == Spec => []TokensTile
<1>1. Spec => [](Inv /\ Types /\ TokensInv)
  BY InitHolds, Keeps, TypesInit, TypesNext, TokensInit, TokensNext, PTL DEF Spec
<1> QED BY <1>1, TokensEnough, PTL

-----------------------------------------------------------------------------
(* The tail of a field: the items are its words, and none is left out.       *)

Items == [kind : {"directive", "field"}, name : Line, width : Int, from : Nat, last : Nat]
Covered(f) == UNION {f[k].from..f[k].last : k \in 1..Len(f)}
\* The characters of words before place k.
Solid(k) == {i \in 1..Len(text) : i < k /\ text[i] \notin Spaces}

TailInv ==
  form = "tail" =>
    /\ found \in Seq(Items) /\ \A k \in 1..Len(found) : IsItem(found[k])
    /\ reader = "fields" => /\ Covered(found) = Solid(pos)
                            /\ pos = 1 \/ pos > Len(text) \/ text[pos] \in Spaces
    /\ reader = "done" => Covered(found) = Solid(Len(text) + 1)

LEMMA TailEnough == TailInv /\ Types => TailSplit
<1> SUFFICES ASSUME TailInv, Types, form = "tail" PROVE TailSplit
  BY DEF TailSplit
<1>1. found \in Seq(Items) /\ \A k \in 1..Len(found) : IsItem(found[k])
  BY DEF TailInv
<1>2. DOMAIN found = 1..Len(found) /\ Len(text) \in Nat
  BY <1>1 DEF Types, Line
<1>3. Solid(Len(text) + 1) = {i \in 1..Len(text) : text[i] \notin Spaces}
  BY <1>2 DEF Solid
<1>4. reader = "done" => Covered(found) = Solid(Len(text) + 1)
  BY DEF TailInv
<1> QED BY <1>1, <1>2, <1>3, <1>4 DEF TailSplit, Covered

LEMMA CoveredGrows ==
  ASSUME NEW f \in Seq(Items), NEW x \in Items
  PROVE  Covered(Append(f, x)) = Covered(f) \cup (x.from..x.last)
<1> DEFINE g == Append(f, x)
<1>1. /\ Len(g) = Len(f) + 1 /\ Len(f) \in Nat
      /\ g[Len(f) + 1] = x /\ \A k \in 1..Len(f) : g[k] = f[k]
  OBVIOUS
<1> HIDE DEF g
<1>2. 1..Len(g) = 1..Len(f) \cup {Len(f) + 1}
  BY <1>1
<1>3. ASSUME NEW i PROVE i \in Covered(g) <=> i \in Covered(f) \cup (x.from..x.last)
  <2>1. i \in Covered(g) <=> \E k \in 1..Len(g) : i \in g[k].from..g[k].last
    BY DEF Covered
  <2>2. i \in Covered(f) <=> \E k \in 1..Len(f) : i \in f[k].from..f[k].last
    BY DEF Covered
  <2> QED BY <1>1, <1>2, <2>1, <2>2
<1> QED BY <1>3 DEF g

LEMMA TailInit == Init => TailInv
<1> SUFFICES ASSUME Init, form = "tail" PROVE TailInv
  BY DEF TailInv
<1>1. Types
  BY TypesInit
<1>2. reader = "fields" /\ pos = 1 /\ found = <<>>
  BY DEF Init
<1>3. Len(text) \in Nat /\ found \in Seq(Items) /\ Len(found) = 0
  BY <1>1, <1>2 DEF Types, Line
<1>4. Covered(found) = {} /\ Solid(1) = {}
  BY <1>3 DEF Covered, Solid
<1>5. Covered(found) = Solid(pos)
  BY <1>2, <1>4
<1>6. \A k \in 1..Len(found) : IsItem(found[k])
  BY <1>3
<1> QED BY <1>2, <1>3, <1>5, <1>6 DEF TailInv

\* What one turn finds: the next word.
LEMMA NextWord ==
  ASSUME Types, NEW from, NEW last, from = Past(text, pos, Spaces), from <= Len(text),
         last = First(text, from, Spaces) - 1
  PROVE  /\ from \in Nat \ {0} /\ last \in Nat /\ from <= last /\ last <= Len(text) /\ pos <= from
         /\ \A i \in from..last : text[i] \notin Spaces
         /\ \A i \in pos..from - 1 : text[i] \in Spaces
         /\ At(text, last + 1) \in Spaces \cup {Nul}
         /\ last + 1 > Len(text) \/ text[last + 1] \in Spaces
<1>1. pos \in Nat \ {0} /\ text \in Line /\ Len(text) \in Nat
  BY DEF Types, Line
<1>2. /\ from \in Nat \ {0} /\ from \in pos..Len(text) /\ text[from] \notin Spaces
      /\ \A m \in pos..Len(text) : m < from => text[m] \in Spaces
  BY <1>1, PastFound
<1>3. PICK e \in Nat \ {0} : e = First(text, from, Spaces)
  BY <1>1, <1>2, FirstFound
<1>4. /\ e <= Len(text) => e \in from..Len(text) /\ text[e] \in Spaces
      /\ \A m \in from..Len(text) : m < e => text[m] \notin Spaces
      /\ e <= Len(text) + 1
  BY <1>1, <1>2, <1>3, FirstFound, FirstEnds
<1>5. last = e - 1 /\ from < e
  BY <1>1, <1>2, <1>3, <1>4
<1>6. e > Len(text) \/ (e \in 1..Len(text) /\ text[e] \in Spaces)
  BY <1>1, <1>2, <1>4
<1>7. At(text, e) \in Spaces \cup {Nul}
  BY <1>1, <1>6 DEF At
<1>8. last + 1 = e
  BY <1>5
<1> QED BY <1>1, <1>2, <1>4, <1>5, <1>6, <1>7, <1>8

\* What stands before it.
LEMMA WordBegins ==
  ASSUME Types, TailInv, form = "tail", reader = "fields",
         NEW from, from = Past(text, pos, Spaces), from <= Len(text)
  PROVE  At(text, from - 1) \in Spaces \cup {Nul}
<1>1. /\ from \in Nat \ {0} /\ pos <= from /\ pos \in Nat \ {0} /\ Len(text) \in Nat
      /\ from \in 1..Len(text) /\ text[from] \notin Spaces
      /\ \A i \in pos..from - 1 : text[i] \in Spaces
  <2>1. pos \in Nat \ {0} /\ text \in Line /\ Len(text) \in Nat
    BY DEF Types, Line
  <2> QED BY <2>1, PastFound, NextWord
<1>2. pos = 1 \/ pos > Len(text) \/ text[pos] \in Spaces
  BY DEF TailInv
<1>3. CASE from = pos
  <2>1. from = 1
    BY <1>1, <1>2, <1>3
  <2>2. from - 1 \notin 1..Len(text)
    BY <2>1
  <2> QED BY <2>2 DEF At
<1>4. CASE from # pos
  <2>1. from - 1 \in pos..from - 1 /\ from - 1 \in 1..Len(text)
    BY <1>1, <1>4
  <2> QED BY <1>1, <2>1 DEF At
<1> QED BY <1>3, <1>4

\* One word more.
LEMMA WordAdded ==
  ASSUME Types, TailInv, form = "tail", reader = "fields", UNCHANGED <<inputs, reader>>,
         NEW from, NEW last, from = Past(text, pos, Spaces), from <= Len(text),
         last = First(text, from, Spaces) - 1,
         NEW x \in Items, x.from = from, x.last = last, found' = Append(found, x),
         pos' = last + 1, IsItem(x)
  PROVE  TailInv'
<1>1. /\ from \in Nat \ {0} /\ last \in Nat /\ from <= last /\ last <= Len(text) /\ pos <= from
      /\ \A i \in from..last : text[i] \notin Spaces
      /\ \A i \in pos..from - 1 : text[i] \in Spaces
      /\ last + 1 > Len(text) \/ text[last + 1] \in Spaces
      /\ pos \in Nat \ {0} /\ Len(text) \in Nat
  BY NextWord DEF Types, Line
<1>2. /\ found \in Seq(Items) /\ \A k \in 1..Len(found) : IsItem(found[k])
      /\ Covered(found) = Solid(pos)
  BY DEF TailInv
<1>3. text' = text /\ form' = form
  BY DEF inputs
<1>4. Covered(found') = Solid(pos) \cup (from..last)
  BY <1>2, CoveredGrows
<1>5. Solid(pos) \cup (from..last) = Solid(last + 1)
  <2>1. ASSUME NEW i \in Int PROVE i \in Solid(pos) \cup (from..last) <=> i \in Solid(last + 1)
    <3>1. CASE i < pos
      BY <1>1, <3>1 DEF Solid
    <3>2. CASE pos <= i /\ i < from
      BY <1>1, <3>2 DEF Solid
    <3>3. CASE from <= i
      BY <1>1, <3>3 DEF Solid
    <3> QED BY <1>1, <3>1, <3>2, <3>3
  <2>2. Solid(pos) \cup (from..last) \subseteq Int /\ Solid(last + 1) \subseteq Int
    BY <1>1 DEF Solid
  <2> QED BY <2>1, <2>2
<1>6. Solid(last + 1)' = Solid(last + 1)
  BY <1>3 DEF Solid
<1>8. found' \in Seq(Items) /\ \A k \in 1..Len(found') : IsItem(found'[k])
  <2>1. /\ found' \in Seq(Items) /\ Len(found') = Len(found) + 1 /\ Len(found) \in Nat
        /\ found'[Len(found) + 1] = x /\ \A k \in 1..Len(found) : found'[k] = found[k]
    BY <1>2
  <2>2. \A k \in 1..Len(found') : k = Len(found) + 1 \/ k \in 1..Len(found)
    BY <2>1
  <2> QED BY <1>2, <2>1, <2>2
<1>9. \A k \in 1..Len(found') : IsItem(found[k])'
  BY <1>3, <1>8 DEF IsItem
<1>10. Covered(found') = Solid(pos)'
  BY <1>3, <1>4, <1>5 DEF Solid
<1> QED BY <1>1, <1>3, <1>8, <1>9, <1>10 DEF TailInv, Covered

LEMMA ScanFieldKeeps ==
  ASSUME Types, TailInv, form = "tail", ScanField, ~Stop("refused"), UNCHANGED inputs
  PROVE  TailInv'
<1> DEFINE from   == Past(text, pos, Spaces)
           last   == First(text, from, Spaces) - 1
           colons == {k \in from..last : text[k] = ":"}
           colon  == First(text, from, {":"})
           width  == Decimal(text, colon + 1, last, TRUE)
           whole  == SubSeq(text, from, last)
           Item(kind, name, w) == [kind |-> kind, name |-> name, width |-> w,
                                   from |-> from, last |-> last]
<1>1. /\ reader = "fields" /\ from <= Len(text)
      /\ ~(At(text, from) # "@" /\ colons # {} /\ (colons # {colon} \/ width = NoNumber))
      /\ Goes(last + 1)
      /\ found' = Append(found,
           IF At(text, from) = "@" THEN Item("directive", whole, NoWidth)
           ELSE IF colons = {} THEN Item("field", whole, NoWidth)
           ELSE Item("field", BitsName(from, colon), width))
  BY Zenon DEF ScanField
<1>2. /\ from \in Nat \ {0} /\ last \in Nat /\ from <= last /\ last <= Len(text)
      /\ At(text, last + 1) \in Spaces \cup {Nul} /\ At(text, from - 1) \in Spaces \cup {Nul}
  BY <1>1, NextWord, WordBegins
<1>3. text \in Line /\ Len(text) \in Nat
  BY DEF Types, Line
<1> HIDE DEF from, last
<1>4. whole \in Line
  BY <1>2, <1>3, PieceIsLine
<1>5. \A i \in DOMAIN whole : i \in 1..last - from + 1 /\ whole[i] = text[from + i - 1]
  BY <1>2, <1>3, SubSeqProperties DEF Line
<1>6. ASSUME NEW x \in Items, x.from = from, x.last = last, found' = Append(found, x), IsItem(x)
      PROVE  TailInv'
  <2>1. pos' = last + 1 /\ reader' = reader
    BY <1>1 DEF Goes
  <2> QED BY <1>1, <1>6, <2>1, WordAdded DEF from, last
<1>7. CASE At(text, from) = "@"
  <2> DEFINE x == Item("directive", whole, NoWidth)
  <2>1. found' = Append(found, x)
    BY <1>1, <1>7
  <2>2. x \in Items /\ x.from = from /\ x.last = last /\ x.kind # "field"
    BY <1>2, <1>4 DEF Items, NoWidth
  <2> HIDE DEF x
  <2>3. IsItem(x)
    BY <1>2, <2>2 DEF IsItem
  <2> QED BY <1>6, <2>1, <2>2, <2>3
<1>8. CASE At(text, from) # "@" /\ colons = {}
  <2> DEFINE x == Item("field", whole, NoWidth)
  <2>1. found' = Append(found, x)
    BY <1>1, <1>8
  <2>2. /\ x \in Items /\ x.from = from /\ x.last = last /\ x.width = NoWidth
        /\ x.name = whole
    BY <1>2, <1>4 DEF Items, NoWidth
  <2>3. \A i \in DOMAIN whole : whole[i] # ":"
    <3>1. \A i \in 1..last - from + 1 : from + i - 1 \in from..last
      BY <1>2
    <3> QED BY <1>5, <1>8, <3>1
  <2> HIDE DEF x
  <2>4. IsItem(x)
    BY <1>2, <2>2, <2>3 DEF IsItem
  <2> QED BY <1>6, <2>1, <2>2, <2>4
<1>9. CASE At(text, from) # "@" /\ colons # {}
  <2>1. colons = {colon} /\ width # NoNumber
    BY <1>1, <1>9
  <2>2. colon \in from..last /\ text[colon] = ":" /\ \A k \in from..last : text[k] = ":" => k = colon
    <3>1. colon \in colons
      BY <2>1
    <3> HIDE DEF colon
    <3> QED BY <2>1, <3>1
  <2> HIDE DEF colons, colon
  <2>3. width \in 0..IntMax
    <3>1. colon + 1 \in Nat \ {0} /\ TRUE \in BOOLEAN /\ last \in Int
      BY <1>2, <2>2
    <3>2. width \in Numbers
      BY <1>2, <1>3, <3>1, DecimalRange
    <3> HIDE DEF width
    <3> QED BY <2>1, <3>2 DEF Numbers
  <2> HIDE DEF width
  <2> DEFINE name == BitsName(from, colon)
             x == Item("field", name, width)
  <2>4. found' = Append(found, x)
    BY <1>1, <1>9 DEF colons, colon, width
  <2>5. name \in Line /\ Len(name) = colon - from
        /\ \A i \in DOMAIN name : i \in 1..colon - from /\ name[i] = text[from + i - 1]
    <3>1. name = SubSeq(text, from, colon - 1)
      BY DEF BitsName
    <3>2. colon - 1 \in Int /\ colon - 1 <= Len(text) /\ colon - 1 >= from - 1
      BY <1>2, <2>2
    <3>3. name \in Line
      BY <1>2, <1>3, <3>1, <3>2, PieceIsLine
    <3> HIDE DEF name
    <3>4. /\ Len(name) = colon - from
          /\ \A i \in 1..colon - from : name[i] = text[from + i - 1]
      BY <1>2, <1>3, <2>2, <3>1, <3>2, SubSeqProperties DEF Line
    <3>5. DOMAIN name = 1..colon - from
      BY <3>3, <3>4 DEF Line
    <3> QED BY <3>3, <3>4, <3>5
  <2> HIDE DEF name
  <2>6. width \in Int
    BY <2>3, IntAssumption
  <2>7. /\ x \in Items /\ x.from = from /\ x.last = last /\ x.width = width /\ x.name = name
    BY <1>2, <2>5, <2>6 DEF Items
  <2>8. text[from + Len(name)] = ":"
    <3>1. from + (colon - from) = colon
      BY <1>2, <2>2
    <3> QED BY <2>2, <2>5, <3>1
  <2>9. \A i \in DOMAIN name : name[i] # ":"
    <3>1. \A i \in 1..colon - from : from + i - 1 \in from..last /\ from + i - 1 # colon
      BY <1>2, <2>2
    <3> QED BY <2>2, <2>5, <3>1
  <2> HIDE DEF x
  <2>10. IsItem(x)
    BY <1>2, <2>3, <2>7, <2>8, <2>9 DEF IsItem
  <2> QED BY <1>6, <2>4, <2>7, <2>10
<1> QED BY <1>7, <1>8, <1>9

LEMMA TailNext == TailInv /\ Types /\ [Next]_vars => TailInv'
<1> SUFFICES ASSUME TailInv, Types, [Next]_vars PROVE TailInv'
  OBVIOUS
<1>0. form' = form /\ text' = text
  BY DEF Next, inputs, vars
<1> SUFFICES ASSUME form = "tail" PROVE TailInv'
  BY <1>0 DEF TailInv
<1>1. \A f : IsItem(f) => IsItem(f)'
  BY <1>0 DEF IsItem
<1>2. \A k : Solid(k)' = Solid(k)
  BY <1>0 DEF Solid
<1>3. CASE UNCHANGED vars
  <2>1. Covered(found)' = Covered(found) /\ Solid(pos)' = Solid(pos) /\ Solid(Len(text) + 1)' = Solid(Len(text) + 1)
    BY <1>3 DEF vars, Covered, Solid
  <2> QED BY <1>1, <1>3, <2>1 DEF vars, TailInv
<1>4. CASE Stop("refused")
  BY <1>0, <1>1, <1>4 DEF Stop, TailInv
<1>5. CASE ScanField /\ ~Stop("refused")
  <2>1. UNCHANGED inputs
    BY DEF Next, vars, inputs
  <2> QED BY <1>5, <2>1, ScanFieldKeeps
<1>6. CASE ScanTailEnd
  <2>1. reader = "fields" /\ Past(text, pos, Spaces) > Len(text) /\ reader' = "done" /\ found' = found
    BY <1>6 DEF ScanTailEnd, Stop
  <2>2. pos \in Nat \ {0} /\ text \in Line /\ Len(text) \in Nat
    BY DEF Types, Line
  <2>3. \A m \in pos..Len(text) : text[m] \in Spaces
    <3>1. /\ Past(text, pos, Spaces) \in Nat \ {0}
          /\ \A m \in pos..Len(text) : m < Past(text, pos, Spaces) => text[m] \in Spaces
      BY <2>2, PastFound
    <3> QED BY <2>1, <2>2, <3>1
  <2>4. Solid(pos) = Solid(Len(text) + 1)
    <3>1. ASSUME NEW i \in 1..Len(text), text[i] \notin Spaces PROVE i < pos /\ i < Len(text) + 1
      BY <2>2, <2>3, <3>1
    <3> QED BY <3>1 DEF Solid
  <2>5. Covered(found) = Solid(Len(text) + 1) /\ found \in Seq(Items) /\ \A k \in 1..Len(found) : IsItem(found[k])
    BY <2>1, <2>4 DEF TailInv
  <2>6. Covered(found') = Covered(found) /\ Solid(Len(text) + 1)' = Solid(Len(text) + 1)
    BY <1>0, <2>1 DEF Covered, Solid
  <2> QED BY <1>0, <1>1, <2>1, <2>5, <2>6 DEF TailInv, Covered
<1>7. reader = "fields" /\ Next => ScanField \/ ScanTailEnd
  BY DEF Next, CallNext, CallbackNext, ScanNext, LayoutsStar, LayoutsSkip, LayoutsAggregate,
     LayoutsResult, LoadsTerminator, LoadsMode, LoadsStar, LoadsAggregate, LoadsBase, ReturnsBase,
     ReturnsAggregate, ReturnsPointer, ReturnsUnknown, RewritePointer, RewriteAggregate,
     RewriteOther, Count, FetchTerminator, FetchBase, FetchAggregate, FetchInvalid, Answer,
     ScanType, ScanLength, ScanToken, ScanEnd, Reads
<1>8. reader = "fields" \/ reader \in Over
  BY DEF Types, FormReads
<1> QED BY <1>3, <1>4, <1>5, <1>6, <1>7, <1>8, ReadingEnds

\* No word of the text behind a field is lost or cut in two.
THEOREM TailCovered == Spec => []TailSplit
<1>1. Spec => [](Inv /\ Types /\ TailInv)
  BY InitHolds, Keeps, TypesInit, TypesNext, TailInit, TailNext, PTL DEF Spec
<1> QED BY <1>1, TailEnough, PTL

-----------------------------------------------------------------------------
(* Native readers stay inside their string.                                  *)

\* One turn of the R reader neither steps over the ')' that ends the arguments
\* nor loses it.
LEMMA AheadKept ==
  ASSUME Inv, reader = "rewrite", Ahead, UNCHANGED inputs, pos <= Len(text),
         NEW ch \in Char, plain' = Append(plain, ch),
         \A k \in 1..Len(text) : EndsArguments(text, k) /\ pos <= k => pos' <= k \/ ch = ")"
  PROVE  Ahead'
<1>1. /\ plain \in Line /\ Len(plain) \in Nat /\ text' = text
      /\ Prefixed(plain) => Len(plain) >= 2
      /\ pos \in Nat /\ Len(text) \in Nat
  BY RewriteTypes DEF Inv, RewriteInv, inputs, Line
<1>2. /\ Len(plain') = Len(plain) + 1
      /\ plain'[Len(plain) + 1] = ch /\ \A j \in 1..Len(plain) : plain'[j] = plain[j]
  BY <1>1, Appended
<1>3. ArgsFrom(plain) \in {1, 3} /\ ArgsFrom(plain') \in {1, 3}
  BY ArgsFromPlace
<1>4. plain # <<>> => ArgsFrom(plain') = ArgsFrom(plain)
  BY <1>1, PrefixStays
<1>5. Closed(plain) => Closed(plain')
  <2>1. SUFFICES ASSUME Closed(plain) PROVE Closed(plain')
    OBVIOUS
  <2>2. PICK j \in ArgsFrom(plain)..Len(plain) : plain[j] = ")"
    BY <2>1 DEF Closed
  <2>3. j \in 1..Len(plain) /\ plain # <<>>
    BY <1>1, <1>3, <2>2
  <2>4. j \in ArgsFrom(plain')..Len(plain') /\ plain'[j] = ")"
    BY <1>1, <1>2, <1>4, <2>2, <2>3
  <2> QED BY <2>4 DEF Closed
<1>6. ch = ")" => Closed(plain')
  <2>1. SUFFICES ASSUME ch = ")" PROVE Closed(plain')
    OBVIOUS
  <2>2. ArgsFrom(plain') <= Len(plain')
    <3>1. CASE plain = <<>>
      <4>1. ")" # "_"
        BY Zenon
      <4>2. ~Prefixed(plain')
        BY <2>1, <3>1, <4>1, FirstWritten
      <4> QED BY <1>1, <1>2, <4>2 DEF ArgsFrom
    <3>2. CASE plain # <<>>
      <4>1. Prefixed(plain) => ArgsFrom(plain) <= Len(plain) + 1
        BY <1>1, <1>3
      <4>2. ~Prefixed(plain) => ArgsFrom(plain) = 1
        BY DEF ArgsFrom
      <4> QED BY <1>1, <1>2, <1>4, <3>2, <4>1, <4>2
    <3> QED BY <3>1, <3>2
  <2>3. Len(plain') \in ArgsFrom(plain')..Len(plain') /\ plain'[Len(plain')] = ")"
    BY <1>1, <1>2, <1>3, <2>1, <2>2
  <2> QED BY <2>3 DEF Closed
<1>7. ASSUME NEW k \in 1..Len(text), EndsArguments(text, k) PROVE pos' <= k \/ Closed(plain')
  BY <1>5, <1>6, <1>7 DEF Ahead
<1> QED BY <1>1, <1>7 DEF Ahead

LEMMA AheadPointer ==
  ASSUME Inv, Ahead, RewritePointer, reader' = "rewrite", UNCHANGED inputs PROVE Ahead'
<1> DEFINE at  == Past(text, pos, {"*"})
           end == PointeeEnd(at)
<1>1. reader = "rewrite" /\ At(text, pos) = "*" /\ At(text, pos) # Nul
  BY NotTheEnd DEF RewritePointer, Reads
<1>2. pos \in Nat \ {0} /\ text \in Line /\ Len(text) \in Nat
  BY <1>1, RewriteTypes
<1>3. pos <= Len(text) /\ text[pos] = "*"
  BY <1>1, <1>2, AtIsChar
<1>4. Goes(end + 1) /\ Writes("p")
  <2>1. ~Stop("refused")
    BY DEF Stop
  <2> QED BY <2>1 DEF RewritePointer
<1>5. "p" \in Char /\ plain' = Append(plain, "p") /\ pos' = end + 1
  <2>1. "p" \in Char
    BY WrittenChars, Zenon
  <2> QED BY <1>4, <2>1 DEF Writes, Goes
<1>6. /\ at \in Nat \ {0}
      /\ at <= Len(text) => at \in pos..Len(text) /\ text[at] \notin {"*"}
      /\ \A m \in pos..Len(text) : m < at => text[m] \in {"*"}
  BY <1>2, PastFound
<1>7. end = IF At(text, at) = "<" THEN First(text, at + 1, {">"}) ELSE at
  BY DEF PointeeEnd
<1> HIDE DEF at, end
<1>8. ASSUME NEW k \in 1..Len(text), EndsArguments(text, k), pos <= k PROVE pos' <= k
  <2>1. /\ text[k] = ")" /\ (k > 1 => text[k - 1] # "*")
        /\ \A j \in 1..k - 1 : text[j] = "<" => \E m \in j + 1..k - 1 : text[m] = ">"
    BY <1>8 DEF EndsArguments
  <2>2. pos < k /\ k \in Nat
    BY <1>2, <1>3, <1>8, <2>1
  <2>3. at <= k
    <3>1. ~(k < at)
      BY <1>2, <1>6, <1>8, <2>1
    <3> QED BY <1>2, <1>6, <3>1
  <2>4. at # k
    <3>1. SUFFICES ASSUME at = k PROVE FALSE
      OBVIOUS
    <3>2. k - 1 \in pos..Len(text) /\ k - 1 < at /\ k > 1
      BY <1>2, <2>2, <3>1
    <3> QED BY <1>6, <2>1, <3>2
  <2>5. at < k /\ at \in 1..k - 1 /\ at <= Len(text) /\ at \in 1..Len(text)
    BY <1>2, <1>6, <2>2, <2>3, <2>4
  <2>6. At(text, at) = text[at]
    BY <2>5 DEF At
  <2>7. CASE text[at] = "<"
    <3>1. PICK m \in at + 1..k - 1 : text[m] = ">"
      BY <2>1, <2>5, <2>7
    <3>2. /\ end \in Nat \ {0}
          /\ \A i \in at + 1..Len(text) : i < end => text[i] \notin {">"}
      BY <1>2, <1>6, <1>7, <2>6, <2>7, FirstFound
    <3>3. m \in at + 1..Len(text) /\ m <= k - 1
      BY <1>2, <2>2, <2>5, <3>1
    <3>4. ~(m < end)
      BY <3>1, <3>2, <3>3
    <3> QED BY <1>5, <1>6, <2>2, <3>2, <3>3, <3>4
  <2>8. CASE text[at] # "<"
    BY <1>5, <1>6, <1>7, <2>2, <2>5, <2>6, <2>8
  <2> QED BY <2>7, <2>8
<1> QED BY <1>1, <1>3, <1>5, <1>8, AheadKept

LEMMA AheadAggregate ==
  ASSUME Inv, Ahead, RewriteAggregate, reader' = "rewrite", UNCHANGED inputs PROVE Ahead'
<1> DEFINE close == First(text, pos + 1, {">"})
<1>1. reader = "rewrite" /\ At(text, pos) = "<" /\ At(text, pos) # Nul
  BY NotTheEnd DEF RewriteAggregate, Reads
<1>2. pos \in Nat \ {0} /\ text \in Line /\ Len(text) \in Nat
  BY <1>1, RewriteTypes
<1>3. pos <= Len(text) /\ text[pos] = "<"
  BY <1>1, <1>2, AtIsChar
<1>4. Goes(close + 1) /\ Writes("A")
  <2>1. ~Stop("refused")
    BY DEF Stop
  <2> QED BY <2>1 DEF RewriteAggregate, Close
<1>5. "A" \in Char /\ plain' = Append(plain, "A") /\ pos' = close + 1
  <2>1. "A" \in Char
    BY WrittenChars, Zenon
  <2> QED BY <1>4, <2>1 DEF Writes, Goes
<1>6. close \in Nat \ {0} /\ \A i \in pos + 1..Len(text) : i < close => text[i] \notin {">"}
  BY <1>2, FirstFound
<1> HIDE DEF close
<1>7. ASSUME NEW k \in 1..Len(text), EndsArguments(text, k), pos <= k PROVE pos' <= k
  <2>1. /\ text[k] = ")"
        /\ \A j \in 1..k - 1 : text[j] = "<" => \E m \in j + 1..k - 1 : text[m] = ">"
    BY <1>7 DEF EndsArguments
  <2>2. pos \in 1..k - 1
    BY <1>2, <1>3, <1>7, <2>1
  <2>3. PICK m \in pos + 1..k - 1 : text[m] = ">"
    BY <1>3, <2>1, <2>2
  <2>4. ~(m < close)
    BY <1>2, <1>6, <2>3
  <2> QED BY <1>2, <1>5, <1>6, <2>3, <2>4
<1> QED BY <1>1, <1>3, <1>5, <1>7, AheadKept

LEMMA AheadOther ==
  ASSUME Inv, Ahead, RewriteOther, reader' = "rewrite", UNCHANGED inputs PROVE Ahead'
<1> DEFINE ch == At(text, pos)
<1>1. reader = "rewrite" /\ pos <= Len(text)
  BY DEF RewriteOther
<1>2. pos \in Nat \ {0} /\ text \in Line /\ Len(text) \in Nat
  BY <1>1, RewriteTypes
<1>3. pos \in 1..Len(text) /\ ch = text[pos] /\ ch \in Char
  <2>1. pos \in 1..Len(text)
    BY <1>1, <1>2
  <2> QED BY <1>2, <2>1, ElementOfSeq DEF At, Line
<1>4. Goes(pos + 1) /\ Writes(ch)
  <2>1. ~Stop("refused")
    BY DEF Stop
  <2> QED BY <2>1 DEF RewriteOther
<1> HIDE DEF ch
<1>5. plain' = Append(plain, ch) /\ pos' = pos + 1
  BY <1>4 DEF Writes, Goes
<1>6. ASSUME NEW k \in 1..Len(text), EndsArguments(text, k), pos <= k PROVE pos' <= k \/ ch = ")"
  <2>1. text[k] = ")"
    BY <1>6 DEF EndsArguments
  <2>2. CASE pos = k
    BY <1>3, <2>1, <2>2
  <2>3. CASE pos # k
    BY <1>2, <1>5, <1>6, <2>3
  <2> QED BY <2>2, <2>3
<1> QED BY <1>1, <1>3, <1>5, <1>6, AheadKept

LEMMA CountedInit == Init => CountedInv
<1> SUFFICES ASSUME Init PROVE CountedInv
  OBVIOUS
<1>1. Types
  BY TypesInit
<1>2. /\ pos = IF reader \in {"layouts", "rewrite"} /\ Len(text) >= 2 /\ Prefixed(text)
               THEN 3 ELSE 1
      /\ reader # "beyond"
  BY <1>1 DEF Init, Types, Forms
<1>3. ASSUME reader = "rewrite", NEW k \in 1..Len(text), EndsArguments(text, k) PROVE pos <= k
  BY <1>2, <1>3 DEF EndsArguments
<1> QED BY <1>2, <1>3 DEF CountedInv, Ahead

LEMMA CountedNext == CountedInv /\ Inv /\ Types /\ [Next]_vars => CountedInv'
<1> SUFFICES ASSUME CountedInv, Inv, Types, [Next]_vars PROVE CountedInv'
  OBVIOUS
<1>1. CASE UNCHANGED vars
  BY <1>1 DEF vars, CountedInv, Ahead, Closed
<1>2. CASE Next /\ reader = "rewrite" /\ reader' = "rewrite"
  <2>1. RewritePointer \/ RewriteAggregate \/ RewriteOther
    BY <1>2 DEF Next, CallNext, CallbackNext, ScanNext, LayoutsStar, LayoutsSkip,
       LayoutsAggregate, LayoutsResult, LoadsTerminator, LoadsMode, LoadsStar, LoadsAggregate,
       LoadsBase, ReturnsBase, ReturnsAggregate, ReturnsPointer, ReturnsUnknown, Count, Stop,
       FetchTerminator, FetchBase, FetchAggregate, FetchInvalid, Answer, ScanType, ScanLength,
       ScanToken, ScanEnd, ScanField, ScanTailEnd, Reads
  <2>2. UNCHANGED inputs /\ Ahead
    BY <1>2 DEF Next, CountedInv
  <2> QED BY <1>2, <2>1, <2>2, AheadPointer, AheadAggregate, AheadOther DEF CountedInv
<1>3. CASE Next /\ reader' = "beyond"
  <2>1. Count /\ Stop("beyond")
    BY <1>3 DEF Next, CallNext, CallbackNext, ScanNext, LayoutsStar, LayoutsSkip,
       LayoutsAggregate, LayoutsResult, LoadsTerminator, LoadsMode, LoadsStar, LoadsAggregate,
       LoadsBase, ReturnsBase, ReturnsAggregate, ReturnsPointer, ReturnsUnknown, Count, Stop,
       RewritePointer, RewriteAggregate, RewriteOther, Returns, Goes,
       FetchTerminator, FetchBase, FetchAggregate, FetchInvalid, Answer, ScanType, ScanLength,
       ScanToken, ScanEnd, ScanField, ScanTailEnd, Reads
  <2>2. reader = "rewrite" /\ pos > Len(text) /\ ~Closed(plain)
    BY <1>3, <2>1 DEF Count, Closed, ArgsFrom
  <2>3. form = "callback" /\ pos \in Nat /\ Len(text) \in Nat
    BY <2>2 DEF Types, FormReads, Over, Line
  <2>4. ASSUME NEW k \in 1..Len(text), EndsArguments(text, k) PROVE FALSE
    <3>1. pos <= k
      BY <2>2, <2>4 DEF CountedInv, Ahead
    <3> QED BY <2>2, <2>3, <3>1
  <2>5. text' = text /\ form' = form
    BY <1>3 DEF Next, inputs
  <2> QED BY <1>3, <2>3, <2>4, <2>5 DEF CountedInv
<1>4. CASE Next /\ reader' \notin {"rewrite", "beyond"}
  BY <1>4 DEF CountedInv
<1>5. CASE Next /\ reader' = "rewrite" /\ reader # "rewrite"
  BY <1>5 DEF Next, CallNext, CallbackNext, ScanNext, LayoutsStar, LayoutsSkip,
     LayoutsAggregate, LayoutsResult, LoadsTerminator, LoadsMode, LoadsStar, LoadsAggregate,
     LoadsBase, ReturnsBase, ReturnsAggregate, ReturnsPointer, ReturnsUnknown, Count, Stop,
     RewritePointer, RewriteAggregate, RewriteOther, Returns, Goes,
     FetchTerminator, FetchBase, FetchAggregate, FetchInvalid, Answer, ScanType, ScanLength,
     ScanToken, ScanEnd, ScanField, ScanTailEnd, Reads
<1> QED BY <1>1, <1>2, <1>3, <1>4, <1>5

LEMMA InsideEnough == Inv /\ Types /\ CountedInv => StaysInside
<1> SUFFICES ASSUME Inv, Types, CountedInv PROVE StaysInside
  OBVIOUS
<1>1. text \in Line /\ Len(text) \in Nat /\ plain \in Line /\ Len(plain) \in Nat
      /\ DOMAIN text = 1..Len(text) /\ pos \in Nat \ {0}
  BY DEF Types, Line
<1>2. CASE reader = "loads"
  <2>1. PICK h, i : OnTrail(h, i)
    BY <1>2 DEF Inv, CallInv, LoadsInv
  <2>2. /\ h[i].pos = pos /\ i \in 1..Len(h) /\ Len(h) \in Nat /\ h[Len(h)].pos <= Len(text) + 1
        /\ \A j \in 1..Len(h) - 1 : Turn(text, h[j], h[j + 1])
    BY <2>1 DEF OnTrail, Trail
  <2>3. pos <= Len(text) + 1
    <3>1. CASE i = Len(h)
      BY <2>2, <3>1
    <3>2. CASE i # Len(h)
      <4>1. i \in 1..Len(h) - 1
        BY <2>2, <3>2
      <4>2. h[i].pos <= Len(text)
        BY <2>2, <4>1 DEF Turn
      <4> QED BY <1>1, <2>2, <4>2
    <3> QED BY <3>1, <3>2
  <2>4. form # "callback"
    BY <1>2 DEF Types, FormReads, Over
  <2> QED BY <1>2, <2>3, <2>4 DEF StaysInside, InNative, Native
<1>3. CASE reader = "result"
  <2>1. pos <= Len(text) + 1 /\ form # "callback"
    BY <1>3 DEF Inv, CallInv, ResultInv, Types, FormReads, Over
  <2> QED BY <1>3, <2>1 DEF StaysInside, InNative, Native
<1>4. CASE reader = "fetch"
  <2>1. pos <= Len(plain) /\ form = "callback"
    BY <1>4, FetchTypes
  <2> QED BY <1>1, <1>4, <2>1 DEF StaysInside, InNative, Native
<1>5. CASE reader = "answer"
  <2>1. pos <= Len(plain) + 1 /\ form = "callback"
    BY <1>5 DEF Inv, AnswerInv, Types, FormReads, Over
  <2> QED BY <1>5, <2>1 DEF StaysInside, InNative, Native
<1>6. CASE ~InNative
  BY <1>1, <1>6 DEF StaysInside, CountedInv, InNative
<1> QED BY <1>2, <1>3, <1>4, <1>5, <1>6 DEF InNative

\* No text makes native code read past the end of its string, but the signature of
\* a callback that has no ')' behind its arguments.
THEOREM NativeStaysInside == Spec => []StaysInside
<1>1. Spec => [](Inv /\ Types /\ CountedInv)
  BY InitHolds, Keeps, TypesInit, TypesNext, CountedInit, CountedNext, PTL DEF Spec
<1> QED BY <1>1, InsideEnough, PTL

=============================================================================
