---------------------------- MODULE LayoutProofs ----------------------------
(* Proofs about the layouts, for every set of types, sizes, alignments and  *)
(* packing directives.                                                      *)
EXTENDS LayoutProps, WellFoundedInduction, TLAPS

-----------------------------------------------------------------------------
(* The arithmetic of the cursors.                                           *)

\* align() and align_bits() never move a position backwards.
LEMMA AlignUp ==
  ASSUME NEW pos \in Nat, NEW alignment \in Int
  PROVE  Align(pos, alignment) \in Nat /\ Align(pos, alignment) >= pos
<1>1. CASE alignment <= 0
  BY <1>1 DEF Align
<1>2. CASE alignment > 0
  <2> DEFINE q == (pos + alignment - 1) \div alignment
             r == (pos + alignment - 1) % alignment
  <2>1. q \in Int /\ r \in 0..alignment - 1 /\ pos + alignment - 1 = alignment * q + r
    BY <1>2
  <2>2. alignment * q = q * alignment /\ q * alignment \in Int
    BY <2>1
  <2>3. q * alignment >= pos
    BY <2>1, <2>2
  <2>4. Align(pos, alignment) = q * alignment
    BY <1>2 DEF Align
  <2> QED
    BY <2>2, <2>3, <2>4
<1> QED
  BY <1>1, <1>2

\* bits_to_bytes() rounds up.
LEMMA BytesUp ==
  ASSUME NEW bits \in Nat
  PROVE  BitsToBytes(bits) \in Nat /\ 8 * BitsToBytes(bits) >= bits
  BY DEF BitsToBytes

\* A position aligned to a storage unit is on a byte.
LEMMA AlignedOnByte ==
  ASSUME NEW pos \in Nat, NEW bytes \in Nat, bytes > 0
  PROVE  8 * BitsToBytes(Align(pos, 8 * bytes)) = Align(pos, 8 * bytes)
<1> DEFINE q == (pos + 8 * bytes - 1) \div (8 * bytes)
           k == q * bytes
<1>1. q \in Int /\ k \in Int
  OBVIOUS
<1>2. Align(pos, 8 * bytes) = 8 * k
  BY DEF Align
<1> HIDE DEF k
<1>3. BitsToBytes(8 * k) = k
  BY <1>1 DEF BitsToBytes
<1> QED
  BY <1>2, <1>3

LEMMA ProductNat ==
  ASSUME NEW a \in Nat, NEW b \in Nat
  PROVE  a * b \in Nat
  OBVIOUS

-----------------------------------------------------------------------------
(* The field whose turn it is, and what placing it requires.                *)

LEMMA ShapeFacts ==
  ASSUME TypeOK, More
  PROVE  /\ Shape \in Shapes /\ Shape.type \in Types /\ Shape.len \in Nat
         /\ Shape.width \in Nat \cup {NoBits}
         /\ SizeOf[Shape.type] \in Nat /\ FieldSize(Shape) \in Nat /\ UnitBits(Shape) \in Nat
         /\ MemberAlign(Shape.type) \in Nat
<1>1. Len(laid) + 1 \in 1..Len(decl)
  BY DEF TypeOK, More
<1>2. Shape \in Shapes
  BY <1>1 DEF TypeOK, Shape
<1>3. Shape.type \in Types /\ Shape.len \in Nat /\ Shape.width \in Nat \cup {NoBits}
  BY <1>2, LayoutAssumption
<1>4. SizeOf[Shape.type] \in Nat /\ AlignOf[Shape.type] \in Nat
  BY <1>3, LayoutAssumption
<1>5. FieldSize(Shape) \in Nat /\ UnitBits(Shape) \in Nat
  BY <1>3, <1>4, ProductNat DEF FieldSize, UnitBits
<1>6. layout.pack \in Nat
  BY LayoutAssumption DEF TypeOK
<1>7. MemberAlign(Shape.type) \in Nat
  BY <1>4, <1>6 DEF MemberAlign
<1> QED
  BY <1>2, <1>3, <1>4, <1>5, <1>7

LEMMA FinalAlignNat == TypeOK => FinalAlign \in Nat
<1> SUFFICES ASSUME TypeOK PROVE FinalAlign \in Nat
  OBVIOUS
<1>1. layout.align \in Nat /\ maxAlign \in Nat
  BY LayoutAssumption DEF TypeOK
<1> QED
  BY <1>1 DEF FinalAlign, Bigger

LEMMA BiggerNat ==
  ASSUME NEW a \in Nat, NEW b \in Nat
  PROVE  Bigger(a, b) \in Nat /\ Bigger(a, b) >= a /\ Bigger(a, b) >= b
  BY DEF Bigger

\* The extent of a field.
LEMMA Extent ==
  ASSUME NEW field \in Field
  PROVE  From(field) \in Nat /\ To(field) \in Nat /\ From(field) <= To(field)
  BY DEF Field, From, To, NoBits

\* The field ParseType and LayOrdinary place.
LEMMA BytesField ==
  ASSUME TypeOK, More, NEW at \in Nat
  PROVE  /\ Bytes(at, Shape) \in Field
         /\ From(Bytes(at, Shape)) = 8 * at
         /\ To(Bytes(at, Shape)) = 8 * (at + FieldSize(Shape))
<1>1. FieldSize(Shape) \in Nat
  BY ShapeFacts
<1> QED
  BY <1>1 DEF Bytes, Field, From, To, NoBits

LEMMA CursorNat == TypeOK => Cursor \in Nat
  BY DEF TypeOK, Cursor

\* A field placed between the cursor and its next position keeps the order.
LEMMA PlacedBehind ==
  ASSUME TypeOK, Inside, InOrder, NEW field \in Field,
         laid' = Append(laid, field), layout' = layout,
         Cursor' \in Nat, Cursor <= Cursor', To(field) <= Cursor',
         IsStruct => Cursor <= From(field)
  PROVE  Inside' /\ InOrder'
<1>1. laid \in Seq(Field) /\ Cursor \in Nat
  BY CursorNat DEF TypeOK
<1>2. ASSUME NEW i \in DOMAIN laid'
      PROVE  IF i = Len(laid) + 1 THEN laid'[i] = field
                                  ELSE i \in DOMAIN laid /\ laid'[i] = laid[i]
  BY <1>1, <1>2
<1>3. \A i \in DOMAIN laid : To(laid[i]) \in Nat /\ To(laid[i]) <= Cursor
  BY <1>1, Extent DEF Inside
<1>4. ASSUME NEW i \in DOMAIN laid'
      PROVE  To(laid'[i]) <= Cursor'
  <2>1. CASE i = Len(laid) + 1
    BY <2>1, <1>2
  <2>2. CASE i # Len(laid) + 1
    <3>1. i \in DOMAIN laid /\ laid'[i] = laid[i]
      BY <2>2, <1>2
    <3> QED
      BY <3>1, <1>1, <1>3
  <2> QED
    BY <2>1, <2>2
<1>5. Inside'
  BY <1>4 DEF Inside, To, From
<1>6. ASSUME IsStruct, NEW i \in DOMAIN laid', NEW j \in DOMAIN laid', i < j
      PROVE  To(laid'[i]) <= From(laid'[j])
  <2>1. i # Len(laid) + 1
    BY <1>1, <1>6
  <2>2. i \in DOMAIN laid /\ laid'[i] = laid[i]
    BY <2>1, <1>2
  <2>3. CASE j = Len(laid) + 1
    <3>1. laid'[j] = field /\ From(field) \in Nat
      BY <2>3, <1>2, Extent
    <3> QED
      BY <3>1, <2>2, <1>1, <1>3, <1>6
  <2>4. CASE j # Len(laid) + 1
    <3>1. j \in DOMAIN laid /\ laid'[j] = laid[j]
      BY <2>4, <1>2
    <3> QED
      BY <3>1, <2>2, <1>6 DEF InOrder
  <2> QED
    BY <2>3, <2>4
<1>7. InOrder'
  BY <1>6 DEF InOrder, IsStruct, To, From
<1> QED
  BY <1>5, <1>7

\* A cursor that moves on without a field keeps it too.
LEMMA MovedOn ==
  ASSUME TypeOK, Inside, InOrder, laid' = laid, layout' = layout,
         Cursor' \in Nat, Cursor <= Cursor'
  PROVE  Inside' /\ InOrder'
<1>1. laid \in Seq(Field) /\ Cursor \in Nat
  BY CursorNat DEF TypeOK
<1>2. \A i \in DOMAIN laid : To(laid[i]) \in Nat /\ To(laid[i]) <= Cursor'
  BY <1>1, Extent DEF Inside
<1> QED
  BY <1>2 DEF Inside, InOrder, IsStruct, To, From

-----------------------------------------------------------------------------
(* Every step keeps the invariant.                                          *)

LEMMA InitOrder == Init => OrderInv
<1> SUFFICES ASSUME Init PROVE OrderInv
  OBVIOUS
<1>1. decl \in Seq(Shapes)
  BY DEF Init
<1>2. laid = << >>
  BY DEF Init
<1>3. TypeOK
  BY <1>1, LayoutAssumption DEF Init, TypeOK, Phases, Closed
<1> QED
  BY <1>2, <1>3 DEF OrderInv, Inside, InOrder

LEMMA ParseTypeKeeps == OrderInv /\ ParseType => OrderInv'
<1> SUFFICES ASSUME OrderInv, ParseType PROVE OrderInv'
  OBVIOUS
<1> USE DEF OrderInv
<1> DEFINE alignment == MemberAlign(Shape.type)
           at == IF IsStruct THEN Align(offset, alignment) ELSE 0
           field == Bytes(at, Shape)
<1>1. More /\ alignment \in Nat /\ FieldSize(Shape) \in Nat
  BY ShapeFacts DEF ParseType
<1>2. offset \in Nat /\ maxSize \in Nat /\ maxAlign \in Nat
  BY DEF TypeOK
<1>3. at \in Nat /\ (IsStruct => at >= offset)
  <2>1. offset \in Nat /\ alignment \in Int
    BY <1>1, <1>2
  <2>2. Align(offset, alignment) \in Nat /\ Align(offset, alignment) >= offset
    <3> HIDE DEF alignment
    <3> QED
      BY <2>1, AlignUp
  <2> QED
    BY <2>2
<1>4. field \in Field /\ From(field) = 8 * at /\ To(field) = 8 * (at + FieldSize(Shape))
  BY <1>1, <1>3, BytesField
<1>5. /\ phase = "types" /\ laid' = Append(laid, field) /\ layout' = layout
      /\ maxAlign' = Bigger(maxAlign, alignment)
      /\ IF IsStruct THEN offset' = at + FieldSize(Shape) /\ maxSize' = maxSize
                     ELSE maxSize' = Bigger(maxSize, FieldSize(Shape)) /\ offset' = offset
      /\ UNCHANGED <<decl, phase, bitpos, size, mem, assigned, stores>>
  BY DEF ParseType
<1> HIDE DEF alignment, at, field
<1>6. maxAlign' \in Nat /\ offset' \in Nat /\ maxSize' \in Nat
      /\ (~IsStruct => maxSize' >= maxSize /\ maxSize' >= FieldSize(Shape))
  <2>1. maxAlign' \in Nat
    BY <1>1, <1>2, <1>5, BiggerNat
  <2>2. CASE IsStruct
    BY <2>1, <2>2, <1>1, <1>2, <1>3, <1>5
  <2>3. CASE ~IsStruct
    BY <2>1, <2>3, <1>1, <1>2, <1>5, BiggerNat
  <2> QED
    BY <2>2, <2>3
<1>7. TypeOK'
  BY <1>1, <1>4, <1>5, <1>6 DEF TypeOK, Closed, More
<1>8. Cursor = IF IsStruct THEN 8 * offset ELSE 8 * maxSize
  BY <1>5 DEF Cursor
<1>9. Cursor' = IF IsStruct THEN 8 * offset' ELSE 8 * maxSize'
  BY <1>5 DEF Cursor, IsStruct
<1>10. at = 0 \/ IsStruct
  BY DEF at
<1>11. Cursor' \in Nat /\ Cursor <= Cursor' /\ To(field) <= Cursor'
       /\ (IsStruct => Cursor <= From(field))
  <2>1. CASE IsStruct
    <3> DEFINE bytes == FieldSize(Shape)
    <3>1. Cursor = 8 * offset /\ Cursor' = 8 * (at + bytes)
      BY <2>1, <1>5, <1>8, <1>9
    <3>2. bytes \in Nat /\ From(field) = 8 * at /\ To(field) = 8 * (at + bytes)
      BY <1>1, <1>4
    <3> HIDE DEF bytes
    <3> QED
      BY <3>1, <3>2, <2>1, <1>2, <1>3
  <2>2. CASE ~IsStruct
    <3> DEFINE bytes == FieldSize(Shape)
               next == maxSize'
    <3>1. Cursor = 8 * maxSize /\ Cursor' = 8 * next
      BY <2>2, <1>8, <1>9
    <3>2. bytes \in Nat /\ To(field) = 8 * bytes /\ next >= bytes
      BY <2>2, <1>1, <1>4, <1>6, <1>10
    <3>3. maxSize \in Nat /\ next \in Nat /\ maxSize <= next
      BY <2>2, <1>2, <1>6
    <3> HIDE DEF bytes, next
    <3>4. Cursor' \in Nat /\ Cursor <= Cursor' /\ To(field) <= Cursor'
      BY <3>1, <3>2, <3>3
    <3> QED
      BY <3>4, <2>2
  <2> QED
    BY <2>1, <2>2
<1> QED
  BY <1>4, <1>5, <1>7, <1>11, PlacedBehind

\* The two ends: with the byte cursor, and with the bit cursor.
LEMMA CloseKeeps ==
  ASSUME OrderInv, NEW end \in Nat, Close(end), phase # "closed",
         IsStruct => Cursor <= 8 * end
  PROVE  OrderInv'
<1> USE DEF OrderInv
<1> DEFINE bytes == Align(IF IsStruct THEN end ELSE maxSize, FinalAlign)
<1>1. maxSize \in Nat /\ FinalAlign \in Nat
  BY FinalAlignNat DEF TypeOK
<1>2. bytes \in Nat /\ bytes >= (IF IsStruct THEN end ELSE maxSize)
  <2> DEFINE needed == IF IsStruct THEN end ELSE maxSize
             final == FinalAlign
  <2>1. needed \in Nat /\ final \in Int
    BY <1>1
  <2>2. Align(needed, final) \in Nat /\ Align(needed, final) >= needed
    <3> HIDE DEF needed, final
    <3> QED
      BY <2>1, AlignUp
  <2> QED
    BY <2>2
<1>3. /\ phase' = "closed" /\ size' = bytes
      /\ mem' = [b \in 0..8 * bytes - 1 |-> 0] /\ assigned' = [i \in DOMAIN laid |-> {0}]
      /\ UNCHANGED <<decl, layout, laid, offset, bitpos, maxAlign, maxSize, stores>>
  BY DEF Close, Cdata
<1> HIDE DEF bytes
<1>4. TypeOK'
  BY <1>2, <1>3 DEF TypeOK, Closed, Phases
<1>5. Cursor' = 8 * bytes /\ (~IsStruct => Cursor = 8 * maxSize)
  BY <1>3 DEF Cursor
<1>6. Cursor' \in Nat /\ Cursor <= Cursor'
  BY <1>1, <1>2, <1>5, CursorNat
<1> QED
  BY <1>3, <1>4, <1>6, MovedOn

LEMMA ParsedPlainKeeps == OrderInv /\ ParsedPlain => OrderInv'
<1> SUFFICES ASSUME OrderInv, ParsedPlain PROVE OrderInv'
  OBVIOUS
<1>1. offset \in Nat /\ phase = "types" /\ Close(offset)
  BY DEF OrderInv, TypeOK, ParsedPlain
<1>2. IsStruct => Cursor <= 8 * offset
  BY <1>1 DEF Cursor
<1> QED
  BY <1>1, <1>2, CloseKeeps

LEMMA LaidBitsKeeps == OrderInv /\ LaidBits => OrderInv'
<1> SUFFICES ASSUME OrderInv, LaidBits PROVE OrderInv'
  OBVIOUS
<1>1. bitpos \in Nat /\ phase = "bits" /\ Close(BitsToBytes(bitpos))
  BY DEF OrderInv, TypeOK, LaidBits
<1>2. BitsToBytes(bitpos) \in Nat /\ 8 * BitsToBytes(bitpos) >= bitpos
  BY <1>1, BytesUp
<1>3. IsStruct => Cursor <= 8 * BitsToBytes(bitpos)
  BY <1>1, <1>2 DEF Cursor
<1> QED
  BY <1>1, <1>2, <1>3, CloseKeeps

LEMMA ParsedBitsKeeps == OrderInv /\ ParsedBits => OrderInv'
<1> SUFFICES ASSUME OrderInv, ParsedBits PROVE OrderInv'
  OBVIOUS
<1>1. laid' = << >> /\ laid' \in Seq(Field) /\ Len(laid') = 0 /\ DOMAIN laid' = {}
  BY DEF ParsedBits
<1>2. Len(decl) \in Nat
  BY DEF OrderInv, TypeOK
<1>3. TypeOK'
  BY <1>1, <1>2 DEF OrderInv, TypeOK, ParsedBits, Closed, Phases
<1> QED
  BY <1>1, <1>3 DEF OrderInv, Inside, InOrder

LEMMA RefuseKeeps == OrderInv /\ Refuse => OrderInv'
<1> SUFFICES ASSUME OrderInv, Refuse PROVE OrderInv'
  OBVIOUS
<1>1. TypeOK'
  BY DEF OrderInv, TypeOK, Refuse, Closed, Phases
<1>2. Cursor' = Cursor /\ laid' = laid /\ layout' = layout
  BY DEF Refuse, Cursor, IsStruct
<1> QED
  BY <1>1, <1>2, CursorNat, MovedOn DEF OrderInv

\* What placing a field in the second loop leaves to show: where the cursor goes.
LEMMA LaidKeeps ==
  ASSUME OrderInv, More, phase = "bits", NEW field \in Field, NEW next \in Nat, NEW most \in Nat,
         laid' = Append(laid, field), Raise(Shape.type),
         bitpos' = next, maxSize' = most,
         UNCHANGED <<decl, layout, phase, offset, size, mem, assigned, stores>>,
         IF IsStruct THEN bitpos <= From(field) /\ To(field) <= next
                     ELSE maxSize <= most /\ To(field) <= 8 * most
  PROVE  OrderInv'
<1> USE DEF OrderInv
<1>1. maxAlign' \in Nat
  BY ShapeFacts, BiggerNat DEF TypeOK, Raise
<1>2. TypeOK'
  BY <1>1 DEF TypeOK, Closed, More
<1>3. Cursor = IF IsStruct THEN bitpos ELSE 8 * maxSize
  BY DEF Cursor
<1>4. Cursor' = IF IsStruct THEN next ELSE 8 * most
  BY DEF Cursor, IsStruct
<1>5. From(field) \in Nat /\ To(field) \in Nat /\ From(field) <= To(field)
  BY Extent
<1>6. bitpos \in Nat /\ maxSize \in Nat
  BY DEF TypeOK
<1>7. Cursor' \in Nat /\ Cursor <= Cursor' /\ To(field) <= Cursor'
      /\ (IsStruct => Cursor <= From(field))
  <2>1. CASE IsStruct
    BY <2>1, <1>3, <1>4, <1>5, <1>6
  <2>2. CASE ~IsStruct
    BY <2>2, <1>3, <1>4, <1>5, <1>6
  <2> QED
    BY <2>1, <2>2
<1> QED
  BY <1>2, <1>7, PlacedBehind

LEMMA LayOrdinaryKeeps == OrderInv /\ LayOrdinary => OrderInv'
<1> SUFFICES ASSUME OrderInv, LayOrdinary PROVE OrderInv'
  OBVIOUS
<1> DEFINE alignment == MemberAlign(Shape.type)
           start == BitsToBytes(bitpos)
           at == IF IsStruct THEN Align(start, alignment) ELSE 0
           bytes == FieldSize(Shape)
           field == Bytes(at, Shape)
           next == IF IsStruct THEN 8 * (at + bytes) ELSE bitpos
           most == IF IsStruct THEN maxSize ELSE Bigger(maxSize, bytes)
<1>1. TypeOK /\ More /\ phase = "bits" /\ bitpos \in Nat /\ maxSize \in Nat
  BY DEF OrderInv, LayOrdinary, TypeOK
<1>2. alignment \in Int /\ bytes \in Nat
  BY <1>1, ShapeFacts
<1>3. start \in Nat /\ 8 * start >= bitpos
  BY <1>1, BytesUp
<1>4. Align(start, alignment) \in Nat /\ Align(start, alignment) >= start
  <2> HIDE DEF start, alignment
  <2> QED
    BY <1>2, <1>3, AlignUp
<1>5. at \in Nat /\ (IsStruct => 8 * at >= bitpos) /\ (~IsStruct => at = 0)
  <2>1. CASE IsStruct
    <3>1. at = Align(start, alignment)
      BY <2>1
    <3> HIDE DEF at, start, alignment
    <3> QED
      BY <3>1, <2>1, <1>1, <1>3, <1>4
  <2>2. CASE ~IsStruct
    BY <2>2
  <2> QED
    BY <2>1, <2>2
<1>6. field \in Field /\ From(field) = 8 * at /\ To(field) = 8 * (at + bytes)
  <2> HIDE DEF at
  <2> QED
    BY <1>1, <1>5, BytesField
<1>7. /\ laid' = Append(laid, field) /\ Raise(Shape.type)
      /\ bitpos' = next /\ maxSize' = most
      /\ UNCHANGED <<decl, layout, phase, offset, size, mem, assigned, stores>>
  BY DEF LayOrdinary
<1>8. next \in Nat /\ most \in Nat /\ IF IsStruct THEN bitpos <= From(field) /\ To(field) <= next
                                      ELSE maxSize <= most /\ To(field) <= 8 * most
  <2>1. CASE IsStruct
    <3>1. next = 8 * (at + bytes) /\ most = maxSize
      BY <2>1
    <3> HIDE DEF next, most, field, at, bytes
    <3> QED
      BY <3>1, <2>1, <1>1, <1>2, <1>5, <1>6
  <2>2. CASE ~IsStruct
    <3>1. next = bitpos /\ most = Bigger(maxSize, bytes)
      BY <2>2
    <3> HIDE DEF next, most, field, at, bytes
    <3>2. most \in Nat /\ most >= maxSize /\ most >= bytes
      BY <3>1, <1>1, <1>2, BiggerNat
    <3> QED
      BY <3>1, <3>2, <2>2, <1>1, <1>2, <1>5, <1>6
  <2> QED
    BY <2>1, <2>2
<1> HIDE DEF next, most, field
<1> QED
  BY <1>1, <1>6, <1>7, <1>8, LaidKeeps

LEMMA LayZeroWidthKeeps == OrderInv /\ LayZeroWidth => OrderInv'
<1> SUFFICES ASSUME OrderInv, LayZeroWidth PROVE OrderInv'
  OBVIOUS
<1> DEFINE unit == UnitBits(Shape)
           end == IF IsStruct THEN Align(bitpos, unit) ELSE bitpos
           at == IF IsStruct THEN BitsToBytes(end) ELSE 0
           field == [offset |-> at, bit |-> NoBits, bits |-> 0, unit |-> 0]
<1>1. TypeOK /\ More /\ phase = "bits" /\ bitpos \in Nat /\ maxSize \in Nat
  BY DEF OrderInv, LayZeroWidth, TypeOK
<1>2. unit \in Int
  BY <1>1, ShapeFacts
<1>3. Align(bitpos, unit) \in Nat /\ Align(bitpos, unit) >= bitpos
  <2> HIDE DEF unit
  <2> QED
    BY <1>1, <1>2, AlignUp
<1>4. end \in Nat /\ end >= bitpos
  BY <1>1, <1>3
<1>5. at \in Nat
  <2> HIDE DEF end
  <2> QED
    BY <1>4, BytesUp
<1>6. field \in Field /\ From(field) = 8 * at /\ To(field) = 8 * at
  <2> HIDE DEF at
  <2> QED
    BY <1>5 DEF Field, From, To, NoBits
<1>7. Shape.type \in BitTypes /\ SizeOf[Shape.type] \in Nat /\ SizeOf[Shape.type] > 0
  BY <1>1, ShapeFacts, LayoutAssumption DEF LayZeroWidth, Valid
<1>8. IF IsStruct THEN bitpos <= From(field) /\ To(field) <= end
                  ELSE maxSize <= maxSize /\ To(field) <= 8 * maxSize
  <2>1. CASE IsStruct
    <3>1. end = Align(bitpos, 8 * SizeOf[Shape.type]) /\ at = BitsToBytes(end)
      BY <2>1 DEF UnitBits
    <3>2. 8 * at = end
      BY <3>1, <1>1, <1>7, AlignedOnByte
    <3> HIDE DEF end, at, field
    <3> QED
      BY <3>2, <2>1, <1>1, <1>4, <1>6
  <2>2. CASE ~IsStruct
    <3>1. at = 0
      BY <2>2
    <3> HIDE DEF end, at, field
    <3> QED
      BY <3>1, <2>2, <1>1, <1>6
  <2> QED
    BY <2>1, <2>2
<1>9. /\ laid' = Append(laid, field) /\ Raise(Shape.type)
      /\ bitpos' = end /\ maxSize' = maxSize
      /\ UNCHANGED <<decl, layout, phase, offset, size, mem, assigned, stores>>
  BY DEF LayZeroWidth
<1> HIDE DEF end, field
<1> QED
  BY <1>1, <1>4, <1>6, <1>8, <1>9, LaidKeeps

LEMMA LayBitsKeeps == OrderInv /\ LayBits => OrderInv'
<1> SUFFICES ASSUME OrderInv, LayBits PROVE OrderInv'
  OBVIOUS
<1> DEFINE unit == UnitBits(Shape)
           width == Shape.width
           bytes == SizeOf[Shape.type]
           first == IF IsStruct THEN FirstBit(Shape) ELSE 0
           field == [offset |-> first \div 8, bit |-> first, bits |-> width,
                     unit |-> (first \div unit) * bytes]
           next == IF IsStruct THEN first + width ELSE bitpos
           most == IF IsStruct THEN maxSize ELSE Bigger(maxSize, bytes)
<1>1. TypeOK /\ More /\ phase = "bits" /\ bitpos \in Nat /\ maxSize \in Nat
  BY DEF OrderInv, LayBits, TypeOK
<1>2. Shape.type \in BitTypes /\ width <= unit /\ width > 0
  BY DEF LayBits, Valid
<1>3. bytes \in Nat /\ bytes > 0 /\ unit = 8 * bytes /\ unit \in Int /\ unit > 0 /\ width \in Nat
  BY <1>1, <1>2, ShapeFacts, LayoutAssumption DEF UnitBits, NoBits
<1>4. Align(bitpos, unit) \in Nat /\ Align(bitpos, unit) >= bitpos
  <2> HIDE DEF unit
  <2> QED
    BY <1>1, <1>3, AlignUp
<1>5. first \in Nat /\ (IsStruct => first >= bitpos) /\ (~IsStruct => first = 0)
  BY <1>1, <1>4 DEF FirstBit
<1>6. first \div 8 \in Nat /\ first \div unit \in Nat
  <2> HIDE DEF first, unit
  <2> QED
    BY <1>3, <1>5
<1>7. (first \div unit) * bytes \in Nat
  <2> HIDE DEF first, unit, bytes
  <2> QED
    BY <1>3, <1>6, ProductNat
<1>8. field \in Field /\ From(field) = first /\ To(field) = first + width
  <2> HIDE DEF first, unit, bytes, width
  <2>1. first # NoBits
    BY <1>5 DEF NoBits
  <2> QED
    BY <2>1, <1>3, <1>5, <1>6, <1>7 DEF Field, From, To
<1>9. /\ laid' = Append(laid, field) /\ Raise(Shape.type)
      /\ bitpos' = next /\ maxSize' = most
      /\ UNCHANGED <<decl, layout, phase, offset, size, mem, assigned, stores>>
  BY DEF LayBits
<1>10. next \in Nat /\ most \in Nat /\ IF IsStruct THEN bitpos <= From(field) /\ To(field) <= next
                                       ELSE maxSize <= most /\ To(field) <= 8 * most
  <2>1. CASE IsStruct
    <3>1. next = first + width /\ most = maxSize
      BY <2>1
    <3> HIDE DEF next, most, field, first, width
    <3> QED
      BY <3>1, <2>1, <1>1, <1>3, <1>5, <1>8
  <2>2. CASE ~IsStruct
    <3>1. next = bitpos /\ most = Bigger(maxSize, bytes)
      BY <2>2
    <3> HIDE DEF next, most, field, first, width, bytes, unit
    <3>2. most \in Nat /\ most >= maxSize /\ most >= bytes
      BY <3>1, <1>1, <1>3, BiggerNat
    <3> QED
      BY <3>1, <3>2, <2>2, <1>1, <1>2, <1>3, <1>5, <1>8
  <2> QED
    BY <2>1, <2>2
<1> HIDE DEF next, most, field
<1> QED
  BY <1>1, <1>8, <1>9, <1>10, LaidKeeps

-----------------------------------------------------------------------------
(* Assignments.                                                             *)

LEMMA WrittenMemory ==
  ASSUME NEW i, NEW value, NEW cells, mem \in [cells -> {0, 1}]
  PROVE  Written(i, value) \in [cells -> {0, 1}]
  BY DEF Written, Bit

LEMMA AssignKeeps ==
  ASSUME OrderInv, NEW i, NEW values, MayStore(i), Assign(i, values), Unmoved,
         mem' = mem \/ \E value : mem' = Written(i, value)
  PROVE  OrderInv'
<1>1. mem \in [0..8 * size - 1 -> {0, 1}] /\ phase = "closed" /\ stores \in Nat /\ MaxStores \in Nat
      /\ stores < MaxStores
  BY LayoutAssumption DEF OrderInv, TypeOK, Closed, MayStore
<1>2. mem' \in [0..8 * size - 1 -> {0, 1}]
  <2>1. CASE mem' = mem
    BY <2>1, <1>1
  <2>2. ASSUME NEW value, mem' = Written(i, value)
        PROVE  mem' \in [0..8 * size - 1 -> {0, 1}]
    <3> DEFINE cells == 0..8 * size - 1
    <3>1. mem \in [cells -> {0, 1}]
      BY <1>1
    <3> HIDE DEF cells
    <3>2. Written(i, value) \in [cells -> {0, 1}]
      BY <3>1, WrittenMemory
    <3> QED
      BY <3>2, <2>2 DEF cells
  <2> QED
    BY <2>1, <2>2
<1>3. stores' = stores + 1 /\ DOMAIN assigned' = DOMAIN laid
      /\ UNCHANGED <<decl, layout, phase, laid, offset, bitpos, maxAlign, maxSize, size>>
  BY DEF Assign, Unmoved
<1>4. TypeOK'
  BY <1>1, <1>2, <1>3 DEF OrderInv, TypeOK, Closed
<1>5. Cursor' = Cursor /\ laid' = laid /\ layout' = layout
  BY <1>3 DEF Cursor, IsStruct
<1> QED
  BY <1>4, <1>5, CursorNat, MovedOn DEF OrderInv

LEMMA StoresKeep ==
  ASSUME OrderInv, NEW i, NEW value,
         Store(i, value) \/ StoreUndefined(i, value) \/ StoreAggregate(i, value)
  PROVE  OrderInv'
<1>1. CASE Store(i, value)
  BY <1>1, AssignKeeps DEF Store
<1>2. CASE StoreUndefined(i, value)
  BY <1>2, AssignKeeps DEF StoreUndefined
<1>3. CASE StoreAggregate(i, value)
  BY <1>3, AssignKeeps DEF StoreAggregate
<1> QED
  BY <1>1, <1>2, <1>3

LEMMA StutterKeeps == OrderInv /\ UNCHANGED vars => OrderInv'
<1> SUFFICES ASSUME OrderInv, UNCHANGED vars PROVE OrderInv'
  OBVIOUS
<1>1. TypeOK'
  BY DEF OrderInv, TypeOK, vars, Closed
<1>2. Cursor' = Cursor /\ laid' = laid /\ layout' = layout
  BY DEF Cursor, IsStruct, vars
<1> QED
  BY <1>1, <1>2, CursorNat, MovedOn DEF OrderInv

LEMMA NextKeeps == OrderInv /\ [Next]_vars => OrderInv'
  BY ParseTypeKeeps, ParsedPlainKeeps, ParsedBitsKeeps, LayOrdinaryKeeps, LayZeroWidthKeeps,
     LayBitsKeeps, RefuseKeeps, LaidBitsKeeps, StoresKeep, StutterKeeps DEF Next

-----------------------------------------------------------------------------
(* The theorems.                                                            *)

\* The invariant of the two loops of parse_aggregate_types and make_aggregate_info.
THEOREM LayoutInvariant == Spec => []OrderInv
<1>1. Init => OrderInv
  BY InitOrder
<1>2. OrderInv /\ [Next]_vars => OrderInv'
  BY NextKeeps
<1> QED
  BY <1>1, <1>2, PTL DEF Spec

\* The variables of the layout and of the object have their types.
THEOREM LayoutTypes == Spec => []TypeOK
<1>1. OrderInv => TypeOK
  BY DEF OrderInv
<1> QED
  BY <1>1, LayoutInvariant, PTL

\* Fields of a struct never overlap and no field leaves its aggregate.
THEOREM FieldsApart == Spec => []FieldsDisjoint
<1>1. OrderInv => FieldsDisjoint
  BY DEF OrderInv, FieldsDisjoint
<1> QED
  BY <1>1, LayoutInvariant, PTL

\* Two fields of a struct have no bit in common.
LEMMA CellsApart ==
  ASSUME OrderInv, Closed, IsStruct, NEW i \in DOMAIN laid, NEW j \in DOMAIN laid, i # j,
         NEW b \in Cells(laid[i])
  PROVE  b \notin Cells(laid[j])
<1>1. laid \in Seq(Field) /\ i \in Int /\ j \in Int
  BY DEF OrderInv, TypeOK
<1>2. laid[i] \in Field /\ laid[j] \in Field
  BY <1>1
<1>3. From(laid[i]) \in Nat /\ To(laid[i]) \in Nat /\ From(laid[j]) \in Nat /\ To(laid[j]) \in Nat
  BY <1>2, Extent
<1>4. To(laid[i]) <= From(laid[j]) \/ To(laid[j]) <= From(laid[i])
  BY <1>1 DEF OrderInv, InOrder
<1> QED
  BY <1>3, <1>4 DEF Cells

\* An assignment leaves every bit outside its field alone.
LEMMA OnlyItsCells ==
  ASSUME OrderInv, NEW i \in DOMAIN laid, NEW value,
         Store(i, value) \/ StoreUndefined(i, value) \/ StoreAggregate(i, value),
         NEW j \in DOMAIN laid, NEW b \in Cells(laid[j]), b \notin Cells(laid[i])
  PROVE  mem'[b] = mem[b]
<1>1. Closed /\ laid[j] \in Field
  BY DEF OrderInv, TypeOK, Store, StoreUndefined, StoreAggregate, MayStore, Closed
<1>2. From(laid[j]) \in Nat /\ To(laid[j]) \in Nat /\ To(laid[j]) <= 8 * size
  BY <1>1, Extent DEF OrderInv, Inside, Cursor, Closed
<1>3. DOMAIN mem = 0..8 * size - 1 /\ size \in Nat
  BY <1>1 DEF OrderInv, TypeOK
<1>4. b \in DOMAIN mem
  BY <1>2, <1>3 DEF Cells
<1>5. mem' = mem \/ \E stored : mem' = Written(i, stored)
  BY DEF Store, StoreUndefined, StoreAggregate
<1> QED
  BY <1>4, <1>5 DEF Written

\* Assigning to one field of a struct leaves every bit of its other fields alone.
THEOREM OthersUntouched == Spec => OneFieldChanges
<1>1. OrderInv /\ [Next]_vars => TouchesOne
  <2> SUFFICES ASSUME OrderInv, [Next]_vars, Closed, IsStruct,
                      NEW i \in DOMAIN laid, NEW j \in DOMAIN laid, i # j
               PROVE  \/ \A b \in Cells(laid[i]) : mem'[b] = mem[b]
                      \/ \A b \in Cells(laid[j]) : mem'[b] = mem[b]
    BY DEF TouchesOne
  <2>1. CASE UNCHANGED vars
    BY <2>1 DEF vars
  <2>2. ASSUME NEW k \in DOMAIN laid, NEW value \in Values,
               Store(k, value) \/ StoreUndefined(k, value) \/ StoreAggregate(k, value)
        PROVE  \/ \A b \in Cells(laid[i]) : mem'[b] = mem[b]
               \/ \A b \in Cells(laid[j]) : mem'[b] = mem[b]
    <3>1. CASE k = i
      BY <3>1, <2>2, CellsApart, OnlyItsCells
    <3>2. CASE k # i
      BY <3>2, <2>2, CellsApart, OnlyItsCells
    <3> QED
      BY <3>1, <3>2
  <2>3. CASE Next
    BY <2>2, <2>3 DEF Next, Closed, ParseType, ParsedPlain, ParsedBits, LayOrdinary,
                      LayZeroWidth, LayBits, Refuse, LaidBits
  <2> QED
    BY <2>1, <2>3
<1> QED
  BY <1>1, LayoutInvariant, PTL DEF Spec, OneFieldChanges

-----------------------------------------------------------------------------
(* Storage units inside the aggregate.                                      *)

Divides(a, b) == \E k \in Int : b = k * a

\* The alignments there are: powers of two, or any others of which the smaller
\* divides the larger; and an integer type is aligned by its size.
Alignments ==
  {1} \cup {AlignOf[type] : type \in Types}
      \cup {aggr.align : aggr \in {l \in Layouts : l.align # NotGiven}}
NaturallyAligned ==
  /\ \A a, b \in Alignments : a <= b => Divides(a, b)
  /\ \A type \in BitTypes : AlignOf[type] = SizeOf[type]

Bitfields == {i \in DOMAIN laid : decl[i].width # NoBits /\ laid[i].bits > 0}
Unit(i)   == SizeOf[decl[i].type]

\* A bitfield of the second loop: its unit begins before its end, on a multiple of
\* the unit's size.
LaidUnit(i) ==
  /\ decl[i].type \in BitTypes
  /\ Unit(i) <= maxAlign
  /\ Divides(Unit(i), laid[i].unit)
  /\ IF IsStruct THEN 8 * laid[i].unit < To(laid[i])
                 ELSE laid[i].unit = 0 /\ Unit(i) <= maxSize

UnitInv ==
  layout.pack = NotGiven =>
    /\ maxAlign \in Alignments
    /\ phase = "bits" => \A i \in Bitfields : LaidUnit(i)
    /\ Closed => \A i \in Bitfields : laid[i].unit + Unit(i) <= size

LEMMA TimesMonotone ==
  ASSUME NEW s \in Nat, NEW j \in Int, NEW k \in Int, j <= k
  PROVE  j * s <= k * s /\ j * s \in Int /\ k * s \in Int /\ (j + 1) * s = j * s + s
  OBVIOUS

\* Two multiples of a unit are a unit apart.
LEMMA UnitApart ==
  ASSUME NEW s \in Nat, NEW x \in Nat, NEW y \in Nat, Divides(s, x), Divides(s, y), x < y
  PROVE  x + s <= y
<1>1. PICK j \in Int, k \in Int : x = j * s /\ y = k * s
  BY DEF Divides
<1>2. j < k
  <2>1. SUFFICES ASSUME k <= j PROVE FALSE
    BY <1>1
  <2>2. k * s <= j * s
    BY <2>1, TimesMonotone
  <2> QED
    BY <1>1, <2>2
<1>3. j + 1 \in Int /\ j + 1 <= k
  BY <1>1, <1>2
<1>4. (j + 1) * s <= k * s
  BY <1>1, <1>3, TimesMonotone
<1>5. (j + 1) * s = j * s + s
  BY <1>1, TimesMonotone
<1> QED
  BY <1>1, <1>4, <1>5

\* What is aligned to a multiple of a unit is a multiple of the unit.
LEMMA AlignDivides ==
  ASSUME NEW s \in Nat, NEW a \in Nat, NEW pos \in Nat, a > 0, Divides(s, a)
  PROVE  Divides(s, Align(pos, a))
<1>1. PICK m \in Int : a = m * s
  BY DEF Divides
<1>2. PICK q \in Int : q = (pos + a - 1) \div a
  OBVIOUS
<1>3. Align(pos, a) = q * a
  BY <1>2 DEF Align
<1>4. q * (m * s) = (q * m) * s /\ q * m \in Int
  BY <1>1, <1>2
<1> QED
  BY <1>1, <1>3, <1>4 DEF Divides

\* The unit a bit lies in begins at or before it.
LEMMA UnitBegins ==
  ASSUME NEW s \in Nat, NEW first \in Nat, s > 0
  PROVE  /\ (first \div (8 * s)) * s \in Nat
         /\ 8 * ((first \div (8 * s)) * s) <= first
<1>1. PICK u \in Nat : u = 8 * s /\ u > 0
  OBVIOUS
<1>2. PICK q \in Nat, r \in Nat : q = first \div u /\ first = u * q + r
  BY <1>1
<1>3. u * q = 8 * (q * s) /\ q * s \in Nat
  BY <1>1, <1>2
<1> QED
  BY <1>1, <1>2, <1>3

LEMMA AlignmentFacts ==
  ASSUME NaturallyAligned, TypeOK, layout.pack = NotGiven, maxAlign \in Alignments
  PROVE  /\ FinalAlign \in Alignments /\ FinalAlign >= maxAlign /\ maxAlign \in Nat
         /\ FinalAlign \in Nat
<1>1. maxAlign \in Nat /\ layout.align \in Nat /\ layout \in Layouts
  BY LayoutAssumption DEF TypeOK
<1>2. layout.align # NotGiven => layout.align \in Alignments
  BY <1>1 DEF Alignments
<1> QED
  BY <1>1, <1>2 DEF FinalAlign, Bigger

LEMMA RaiseFacts ==
  ASSUME TypeOK, More, layout.pack = NotGiven, maxAlign \in Alignments,
         maxAlign' = Bigger(maxAlign, MemberAlign(Shape.type))
  PROVE  /\ maxAlign' \in Alignments /\ maxAlign \in Nat /\ maxAlign' \in Nat
         /\ maxAlign <= maxAlign' /\ AlignOf[Shape.type] <= maxAlign'
<1>1. MemberAlign(Shape.type) = AlignOf[Shape.type]
  BY DEF MemberAlign
<1>2. Shape.type \in Types /\ AlignOf[Shape.type] \in Nat /\ maxAlign \in Nat
  BY ShapeFacts, LayoutAssumption DEF TypeOK
<1>3. AlignOf[Shape.type] \in Alignments
  BY <1>2 DEF Alignments
<1> QED
  BY <1>1, <1>2, <1>3 DEF Bigger

\* The second loop: what the new field must bring along.
LEMMA LaidUnits ==
  ASSUME OrderInv, UnitInv, More, phase = "bits", NEW field \in Field,
         laid' = Append(laid, field), Raise(Shape.type), maxSize' \in Nat, maxSize <= maxSize',
         UNCHANGED <<decl, layout, phase>>,
         layout.pack = NotGiven /\ Shape.width # NoBits /\ field.bits > 0
           => /\ Shape.type \in BitTypes
              /\ SizeOf[Shape.type] <= maxAlign'
              /\ Divides(SizeOf[Shape.type], field.unit)
              /\ IF IsStruct THEN 8 * field.unit < To(field)
                             ELSE field.unit = 0 /\ SizeOf[Shape.type] <= maxSize'
  PROVE  UnitInv'
<1> SUFFICES ASSUME layout.pack = NotGiven
             PROVE  maxAlign' \in Alignments /\ \A i \in Bitfields' : LaidUnit(i)'
  BY DEF UnitInv, Closed
<1>1. TypeOK /\ laid \in Seq(Field) /\ maxSize \in Nat
  BY DEF OrderInv, TypeOK
<1>2. /\ maxAlign' \in Alignments /\ maxAlign \in Nat /\ maxAlign' \in Nat
      /\ maxAlign <= maxAlign'
  BY <1>1, RaiseFacts DEF UnitInv, Raise
<1>3. ASSUME NEW i \in Bitfields' PROVE LaidUnit(i)'
  <2>1. i \in DOMAIN laid' /\ decl[i].width # NoBits /\ laid'[i].bits > 0
    BY <1>3 DEF Bitfields
  <2>2. CASE i = Len(laid) + 1
    <3>1. laid'[i] = field /\ decl[i] = Shape
      BY <1>1, <2>2 DEF Shape
    <3> QED
      BY <2>1, <3>1 DEF LaidUnit, Unit, IsStruct, To, From
  <2>3. CASE i # Len(laid) + 1
    <3>1. i \in DOMAIN laid /\ laid'[i] = laid[i]
      BY <1>1, <2>1, <2>3
    <3>2. i \in Bitfields
      BY <2>1, <3>1 DEF Bitfields
    <3>3. LaidUnit(i)
      BY <3>2 DEF UnitInv
    <3>4. Unit(i) \in Nat
      BY <3>3, LayoutAssumption DEF LaidUnit, Unit
    <3> QED
      BY <1>1, <1>2, <3>1, <3>3, <3>4 DEF LaidUnit, Unit, IsStruct, To, From
  <2> QED
    BY <2>2, <2>3
<1> QED
  BY <1>2, <1>3

LEMMA LayOrdinaryUnits == OrderInv /\ UnitInv /\ LayOrdinary => UnitInv'
<1> SUFFICES ASSUME OrderInv, UnitInv, LayOrdinary PROVE UnitInv'
  OBVIOUS
<1> DEFINE at == IF IsStruct THEN Align(BitsToBytes(bitpos), MemberAlign(Shape.type)) ELSE 0
           field == Bytes(at, Shape)
<1>1. /\ TypeOK /\ TypeOK' /\ More /\ phase = "bits" /\ Shape.width = NoBits
      /\ laid' = Append(laid, field) /\ Raise(Shape.type) /\ UNCHANGED <<decl, layout, phase>>
      /\ maxSize' = maxSize \/ maxSize' = Bigger(maxSize, FieldSize(Shape))
  BY LayOrdinaryKeeps DEF LayOrdinary, OrderInv
<1>2. maxSize \in Nat /\ maxSize' \in Nat /\ maxSize <= maxSize'
  <2>1. maxSize \in Nat /\ FieldSize(Shape) \in Nat
    BY <1>1, ShapeFacts DEF TypeOK
  <2>2. PICK b \in Nat : b = FieldSize(Shape)
    BY <2>1
  <2>3. Bigger(maxSize, b) \in Nat /\ Bigger(maxSize, b) >= maxSize
    BY <2>1, BiggerNat
  <2>4. maxSize' = maxSize \/ maxSize' = Bigger(maxSize, b)
    BY <1>1, <2>2
  <2> QED
    BY <2>1, <2>3, <2>4
<1> HIDE DEF field
<1>3. laid \in Seq(Field) /\ laid' \in Seq(Field)
  BY <1>1 DEF TypeOK
<1>4. field \in Field
  <2>1. Len(laid) + 1 \in 1..Len(laid') /\ laid'[Len(laid) + 1] = field
    BY <1>1, <1>3
  <2> QED
    BY <1>3, <2>1
<1> QED
  BY <1>1, <1>2, <1>4, LaidUnits

LEMMA LayZeroWidthUnits == OrderInv /\ UnitInv /\ LayZeroWidth => UnitInv'
<1> SUFFICES ASSUME OrderInv, UnitInv, LayZeroWidth PROVE UnitInv'
  OBVIOUS
<1>1. PICK at : laid' = Append(laid, [offset |-> at, bit |-> NoBits, bits |-> 0, unit |-> 0])
  BY DEF LayZeroWidth
<1> DEFINE field == [offset |-> at, bit |-> NoBits, bits |-> 0, unit |-> 0]
<1>2. /\ TypeOK /\ TypeOK' /\ More /\ phase = "bits" /\ field.bits = 0
      /\ laid' = Append(laid, field) /\ Raise(Shape.type)
      /\ UNCHANGED <<decl, layout, phase, maxSize>>
  BY <1>1, LayZeroWidthKeeps DEF LayZeroWidth, OrderInv
<1> HIDE DEF field
<1>3. laid \in Seq(Field) /\ laid' \in Seq(Field) /\ maxSize \in Nat
  BY <1>2 DEF TypeOK
<1>4. field \in Field
  <2>1. Len(laid) + 1 \in 1..Len(laid') /\ laid'[Len(laid) + 1] = field
    BY <1>2, <1>3
  <2> QED
    BY <1>3, <2>1
<1> QED
  BY <1>2, <1>3, <1>4, LaidUnits

LEMMA LayBitsUnits == NaturallyAligned /\ OrderInv /\ UnitInv /\ LayBits => UnitInv'
<1> SUFFICES ASSUME NaturallyAligned, OrderInv, UnitInv, LayBits PROVE UnitInv'
  OBVIOUS
<1> DEFINE bytes == SizeOf[Shape.type]
           first == IF IsStruct THEN FirstBit(Shape) ELSE 0
           unit == (first \div UnitBits(Shape)) * bytes
           field == [offset |-> first \div 8, bit |-> first, bits |-> Shape.width, unit |-> unit]
<1>1. /\ TypeOK /\ TypeOK' /\ More /\ phase = "bits" /\ Shape.type \in BitTypes
      /\ Shape.width > 0 /\ bitpos \in Nat /\ maxSize \in Nat
      /\ laid' = Append(laid, field) /\ Raise(Shape.type) /\ UNCHANGED <<decl, layout, phase>>
      /\ IF IsStruct THEN maxSize' = maxSize ELSE maxSize' = Bigger(maxSize, bytes)
  BY LayBitsKeeps DEF LayBits, Valid, OrderInv, TypeOK
<1>2. bytes \in Nat /\ bytes > 0 /\ UnitBits(Shape) = 8 * bytes /\ Shape.width \in Nat
  BY <1>1, ShapeFacts, LayoutAssumption DEF UnitBits, NoBits
<1>3. first \in Nat /\ (~IsStruct => first = 0)
  <2>1. Align(bitpos, UnitBits(Shape)) \in Nat
    <3>1. PICK u \in Nat : u = UnitBits(Shape)
      BY <1>1, ShapeFacts
    <3>2. bitpos \in Nat /\ u \in Int
      BY <1>1
    <3>3. Align(bitpos, u) \in Nat
      BY <3>2, AlignUp
    <3> QED
      BY <3>1, <3>3
  <2> QED
    BY <1>1, <2>1 DEF FirstBit
<1> HIDE DEF first, bytes
<1>4. unit \in Nat /\ 8 * unit <= first
  BY <1>2, <1>3, UnitBegins
<1>5. Divides(bytes, unit)
  <2>1. first \div UnitBits(Shape) \in Int
    BY <1>2, <1>3
  <2> QED
    BY <2>1 DEF Divides
<1>6. ~IsStruct => unit = 0
  <2>1. SUFFICES ASSUME first = 0 PROVE unit = 0
    BY <1>3
  <2> QED
    BY <1>4, <2>1
<1> HIDE DEF unit
<1>7. first # NoBits
  BY <1>3 DEF NoBits
<1>8. field.bits = Shape.width /\ field.unit = unit /\ To(field) = first + Shape.width
  BY <1>7 DEF To, From
<1> HIDE DEF field
<1>9. laid \in Seq(Field) /\ laid' \in Seq(Field)
  BY <1>1 DEF TypeOK
<1>10. field \in Field
  <2>1. Len(laid) + 1 \in 1..Len(laid') /\ laid'[Len(laid) + 1] = field
    BY <1>1, <1>9
  <2> QED
    BY <1>9, <2>1
<1>11. maxSize' \in Nat /\ maxSize <= maxSize' /\ (~IsStruct => bytes <= maxSize')
  <2>1. /\ Bigger(maxSize, bytes) \in Nat /\ Bigger(maxSize, bytes) >= maxSize
        /\ Bigger(maxSize, bytes) >= bytes
    BY <1>1, <1>2, BiggerNat
  <2>2. CASE IsStruct
    BY <1>1, <2>2
  <2>3. CASE ~IsStruct
    BY <1>1, <1>2, <2>1, <2>3
  <2> QED
    BY <2>2, <2>3
<1>12. layout.pack = NotGiven => bytes <= maxAlign'
  BY <1>1, RaiseFacts DEF UnitInv, Raise, NaturallyAligned, bytes
<1>13. 8 * field.unit < To(field)
  BY <1>1, <1>2, <1>3, <1>4, <1>8
<1> QED
  BY <1>1, <1>5, <1>6, <1>8, <1>10, <1>11, <1>12, <1>13, LaidUnits DEF bytes

LEMMA LaidBitsUnits == NaturallyAligned /\ OrderInv /\ UnitInv /\ LaidBits => UnitInv'
<1> SUFFICES ASSUME NaturallyAligned, OrderInv, UnitInv, LaidBits, layout.pack = NotGiven
             PROVE  maxAlign' \in Alignments /\ \A i \in Bitfields' : laid'[i].unit + Unit(i)' <= size'
  BY DEF UnitInv, LaidBits, Close
<1> DEFINE need == IF IsStruct THEN BitsToBytes(bitpos) ELSE maxSize
<1>1. /\ TypeOK /\ phase = "bits" /\ bitpos \in Nat /\ maxSize \in Nat /\ Inside
      /\ UNCHANGED <<decl, layout, laid, maxAlign>> /\ size' = Align(need, FinalAlign)
  BY DEF LaidBits, Close, OrderInv, TypeOK
<1>2. need \in Nat /\ (IsStruct => 8 * need >= bitpos) /\ (~IsStruct => need = maxSize)
  BY <1>1, BytesUp
<1>3. /\ FinalAlign \in Alignments /\ FinalAlign >= maxAlign /\ maxAlign \in Nat
      /\ FinalAlign \in Nat /\ maxAlign \in Alignments
  BY <1>1, AlignmentFacts DEF UnitInv
<1> HIDE DEF need
<1>4. size' \in Nat /\ need <= size'
  BY <1>1, <1>2, <1>3, AlignUp
<1>5. ASSUME NEW i \in Bitfields PROVE laid[i].unit + Unit(i) <= size'
  <2>1. LaidUnit(i) /\ i \in DOMAIN laid /\ laid[i] \in Field
    BY <1>1, <1>5 DEF UnitInv, Bitfields, TypeOK
  <2>2. PICK s \in Nat : s = Unit(i) /\ s > 0 /\ s <= maxAlign /\ s \in Alignments
    <3>1. /\ decl[i].type \in BitTypes /\ decl[i].type \in Types
          /\ SizeOf[decl[i].type] \in Nat /\ SizeOf[decl[i].type] > 0
      BY <2>1, LayoutAssumption DEF LaidUnit
    <3>2. AlignOf[decl[i].type] = SizeOf[decl[i].type]
      BY <3>1 DEF NaturallyAligned
    <3> QED
      BY <2>1, <3>1, <3>2 DEF Unit, LaidUnit, Alignments
  <2>3. PICK x \in Nat : x = laid[i].unit /\ Divides(s, x)
    BY <2>1, <2>2 DEF Field, LaidUnit
  <2>4. FinalAlign > 0 /\ Divides(s, FinalAlign)
    <3>1. s <= FinalAlign
      BY <1>3, <2>2
    <3> QED
      BY <1>3, <2>2, <3>1 DEF NaturallyAligned
  <2>5. Divides(s, size')
    BY <1>1, <1>2, <1>3, <2>4, AlignDivides
  <2>6. CASE IsStruct
    <3>1. 8 * x < To(laid[i]) /\ To(laid[i]) <= bitpos /\ To(laid[i]) \in Nat
      BY <1>1, <2>1, <2>3, <2>6, Extent DEF LaidUnit, Inside, Cursor
    <3>2. x < size'
      BY <1>1, <1>2, <1>4, <2>6, <3>1
    <3> QED
      BY <1>4, <2>2, <2>3, <2>5, <3>2, UnitApart
  <2>7. CASE ~IsStruct
    BY <1>1, <1>2, <1>4, <2>1, <2>2, <2>7 DEF LaidUnit
  <2> QED
    BY <2>6, <2>7
<1> QED
  BY <1>1, <1>3, <1>5 DEF Bitfields, Unit

LEMMA OtherUnits ==
  ASSUME OrderInv, UnitInv,
         \/ ParseType \/ ParsedPlain \/ ParsedBits \/ Refuse \/ UNCHANGED vars
         \/ \E i \in DOMAIN laid, value \in Values :
               Store(i, value) \/ StoreUndefined(i, value) \/ StoreAggregate(i, value)
  PROVE  UnitInv'
<1>1. CASE ParseType
  <2>1. /\ TypeOK /\ More /\ maxAlign' = Bigger(maxAlign, MemberAlign(Shape.type))
        /\ phase' = "types" /\ layout' = layout
    BY <1>1 DEF ParseType, OrderInv
  <2> QED
    BY <2>1, RaiseFacts DEF UnitInv, Closed
<1>2. CASE ParsedPlain
  <2>1. /\ TypeOK /\ ~HasBits /\ phase' = "closed" /\ UNCHANGED <<decl, layout, laid, maxAlign>>
    BY <1>2 DEF ParsedPlain, Close, OrderInv
  <2>2. DOMAIN laid \subseteq DOMAIN decl
    BY <2>1 DEF TypeOK
  <2>3. Bitfields' = {}
    BY <2>1, <2>2 DEF Bitfields, HasBits
  <2> QED
    BY <2>1, <2>3 DEF UnitInv
<1>3. CASE ParsedBits
  <2>1. maxAlign' = 1 /\ laid' = << >> /\ phase' = "bits"
    BY <1>3 DEF ParsedBits
  <2> QED
    BY <2>1 DEF UnitInv, Bitfields, Alignments, Closed
<1>4. CASE Refuse
  BY <1>4 DEF Refuse, UnitInv, Closed
<1>5. CASE UNCHANGED vars
  BY <1>5 DEF vars, UnitInv, Closed, Bitfields, LaidUnit, Unit, IsStruct
<1>6. CASE \E i \in DOMAIN laid, value \in Values :
             Store(i, value) \/ StoreUndefined(i, value) \/ StoreAggregate(i, value)
  <2>1. UNCHANGED <<decl, layout, phase, laid, maxAlign, size>> /\ phase = "closed"
    BY <1>6 DEF Store, StoreUndefined, StoreAggregate, Unmoved, MayStore
  <2> QED
    BY <2>1 DEF UnitInv, Closed, Bitfields, Unit
<1> QED
  BY <1>1, <1>2, <1>3, <1>4, <1>5, <1>6

\* Without @pack, and on machines that align each integer type by its size, the
\* storage units handed to a by-value call lie inside the aggregate.
THEOREM UnitsStayInside == NaturallyAligned => (Spec => []UnitsInside)
<1> SUFFICES ASSUME NaturallyAligned PROVE Spec => []UnitsInside
  OBVIOUS
<1> DEFINE Inv == OrderInv /\ UnitInv
<1>1. Init => Inv
  BY InitOrder DEF Init, UnitInv, Alignments, Closed
<1>2. Inv /\ [Next]_vars => Inv'
  BY NextKeeps, LayOrdinaryUnits, LayZeroWidthUnits, LayBitsUnits, LaidBitsUnits, OtherUnits
     DEF Next
<1>3. Inv => UnitsInside
  BY DEF UnitInv, UnitsInside, Occupied, Bitfields, IsBitfield, Unit
<1> QED
  BY <1>1, <1>2, <1>3, PTL DEF Spec

-----------------------------------------------------------------------------
(* Every field begins as early as it may.                                    *)

\* Every type has an alignment.
Aligned == \A type \in Types : AlignOf[type] > 0

\* The finished struct ends where the code's own max_align lets it.
CodeFit ==
  Closed /\ IsStruct => (\A i \in DOMAIN laid : Fitted(i)) /\ EndsAligned(FinalAlign)

\* The field placed last ends at the cursor, in the loop whose result will be kept.
FitInv ==
  /\ maxAlign > 0
  /\ IsStruct /\ (phase = "bits" \/ (phase = "types" /\ ~HasBits)) =>
       /\ Cursor = Begins(Len(laid) + 1)
       /\ \A i \in DOMAIN laid : Fitted(i)
  /\ CodeFit

\* The remainder and the quotient of a number.
LEMMA DivModInt ==
  ASSUME NEW b \in Int, NEW a \in Nat, a > 0
  PROVE  /\ b \div a \in Int /\ b % a \in 0..a - 1
         /\ b = (b \div a) * a + (b % a)
<1>1. PICK q \in Int : q = b \div a
  OBVIOUS
<1>2. PICK r \in 0..a - 1 : r = b % a
  OBVIOUS
<1>3. b = a * q + r
  BY <1>1, <1>2
<1>4. a * q = q * a /\ q * a \in Int
  OBVIOUS
<1>5. b = q * a + r
  BY <1>3, <1>4
<1> QED
  BY <1>1, <1>2, <1>5

LEMMA DivMod ==
  ASSUME NEW b \in Nat, NEW a \in Nat, a > 0
  PROVE  /\ b \div a \in Nat /\ b % a \in 0..a - 1
         /\ b = (b \div a) * a + (b % a)
<1>1. PICK q \in Int, r \in 0..a - 1 : q = b \div a /\ r = b % a /\ b = q * a + r
  BY DivModInt
<1>2. q >= 0
  <2>1. SUFFICES ASSUME q <= -1 PROVE FALSE
    BY <1>1
  <2>2. q * a <= (-1) * a /\ q * a \in Int
    BY <2>1, TimesMonotone
  <2> QED
    BY <1>1, <2>2
<1> QED
  BY <1>1, <1>2

\* A multiple has no remainder, and the quotient is the factor.
LEMMA MultipleOf ==
  ASSUME NEW q \in Int, NEW a \in Nat, a > 0, NEW r \in 0..a - 1
  PROVE  (q * a + r) % a = r /\ (q * a + r) \div a = q
<1> DEFINE b == q * a + r
<1>1. q * a \in Int /\ b \in Int
  BY TimesMonotone
<1>2. PICK p \in Int : p = b \div a
  BY <1>1, DivModInt
<1>3. PICK s \in 0..a - 1 : s = b % a
  BY <1>1, DivModInt
<1>4. q * a + r = p * a + s
  BY <1>1, <1>2, <1>3, DivModInt
<1>5. ~(p < q)
  <2>1. SUFFICES ASSUME p + 1 <= q PROVE FALSE
    OBVIOUS
  <2>2. (p + 1) * a <= q * a /\ (p + 1) * a = p * a + a /\ p * a \in Int
    BY <2>1, TimesMonotone
  <2> QED
    BY <1>1, <1>4, <2>2
<1>6. ~(q < p)
  <2>1. SUFFICES ASSUME q + 1 <= p PROVE FALSE
    OBVIOUS
  <2>2. (q + 1) * a <= p * a /\ (q + 1) * a = q * a + a /\ p * a \in Int
    BY <2>1, TimesMonotone
  <2> QED
    BY <1>1, <1>4, <2>2
<1>7. p = q
  BY <1>5, <1>6
<1>8. s = r
  BY <1>1, <1>4, <1>7
<1> QED
  BY <1>2, <1>3, <1>7, <1>8

LEMMA NoRest ==
  ASSUME NEW b \in Nat, NEW a \in Nat, a > 0, b % a = 0
  PROVE  \E k \in Nat : k = b \div a /\ b = k * a
<1>1. PICK k \in Nat, r \in Nat : k = b \div a /\ r = b % a /\ b = k * a + r
  BY DivMod
<1>2. r = 0 /\ k * a \in Nat
  BY <1>1, ProductNat
<1>3. b = k * a
  BY <1>1, <1>2
<1> QED
  BY <1>1, <1>3

\* align() and align_bits() find the first multiple, less than one unit away.
LEMMA AlignFirst ==
  ASSUME NEW pos \in Nat, NEW a \in Nat, a > 0
  PROVE  /\ Align(pos, a) \in Nat /\ Align(pos, a) >= pos /\ Align(pos, a) < pos + a
         /\ Align(pos, a) % a = 0
         /\ \A b \in pos..Align(pos, a) - 1 : b % a # 0
<1>1. PICK q \in Nat : q = (pos + a - 1) \div a
  BY DivMod
<1>2. PICK r \in 0..a - 1 : pos + a - 1 = q * a + r
  BY <1>1, DivMod
<1>3. q * a \in Nat
  BY ProductNat
<1>4. Align(pos, a) = q * a
  BY <1>1 DEF Align
<1>5. (q * a) % a = 0
  <2>1. (q * a + 0) % a = 0
    BY MultipleOf
  <2> QED
    BY <1>3, <2>1
<1>6. ASSUME NEW b \in pos..q * a - 1, b % a = 0 PROVE FALSE
  <2>1. b \in Nat
    BY <1>3
  <2>2. PICK k \in Nat : b = k * a
    BY <1>6, <2>1, NoRest
  <2>3. b = k * a
    BY <2>2
  <2>4. k < q
    <3>1. SUFFICES ASSUME q <= k PROVE FALSE
      OBVIOUS
    <3>2. q * a <= k * a
      BY <3>1, TimesMonotone
    <3> QED
      BY <1>3, <2>1, <2>3, <3>2
  <2>5. (k + 1) * a <= q * a /\ (k + 1) * a = k * a + a
    <3>1. k + 1 <= q
      BY <2>4
    <3> QED
      BY <3>1, TimesMonotone
  <2> QED
    BY <1>2, <1>3, <2>1, <2>3, <2>5
<1> QED
  BY <1>2, <1>3, <1>4, <1>5, <1>6

\* An ordinary field in the second loop: rounding to bytes first loses nothing.
LEMMA OrdinaryFirst ==
  ASSUME NEW pos \in Nat, NEW a \in Nat, a > 0
  PROVE  LET at == Align(BitsToBytes(pos), a)
         IN  /\ at \in Nat /\ (8 * at) % (8 * a) = 0
             /\ \A b \in pos..8 * at - 1 : b % (8 * a) # 0
<1>1. PICK n \in Nat : n = BitsToBytes(pos) /\ 8 * n <= pos + 7
  BY BytesUp DEF BitsToBytes
<1>2. PICK at \in Nat : /\ at = Align(n, a) /\ at % a = 0
                        /\ \A b \in n..at - 1 : b % a # 0
  BY AlignFirst
<1>3. ASSUME NEW k \in Nat PROVE (8 * (k * a)) = k * (8 * a) /\ k * a \in Nat
  BY ProductNat
<1>4. (8 * at) % (8 * a) = 0
  <2>1. PICK k \in Nat : at = k * a
    BY <1>2, NoRest
  <2>2. at = k * a
    BY <2>1
  <2>3. 8 * at = k * (8 * a)
    BY <1>3, <2>2
  <2>4. (k * (8 * a) + 0) % (8 * a) = 0
    <3>1. PICK u \in Nat : u = 8 * a /\ u > 0
      OBVIOUS
    <3>2. 0 \in 0..u - 1 /\ k * u \in Nat
      BY <3>1, ProductNat
    <3>3. (k * u) % u = 0
      <4>1. \A r \in 0..u - 1 : (k * u + r) % u = r
        <5>1. k \in Int
          OBVIOUS
        <5> QED
          BY <3>1, <5>1, MultipleOf
      <4> QED
        BY <3>2, <4>1
    <3> QED
      BY <3>1, <3>2, <3>3
  <2>5. k * (8 * a) \in Nat
    BY <2>3
  <2> QED
    BY <2>3, <2>4, <2>5
<1>5. ASSUME NEW b \in pos..8 * at - 1, b % (8 * a) = 0 PROVE FALSE
  <2>1. b \in Nat
    OBVIOUS
  <2>2. PICK u \in Nat : u = 8 * a /\ u > 0
    OBVIOUS
  <2>3. b % u = 0
    BY <1>5, <2>2
  <2>4. PICK k \in Nat : b = k * u
    BY <2>1, <2>2, <2>3, NoRest
  <2>5. PICK m \in Nat : m = k * a /\ b = 8 * m
    BY <1>3, <2>2, <2>4
  <2>6. m \in n..at - 1
    BY <1>1, <2>5
  <2>7. m % a = 0
    <3>1. (k * a + 0) % a = 0
      BY MultipleOf
    <3> QED
      BY <2>5, <3>1
  <2> QED
    BY <1>2, <2>6, <2>7
<1> QED
  BY <1>1, <1>2, <1>4, <1>5

\* Where FirstBit puts a bitfield it lies in one unit, and nowhere before it.
LEMMA BitsFirst ==
  ASSUME NEW pos \in Nat, NEW u \in Nat, NEW w \in Nat, w > 0, w <= u
  PROVE  /\ (pos % u) + w <= u => pos \div u = (pos + w - 1) \div u
         /\ (pos % u) + w > u =>
              /\ Align(pos, u) \in Nat
              /\ Align(pos, u) \div u = (Align(pos, u) + w - 1) \div u
              /\ \A b \in pos..Align(pos, u) - 1 : b \div u # (b + w - 1) \div u
<1>1. PICK q \in Nat : q = pos \div u
  BY DivMod
<1>2. PICK r \in 0..u - 1 : r = pos % u
  BY DivMod
<1>3. pos = q * u + r /\ q * u \in Nat
  BY <1>1, <1>2, DivMod, ProductNat
<1>4. CASE r + w <= u
  <2>1. r + w - 1 \in 0..u - 1
    BY <1>4
  <2>2. (q * u + (r + w - 1)) \div u = q
    BY <2>1, MultipleOf
  <2>3. pos + w - 1 = q * u + (r + w - 1)
    BY <1>3
  <2>4. ~((pos % u) + w > u)
    BY <1>2, <1>3, <1>4
  <2>5. pos \div u = (pos + w - 1) \div u
    BY <1>1, <2>2, <2>3
  <2> QED
    BY <2>4, <2>5
<1>5. CASE r + w > u
  <2>1. (q + 1) * u = q * u + u /\ (q + 1) * u \in Nat
    BY <1>3, TimesMonotone
  <2>2. PICK first \in Nat : /\ first = Align(pos, u) /\ first >= pos /\ first < pos + u
                             /\ first % u = 0
    <3>1. u > 0
      OBVIOUS
    <3> QED
      BY <3>1, AlignFirst
  <2>3. first = (q + 1) * u
    <3>1. PICK k \in Nat : first = k * u
      <4>1. u > 0
        OBVIOUS
      <4> QED
        BY <2>2, <4>1, NoRest
    <3>2. k * u \in Nat /\ first = k * u
      BY <3>1
    <3>3. ~(k <= q)
      <4>1. SUFFICES ASSUME k <= q PROVE FALSE
        OBVIOUS
      <4>2. k * u <= q * u
        BY <4>1, TimesMonotone
      <4> QED
        BY <1>3, <1>5, <2>2, <3>2, <4>2
    <3>4. ~(q + 2 <= k)
      <4>1. SUFFICES ASSUME q + 2 <= k PROVE FALSE
        OBVIOUS
      <4>2. (q + 2) * u <= k * u
        BY <4>1, TimesMonotone
      <4>3. ((q + 1) + 1) * u = (q + 1) * u + u
        BY TimesMonotone
      <4>4. (q + 2) * u = q * u + u + u
        BY <2>1, <4>3
      <4> QED
        BY <1>3, <2>2, <3>2, <4>2, <4>4
    <3>5. k = q + 1
      BY <3>3, <3>4
    <3> QED
      BY <3>2, <3>5
  <2>4. first \div u = (first + w - 1) \div u
    <3>1. ((q + 1) * u + 0) \div u = q + 1
      BY MultipleOf
    <3>2. w - 1 \in 0..u - 1
      OBVIOUS
    <3>3. ((q + 1) * u + (w - 1)) \div u = q + 1
      BY <3>2, MultipleOf
    <3>4. first + w - 1 = (q + 1) * u + (w - 1) /\ first = (q + 1) * u + 0
      BY <2>1, <2>3
    <3> QED
      BY <3>1, <3>3, <3>4
  <2>5. ASSUME NEW b \in pos..first - 1 PROVE b \div u # (b + w - 1) \div u
    <3>1. PICK s \in 0..u - 1 : b = q * u + s /\ s + w > u
      <4>1. b - q * u \in 0..u - 1 /\ (b - q * u) + w > u /\ b = q * u + (b - q * u)
        BY <1>3, <1>5, <2>1, <2>3
      <4> QED
        BY <4>1
    <3>2. b \div u = q
      BY <3>1, MultipleOf
    <3>3. s + w - 1 - u \in 0..u - 1
      BY <3>1
    <3>4. ((q + 1) * u + (s + w - 1 - u)) \div u = q + 1
      BY <3>3, MultipleOf
    <3>5. b + w - 1 = (q + 1) * u + (s + w - 1 - u)
      BY <1>3, <2>1, <3>1
    <3> QED
      BY <3>2, <3>4, <3>5
  <2>6. (pos % u) + w > u
    BY <1>2, <1>5
  <2> QED
    BY <2>2, <2>4, <2>5, <2>6
<1> QED
  BY <1>4, <1>5

LEMMA BitsMoved ==
  \A pos \in Nat, u \in Nat, w \in Nat :
    w > 0 /\ w <= u /\ (pos % u) + w > u =>
      /\ Align(pos, u) \in Nat
      /\ Align(pos, u) \div u = (Align(pos, u) + w - 1) \div u
      /\ \A b \in pos..Align(pos, u) - 1 : b \div u # (b + w - 1) \div u
  BY BitsFirst

\* The size of a struct: behind its end, by less than its alignment.
LEMMA SizeFirst ==
  ASSUME NEW pos \in Nat, NEW bytes \in Nat, NEW a \in Nat, a > 0,
         8 * bytes >= pos, 8 * bytes <= pos + 7
  PROVE  /\ Align(bytes, a) % a = 0
         /\ 8 * Align(bytes, a) - pos \in 0..8 * a - 1
<1>1. PICK n \in Nat : n = Align(bytes, a) /\ n >= bytes /\ n < bytes + a /\ n % a = 0
  BY AlignFirst
<1> QED
  BY <1>1

-----------------------------------------------------------------------------

LEMMA MemberAligned ==
  ASSUME Aligned, TypeOK, More
  PROVE  MemberAlign(Shape.type) \in Nat /\ MemberAlign(Shape.type) > 0
<1>1. Shape.type \in Types /\ AlignOf[Shape.type] \in Nat /\ AlignOf[Shape.type] > 0
  BY ShapeFacts, LayoutAssumption DEF Aligned
<1>2. layout.pack \in Nat
  BY LayoutAssumption DEF TypeOK
<1> QED
  BY <1>1, <1>2 DEF MemberAlign, NotGiven

LEMMA RaiseFit ==
  ASSUME Aligned, TypeOK, More, maxAlign' = Bigger(maxAlign, MemberAlign(Shape.type))
  PROVE  maxAlign' > 0
<1>1. PICK a \in Nat : a = MemberAlign(Shape.type) /\ a > 0
  BY MemberAligned
<1>2. maxAlign \in Nat
  BY DEF TypeOK
<1> QED
  BY <1>1, <1>2 DEF Bigger

\* A field placed at the first place behind the cursor that suits it.
LEMMA PlacedFit ==
  ASSUME TypeOK, More, NEW field \in Field,
         laid' = Append(laid, field), UNCHANGED <<decl, layout>>,
         Cursor = Begins(Len(laid) + 1), \A i \in DOMAIN laid : Fitted(i),
         MayBegin(Len(laid) + 1, From(field)),
         \A bit \in Cursor..From(field) - 1 : ~MayBegin(Len(laid) + 1, bit)
  PROVE  Begins(Len(laid) + 1)' = To(field) /\ \A i \in DOMAIN laid' : Fitted(i)'
<1> DEFINE n == Len(laid) + 1
<1>1. /\ laid \in Seq(Field) /\ Len(laid) \in Nat /\ laid'[n] = field /\ Len(laid') = n
      /\ DOMAIN laid' = 1..n /\ \A i \in 1..Len(laid) : laid'[i] = laid[i]
  BY DEF TypeOK
<1>2. Begins(Len(laid) + 1)' = To(field)
  <2>1. Begins(Len(laid) + 1)' = IF Len(laid') + 1 = 1 THEN 0 ELSE To(laid'[Len(laid') + 1 - 1])
    BY DEF Begins
  <2>2. Len(laid') + 1 # 1 /\ Len(laid') + 1 - 1 = n
    BY <1>1
  <2> QED
    BY <1>1, <2>1, <2>2
<1>3. ASSUME NEW i \in 1..n PROVE Begins(i)' = Begins(i)
  <2>1. CASE i = 1
    BY <2>1 DEF Begins
  <2>2. CASE i # 1
    <3>1. i - 1 \in 1..Len(laid)
      BY <1>1, <2>2
    <3>2. laid'[i - 1] = laid[i - 1]
      BY <1>1, <3>1
    <3> QED
      BY <2>2, <3>2 DEF Begins
  <2> QED
    BY <2>1, <2>2
<1>4. ASSUME NEW i, NEW bit PROVE MayBegin(i, bit)' <=> MayBegin(i, bit)
  BY DEF MayBegin, MemberAlign, UnitBits
<1>5. ASSUME NEW i \in 1..n PROVE Fitted(i)'
  <2>1. PICK at : at = From(laid'[i])
    OBVIOUS
  <2>2. /\ MayBegin(i, at)
        /\ \A bit \in Begins(i)..at - 1 : ~MayBegin(i, bit)
    <3>1. CASE i = n
      BY <1>1, <2>1, <3>1
    <3>2. CASE i # n
      <4>1. i \in DOMAIN laid /\ laid'[i] = laid[i]
        BY <1>1, <3>2
      <4> QED
        BY <2>1, <4>1 DEF Fitted
    <3> QED
      BY <3>1, <3>2
  <2>3. MayBegin(i, at)' /\ \A bit \in Begins(i)..at - 1 : ~MayBegin(i, bit)'
    BY <1>4, <2>2
  <2> QED
    BY <1>3, <2>1, <2>3 DEF Fitted
<1> QED
  BY <1>1, <1>2, <1>5

\* Where the new field's turn leaves off, for ordinary fields of either loop.
LEMMA OrdinaryFit ==
  ASSUME Aligned, TypeOK, More, Shape.width = NoBits, Cursor \in Nat,
         NEW at \in Nat, at = Align(BitsToBytes(Cursor), MemberAlign(Shape.type))
  PROVE  /\ MayBegin(Len(laid) + 1, 8 * at)
         /\ \A bit \in Cursor..8 * at - 1 : ~MayBegin(Len(laid) + 1, bit)
<1>1. PICK a \in Nat : a = MemberAlign(Shape.type) /\ a > 0
  BY MemberAligned
<1>2. (8 * at) % (8 * a) = 0 /\ \A b \in Cursor..8 * at - 1 : b % (8 * a) # 0
  BY <1>1, OrdinaryFirst
<1>3. ASSUME NEW bit PROVE MayBegin(Len(laid) + 1, bit) <=> bit % (8 * a) = 0
  <2>1. decl[Len(laid) + 1].width = NoBits /\ MemberAlign(decl[Len(laid) + 1].type) = a
    BY <1>1 DEF Shape
  <2> QED
    BY <2>1 DEF MayBegin, NoBits
<1> QED
  BY <1>2, <1>3

LEMMA ParseTypeFit == Aligned /\ OrderInv /\ FitInv /\ ParseType => FitInv'
<1> SUFFICES ASSUME Aligned, OrderInv, FitInv, ParseType PROVE FitInv'
  OBVIOUS
<1> DEFINE at == IF IsStruct THEN Align(offset, MemberAlign(Shape.type)) ELSE 0
<1>1. /\ TypeOK /\ More /\ phase = "types" /\ offset \in Nat
      /\ laid' = Append(laid, Bytes(at, Shape)) /\ UNCHANGED <<decl, layout, phase>>
      /\ maxAlign' = Bigger(maxAlign, MemberAlign(Shape.type))
      /\ IsStruct => offset' = at + FieldSize(Shape)
  BY DEF ParseType, OrderInv, TypeOK
<1>2. maxAlign' > 0
  BY <1>1, RaiseFit
<1>3. CodeFit'
  BY <1>1 DEF CodeFit, Closed
<1>4. ASSUME IsStruct, ~HasBits
      PROVE  Cursor' = Begins(Len(laid) + 1)' /\ \A i \in DOMAIN laid' : Fitted(i)'
  <2>1. Cursor = 8 * offset /\ Cursor \in Nat /\ BitsToBytes(Cursor) = offset
    BY <1>1, <1>4 DEF Cursor, BitsToBytes
  <2>2. at \in Nat /\ at = Align(BitsToBytes(Cursor), MemberAlign(Shape.type))
    <3>1. PICK a \in Nat : a = MemberAlign(Shape.type)
      BY <1>1, MemberAligned
    <3>2. offset \in Nat /\ a \in Int
      BY <1>1
    <3>3. Align(offset, a) \in Nat
      BY <3>2, AlignUp
    <3> QED
      BY <1>4, <2>1, <3>1, <3>3
  <2> HIDE DEF at
  <2>3. Shape.width = NoBits
    <3>1. Len(laid) + 1 \in DOMAIN decl
      BY <1>1 DEF TypeOK, More
    <3> QED
      BY <1>4, <3>1 DEF HasBits, Shape
  <2>4. /\ MayBegin(Len(laid) + 1, 8 * at)
        /\ \A bit \in Cursor..8 * at - 1 : ~MayBegin(Len(laid) + 1, bit)
    BY <1>1, <2>1, <2>2, <2>3, OrdinaryFit
  <2>5. /\ Bytes(at, Shape) \in Field /\ From(Bytes(at, Shape)) = 8 * at
        /\ To(Bytes(at, Shape)) = 8 * (at + FieldSize(Shape))
    BY <1>1, <2>2, BytesField
  <2>6. Cursor = Begins(Len(laid) + 1) /\ \A i \in DOMAIN laid : Fitted(i)
    BY <1>1, <1>4 DEF FitInv
  <2>7. Begins(Len(laid) + 1)' = To(Bytes(at, Shape)) /\ \A i \in DOMAIN laid' : Fitted(i)'
    BY <1>1, <2>4, <2>5, <2>6, PlacedFit
  <2>8. Cursor' = 8 * (at + FieldSize(Shape))
    BY <1>1, <1>4 DEF Cursor, IsStruct
  <2> QED
    BY <2>5, <2>7, <2>8
<1>5. (IsStruct' <=> IsStruct) /\ (HasBits' <=> HasBits)
  BY <1>1 DEF IsStruct, HasBits
<1> QED
  BY <1>1, <1>2, <1>3, <1>4, <1>5 DEF FitInv

LEMMA LayOrdinaryFit == Aligned /\ OrderInv /\ FitInv /\ LayOrdinary => FitInv'
<1> SUFFICES ASSUME Aligned, OrderInv, FitInv, LayOrdinary PROVE FitInv'
  OBVIOUS
<1> DEFINE at == IF IsStruct THEN Align(BitsToBytes(bitpos), MemberAlign(Shape.type)) ELSE 0
<1>1. /\ TypeOK /\ More /\ phase = "bits" /\ bitpos \in Nat /\ Shape.width = NoBits
      /\ laid' = Append(laid, Bytes(at, Shape)) /\ UNCHANGED <<decl, layout, phase>>
      /\ maxAlign' = Bigger(maxAlign, MemberAlign(Shape.type))
      /\ IsStruct => bitpos' = 8 * (at + FieldSize(Shape))
  BY DEF LayOrdinary, OrderInv, TypeOK, Raise
<1>2. maxAlign' > 0
  BY <1>1, RaiseFit
<1>3. CodeFit'
  BY <1>1 DEF CodeFit, Closed
<1>4. ASSUME IsStruct
      PROVE  Cursor' = Begins(Len(laid) + 1)' /\ \A i \in DOMAIN laid' : Fitted(i)'
  <2>1. Cursor = bitpos /\ Cursor \in Nat
    BY <1>1, <1>4 DEF Cursor
  <2>2. at \in Nat /\ at = Align(BitsToBytes(Cursor), MemberAlign(Shape.type))
    <3>1. PICK a \in Nat, b \in Nat : a = MemberAlign(Shape.type) /\ b = BitsToBytes(bitpos)
      BY <1>1, MemberAligned, BytesUp
    <3>2. a \in Int
      OBVIOUS
    <3>3. Align(b, a) \in Nat
      BY <3>2, AlignUp
    <3> QED
      BY <1>4, <2>1, <3>1, <3>3
  <2> HIDE DEF at
  <2>3. /\ MayBegin(Len(laid) + 1, 8 * at)
        /\ \A bit \in Cursor..8 * at - 1 : ~MayBegin(Len(laid) + 1, bit)
    BY <1>1, <2>1, <2>2, OrdinaryFit
  <2>4. /\ Bytes(at, Shape) \in Field /\ From(Bytes(at, Shape)) = 8 * at
        /\ To(Bytes(at, Shape)) = 8 * (at + FieldSize(Shape))
    BY <1>1, <2>2, BytesField
  <2>5. Cursor = Begins(Len(laid) + 1) /\ \A i \in DOMAIN laid : Fitted(i)
    BY <1>1, <1>4 DEF FitInv
  <2>6. Begins(Len(laid) + 1)' = To(Bytes(at, Shape)) /\ \A i \in DOMAIN laid' : Fitted(i)'
    BY <1>1, <2>3, <2>4, <2>5, PlacedFit
  <2>7. Cursor' = 8 * (at + FieldSize(Shape))
    BY <1>1, <1>4 DEF Cursor, IsStruct
  <2> QED
    BY <2>4, <2>6, <2>7
<1>5. IsStruct' <=> IsStruct
  BY <1>1 DEF IsStruct
<1> QED
  BY <1>1, <1>2, <1>3, <1>4, <1>5 DEF FitInv

\* The unit of a valid bitfield has bits.
LEMMA UnitPositive ==
  ASSUME TypeOK, More, Valid(Shape)
  PROVE  /\ SizeOf[Shape.type] \in Nat /\ SizeOf[Shape.type] > 0
         /\ UnitBits(Shape) = 8 * SizeOf[Shape.type]
         /\ UnitBits(Shape) \in Nat /\ UnitBits(Shape) > 0
<1>1. Shape.type \in BitTypes
  BY DEF Valid
<1>2. SizeOf[Shape.type] \in Nat /\ SizeOf[Shape.type] > 0
  BY <1>1, LayoutAssumption
<1> QED
  BY <1>2 DEF UnitBits

LEMMA LayZeroWidthFit == Aligned /\ OrderInv /\ FitInv /\ LayZeroWidth => FitInv'
<1> SUFFICES ASSUME Aligned, OrderInv, FitInv, LayZeroWidth PROVE FitInv'
  OBVIOUS
<1> DEFINE end == IF IsStruct THEN Align(bitpos, UnitBits(Shape)) ELSE bitpos
           at  == IF IsStruct THEN BitsToBytes(end) ELSE 0
           field == [offset |-> at, bit |-> NoBits, bits |-> 0, unit |-> 0]
<1>1. /\ TypeOK /\ More /\ phase = "bits" /\ bitpos \in Nat /\ Shape.width = 0 /\ Valid(Shape)
      /\ laid' = Append(laid, field) /\ UNCHANGED <<decl, layout, phase>>
      /\ maxAlign' = Bigger(maxAlign, MemberAlign(Shape.type)) /\ bitpos' = end
  BY DEF LayZeroWidth, OrderInv, TypeOK, Raise
<1>2. maxAlign' > 0
  BY <1>1, RaiseFit
<1>3. CodeFit'
  BY <1>1 DEF CodeFit, Closed
<1>4. ASSUME IsStruct
      PROVE  Cursor' = Begins(Len(laid) + 1)' /\ \A i \in DOMAIN laid' : Fitted(i)'
  <2>1. Cursor = bitpos /\ Cursor' = end
    BY <1>1, <1>4 DEF Cursor, IsStruct
  <2>2. PICK s \in Nat, u \in Nat : s = SizeOf[Shape.type] /\ s > 0 /\ u = 8 * s
                                    /\ u = UnitBits(Shape) /\ u > 0
    BY <1>1, UnitPositive
  <2>3. end \in Nat /\ end % u = 0 /\ \A b \in bitpos..end - 1 : b % u # 0
    <3>1. /\ Align(bitpos, u) \in Nat /\ Align(bitpos, u) % u = 0
          /\ \A b \in bitpos..Align(bitpos, u) - 1 : b % u # 0
      BY <1>1, <2>2, AlignFirst
    <3> QED
      BY <1>4, <2>2, <3>1
  <2>4. at \in Nat /\ 8 * at = end
    <3>1. 8 * BitsToBytes(Align(bitpos, 8 * s)) = Align(bitpos, 8 * s)
      BY <1>1, <2>2, AlignedOnByte
    <3>2. end = Align(bitpos, 8 * s)
      BY <1>4, <2>2
    <3>3. BitsToBytes(end) \in Nat
      BY <2>3, BytesUp
    <3> QED
      BY <1>4, <3>1, <3>2, <3>3
  <2> HIDE DEF at, end
  <2>5. field \in Field /\ From(field) = end /\ To(field) = end
    BY <2>4 DEF Field, From, To, NoBits
  <2> HIDE DEF field
  <2>6. ASSUME NEW bit PROVE MayBegin(Len(laid) + 1, bit) <=> bit % u = 0
    <3>1. decl[Len(laid) + 1].width = 0 /\ UnitBits(decl[Len(laid) + 1]) = u
      BY <1>1, <2>2 DEF Shape
    <3> QED
      BY <3>1 DEF MayBegin, NoBits
  <2>7. /\ MayBegin(Len(laid) + 1, From(field))
        /\ \A bit \in Cursor..From(field) - 1 : ~MayBegin(Len(laid) + 1, bit)
    BY <2>1, <2>3, <2>5, <2>6
  <2>8. Cursor = Begins(Len(laid) + 1) /\ \A i \in DOMAIN laid : Fitted(i)
    BY <1>1, <1>4 DEF FitInv
  <2>9. Begins(Len(laid) + 1)' = To(field) /\ \A i \in DOMAIN laid' : Fitted(i)'
    BY <1>1, <2>5, <2>7, <2>8, PlacedFit
  <2> QED
    BY <2>1, <2>5, <2>9
<1>5. IsStruct' <=> IsStruct
  BY <1>1 DEF IsStruct
<1> QED
  BY <1>1, <1>2, <1>3, <1>4, <1>5 DEF FitInv

LEMMA LayBitsFit == Aligned /\ OrderInv /\ FitInv /\ LayBits => FitInv'
<1> SUFFICES ASSUME Aligned, OrderInv, FitInv, LayBits PROVE FitInv'
  OBVIOUS
<1> DEFINE first == IF IsStruct THEN FirstBit(Shape) ELSE 0
           unit  == (first \div UnitBits(Shape)) * SizeOf[Shape.type]
           field == [offset |-> first \div 8, bit |-> first, bits |-> Shape.width, unit |-> unit]
<1>1. /\ TypeOK /\ TypeOK' /\ More /\ phase = "bits" /\ bitpos \in Nat
      /\ Shape.width > 0 /\ Valid(Shape)
      /\ laid' = Append(laid, field) /\ UNCHANGED <<decl, layout, phase>>
      /\ maxAlign' = Bigger(maxAlign, MemberAlign(Shape.type))
      /\ IsStruct => bitpos' = first + Shape.width
  BY LayBitsKeeps DEF LayBits, OrderInv, TypeOK, Raise
<1>2. maxAlign' > 0
  BY <1>1, RaiseFit
<1>3. CodeFit'
  BY <1>1 DEF CodeFit, Closed
<1>4. ASSUME IsStruct
      PROVE  Cursor' = Begins(Len(laid) + 1)' /\ \A i \in DOMAIN laid' : Fitted(i)'
  <2>1. Cursor = bitpos /\ Cursor' = first + Shape.width
    BY <1>1, <1>4 DEF Cursor, IsStruct
  <2>2. PICK u \in Nat : u = UnitBits(Shape) /\ u > 0
    BY <1>1, UnitPositive
  <2>3. PICK w \in Nat : w = Shape.width /\ w > 0 /\ w <= u
    BY <1>1, <2>2, ShapeFacts DEF Valid, NoBits
  <2>4. /\ first \in Nat
        /\ first \div u = (first + w - 1) \div u
        /\ \A b \in bitpos..first - 1 : b \div u # (b + w - 1) \div u
    <3>1. first = IF (bitpos % u) + w > u THEN Align(bitpos, u) ELSE bitpos
      BY <1>4, <2>2, <2>3 DEF FirstBit
    <3> HIDE DEF first
    <3>2. PICK pos \in Nat : pos = bitpos
      BY <1>1
    <3>3. CASE (pos % u) + w > u
      <4>1. first = Align(pos, u)
        BY <3>1, <3>2, <3>3
      <4>2. /\ Align(pos, u) \in Nat
            /\ Align(pos, u) \div u = (Align(pos, u) + w - 1) \div u
            /\ \A b \in pos..Align(pos, u) - 1 : b \div u # (b + w - 1) \div u
        BY <2>3, <3>3, BitsMoved, Zenon
      <4> QED
        BY <3>2, <4>1, <4>2, Zenon
    <3>4. CASE ~((pos % u) + w > u)
      <4>1. first = pos
        BY <3>1, <3>2, <3>4
      <4>2. (pos % u) + w <= u
        BY <2>2, <2>3, <3>4
      <4>3. pos \div u = (pos + w - 1) \div u
        BY <2>3, <4>2, BitsFirst, ZenonT(40)
      <4>4. pos..pos - 1 = {}
        OBVIOUS
      <4> QED
        BY <3>2, <4>1, <4>3, <4>4
    <3> QED
      BY <3>3, <3>4
  <2> HIDE DEF first, unit
  <2>5. From(field) = first /\ To(field) = first + w
    <3>1. first # NoBits
      BY <2>4 DEF NoBits
    <3> QED
      BY <2>3, <3>1 DEF From, To
  <2> HIDE DEF field
  <2>6. field \in Field
    <3>1. laid \in Seq(Field) /\ laid' \in Seq(Field)
      BY <1>1 DEF TypeOK
    <3>2. Len(laid) + 1 \in 1..Len(laid') /\ laid'[Len(laid) + 1] = field
      BY <1>1, <3>1
    <3> QED
      BY <3>1, <3>2
  <2>7. ASSUME NEW bit
        PROVE  MayBegin(Len(laid) + 1, bit) <=> bit \div u = (bit + w - 1) \div u
    <3>1. /\ decl[Len(laid) + 1].width = w /\ UnitBits(decl[Len(laid) + 1]) = u
      BY <2>2, <2>3 DEF Shape
    <3> QED
      BY <2>3, <3>1 DEF MayBegin, NoBits
  <2>8. /\ MayBegin(Len(laid) + 1, From(field))
        /\ \A bit \in Cursor..From(field) - 1 : ~MayBegin(Len(laid) + 1, bit)
    BY <2>1, <2>4, <2>5, <2>7
  <2>9. Cursor = Begins(Len(laid) + 1) /\ \A i \in DOMAIN laid : Fitted(i)
    BY <1>1, <1>4 DEF FitInv
  <2>10. Begins(Len(laid) + 1)' = To(field) /\ \A i \in DOMAIN laid' : Fitted(i)'
    BY <1>1, <2>6, <2>8, <2>9, PlacedFit
  <2> QED
    BY <2>1, <2>3, <2>5, <2>10
<1>5. IsStruct' <=> IsStruct
  BY <1>1 DEF IsStruct
<1> QED
  BY <1>1, <1>2, <1>3, <1>4, <1>5 DEF FitInv

\* The two ends: the loop that is kept has fitted every field.
LEMMA CloseFit ==
  ASSUME OrderInv, FitInv, NEW end \in Nat, Close(end),
         IsStruct => /\ Cursor = Begins(Len(laid) + 1) /\ \A i \in DOMAIN laid : Fitted(i)
                     /\ Cursor \in Nat /\ 8 * end >= Cursor /\ 8 * end <= Cursor + 7
  PROVE  FitInv'
<1>1. /\ phase' = "closed" /\ UNCHANGED <<decl, layout, laid, maxAlign>>
      /\ IsStruct => size' = Align(end, FinalAlign)
  BY DEF Close
<1>2. maxAlign' > 0
  BY <1>1 DEF FitInv
<1>3. ASSUME IsStruct
      PROVE  /\ \A i \in DOMAIN laid' : Fitted(i)'
             /\ size' % FinalAlign' = 0
             /\ 8 * size' - Begins(Len(laid) + 1)' \in 0..8 * FinalAlign' - 1
  <2>1. Begins(Len(laid) + 1)' = Cursor
    BY <1>1, <1>3 DEF Begins
  <2>2. PICK f \in Nat : f = FinalAlign /\ f > 0
    <3>1. maxAlign \in Nat /\ maxAlign > 0 /\ layout.align \in Nat
      BY LayoutAssumption DEF FitInv, OrderInv, TypeOK
    <3> QED
      BY <3>1 DEF FinalAlign, Bigger
  <2>3. FinalAlign' = f
    BY <1>1, <2>2 DEF FinalAlign
  <2>4. PICK c \in Nat : c = Cursor
    BY <1>3
  <2>5. Align(end, f) % f = 0 /\ 8 * Align(end, f) - c \in 0..8 * f - 1
    <3>1. 8 * end >= c /\ 8 * end <= c + 7
      BY <1>3, <2>4
    <3> QED
      BY <2>2, <3>1, SizeFirst
  <2>6. \A i \in DOMAIN laid' : Fitted(i)'
    BY <1>1, <1>3 DEF Fitted, Begins, MayBegin, MemberAlign, UnitBits
  <2> QED
    BY <1>1, <1>3, <2>1, <2>2, <2>3, <2>4, <2>5, <2>6
<1>4. IsStruct' <=> IsStruct
  BY <1>1 DEF IsStruct
<1> QED
  BY <1>1, <1>2, <1>3, <1>4 DEF FitInv, CodeFit, EndsAligned, Closed

LEMMA ParsedPlainFit == OrderInv /\ FitInv /\ ParsedPlain => FitInv'
<1> SUFFICES ASSUME OrderInv, FitInv, ParsedPlain PROVE FitInv'
  OBVIOUS
<1>1. offset \in Nat /\ phase = "types" /\ ~HasBits /\ Close(offset)
  BY DEF OrderInv, TypeOK, ParsedPlain
<1>2. IsStruct => Cursor = Begins(Len(laid) + 1) /\ \A i \in DOMAIN laid : Fitted(i)
  BY <1>1 DEF FitInv
<1>3. IsStruct => Cursor = 8 * offset
  BY <1>1 DEF Cursor
<1> QED
  BY <1>1, <1>2, <1>3, CloseFit

LEMMA LaidBitsFit == OrderInv /\ FitInv /\ LaidBits => FitInv'
<1> SUFFICES ASSUME OrderInv, FitInv, LaidBits PROVE FitInv'
  OBVIOUS
<1>1. bitpos \in Nat /\ phase = "bits" /\ Close(BitsToBytes(bitpos))
  BY DEF OrderInv, TypeOK, LaidBits
<1>2. PICK end \in Nat : end = BitsToBytes(bitpos) /\ 8 * end >= bitpos /\ 8 * end <= bitpos + 7
  BY <1>1, BytesUp DEF BitsToBytes
<1>3. IsStruct => Cursor = Begins(Len(laid) + 1) /\ \A i \in DOMAIN laid : Fitted(i)
  BY <1>1 DEF FitInv
<1>4. IsStruct => Cursor = bitpos
  BY <1>1 DEF Cursor
<1> QED
  BY <1>1, <1>2, <1>3, <1>4, CloseFit

LEMMA ParsedBitsFit == FitInv /\ ParsedBits => FitInv'
<1> SUFFICES ASSUME FitInv, ParsedBits PROVE FitInv'
  OBVIOUS
<1>1. phase' = "bits" /\ laid' = << >> /\ bitpos' = 0 /\ maxAlign' = 1
  BY DEF ParsedBits
<1>2. DOMAIN laid' = {} /\ Len(laid') = 0
  BY <1>1
<1>3. Begins(Len(laid) + 1)' = 0
  BY <1>2 DEF Begins
<1>4. IsStruct' => Cursor' = 0
  BY <1>1 DEF Cursor
<1> QED
  BY <1>1, <1>2, <1>3, <1>4 DEF FitInv, CodeFit, Closed

\* A refusal ends the loop; what is done to an object does not change its type.
LEMMA OtherFit ==
  ASSUME FitInv, UNCHANGED <<decl, layout, laid, offset, bitpos, maxAlign, size>>,
         phase' = phase \/ phase' = "refused"
  PROVE  FitInv'
<1>1. /\ Begins(Len(laid) + 1)' = Begins(Len(laid) + 1)
      /\ (\A i \in DOMAIN laid' : Fitted(i)') <=> (\A i \in DOMAIN laid : Fitted(i))
  BY DEF Fitted, Begins, MayBegin, MemberAlign, UnitBits
<1>2. /\ IsStruct' <=> IsStruct /\ (HasBits' <=> HasBits) /\ FinalAlign' = FinalAlign
      /\ IsStruct /\ phase' = phase /\ phase # "closed" => Cursor' = Cursor
  BY DEF IsStruct, HasBits, FinalAlign, Cursor
<1>3. CodeFit'
  BY <1>1, <1>2 DEF FitInv, CodeFit, Closed, EndsAligned
<1> QED
  BY <1>1, <1>2, <1>3 DEF FitInv

LEMMA InitFit == Init => FitInv
<1> SUFFICES ASSUME Init PROVE FitInv
  OBVIOUS
<1>1. /\ phase = "types" /\ laid = << >> /\ offset = 0 /\ maxAlign = 1
      /\ DOMAIN laid = {} /\ Len(laid) = 0
  BY DEF Init
<1>2. Begins(Len(laid) + 1) = 0 /\ (IsStruct => Cursor = 0)
  BY <1>1 DEF Begins, Cursor
<1> QED
  BY <1>1, <1>2 DEF FitInv, CodeFit, Closed

\* max_align is the alignment of the strictest field placed so far.
StrictInv ==
  /\ maxAlign > 0 /\ Strictest(maxAlign, DOMAIN laid)
  /\ Closed => DOMAIN laid = DOMAIN decl

\* One more field has been placed, by either loop.
LEMMA PlacedStrict ==
  ASSUME Aligned, TypeOK, More, ~Closed, StrictInv, NEW field,
         laid' = Append(laid, field), maxAlign' = Bigger(maxAlign, MemberAlign(Shape.type)),
         UNCHANGED <<decl, layout, phase>>
  PROVE  StrictInv'
<1>1. PICK n \in Nat : n = Len(laid) + 1 /\ laid \in Seq(Field)
  BY DEF TypeOK
<1>2. DOMAIN laid = 1..n - 1 /\ DOMAIN laid' = 1..n
  BY <1>1
<1>3. Shape = decl[n] /\ \A i \in DOMAIN laid' : MemberAlign(decl[i].type)' = MemberAlign(decl[i].type)
  BY <1>1 DEF Shape, MemberAlign
<1>4. PICK a \in Nat : a = MemberAlign(Shape.type) /\ a > 0
  BY MemberAligned
<1>5. \A i \in DOMAIN laid : MemberAlign(decl[i].type) \in Nat
  <2> TAKE i \in DOMAIN laid
  <2>1. i \in DOMAIN decl /\ decl[i] \in Shapes /\ layout \in Layouts
    BY <1>1, <1>2 DEF TypeOK, More
  <2>2. AlignOf[decl[i].type] \in Nat /\ layout.pack \in Nat
    BY <2>1, LayoutAssumption
  <2> QED
    BY <2>2 DEF MemberAlign
<1>6. maxAlign \in Nat /\ maxAlign > 0 /\ Strictest(maxAlign, 1..n - 1)
  BY <1>2 DEF StrictInv, TypeOK
<1>7. maxAlign' \in Nat /\ maxAlign' >= maxAlign /\ maxAlign' >= a /\ maxAlign' \in {maxAlign, a}
  BY <1>4, <1>6 DEF Bigger
<1>8. \A i \in 1..n : MemberAlign(decl[i].type)' <= maxAlign'
  <2> SUFFICES ASSUME NEW i \in 1..n PROVE MemberAlign(decl[i].type) <= maxAlign'
    BY <1>2, <1>3
  <2>1. CASE i = n
    BY <2>1, <1>3, <1>4, <1>7
  <2>2. CASE i \in 1..n - 1
    BY <2>2, <1>2, <1>5, <1>6, <1>7 DEF Strictest
  <2> QED
    BY <2>1, <2>2
<1>9. maxAlign' = 1 \/ \E i \in 1..n : MemberAlign(decl[i].type)' = maxAlign'
  <2>1. CASE maxAlign' = a
    BY <2>1, <1>2, <1>3, <1>4
  <2>2. CASE maxAlign' = maxAlign
    BY <2>2, <1>2, <1>3, <1>6 DEF Strictest
  <2> QED
    BY <2>1, <2>2, <1>7
<1> QED
  BY <1>2, <1>6, <1>7, <1>8, <1>9 DEF StrictInv, Strictest, Closed

\* Steps that place no field.
LEMMA OtherStrict ==
  ASSUME StrictInv, UNCHANGED <<decl, layout, laid, maxAlign>>,
         Closed' => Closed \/ DOMAIN laid = DOMAIN decl
  PROVE  StrictInv'
  BY DEF StrictInv, Strictest, MemberAlign

LEMMA EndStrict ==
  ASSUME TypeOK, StrictInv, ~More, NEW end, Close(end)
  PROVE  StrictInv'
<1>1. DOMAIN laid = DOMAIN decl
  BY DEF TypeOK, More
<1> QED
  BY <1>1, OtherStrict DEF Close

LEMMA StrictHolds == Aligned /\ OrderInv /\ StrictInv /\ [Next]_vars => StrictInv'
<1> SUFFICES ASSUME Aligned, TypeOK, StrictInv, [Next]_vars PROVE StrictInv'
  BY DEF OrderInv
<1>1. CASE ParseType
  BY <1>1, PlacedStrict DEF ParseType, Closed
<1>2. CASE LayOrdinary \/ LayZeroWidth \/ LayBits
  <2>1. CASE LayOrdinary
    BY <2>1, PlacedStrict DEF LayOrdinary, Raise, Closed
  <2>2. CASE LayZeroWidth
    BY <2>2, PlacedStrict DEF LayZeroWidth, Raise, Closed
  <2>3. CASE LayBits
    BY <2>3, PlacedStrict DEF LayBits, Raise, Closed
  <2> QED
    BY <1>2, <2>1, <2>2, <2>3
<1>3. CASE ParsedBits
  BY <1>3 DEF ParsedBits, StrictInv, Strictest, Closed
<1>4. CASE ParsedPlain
  BY <1>4, EndStrict DEF ParsedPlain
<1>5. CASE LaidBits
  BY <1>5, EndStrict DEF LaidBits
<1>6. CASE Refuse
  BY <1>6, OtherStrict DEF Refuse, Closed
<1>7. CASE UNCHANGED vars
  BY <1>7, OtherStrict DEF vars, Closed
<1>8. ASSUME NEW i \in DOMAIN laid, NEW value \in Values,
             Store(i, value) \/ StoreUndefined(i, value) \/ StoreAggregate(i, value)
      PROVE  StrictInv'
  BY <1>8, OtherStrict DEF Store, StoreUndefined, StoreAggregate, Unmoved, Closed
<1> QED
  BY <1>1, <1>2, <1>3, <1>4, <1>5, <1>6, <1>7, <1>8 DEF Next

\* There is one alignment of the strictest field.
LEMMA OneStrictest ==
  ASSUME Aligned, TypeOK, Closed, StrictInv, NEW a \in MemberAlignments, Strictest(a, DOMAIN decl)
  PROVE  a = maxAlign
<1>1. \A type \in Types : MemberAlign(type) \in Nat /\ MemberAlign(type) > 0
  <2> TAKE type \in Types
  <2>1. AlignOf[type] \in Nat /\ AlignOf[type] > 0 /\ layout.pack \in Nat
    BY LayoutAssumption DEF TypeOK, Aligned
  <2> QED
    BY <2>1 DEF MemberAlign, NotGiven
<1>2. \A i \in DOMAIN decl : decl[i].type \in Types
  BY LayoutAssumption DEF TypeOK
<1>3. a \in Nat /\ a > 0
  BY <1>1 DEF MemberAlignments
<1>4. maxAlign \in Nat /\ maxAlign > 0 /\ Strictest(maxAlign, DOMAIN decl)
  BY DEF StrictInv, TypeOK
<1>5. \A i \in DOMAIN decl : MemberAlign(decl[i].type) \in Nat
  BY <1>1, <1>2
<1>6. a <= maxAlign
  BY <1>3, <1>4 DEF Strictest
<1>7. maxAlign <= a
  BY <1>3, <1>4 DEF Strictest
<1> QED
  BY <1>3, <1>4, <1>6, <1>7

\* Both loops begin every field of a struct at the first place that suits it, and pad
\* the end to the alignment of the strictest field, no further.
THEOREM LaidOutFirstFit == Aligned => (Spec => []FirstFit)
<1> SUFFICES ASSUME Aligned PROVE Spec => []FirstFit
  OBVIOUS
<1> DEFINE Inv == OrderInv /\ FitInv /\ StrictInv
<1>1. Init => Inv
  <2>1. Init => StrictInv
    BY DEF Init, StrictInv, Strictest, Closed
  <2> QED
    BY <2>1, InitOrder, InitFit
<1>2. Inv /\ [Next]_vars => Inv'
  <2> SUFFICES ASSUME OrderInv, FitInv, [Next]_vars PROVE FitInv'
    BY NextKeeps, StrictHolds
  <2>1. CASE Refuse
    BY <2>1, OtherFit DEF Refuse
  <2>2. CASE UNCHANGED vars
    BY <2>2, OtherFit DEF vars
  <2>3. ASSUME NEW i \in DOMAIN laid, NEW value \in Values,
               Store(i, value) \/ StoreUndefined(i, value) \/ StoreAggregate(i, value)
        PROVE  FitInv'
    BY <2>3, OtherFit DEF Store, StoreUndefined, StoreAggregate, Unmoved
  <2> QED
    BY <2>1, <2>2, <2>3, ParseTypeFit, ParsedPlainFit, ParsedBitsFit, LayOrdinaryFit,
       LayZeroWidthFit, LayBitsFit, LaidBitsFit DEF Next
<1>3. Inv => FirstFit
  <2> SUFFICES ASSUME OrderInv, FitInv, StrictInv, Closed, IsStruct
               PROVE  /\ \A i \in DOMAIN laid : Fitted(i)
                      /\ \A a \in MemberAlignments :
                           Strictest(a, DOMAIN decl) => EndsAligned(Raised(a))
    BY DEF FirstFit
  <2>1. (\A i \in DOMAIN laid : Fitted(i)) /\ EndsAligned(Raised(maxAlign))
    BY DEF FitInv, CodeFit, FinalAlign, Raised
  <2> QED
    BY <2>1, OneStrictest DEF OrderInv
<1> QED
  BY <1>1, <1>2, <1>3, PTL DEF Spec

-----------------------------------------------------------------------------
(* Powers of two: they exist, and a lower one divides a higher one.          *)

LEMMA FirstPlace ==
  ASSUME NEW U, U \subseteq Nat, U # {}
  PROVE  \E k \in U : \A m \in U : k <= m
<1>1. PICK k \in U : \A m \in U : ~(<<m, k>> \in OpToRel(<, Nat))
  BY NatLessThanWellFounded, WFMin, Zenon
<1>2. \A m \in U : ~(m < k)
  BY <1>1 DEF OpToRel
<1> QED
  BY <1>2

\* The powers up to the n-th.
Powers(n, f) ==
  /\ f \in [0..n -> Nat]
  /\ \A k \in 0..n : f[k] = IF k = 0 THEN 1 ELSE 2 * f[k - 1]

LEMMA PowersExist == ASSUME NEW n \in Nat PROVE \E f : Powers(n, f)
<1> DEFINE U == {k \in Nat : ~\E f : Powers(k, f)}
<1>1. SUFFICES ASSUME U # {} PROVE FALSE
  OBVIOUS
<1>2. PICK m \in U : \A k \in U : m <= k
  BY <1>1, FirstPlace
<1>3. CASE m = 0
  <2> DEFINE f == [k \in 0..m |-> 1]
  <2>1. Powers(m, f)
    BY <1>3 DEF Powers
  <2> QED
    BY <1>2, <2>1
<1>4. CASE m # 0
  <2>1. m \in Nat /\ m - 1 \in Nat /\ m - 1 < m
    BY <1>4
  <2>2. PICK f : Powers(m - 1, f)
    BY <1>2, <2>1
  <2>3. /\ f \in [0..m - 1 -> Nat]
        /\ \A k \in 0..m - 1 : f[k] = IF k = 0 THEN 1 ELSE 2 * f[k - 1]
    BY <2>2 DEF Powers
  <2> DEFINE g == [k \in 0..m |-> IF k = m THEN 2 * f[m - 1] ELSE f[k]]
  <2>4. g \in [0..m -> Nat]
    BY <2>1, <2>3
  <2>5. g[m] = 2 * f[m - 1] /\ \A k \in 0..m - 1 : g[k] = f[k]
    BY <2>1
  <2> HIDE DEF g
  <2>6. ASSUME NEW k \in 0..m PROVE g[k] = IF k = 0 THEN 1 ELSE 2 * g[k - 1]
    <3>1. CASE k = m
      <4>1. m - 1 \in 0..m - 1
        BY <2>1
      <4> QED
        BY <1>4, <2>5, <3>1, <4>1
    <3>2. CASE k # m
      <4>1. k \in 0..m - 1 /\ (k # 0 => k - 1 \in 0..m - 1)
        BY <2>1, <3>2
      <4> QED
        BY <2>3, <2>5, <4>1
    <3> QED
      BY <3>1, <3>2
  <2>7. Powers(m, g)
    BY <2>4, <2>6 DEF Powers
  <2> QED
    BY <1>2, <2>7
<1> QED
  BY <1>3, <1>4

\* Where two of them are defined they agree.
LEMMA PowersAgree ==
  ASSUME NEW n \in Nat, NEW m \in Nat, NEW f, NEW g, Powers(n, f), Powers(m, g), n <= m,
         NEW k \in 0..n
  PROVE  f[k] = g[k]
<1> DEFINE U == {j \in 0..n : f[j] # g[j]}
<1>1. SUFFICES ASSUME U # {} PROVE FALSE
  OBVIOUS
<1>2. PICK j \in U : \A i \in U : j <= i
  <2>1. U \subseteq Nat
    OBVIOUS
  <2> HIDE DEF U
  <2> QED
    BY <1>1, <2>1, FirstPlace
<1>3. /\ j \in 0..n /\ j \in 0..m /\ f[j] # g[j]
      /\ f[j] = (IF j = 0 THEN 1 ELSE 2 * f[j - 1]) /\ g[j] = (IF j = 0 THEN 1 ELSE 2 * g[j - 1])
  BY <1>2 DEF Powers
<1>4. CASE j = 0
  BY <1>3, <1>4
<1>5. CASE j # 0
  <2>1. j - 1 \in 0..n /\ ~(j <= j - 1)
    BY <1>3, <1>5
  <2>2. f[j - 1] = g[j - 1]
    BY <1>2, <2>1
  <2> QED
    BY <1>3, <1>5, <2>2
<1> QED
  BY <1>4, <1>5

LEMMA PowerStep ==
  /\ Power \in [Nat -> Nat] /\ Power[0] = 1
  /\ \A k \in Nat : Power[k + 1] = 2 * Power[k]
<1> DEFINE F(k) == CHOOSE f : Powers(k, f)
           p == [k \in Nat |-> F(k)[k]]
<1>1. ASSUME NEW k \in Nat PROVE Powers(k, F(k))
  BY PowersExist
<1> HIDE DEF F
<1>2. ASSUME NEW k \in Nat
      PROVE  p[k] \in Nat /\ p[k] = IF k = 0 THEN 1 ELSE 2 * p[k - 1]
  <2>1. /\ p[k] = F(k)[k] /\ F(k)[k] \in Nat
        /\ F(k)[k] = IF k = 0 THEN 1 ELSE 2 * F(k)[k - 1]
    BY <1>1 DEF Powers
  <2>2. CASE k = 0
    BY <2>1, <2>2
  <2>3. CASE k # 0
    <3>1. k - 1 \in Nat /\ k - 1 <= k /\ k - 1 \in 0..k - 1
      BY <2>3
    <3>2. Powers(k - 1, F(k - 1)) /\ Powers(k, F(k))
      BY <1>1, <3>1
    <3>3. F(k - 1)[k - 1] = F(k)[k - 1]
      BY <3>1, <3>2, PowersAgree
    <3> QED
      BY <2>1, <2>3, <3>1, <3>3
  <2> QED
    BY <2>2, <2>3
<1>3. p = [k \in Nat |-> p[k]]
  OBVIOUS
<1> HIDE DEF p
<1>4. p = [k \in Nat |-> IF k = 0 THEN 1 ELSE 2 * p[k - 1]]
  BY <1>2, <1>3
<1>5. Power = [k \in Nat |-> IF k = 0 THEN 1 ELSE 2 * Power[k - 1]]
  <2> DEFINE Step(f) == f = [k \in Nat |-> IF k = 0 THEN 1 ELSE 2 * f[k - 1]]
  <2>1. Power = CHOOSE f : Step(f)
    BY DEF Power
  <2>2. Step(p)
    BY <1>4
  <2> HIDE DEF Step
  <2>3. Step(Power)
    BY <2>1, <2>2
  <2> QED
    BY <2>3 DEF Step
<1>6. ASSUME NEW k \in Nat PROVE Power[k] = p[k]
  <2> DEFINE U == {j \in Nat : Power[j] # p[j]}
  <2>1. SUFFICES ASSUME U # {} PROVE FALSE
    OBVIOUS
  <2>2. PICK j \in U : \A i \in U : j <= i
    BY <2>1, FirstPlace
  <2>3. /\ j \in Nat /\ Power[j] # p[j]
        /\ Power[j] = IF j = 0 THEN 1 ELSE 2 * Power[j - 1]
        /\ p[j] = IF j = 0 THEN 1 ELSE 2 * p[j - 1]
    BY <1>2, <1>5, <2>2
  <2>4. j # 0 => j - 1 \in Nat /\ ~(j <= j - 1)
    BY <2>3
  <2>5. j # 0 => Power[j - 1] = p[j - 1]
    BY <2>2, <2>4
  <2> QED
    BY <2>3, <2>5
<1>7. Power \in [Nat -> Nat]
  <2>1. DOMAIN Power = Nat /\ Power = [k \in Nat |-> Power[k]]
    BY <1>5
  <2> QED
    BY <1>2, <1>6, <2>1
<1>8. ASSUME NEW k \in Nat PROVE Power[k + 1] = 2 * Power[k]
  <2>1. k + 1 \in Nat /\ k + 1 # 0 /\ k + 1 - 1 = k
    OBVIOUS
  <2>2. Power[k + 1] = 2 * Power[k + 1 - 1]
    BY <1>5, <2>1
  <2> QED
    BY <2>1, <2>2
<1> QED
  BY <1>5, <1>7, <1>8

LEMMA PowerPositive == ASSUME NEW k \in Nat PROVE Power[k] \in Nat /\ Power[k] > 0
<1> DEFINE U == {j \in Nat : ~(Power[j] > 0)}
<1>1. Power[k] \in Nat
  BY PowerStep
<1>2. SUFFICES ASSUME U # {} PROVE FALSE
  BY <1>1
<1>3. PICK j \in U : \A i \in U : j <= i
  BY <1>2, FirstPlace
<1>4. j \in Nat /\ ~(Power[j] > 0) /\ j # 0
  BY <1>3, PowerStep
<1>5. j - 1 \in Nat /\ ~(j <= j - 1) /\ j - 1 + 1 = j
  BY <1>4
<1>6. Power[j - 1] > 0
  BY <1>3, <1>5
<1>7. Power[j] = 2 * Power[j - 1] /\ Power[j - 1] \in Nat
  <2>1. Power[j - 1 + 1] = 2 * Power[j - 1]
    BY <1>5, PowerStep
  <2> QED
    BY <1>5, <2>1, PowerStep
<1> QED
  BY <1>4, <1>6, <1>7

LEMMA PowerDivides ==
  ASSUME NEW w \in Nat, NEW k \in Nat, k <= w
  PROVE  \E c \in Nat : Power[w] = c * Power[k]
<1> DEFINE U == {v \in Nat : v >= k /\ ~\E c \in Nat : Power[v] = c * Power[k]}
<1>1. SUFFICES ASSUME U # {} PROVE FALSE
  OBVIOUS
<1>2. PICK v \in U : \A i \in U : v <= i
  BY <1>1, FirstPlace
<1>3. PICK p \in Nat : p = Power[k]
  BY PowerPositive
<1>4. v # k
  <2>1. p = 1 * p
    OBVIOUS
  <2> QED
    BY <1>2, <1>3, <2>1
<1>5. v - 1 \in Nat /\ v - 1 >= k /\ ~(v <= v - 1) /\ v - 1 + 1 = v
  BY <1>2, <1>4
<1>6. PICK c \in Nat : Power[v - 1] = c * p
  BY <1>2, <1>3, <1>5
<1>7. Power[v] = 2 * Power[v - 1]
  <2>1. Power[v - 1 + 1] = 2 * Power[v - 1]
    BY <1>5, PowerStep
  <2> QED
    BY <1>5, <2>1
<1>8. 2 * (c * p) = (2 * c) * p /\ 2 * c \in Nat
  OBVIOUS
<1>9. Power[v] = (2 * c) * p
  BY <1>6, <1>7, <1>8
<1> QED
  BY <1>2, <1>3, <1>8, <1>9

-----------------------------------------------------------------------------
(* The bits of a number.                                                     *)

BitOf(value, k) == (value \div Power[k]) % 2

LEMMA BitNumber ==
  ASSUME NEW value \in Int, NEW k \in Nat
  PROVE  Bit(value, k) = BitOf(value, k) /\ Bit(value, k) \in {0, 1}
<1>1. PICK p \in Nat : p = Power[k] /\ p > 0
  BY PowerPositive
<1>2. PICK q \in Int : q = value \div p
  BY <1>1, DivModInt
<1>3. q % 2 \in 0..1
  OBVIOUS
<1> QED
  BY <1>1, <1>2, <1>3 DEF Bit, BitOf

\* The lowest n bits of a number are those below and one more.
LEMMA OneBitMore ==
  ASSUME NEW value \in Int, NEW n \in Nat
  PROVE  value % Power[n + 1] = (value % Power[n]) + Bit(value, n) * Power[n]
<1>1. PICK p \in Nat : p = Power[n] /\ p > 0 /\ Power[n + 1] = 2 * p
  BY PowerPositive, PowerStep
<1>2. PICK q \in Int, r \in 0..p - 1 : q = value \div p /\ r = value % p /\ value = q * p + r
  BY <1>1, DivModInt
<1>3. PICK h \in Int, b \in {0, 1} : b = q % 2 /\ q = 2 * h + b
  <2>1. q % 2 \in 0..1 /\ q \div 2 \in Int /\ q = 2 * (q \div 2) + (q % 2)
    OBVIOUS
  <2> QED
    BY <2>1
<1>4. q * p = h * (2 * p) + b * p
  <2>1. (2 * h + 0) * p = h * (2 * p) /\ (2 * h + 1) * p = h * (2 * p) + p
    OBVIOUS
  <2> QED
    BY <1>3, <2>1
<1>5. b * p \in Nat /\ b * p + r \in 0..2 * p - 1 /\ h * (2 * p) \in Int
  <2>1. h * (2 * p) \in Int
    OBVIOUS
  <2>2. CASE b = 0
    BY <1>1, <2>1, <2>2
  <2>3. CASE b = 1
    BY <1>1, <2>1, <2>3
  <2> QED
    BY <2>2, <2>3
<1>6. value = h * (2 * p) + (b * p + r)
  BY <1>2, <1>4, <1>5
<1>7. value % (2 * p) = b * p + r
  <2>1. PICK t \in Nat : t = 2 * p /\ t > 0
    BY <1>1
  <2>2. PICK e \in 0..t - 1 : e = b * p + r
    BY <1>5, <2>1
  <2>3. (h * t + e) % t = e
    BY <2>1, MultipleOf
  <2> QED
    BY <1>6, <2>1, <2>2, <2>3
<1>8. Bit(value, n) = b
  BY <1>1, <1>2, <1>3, BitNumber DEF BitOf
<1> QED
  BY <1>1, <1>2, <1>5, <1>7, <1>8

\* A multiple of a higher power changes no lower bit.
LEMMA SameBits ==
  ASSUME NEW value \in Int, NEW m \in Int, NEW w \in Nat, NEW k \in 0..w - 1
  PROVE  Bit(value + m * Power[w], k) = Bit(value, k)
<1>1. PICK p \in Nat : p = Power[k] /\ p > 0 /\ Power[k + 1] = 2 * p
  BY PowerPositive, PowerStep
<1>2. PICK c \in Nat : Power[w] = c * (2 * p)
  <2>1. PICK j \in Nat : j = k + 1 /\ j <= w
    OBVIOUS
  <2>2. PICK c \in Nat : Power[w] = c * Power[j]
    BY <2>1, PowerDivides
  <2>3. Power[j] = 2 * p
    BY <1>1, <2>1
  <2> QED
    BY <2>2, <2>3
<1>3. PICK q \in Int, r \in 0..p - 1 : q = value \div p /\ value = q * p + r
  BY <1>1, DivModInt
<1>4. PICK x \in Int : x = m * c
  OBVIOUS
<1>5. m * Power[w] = (2 * x) * p
  <2>1. m * (c * (2 * p)) = (2 * (m * c)) * p
    OBVIOUS
  <2> QED
    BY <1>2, <1>4, <2>1
<1>6. value + m * Power[w] = (q + 2 * x) * p + r
  <2>1. (q + 2 * x) * p = q * p + (2 * x) * p
    OBVIOUS
  <2>2. q * p \in Int /\ (2 * x) * p \in Int
    OBVIOUS
  <2> QED
    BY <1>3, <1>5, <2>1, <2>2
<1>7. (value + m * Power[w]) \div p = q + 2 * x
  <2>1. q + 2 * x \in Int
    OBVIOUS
  <2>2. ((q + 2 * x) * p + r) \div p = q + 2 * x
    BY <1>1, <2>1, MultipleOf
  <2> QED
    BY <1>6, <2>2
<1>8. (q + 2 * x) % 2 = q % 2
  OBVIOUS
<1> QED
  BY <1>1, <1>3, <1>7, <1>8 DEF Bit

LEMMA ZeroBits == ASSUME NEW k \in Nat PROVE Bit(0, k) = 0
<1>1. PICK p \in Nat : p = Power[k] /\ p > 0
  BY PowerPositive
<1>2. 0 \div p = 0
  <2>1. 0 \in 0..p - 1 /\ 0 * p + 0 = 0
    BY <1>1
  <2>2. (0 * p + 0) \div p = 0
    BY <1>1, <2>1, MultipleOf
  <2> QED
    BY <2>1, <2>2
<1> QED
  BY <1>1, <1>2 DEF Bit

\* Decoded() adds up the bits it finds.
LEMMA DecodedSum ==
  ASSUME NEW value \in Int, NEW bits, NEW first \in Int, NEW w \in Nat, NEW signed,
         \A n \in 0..w - 1 : bits[first + n] = Bit(value, n)
  PROVE  Decoded(bits, first, w, signed) =
           IF signed /\ w > 0 /\ bits[first + w - 1] = 1
           THEN (value % Power[w]) - Power[w] ELSE value % Power[w]
<1> DEFINE Step(f) == f = [n \in 0..w |-> IF n = 0 THEN 0
                                          ELSE f[n - 1] + bits[first + n - 1] * Power[n - 1]]
           sum == CHOOSE f : Step(f)
           low == [n \in 0..w |-> value % Power[n]]
<1>1. Decoded(bits, first, w, signed) =
        IF signed /\ w > 0 /\ bits[first + w - 1] = 1 THEN sum[w] - Power[w] ELSE sum[w]
  BY DEF Decoded
<1>2. ASSUME NEW n \in 0..w
      PROVE  value % Power[n] = IF n = 0 THEN 0
                                ELSE (value % Power[n - 1]) + bits[first + n - 1] * Power[n - 1]
  <2>1. CASE n = 0
    <3>1. value % 1 = 0
      OBVIOUS
    <3> QED
      BY <2>1, <3>1, PowerStep
  <2>2. CASE n # 0
    <3>1. PICK k \in 0..w - 1 : k = n - 1 /\ n = k + 1
      BY <2>2
    <3>2. value % Power[k + 1] = (value % Power[k]) + Bit(value, k) * Power[k]
      BY OneBitMore
    <3>3. bits[first + n - 1] = Bit(value, k)
      <4>1. first + n - 1 = first + k
        BY <3>1
      <4> QED
        BY <4>1
    <3> QED
      BY <2>2, <3>1, <3>2, <3>3
  <2> QED
    BY <2>1, <2>2
<1>3. Step(low)
  <2>1. \A n \in 0..w : low[n] = IF n = 0 THEN 0
                                 ELSE low[n - 1] + bits[first + n - 1] * Power[n - 1]
    <3> SUFFICES ASSUME NEW n \in 0..w
                 PROVE  low[n] = IF n = 0 THEN 0
                                 ELSE low[n - 1] + bits[first + n - 1] * Power[n - 1]
      OBVIOUS
    <3>1. low[n] = value % Power[n] /\ (n # 0 => low[n - 1] = value % Power[n - 1])
      OBVIOUS
    <3> HIDE DEF low
    <3> QED
      BY <1>2, <3>1
  <2>2. low = [n \in 0..w |-> low[n]]
    OBVIOUS
  <2> HIDE DEF low
  <2> QED
    BY <2>1, <2>2
<1>4. \A n \in 0..w : low[n] = value % Power[n]
  OBVIOUS
<1> HIDE DEF low, Step
<1>5. Step(sum)
  BY <1>3
<1> HIDE DEF sum
<1>6. ASSUME NEW n \in 0..w PROVE sum[n] = low[n]
  <2> DEFINE U == {j \in 0..w : sum[j] # low[j]}
  <2>1. SUFFICES ASSUME U # {} PROVE FALSE
    OBVIOUS
  <2>2. PICK j \in U : \A i \in U : j <= i
    <3>1. U \subseteq Nat
      OBVIOUS
    <3> HIDE DEF U
    <3> QED
      BY <2>1, <3>1, FirstPlace
  <2>3. /\ j \in 0..w /\ sum[j] # low[j]
        /\ sum[j] = IF j = 0 THEN 0 ELSE sum[j - 1] + bits[first + j - 1] * Power[j - 1]
        /\ low[j] = IF j = 0 THEN 0 ELSE low[j - 1] + bits[first + j - 1] * Power[j - 1]
    BY <1>3, <1>5, <2>2 DEF Step
  <2>4. j # 0 => j - 1 \in 0..w /\ ~(j <= j - 1)
    BY <2>3
  <2>5. j # 0 => sum[j - 1] = low[j - 1]
    BY <2>2, <2>4
  <2> QED
    BY <2>3, <2>5
<1>7. sum[w] = value % Power[w]
  BY <1>4, <1>6
<1> QED
  BY <1>1, <1>7

\* The numbers w bits can hold.
Held(value, w, signed) ==
  IF signed THEN -Power[w - 1] <= value /\ value < Power[w - 1] ELSE 0 <= value /\ value < Power[w]

\* What the bits of such a number are read as: the number.
LEMMA DecodedHeld ==
  ASSUME NEW value \in Int, NEW bits, NEW first \in Int, NEW w \in Nat, w > 0, NEW signed,
         Held(value, w, signed), \A n \in 0..w - 1 : bits[first + n] = Bit(value, n)
  PROVE  Decoded(bits, first, w, signed) = value
<1>1. PICK k \in Nat : k = w - 1 /\ w = k + 1
  OBVIOUS
<1>2. PICK p \in Nat : p = Power[k] /\ p > 0 /\ Power[w] = 2 * p
  BY <1>1, PowerPositive, PowerStep
<1>3. PICK t \in Nat : t = 2 * p /\ t > 0
  BY <1>2
<1>4. bits[first + w - 1] = Bit(value, k)
  <2>1. k \in 0..w - 1 /\ first + w - 1 = first + k
    BY <1>1
  <2> QED
    BY <2>1
<1>5. Decoded(bits, first, w, signed) =
        IF signed /\ Bit(value, k) = 1 THEN (value % t) - t ELSE value % t
  <2>1. Decoded(bits, first, w, signed) =
          IF signed /\ w > 0 /\ bits[first + w - 1] = 1
          THEN (value % Power[w]) - Power[w] ELSE value % Power[w]
    BY DecodedSum, Zenon
  <2>2. Power[w] = t
    BY <1>2, <1>3
  <2> QED
    BY <1>4, <2>1, <2>2, Zenon
<1>6. CASE value >= 0
  <2>1. value < t /\ (signed => value < p)
    BY <1>1, <1>2, <1>3 DEF Held
  <2>2. value % t = value
    <3>1. value \in 0..t - 1 /\ 0 * t + value = value
      BY <1>6, <2>1
    <3>2. (0 * t + value) % t = value
      BY <1>3, <3>1, MultipleOf
    <3> QED
      BY <3>1, <3>2
  <2>3. signed => Bit(value, k) = 0
    <3>1. SUFFICES ASSUME signed PROVE Bit(value, k) = 0
      OBVIOUS
    <3>2. value \in 0..p - 1 /\ 0 * p + value = value
      BY <1>6, <2>1, <3>1
    <3>3. (0 * p + value) \div p = 0
      BY <1>2, <3>2, MultipleOf
    <3>4. value \div p = 0
      BY <3>2, <3>3
    <3> QED
      BY <1>2, <3>4 DEF Bit
  <2> QED
    BY <1>5, <2>2, <2>3
<1>7. CASE value < 0
  <2>1. signed /\ -p <= value
    BY <1>1, <1>2, <1>7 DEF Held
  <2>2. value % t = value + t
    <3>1. PICK r \in 0..t - 1 : r = value + t
      BY <1>2, <1>3, <1>7, <2>1
    <3>2. ((-1) * t + r) % t = r
      BY <1>3, MultipleOf
    <3>3. (-1) * t + r = value
      BY <3>1
    <3> QED
      BY <3>1, <3>2, <3>3
  <2>3. Bit(value, k) = 1
    <3>1. PICK r \in 0..p - 1 : r = value + p
      BY <1>2, <1>7, <2>1
    <3>2. PICK z \in Int : z = -1 /\ z * p + r = value /\ z * 2 + 1 = z
      BY <3>1
    <3>3. (z * p + r) \div p = z
      BY <1>2, MultipleOf
    <3>4. value \div p = z
      BY <3>2, <3>3
    <3>5. z % 2 = 1
      <4>1. (z * 2 + 1) % 2 = 1
        <5>1. PICK e \in Nat, u \in Nat : e = 2 /\ u = 1 /\ u \in 0..e - 1
          OBVIOUS
        <5>2. (z * e + u) % e = u
          BY <5>1, MultipleOf
        <5> QED
          BY <5>1, <5>2
      <4> QED
        BY <3>2, <4>1
    <3> QED
      BY <1>2, <3>4, <3>5 DEF Bit
  <2> QED
    BY <1>5, <2>1, <2>2, <2>3
<1> QED
  BY <1>6, <1>7

\* What C makes of a value: the number of that type with the same bits.
LEMMA ReducedHeld ==
  ASSUME NEW i, NEW value \in Int, NEW w \in Nat, w > 0, ElemBits(i) = w
  PROVE  /\ Reduced(i, value) \in Int
         /\ Held(Reduced(i, value), w, decl[i].type \in Signed)
         /\ \A k \in 0..w - 1 : Bit(Reduced(i, value), k) = Bit(value, k)
<1>1. PICK p \in Nat : p = Power[w - 1] /\ p > 0 /\ Power[w] = 2 * p
  <2>1. PICK k \in Nat : k = w - 1 /\ w = k + 1
    OBVIOUS
  <2> QED
    BY <2>1, PowerPositive, PowerStep
<1>2. PICK t \in Nat : t = 2 * p /\ t > 0 /\ t = Power[w]
  BY <1>1
<1>3. PICK q \in Int, low \in 0..t - 1 : low = value % t /\ value = q * t + low
  BY <1>2, DivModInt
<1>4. Reduced(i, value) = IF decl[i].type \in Signed /\ 2 * low >= t THEN low - t ELSE low
  BY <1>2, <1>3 DEF Reduced
<1>5. PICK m \in Int : Reduced(i, value) = value + m * t
  <2>1. low = value + (-q) * t /\ low - t = value + (-q - 1) * t
    <3>1. (-q) * t = -(q * t) /\ (-q - 1) * t = -(q * t) - t /\ q * t \in Int
      OBVIOUS
    <3> QED
      BY <1>3, <3>1
  <2>2. -q \in Int /\ -q - 1 \in Int
    OBVIOUS
  <2> QED
    BY <1>4, <2>1, <2>2
<1>6. Reduced(i, value) \in Int
  BY <1>4
<1>7. Held(Reduced(i, value), w, decl[i].type \in Signed)
  <2>1. CASE decl[i].type \in Signed
    BY <1>1, <1>2, <1>4, <2>1 DEF Held
  <2>2. CASE ~(decl[i].type \in Signed)
    BY <1>1, <1>2, <1>4, <2>2 DEF Held
  <2> QED
    BY <2>1, <2>2
<1>8. ASSUME NEW k \in 0..w - 1 PROVE Bit(Reduced(i, value), k) = Bit(value, k)
  <2>1. Bit(value + m * Power[w], k) = Bit(value, k)
    BY SameBits
  <2> QED
    BY <1>2, <1>5, <2>1
<1> QED
  BY <1>6, <1>7, <1>8

-----------------------------------------------------------------------------
(* Fields remember what was assigned to them.                                *)

\* A field has the bits its declaration asks for; the first loop knows no widths.
ShapedAs(i) ==
  IF decl[i].width = NoBits THEN laid[i].bits = 8 * FieldSize(decl[i])
  ELSE phase # "types" => laid[i].bits = decl[i].width /\ decl[i].len = 1
ShapeInv == \A i \in DOMAIN laid : ShapedAs(i)

\* Every element of the field holds the bits of the value.
Stored(i, value) ==
  /\ value \in Int
  /\ Held(value, ElemBits(i), decl[i].type \in Signed)
  /\ \A b \in Cells(laid[i]) : mem[b] = Bit(value, (b - From(laid[i])) % ElemBits(i))

MemInv ==
  Closed => \A i \in Occupied :
              decl[i].type \notin Aggregates /\ ~Wide(i) => \A n \in assigned[i] : Stored(i, n)

LEMMA PlacedShape ==
  ASSUME OrderInv, ShapeInv, More, NEW field, laid' = Append(laid, field),
         decl' = decl, phase' = phase,
         IF Shape.width = NoBits THEN field.bits = 8 * FieldSize(Shape)
         ELSE phase # "types" => field.bits = Shape.width /\ Shape.len = 1
  PROVE  ShapeInv'
<1>1. laid \in Seq(Field)
  BY DEF OrderInv, TypeOK
<1>2. SUFFICES ASSUME NEW i \in DOMAIN laid' PROVE ShapedAs(i)'
  BY DEF ShapeInv
<1>3. CASE i = Len(laid) + 1
  <2>1. laid'[i] = field /\ decl'[i] = Shape
    BY <1>1, <1>3 DEF Shape
  <2> QED
    BY <2>1 DEF ShapedAs, FieldSize
<1>4. CASE i # Len(laid) + 1
  <2>1. i \in DOMAIN laid /\ laid'[i] = laid[i]
    BY <1>1, <1>4
  <2> QED
    BY <2>1 DEF ShapeInv, ShapedAs, FieldSize
<1> QED
  BY <1>3, <1>4

LEMMA OrdinaryShape ==
  ASSUME OrderInv, ShapeInv, ParseType \/ LayOrdinary PROVE ShapeInv'
<1>1. More /\ decl' = decl /\ phase' = phase /\ (phase = "types" \/ Shape.width = NoBits)
  BY DEF ParseType, LayOrdinary
<1>2. PICK at : laid' = Append(laid, Bytes(at, Shape))
  BY DEF ParseType, LayOrdinary
<1>3. Bytes(at, Shape).bits = 8 * FieldSize(Shape)
  BY DEF Bytes
<1> QED
  BY <1>1, <1>2, <1>3, PlacedShape

LEMMA BitsShape ==
  ASSUME OrderInv, ShapeInv, LayZeroWidth \/ LayBits PROVE ShapeInv'
<1>1. More /\ decl' = decl /\ phase' = phase /\ Shape.len = 1
  BY DEF LayZeroWidth, LayBits, Valid
<1>2. Shape.width # NoBits
  BY <1>1, ShapeFacts DEF OrderInv, LayZeroWidth, LayBits, NoBits
<1>3. PICK field : laid' = Append(laid, field) /\ field.bits = Shape.width
  <2>1. CASE LayZeroWidth
    BY <2>1 DEF LayZeroWidth
  <2>2. CASE LayBits
    BY <2>2 DEF LayBits
  <2> QED
    BY <2>1, <2>2
<1> QED
  BY <1>1, <1>2, <1>3, PlacedShape

LEMMA ParsedPlainShape == OrderInv /\ ShapeInv /\ ParsedPlain => ShapeInv'
<1> SUFFICES ASSUME OrderInv, ShapeInv, ParsedPlain, NEW i \in DOMAIN laid PROVE ShapedAs(i)'
  BY DEF ShapeInv, ParsedPlain, Close
<1>1. decl' = decl /\ laid' = laid /\ ~HasBits
  BY DEF ParsedPlain, Close
<1>2. i \in DOMAIN decl
  BY DEF OrderInv, TypeOK
<1>3. decl[i].width = NoBits
  BY <1>1, <1>2 DEF HasBits
<1> QED
  BY <1>1, <1>3 DEF ShapeInv, ShapedAs, FieldSize

LEMMA OtherShape ==
  ASSUME ShapeInv,
         LaidBits \/ Refuse \/ UNCHANGED vars
         \/ \E i \in DOMAIN laid, value \in Values :
              Store(i, value) \/ StoreUndefined(i, value) \/ StoreAggregate(i, value)
  PROVE  ShapeInv'
<1>1. decl' = decl /\ laid' = laid /\ (phase' = "types" \/ phase # "types")
  BY DEF LaidBits, Close, Refuse, vars, Store, StoreUndefined, StoreAggregate, Unmoved
<1> QED
  BY <1>1 DEF ShapeInv, ShapedAs, FieldSize

LEMMA NextShape == OrderInv /\ ShapeInv /\ [Next]_vars => ShapeInv'
<1>1. ParsedBits => ShapeInv'
  BY DEF ParsedBits, ShapeInv
<1> QED
  BY <1>1, OrdinaryShape, BitsShape, ParsedPlainShape, OtherShape DEF Next

\* The elements of an occupied field fill it, and it lies in the object.
Filled(i) ==
  /\ ElemBits(i) \in Nat /\ ElemBits(i) > 0 /\ decl[i].len \in Nat
  /\ From(laid[i]) \in Nat /\ To(laid[i]) = From(laid[i]) + decl[i].len * ElemBits(i)
  /\ Cells(laid[i]) \subseteq DOMAIN mem

LEMMA Elements == OrderInv /\ ShapeInv /\ Closed => \A i \in Occupied : Filled(i)
<1> SUFFICES ASSUME OrderInv, ShapeInv, Closed, NEW i \in Occupied PROVE Filled(i)
  OBVIOUS
<1>1. laid[i] \in Field /\ laid[i].bits > 0 /\ laid[i].bits \in Nat /\ decl[i] \in Shapes
  <2>1. laid[i] \in Field /\ laid[i].bits > 0 /\ decl[i] \in Shapes
    BY DEF OrderInv, TypeOK, Occupied
  <2>2. laid[i].bits \in Nat
    BY <2>1 DEF Field
  <2> QED
    BY <2>1, <2>2
<1>2. From(laid[i]) \in Nat /\ To(laid[i]) \in Nat
  BY <1>1, Extent
<1>3. Cells(laid[i]) \subseteq DOMAIN mem
  <2>1. To(laid[i]) <= 8 * size /\ size \in Nat
    BY DEF OrderInv, TypeOK, Inside, Cursor, Closed, Occupied
  <2>2. DOMAIN mem = 0..8 * size - 1
    BY DEF OrderInv, TypeOK
  <2> QED
    BY <1>2, <2>1, <2>2 DEF Cells
<1>4. /\ decl[i].len \in Nat /\ decl[i].len > 0 /\ SizeOf[decl[i].type] \in Nat
  BY <1>1, LayoutAssumption
<1>5. ElemBits(i) \in Nat /\ ElemBits(i) > 0 /\ laid[i].bits = decl[i].len * ElemBits(i)
  <2>1. ShapedAs(i)
    BY DEF ShapeInv, Occupied
  <2>2. CASE decl[i].width = NoBits
    <3>1. PICK l \in Nat, s \in Nat : l = decl[i].len /\ s = SizeOf[decl[i].type] /\ l > 0
      BY <1>4
    <3>2. laid[i].bits = 8 * (s * l) /\ ElemBits(i) = 8 * s
      BY <2>1, <2>2, <3>1 DEF ShapedAs, FieldSize, ElemBits, IsBitfield, UnitBits
    <3>3. 8 * (s * l) = l * (8 * s)
      OBVIOUS
    <3>4. s > 0
      <4>1. s = 0 => s * l = 0
        OBVIOUS
      <4> QED
        BY <1>1, <3>2, <4>1
    <3> QED
      BY <3>1, <3>2, <3>3, <3>4
  <2>3. CASE decl[i].width # NoBits
    <3>1. decl[i].len = 1 /\ ElemBits(i) = laid[i].bits
      BY <2>1, <2>3 DEF ShapedAs, ElemBits, IsBitfield, Closed
    <3> QED
      BY <1>1, <3>1
  <2> QED
    BY <2>2, <2>3
<1>6. To(laid[i]) = From(laid[i]) + decl[i].len * ElemBits(i)
  BY <1>5 DEF To
<1> QED
  BY <1>2, <1>3, <1>4, <1>5, <1>6 DEF Filled

LEMMA ElementsNext == (OrderInv /\ ShapeInv /\ Closed => \A i \in Occupied : Filled(i))'
  BY Elements, PTL

\* Zero is held by every type.
LEMMA ZeroHeld ==
  ASSUME NEW w \in Nat, w > 0, NEW signed
  PROVE  Held(0, w, signed)
<1>1. Power[w] \in Nat /\ Power[w] > 0 /\ Power[w - 1] \in Nat /\ Power[w - 1] > 0
  <2>1. PICK k \in Nat : k = w - 1
    OBVIOUS
  <2> QED
    BY <2>1, PowerPositive
<1> QED
  BY <1>1 DEF Held

\* The places of the bits of an element.
LEMMA PlaceOf ==
  ASSUME NEW b \in Nat, NEW w \in Nat, w > 0
  PROVE  b % w \in 0..w - 1
  BY DivModInt

\* A raw vector of zeroes holds zeroes.
LEMMA CloseMem ==
  ASSUME OrderInv', ShapeInv', ParsedPlain \/ LaidBits
  PROVE  MemInv'
<1>1. PICK bytes : /\ mem' = [b \in 0..8 * bytes - 1 |-> 0]
                   /\ assigned' = [i \in DOMAIN laid |-> {0}] /\ laid' = laid /\ Closed'
  BY DEF ParsedPlain, LaidBits, Close, Cdata, Closed
<1>2. SUFFICES ASSUME NEW i \in Occupied', NEW value \in assigned'[i] PROVE Stored(i, value)'
  BY DEF MemInv
<1>3. value = 0
  BY <1>1 DEF Occupied
<1>4. Filled(i)'
  BY <1>1, ElementsNext
<1>5. PICK w \in Nat, from \in Nat, to \in Nat :
        w = ElemBits(i)' /\ w > 0 /\ from = From(laid[i])' /\ to = To(laid[i])'
        /\ from..to - 1 \subseteq DOMAIN mem' /\ Cells(laid[i])' = from..to - 1
  <2>1. To(laid[i])' \in Nat
    BY <1>4, ProductNat DEF Filled
  <2> QED
    BY <1>4, <2>1 DEF Filled, Cells
<1>6. Held(value, w, decl'[i].type \in Signed)
  BY <1>3, <1>5, ZeroHeld
<1>7. ASSUME NEW b \in from..to - 1 PROVE mem'[b] = Bit(0, (b - from) % w)
  <2>1. (b - from) % w \in Nat
    <3>1. PICK n \in Nat : n = b - from
      OBVIOUS
    <3>2. n % w \in 0..w - 1
      BY <1>5, PlaceOf
    <3> QED
      BY <3>1, <3>2
  <2>2. Bit(0, (b - from) % w) = 0
    BY <2>1, ZeroBits
  <2> QED
    BY <1>1, <1>5, <2>2
<1>8. value \in Int
  BY <1>3
<1> QED
  BY <1>3, <1>5, <1>6, <1>7, <1>8 DEF Stored

\* Zero-extension leaves alone the bits of a field that is not wide.
LEMMA ConvertedBits ==
  ASSUME OrderInv, ShapeInv, NEW i \in Occupied, ~Wide(i), Closed, NEW value, value.n \in Int,
         NEW w \in Nat, w = ElemBits(i), NEW k \in 0..w - 1
  PROVE  Bit(Converted(i, value), k) = Bit(value.n, k)
<1>1. CASE ~ZeroExtended(i, value)
  BY <1>1 DEF Converted
<1>2. CASE ZeroExtended(i, value)
  <2>1. laid[i].bits = w /\ w <= IntBits /\ IntBits \in Nat
    <3>1. laid[i].bits = w /\ laid[i].bits <= IntBits
      <4>1. laid[i] \in Field
        BY DEF OrderInv, TypeOK, Occupied
      <4>2. laid[i].bits \in Nat
        BY <4>1 DEF Field
      <4>3. IntBits \in Nat
        BY LayoutAssumption
      <4> QED
        BY <1>2, <4>2, <4>3 DEF ZeroExtended, IsBitfield, Wide, ElemBits
    <3> QED
      BY <3>1, LayoutAssumption
  <2>2. PICK p \in Nat : p = Power[w] /\ p > 0
    BY PowerPositive
  <2>3. PICK c \in Nat : Power[IntBits] = c * p
    BY <2>1, <2>2, PowerDivides
  <2>4. PICK t \in Nat : t = Power[IntBits] /\ t > 0
    BY <2>1, PowerPositive
  <2>5. PICK n \in Int, q \in Int, low \in 0..t - 1 : n = value.n /\ low = n % t /\ n = q * t + low
    <3>1. PICK n \in Int : n = value.n
      OBVIOUS
    <3>2. PICK q \in Int, low \in 0..t - 1 : q = n \div t /\ low = n % t /\ n = q * t + low
      BY <2>4, DivModInt
    <3> QED
      BY <3>1, <3>2
  <2>6. PICK m \in Int : low = n + m * p
    <3>1. (-(q * c)) * p = -(q * (c * p)) /\ -(q * c) \in Int /\ q * t \in Int
      OBVIOUS
    <3>2. low = n + (-(q * c)) * p
      BY <2>3, <2>4, <2>5, <3>1
    <3> QED
      BY <3>1, <3>2
  <2>7. Bit(n + m * Power[w], k) = Bit(n, k)
    BY SameBits
  <2>8. Converted(i, value) = low
    BY <1>2, <2>4, <2>5 DEF Converted
  <2> QED
    BY <2>2, <2>5, <2>6, <2>7, <2>8
<1> QED
  BY <1>1, <1>2

\* A store writes the bits of the number it leaves in the field.
LEMMA StoredInto ==
  ASSUME OrderInv, ShapeInv, NEW i \in Occupied, ~Wide(i), NEW value, value.n \in Int,
         Store(i, value)
  PROVE  Stored(i, Reduced(i, value.n))'
<1>1. Closed /\ mem' = Written(i, Converted(i, value)) /\ UNCHANGED <<decl, laid>>
  BY DEF Store, MayStore, Unmoved, Closed
<1>2. Filled(i)
  BY <1>1, Elements
<1>3. PICK w \in Nat, from \in Nat, n \in Int :
        w = ElemBits(i) /\ w > 0 /\ from = From(laid[i]) /\ n = value.n
  BY <1>2 DEF Filled
<1>4. PICK x \in Int :
        /\ x = Reduced(i, n) /\ Held(x, w, decl[i].type \in Signed)
        /\ \A k \in 0..w - 1 : Bit(x, k) = Bit(n, k)
  BY <1>3, ReducedHeld
<1>5. ASSUME NEW b \in Cells(laid[i]) PROVE mem'[b] = Bit(x, (b - from) % w)
  <2>1. mem'[b] = Bit(Converted(i, value), (b - from) % w)
    BY <1>1, <1>2, <1>3 DEF Written, Filled
  <2>2. PICK k \in 0..w - 1 : k = (b - from) % w
    <3>1. PICK d \in Nat : d = b - from
      <4>1. To(laid[i]) \in Nat
        BY <1>2, ProductNat DEF Filled
      <4> QED
        BY <1>3, <4>1 DEF Cells
    <3> QED
      BY <1>3, <3>1, PlaceOf
  <2>3. Bit(Converted(i, value), k) = Bit(n, k)
    BY <1>1, <1>3, ConvertedBits
  <2> QED
    BY <1>4, <2>1, <2>2, <2>3
<1>6. /\ ElemBits(i)' = w /\ From(laid[i])' = from /\ Cells(laid[i])' = Cells(laid[i])
      /\ decl'[i] = decl[i] /\ Reduced(i, value.n)' = x
  BY <1>1, <1>3, <1>4 DEF ElemBits, IsBitfield, UnitBits, From, To, Cells, Reduced
<1> QED
  BY <1>4, <1>5, <1>6 DEF Stored

LEMMA StoreMem ==
  ASSUME OrderInv, ShapeInv, MemInv, NEW i \in DOMAIN laid, NEW value \in Values,
         Store(i, value) \/ StoreUndefined(i, value) \/ StoreAggregate(i, value)
  PROVE  MemInv'
<1>1. Closed /\ laid[i].bits > 0 /\ UNCHANGED <<decl, layout, laid>> /\ value.n \in Int
  BY LayoutAssumption DEF Store, StoreUndefined, StoreAggregate, MayStore, Unmoved, Closed
<1>2. SUFFICES ASSUME NEW j \in Occupied, decl[j].type \notin Aggregates, ~Wide(j),
                      NEW x \in assigned'[j]
               PROVE  Stored(j, x)'
  BY <1>1 DEF MemInv, Occupied, Wide, IsBitfield
<1>3. CASE j = i
  <2>1. Store(i, value)
    BY <1>2, <1>3 DEF StoreUndefined, StoreAggregate, Assign, Occupied
  <2>2. x = Reduced(i, value.n)
    BY <1>2, <1>3, <2>1 DEF Store, Assign, Occupied
  <2>3. x = Reduced(i, value.n)'
    BY <1>1, <2>2 DEF Reduced, ElemBits, IsBitfield, UnitBits
  <2> QED
    BY <1>1, <1>2, <1>3, <2>1, <2>3, StoredInto
<1>4. CASE j # i
  <2>1. IsStruct /\ x \in assigned[j]
    BY <1>2, <1>4 DEF Store, StoreUndefined, StoreAggregate, Assign, Occupied
  <2>2. Stored(j, x)
    BY <1>1, <1>2, <2>1 DEF MemInv
  <2>3. ASSUME NEW b \in Cells(laid[j]) PROVE mem'[b] = mem[b]
    <3>1. b \notin Cells(laid[i])
      BY <1>1, <1>4, <2>1, CellsApart DEF Occupied
    <3> QED
      BY <3>1, OnlyItsCells DEF Occupied
  <2>4. /\ ElemBits(j)' = ElemBits(j) /\ From(laid[j])' = From(laid[j])
        /\ Cells(laid[j])' = Cells(laid[j]) /\ decl'[j] = decl[j]
    BY <1>1 DEF ElemBits, IsBitfield, UnitBits, From, To, Cells
  <2> QED
    BY <2>2, <2>3, <2>4 DEF Stored
<1> QED
  BY <1>3, <1>4

LEMMA OtherMem ==
  ASSUME MemInv,
         UNCHANGED vars \/ ParseType \/ ParsedBits \/ LayOrdinary \/ LayZeroWidth \/ LayBits \/ Refuse
  PROVE  MemInv'
<1>1. CASE UNCHANGED vars
  <2>1. UNCHANGED <<phase, decl, laid, mem, assigned>>
    BY <1>1 DEF vars
  <2>2. \A i, value : Stored(i, value)' = Stored(i, value)
    BY <2>1 DEF Stored, ElemBits, IsBitfield, UnitBits, From, To, Cells
  <2> QED
    BY <2>1, <2>2 DEF MemInv, Closed, Occupied, Wide, IsBitfield
<1>2. CASE ~UNCHANGED vars
  <2>1. ~Closed'
    BY <1>2 DEF ParseType, ParsedBits, LayOrdinary, LayZeroWidth, LayBits, Refuse, Closed
  <2> QED
    BY <2>1 DEF MemInv
<1> QED
  BY <1>1, <1>2

\* An object remembers its fields.
LEMMA MemReads == OrderInv /\ ShapeInv /\ MemInv => Remembers
<1> SUFFICES ASSUME OrderInv, ShapeInv, MemInv, Closed,
                    NEW i \in Occupied, decl[i].type \notin Aggregates, ~Wide(i),
                    NEW value \in assigned[i], NEW k \in 1..decl[i].len
             PROVE  Loaded(i)[k] = Shown(i, value)
  BY DEF Remembers, Reads
<1>1. Filled(i) /\ Stored(i, value)
  BY Elements DEF MemInv
<1>2. PICK w \in Nat, from \in Nat, len \in Nat :
        /\ w = ElemBits(i) /\ w > 0 /\ from = From(laid[i]) /\ len = decl[i].len
        /\ To(laid[i]) = from + len * w
  BY <1>1 DEF Filled
<1>3. PICK at \in Nat : at = (k - 1) * w /\ at + w <= len * w
  <2>1. k \in Int /\ k <= len /\ k - 1 \in Nat
    BY <1>2
  <2>2. k * w <= len * w /\ (k - 1) * w \in Nat /\ ((k - 1) + 1) * w = (k - 1) * w + w
    BY <1>2, <2>1, TimesMonotone, ProductNat
  <2>3. (k - 1) + 1 = k
    BY <2>1
  <2>4. k * w \in Int /\ len * w \in Int
    BY <2>1
  <2> QED
    BY <2>2, <2>3, <2>4
<1>4. ASSUME NEW n \in 0..w - 1 PROVE mem[from + at + n] = Bit(value, n)
  <2>1. from + at + n \in Cells(laid[i])
    <3>1. len * w \in Nat
      BY ProductNat
    <3> QED
      BY <1>2, <1>3, <3>1 DEF Cells
  <2>2. mem[from + at + n] = Bit(value, (from + at + n - from) % w)
    BY <1>1, <1>2, <2>1 DEF Stored
  <2>3. (from + at + n - from) % w = n
    <3>1. from + at + n - from = (k - 1) * w + n
      BY <1>3
    <3>2. k - 1 \in Int
      BY <1>2
    <3>3. ((k - 1) * w + n) % w = n
      BY <1>2, <3>2, MultipleOf
    <3> QED
      BY <3>1, <3>3
  <2> QED
    BY <2>2, <2>3
<1>5. Decoded(mem, from + at, w, decl[i].type \in Signed) = value
  <2>1. Held(value, w, decl[i].type \in Signed) /\ value \in Int
    BY <1>1, <1>2 DEF Stored
  <2>2. PICK first \in Int : first = from + at
    OBVIOUS
  <2>3. \A n \in 0..w - 1 : mem[first + n] = Bit(value, n)
    BY <1>4, <2>2
  <2>4. Decoded(mem, first, w, decl[i].type \in Signed) = value
    <3> DEFINE signed == decl[i].type \in Signed
    <3>1. Held(value, w, signed) /\ value \in Int
      BY <2>1
    <3> HIDE DEF signed
    <3>2. Decoded(mem, first, w, signed) = value
      BY <1>2, <2>3, <3>1, DecodedHeld
    <3> QED
      BY <3>2 DEF signed
  <2> QED
    BY <2>2, <2>4
<1> QED
  BY <1>2, <1>3, <1>5 DEF Loaded

LEMMA NextMem ==
  OrderInv /\ ShapeInv /\ MemInv /\ OrderInv' /\ ShapeInv' /\ [Next]_vars => MemInv'
  BY CloseMem, StoreMem, OtherMem DEF Next

\* A field of any object reads as the number it was last assigned, converted as C
\* would and shown as R does (`$<-` and `$` of R/struct.R, C_pack, C_write_bitfield_bits
\* and C_unpack_bitfield of src/rpack.c), whatever was assigned to its neighbours since;
\* with the exceptions that Remembers names.
THEOREM FieldsRemember == Spec => []Remembers
<1>1. Init => ShapeInv /\ MemInv
  BY DEF Init, ShapeInv, MemInv, Closed
<1>2. OrderInv /\ OrderInv' /\ (ShapeInv /\ MemInv) /\ [Next]_vars => (ShapeInv /\ MemInv)'
  BY NextShape, NextMem
<1>3. OrderInv /\ ShapeInv /\ MemInv => Remembers
  BY MemReads
<1> QED
  BY <1>1, <1>2, <1>3, LayoutInvariant, PTL DEF Spec
=============================================================================
