------------------------------- MODULE Layout -------------------------------
(***************************************************************************)
(* Aggregates: cstruct() and cunion() of R/struct.R compute the layout of  *)
(* a C type from a type signature and field names; cdata() allocates an    *)
(* object of it, `$<-` and `$` write and read its fields, and src/rpack.c  *)
(* moves the bits.                                                         *)
(*                                                                         *)
(* The layout is computed by two loops.  parse_aggregate_types knows types *)
(* only and places every field on a byte; make_aggregate_info begins again *)
(* with a cursor that counts bits if some field has a width.  A memory is  *)
(* a function from bit numbers to bits, least significant bit of a byte    *)
(* first (little-endian machines).                                         *)
(***************************************************************************)
EXTENDS Integers, Sequences

CONSTANTS
  Types,       \* type signatures
  SizeOf,      \* [Types -> bytes]
  AlignOf,     \* [Types -> bytes]
  BitTypes,    \* the integer types: .BITFIELD_TYPES
  Booleans,    \* "B" among them (modelled as a bitfield only)
  Signed,      \* the signed ones
  DoubleTypes, \* those read into an R double: "I", "j", "J", "l", "L"
  Aggregates,  \* "<Name>": structs and unions as fields
  Shapes,      \* the fields to choose from: type, array length, width
  Layouts,     \* the aggregates to choose from: kind, @pack(n), @align(n)
  Values,      \* R numbers assigned to fields
  IntBits,     \* width of an R integer (32)
  LongBits,    \* of the widest C integer (64)
  DoubleBits,  \* significant bits of a double (53)
  MaxFields,   \* bound: fields of an aggregate
  MaxStores    \* bound: assignments

NotGiven == 0    \* no @pack or @align
NoBits   == -1   \* bit_width of an ordinary field: NA

Kinds == {"struct", "union"}

ASSUME LayoutAssumption ==
  /\ SizeOf \in [Types -> Nat] /\ AlignOf \in [Types -> Nat]
  /\ Booleans \subseteq BitTypes /\ BitTypes \subseteq {type \in Types : SizeOf[type] > 0}
  /\ Signed \subseteq BitTypes /\ DoubleTypes \subseteq BitTypes
  /\ Aggregates \subseteq Types \ BitTypes
  /\ Shapes \subseteq [type : Types, len : Nat \ {0}, width : Nat \cup {NoBits}]
  /\ \A shape \in Shapes : shape.type \in Booleans => shape.width # NoBits
  /\ Layouts \subseteq [kind : Kinds, pack : Nat, align : Nat]
  /\ Values \subseteq [kind : {"integer", "double"}, n : Int]
  /\ IntBits \in Nat \ {0} /\ LongBits \in Nat \ {0} /\ DoubleBits \in Nat \ {0}
  /\ MaxFields \in Nat /\ MaxStores \in Nat

VARIABLES
  decl,      \* the fields as written
  layout,    \* kind and directives
  phase,     \* the loop we are in
  laid,      \* the fields placed so far
  offset,    \* cursor of parse_aggregate_types, in bytes
  bitpos,    \* cursor of make_aggregate_info, in bits
  maxAlign,  \* max_align
  maxSize,   \* max_size (unions)
  size,      \* size of the finished type
  mem,       \* an object of the type, made by cdata()
  assigned,  \* the number each field must hold: a set of one, or of none if it
             \* is open (undefined behaviour, another member of a union)
  stores     \* assignments made
vars == <<decl, layout, phase, laid, offset, bitpos, maxAlign, maxSize, size, mem,
          assigned, stores>>

Phases == {"types", "bits", "closed", "refused"}

\* A placed field: byte offset, bit_offset (NA but for bitfields), the bits it
\* occupies, and storage_offset.
Field == [offset : Nat, bit : Nat \cup {NoBits}, bits : Nat, unit : Nat]

Shape     == decl[Len(laid) + 1]
More      == Len(laid) < Len(decl)
HasBits   == \E i \in DOMAIN decl : decl[i].width # NoBits
IsStruct  == layout.kind = "struct"
Bigger(a, b) == IF a < b THEN b ELSE a

\* align, align_bits: "alignment <= 0" asks for none.
Align(pos, alignment) ==
  IF alignment <= 0 THEN pos ELSE ((pos + alignment - 1) \div alignment) * alignment

BitsToBytes(bits) == (bits + 7) \div 8

\* @pack caps the alignment of members, @align raises that of the whole.
MemberAlign(type) ==
  IF layout.pack # NotGiven /\ layout.pack < AlignOf[type] THEN layout.pack ELSE AlignOf[type]

FinalAlign == IF layout.align # NotGiven THEN Bigger(maxAlign, layout.align) ELSE maxAlign

FieldSize(shape) == SizeOf[shape.type] * shape.len
UnitBits(shape)  == 8 * SizeOf[shape.type]

Bytes(at, shape) == [offset |-> at, bit |-> NoBits, bits |-> 8 * FieldSize(shape), unit |-> 0]

Init ==
  /\ decl \in UNION {[1..n -> Shapes] : n \in 0..MaxFields}
  /\ layout \in Layouts
  /\ phase = "types" /\ laid = << >>
  /\ offset = 0 /\ bitpos = 0 /\ maxAlign = 1 /\ maxSize = 0 /\ size = 0
  /\ mem = << >> /\ assigned = << >> /\ stores = 0

-----------------------------------------------------------------------------
(* parse_aggregate_types: every field as if it were an ordinary one.        *)

ParseType ==
  LET alignment == MemberAlign(Shape.type)
      at == IF IsStruct THEN Align(offset, alignment) ELSE 0
  IN
  /\ phase = "types" /\ More
  /\ laid' = Append(laid, Bytes(at, Shape))
  /\ maxAlign' = Bigger(maxAlign, alignment)
  /\ IF IsStruct THEN offset' = at + FieldSize(Shape) /\ UNCHANGED maxSize
                 ELSE maxSize' = Bigger(maxSize, FieldSize(Shape)) /\ UNCHANGED offset
  /\ UNCHANGED <<decl, layout, phase, bitpos, size, mem, assigned, stores>>

\* Mutant: cdata() counts bytes where it should count bits.
CdataBytes(bytes) ==
  /\ mem' = [b \in 0..bytes - 1 |-> 0]
  /\ assigned' = [i \in DOMAIN laid |-> {0}]

\* The type is complete; cdata() allocates an object of it, raw zeroes.
Cdata(bytes) ==
  /\ mem' = [b \in 0..8 * bytes - 1 |-> 0]
  /\ assigned' = [i \in DOMAIN laid |-> {0}]

\* Mutant: the end of the last field is the size.
CloseUnpadded(end) ==
  LET bytes == IF IsStruct THEN end ELSE maxSize IN
  /\ phase' = "closed" /\ size' = bytes /\ Cdata(bytes)
  /\ UNCHANGED <<decl, layout, laid, offset, bitpos, maxAlign, maxSize, stores>>

Close(end) ==
  LET bytes == Align(IF IsStruct THEN end ELSE maxSize, FinalAlign) IN
  /\ phase' = "closed" /\ size' = bytes /\ Cdata(bytes)
  /\ UNCHANGED <<decl, layout, laid, offset, bitpos, maxAlign, maxSize, stores>>

\* No bitfield: this layout is the result ...
ParsedPlain == phase = "types" /\ ~More /\ ~HasBits /\ Close(offset)

\* ... else it is thrown away.
ParsedBits ==
  /\ phase = "types" /\ ~More /\ HasBits
  /\ phase' = "bits" /\ laid' = << >>
  /\ bitpos' = 0 /\ maxAlign' = 1 /\ maxSize' = 0
  /\ UNCHANGED <<decl, layout, offset, size, mem, assigned, stores>>

-----------------------------------------------------------------------------
(* The second loop of make_aggregate_info, one action per shape of field.   *)

Raise(type) == maxAlign' = Bigger(maxAlign, MemberAlign(type))

LayOrdinary ==
  LET at == IF IsStruct THEN Align(BitsToBytes(bitpos), MemberAlign(Shape.type)) ELSE 0 IN
  /\ phase = "bits" /\ More /\ Shape.width = NoBits
  /\ laid' = Append(laid, Bytes(at, Shape))
  /\ Raise(Shape.type)
  /\ IF IsStruct THEN bitpos' = 8 * (at + FieldSize(Shape)) /\ UNCHANGED maxSize
                 ELSE maxSize' = Bigger(maxSize, FieldSize(Shape)) /\ UNCHANGED bitpos
  /\ UNCHANGED <<decl, layout, phase, offset, size, mem, assigned, stores>>

\* validate_bitfield_type, and the check for arrays before it.
Valid(shape) ==
  /\ shape.len = 1
  /\ shape.type \in BitTypes
  /\ shape.width <= UnitBits(shape)
  /\ shape.type \in Booleans => shape.width <= 1

Refuse ==
  /\ phase = "bits" /\ More /\ Shape.width # NoBits /\ ~Valid(Shape)
  /\ phase' = "refused"
  /\ UNCHANGED <<decl, layout, laid, offset, bitpos, maxAlign, maxSize, size, mem,
                 assigned, stores>>

\* ":0" closes the storage unit.
LayZeroWidth ==
  LET end == IF IsStruct THEN Align(bitpos, UnitBits(Shape)) ELSE bitpos
      at  == IF IsStruct THEN BitsToBytes(end) ELSE 0
  IN
  /\ phase = "bits" /\ More /\ Shape.width = 0 /\ Valid(Shape)
  /\ laid' = Append(laid, [offset |-> at, bit |-> NoBits, bits |-> 0, unit |-> 0])
  /\ bitpos' = end
  /\ Raise(Shape.type)
  /\ UNCHANGED <<decl, layout, phase, offset, maxSize, size, mem, assigned, stores>>

\* Mutant: a field that just fits its unit is moved to the next.
FirstBitTight(shape) ==
  IF (bitpos % UnitBits(shape)) + shape.width >= UnitBits(shape)
  THEN Align(bitpos, UnitBits(shape)) ELSE bitpos

\* Mutant: the cursor is rounded down to its unit.
FirstBitDown(shape) ==
  IF (bitpos % UnitBits(shape)) + shape.width > UnitBits(shape)
  THEN (bitpos \div UnitBits(shape)) * UnitBits(shape) ELSE bitpos

\* A bitfield does not cross a boundary of its storage unit.
FirstBit(shape) ==
  IF (bitpos % UnitBits(shape)) + shape.width > UnitBits(shape)
  THEN Align(bitpos, UnitBits(shape)) ELSE bitpos

LayBits ==
  LET first == IF IsStruct THEN FirstBit(Shape) ELSE 0 IN
  /\ phase = "bits" /\ More /\ Shape.width > 0 /\ Valid(Shape)
  /\ laid' = Append(laid, [offset |-> first \div 8, bit |-> first, bits |-> Shape.width,
                           unit |-> (first \div UnitBits(Shape)) * SizeOf[Shape.type]])
  /\ Raise(Shape.type)
  /\ IF IsStruct THEN bitpos' = first + Shape.width /\ UNCHANGED maxSize
                 ELSE maxSize' = Bigger(maxSize, SizeOf[Shape.type]) /\ UNCHANGED bitpos
  /\ UNCHANGED <<decl, layout, phase, offset, size, mem, assigned, stores>>

LaidBits == phase = "bits" /\ ~More /\ Close(BitsToBytes(bitpos))

-----------------------------------------------------------------------------
(* `$` and `$<-` on the object, with the copies of src/rpack.c.             *)

From(field)  == IF field.bit = NoBits THEN 8 * field.offset ELSE field.bit
To(field)    == From(field) + field.bits
Cells(field) == From(field)..To(field) - 1

\* C_dataptr_offset: no access past the end of a raw vector.
InBounds(field) == 8 * BitsToBytes(To(field)) <= 8 * size

\* Two's complement: bit k of a value of any sign, and the value of w bits; the
\* powers of two that C shifts 1 for.
Power[k \in Nat] == IF k = 0 THEN 1 ELSE 2 * Power[k - 1]
Bit(value, k) == IF (value \div Power[k]) % 2 = 1 THEN 1 ELSE 0

\* Mutant: no sign extension.
DecodedUnsigned(bits, first, w, signed) ==
  LET sum[n \in 0..w] == IF n = 0 THEN 0 ELSE sum[n - 1] + bits[first + n - 1] * Power[n - 1]
  IN  sum[w]

Decoded(bits, first, w, signed) ==
  LET sum[n \in 0..w] == IF n = 0 THEN 0 ELSE sum[n - 1] + bits[first + n - 1] * Power[n - 1]
  IN  IF signed /\ w > 0 /\ bits[first + w - 1] = 1 THEN sum[w] - Power[w] ELSE sum[w]

IsBitfield(i) == decl[i].width # NoBits
ElemBits(i)   == IF IsBitfield(i) THEN laid[i].bits ELSE UnitBits(decl[i])

\* (double): the nearest number of DoubleBits significant bits, ties to even.
Rounded(n) ==
  LET abs == IF n < 0 THEN -n ELSE n
      lost == CHOOSE k \in 0..LongBits :
                /\ abs < Power[DoubleBits + k]
                /\ k > 0 => abs >= Power[DoubleBits + k - 1]
      step == Power[lost]
      kept == abs \div step
      rest == 2 * (abs % step)
      near == IF rest > step \/ (rest = step /\ kept % 2 = 1) THEN kept + 1 ELSE kept
  IN  IF n < 0 THEN -(near * step) ELSE near * step

\* What R is given of a number n in field i: ScalarInteger, where the least int is NA,
\* ScalarLogical, or ScalarReal((double) n).
Shown(i, n) == IF decl[i].type \in DoubleTypes THEN Rounded(n) ELSE n

\* C_unpack_bitfield, unpack_array_field: the elements of field i.
Loaded(i) ==
  [k \in 1..decl[i].len |->
     Shown(i, Decoded(mem, From(laid[i]) + (k - 1) * ElemBits(i), ElemBits(i),
                      decl[i].type \in Signed))]

\* Mutant: the storage unit is written whole.
WrittenUnit(i, value) ==
  LET first == From(laid[i])
      whole == IF IsBitfield(i) THEN (first \div 8) * 8..(first \div 8) * 8 + 7 ELSE Cells(laid[i])
  IN [b \in DOMAIN mem |-> IF b \in whole THEN Bit(value, (b - first) % ElemBits(i)) ELSE mem[b]]

\* C_write_bitfield_bits; pack_array_field writes the value to each element.
Written(i, value) ==
  [b \in DOMAIN mem |->
     IF b \in Cells(laid[i]) THEN Bit(value, (b - From(laid[i])) % ElemBits(i)) ELSE mem[b]]

\* What C makes of a number that its type cannot hold.
Reduced(i, value) ==
  LET range == Power[ElemBits(i)]
      low   == value % range
  IN  IF decl[i].type \in Signed /\ 2 * low >= range THEN low - range ELSE low

\* In a union a store leaves the other fields without a known value.
Assign(i, values) ==
  /\ assigned' = [j \in DOMAIN laid |->
                    IF j = i THEN values ELSE IF IsStruct THEN assigned[j] ELSE {}]
  /\ stores' = stores + 1

MayStore(i) ==
  /\ phase = "closed" /\ stores < MaxStores
  /\ laid[i].bits > 0 /\ InBounds(laid[i])

Unmoved == UNCHANGED <<decl, layout, phase, laid, offset, bitpos, maxAlign, maxSize, size>>

Fits(n, w, signed) ==
  IF signed THEN n \in -Power[w - 1]..Power[w - 1] - 1 ELSE n \in 0..Power[w] - 1

\* Numbers of R: an integer has IntBits, a double is one that rounding leaves alone
\* (its fraction is cut off before anything else).
ASSUME ValueAssumption ==
  \A value \in Values : IF value.kind = "integer" THEN Fits(value.n, IntBits, TRUE)
                         ELSE Rounded(value.n) = value.n

\* A double is cast to int64_t or uint64_t for a bitfield, else to the type of the
\* field.  The cast is defined for what that type holds.  Of a float, a double or a
\* pointer (types outside BitTypes) the model keeps a pattern of bits and no number.
CastBits(i) == IF IsBitfield(i) THEN LongBits ELSE ElemBits(i)
Defined(i, value) ==
  \/ decl[i].type \notin BitTypes
  \/ value.kind = "integer"
  \/ Fits(value.n, CastBits(i), decl[i].type \in Signed)

\* C_bitfield_value takes the integer of an unsigned bitfield as a uint32_t.
ZeroExtended(i, value) ==
  IsBitfield(i) /\ decl[i].type \notin Signed /\ value.kind = "integer"
Converted(i, value) ==
  IF ZeroExtended(i, value) THEN value.n % Power[IntBits] ELSE value.n

\* A base type, an array of it, or a bitfield.
Store(i, value) ==
  /\ MayStore(i) /\ decl[i].type \notin Aggregates /\ Defined(i, value)
  /\ mem' = Written(i, Converted(i, value))
  /\ Assign(i, {Reduced(i, value.n)})
  /\ Unmoved

\* Of other doubles the processor makes what it likes: they wrap, saturate, or give
\* zero or the number whose highest bit alone is set.
Outcomes(i, n) ==
  LET w == CastBits(i)
  IN  {n, 0, Power[w - 1]}
      \cup {IF decl[i].type \in Signed THEN Power[w - 1] - 1 ELSE Power[w] - 1}
StoreUndefined(i, value) ==
  /\ MayStore(i) /\ decl[i].type \notin Aggregates /\ ~Defined(i, value)
  /\ \E stored \in Outcomes(i, value.n) : mem' = Written(i, stored)
  /\ Assign(i, {})
  /\ Unmoved

\* pack_aggregate_array_field packs into its own copy of the raw vector.
StoreAggregate(i, value) ==
  /\ MayStore(i) /\ decl[i].type \in Aggregates
  /\ UNCHANGED mem
  /\ Assign(i, {Reduced(i, value.n)})
  /\ Unmoved

Next ==
  \/ ParseType \/ ParsedPlain \/ ParsedBits
  \/ LayOrdinary \/ LayZeroWidth \/ LayBits \/ Refuse \/ LaidBits
  \/ \E i \in DOMAIN laid, value \in Values :
       Store(i, value) \/ StoreUndefined(i, value) \/ StoreAggregate(i, value)

Spec == Init /\ [][Next]_vars
=============================================================================
