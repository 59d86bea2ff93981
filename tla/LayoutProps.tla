---------------------------- MODULE LayoutProps ----------------------------
(* What a C compiler would say of the layouts, and what a user expects of  *)
(* the fields.                                                             *)
EXTENDS Layout

Closed == phase = "closed"
Occupied == {i \in DOMAIN laid : laid[i].bits > 0}

\* Types of all variables; an object has as many bits as its type.
TypeOK ==
  /\ decl \in Seq(Shapes) /\ layout \in Layouts /\ phase \in Phases
  /\ laid \in Seq(Field) /\ Len(laid) <= Len(decl)
  /\ offset \in Nat /\ bitpos \in Nat /\ maxAlign \in Nat /\ maxSize \in Nat /\ size \in Nat
  /\ Closed => /\ mem \in [0..8 * size - 1 -> {0, 1}]
               /\ DOMAIN assigned = DOMAIN laid
  /\ stores \in Nat /\ stores <= MaxStores

\* How far the loops have come, in bits; at the end, the whole aggregate.
Cursor ==
  IF phase = "closed" THEN 8 * size
  ELSE IF ~IsStruct THEN 8 * maxSize
  ELSE IF phase = "types" THEN 8 * offset
  ELSE bitpos
Inside  == \A i \in DOMAIN laid : To(laid[i]) <= Cursor
InOrder == IsStruct => \A i, j \in DOMAIN laid : i < j => To(laid[i]) <= From(laid[j])

\* The fields of a struct lie one behind the other, and those of any aggregate
\* inside it, whatever mixture of widths, types and packing produced them.
FieldsDisjoint == Closed => Inside /\ InOrder

\* Inductive, since no field is placed before the cursor.
OrderInv == TypeOK /\ Inside /\ InOrder

\* An assignment to one field of a struct (C_pack, C_pack_bitfield) changes no bit of
\* another, though they may share a byte.
TouchesOne ==
  Closed /\ IsStruct =>
    \A i, j \in DOMAIN laid :
      i # j => \/ \A b \in Cells(laid[i]) : mem'[b] = mem[b]
               \/ \A b \in Cells(laid[j]) : mem'[b] = mem[b]
OneFieldChanges == [][TouchesOne]_vars

\* Where field i of a struct may begin: an ordinary field where its alignment allows,
\* a ":0" where its storage unit does, a bitfield where it does not cross its unit.
Begins(i) == IF i = 1 THEN 0 ELSE To(laid[i - 1])
MayBegin(i, bit) ==
  CASE decl[i].width = NoBits -> bit % (8 * MemberAlign(decl[i].type)) = 0
    [] decl[i].width = 0      -> bit % UnitBits(decl[i]) = 0
    [] OTHER -> bit \div UnitBits(decl[i]) = (bit + decl[i].width - 1) \div UnitBits(decl[i])
Fitted(i) ==
  /\ MayBegin(i, From(laid[i]))
  /\ \A bit \in Begins(i)..From(laid[i]) - 1 : ~MayBegin(i, bit)

\* An alignment given by "@align" raises that of the whole.
Raised(a) == IF layout.align # NotGiven THEN Bigger(a, layout.align) ELSE a
\* The alignment of the strictest of the fields F.
Strictest(a, F) ==
  /\ \A i \in F : MemberAlign(decl[i].type) <= a
  /\ a = 1 \/ \E i \in F : MemberAlign(decl[i].type) = a
MemberAlignments == {1} \cup {MemberAlign(type) : type \in Types}

\* The size is the least one behind the last field that is aligned to a.
EndsAligned(a) ==
  /\ size % a = 0
  /\ 8 * size - Begins(Len(laid) + 1) \in 0..8 * a - 1

\* Every field of a struct begins as early behind the one before it as it may, and the
\* size is the least that suits the strictest field, whichever loop has counted.
\* @pack caps the alignment of ordinary fields, and a bitfield without a name counts,
\* which is right on some machines only: see AlignedAsCompiled.
FirstFit ==
  Closed /\ IsStruct =>
    /\ \A i \in DOMAIN laid : Fitted(i)
    /\ \A a \in MemberAlignments : Strictest(a, DOMAIN decl) => EndsAligned(Raised(a))

\* The fields with a name: a ":0" has none (parse_field_specs), the other shapes are
\* taken to have one.
Named == {i \in DOMAIN decl : decl[i].width # 0}

\* "the concrete layout of foreign C data types on the host machine"
\* (man/typeinfo.Rd): the System V ABI of x86-64 passes over bitfields without a name.
\* The code does not keep this, because make_aggregate_info raises max_align for a
\* ":0" as well (struct.R:566), as compilers for ARM do.
AlignedAsCompiled ==
  Closed /\ IsStruct =>
    \A a \in MemberAlignments : Strictest(a, Named) => EndsAligned(Raised(a))

\* dyncall_normalize_aggregate_fields hands storage units, not bits, to the
\* descriptor of a by-value call: without @pack they lie inside the aggregate.
UnitsInside ==
  Closed /\ layout.pack = NotGiven =>
    \A i \in Occupied : IsBitfield(i) => laid[i].unit + SizeOf[decl[i].type] <= size

Reads(i) == \A n \in assigned[i], k \in 1..decl[i].len : Loaded(i)[k] = Shown(i, n)

\* Unsigned bitfields that an R integer does not fill.
Wide(i) == IsBitfield(i) /\ decl[i].type \notin Signed /\ laid[i].bits > IntBits

\* A field reads as the number it was last assigned, converted as C would to its type
\* and width and from there to R (a double rounds what has too many digits), whatever
\* was assigned to other fields since.  Not said of a double that its cast does not
\* define, of nested aggregates, whose assignment is lost (pack_aggregate_array_field),
\* and of wide unsigned bitfields, which see RemembersWide.
Remembers ==
  Closed => \A i \in Occupied : decl[i].type \notin Aggregates /\ ~Wide(i) => Reads(i)

\* "value to be converted according to struct/union field type" (man/struct.Rd): of
\* wide unsigned bitfields as well.  The code does not keep this: a negative integer
\* becomes an uint32_t first (rpack.c:181).
RemembersWide == Closed => \A i \in Occupied : Wide(i) => Reads(i)
=============================================================================
