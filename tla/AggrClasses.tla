---------------------------- MODULE AggrClasses -----------------------------
(* How the fields of an aggregate decide the registers it is passed in:     *)
(* the descriptor that dcAggrField builds (dyncall_aggregate.c), the System *)
(* V classes of its eightbytes (dyncall_aggregate_x64.c), and the scan for  *)
(* homogeneous floating-point aggregates of AArch64.                        *)
(*                                                                          *)
(* The widths of DCsize and int are scaled from 64 and 32 bits to 16 and 8: *)
(* an int still loses the upper half of a DCsize, and every field of an     *)
(* aggregate that has classes is within 16 bytes.                           *)
EXTENDS Integers, Sequences, FiniteSets

SizeRange == 65536
IntRange  == 256
AsSize(n) == n % SizeRange
AsInt(n)  == LET m == n % IntRange IN IF 2 * m < IntRange THEN m ELSE m - IntRange

\* A field has a type, an offset and the length of its array; a nested aggregate
\* has type "aggr" and the aggregate as `sub`.
FieldSizes == [bool |-> 4, char |-> 1, short |-> 2, int |-> 4, long |-> 8,
               longlong |-> 8, float |-> 4, double |-> 8, pointer |-> 8]
FieldSize(f)      == IF f.type = "aggr" THEN f.sub.size ELSE FieldSizes[f.type]
FieldAlignment(f) == IF f.type = "aggr" THEN f.sub.align ELSE FieldSizes[f.type]
Fields(ag)        == {ag.fields[k] : k \in DOMAIN ag.fields}

-----------------------------------------------------------------------------
(* System V.                                                                *)

\* dc_merge_sysv_classes over all the classes that meet in an eightbyte.
Merged(classes) ==
  CASE "MEMORY" \in classes                                -> "MEMORY"
    [] "MEMORY" \notin classes /\ "INTEGER" \in classes    -> "INTEGER"
    [] classes \cap {"MEMORY", "INTEGER"} = {} /\ "SSE" \in classes -> "SSE"
    [] OTHER                                               -> "NONE"
ScalarClass(type) == IF type \in {"float", "double"} THEN "SSE" ELSE "INTEGER"

\* The elements of an array of aggregates that are looked at for an eightbyte:
\* from `first`, computed in DCsize and cut to an int, up to an int that is
\* compared as a DCsize.
Elements(f, index, offset) ==
  LET size  == FieldSize(f)
      first == AsInt(AsSize(8 * index - offset) \div size)
      last  == AsInt(8 \div size + first + 1)
  IN  first..((IF AsSize(last) > f.len THEN f.len ELSE last) - 1)

\* One round of the loop of dc_get_sysv_class_for_8byte; Nested stands for its
\* recursive call.
FieldClass(f, index, base, Nested(_, _, _)) ==
  LET offset  == AsSize(base + f.offset)
      outside == \/ offset >= 8 * index + 8
                 \/ AsSize(offset + FieldSize(f) * f.len) <= 8 * index
      aligned == FieldAlignment(f) = 0 \/ offset % FieldAlignment(f) = 0
  IN  CASE outside                             -> "NONE"
        [] ~outside /\ ~aligned                -> "MEMORY"
        [] ~outside /\ aligned /\ f.type # "aggr" -> ScalarClass(f.type)
        [] ~outside /\ aligned /\ f.type = "aggr" ->
             Merged({Nested(f.sub, index, AsInt(offset + FieldSize(f) * j)) :
                       j \in IF FieldSize(f) = 0 THEN {} ELSE Elements(f, index, offset)})

\* dc_get_sysv_class_for_8byte.  Bound: aggregates are nested twice at most.
NoClass(ag, index, base)   == "NONE"
Innermost(ag, index, base) == Merged({FieldClass(f, index, base, NoClass) : f \in Fields(ag)})
Inner(ag, index, base)     == Merged({FieldClass(f, index, base, Innermost) : f \in Fields(ag)})
ClassOf8byte(ag, index)    == Merged({FieldClass(f, index, 0, Inner) : f \in Fields(ag)})

\* The readers of the classes stop at the first "NONE".
Present(classes)    == SelectSeq(classes, LAMBDA c : c # "NONE")
BeforeNone(classes) == IF classes[1] = "NONE" THEN << >> ELSE Present(classes)

\* Mutant: both eightbytes get the class of the first.
SysvClassesSame(ag) ==
  LET class(i) == ClassOf8byte(ag, i)
  IN  CASE ag.size > 16 \/ "MEMORY" \in {class(0), class(1)} -> <<"MEMORY">>
        [] class(1) = "NONE" -> BeforeNone(<<class(0)>>)
        [] OTHER -> <<class(0), class(0)>>

\* dc_get_sysv_classes_for_aggr.
SysvClasses(ag) ==
  LET class(i) == ClassOf8byte(ag, i)
  IN  CASE ag.size > 16 \/ "MEMORY" \in {class(0), class(1)} -> <<"MEMORY">>
        [] OTHER -> BeforeNone(<<class(0), class(1)>>)

-----------------------------------------------------------------------------
(* The scalars of an aggregate with their offsets, without any of the       *)
(* arithmetic above: what the eightbytes are classified by in the ABI.      *)

ScalarsOf(f, base, Nested(_, _)) ==
  LET at(j) == base + f.offset + FieldSize(f) * j
  IN  IF f.type = "aggr" THEN UNION {Nested(f.sub, at(j)) : j \in 0..(f.len - 1)}
                         ELSE {[type |-> f.type, at |-> at(j)] : j \in 0..(f.len - 1)}
NoScalars(ag, base)        == {}
InnermostScalars(ag, base) == UNION {ScalarsOf(f, base, NoScalars) : f \in Fields(ag)}
InnerScalars(ag, base)     == UNION {ScalarsOf(f, base, InnermostScalars) : f \in Fields(ag)}
AllScalars(ag)             == UNION {ScalarsOf(f, 0, InnerScalars) : f \in Fields(ag)}

AbiClass(ag, index) ==
  Merged({ScalarClass(s.type) :
            s \in {x \in AllScalars(ag) : x.at < 8 * index + 8 /\
                                          x.at + FieldSizes[x.type] > 8 * index}})
AbiClasses(ag) ==
  IF ag.size > 16 \/ \E s \in AllScalars(ag) : s.at % FieldSizes[s.type] # 0
    THEN <<"MEMORY">>
    ELSE Present(<<AbiClass(ag, 0), AbiClass(ag, 1)>>)

-----------------------------------------------------------------------------
(* AArch64: dc_arm64_hfa_scan counts the floats or doubles of a structure   *)
(* that has nothing else and no more than four of them.                     *)

MaxHfaFields == 4
Hfa(ag) ==
  LET types == {s.type : s \in AllScalars(ag)}
      count == Cardinality(AllScalars(ag))
  IN  IF types \in {{"float"}, {"double"}} /\ count <= MaxHfaFields THEN count ELSE 0
HfaElement(ag) == IF Hfa(ag) = 0 THEN 0 ELSE ag.size \div Hfa(ag)

\* What the rest of a call needs to know of an aggregate that is passed by value.
ByValue(ag) ==
  [type |-> "aggr", size |-> ag.size, nontrivial |-> FALSE, of |-> ag,
   classes |-> SysvClasses(ag), hfa |-> Hfa(ag), elem |-> HfaElement(ag)]
=============================================================================
