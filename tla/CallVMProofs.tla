---------------------------- MODULE CallVMProofs ----------------------------
(***************************************************************************)
(* Theorems about dyncall() on the shared CallVMs, for any signatures, any *)
(* numbers of registers and words, and any nesting.                        *)
(***************************************************************************)
EXTENDS CallVMProps, StackLemmas, FiniteSetTheorems

-----------------------------------------------------------------------------
(* What placing an argument does to a CallVM.                               *)

LEMMA FillType ==
  ASSUME NEW mem \in [1..Room -> Word], NEW cells, NEW word \in Word
  PROVE  Fill(mem, cells, word) \in [1..Room -> Word]
BY DEF Fill

LEMMA WordOfType ==
  ASSUME NEW arg \in Arg, NEW part \in {"value", "copy"}
  PROVE  WordOf(arg, part) \in Word
BY DEF WordOf, Arg, Word

\* A machine that holds one more argument, or none more.
Grown(new, old, arg) ==
  /\ new \in VM /\ new.mode = old.mode
  /\ \A a \in new.args : a \in old.args
       \/ (a.call = arg.call /\ a.pos = arg.pos /\ a.mode = arg.mode)

LEMMA ToVectorGrows ==
  ASSUME NEW machine \in VM, NEW arg \in Arg
  PROVE  Grown(ToVector(machine, arg), machine, arg)
<1>1. CASE machine.used + arg.n > Room
  BY <1>1 DEF ToVector, Grown
<1>2. CASE ~(machine.used + arg.n > Room)
  <2>. DEFINE mem == Fill(machine.mem, Cells(arg), WordOf(arg, "value"))
              used == machine.used + arg.n
              new == [machine EXCEPT !.args = @ \cup {arg}, !.used = used, !.mem = mem]
  <2>1. mem \in [1..Room -> Word] /\ used \in Nat
    BY FillType, WordOfType DEF VM, Arg
  <2>2. ToVector(machine, arg) = new
    BY <1>2 DEF ToVector, VM
  <2>. HIDE DEF mem, used
  <2>3. new \in VM /\ new.mode = machine.mode /\ new.args = machine.args \cup {arg}
    BY <2>1 DEF VM
  <2>. QED  BY <2>2, <2>3 DEF Grown
<1>. QED  BY <1>1, <1>2

LEMMA PlaceWordsGrows ==
  ASSUME NEW machine \in VM, NEW arg \in Arg, NEW n \in Nat
  PROVE  Grown(PlaceWords(machine, arg, n), machine, arg)
<1>1. CASE InRegisters(machine, n)
  <2>. DEFINE regs == machine.regs + n
              new == [machine EXCEPT !.args = @ \cup {arg}, !.regs = regs]
  <2>1. regs \in Nat
    BY DEF VM
  <2>2. PlaceWords(machine, arg, n) = new
    BY <1>1 DEF PlaceWords, VM
  <2>. HIDE DEF regs
  <2>3. new \in VM /\ new.mode = machine.mode /\ new.args = machine.args \cup {arg}
    BY <2>1 DEF VM
  <2>. QED  BY <2>2, <2>3 DEF Grown
<1>2. CASE ~InRegisters(machine, n)
  <2>. DEFINE regs == IF n = 2 /\ machine.mode # "varargs" THEN NRegs ELSE machine.regs
              old == [machine EXCEPT !.regs = regs]
              at == machine.used + 1
              put == [arg EXCEPT !.at = at, !.n = n]
  <2>1. old \in VM /\ old.mode = machine.mode /\ old.args = machine.args
    BY CallVMAssumption DEF VM
  <2>5. at \in Nat
    BY DEF VM
  <2>3. PlaceWords(machine, arg, n) = ToVector(old, put)
    BY <1>2 DEF PlaceWords
  <2>. HIDE DEF at
  <2>2. put \in Arg /\ put.call = arg.call /\ put.pos = arg.pos /\ put.mode = arg.mode
    BY <2>5 DEF Arg
  <2>. HIDE DEF old, put
  <2>4. Grown(ToVector(old, put), old, put)
    BY <2>1, <2>2, ToVectorGrows
  <2>. QED  BY <2>1, <2>2, <2>3, <2>4 DEF Grown
<1>. QED  BY <1>1, <1>2

\* A machine that may hold one more argument, at the position given.
GrownAt(new, old, pos) ==
  /\ new \in VM /\ new.mode = old.mode
  /\ \A a \in new.args : a \in old.args \/ (a.pos = pos /\ a.mode = old.mode)

LEMMA PlaceGrows ==
  ASSUME NEW machine \in VM, NEW call \in Nat, NEW pos \in Nat, NEW token \in Words
  PROVE  GrownAt(Place(machine, call, pos, token), machine, pos)
<1>. DEFINE arg == [call |-> call, pos |-> pos, mode |-> machine.mode,
                    at |-> 1, n |-> 0, copy |-> 1, m |-> 0]
            copy == Room - machine.copied - BigWords + 1
            far == [arg EXCEPT !.copy = copy, !.m = BigWords]
            mem == Fill(machine.mem, Copied(far), WordOf(far, "copy"))
            copied == machine.copied + BigWords
            mid == [machine EXCEPT !.copied = copied, !.mem = mem]
<1>1. machine.mode \in Modes /\ machine.copied \in Nat
  BY DEF VM
<1>2. arg \in Arg /\ arg.pos = pos /\ arg.mode = machine.mode
  BY <1>1 DEF Arg
<1>10. copy \in Int /\ BigWords \in Nat
  BY <1>1, CallVMAssumption
<1>. HIDE DEF arg, copy
<1>3. far \in Arg /\ far.pos = pos /\ far.mode = machine.mode
  BY <1>2, <1>10 DEF Arg
<1>4. Size(token) \in Nat
  BY CallVMAssumption DEF Size, Words, Aggregates
<1>. HIDE DEF far
<1>5. mem \in [1..Room -> Word] /\ copied \in Nat
  BY <1>1, <1>3, FillType, WordOfType, CallVMAssumption DEF VM
<1>. HIDE DEF mem, copied
<1>6. mid \in VM /\ mid.mode = machine.mode /\ mid.args = machine.args
  BY <1>5 DEF VM
<1>7. Place(machine, call, pos, token) =
        IF ByAddress(machine, token) THEN PlaceWords(mid, far, 1)
                                     ELSE PlaceWords(machine, arg, Size(token))
  BY DEF Place, VM, arg, copy, far, mem, copied
<1>. HIDE DEF mid
<1>8. Grown(PlaceWords(mid, far, 1), mid, far)
  BY <1>3, <1>6, PlaceWordsGrows
<1>9. Grown(PlaceWords(machine, arg, Size(token)), machine, arg)
  BY <1>2, <1>4, PlaceWordsGrows
<1>. QED  BY <1>2, <1>3, <1>6, <1>7, <1>8, <1>9 DEF Grown, GrownAt

-----------------------------------------------------------------------------
(* Types and descriptors.                                                   *)

\* The descriptors of the frames add up to what is allocated, but for those a
\* failed call left behind.  t[i] is the sum over the i outermost frames.
Sums(t, d) ==
  /\ t \in [0..Depth -> Nat] /\ t[0] = 0
  /\ \A i \in 1..Depth : t[i] = t[i - 1] + frames[i].aggrs
  /\ t[Depth] <= d /\ (failures = 0 => t[Depth] = d)
Accounted == \E t : Sums(t, descriptors)

TypeInv == TypeOK /\ Accounted

LEMMA TopIsFrame ==
  ASSUME TypeOK, frames # << >>
  PROVE  /\ Depth \in Nat \ {0} /\ Depth \in 1..Depth /\ Top = frames[Depth] /\ Top \in Frame
<1>1. Depth \in Nat \ {0} /\ Depth \in 1..Depth
  BY EmptySeq, LenProperties DEF TypeOK, Depth
<1>. QED  BY <1>1, ElementOfSeq DEF TypeOK, Top, Depth

LEMMA DepthType == ASSUME TypeOK PROVE Depth \in Nat /\ \A i \in 1..Depth : frames[i] \in Frame
BY LenProperties, ElementOfSeq DEF TypeOK, Depth

LEMMA SetTopShape ==
  ASSUME TypeOK, frames # << >>, NEW g \in Frame, SetTop(g)
  PROVE  /\ frames' \in Seq(Frame) /\ frames' # << >> /\ Depth' = Depth /\ frames'[Depth] = g
         /\ \A i \in 1..Depth : i # Depth => frames'[i] = frames[i]
BY TopReplaced DEF TypeOK, SetTop, Depth

LEMMA PopShape ==
  ASSUME TypeOK, frames # << >>, Pop
  PROVE  /\ frames' \in Seq(Frame) /\ Depth' = Depth - 1
         /\ \A i \in 1..Depth' : frames'[i] = frames[i]
BY TopPopped DEF TypeOK, Pop, Depth

LEMMA PushShape ==
  ASSUME TypeOK, NEW f \in Frame, frames' = Append(frames, f)
  PROVE  /\ frames' \in Seq(Frame) /\ Depth' = Depth + 1 /\ frames'[Depth + 1] = f
         /\ \A i \in 1..Depth : frames'[i] = frames[i]
BY TopPushed DEF TypeOK, Depth

\* A frame that allocates d more descriptors.
LEMMA SetTopAccounted ==
  ASSUME TypeInv, frames # << >>, NEW g \in Frame, SetTop(g), NEW d \in Nat,
         g.aggrs = Top.aggrs + d, descriptors' = descriptors + d, UNCHANGED failures
  PROVE  Accounted'
<1>1. PICK t : Sums(t, descriptors)
  BY DEF TypeInv, Accounted
<1>. DEFINE u == [t EXCEPT ![Depth] = t[Depth] + d]
<1>2. /\ Depth \in Nat \ {0} /\ Top = frames[Depth] /\ Top \in Frame /\ descriptors \in Nat
      /\ Depth' = Depth /\ frames'[Depth] = g
      /\ \A i \in 1..Depth : i # Depth => frames'[i] = frames[i]
  BY TopIsFrame, SetTopShape DEF TypeInv, TypeOK
<1>3. /\ t \in [0..Depth -> Nat] /\ t[0] = 0
      /\ \A i \in 1..Depth : t[i] = t[i - 1] + frames[i].aggrs
      /\ t[Depth] <= descriptors /\ (failures = 0 => t[Depth] = descriptors)
  BY <1>1 DEF Sums
<1>4. u \in [0..Depth' -> Nat] /\ u[0] = 0 /\ u[Depth] = t[Depth] + d
      /\ \A i \in 0..Depth : i # Depth => u[i] = t[i]
  BY <1>2, <1>3
<1>. HIDE DEF u
<1>5. ASSUME NEW i \in 1..Depth' PROVE u[i] = u[i - 1] + frames'[i].aggrs
  <2>1. CASE i = Depth
    <3>1. u[i - 1] = t[i - 1] /\ t[i] = t[i - 1] + Top.aggrs /\ t[i - 1] \in Nat /\ Top.aggrs \in Nat
      BY <1>2, <1>3, <1>4, <2>1 DEF Frame
    <3>. QED  BY <1>2, <1>4, <2>1, <3>1
  <2>2. CASE i # Depth
    <3>1. u[i] = t[i] /\ u[i - 1] = t[i - 1] /\ frames'[i] = frames[i]
      BY <1>2, <1>4, <2>2
    <3>. QED  BY <1>2, <1>3, <3>1
  <2>. QED  BY <2>1, <2>2
<1>6. u[Depth'] <= descriptors' /\ (failures' = 0 => u[Depth'] = descriptors')
  BY <1>2, <1>3, <1>4
<1>7. PICK w : w = u
  OBVIOUS
<1>8. Sums(w, descriptors)'
  BY <1>4, <1>5, <1>6, <1>7 DEF Sums
<1>. QED  BY <1>8 DEF Accounted

\* A frame that leaves takes its descriptors along, or leaves them by an error.
LEMMA PopAccounted ==
  ASSUME TypeInv, frames # << >>, Pop,
         \/ descriptors' = descriptors - Top.aggrs /\ UNCHANGED failures
         \/ descriptors' = descriptors /\ failures' = failures + 1
  PROVE  Accounted' /\ descriptors' \in Nat
<1>1. PICK t : Sums(t, descriptors)
  BY DEF TypeInv, Accounted
<1>. DEFINE u == [i \in 0..Depth - 1 |-> t[i]]
<1>2. /\ Depth \in Nat \ {0} /\ Top = frames[Depth] /\ Top.aggrs \in Nat
      /\ descriptors \in Nat /\ failures \in Nat /\ Depth' = Depth - 1
      /\ \A i \in 1..Depth' : frames'[i] = frames[i]
  BY TopIsFrame, PopShape DEF TypeInv, TypeOK, Frame
<1>3. /\ t \in [0..Depth -> Nat] /\ t[0] = 0
      /\ \A i \in 1..Depth : t[i] = t[i - 1] + frames[i].aggrs
      /\ t[Depth] <= descriptors /\ (failures = 0 => t[Depth] = descriptors)
  BY <1>1 DEF Sums
<1>4. t[Depth] = t[Depth - 1] + Top.aggrs /\ t[Depth - 1] \in Nat
  BY <1>2, <1>3
<1>5. u \in [0..Depth' -> Nat] /\ u[0] = 0 /\ \A i \in 0..Depth' : u[i] = t[i]
  BY <1>2, <1>3
<1>. HIDE DEF u
<1>6. ASSUME NEW i \in 1..Depth' PROVE u[i] = u[i - 1] + frames'[i].aggrs
  <2>1. i \in 1..Depth /\ i \in 0..Depth' /\ i - 1 \in 0..Depth' /\ frames'[i] = frames[i]
    BY <1>2
  <2>2. u[i] = t[i] /\ u[i - 1] = t[i - 1] /\ t[i] = t[i - 1] + frames[i].aggrs
    BY <1>3, <1>5, <2>1
  <2>. QED  BY <2>1, <2>2
<1>7. u[Depth'] = t[Depth - 1]
  BY <1>2, <1>5
<1>8. u[Depth'] <= descriptors' /\ (failures' = 0 => u[Depth'] = descriptors') /\ descriptors' \in Nat
  BY <1>2, <1>3, <1>4, <1>7
<1>9. PICK w : w = u
  OBVIOUS
<1>10. Sums(w, descriptors)'
  BY <1>5, <1>6, <1>8, <1>9 DEF Sums
<1>. QED  BY <1>8, <1>10 DEF Accounted

LEMMA PushAccounted ==
  ASSUME TypeInv, NEW f \in Frame, frames' = Append(frames, f),
         descriptors' = descriptors + f.aggrs, UNCHANGED failures
  PROVE  Accounted'
<1>1. PICK t : Sums(t, descriptors)
  BY DEF TypeInv, Accounted
<1>. DEFINE u == [i \in 0..Depth + 1 |-> IF i = Depth + 1 THEN t[Depth] + f.aggrs ELSE t[i]]
<1>2. /\ Depth \in Nat /\ f.aggrs \in Nat
      /\ descriptors \in Nat /\ Depth' = Depth + 1 /\ frames'[Depth + 1] = f
      /\ \A i \in 1..Depth : frames'[i] = frames[i]
  BY DepthType, PushShape DEF TypeInv, TypeOK, Frame
<1>3. /\ t \in [0..Depth -> Nat] /\ t[0] = 0
      /\ \A i \in 1..Depth : t[i] = t[i - 1] + frames[i].aggrs
      /\ t[Depth] <= descriptors /\ (failures = 0 => t[Depth] = descriptors)
  BY <1>1 DEF Sums
<1>5. /\ u \in [0..Depth' -> Nat] /\ u[0] = 0 /\ u[Depth + 1] = t[Depth] + f.aggrs
      /\ \A i \in 0..Depth : u[i] = t[i]
  BY <1>2, <1>3
<1>. HIDE DEF u
<1>6. ASSUME NEW i \in 1..Depth' PROVE u[i] = u[i - 1] + frames'[i].aggrs
  <2>1. CASE i = Depth + 1
    <3>1. i - 1 = Depth /\ Depth \in 0..Depth
      BY <1>2, <2>1
    <3>2. u[i] = t[Depth] + f.aggrs /\ u[i - 1] = t[Depth] /\ frames'[i] = f
      BY <1>2, <1>5, <2>1, <3>1
    <3>. QED  BY <3>2
  <2>2. CASE i # Depth + 1
    <3>1. i \in 1..Depth /\ i \in 0..Depth /\ i - 1 \in 0..Depth
      BY <1>2, <2>2
    <3>2. u[i] = t[i] /\ u[i - 1] = t[i - 1] /\ t[i] = t[i - 1] + frames[i].aggrs
      BY <1>3, <1>5, <3>1
    <3>3. frames'[i] = frames[i]
      BY <1>2, <3>1
    <3>. QED  BY <3>2, <3>3
  <2>. QED  BY <2>1, <2>2
<1>8. u[Depth'] <= descriptors' /\ (failures' = 0 => u[Depth'] = descriptors')
  BY <1>2, <1>3, <1>5
<1>9. PICK w : w = u
  OBVIOUS
<1>10. Sums(w, descriptors)'
  BY <1>5, <1>6, <1>8, <1>9 DEF Sums
<1>. QED  BY <1>10 DEF Accounted

-----------------------------------------------------------------------------
(* The steps.                                                               *)

\* The frame C_dyncall starts with.
NewFrame(v, f) ==
  [call |-> calls, fn |-> f, vm |-> v, pc |-> "loading", next |-> 0,
   aggrs |-> IF Res[f] = "aggr" THEN 1 ELSE 0, got |-> {}]

LEMMA BeginDoes ==
  ASSUME TypeInv, NEW v \in VMs, NEW f \in Functions, Begin(v, f)
  PROVE  /\ TypeInv' /\ NewFrame(v, f) \in Frame /\ frames' = Append(frames, NewFrame(v, f))
         /\ vm'[v] \in VM /\ vm'[v].args = {} /\ vm'[v].used = 0 /\ vm'[v].copied = 0
         /\ \A w \in VMs : w # v => vm'[w] = vm[w]
<1>. DEFINE new == NewFrame(v, f)
<1>1. new \in Frame /\ new.aggrs \in Nat
  BY DEF NewFrame, Frame, Pcs, TypeInv, TypeOK
<1>2. /\ frames' = Append(frames, new) /\ vm' = [vm EXCEPT ![v] = Reset(@)]
      /\ calls' = calls + 1 /\ UNCHANGED failures
      /\ descriptors' = descriptors + new.aggrs
  BY DEF Begin, NewFrame
<1>. HIDE DEF new
<1>3. Accounted' /\ frames' \in Seq(Frame)
  BY <1>1, <1>2, PushAccounted, PushShape DEF TypeInv
<1>4. /\ Reset(vm[v]) \in VM /\ Reset(vm[v]).args = {}
      /\ Reset(vm[v]).used = 0 /\ Reset(vm[v]).copied = 0
  BY DEF TypeInv, TypeOK, Reset, VM
<1>5. TypeOK'
  BY <1>1, <1>2, <1>3, <1>4 DEF TypeInv, TypeOK
<1>. QED  BY <1>1, <1>2, <1>3, <1>4, <1>5 DEF TypeInv, TypeOK, new

LEMMA LoadArgDoes ==
  ASSUME TypeInv, LoadArg
  PROVE  /\ TypeInv' /\ frames # << >> /\ Top.pc = "loading" /\ Sig[Top.fn][Top.next + 1] \in Words
         /\ Top.next < Len(Sig[Top.fn]) /\ vm'[Top.vm].mode = vm[Top.vm].mode
         /\ \A a \in vm'[Top.vm].args :
              a \in vm[Top.vm].args \/ (a.pos = Top.next + 1 /\ a.mode = vm[Top.vm].mode)
         /\ \E g \in Frame : /\ SetTop(g) /\ g.pc = "loading" /\ g.next = Top.next + 1
                             /\ g.fn = Top.fn /\ g.vm = Top.vm /\ g.call = Top.call
<1>1. /\ frames # << >> /\ Top.pc = "loading" /\ Token \in Words /\ Top.next < Len(Sig[Top.fn])
      /\ vm' = [vm EXCEPT ![Top.vm] = Place(@, Top.call, Top.next + 1, Token)]
      /\ UNCHANGED <<calls, failures>>
  BY DEF LoadArg, At, More
<1>. DEFINE d == IF Token \in Aggregates THEN 1 ELSE 0
            n == Top.next + 1
            k == Top.aggrs + d
            g == [Top EXCEPT !.next = n, !.aggrs = k]
<1>2. Top \in Frame /\ Top.vm \in VMs /\ Top.next \in Nat /\ Top.aggrs \in Nat /\ Top.call \in Nat
  BY <1>1, TopIsFrame DEF TypeInv, Frame
<1>3. n \in Nat /\ k \in Nat /\ d \in Nat
  BY <1>2
<1>4. SetTop(g) /\ descriptors' = descriptors + d
  <2>1. [Top EXCEPT !.next = @ + 1, !.aggrs = IF Token \in Aggregates THEN @ + 1 ELSE @] = g
    <3>1. k = (IF Token \in Aggregates THEN Top.aggrs + 1 ELSE Top.aggrs)
      BY <1>2
    <3>. HIDE DEF k, d
    <3>. QED  BY <1>2, <3>1 DEF Frame
  <2>2. SetTop([Top EXCEPT !.next = @ + 1, !.aggrs = IF Token \in Aggregates THEN @ + 1 ELSE @])
    BY DEF LoadArg
  <2>3. descriptors' = descriptors + d
    BY DEF LoadArg
  <2>. QED  BY <2>1, <2>2, <2>3
<1>. HIDE DEF n, k, d
<1>5. /\ g \in Frame /\ g.pc = Top.pc /\ g.next = n /\ g.fn = Top.fn /\ g.vm = Top.vm
      /\ g.call = Top.call /\ g.aggrs = k
  BY <1>2, <1>3 DEF Frame
<1>. HIDE DEF g
<1>6. Accounted' /\ frames' \in Seq(Frame)
  BY <1>1, <1>3, <1>4, <1>5, SetTopAccounted, SetTopShape DEF TypeInv, k
<1>. DEFINE new == Place(vm[Top.vm], Top.call, n, Token)
<1>7. /\ new \in VM /\ new.mode = vm[Top.vm].mode
      /\ \A a \in new.args : a \in vm[Top.vm].args \/ (a.pos = n /\ a.mode = vm[Top.vm].mode)
  <2>1. vm[Top.vm] \in VM
    BY <1>2 DEF TypeInv, TypeOK
  <2>2. GrownAt(Place(vm[Top.vm], Top.call, n, Token), vm[Top.vm], n)
    BY <1>1, <1>2, <1>3, <2>1, PlaceGrows
  <2>. QED  BY <2>2 DEF GrownAt
<1>8. vm' \in [VMs -> VM] /\ vm'[Top.vm] = new
  BY <1>1, <1>2, <1>7 DEF TypeInv, TypeOK, n
<1>9. TypeOK'
  BY <1>1, <1>3, <1>4, <1>6, <1>8 DEF TypeInv, TypeOK
<1>. HIDE DEF new
<1>10. \E h \in Frame : /\ SetTop(h) /\ h.pc = "loading" /\ h.next = n
                        /\ h.fn = Top.fn /\ h.vm = Top.vm /\ h.call = Top.call
  BY <1>1, <1>4, <1>5
<1>. QED  BY <1>1, <1>6, <1>7, <1>8, <1>9, <1>10 DEF TypeInv, Token, n

LEMMA SwitchModeDoes ==
  ASSUME TypeInv, SwitchMode
  PROVE  /\ TypeInv' /\ frames # << >> /\ Top.pc = "loading"
         /\ Sig[Top.fn][Top.next + 1] \in Prefixes
         /\ Top.next < Len(Sig[Top.fn]) /\ vm'[Top.vm].args = vm[Top.vm].args
         /\ vm'[Top.vm].mode = IF Sig[Top.fn][Top.next + 1] = "_." THEN "varargs" ELSE "ellipsis"
         /\ \E g \in Frame : /\ SetTop(g) /\ g.pc = "loading" /\ g.next = Top.next + 1
                             /\ g.fn = Top.fn /\ g.vm = Top.vm /\ g.call = Top.call
<1>. DEFINE mode == IF Token = "_." THEN "varargs" ELSE "ellipsis"
            n == Top.next + 1
            g == [Top EXCEPT !.next = n]
<1>1. /\ frames # << >> /\ Top.pc = "loading" /\ Token \in Prefixes /\ Top.next < Len(Sig[Top.fn])
      /\ vm' = [vm EXCEPT ![Top.vm].mode = mode]
      /\ UNCHANGED <<calls, failures, descriptors>>
  BY DEF SwitchMode, At, More
<1>2. Top \in Frame /\ Top.vm \in VMs /\ Top.next \in Nat
  BY <1>1, TopIsFrame DEF TypeInv, Frame
<1>3. n \in Nat /\ mode \in Modes
  BY <1>2 DEF Modes
<1>4. SetTop(g)
  BY <1>2 DEF SwitchMode, Frame
<1>. HIDE DEF n, mode
<1>5. /\ g \in Frame /\ g.pc = Top.pc /\ g.next = n /\ g.fn = Top.fn /\ g.vm = Top.vm
      /\ g.call = Top.call /\ g.aggrs = Top.aggrs + 0
  BY <1>2, <1>3 DEF Frame
<1>. HIDE DEF g
<1>6. descriptors' = descriptors + 0
  BY <1>1 DEF TypeInv, TypeOK
<1>7. Accounted' /\ frames' \in Seq(Frame)
  BY <1>1, <1>4, <1>5, <1>6, SetTopAccounted, SetTopShape DEF TypeInv
<1>8. [vm[Top.vm] EXCEPT !.mode = mode] \in VM
  BY <1>2, <1>3 DEF TypeInv, TypeOK, VM
<1>9. /\ vm' \in [VMs -> VM] /\ vm'[Top.vm].mode = mode /\ vm'[Top.vm].args = vm[Top.vm].args
  BY <1>1, <1>2, <1>8 DEF TypeInv, TypeOK, VM
<1>10. TypeOK'
  BY <1>1, <1>7, <1>9 DEF TypeInv, TypeOK
<1>11. \E h \in Frame : /\ SetTop(h) /\ h.pc = "loading" /\ h.next = n
                        /\ h.fn = Top.fn /\ h.vm = Top.vm /\ h.call = Top.call
  BY <1>1, <1>4, <1>5
<1>. QED  BY <1>1, <1>7, <1>9, <1>10, <1>11 DEF TypeInv, Token, n, mode

\* The steps that move the innermost call on and place nothing.
LEMMA MoveDoes ==
  ASSUME TypeInv, Allocate \/ Call \/ ForeignReturns
  PROVE  /\ TypeInv' /\ frames # << >> /\ UNCHANGED vm
         /\ \E g \in Frame : /\ SetTop(g) /\ g.pc # "loading" /\ g.next = Top.next
                             /\ g.fn = Top.fn /\ g.vm = Top.vm /\ g.call = Top.call
                             /\ (Allocate => g.pc = "allocating")
                             /\ (~Allocate => g.pc # "allocating")
                             /\ (Call => g.got = {a \in vm[Top.vm].args : Whole(vm[Top.vm], a)})
                             /\ (ForeignReturns => g.got = Top.got)
<1>1. frames # << >> /\ UNCHANGED <<vm, calls, failures, descriptors>>
  BY DEF Allocate, Call, ForeignReturns, At
<1>2. Top \in Frame /\ Top.vm \in VMs
  BY <1>1, TopIsFrame DEF TypeInv, Frame
<1>. DEFINE whole == {a \in vm[Top.vm].args : Whole(vm[Top.vm], a)}
<1>3. whole \in SUBSET Arg
  BY <1>2 DEF TypeInv, TypeOK, VM
<1>. HIDE DEF whole
<1>4. PICK g \in Frame : /\ SetTop(g) /\ g.pc # "loading" /\ g.aggrs = Top.aggrs
                         /\ g.fn = Top.fn /\ g.vm = Top.vm /\ g.call = Top.call
                         /\ g.next = Top.next
                         /\ (Allocate => g.pc = "allocating")
                         /\ (~Allocate => g.pc # "allocating")
                         /\ (Call => g.got = whole)
                         /\ (ForeignReturns => g.got = Top.got)
  <2>1. ASSUME NEW pc \in {"allocating", "foreign", "result"}, NEW got \in SUBSET Arg
        PROVE  LET h == [Top EXCEPT !.pc = pc, !.got = got] IN
               /\ h \in Frame /\ h.pc = pc /\ h.got = got /\ h.aggrs = Top.aggrs
               /\ h.next = Top.next
               /\ h.fn = Top.fn /\ h.vm = Top.vm /\ h.call = Top.call
    BY <1>2, <2>1 DEF Frame, Pcs
  <2>2. Top.got \in SUBSET Arg
    BY <1>2 DEF Frame
  <2>3. CASE Allocate
    <3>1. SetTop([Top EXCEPT !.pc = "allocating", !.got = Top.got]) /\ Top.pc = "loading"
      BY <1>2, <2>3 DEF Allocate, At, Frame
    <3>2. ~ForeignReturns
      BY <3>1 DEF ForeignReturns, At
    <3>3. ~Call
      BY <2>3 DEF Allocate, Call, At
    <3>. QED  BY <2>1, <2>2, <3>1, <3>2, <3>3
  <2>4. CASE Call
    <3>1. /\ SetTop([Top EXCEPT !.pc = "foreign", !.got = whole])
          /\ Top.pc \in {"loading", "allocating"} /\ ~Allocate
      BY <2>4 DEF Call, Allocate, At, whole
    <3>2. ~ForeignReturns
      BY <3>1 DEF ForeignReturns, At
    <3>. QED  BY <1>3, <2>1, <3>1, <3>2
  <2>5. CASE ForeignReturns
    <3>1. SetTop([Top EXCEPT !.pc = "result", !.got = Top.got]) /\ Top.pc = "foreign"
      BY <1>2, <2>5 DEF ForeignReturns, At, Frame
    <3>2. ~Allocate /\ ~Call
      BY <3>1 DEF Allocate, Call, At
    <3>. DEFINE h == [Top EXCEPT !.pc = "result", !.got = Top.got]
    <3>3. /\ h \in Frame /\ h.pc = "result" /\ h.got = Top.got
          /\ h.aggrs = Top.aggrs /\ h.next = Top.next
          /\ h.fn = Top.fn /\ h.vm = Top.vm /\ h.call = Top.call
      BY <1>2, <2>2 DEF Frame, Pcs
    <3>4. SetTop(h)
      BY <3>1
    <3>. HIDE DEF h
    <3>. QED  BY <2>5, <3>2, <3>3, <3>4
  <2>. QED  BY <2>3, <2>4, <2>5
<1>5. descriptors' = descriptors + 0 /\ g.aggrs = Top.aggrs + 0
  BY <1>1, <1>2, <1>4 DEF TypeInv, TypeOK, Frame
<1>6. Accounted' /\ frames' \in Seq(Frame)
  BY <1>1, <1>4, <1>5, SetTopAccounted, SetTopShape DEF TypeInv
<1>7. TypeOK'
  BY <1>1, <1>6 DEF TypeInv, TypeOK
<1>. QED  BY <1>1, <1>4, <1>6, <1>7 DEF TypeInv, whole

LEMMA LeaveDoes ==
  ASSUME TypeInv, Fail \/ Finish
  PROVE  TypeInv' /\ frames # << >> /\ Pop /\ UNCHANGED vm
<1>1. frames # << >> /\ Pop /\ UNCHANGED <<vm, calls>>
  BY DEF Fail, Finish, At
<1>2. \/ descriptors' = descriptors - Top.aggrs /\ UNCHANGED failures
      \/ descriptors' = descriptors /\ failures' = failures + 1
  BY DEF Fail, Finish
<1>3. Accounted' /\ descriptors' \in Nat /\ frames' \in Seq(Frame)
  BY <1>1, <1>2, PopAccounted, PopShape DEF TypeInv
<1>4. TypeOK'
  BY <1>1, <1>2, <1>3 DEF TypeInv, TypeOK
<1>. QED  BY <1>1, <1>3, <1>4 DEF TypeInv

LEMMA StayType ==
  ASSUME TypeInv, UNCHANGED vars
  PROVE  TypeInv'
BY DEF vars, TypeInv, TypeOK, Accounted, Sums, Depth

LEMMA NextType == TypeInv /\ [Next]_vars => TypeInv'
BY BeginDoes, LoadArgDoes, SwitchModeDoes, MoveDoes, LeaveDoes, StayType DEF Next

LEMMA InitType == Init => TypeInv
<1>. SUFFICES ASSUME Init PROVE TypeInv
  OBVIOUS
<1>1. [mode |-> "default", args |-> {}, regs |-> 0, used |-> 0,
       copied |-> 0, mem |-> [w \in 1..Room |-> Blank]] \in VM
  BY DEF VM, Modes, Blank, Word
<1>2. TypeOK /\ Depth = 0
  BY <1>1, EmptySeq DEF Init, TypeOK, Depth
<1>3. Sums([i \in 0..0 |-> 0], descriptors)
  BY <1>2 DEF Sums, Init
<1>. QED  BY <1>2, <1>3 DEF TypeInv, Accounted

\* The inductive invariant of types and descriptors.
THEOREM TypeInvariance == Spec => []TypeInv
BY InitType, NextType, PTL DEF Spec

\* Machines, frames and counters keep their types; the count of descriptors is
\* never negative, because a call frees only what it allocated.
THEOREM TypeCorrect == Spec => []TypeOK
<1>1. TypeInv => TypeOK
  BY DEF TypeInv
<1>. QED  BY <1>1, TypeInvariance, PTL

\* However calls nest, C_dyncall frees every descriptor it allocates: where no
\* call failed, none is left when the last one returns.
THEOREM NoDescriptorLeaks == Spec => []DescriptorsFreed
<1>1. TypeInv => DescriptorsFreed
  <2>. SUFFICES ASSUME TypeInv, frames = << >>, failures = 0 PROVE descriptors = 0
    BY DEF DescriptorsFreed, Quiet
  <2>1. Depth = 0
    BY EmptySeq DEF Depth
  <2>. QED  BY <2>1 DEF TypeInv, Accounted, Sums
<1>. QED  BY <1>1, TypeInvariance, PTL

-----------------------------------------------------------------------------
(* The arguments in place while a call loads them.                          *)

\* Every argument of a machine is whole; values lie below "used", copies in the
\* "copied" words at the end.
Solid(m, a) ==
  /\ Whole(m, a)
  /\ \A w \in Cells(a) : 1 <= w /\ w <= m.used
  /\ \A w \in Copied(a) : Room - m.copied < w /\ w <= Room
AllSolid(m) == m.used + m.copied <= Room /\ \A a \in m.args : Solid(m, a)

\* What may be written next harms no argument in place.
LEMMA FillKeeps ==
  ASSUME NEW m \in VM, AllSolid(m), NEW lo \in Int, NEW hi \in Int, NEW word \in Word,
         lo > m.used, hi <= Room - m.copied,
         NEW o \in VM, o.mem = Fill(m.mem, lo..hi, word), o.used >= m.used, o.copied >= m.copied,
         NEW a \in m.args
  PROVE  Solid(o, a)
<1>1. a \in Arg /\ m.used \in Nat /\ m.copied \in Nat /\ m.mem \in [1..Room -> Word]
      /\ o.used \in Nat /\ o.copied \in Nat /\ Solid(m, a) /\ m.used + m.copied <= Room /\ Room \in Nat
  BY CallVMAssumption DEF VM, AllSolid
<1>2. ASSUME NEW w \in 1..Room, w \notin lo..hi PROVE o.mem[w] = m.mem[w]
  BY <1>1, <1>2 DEF Fill
<1>3. ASSUME NEW w \in Cells(a)
      PROVE  o.mem[w] = WordOf(a, "value") /\ 1 <= w /\ w <= o.used
  <2>1. w \in Int /\ 1 <= w /\ w <= m.used /\ m.mem[w] = WordOf(a, "value")
    BY <1>1, <1>3 DEF Solid, Whole, Cells, Arg
  <2>. QED  BY <1>1, <1>2, <2>1
<1>4. ASSUME NEW w \in Copied(a)
      PROVE  o.mem[w] = WordOf(a, "copy") /\ w >= 1 /\ Room - o.copied < w /\ w <= Room
  <2>1. /\ w \in Int /\ w >= 1 /\ Room - m.copied < w /\ w <= Room
        /\ m.mem[w] = WordOf(a, "copy")
    BY <1>1, <1>4 DEF Solid, Whole, Copied, Arg
  <2>. QED  BY <1>1, <1>2, <2>1
<1>. QED  BY <1>3, <1>4 DEF Solid, Whole

\* A machine with the arguments of "old" and one more, and n words less room.
Added(new, old, arg, n) ==
  /\ AllSolid(new) /\ new \in VM
  /\ new.used + new.copied <= old.used + old.copied + n
  /\ \E a \in Arg : a.call = arg.call /\ a.pos = arg.pos /\ new.args = old.args \cup {a}

\* The copy of a large aggregate is there when its address is placed.
CopyThere(m, arg) ==
  \A w \in Copied(arg) : /\ w >= 1 /\ Room - m.copied < w /\ w <= Room
                         /\ m.mem[w] = WordOf(arg, "copy")

LEMMA ToVectorAdds ==
  ASSUME NEW m \in VM, AllSolid(m), NEW arg \in Arg, arg.at = m.used + 1, CopyThere(m, arg),
         m.used + m.copied + arg.n <= Room
  PROVE  Added(ToVector(m, arg), m, arg, arg.n)
<1>. DEFINE mem == Fill(m.mem, Cells(arg), WordOf(arg, "value"))
            used == m.used + arg.n
            new == [m EXCEPT !.args = @ \cup {arg}, !.used = used, !.mem = mem]
<1>1. /\ m.used \in Nat /\ m.copied \in Nat /\ arg.n \in Nat /\ arg.at \in Nat /\ Room \in Nat
      /\ m.mem \in [1..Room -> Word] /\ m.args \subseteq Arg
  BY CallVMAssumption DEF VM, Arg
<1>2. mem \in [1..Room -> Word] /\ used \in Nat
  BY <1>1, FillType, WordOfType
<1>3. ToVector(m, arg) = new
  BY <1>1 DEF ToVector, VM
<1>4. Cells(arg) = m.used + 1..used
  BY <1>1 DEF Cells
<1>. HIDE DEF mem, used
<1>5. /\ new \in VM /\ new.args = m.args \cup {arg} /\ new.used = used /\ new.mem = mem
      /\ new.copied = m.copied
  BY <1>2 DEF VM
<1>. HIDE DEF new
<1>6. used = m.used + arg.n /\ mem = Fill(m.mem, m.used + 1..used, WordOf(arg, "value"))
  BY <1>4 DEF mem, used
<1>7. ASSUME NEW a \in m.args PROVE Solid(new, a)
  <2>1. WordOf(arg, "value") \in Word
    BY WordOfType
  <2>2. /\ m.used + 1 \in Int /\ used \in Int /\ m.used + 1 > m.used /\ used <= Room - m.copied
        /\ new.used >= m.used /\ new.copied >= m.copied
    BY <1>1, <1>5, <1>6
  <2>. QED  BY <1>5, <1>6, <2>1, <2>2, FillKeeps
<1>8. Solid(new, arg)
  <2>1. ASSUME NEW w \in Cells(arg)
        PROVE  new.mem[w] = WordOf(arg, "value") /\ 1 <= w /\ w <= new.used
    BY <1>1, <1>4, <1>5, <1>6, <2>1 DEF Fill
  <2>2. ASSUME NEW w \in Copied(arg)
        PROVE  /\ new.mem[w] = WordOf(arg, "copy")
               /\ w >= 1 /\ Room - new.copied < w /\ w <= Room
    <3>1. /\ w \in Int /\ w >= 1 /\ Room - m.copied < w /\ w <= Room
          /\ m.mem[w] = WordOf(arg, "copy")
      BY <2>2 DEF CopyThere, Copied, Arg
    <3>2. w \in 1..Room /\ w \notin m.used + 1..used
      BY <1>1, <1>6, <3>1
    <3>. QED  BY <1>1, <1>5, <1>6, <3>1, <3>2 DEF Fill
  <2>. QED  BY <2>1, <2>2 DEF Solid, Whole
<1>9. AllSolid(new) /\ new.used + new.copied <= m.used + m.copied + arg.n
  BY <1>1, <1>5, <1>6, <1>7, <1>8 DEF AllSolid
<1>. QED  BY <1>3, <1>5, <1>9 DEF Added

\* Registers keep no word of the vector.
LEMMA PlaceWordsAdds ==
  ASSUME NEW m \in VM, AllSolid(m), NEW arg \in Arg, NEW n \in Nat, arg.at = 1, arg.n = 0,
         CopyThere(m, arg), m.used + m.copied + n <= Room
  PROVE  Added(PlaceWords(m, arg, n), m, arg, n)
<1>0. m.used \in Nat /\ m.copied \in Nat /\ m.regs \in Nat /\ Room \in Nat
  BY CallVMAssumption DEF VM
<1>1. CASE InRegisters(m, n)
  <2>. DEFINE regs == m.regs + n
              new == [m EXCEPT !.args = @ \cup {arg}, !.regs = regs]
  <2>1. regs \in Nat
    BY <1>0
  <2>2. PlaceWords(m, arg, n) = new
    BY <1>1 DEF PlaceWords, VM
  <2>. HIDE DEF regs
  <2>3. /\ new \in VM /\ new.args = m.args \cup {arg} /\ new.used = m.used /\ new.mem = m.mem
        /\ new.copied = m.copied
    BY <2>1 DEF VM
  <2>. HIDE DEF new
  <2>4. Cells(arg) = {}
    BY DEF Cells
  <2>5. Solid(new, arg)
    BY <2>3, <2>4 DEF Solid, Whole, CopyThere
  <2>6. \A a \in m.args : Solid(new, a)
    BY <2>3 DEF AllSolid, Solid, Whole
  <2>7. AllSolid(new) /\ new.used + new.copied <= m.used + m.copied + n
    BY <1>0, <2>3, <2>5, <2>6 DEF AllSolid
  <2>. QED  BY <2>2, <2>3, <2>7 DEF Added
<1>2. CASE ~InRegisters(m, n)
  <2>. DEFINE regs == IF n = 2 /\ m.mode # "varargs" THEN NRegs ELSE m.regs
              old == [m EXCEPT !.regs = regs]
              at == m.used + 1
              put == [arg EXCEPT !.at = at, !.n = n]
  <2>1. /\ old \in VM /\ old.args = m.args /\ old.used = m.used /\ old.mem = m.mem
        /\ old.copied = m.copied
    BY CallVMAssumption DEF VM
  <2>2. at \in Nat
    BY <1>0
  <2>3. PlaceWords(m, arg, n) = ToVector(old, put)
    BY <1>2 DEF PlaceWords
  <2>4. at = old.used + 1
    BY <2>1
  <2>. HIDE DEF at, old
  <2>5. /\ put \in Arg /\ put.call = arg.call /\ put.pos = arg.pos /\ put.at = at /\ put.n = n
        /\ put.copy = arg.copy /\ put.m = arg.m
    BY <2>2 DEF Arg
  <2>. HIDE DEF put
  <2>6. WordOf(put, "copy") = WordOf(arg, "copy") /\ Copied(put) = Copied(arg)
    BY <2>5 DEF WordOf, Copied
  <2>7. CopyThere(old, put)
    BY <2>1, <2>6 DEF CopyThere
  <2>8. AllSolid(old)
    BY <2>1 DEF AllSolid, Solid, Whole
  <2>9. Added(ToVector(old, put), old, put, n)
    BY <2>1, <2>4, <2>5, <2>7, <2>8, ToVectorAdds
  <2>. QED  BY <2>1, <2>3, <2>5, <2>9 DEF Added
<1>. QED  BY <1>1, <1>2

\* The room an argument may take.
Need(token) == IF token = "big" THEN BigWords + 2 ELSE 2

\* The copy of b words fits between the u words in use and the c words copied.
LEMMA CopyFits ==
  ASSUME NEW u \in Nat, NEW c \in Nat, NEW b \in Nat, NEW r \in Nat, NEW g \in Nat,
         g = c + b, u + g + 2 <= r
  PROVE  r - c - b + 1 > u /\ c <= g /\ r - c - b + 1 = r - g + 1 /\ r - c <= r - c
OBVIOUS

LEMMA PlaceAdds ==
  ASSUME NEW m \in VM, AllSolid(m), NEW call \in Nat, NEW pos \in Nat, NEW token \in Words,
         m.used + m.copied + Need(token) <= Room
  PROVE  LET new == Place(m, call, pos, token) IN
         /\ AllSolid(new) /\ new.used + new.copied <= m.used + m.copied + Need(token)
         /\ \E a \in Arg : a.call = call /\ a.pos = pos /\ new.args = m.args \cup {a}
<1>. DEFINE arg == [call |-> call, pos |-> pos, mode |-> m.mode,
                    at |-> 1, n |-> 0, copy |-> 1, m |-> 0]
<1>1. /\ m.mode \in Modes /\ m.copied \in Nat /\ m.used \in Nat /\ BigWords \in Nat /\ Room \in Nat
      /\ m.mem \in [1..Room -> Word] /\ m.args \subseteq Arg
  BY CallVMAssumption DEF VM
<1>2. /\ arg \in Arg /\ arg.call = call /\ arg.pos = pos /\ arg.at = 1 /\ arg.n = 0
      /\ arg.copy = 1 /\ arg.m = 0
  BY <1>1 DEF Arg
<1>3. CASE ~ByAddress(m, token)
  <2>1. Place(m, call, pos, token) = PlaceWords(m, arg, Size(token))
    BY <1>3 DEF Place
  <2>. HIDE DEF arg
  <2>2. Size(token) \in Nat /\ Size(token) <= Need(token) /\ Need(token) \in Nat
    BY <1>1 DEF Size, Need, Words, Aggregates
  <2>3. Copied(arg) = {}
    BY <1>2 DEF Copied
  <2>4. CopyThere(m, arg)
    BY <2>3 DEF CopyThere
  <2>5. m.used + m.copied + Size(token) <= Room
    BY <1>1, <2>2
  <2>6. Added(PlaceWords(m, arg, Size(token)), m, arg, Size(token))
    BY <1>2, <2>2, <2>4, <2>5, PlaceWordsAdds
  <2>7. PICK new : new = PlaceWords(m, arg, Size(token))
    OBVIOUS
  <2>8. new.used + new.copied <= m.used + m.copied + Need(token)
    BY <1>1, <2>2, <2>6, <2>7 DEF Added, VM
  <2>. QED  BY <1>2, <2>1, <2>6, <2>7, <2>8 DEF Added
<1>4. m.copied \in Nat /\ m.used \in Nat /\ BigWords \in Nat /\ Room \in Nat
  BY <1>1
<1>5. CASE ByAddress(m, token)
  <2>1. PICK top \in Int : top = Room - m.copied
    BY <1>1
  <2>2. PICK low \in Int : low = Room - m.copied - BigWords + 1
    BY <1>1
  <2>3. PICK gone \in Nat : gone = m.copied + BigWords
    BY <1>1
  <2>4. PICK far \in Arg : far = [arg EXCEPT !.copy = low, !.m = BigWords]
    BY <1>1, <1>2 DEF Arg
  <2>5. /\ far.call = call /\ far.pos = pos /\ far.at = 1 /\ far.n = 0
        /\ far.copy = low /\ far.m = BigWords
    BY <1>2, <2>4
  <2>6. PICK word \in Word : word = WordOf(far, "copy")
    BY WordOfType
  <2>7. Copied(far) = low..top
    <3>1. low + BigWords - 1 = top
      <4>. HIDE DEF arg
      <4>1. PICK r \in Nat, c \in Nat, b \in Nat : r = Room /\ c = m.copied /\ b = BigWords
        BY <1>4
      <4>2. r - c - b + 1 + b - 1 = r - c
        OBVIOUS
      <4>. QED  BY <2>1, <2>2, <4>1, <4>2
    <3>. QED  BY <2>5, <3>1 DEF Copied
  <2>8. PICK mem \in [1..Room -> Word] : mem = Fill(m.mem, low..top, word)
    BY <1>1, FillType
  <2>9. PICK mid \in VM : mid = [m EXCEPT !.copied = gone, !.mem = mem]
    BY DEF VM
  <2>10. mid.args = m.args /\ mid.used = m.used /\ mid.mem = mem /\ mid.copied = gone
    BY <2>9 DEF VM
  <2>11. Place(m, call, pos, token) = PlaceWords(mid, far, 1)
    BY <1>5, <2>2, <2>3, <2>4, <2>6, <2>7, <2>8, <2>9 DEF Place
  <2>. HIDE DEF arg
  <2>12. token = "big"
    BY <1>5 DEF ByAddress
  <2>13. Need(token) = BigWords + 2
    BY <2>12 DEF Need
  <2>14. m.used + gone + 2 <= Room
    BY <1>1, <2>3, <2>13
  <2>15. low > m.used /\ top <= Room - m.copied /\ m.copied <= gone /\ low = Room - gone + 1
    <3>1. /\ Room - m.copied - BigWords + 1 > m.used /\ m.copied <= gone
          /\ Room - m.copied - BigWords + 1 = Room - gone + 1 /\ Room - m.copied <= Room - m.copied
      <4>1. PICK u \in Nat, c \in Nat, b \in Nat, r \in Nat :
              u = m.used /\ c = m.copied /\ b = BigWords /\ r = Room
        BY <1>4
      <4>2. gone = c + b /\ u + gone + 2 <= r
        BY <2>3, <2>14, <4>1
      <4>3. /\ r - c - b + 1 > u /\ c <= gone
            /\ r - c - b + 1 = r - gone + 1 /\ r - c <= r - c
        BY <4>2, CopyFits
      <4>. QED  BY <4>1, <4>3
    <3>. QED  BY <2>1, <2>2, <3>1
  <2>16. ASSUME NEW a \in m.args PROVE Solid(mid, a)
    <3>1. mid.used >= m.used /\ mid.copied >= m.copied
      BY <1>1, <2>10, <2>15
    <3>. QED  BY <2>8, <2>10, <2>15, <3>1, FillKeeps
  <2>17. AllSolid(mid)
    BY <1>1, <2>10, <2>14, <2>16 DEF AllSolid
  <2>18. ASSUME NEW w \in Copied(far)
         PROVE  /\ w >= 1 /\ Room - mid.copied < w /\ w <= Room
                /\ mid.mem[w] = WordOf(far, "copy")
    <3>1. w \in low..top
      BY <2>7, <2>18
    <3>2. w \in 1..Room /\ Room - gone < w
      BY <1>1, <2>1, <2>14, <2>15, <3>1
    <3>. QED  BY <1>1, <2>6, <2>8, <2>10, <3>1, <3>2 DEF Fill
  <2>19. CopyThere(mid, far)
    BY <2>18 DEF CopyThere
  <2>20. mid.used + mid.copied + 1 <= Room
    BY <1>1, <2>10, <2>14
  <2>21. Added(PlaceWords(mid, far, 1), mid, far, 1)
    BY <2>5, <2>17, <2>19, <2>20, PlaceWordsAdds
  <2>22. PICK new : new = PlaceWords(mid, far, 1)
    OBVIOUS
  <2>23. new.used \in Nat /\ new.copied \in Nat /\ new.used + new.copied <= m.used + gone + 1
    BY <2>10, <2>21, <2>22 DEF Added, VM
  <2>24. new.used + new.copied <= m.used + m.copied + Need(token)
    <3>1. ASSUME NEW x \in Nat, NEW u \in Nat, NEW c \in Nat, NEW b \in Nat, NEW g \in Nat,
                 g = c + b, x <= u + g + 1
          PROVE  x <= u + c + (b + 2)
      BY <3>1
    <3>2. new.used + new.copied \in Nat
      BY <2>23
    <3>3. new.used + new.copied <= m.used + m.copied + (BigWords + 2)
      BY <1>4, <2>3, <2>23, <3>1, <3>2
    <3>. QED  BY <2>13, <3>3
  <2>. QED  BY <2>5, <2>10, <2>11, <2>21, <2>22, <2>24 DEF Added
<1>. QED  BY <1>3, <1>5

-----------------------------------------------------------------------------
(* Each call finds its own arguments, a variadic one by its own modes.      *)

BigUpTo(f, n) == {k \in Big(f) : k <= n}
PosUpTo(f, n) == {k \in ArgPos(f) : k <= n}

\* The machine of a call that has loaded the first n tokens of its signature,
\* where nothing can be dropped.
LoadedIn(m, f, call, n) ==
  Fits(f) => /\ AllSolid(m)
             /\ m.used + m.copied <= 2 * n + BigWords * Cardinality(BigUpTo(f, n))
             /\ {<<a.call, a.pos>> : a \in m.args} = {<<call, k>> : k \in PosUpTo(f, n)}

\* The machine of such a call of dyncall_variadic().
ModesIn(m, f, n) ==
  /\ Variadic(f)
  /\ n > 0 => m.mode = AskedMode(f, n + 1)
  /\ \A a \in m.args : a.mode = AskedMode(f, a.pos)

Good(g, m) ==
  /\ g.next <= Len(Sig[g.fn])
  /\ g.pc = "allocating" => Res[g.fn] = "aggr"
  /\ g.pc = "loading" => /\ LoadedIn(m, g.fn, g.call, g.next)
                         /\ g.vm = "variadic" => ModesIn(m, g.fn, g.next)
  /\ Called(g) /\ Res[g.fn] # "aggr" =>
       /\ Fits(g.fn) => {<<a.call, a.pos>> : a \in g.got} = {<<g.call, k>> : k \in ArgPos(g.fn)}
       /\ g.vm = "variadic" => \A a \in g.got : a.mode = AskedMode(g.fn, a.pos)

\* Only the innermost call is still loading: a call below has left its machine.
LoadInv ==
  \A i \in 1..Depth : /\ Good(frames[i], vm[frames[i].vm])
                      /\ i # Depth => frames[i].pc # "loading"

LEMMA SigType == ASSUME NEW f \in Functions PROVE Sig[f] \in Seq(Tokens) /\ Len(Sig[f]) \in Nat
BY CallVMAssumption, LenProperties

\* What a prefix, and what an argument, makes of the mode asked for.
LEMMA AskedStep ==
  ASSUME NEW f \in Functions, NEW n \in 1..Len(Sig[f])
  PROVE  AskedMode(f, n + 1) = IF Sig[f][n] \notin Prefixes THEN AskedMode(f, n)
                               ELSE IF Sig[f][n] = "_." THEN "varargs" ELSE "ellipsis"
<1>1. n \in Nat /\ n \in 1..(n + 1) - 1
  BY SigType
<1>2. CASE Sig[f][n] \notin Prefixes
  <2>1. Before(f, n + 1) = Before(f, n)
    BY <1>1, <1>2 DEF Before
  <2>. QED  BY <1>2, <2>1 DEF AskedMode
<1>3. CASE Sig[f][n] \in Prefixes
  <2>1. n \in Before(f, n + 1) /\ \A i \in Before(f, n + 1) : i \in Nat /\ i <= n
    BY <1>1, <1>3 DEF Before
  <2>2. (CHOOSE j \in Before(f, n + 1) : \A i \in Before(f, n + 1) : i <= j) = n
    BY <1>1, <2>1
  <2>. QED  BY <1>3, <2>1, <2>2 DEF AskedMode
<1>. QED  BY <1>2, <1>3

LEMMA Times == ASSUME NEW b \in Nat, NEW c \in Nat, NEW d \in Nat, c <= d
               PROVE  b * c <= b * d /\ b * c \in Nat /\ b * d \in Nat /\ b * (c + 1) = b * c + b
OBVIOUS

\* Room for one more argument, and how much it may take.
LEMMA RoomLeft ==
  ASSUME NEW f \in Functions, NEW n \in Nat, n < Len(Sig[f]), Sig[f][n + 1] \in Words, Fits(f)
  PROVE  LET t == 2 * (n + 1) + BigWords * Cardinality(BigUpTo(f, n + 1)) IN
         /\ t \in Nat /\ t <= Room
         /\ 2 * n + BigWords * Cardinality(BigUpTo(f, n)) + Need(Sig[f][n + 1]) = t
<1>. DEFINE all == Big(f)
            more == BigUpTo(f, n + 1)
            less == BigUpTo(f, n)
<1>1. Len(Sig[f]) \in Nat /\ BigWords \in Nat
  BY SigType, CallVMAssumption
<1>2. IsFiniteSet(1..Len(Sig[f]))
  BY <1>1, FS_Interval
<1>3. all \subseteq 1..Len(Sig[f]) /\ more \subseteq all /\ less \subseteq all
  BY DEF Big, ArgPos, BigUpTo
<1>4. IsFiniteSet(all) /\ IsFiniteSet(more) /\ IsFiniteSet(less)
  BY <1>2, <1>3, FS_Subset
<1>5. /\ Cardinality(all) \in Nat /\ Cardinality(more) \in Nat /\ Cardinality(less) \in Nat
      /\ Cardinality(more) <= Cardinality(all)
  BY <1>3, <1>4, FS_CardinalityType, FS_Subset
<1>6. IF Sig[f][n + 1] = "big" THEN Cardinality(more) = Cardinality(less) + 1
                               ELSE more = less
  <2>1. CASE Sig[f][n + 1] = "big"
    <3>1. n + 1 \in all /\ n + 1 \notin less /\ more = less \cup {n + 1}
      BY <1>1, <2>1 DEF Big, ArgPos, BigUpTo, Words, Aggregates
    <3>. QED  BY <1>4, <2>1, <3>1, FS_AddElement
  <2>2. CASE Sig[f][n + 1] # "big"
    <3>1. n + 1 \notin all
      BY <2>2 DEF Big
    <3>2. more = less
      BY <1>1, <1>3, <3>1 DEF BigUpTo
    <3>. QED  BY <2>2, <3>2
  <2>. QED  BY <2>1, <2>2
<1>7. 2 * Len(Sig[f]) + BigWords * Cardinality(all) <= Room
  BY DEF Fits
<1>. HIDE DEF all, more, less
<1>8. PICK c \in Nat, d \in Nat, e \in Nat :
        c = Cardinality(all) /\ d = Cardinality(more) /\ e = Cardinality(less)
  BY <1>5
<1>9. BigWords * d <= BigWords * c /\ BigWords * d \in Nat /\ BigWords * c \in Nat
  BY <1>1, <1>5, <1>8, Times
<1>10. 2 * (n + 1) + BigWords * d \in Nat /\ 2 * (n + 1) + BigWords * d <= Room
  <2>1. PICK x \in Nat, y \in Nat, z \in Nat :
          x = BigWords * d /\ y = BigWords * c /\ z = Len(Sig[f])
    BY <1>1, <1>9
  <2>2. x <= y /\ 2 * z + y <= Room /\ n + 1 <= z /\ Room \in Nat
    BY <1>7, <1>8, <1>9, <2>1, CallVMAssumption
  <2>3. 2 * (n + 1) + x \in Nat /\ 2 * (n + 1) + x <= Room
    BY <2>2
  <2>. QED  BY <2>1, <2>3
<1>11. 2 * n + BigWords * e + Need(Sig[f][n + 1]) = 2 * (n + 1) + BigWords * d
  <2>1. CASE Sig[f][n + 1] = "big"
    <3>1. d = e + 1 /\ BigWords * (e + 1) = BigWords * e + BigWords /\ BigWords * e \in Nat
      BY <1>1, <1>6, <1>8, <2>1, Times
    <3>. QED  BY <1>1, <2>1, <3>1 DEF Need
  <2>2. CASE Sig[f][n + 1] # "big"
    <3>1. d = e
      BY <1>6, <1>8, <2>2
    <3>. QED  BY <1>9, <2>2, <3>1 DEF Need
  <2>. QED  BY <2>1, <2>2
<1>. QED  BY <1>8, <1>10, <1>11 DEF more, less

LEMMA BigTimes ==
  ASSUME NEW f \in Functions, NEW n \in Nat
  PROVE  BigWords * Cardinality(BigUpTo(f, n)) \in Int
<1>1. BigUpTo(f, n) \subseteq 1..Len(Sig[f]) /\ Len(Sig[f]) \in Nat
  BY SigType DEF Big, ArgPos, BigUpTo
<1>2. IsFiniteSet(1..Len(Sig[f]))
  BY <1>1, FS_Interval
<1>3. IsFiniteSet(BigUpTo(f, n))
  BY <1>1, <1>2, FS_Subset
<1>4. Cardinality(BigUpTo(f, n)) \in Nat
  BY <1>3, FS_CardinalityType
<1>. QED  BY <1>4, CallVMAssumption

LEMMA LoadNext ==
  ASSUME NEW m \in VM, AllSolid(m), NEW call \in Nat, NEW n \in Nat, NEW token \in Words,
         m.used + m.copied + Need(token) <= Room
  PROVE  LET new == Place(m, call, n + 1, token) IN
         /\ AllSolid(new) /\ new.used + new.copied <= m.used + m.copied + Need(token)
         /\ \E a \in Arg : a.call = call /\ a.pos = n + 1 /\ new.args = m.args \cup {a}
<1>1. PICK pos \in Nat : pos = n + 1
  OBVIOUS
<1>2. LET new == Place(m, call, pos, token) IN
      /\ AllSolid(new) /\ new.used + new.copied <= m.used + m.copied + Need(token)
      /\ \E a \in Arg : a.call = call /\ a.pos = pos /\ new.args = m.args \cup {a}
  BY PlaceAdds
<1>. QED  BY <1>1, <1>2

LEMMA LoadStep ==
  ASSUME NEW m \in VM, NEW f \in Functions, NEW call \in Nat, NEW n \in Nat,
         n < Len(Sig[f]), Sig[f][n + 1] \in Words, LoadedIn(m, f, call, n)
  PROVE  LoadedIn(Place(m, call, n + 1, Sig[f][n + 1]), f, call, n + 1)
<1>. SUFFICES ASSUME Fits(f)
     PROVE  LET new == Place(m, call, n + 1, Sig[f][n + 1]) IN
            /\ AllSolid(new)
            /\ new.used + new.copied <= 2 * (n + 1) + BigWords * Cardinality(BigUpTo(f, n + 1))
            /\ {<<a.call, a.pos>> : a \in new.args} = {<<call, k>> : k \in PosUpTo(f, n + 1)}
  BY DEF LoadedIn
<1>. DEFINE token == Sig[f][n + 1]
            new == Place(m, call, n + 1, token)
            t == 2 * (n + 1) + BigWords * Cardinality(BigUpTo(f, n + 1))
            s == 2 * n + BigWords * Cardinality(BigUpTo(f, n))
<1>1. /\ AllSolid(m) /\ m.used + m.copied <= s
      /\ {<<a.call, a.pos>> : a \in m.args} = {<<call, k>> : k \in PosUpTo(f, n)}
  BY DEF LoadedIn
<1>2. t \in Nat /\ t <= Room /\ s + Need(token) = t
  BY RoomLeft
<1>3. new \in VM /\ m.used \in Nat /\ m.copied \in Nat
  <2>1. n + 1 \in Nat
    OBVIOUS
  <2>2. GrownAt(new, m, n + 1)
    BY <2>1, PlaceGrows
  <2>. QED  BY <2>2 DEF GrownAt, VM
<1>4. Need(token) \in Nat /\ Room \in Nat
  BY CallVMAssumption DEF Need
<1>5. s \in Int
  BY BigTimes
<1>. HIDE DEF s, t
<1>6. m.used + m.copied + Need(token) <= t
  BY <1>1, <1>2, <1>3, <1>4, <1>5
<1>7. m.used + m.copied + Need(token) <= Room
  BY <1>2, <1>3, <1>4, <1>6
<1>8. /\ AllSolid(new) /\ new.used + new.copied <= m.used + m.copied + Need(token)
      /\ \E a \in Arg : a.call = call /\ a.pos = n + 1 /\ new.args = m.args \cup {a}
  BY <1>1, <1>7, LoadNext
<1>. HIDE DEF new
<1>9. new.used + new.copied <= t
  BY <1>2, <1>3, <1>4, <1>6, <1>8 DEF VM
<1>10. PosUpTo(f, n + 1) = PosUpTo(f, n) \cup {n + 1}
  BY SigType DEF PosUpTo, ArgPos
<1>11. {<<a.call, a.pos>> : a \in new.args} = {<<call, k>> : k \in PosUpTo(f, n + 1)}
  <2>1. PICK a \in Arg : a.call = call /\ a.pos = n + 1 /\ new.args = m.args \cup {a}
    BY <1>8
  <2>2. {<<b.call, b.pos>> : b \in new.args} = {<<b.call, b.pos>> : b \in m.args} \cup {<<call, n + 1>>}
    BY <2>1
  <2>3. {<<call, k>> : k \in PosUpTo(f, n + 1)} = {<<call, k>> : k \in PosUpTo(f, n)} \cup {<<call, n + 1>>}
    BY <1>10
  <2>. QED  BY <1>1, <2>2, <2>3
<1>. QED  BY <1>8, <1>9, <1>11 DEF new, t

LEMMA ModeStep ==
  ASSUME NEW m \in VM, NEW f \in Functions, NEW call \in Nat, NEW n \in Nat,
         n < Len(Sig[f]), Sig[f][n + 1] \in Words, ModesIn(m, f, n)
  PROVE  ModesIn(Place(m, call, n + 1, Sig[f][n + 1]), f, n + 1)
<1>1. n + 1 \in 1..Len(Sig[f]) /\ Sig[f][n + 1] \notin Prefixes
  BY SigType DEF Words, Aggregates, Prefixes
<1>2. n > 0
  BY <1>1 DEF ModesIn, Variadic, Prefixes
<1>3. AskedMode(f, (n + 1) + 1) = AskedMode(f, n + 1)
  BY <1>1, AskedStep
<1>4. GrownAt(Place(m, call, n + 1, Sig[f][n + 1]), m, n + 1)
  BY <1>1, PlaceGrows
<1>. QED  BY <1>2, <1>3, <1>4 DEF ModesIn, GrownAt

\* A frame that is not loading does not depend on its machine any more.
LEMMA GoodApart ==
  ASSUME NEW g, NEW m, NEW o, Good(g, m), g.pc # "loading"
  PROVE  Good(g, o)
BY DEF Good

LEMMA SetTopGood ==
  ASSUME TypeInv, LoadInv, frames # << >>, NEW g \in Frame, SetTop(g), Good(g, vm'[g.vm])
  PROVE  LoadInv'
<1>1. /\ Depth \in Nat /\ Depth' = Depth /\ frames'[Depth] = g
      /\ \A i \in 1..Depth : i # Depth => frames'[i] = frames[i]
  BY SetTopShape, DepthType DEF TypeInv
<1>2. ASSUME NEW i \in 1..Depth', i # Depth
      PROVE  Good(frames'[i], vm'[frames'[i].vm]) /\ frames'[i].pc # "loading"
  BY <1>1, <1>2, GoodApart DEF LoadInv
<1>. QED  BY <1>1, <1>2 DEF LoadInv

LEMMA PushGood ==
  ASSUME TypeInv, LoadInv, RRuns, NEW g \in Frame, frames' = Append(frames, g), Good(g, vm'[g.vm])
  PROVE  LoadInv'
<1>1. /\ Depth \in Nat /\ Depth' = Depth + 1 /\ frames'[Depth + 1] = g
      /\ \A i \in 1..Depth : frames'[i] = frames[i]
  BY PushShape, DepthType DEF TypeInv
<1>2. ASSUME NEW i \in 1..Depth PROVE frames[i].pc # "loading"
  <2>1. CASE i = Depth
    <3>1. frames # << >>
      BY <1>2, <2>1, EmptySeq DEF Depth
    <3>. QED  BY <2>1, <3>1 DEF RRuns, At, Top
  <2>. QED  BY <2>1 DEF LoadInv
<1>3. ASSUME NEW i \in 1..Depth', i # Depth'
      PROVE  Good(frames'[i], vm'[frames'[i].vm]) /\ frames'[i].pc # "loading"
  <2>1. i \in 1..Depth
    BY <1>1, <1>3
  <2>. QED  BY <1>1, <1>2, <2>1, GoodApart DEF LoadInv
<1>. QED  BY <1>1, <1>3 DEF LoadInv

LEMMA PopGood ==
  ASSUME TypeInv, LoadInv, frames # << >>, Pop, UNCHANGED vm
  PROVE  LoadInv'
<1>1. /\ Depth \in Nat \ {0} /\ Depth' = Depth - 1
      /\ \A i \in 1..Depth' : frames'[i] = frames[i]
  BY PopShape, TopIsFrame DEF TypeInv
<1>2. ASSUME NEW i \in 1..Depth' PROVE i \in 1..Depth /\ i # Depth
  BY <1>1
<1>. QED  BY <1>1, <1>2 DEF LoadInv

LEMMA TopGood ==
  ASSUME TypeInv, LoadInv, frames # << >>
  PROVE  Good(Top, vm[Top.vm]) /\ Top \in Frame /\ vm[Top.vm] \in VM
BY TopIsFrame DEF TypeInv, TypeOK, LoadInv, Frame

LEMMA BeginLoads ==
  ASSUME TypeInv, LoadInv, NEW v \in VMs, NEW f \in Functions, Begin(v, f)
  PROVE  LoadInv'
<1>. DEFINE new == NewFrame(v, f)
<1>1. /\ new.fn = f /\ new.vm = v /\ new.pc = "loading" /\ new.next = 0 /\ new.call = calls
  BY DEF NewFrame
<1>2. /\ new \in Frame /\ frames' = Append(frames, new)
      /\ vm'[v] \in VM /\ vm'[v].args = {} /\ vm'[v].used = 0 /\ vm'[v].copied = 0
  BY BeginDoes
<1>3. RRuns /\ (v = "variadic" => Variadic(f))
  BY DEF Begin
<1>. HIDE DEF new
<1>4. BigUpTo(f, 0) = {} /\ PosUpTo(f, 0) = {}
  BY DEF BigUpTo, PosUpTo, Big, ArgPos
<1>5. LoadedIn(vm'[v], f, calls, 0)
  <2>1. BigWords * Cardinality(BigUpTo(f, 0)) = 0
    <3>1. Cardinality(BigUpTo(f, 0)) = 0
      BY <1>4, FS_EmptySet
    <3>. QED  BY <3>1, CallVMAssumption
  <2>2. AllSolid(vm'[v])
    BY <1>2, CallVMAssumption DEF AllSolid
  <2>3. vm'[v].used + vm'[v].copied <= 2 * 0 + BigWords * Cardinality(BigUpTo(f, 0))
    BY <1>2, <2>1
  <2>. QED  BY <1>2, <1>4, <2>2, <2>3 DEF LoadedIn
<1>6. v = "variadic" => ModesIn(vm'[v], f, 0)
  BY <1>2, <1>3 DEF ModesIn
<1>7. Good(new, vm'[new.vm])
  BY <1>1, <1>5, <1>6, SigType DEF Good, Called
<1>. QED  BY <1>2, <1>3, <1>7, PushGood

LEMMA LoadArgLoads == TypeInv /\ LoadInv /\ LoadArg => LoadInv'
<1>. SUFFICES ASSUME TypeInv, LoadInv, LoadArg PROVE LoadInv'
  OBVIOUS
<1>1. /\ frames # << >> /\ Top.pc = "loading" /\ Sig[Top.fn][Top.next + 1] \in Words
      /\ Top.next < Len(Sig[Top.fn])
  BY LoadArgDoes
<1>2. PICK g \in Frame : /\ SetTop(g) /\ g.pc = "loading" /\ g.next = Top.next + 1
                         /\ g.fn = Top.fn /\ g.vm = Top.vm /\ g.call = Top.call
  BY LoadArgDoes
<1>3. Good(Top, vm[Top.vm]) /\ Top \in Frame /\ vm[Top.vm] \in VM
  BY <1>1, TopGood
<1>4. Top.fn \in Functions /\ Top.call \in Nat /\ Top.next \in Nat /\ Top.vm \in VMs
  BY <1>3 DEF Frame
<1>5. vm'[Top.vm] = Place(vm[Top.vm], Top.call, Top.next + 1, Sig[Top.fn][Top.next + 1])
  BY <1>4 DEF LoadArg, Token, TypeInv, TypeOK
<1>6. LoadedIn(vm'[Top.vm], Top.fn, Top.call, Top.next + 1)
  BY <1>1, <1>3, <1>4, <1>5, LoadStep DEF Good
<1>7. Top.vm = "variadic" => ModesIn(vm'[Top.vm], Top.fn, Top.next + 1)
  BY <1>1, <1>3, <1>4, <1>5, ModeStep DEF Good
<1>8. Top.next + 1 <= Len(Sig[Top.fn])
  BY <1>1, <1>4, SigType
<1>9. Good(g, vm'[g.vm])
  BY <1>2, <1>6, <1>7, <1>8 DEF Good, Called
<1>. QED  BY <1>1, <1>2, <1>9, SetTopGood

LEMMA SwitchModeLoads == TypeInv /\ LoadInv /\ SwitchMode => LoadInv'
<1>. SUFFICES ASSUME TypeInv, LoadInv, SwitchMode PROVE LoadInv'
  OBVIOUS
<1>1. /\ frames # << >> /\ Top.pc = "loading" /\ Sig[Top.fn][Top.next + 1] \in Prefixes
      /\ Top.next < Len(Sig[Top.fn])
      /\ vm'[Top.vm].mode = IF Sig[Top.fn][Top.next + 1] = "_." THEN "varargs" ELSE "ellipsis"
  BY SwitchModeDoes
<1>2. PICK g \in Frame : /\ SetTop(g) /\ g.pc = "loading" /\ g.next = Top.next + 1
                         /\ g.fn = Top.fn /\ g.vm = Top.vm /\ g.call = Top.call
  BY SwitchModeDoes
<1>3. Good(Top, vm[Top.vm]) /\ Top \in Frame /\ vm[Top.vm] \in VM
  BY <1>1, TopGood
<1>4. Top.fn \in Functions /\ Top.call \in Nat /\ Top.next \in Nat /\ Top.vm \in VMs
  BY <1>3 DEF Frame
<1>. DEFINE m == vm[Top.vm]  o == vm'[Top.vm]  f == Top.fn  n == Top.next
<1>5. o.args = m.args /\ o.used = m.used /\ o.copied = m.copied /\ o.mem = m.mem
  BY <1>3, <1>4 DEF SwitchMode, TypeInv, TypeOK, VM
<1>6. n + 1 \in 1..Len(Sig[f]) /\ Sig[f][n + 1] \notin Words
  BY <1>1, <1>4, SigType DEF Words, Aggregates, Prefixes
<1>7. AskedMode(f, (n + 1) + 1) = o.mode
  BY <1>1, <1>4, <1>6, AskedStep
<1>8. BigUpTo(f, n + 1) = BigUpTo(f, n) /\ PosUpTo(f, n + 1) = PosUpTo(f, n)
  BY <1>4, <1>6 DEF BigUpTo, PosUpTo, Big, ArgPos
<1>9. LoadedIn(m, f, Top.call, n) /\ (Top.vm = "variadic" => ModesIn(m, f, n))
  BY <1>1, <1>3 DEF Good
<1>10. LoadedIn(o, f, Top.call, n + 1)
  <2>. SUFFICES ASSUME Fits(f)
       PROVE  /\ AllSolid(o)
              /\ o.used + o.copied <= 2 * (n + 1) + BigWords * Cardinality(BigUpTo(f, n + 1))
              /\ {<<a.call, a.pos>> : a \in o.args} = {<<Top.call, k>> : k \in PosUpTo(f, n + 1)}
    BY DEF LoadedIn
  <2>1. AllSolid(o)
    BY <1>5, <1>9 DEF LoadedIn, AllSolid, Solid, Whole
  <2>2. BigWords * Cardinality(BigUpTo(f, n)) \in Int
    BY <1>4, BigTimes
  <2>3. PICK x \in Int : x = BigWords * Cardinality(BigUpTo(f, n))
    BY <2>2
  <2>4. m.used + m.copied <= 2 * n + x /\ m.used \in Nat /\ m.copied \in Nat
    BY <1>3, <1>9, <2>3 DEF LoadedIn, VM
  <2>5. o.used + o.copied <= 2 * (n + 1) + x
    BY <1>4, <1>5, <2>4
  <2>. QED  BY <1>5, <1>8, <1>9, <2>1, <2>3, <2>5 DEF LoadedIn
<1>11. Top.vm = "variadic" => ModesIn(o, f, n + 1)
  BY <1>4, <1>5, <1>7, <1>9 DEF ModesIn
<1>12. Good(g, vm'[g.vm])
  BY <1>2, <1>6, <1>10, <1>11 DEF Good, Called
<1>. QED  BY <1>1, <1>2, <1>12, SetTopGood

LEMMA MoveLoads == TypeInv /\ LoadInv /\ (Allocate \/ Call \/ ForeignReturns) => LoadInv'
<1>. SUFFICES ASSUME TypeInv, LoadInv, Allocate \/ Call \/ ForeignReturns PROVE LoadInv'
  OBVIOUS
<1>1. PICK g \in Frame : /\ SetTop(g) /\ g.pc # "loading" /\ g.next = Top.next
                         /\ g.fn = Top.fn /\ g.vm = Top.vm /\ g.call = Top.call
                         /\ (Allocate => g.pc = "allocating")
                         /\ (~Allocate => g.pc # "allocating")
                         /\ (Call => g.got = {a \in vm[Top.vm].args : Whole(vm[Top.vm], a)})
                         /\ (ForeignReturns => g.got = Top.got)
  BY MoveDoes
<1>2. frames # << >>
  BY MoveDoes
<1>3. Good(Top, vm[Top.vm]) /\ Top \in Frame /\ vm[Top.vm] \in VM
  BY <1>2, TopGood
<1>4. Top.fn \in Functions /\ Top.next \in Nat
  BY <1>3 DEF Frame
<1>5. CASE Allocate
  <2>1. Res[Top.fn] = "aggr"
    BY <1>5 DEF Allocate
  <2>. QED  BY <1>1, <1>2, <1>3, <1>5, <2>1, SetTopGood DEF Good, Called
<1>6. CASE ForeignReturns
  <2>1. Called(Top)
    BY <1>6 DEF ForeignReturns, At, Called
  <2>2. ~Allocate
    BY <1>6 DEF ForeignReturns, Allocate, At
  <2>3. Good(g, vm'[g.vm])
    BY <1>1, <1>3, <1>6, <2>1, <2>2 DEF Good
  <2>. QED  BY <1>1, <1>2, <2>3, SetTopGood
<1>7. CASE Call
  <2>1. Res[Top.fn] = "aggr" \/ (Top.pc = "loading" /\ ~More)
    BY <1>3, <1>7 DEF Call, At, Good
  <2>2. ~Allocate
    BY <1>7 DEF Call, Allocate, At
  <2>3. CASE Res[Top.fn] = "aggr"
    BY <1>1, <1>2, <1>3, <2>2, <2>3, SetTopGood DEF Good
  <2>4. CASE Top.pc = "loading" /\ ~More
    <3>1. Top.next = Len(Sig[Top.fn])
      BY <1>3, <1>4, <2>4, SigType DEF Good, More
    <3>2. PosUpTo(Top.fn, Top.next) = ArgPos(Top.fn)
      BY <1>4, <3>1, SigType DEF PosUpTo, ArgPos
    <3>3. LoadedIn(vm[Top.vm], Top.fn, Top.call, Top.next)
      BY <1>3, <2>4 DEF Good
    <3>4. Fits(Top.fn) => g.got = vm[Top.vm].args
      BY <1>1, <1>7, <3>3 DEF LoadedIn, AllSolid, Solid
    <3>5. g.got \subseteq vm[Top.vm].args
      BY <1>1, <1>7
    <3>6. Fits(g.fn) => {<<a.call, a.pos>> : a \in g.got} = {<<g.call, k>> : k \in ArgPos(g.fn)}
      BY <1>1, <3>2, <3>3, <3>4 DEF LoadedIn
    <3>7. g.vm = "variadic" => \A a \in g.got : a.mode = AskedMode(g.fn, a.pos)
      BY <1>1, <1>3, <2>4, <3>5 DEF Good, ModesIn
    <3>8. Good(g, vm'[g.vm])
      BY <1>1, <1>3, <2>2, <3>6, <3>7 DEF Good
    <3>. QED  BY <1>1, <1>2, <3>8, SetTopGood
  <2>. QED  BY <2>1, <2>3, <2>4
<1>. QED  BY <1>5, <1>6, <1>7

LEMMA StayLoads == LoadInv /\ UNCHANGED vars => LoadInv'
BY DEF vars, LoadInv, Depth

LEMMA NextLoads == TypeInv /\ LoadInv /\ [Next]_vars => LoadInv'
BY BeginLoads, LoadArgLoads, SwitchModeLoads, MoveLoads, LeaveDoes, PopGood, StayLoads DEF Next

LEMMA InitLoads == Init => LoadInv
BY EmptySeq DEF Init, LoadInv, Depth

\* The inductive invariant of what the calls in progress have loaded.
THEOREM LoadInvariance == Spec => []LoadInv
BY InitLoads, NextLoads, TypeInvariance, PTL DEF Spec

\* However callbacks and finalizers re-enter the CallVM, a call that allocates
\* nothing before it calls and whose arguments fit finds exactly its own.
THEOREM OwnArgsArrive == Spec => []OwnArgsDelivered
<1>1. LoadInv => OwnArgsDelivered
  BY DEF LoadInv, Good, OwnArgsDelivered
<1>. QED  BY <1>1, LoadInvariance, PTL

\* dyncall_variadic() passes no argument under a mode its signature did not ask
\* for, whatever mode an earlier call or an error left in its CallVM.
THEOREM VariadicModesKept == Spec => []VariadicModes
<1>1. LoadInv => VariadicModes
  BY DEF LoadInv, Good, VariadicModes
<1>. QED  BY <1>1, LoadInvariance, PTL
=============================================================================
