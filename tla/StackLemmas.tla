---------------------------- MODULE StackLemmas ----------------------------
(* Facts about a stack of frames kept as a sequence, innermost frame last.  *)
EXTENDS Integers, Sequences, SequenceTheorems, TLAPS

\* Replacing the innermost frame keeps the others.
LEMMA TopReplaced ==
  ASSUME NEW S, NEW s \in Seq(S), s # << >>, NEW f \in S
  PROVE  LET t == [s EXCEPT ![Len(s)] = f] IN
         /\ t \in Seq(S) /\ Len(t) = Len(s) /\ t # << >>
         /\ t[Len(t)] = f
         /\ \A i \in 1..Len(s) : i # Len(s) => t[i] = s[i]
<1>1. Len(s) \in 1..Len(s)
  BY EmptySeq, LenProperties
<1>. QED  BY <1>1, ExceptSeq, LenProperties

\* Leaving a call keeps the frames below it.
LEMMA TopPopped ==
  ASSUME NEW S, NEW s \in Seq(S), s # << >>
  PROVE  LET t == SubSeq(s, 1, Len(s) - 1) IN
         /\ t \in Seq(S) /\ Len(t) = Len(s) - 1
         /\ \A i \in 1..Len(t) : t[i] = s[i]
<1>1. Len(s) \in Nat \ {0}
  BY EmptySeq
<1>. DEFINE m == Len(s) - 1
<1>2. m \in Nat /\ \A i \in 1..m : s[i] \in S
  BY <1>1, ElementOfSeq
<1>. HIDE DEF m
<1>3. /\ SubSeq(s, 1, m) \in Seq(S)
      /\ Len(SubSeq(s, 1, m)) = IF 1 <= m THEN m - 1 + 1 ELSE 0
      /\ \A i \in 1..m - 1 + 1 : SubSeq(s, 1, m)[i] = s[1 + i - 1]
  BY <1>2, SubSeqProperties
<1>4. /\ Len(SubSeq(s, 1, m)) = m
      /\ \A i \in 1..m : SubSeq(s, 1, m)[i] = s[i]
  BY <1>2, <1>3
<1>. QED  BY <1>3, <1>4 DEF m

\* Entering a call keeps the frames below it.
LEMMA TopPushed ==
  ASSUME NEW S, NEW s \in Seq(S), NEW f \in S
  PROVE  LET t == Append(s, f) IN
         /\ t \in Seq(S) /\ Len(t) = Len(s) + 1 /\ t[Len(t)] = f
         /\ \A i \in 1..Len(s) : t[i] = s[i]
BY AppendProperties, LenProperties
=============================================================================
