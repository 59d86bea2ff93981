----------------------------- MODULE MCSignature -----------------------------
(* Texts for TLC: all short ones over the characters that matter, and longer *)
(* ones written from what they are meant to say.                             *)
EXTENDS SignatureProps, SequencesExt

MaxText   == 5     \* bound: length of the texts of arbitrary characters
MaxPieces == 5     \* bound: pieces of the texts of arbitrary pieces
MaxArgs   == 2     \* bound: arguments of the written ones
MCBase  == {"i", "p", "c"}
MCModes == {":", "e", "."}
MCAlnum == {"i", "T", "e", "_"}
T == <<"T">>
I == <<"i">>
Dotted  == <<"T", ".">>      \* R takes it for a name, C does not
MCKnown == {T, I, Dotted}

Texts(chars, n) == UNION {[1..k -> chars] : k \in 0..n}
NotAsked == [known |-> FALSE]
Given(f, s) == [form |-> f, text |-> s, varargs |-> <<>>, asked |-> NotAsked]
Pieces == {<<"*">>, <<"_">>, <<"_", ".">>, <<"<", "i", ">">>, <<"i">>, <<")">>}
Arbitrary ==
  <<{Given(f, s) : f \in {"call", "callback"},
                  s \in Texts({"_", "*", "<", ">", ")", "i", "."}, MaxText)},
   {Given(f, FlattenSeq(ps)) : f \in {"call", "callback"}, ps \in Texts(Pieces, MaxPieces)},
   {[form |-> "variadic", text |-> s, varargs |-> v, asked |-> NotAsked] :
          s \in Texts({"_", "*", ")", "i"}, 4), v \in Texts({"_", "*", ")", "i"}, 2)},
   {Given("call", <<")", "*", "<">> \o name \o <<">">>) : name \in {T, Dotted}},
   {Given("types", s) : s \in Texts({"*", "<", ">", "[", "]", "2", "0"}, MaxText)},
   {Given("tail", s) : s \in Texts({" ", "a", "@", ":", "0", "2"}, MaxText)}>>

\* Notation: how the documentation writes types and signatures (section Call
\* Signature of man/dyncall.Rd), and what a reader has to take from it.
Stars(n)    == [k \in 1..n |-> "*"]
Notation(t) == Stars(t.stars) \o (IF t.aggr THEN <<"<">> \o t.name \o <<">">> ELSE t.name)
Notations(ts) == FlattenSeq([k \in DOMAIN ts |-> Notation(ts[k])])
Written(args, res) == Notations(args) \o <<")">> \o Notation(res)
Meant(t, m) == [kind |-> CASE t.stars > 0 -> "p" [] t.aggr -> "<" [] OTHER -> t.name[1],
                name |-> IF t.aggr /\ t.stars = 0 THEN t.name ELSE NoName,
                mode |-> m]

Type(n, ag, name) == [stars |-> n, aggr |-> ag, name |-> name]
ArgTypes == {Type(0, FALSE, I), Type(0, FALSE, <<"p">>), Type(1, FALSE, I),
             Type(0, TRUE, T), Type(0, TRUE, I), Type(2, TRUE, T)}
\* Results that calls and callbacks know; callbacks know every pointer.
ResTypes == {Type(0, FALSE, I), Type(0, FALSE, <<"v">>), Type(1, FALSE, <<"v">>),
             Type(0, TRUE, T), Type(1, TRUE, T)}
CallbackResTypes == ResTypes \cup {Type(1, FALSE, I), Type(2, FALSE, <<"c">>)}
\* Results of a call that the documentation has and C_dyncall does not answer.
OtherResTypes == {Type(1, FALSE, I), Type(2, FALSE, <<"c">>), Type(0, FALSE, <<"x">>)}
Result(f, t) == [Meant(t, "") EXCEPT !.name = IF f # "callback" /\ t.aggr THEN t.name ELSE @]
MeantArgs(args, m) == [k \in DOMAIN args |-> Meant(args[k], m)]
Prefix(m) == IF m = "" THEN <<>> ELSE <<"_", m>>
Asked(f, args, m, rest, res) ==
  [known |-> TRUE, answered |-> f = "callback" \/ res \in ResTypes, result |-> Result(f, res),
   taken |-> MeantArgs(args, m) \o MeantArgs(rest, ".")]
WrittenCalls ==
  {[form |-> "call", text |-> Prefix(m) \o Written(args, res), varargs |-> <<>>,
    asked |-> Asked("call", args, m, <<>>, res)] :
     m \in {"", ":"}, args \in Texts(ArgTypes, MaxArgs),
     res \in ResTypes \cup OtherResTypes}
WrittenCallbacks ==
  {[form |-> "callback", text |-> Prefix(m) \o Written(args, res), varargs |-> <<>>,
    asked |-> Asked("callback", args, "", <<>>, res)] :
     m \in {"", ":"}, args \in Texts(ArgTypes, MaxArgs), res \in CallbackResTypes}
WrittenVariadics ==
  {[form |-> "variadic", text |-> Written(args, res), varargs |-> Notations(rest),
    asked |-> Asked("variadic", args, "e", rest, res)] :
     args \in Texts(ArgTypes, 1), rest \in Texts(ArgTypes, MaxArgs), res \in ResTypes}

\* Members with up to two array lengths; MCIntMax is small enough to exceed.
MCIntMax == 25
Numerals == 2 :> <<"2">> @@ 7 :> <<"7">> @@ 12 :> <<"1", "2">> @@ 27 :> <<"2", "7">>
Lengths(dims) == FlattenSeq([k \in DOMAIN dims |-> <<"[">> \o Numerals[dims[k]] \o <<"]">>])
Product(dims) == FoldLeft(LAMBDA a, b : a * b, 1, dims)
Members(t, dims) == Notation(t) \o Lengths(dims)
WrittenTypes ==
  {LET s1 == Members(t1, d1)
       s2 == Members(t2, d2)
       n1 == Len(s1)
       n2 == Len(s2)
       fits == Product(d1) <= MCIntMax /\ Product(d2) <= MCIntMax
   IN  [form |-> "types", text |-> s1 \o s2, varargs |-> <<>>,
        asked |-> [known |-> TRUE, outcome |-> IF fits THEN "done" ELSE "refused",
          found |-> <<[from |-> 1, last |-> Len(Notation(t1)), end |-> n1, len |-> Product(d1)],
                      [from |-> n1 + 1, last |-> n1 + Len(Notation(t2)), end |-> n1 + n2,
                       len |-> Product(d2)]>>]] :
     t1 \in ArgTypes, t2 \in {Type(1, TRUE, T), Type(0, FALSE, I)},
     d1 \in Texts(DOMAIN Numerals, 2), d2 \in Texts({2, 12}, 2)}

MCInputs == Arbitrary \o <<WrittenCalls, WrittenCallbacks, WrittenVariadics, WrittenTypes>>
=============================================================================
