--------------------------- MODULE SignatureProps ---------------------------
(* What the readers of a signature have to agree on.                        *)
EXTENDS Signature

Readers  == {"layouts", "loads", "result", "rewrite", "fetch", "answer",
             "tokens", "lengths", "fields"}
InNative == reader \in {"loads", "result", "fetch", "answer"}
Native   == IF form = "callback" THEN plain ELSE text

TypeOK ==
  /\ form \in Forms /\ text \in Text /\ reader \in Readers \cup Over
  /\ pos \in Nat /\ stars \in Nat /\ nargs \in Nat /\ used \in Nat
  /\ mode \in Modes \cup {Nul} /\ plain \in Text
  /\ part.len \in 1..IntMax

\* The ')' at k ends the arguments of t: it is not the convention of the prefix,
\* not part of a name, and no star before it makes it a pointer.
EndsArguments(t, k) ==
  /\ t[k] = ")" /\ k >= (IF Len(t) >= 2 /\ Prefixed(t) THEN 3 ELSE 1)
  /\ k > 1 => t[k - 1] # "*"
  /\ \A j \in 1..k - 1 : t[j] = "<" => \E m \in j + 1..k - 1 : t[m] = ">"

\* Native code, which looks for its own ends, never reads behind the end of the
\* string: the R code before it has refused the signatures without one.  Only
\* the signature of a callback without a ')' behind its arguments is counted past
\* its end: see the README.
StaysInside ==
  /\ InNative => pos <= Len(Native) + 1
  /\ reader = "beyond" =>
       form = "callback" /\ ~\E k \in DOMAIN text : EndsArguments(text, k)

\* The two readers of a signature mean the same aggregates by value: whatever
\* the text, native code never lacks a layout, finds that of another type, or
\* leaves one over when the call is made.
LayoutsFit ==
  /\ reader # "internal"
  /\ reader = "done" /\ form \in {"call", "variadic"} => used = Len(found)

\* A signature written as documented (man/dyncall.Rd) is read as it is meant, by a call
\* and by a callback alike: the same arguments in the same order, each under the
\* convention of its part, and the same result.  So are members: the types in their
\* order, each with the product of its array lengths, if an int can hold it.  The code
\* knows only some of the documented results of a call: it refuses "x" and "*i" and
\* takes "**c" for a string (rdyncall.c:854-884).  Of a signature with such a result
\* (not asked.answered) this says only that its arguments are read.
ReadsAsWritten ==
  asked.known /\ reader \in Over =>
    IF form = "types"
    THEN reader = asked.outcome /\ (reader = "done" => found = asked.found)
    ELSE /\ taken = asked.taken
         /\ asked.answered => reader = "done" /\ result = asked.result

\* The tokens of the members cover their text without a gap, each is a type and
\* what belongs to it, and the product of its array lengths fits an int.
TokensTile ==
  form = "types" =>
    /\ \A k \in DOMAIN found :
         /\ found[k].from = IF k = 1 THEN 1 ELSE found[k - 1].end + 1
         /\ found[k].from <= found[k].last /\ found[k].last <= found[k].end
         /\ found[k].len \in 1..IntMax
    /\ reader = "done" => (IF found = <<>> THEN 0 ELSE found[Len(found)].end) = Len(text)

\* An item is a whole word, and neither its name nor its width holds the ':' that
\* joins them.
IsItem(f) ==
  /\ At(text, f.from - 1) \in Spaces \cup {Nul} /\ At(text, f.last + 1) \in Spaces \cup {Nul}
  /\ f.kind = "field" =>
       /\ \/ f.width = NoWidth /\ f.name = SubSeq(text, f.from, f.last)
          \/ f.width \in 0..IntMax /\ text[f.from + Len(f.name)] = ":"
       /\ \A i \in DOMAIN f.name : f.name[i] # ":"

\* Every character of a field tail that is no space belongs to one item.
TailSplit ==
  form = "tail" =>
    /\ \A k \in DOMAIN found : IsItem(found[k])
    /\ reader = "done" =>
         UNION {found[k].from..found[k].last : k \in DOMAIN found} =
           {i \in 1..Len(text) : text[i] \notin Spaces}
=============================================================================
