------------------------------ MODULE Signature ------------------------------
(* The readers of rdyncall's signature strings.  A call signature is read    *)
(* twice: R code looks for the aggregates passed by value and makes their     *)
(* layouts, then native code takes the arguments and expects each layout in   *)
(* its turn.  For a callback the R code also rewrites the signature, and the  *)
(* native code reads what it wrote.  The members of a struct are read by      *)
(* scanners of their own.  One action is one turn of a reader's loop.         *)
(*                                                                            *)
(* A text is a sequence of characters.  The R arguments of a call are taken   *)
(* to fit the signature: what happens if not is part of CallVM (Fail).        *)
EXTENDS Integers, Sequences

CONSTANTS Base,      \* type characters that both directions of a call know
          Modes,     \* calling convention characters
          Alnum,     \* characters of a C identifier: isalnum() or '_'
          Known,     \* names of the registered aggregates (cstruct(), cunion(): a
                     \* layout carries the name it is registered under)
          Inputs,    \* what is read: sets of records of a form, a text and its meaning
          BufSize,   \* sizeof(buf), for the name of a pointed-to type
          IntMax     \* INT_MAX

Forms   == {"call", "variadic", "callback", "types", "tail"}
Text    == Seq(STRING)
NoName  == <<>>
Nul     == ""      \* the end of a string: NUL in C, "" of substr() in R; no convention
Nothing == [kind |-> "", name |-> NoName, mode |-> Nul]

ASSUME IntAssumption   == IntMax \in Nat \ {0} /\ BufSize \in Nat
ASSUME InputAssumption == \A b \in DOMAIN Inputs : \A in \in Inputs[b] :
         in.form \in Forms /\ in.text \in Text /\ in.varargs \in Text
\* isalnum(), the letter that stands for an aggregate in a callback, and NUL,
\* which chooses no convention.
ASSUME CharAssumption  == ">" \notin Alnum /\ "A" \notin Base /\ Modes \subseteq STRING \ {Nul}
\* What readers write are characters.
ASSUME WrittenAssumption == {"_", "e", ".", "p", "A"} \subseteq STRING

\* A character, or the end of the string.
At(s, k) == IF k \in 1..Len(s) THEN s[k] ELSE Nul
\* The first place from `from` on with a character in chars (not in chars), or
\* the end of the string.
First(s, from, chars) ==
  IF \E k \in from..Len(s) : s[k] \in chars
  THEN CHOOSE k \in from..Len(s) : s[k] \in chars /\ \A m \in from..k - 1 : s[m] \notin chars
  ELSE Len(s) + 1
Past(s, from, chars) ==
  IF \E k \in from..Len(s) : s[k] \notin chars
  THEN CHOOSE k \in from..Len(s) : s[k] \notin chars /\ \A m \in from..k - 1 : s[m] \in chars
  ELSE Len(s) + 1

VARIABLES form, text, asked, reader, pos, stars, mode, found, back, plain,
          nargs, used, taken, result, part
\* asked: what the text is meant to say, if it was written to say something.
\* reader: the code that reads now, or how reading ended.  pos: its next character.
\* stars: ptrcnt.  mode: the convention in force.  found: by-value aggregates, or
\* the tokens scanned.  back: the layout of the result.  plain: the signature a
\* callback is created with.  used: aggrpos, aggr_index.  taken, result: what
\* native code reads.  part: the token being scanned.
inputs == <<form, text, asked>>
vars   == <<form, text, asked, reader, pos, stars, mode, found, back, plain,
            nargs, used, taken, result, part>>

Over  == {"done", "refused", "internal", "beyond", "invalid"}
\* refused: an R error says that the text is wrong.  invalid: the callback is
\* disabled when it is called.  internal: an error that must not happen.
\* beyond: the reader has left the string.
Stop(how) ==
  /\ reader' = how
  /\ UNCHANGED <<pos, stars, mode, found, back, plain, nargs, used, taken, result, part>>

NoPart == [from |-> 0, last |-> 0, len |-> 1]
Prefixed(s) == At(s, 1) = "_"

\* dyncall_variadic_signature: the fixed part and the rest get their conventions.
\* The text is not of this form: reader is refused.
End(s)           == First(s, 1, {")"})
IsVariadic(s, v) == /\ s # <<>> /\ ~Prefixed(s) /\ End(s) < Len(s)
                    /\ \A k \in 1..Len(v) : v[k] # ")"
VariadicSignature(s, v) ==
  <<"_", "e">> \o SubSeq(s, 1, End(s) - 1) \o <<"_", ".">> \o v \o SubSeq(s, End(s), Len(s))

Init ==
  \E b \in DOMAIN Inputs : \E in \in Inputs[b] :
    /\ form = in.form /\ asked = in.asked
    /\ text = IF form = "variadic" /\ IsVariadic(in.text, in.varargs)
              THEN VariadicSignature(in.text, in.varargs) ELSE in.text
    /\ reader = CASE form = "call"     -> "layouts"
                  [] form = "variadic" ->
                       IF IsVariadic(in.text, in.varargs) THEN "layouts" ELSE "refused"
                  [] form = "callback" -> "rewrite"
                  [] form = "types"    -> "tokens"
                  [] form = "tail"     -> "fields"
    /\ pos = IF reader \in {"layouts", "rewrite"} /\ Len(text) >= 2 /\ Prefixed(text)
             THEN 3 ELSE 1
    /\ plain = IF reader = "rewrite" /\ pos = 3 THEN SubSeq(text, 1, 2) ELSE <<>>
    /\ stars = 0 /\ mode = Nul /\ found = <<>> /\ back = NoName /\ nargs = 0
    /\ used = 0 /\ taken = <<>> /\ result = Nothing /\ part = NoPart

-----------------------------------------------------------------------------
(* dyncall_aggregate_layouts: the layouts that C_dyncall is given.           *)

Reads(r, s, chars) == reader = r /\ At(s, pos) \in chars
Goes(to)           == pos' = to /\ UNCHANGED reader
Close(s)           == First(s, pos + 1, {">"})
NameTo(s, close)   == SubSeq(s, pos + 1, close - 1)

LayoutsStar ==
  /\ Reads("layouts", text, {"*"})
  /\ Goes(pos + 1) /\ stars' = stars + 1
  /\ UNCHANGED <<mode, found, back, plain, nargs, used, taken, result, part>>

\* Mutant: a change of the convention leaves the stars before it.
LayoutsSkipKeep ==
  /\ reader = "layouts" /\ pos <= Len(text) /\ At(text, pos) \notin {"*", "<", ")"}
  /\ Goes(IF At(text, pos) = "_" THEN pos + 2 ELSE pos + 1)
  /\ stars' = IF At(text, pos) = "_" THEN stars ELSE 0
  /\ UNCHANGED <<mode, found, back, plain, nargs, used, taken, result, part>>
LayoutsSkip ==
  /\ reader = "layouts" /\ pos <= Len(text) /\ At(text, pos) \notin {"*", "<", ")"}
  /\ Goes(IF At(text, pos) = "_" THEN pos + 2 ELSE pos + 1) /\ stars' = 0
  /\ UNCHANGED <<mode, found, back, plain, nargs, used, taken, result, part>>

LayoutsAggregate ==
  LET close == Close(text)
      name  == NameTo(text, close)
  IN  /\ Reads("layouts", text, {"<"})
      /\ \/ /\ close <= Len(text) /\ (stars > 0 \/ name \in Known)
            /\ Goes(close + 1) /\ stars' = 0
            /\ found' = IF stars = 0 THEN Append(found, name) ELSE found
            /\ UNCHANGED <<mode, back, plain, nargs, used, taken, result, part>>
         \/ /\ close > Len(text) \/ (stars = 0 /\ name \notin Known)
            /\ Stop("refused")

\* The ')' that ends the arguments, the result behind it, and C_dyncall up to
\* its loop: it begins again, behind a prefix of the convention.
LayoutsResult ==
  LET behind == IF At(text, pos) = ")" THEN pos + 1 ELSE pos
      at     == Past(text, behind, {"*"})
      close  == First(text, at + 1, {">"})
      name   == SubSeq(text, at + 1, close - 1)
      byValue == At(text, at) = "<" /\ at = behind
      bad == \/ pos > Len(text) /\ (pos > Len(text) + 1 \/ At(text, pos - 1) # ")")
             \/ At(text, at) = "<" /\ close > Len(text)
             \/ byValue /\ name \notin Known
             \/ Prefixed(text) /\ At(text, 2) \notin Modes
  IN  /\ reader = "layouts"
      /\ At(text, pos) = ")" \/ pos > Len(text)
      /\ \/ bad /\ Stop("refused")
         \/ /\ ~bad
            /\ reader' = "loads" /\ stars' = 0
            /\ back' = IF byValue THEN name ELSE NoName
            /\ mode' = IF Prefixed(text) THEN text[2] ELSE Nul
            /\ pos' = IF Prefixed(text) THEN 3 ELSE 1
            /\ UNCHANGED <<found, plain, nargs, used, taken, result, part>>

-----------------------------------------------------------------------------
(* C_dyncall: the arguments and the result.                                  *)

Pointer == [kind |-> "p", name |-> NoName, mode |-> mode]
Take(x) == taken' = Append(taken, x)
\* The end of a name as C reads it, which has to be a '>'.
NameEnd(k) == Past(text, k, Alnum)
Named(k)   == At(text, NameEnd(k)) = ">"

LoadsTerminator ==
  /\ Reads("loads", text, {")"})
  /\ reader' = "result" /\ pos' = pos + 1
  /\ UNCHANGED <<stars, mode, found, back, plain, nargs, used, taken, result, part>>

LoadsMode ==
  /\ Reads("loads", text, {"_"})
  /\ \/ /\ At(text, pos + 1) \in Modes
        /\ Goes(pos + 2) /\ mode' = text[pos + 1] /\ stars' = 0
        /\ UNCHANGED <<found, back, plain, nargs, used, taken, result, part>>
     \/ At(text, pos + 1) \notin Modes /\ Stop("refused")

LoadsStar ==
  /\ Reads("loads", text, {"*"})
  /\ Goes(pos + 1) /\ stars' = stars + 1
  /\ UNCHANGED <<mode, found, back, plain, nargs, used, taken, result, part>>

\* The next layout must be there, and be that of the type named here.
LoadsAggregate ==
  LET end  == NameEnd(pos + 1)
      name == NameTo(text, end)
      mine == used < Len(found) /\ found[used + 1] = name
  IN  /\ Reads("loads", text, {"<"})
      /\ \/ /\ Named(pos + 1) /\ (stars > 0 \/ mine)
            /\ Goes(end + 1) /\ stars' = 0
            /\ \/ stars > 0 /\ Take(Pointer) /\ UNCHANGED used
               \/ /\ stars = 0 /\ used' = used + 1
                  /\ Take([kind |-> "<", name |-> name, mode |-> mode])
            /\ UNCHANGED <<mode, found, back, plain, nargs, result, part>>
         \/ ~Named(pos + 1) /\ Stop("refused")
         \/ Named(pos + 1) /\ stars = 0 /\ ~mine /\ Stop("internal")

\* A base type; behind a '*' any character, as for a NULL or an external pointer.
LoadsBase ==
  LET ch == At(text, pos)
  IN  /\ reader = "loads" /\ ch \notin {")", "_", "*", "<"}
      /\ \/ /\ ch # Nul /\ (stars > 0 \/ ch \in Base \cup {"x"})
            /\ Goes(pos + 1) /\ stars' = 0
            /\ Take(IF stars > 0 THEN Pointer ELSE [kind |-> ch, name |-> NoName, mode |-> mode])
            /\ UNCHANGED <<mode, found, back, plain, nargs, used, result, part>>
         \/ /\ ch = Nul \/ (stars = 0 /\ ch \notin Base \cup {"x"})
            /\ Stop("refused")

Returns(kind, name) ==
  /\ reader' = "done"
  /\ result' = [kind |-> kind, name |-> name, mode |-> Nul]
  /\ UNCHANGED <<pos, stars, mode, found, back, plain, nargs, used, taken, part>>

ReturnsBase ==
  /\ Reads("result", text, Base \cup {"v"})
  /\ Returns(text[pos], NoName)

ReturnsAggregate ==
  LET name == NameTo(text, NameEnd(pos + 1))
  IN  /\ Reads("result", text, {"<"})
      /\ \/ ~Named(pos + 1) /\ Stop("refused")
         \/ Named(pos + 1) /\ back # name /\ Stop("internal")
         \/ Named(pos + 1) /\ back = name /\ Returns("<", name)

\* '*c' and '*C' make a string; of the other pointers only '*v' and '*<T>' are read,
\* the name T if it fits the buffer.
ReturnsPointer ==
  LET at    == Past(text, pos, {"*"})
      close == First(text, at + 1, {">"})
      name  == SubSeq(text, at + 1, close - 1)
      fits  == close <= Len(text) /\ Len(name) \in 1..BufSize - 1
  IN  /\ Reads("result", text, {"*"})
      /\ \/ At(text, at) = "<" /\ fits /\ Returns("p", name)
         \/ At(text, at) = "v" /\ Returns("p", NoName)
         \/ At(text, at) \in {"c", "C"} /\ Returns("Z", NoName)
         \/ At(text, at) \notin {"v", "c", "C", "<"} /\ Stop("refused")
         \/ At(text, at) = "<" /\ ~fits /\ Stop("refused")

ReturnsUnknown ==
  /\ reader = "result" /\ At(text, pos) \notin Base \cup {"v", "<", "*"}
  /\ Stop("refused")

-----------------------------------------------------------------------------
(* callback_signature_info: aggregates become 'A', pointers become 'p'.      *)

Writes(ch) == plain' = Append(plain, ch)

\* The end of the pointed-to type that begins at `at`.
\* Mutant: an index that is already behind the '>' is advanced once more.
PointeeEndPast(at) == IF At(text, at) = "<" THEN First(text, at + 1, {">"}) + 1 ELSE at
PointeeEnd(at) == IF At(text, at) = "<" THEN First(text, at + 1, {">"}) ELSE at

RewritePointer ==
  LET end == PointeeEnd(Past(text, pos, {"*"}))
  IN  /\ Reads("rewrite", text, {"*"})
      /\ \/ end > Len(text) /\ Stop("refused")
         \/ /\ end <= Len(text) /\ Goes(end + 1) /\ Writes("p")
            /\ UNCHANGED <<stars, mode, found, back, nargs, used, taken, result, part>>

RewriteAggregate ==
  LET name == NameTo(text, Close(text))
      bad  == Close(text) > Len(text) \/ name \notin Known
  IN  /\ Reads("rewrite", text, {"<"})
      /\ \/ bad /\ Stop("refused")
         \/ /\ ~bad /\ Goes(Close(text) + 1) /\ Writes("A")
            /\ found' = Append(found, name)
            /\ UNCHANGED <<stars, mode, back, nargs, used, taken, result, part>>

RewriteOther ==
  LET ch == At(text, pos)
  IN  /\ reader = "rewrite" /\ pos <= Len(text) /\ ch \notin {"*", "<"}
      /\ \/ ch = "A" /\ Stop("refused")
         \/ /\ ch # "A" /\ Goes(pos + 1) /\ Writes(ch)
            /\ UNCHANGED <<stars, mode, found, back, nargs, used, taken, result, part>>

\* C_callback counts the arguments of what it is given: it looks for a ')', and
\* for nothing else.
Count ==
  LET base == IF Prefixed(plain) THEN 3 ELSE 1
  IN  /\ reader = "rewrite" /\ pos > Len(text)
      /\ IF \E k \in base..Len(plain) : plain[k] = ")"
         THEN /\ reader' = "fetch" /\ pos' = base
              /\ nargs' = First(plain, base, {")"}) - base
              /\ UNCHANGED <<stars, mode, found, back, plain, used, taken, result, part>>
         ELSE Stop("beyond")

(* rcallback_invoke: the arguments and the result of a callback.             *)
FetchTerminator ==
  /\ Reads("fetch", plain, {")"})
  /\ reader' = "answer" /\ pos' = pos + 1
  /\ UNCHANGED <<stars, mode, found, back, plain, nargs, used, taken, result, part>>

FetchBase ==
  /\ Reads("fetch", plain, Base) /\ Len(taken) < nargs
  /\ Goes(pos + 1)
  /\ Take([kind |-> plain[pos], name |-> NoName, mode |-> mode])
  /\ UNCHANGED <<stars, mode, found, back, plain, nargs, used, result, part>>

\* Mutant: the index of the descriptor is not advanced.
FetchAggregateFirst ==
  /\ Reads("fetch", plain, {"A"}) /\ Len(taken) < nargs /\ used < Len(found)
  /\ Goes(pos + 1)
  /\ Take([kind |-> "<", name |-> found[used + 1], mode |-> mode])
  /\ UNCHANGED <<stars, mode, found, back, plain, nargs, used, result, part>>
FetchAggregate ==
  /\ Reads("fetch", plain, {"A"}) /\ Len(taken) < nargs /\ used < Len(found)
  /\ Goes(pos + 1) /\ used' = used + 1
  /\ Take([kind |-> "<", name |-> found[used + 1], mode |-> mode])
  /\ UNCHANGED <<stars, mode, found, back, plain, nargs, result, part>>

FetchInvalid ==
  LET ch == At(plain, pos)
  IN  /\ reader = "fetch" /\ ch # ")"
      /\ \/ Len(taken) < nargs /\ ch \notin Base \cup {"A"} /\ Stop("invalid")
         \/ /\ Len(taken) >= nargs \/ (ch = "A" /\ used >= Len(found))
            /\ Stop("internal")

\* A result of an unknown type is not an error: the answer is left as it is.
Answer ==
  LET ch == At(plain, pos)
  IN  /\ reader = "answer"
      /\ \/ ch # "A" /\ Returns(ch, NoName)
         \/ ch = "A" /\ used < Len(found) /\ Returns("<", found[used + 1])
         \/ ch = "A" /\ used >= Len(found) /\ Stop("internal")

-----------------------------------------------------------------------------
(* rsignature_parse_decimal and C_scan_signature_tokens: the members of an   *)
(* aggregate, each a type and its array lengths.                             *)

DigitChars == <<"0", "1", "2", "3", "4", "5", "6", "7", "8", "9">>
IsDigit(ch) == \E d \in 1..10 : DigitChars[d] = ch
Digit(ch)   == (CHOOSE d \in 1..10 : DigitChars[d] = ch) - 1
NoNumber    == -1
\* The number s[from..last]: NoNumber if it is none, has a leading zero, or
\* exceeds INT_MAX.
WithDigit(parsed, ch) ==
  IF \/ parsed = NoNumber \/ ~IsDigit(ch) \/ parsed > IntMax \div 10
     \/ parsed = IntMax \div 10 /\ Digit(ch) > IntMax % 10
  THEN NoNumber ELSE parsed * 10 + Digit(ch)
Decimal(s, from, last, allowZero) ==
  LET parsed[k \in from - 1..last] ==
        IF k = from - 1 THEN 0 ELSE WithDigit(parsed[k - 1], s[k])
  IN  IF from > last \/ (At(s, from) = "0" /\ (~allowZero \/ from < last))
      THEN NoNumber ELSE parsed[last]

\* The type of a token: stars, then a name in brackets or one character.
ScanType ==
  LET at   == Past(text, pos, {"*"})
      close == First(text, at + 1, {">"})
      last == CASE at > Len(text)        -> Len(text)
                [] At(text, at) = "<"    -> close
                [] OTHER                 -> at
  IN  /\ reader = "tokens" /\ pos <= Len(text)
      /\ \/ last > Len(text) /\ Stop("refused")
         \/ /\ last <= Len(text)
            /\ reader' = "lengths" /\ pos' = last + 1
            /\ part' = [from |-> pos, last |-> last, len |-> 1]
            /\ UNCHANGED <<stars, mode, found, back, plain, nargs, used, taken, result>>

\* Mutant: the product is not checked.
FitsAny(len, value) == TRUE
Fits(len, value) == len <= IntMax \div value

ScanLength ==
  LET close == First(text, pos, {"]"})
      value == Decimal(text, pos + 1, close - 1, FALSE)
      bad   == close > Len(text) \/ value = NoNumber \/ ~Fits(part.len, value)
  IN  /\ Reads("lengths", text, {"["})
      /\ \/ bad /\ Stop("refused")
         \/ /\ ~bad
            /\ Goes(close + 1) /\ part' = [part EXCEPT !.len = @ * value]
            /\ UNCHANGED <<stars, mode, found, back, plain, nargs, used, taken, result>>

\* Mutant: the end of a token is that of its type.
ScanTokenShort ==
  /\ reader = "lengths" /\ At(text, pos) # "["
  /\ found' = Append(found, [from |-> part.from, last |-> part.last,
                             end |-> part.last, len |-> part.len])
  /\ reader' = "tokens" /\ part' = NoPart
  /\ UNCHANGED <<pos, stars, mode, back, plain, nargs, used, taken, result>>
ScanToken ==
  /\ reader = "lengths" /\ At(text, pos) # "["
  /\ found' = Append(found, [from |-> part.from, last |-> part.last,
                             end |-> pos - 1, len |-> part.len])
  /\ reader' = "tokens" /\ part' = NoPart
  /\ UNCHANGED <<pos, stars, mode, back, plain, nargs, used, taken, result>>

ScanEnd == reader = "tokens" /\ pos > Len(text) /\ Stop("done")

(* C_scan_field_tail: names, bit widths and layout directives.               *)
Spaces  == {" ", "\n", "\t"}
NoWidth == -2     \* NA_INTEGER

\* Mutant: the name keeps the ':'.
BitsNameLong(from, colon) == SubSeq(text, from, colon)
BitsName(from, colon) == SubSeq(text, from, colon - 1)

\* Directives begin with '@'; a name may be followed by ':' and a width.
ScanField ==
  LET from   == Past(text, pos, Spaces)
      last   == First(text, from, Spaces) - 1
      colons == {k \in from..last : text[k] = ":"}
      colon  == First(text, from, {":"})
      width  == Decimal(text, colon + 1, last, TRUE)
      bad    == At(text, from) # "@" /\ colons # {} /\ (colons # {colon} \/ width = NoNumber)
      whole  == SubSeq(text, from, last)
      Item(kind, name, w) == [kind |-> kind, name |-> name, width |-> w,
                              from |-> from, last |-> last]
  IN  /\ reader = "fields" /\ from <= Len(text)
      /\ \/ bad /\ Stop("refused")
         \/ /\ ~bad /\ Goes(last + 1)
            /\ found' = Append(found,
                 IF At(text, from) = "@" THEN Item("directive", whole, NoWidth)
                 ELSE IF colons = {} THEN Item("field", whole, NoWidth)
                 ELSE Item("field", BitsName(from, colon), width))
            /\ UNCHANGED <<stars, mode, back, plain, nargs, used, taken, result, part>>

ScanTailEnd ==
  reader = "fields" /\ Past(text, pos, Spaces) > Len(text) /\ Stop("done")

-----------------------------------------------------------------------------
CallNext     == \/ LayoutsStar \/ LayoutsSkip \/ LayoutsAggregate \/ LayoutsResult
                \/ LoadsTerminator \/ LoadsMode \/ LoadsStar \/ LoadsAggregate \/ LoadsBase
                \/ ReturnsBase \/ ReturnsAggregate \/ ReturnsPointer \/ ReturnsUnknown
CallbackNext == \/ RewritePointer \/ RewriteAggregate \/ RewriteOther \/ Count
                \/ FetchTerminator \/ FetchBase \/ FetchAggregate \/ FetchInvalid \/ Answer
ScanNext     == ScanType \/ ScanLength \/ ScanToken \/ ScanEnd \/ ScanField \/ ScanTailEnd

Next == (CallNext \/ CallbackNext \/ ScanNext) /\ UNCHANGED inputs
Spec == Init /\ [][Next]_vars
=============================================================================
