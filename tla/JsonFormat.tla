----------------------------- MODULE JsonFormat -----------------------------
(***************************************************************************)
(* mnet_jsonfv(): the scanner of a printf-style format, the growing output *)
(* buffer and the temporary allocations, with mnet_json_escape().          *)
(*                                                                         *)
(* A format is a sequence of tokens: "%", ".", "*", "-" (a flag), "l" (a   *)
(* length modifier), a run of digits, the conversions "s", "c", "d" (any   *)
(* integer), "f" (any floating-point), "n" (also %p and %a), and "x" for   *)
(* any other character.  An argument is its type and its text: the string, *)
(* or the digits of the number.  The bytes of a text are tokens: "q" needs *)
(* a two-byte escape, "u" a six-byte one, "L" and "C" are the lead and the *)
(* continuation byte of a two-byte UTF-8 sequence.  The character of a %c  *)
(* is not negative.  The parts of a call say what its author means, for    *)
(* the properties only.                                                    *)
(***************************************************************************)
EXTENDS Integers, Sequences

CONSTANTS
  Calls,       \* what programs pass: format, arguments, parts
  NullFormat,  \* the call with a NULL format
  InitialCap,  \* 256
  SpecSize,    \* sizeof(spec), sizeof(nspec)
  StackSize,   \* sizeof(stack_val)
  MaxWidth     \* 4096

ASSUME CallsAssumption ==
  /\ NullFormat \notin Calls
  /\ \A c \in Calls :
       /\ c.format \in Seq(STRING)
       /\ c.args \in Seq([type : {"string", "char", "int", "float"},
                         text : Seq(STRING)])
       /\ \A n \in 1 .. Len(c.args) :
            c.args[n].type = "char" => c.args[n].text # <<>>
ASSUME SizesAssumption ==
  /\ InitialCap \in Nat \ {0} /\ SpecSize \in Nat
  /\ StackSize \in Nat /\ StackSize >= 5 /\ MaxWidth \in Nat

VARIABLES
  call,      \* the arguments of mnet_jsonfv()
  f,         \* the place in the format
  cap, out,  \* buf's size and what is in it; Len(out) is pos
  next,      \* arguments read so far
  src, k,    \* what is being escaped, and the place in it
  piece,     \* the text to append
  live,      \* allocations not freed
  starved,   \* history: the allocation that failed
  pc, status

scanVars == <<call, f, next>>
textVars == <<src, k, piece>>
vars == <<call, f, cap, out, next, src, k, piece, live, starved, pc, status>>

Init ==
  /\ call \in Calls \union {NullFormat}
  /\ f = 1 /\ cap = InitialCap /\ out = <<>> /\ next = 0
  /\ src = <<>> /\ k = 1 /\ piece = <<>>
  /\ live = {} /\ starved = "none" /\ pc = "enter" /\ status = 0

----------------------------------------------------------------------------
(* The format and the arguments of a call.                                 *)

Format == call.format
Args   == call.args

Value == [d \in {"0", "2", "7", "9"} |->
            CASE d = "0" -> 0 [] d = "2" -> 2 [] d = "7" -> 7 [] OTHER -> 9]
Digits      == DOMAIN Value
Modifiers   == Digits \union {".", "-", "l", "*"}
Conversions == {"d", "f", "c", "n"}

At(j) == IF j <= Len(Format) THEN Format[j] ELSE "end"

(* %.Ns, the N missing or not.                                             *)
CutString == At(f + 1) = "." /\
  (At(f + 2) = "s" \/ (At(f + 2) \in Digits /\ At(f + 3) = "s"))
Precision == IF At(f + 2) = "s" THEN 0 ELSE Value[At(f + 2)]

(* Any other conversion: up to the first conversion character or "%".      *)
SpecEnd ==
  CHOOSE j \in f + 1 .. Len(Format) + 1 :
    /\ j = Len(Format) + 1 \/ Format[j] \in Conversions \union {"%"}
    /\ \A m \in f + 1 .. j - 1 : Format[m] \notin Conversions \union {"%"}
SpecText == SubSeq(Format, f, SpecEnd)
Inner    == {Format[j] : j \in f + 1 .. SpecEnd - 1}
Numeric  == At(SpecEnd) \in {"d", "f"}

Overlong == Len(SpecText) >= SpecSize

(* What the code refuses: an unfinished or dangerous specifier, one whose  *)
(* modifiers do not go with its conversion, a width that is too large.     *)
TooWide == At(f + 1) \in Digits /\ Value[At(f + 1)] > MaxWidth

Refused ==
  \/ At(f + 1) \in {"end", "*"} \/ At(SpecEnd) = "end"
  \/ ~Overlong /\
       \/ At(SpecEnd) = "n"
       \/ ~Numeric /\ Inner \intersect Modifiers # {}
       \/ TooWide

(* A specifier snprintf() can do something with.                           *)
Proper == Numeric /\ Inner \subseteq Modifiers \ {"*"}

Class ==
  IF At(f) # "%"          THEN "literal"
  ELSE IF At(f + 1) = "%" THEN "percent"
  ELSE IF CutString       THEN "cut"
  ELSE IF At(f + 1) = "s" THEN "string"
  ELSE IF At(f + 1) = "c" THEN "char"
  ELSE IF Refused         THEN "refused"
  ELSE IF Overlong        THEN "overlong"
                          ELSE "number"

----------------------------------------------------------------------------
(* Returning.  An error answer is a copy of "null", if that can be made.   *)

Fail(kept) ==
  /\ pc' = "returned" /\ status' = 500
  /\ \E copy \in SUBSET {"null"} : live' = kept \union copy
  /\ UNCHANGED <<scanVars, cap, out, textVars>>

Enter ==
  /\ pc = "enter" /\ call # NullFormat
  /\ pc' = "loop" /\ live' = {"buf"}
  /\ UNCHANGED <<scanVars, cap, out, textVars, starved, status>>

EnterFails ==
  pc = "enter" /\ starved' = "buf" /\ Fail({})

EnterNull ==
  pc = "enter" /\ call = NullFormat /\ UNCHANGED starved /\ Fail({})

Finish ==
  /\ pc = "loop" /\ f > Len(Format)
  /\ pc' = "returned" /\ status' = 200
  /\ UNCHANGED <<scanVars, cap, out, textVars, live, starved>>

----------------------------------------------------------------------------
(* One turn of the loop: make room for a character, then see what it is.   *)

(* Fault: room for the character, not for the NUL after it.                *)
FullAtLast == Len(out) >= cap

Full == Len(out) + 1 >= cap

Top(class) == pc = "loop" /\ f <= Len(Format) /\ ~Full /\ Class = class

Grow ==
  /\ pc = "loop" /\ f <= Len(Format) /\ Full
  /\ cap' = 2 * cap
  /\ UNCHANGED <<scanVars, out, textVars, live, starved, pc, status>>

GrowFails ==
  /\ pc = "loop" /\ f <= Len(Format) /\ Full
  /\ starved' = "grow" /\ Fail({})

Copy(n) ==
  /\ out' = Append(out, At(f)) /\ f' = f + n
  /\ UNCHANGED <<call, next, cap, textVars, live, starved, pc, status>>

(* Fault: the second "%" is left for the next turn.                        *)
PercentHalf == Top("percent") /\ Copy(1)

Literal == Top("literal") /\ Copy(1)
Percent == Top("percent") /\ Copy(2)
Refuse  == Top("refused") /\ UNCHANGED starved /\ Fail({})

(* The whole specifier is passed over, and its argument is not read.       *)
PassOver ==
  /\ Top("overlong") /\ f' = SpecEnd + 1
  /\ UNCHANGED <<call, cap, out, next, textVars, live, starved, pc, status>>

(* The next argument, if the program passed one of that type.              *)
Passed(type) == next < Len(Args) /\ Args[next + 1].type = type
Arg == Args[next + 1].text

(* Where a string is cut: at the precision, or before the UTF-8 sequence   *)
(* there; and nothing is left of a string cut in front of a lead byte.     *)
Back(s, n) ==
  CHOOSE t \in 0 .. n : /\ t = 0 \/ s[t + 1] # "C"
                        /\ \A m \in t + 1 .. n : s[m + 1] = "C"
CutAnywhere(s, n) == IF n >= Len(s) THEN Len(s) ELSE n     \* fault

Cut(s, n) ==
  IF n >= Len(s) THEN Len(s)
  ELSE LET t == Back(s, n)
       IN IF t > 0 /\ s[t + 1] = "L" /\ t + 2 > n THEN 0 ELSE t

String ==
  /\ Top("string") /\ Passed("string")
  /\ src' = Arg /\ k' = 1 /\ piece' = <<>>
  /\ f' = f + 2 /\ next' = next + 1
  /\ pc' = "escape" /\ live' = live \union {"escaped"}
  /\ UNCHANGED <<call, cap, out, starved, status>>

StringCut ==
  /\ Top("cut") /\ Passed("string")
  /\ src' = SubSeq(Arg, 1, Cut(Arg, Precision)) /\ k' = 1 /\ piece' = <<>>
  /\ f' = (IF At(f + 2) = "s" THEN f + 3 ELSE f + 4) /\ next' = next + 1
  /\ pc' = "escape" /\ live' = live \union {"escaped"}
  /\ UNCHANGED <<call, cap, out, starved, status>>

(* malloc() of escaped fails; malloc() of truncated fails, and escaped is  *)
(* forgotten.                                                              *)
StringFails ==
  /\ Top("string") \/ Top("cut")
  /\ Passed("string")
  /\ \/ starved' = "escaped" /\ Fail({})
     \/ Class = "cut" /\ starved' = "truncated" /\ Fail({"escaped"})

(* mnet_json_escape(), one byte at a time, into 6 * slen + 1 bytes.        *)
Escape(c) ==
  CASE c = "q" -> <<"\\", "q">>
    [] c = "u" -> <<"\\", "u", "0", "0", "1", "f">>
    [] OTHER   -> <<c>>

EscapedCap == 6 * Len(src) + 1

Written(p) ==
  IF Len(p) + Len(Escape(src[k])) <= EscapedCap - 1 THEN p \o Escape(src[k]) ELSE p

EscapeByte ==
  /\ pc = "escape" /\ k <= Len(src) /\ Len(piece) < EscapedCap - 1
  /\ piece' = Written(piece) /\ k' = k + 1
  /\ UNCHANGED <<scanVars, cap, out, src, live, starved, pc, status>>

Escaped ==
  /\ pc = "escape" /\ (k > Len(src) \/ Len(piece) >= EscapedCap - 1)
  /\ pc' = "append"
  /\ UNCHANGED <<scanVars, cap, out, textVars, live, starved, status>>

Character ==
  /\ Top("char") /\ Passed("char")
  /\ piece' = Escape(Arg[1]) /\ f' = f + 2 /\ next' = next + 1
  /\ pc' = "append"
  /\ UNCHANGED <<call, cap, out, src, k, live, starved, status>>

----------------------------------------------------------------------------
(* Numbers: formatted into 64 bytes on the stack, or as many as it takes.  *)

NumberType == IF At(SpecEnd) = "d" THEN "int" ELSE "float"

Wanted == {Value[d] : d \in Inner \intersect Digits} \union {Len(Arg)}
Need   == CHOOSE n \in Wanted : \A m \in Wanted : m <= n
Padded == [j \in 1 .. Need |->
             IF j <= Need - Len(Arg) THEN "0" ELSE Arg[j - Need + Len(Arg)]]
NotFinite == NumberType = "float" /\ Arg = <<"n", "a", "n">>
Rendered  == IF NotFinite THEN <<"n", "u", "l", "l">> ELSE Padded

(* An integer's specifier is written again into nspec, with "ll" for its   *)
(* length modifiers and a NUL; nobody looks whether that fits.             *)
NormalSize(s) == Len(SelectSeq(s, LAMBDA t : t # "l")) + 3
NormalFits    == NumberType = "int" => NormalSize(SpecText) <= SpecSize

Printable == Proper /\ NormalFits /\ Passed(NumberType)

Number ==
  /\ Top("number") /\ Printable
  /\ piece' = Rendered
  /\ live' = live \union (IF Need + 1 > StackSize THEN {"val"} ELSE {})
  /\ f' = SpecEnd + 1 /\ next' = next + 1 /\ pc' = "append"
  /\ UNCHANGED <<call, cap, out, src, k, starved, status>>

NumberFails ==
  /\ Top("number") /\ Printable /\ Need + 1 > StackSize
  /\ starved' = "val" /\ Fail({})

(* An argument of another type, a specifier that is none, or one that      *)
(* overruns nspec: undefined.                                              *)
Undefined ==
  /\ \/ (Top("string") \/ Top("cut")) /\ ~Passed("string")
     \/ Top("char") /\ ~Passed("char")
     \/ Top("number") /\ ~Printable
  /\ pc' = "undefined"
  /\ UNCHANGED <<scanVars, cap, out, textVars, live, starved, status>>

----------------------------------------------------------------------------
(* The text goes into the buffer, which grows as long as it must.          *)

Fits == Len(out) + Len(piece) + 1 < cap

AppendText ==
  /\ pc = "append" /\ Fits
  /\ out' = out \o piece /\ live' = {"buf"} /\ pc' = "loop"
  /\ UNCHANGED <<scanVars, cap, textVars, starved, status>>

AppendGrows ==
  /\ pc = "append" /\ ~Fits
  /\ cap' = 2 * cap
  /\ UNCHANGED <<scanVars, out, textVars, live, starved, pc, status>>

(* Fault: only the buffer is freed.                                        *)
AppendFailsLeaking ==
  pc = "append" /\ ~Fits /\ starved' = "grow" /\ Fail(live \ {"buf"})

AppendFails == pc = "append" /\ ~Fits /\ starved' = "grow" /\ Fail({})

Works ==
  \/ Enter \/ EnterNull \/ Finish
  \/ Grow \/ Literal \/ Percent \/ Refuse \/ PassOver
  \/ String \/ StringCut \/ EscapeByte \/ Escaped
  \/ Character \/ Number \/ Undefined \/ AppendText \/ AppendGrows

OutOfMemory ==
  EnterFails \/ GrowFails \/ StringFails \/ NumberFails \/ AppendFails

Next == Works \/ OutOfMemory

Spec == Init /\ [][Next]_vars

----------------------------------------------------------------------------
(* What a part of a call may look like, as printf() has it and whatever    *)
(* the scanner does: a character, "%%", "%s" with a precision or without,  *)
(* "%c", a number with flags, digits and lengths.                          *)

PlainText(d) ==
  d.type = "none" /\ Len(d.text) = 1 /\ d.text[1] # "%" /\ d.arg = d.text /\ d.wide = 0
DoublePercent(d) ==
  d.type = "none" /\ d.text = <<"%", "%">> /\ d.arg = <<"%">> /\ d.wide = 0
WholeString(d) ==
  d.type = "string" /\ d.text = <<"%", "s">> /\ d.cut < 0
ShortString(d) ==
  /\ d.type = "string"
  /\ \/ d.text = <<"%", ".", "s">> /\ d.cut = 0
     \/ \E digit \in Digits : d.text = <<"%", ".", digit, "s">> /\ d.cut = Value[digit]
OneCharacter(d) ==
  d.type = "char" /\ d.text = <<"%", "c">> /\ Len(d.arg) = 1 /\ d.cut < 0

DigitsOf(d) == {d.text[j] : j \in 2 .. Len(d.text) - 1} \intersect Digits
PrintedNumber(d) ==
  /\ Len(d.text) > 1 /\ d.text[1] = "%"
  /\ \/ d.text[Len(d.text)] = "d" /\ d.type = "int" /\ d.arg # <<"n", "a", "n">>
     \/ d.text[Len(d.text)] = "f" /\ d.type = "float"
  /\ \A j \in 2 .. Len(d.text) - 1 : d.text[j] \in Modifiers \ {"*"}
  /\ d.text[2] \in Digits => Value[d.text[2]] <= MaxWidth
  /\ d.wide \in {Value[digit] : digit \in DigitsOf(d)} \union {0}
  /\ \A digit \in DigitsOf(d) : Value[digit] <= d.wide

WellFormed(d) ==
  \/ PlainText(d) \/ DoublePercent(d) \/ WholeString(d) \/ ShortString(d)
  \/ OneCharacter(d) \/ PrintedNumber(d)

(* What is refused at place x of a format s: with the first conversion     *)
(* character or "%" behind it at e, a specifier that is not finished, one  *)
(* with a "*", and, if it fits, "%n", "%c" or "%" with modifiers, and a    *)
(* width that is too large.                                                *)
Forbidden(s, x) ==
  /\ s[x] = "%"
  /\ x < Len(s) => s[x + 1] \notin {"%", "s", "c"}
  /\ ~\E y \in x + 2 .. Len(s) :
        s[x + 1] = "." /\ s[y] = "s" /\ (y = x + 2 \/ (y = x + 3 /\ s[x + 2] \in Digits))
  /\ \E e \in x + 1 .. Len(s) + 1 :
       /\ \A m \in x + 1 .. e - 1 : s[m] \notin Conversions \union {"%"}
       /\ \/ e = Len(s) + 1
          \/ /\ s[e] \in Conversions \union {"%"}
             /\ \/ s[x + 1] = "*"
                \/ e - x + 1 < SpecSize /\
                     \/ s[e] = "n"
                     \/ s[e] \in {"c", "%"} /\ \E m \in x + 1 .. e - 1 : s[m] \in Modifiers
                     \/ s[x + 1] \in Digits /\ Value[s[x + 1]] > MaxWidth

(* Where a part of a call begins, and how many arguments go before it.     *)
Start(parts) ==
  LET s[n \in Nat] == IF n = 0 THEN 0 ELSE s[n - 1] + Len(parts[n].text) IN s
Taken(parts) ==
  LET t[n \in Nat] == IF n = 0 THEN 0
                      ELSE t[n - 1] + (IF parts[n].type = "none" THEN 0 ELSE 1) IN t

(* The parts of a call side by side are its format and its arguments.      *)
CallPart == [text : Seq(STRING), type : {"none", "string", "char", "int", "float"},
             arg : Seq(STRING), wide : Nat, cut : Int, legal : BOOLEAN]
Spelled(c) ==
  LET S == Start(c.parts)
      T == Taken(c.parts)
  IN /\ c.parts \in Seq(CallPart)
     /\ Len(c.format) = S[Len(c.parts)] /\ Len(c.args) = T[Len(c.parts)]
     /\ \A n \in 1 .. Len(c.parts) :
          LET d == c.parts[n]
          IN /\ d.text # <<>>
             /\ \A j \in 1 .. Len(d.text) : c.format[S[n - 1] + j] = d.text[j]
             /\ d.type # "none" => c.args[T[n]] = [type |-> d.type, text |-> d.arg]
             /\ IF d.legal THEN WellFormed(d) ELSE Forbidden(c.format, S[n - 1] + 1)

----------------------------------------------------------------------------
(* Properties.                                                             *)

(* Neither the output nor the escape buffer is written past its end: there *)
(* is always room for the NUL after what mnet_jsonfv() has written, and    *)
(* mnet_json_escape() always finds the six bytes a character may take, so  *)
(* it never drops one.  This says nothing of nspec: see NormalFits.        *)
BufferBound ==
  /\ pc # "enter" => Len(out) < cap
  /\ pc = "escape" => Len(piece) + 6 * (Len(src) - k + 1) < EscapedCap

(* What a part of a call stands for: its text, its string as far as the    *)
(* precision lets it through, its number as wide as it wants it.           *)
EscapeAll[s \in Seq(STRING)] ==
  IF s = <<>> THEN <<>> ELSE Escape(Head(s)) \o EscapeAll[Tail(s)]
Meaning(d) ==
  IF d.type \in {"string", "char"}
  THEN EscapeAll[SubSeq(d.arg, 1, IF d.cut < 0 THEN Len(d.arg) ELSE Cut(d.arg, d.cut))]
  ELSE IF d.arg = <<"n", "a", "n">> THEN <<"n", "u", "l", "l">>
  ELSE [j \in 1 .. d.wide - Len(d.arg) |-> "0"] \o d.arg
Meant(parts) ==
  LET m[n \in Nat] == IF n = 0 THEN <<>> ELSE m[n - 1] \o Meaning(parts[n])
  IN m

Parts == {call.parts[n] : n \in 1 .. Len(call.parts)}
Passable(d) ==
  Len(d.text) < SpecSize /\ (d.type = "int" => NormalSize(d.text) <= SpecSize)

(* If every directive fits the 64 bytes of spec, and an integer's normal   *)
(* form those of nspec, the scanner never loses step with the arguments or *)
(* hands snprintf() a specifier it does not know; and with memory to spare *)
(* the call is answered with what its parts stand for, in order and every  *)
(* argument in its place, if all are allowed, and refused if one is not.   *)
FormatRight ==
  call # NullFormat /\ (\A d \in Parts : Passable(d)) =>
    /\ pc # "undefined"
    /\ pc = "returned" /\ starved = "none" =>
         /\ status = 200 <=> \A d \in Parts : d.legal
         /\ status = 200 => out = Meant(call.parts)[Len(call.parts)] /\ next = Len(Args)

(* A precision leaves a beginning of the string, no longer than it says,   *)
(* that never ends inside a UTF-8 sequence, and all it can of ASCII.       *)
WholeCharacters ==
  Top("cut") /\ Passed("string") =>
    LET n == Cut(Arg, Precision)
    IN /\ n <= Len(Arg) /\ (n <= Precision \/ n = 0)
       /\ 0 < n /\ n < Len(Arg) => Arg[n + 1] # "C"
       /\ (\A m \in 1 .. Len(Arg) : Arg[m] \notin {"L", "C"}) =>
            n = Len(Arg) \/ n = Precision

(* Whatever fails, nothing is left allocated but the body returned; only   *)
(* when it is the copy of a cut string that cannot be made, the escape     *)
(* buffer may be.                                                          *)
AllFreed ==
  pc = "returned" =>
    live \subseteq (IF status = 200 THEN {"buf"} ELSE {"null"})
                     \union (IF starved = "truncated" THEN {"escaped"} ELSE {})
=============================================================================
