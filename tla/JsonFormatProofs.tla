-------------------------- MODULE JsonFormatProofs --------------------------
(***************************************************************************)
(* For every format, every list of arguments and every size: mnet_jsonfv() *)
(* and mnet_json_escape() stay inside their buffers, what is allocated is  *)
(* freed, and a precision never cuts a character in two; and for a format  *)
(* put together from parts, the answer is what the parts stand for.        *)
(***************************************************************************)
EXTENDS JsonFormat, ListLemmas

(* What a digit stands for.                                                *)
LEMMA ValueNat == \A d \in Digits : Value[d] \in 0 .. 9
  BY DEF Value, Digits

(* The strings, the ones the code writes by itself named for the provers.  *)
Tokens == STRING \union {"\\", "q", "u", "0", "1", "f", "n", "l", "end"}

(* A byte takes at most six.                                               *)
LEMMA EscapeLength ==
  ASSUME NEW c \in Tokens
  PROVE  Escape(c) \in Seq(Tokens) /\ Len(Escape(c)) \in 1 .. 6
<1>0. {"\\", "q", "u", "0", "1", "f"} \subseteq Tokens
  BY DEF Tokens
<1> HIDE DEF Tokens
<1>1. CASE c = "q"
  <2>1. Escape(c) = <<"\\", "q">>
    BY <1>1, Zenon DEF Escape
  <2> QED
    BY <1>0, <2>1
<1>2. CASE c = "u"
  <2>1. Escape(c) = <<"\\", "u", "0", "0", "1", "f">>
    BY <1>2 DEF Escape
  <2> QED
    BY <1>0, <2>1
<1>3. CASE c \notin {"q", "u"}
  <2>1. Escape(c) = <<c>>
    BY <1>3 DEF Escape
  <2> QED
    BY <2>1
<1> QED
  BY <1>1, <1>2, <1>3

(* There is a byte in front of which a string can be cut.                  *)
LEMMA BackIs ==
  ASSUME NEW s \in Seq(STRING), NEW m \in 0 .. Len(s) - 1
  PROVE  /\ Back(s, m) \in 0 .. m
         /\ Back(s, m) = 0 \/ s[Back(s, m) + 1] # "C"
         /\ \A x \in Back(s, m) + 1 .. m : s[x + 1] = "C"
<1> DEFINE T == {d \in 0 .. m : d = m \/ s[(m - d) + 1] # "C"}
           Q(t) == /\ t = 0 \/ s[t + 1] # "C"
                   /\ \A x \in t + 1 .. m : s[x + 1] = "C"
<1>1. T \subseteq Nat /\ m \in T
  OBVIOUS
<1>2. PICK d \in T : \A y \in T : d <= y
  BY <1>1, Least
<1>3. m - d \in 0 .. m /\ (m - d = 0 \/ s[(m - d) + 1] # "C")
  BY <1>2
<1>4. \A x \in (m - d) + 1 .. m : s[x + 1] = "C"
  <2> TAKE x \in (m - d) + 1 .. m
  <2>1. m - x \in 0 .. m /\ m - x < d /\ m - (m - x) = x
    BY <1>2
  <2>2. m - x \notin T
    <3> HIDE DEF T
    <3>1. d \in Nat /\ \A y \in T : ~(y < d)
      BY <1>1, <1>2
    <3> QED
      BY <2>1, <3>1
  <2> QED
    BY <2>1, <2>2
<1>5. m - d \in 0 .. m /\ Q(m - d)
  BY <1>3, <1>4
<1>6. Back(s, m) = CHOOSE t \in 0 .. m : Q(t)
  BY Zenon DEF Back
<1>7. Back(s, m) \in 0 .. m /\ Q(Back(s, m))
  <2> HIDE DEF Q, T
  <2> QED
    BY <1>5, <1>6, Zenon
<1> QED
  BY <1>7

(* What Cut() leaves.                                                      *)
LEMMA CutIs ==
  ASSUME NEW s \in Seq(STRING), NEW m \in Nat
  PROVE  /\ Cut(s, m) \in 0 .. Len(s) /\ (Cut(s, m) <= m \/ Cut(s, m) = 0)
         /\ 0 < Cut(s, m) /\ Cut(s, m) < Len(s) => s[Cut(s, m) + 1] # "C"
         /\ (\A x \in 1 .. Len(s) : s[x] \notin {"L", "C"}) =>
              Cut(s, m) = Len(s) \/ Cut(s, m) = m
<1>1. CASE m >= Len(s)
  BY <1>1 DEF Cut
<1>2. CASE m < Len(s)
  <2> DEFINE t == Back(s, m)
  <2>1. t \in 0 .. m /\ (t = 0 \/ s[t + 1] # "C") /\ \A x \in t + 1 .. m : s[x + 1] = "C"
    BY <1>2, BackIs
  <2>2. Cut(s, m) = IF t > 0 /\ s[t + 1] = "L" /\ t + 2 > m THEN 0 ELSE t
    BY <1>2 DEF Cut
  <2> HIDE DEF t
  <2>3. ASSUME \A x \in 1 .. Len(s) : s[x] \notin {"L", "C"} PROVE Cut(s, m) = m
    <3>1. t = m
      BY <1>2, <2>1, <2>3
    <3>2. s[t + 1] # "L"
      BY <1>2, <2>1, <2>3
    <3> QED
      BY <2>2, <3>1, <3>2
  <2> QED
    BY <1>2, <2>1, <2>2, <2>3
<1> QED
  BY <1>1, <1>2

----------------------------------------------------------------------------
(* The places in a format and the arguments of a call.                     *)

Scanning ==
  /\ call \in Calls /\ f \in Nat \ {0} /\ next \in Nat

LEMMA CallTypes ==
  ASSUME Scanning
  PROVE  /\ Format \in Seq(STRING)
         /\ \A x \in Nat \ {0} : At(x) \in Tokens
         /\ \A type \in {"string", "char", "int", "float"} : Passed(type) =>
              Arg \in Seq(STRING) /\ (type = "char" => Arg # <<>>)
<1>1. Format \in Seq(STRING)
  BY CallsAssumption DEF Scanning, Format
<1>2. \A x \in Nat \ {0} : At(x) \in Tokens
  BY <1>1 DEF At, Tokens
<1>3. ASSUME NEW type \in {"string", "char", "int", "float"}, Passed(type)
      PROVE  Arg \in Seq(STRING) /\ (type = "char" => Arg # <<>>)
  <2>1. /\ Args \in Seq([type : {"string", "char", "int", "float"}, text : Seq(STRING)])
        /\ \A x \in 1 .. Len(Args) : Args[x].type = "char" => Args[x].text # <<>>
    BY CallsAssumption DEF Scanning, Args
  <2>2. next + 1 \in 1 .. Len(Args) /\ Args[next + 1].type = type
    BY <1>3, <2>1 DEF Scanning, Passed
  <2>3. Args[next + 1] \in [type : {"string", "char", "int", "float"}, text : Seq(STRING)]
    <3> DEFINE R == [type : {"string", "char", "int", "float"}, text : Seq(STRING)]
    <3>1. Args \in Seq(R)
      BY <2>1
    <3> HIDE DEF R
    <3>2. Args[next + 1] \in R
      BY <2>2, <3>1
    <3> QED
      BY <3>2 DEF R
  <2>4. Args[next + 1].text \in Seq(STRING)
    BY <2>3
  <2> QED
    BY <2>1, <2>2, <2>4 DEF Arg
<1> QED
  BY <1>1, <1>2, <1>3

(* The end of a specifier.                                                 *)
LEMMA SpecEndIs ==
  ASSUME Scanning, f <= Len(Format)
  PROVE  SpecEnd \in f + 1 .. Len(Format) + 1
<1> DEFINE E == Conversions \union {"%"}
           T == {j \in f + 1 .. Len(Format) + 1 : j = Len(Format) + 1 \/ Format[j] \in E}
           Q(j) == /\ j = Len(Format) + 1 \/ Format[j] \in E
                   /\ \A m \in f + 1 .. j - 1 : Format[m] \notin E
<1>1. Format \in Seq(STRING) /\ f \in Nat
  BY CallTypes DEF Scanning
<1>2. T \subseteq Nat /\ Len(Format) + 1 \in T
  BY <1>1
<1>3. PICK j \in T : \A y \in T : j <= y
  BY <1>2, Least
<1>4. j \in f + 1 .. Len(Format) + 1 /\ Q(j)
  BY <1>1, <1>3
<1>5. SpecEnd = CHOOSE x \in f + 1 .. Len(Format) + 1 : Q(x)
  BY Zenon DEF SpecEnd
<1> HIDE DEF Q, T
<1> QED
  BY <1>4, <1>5, Zenon

(* The width a number comes out with.                                      *)
LEMMA NeedIs ==
  ASSUME Arg \in Seq(STRING)
  PROVE  Need \in Nat /\ Need >= Len(Arg)
<1> DEFINE U == {b \in Nat : \A m \in Wanted : m <= b}
<1>1. Wanted \subseteq Nat /\ Len(Arg) \in Wanted
  BY ValueNat DEF Wanted
<1>2. Len(Arg) + 9 \in U
  BY ValueNat DEF Wanted
<1>3. PICK b \in U : \A y \in U : b <= y
  <2>1. U \subseteq Nat /\ U # {}
    BY <1>2
  <2> HIDE DEF U
  <2> QED
    BY <2>1, Least
<1>4. b \in Wanted
  <2> SUFFICES ASSUME b \notin Wanted PROVE FALSE
    OBVIOUS
  <2>1. b - 1 \in U
    BY <1>1, <1>3
  <2> QED
    BY <1>3, <2>1
<1>5. b \in Wanted /\ \A m \in Wanted : m <= b
  BY <1>3, <1>4
<1>6. Need \in Wanted /\ \A m \in Wanted : m <= Need
  BY <1>5, Zenon DEF Need
<1> QED
  BY <1>1, <1>6

(* A number fits between the padding and the buffer it is put in.          *)
LEMMA RenderedSeq ==
  ASSUME Arg \in Seq(STRING)
  PROVE  Rendered \in Seq(Tokens)
<1>1. Need \in Nat /\ Need >= Len(Arg)
  BY NeedIs
<1>2. \A j \in 1 .. Need :
        (IF j <= Need - Len(Arg) THEN "0" ELSE Arg[j - Need + Len(Arg)]) \in Tokens
  <2> TAKE j \in 1 .. Need
  <2>1. CASE j <= Need - Len(Arg)
    BY <2>1 DEF Tokens
  <2>2. CASE ~(j <= Need - Len(Arg))
    <3>1. j - Need + Len(Arg) \in 1 .. Len(Arg)
      BY <1>1, <2>2
    <3>2. Arg[j - Need + Len(Arg)] \in STRING
      BY <3>1
    <3> QED
      BY <2>2, <3>2 DEF Tokens
  <2> QED
    BY <2>1, <2>2
<1>3. Padded \in Seq(Tokens)
  BY <1>1, <1>2 DEF Padded
<1>4. <<"n", "u", "l", "l">> \in Seq(Tokens)
  <2>1. {"n", "u", "l"} \subseteq Tokens
    BY DEF Tokens
  <2> HIDE DEF Tokens
  <2> QED
    BY <2>1
<1> QED
  BY <1>3, <1>4 DEF Rendered

----------------------------------------------------------------------------
(* The inductive invariant.  Every byte escaped so far took at most six;   *)
(* the temporary allocations are those of the place mnet_jsonfv() is at.   *)

Working == {"loop", "escape", "append"}

RoomInv ==
  /\ cap \in Nat /\ out \in Seq(Tokens) /\ Len(out) < cap
  /\ piece \in Seq(Tokens) /\ src \in Seq(STRING)
  /\ pc = "escape" => k \in 1 .. Len(src) + 1 /\ Len(piece) <= 6 * (k - 1)

HeapInv ==
  /\ pc = "enter" => live = {}
  /\ pc = "loop" => live = {"buf"}
  /\ pc = "escape" => live = {"buf", "escaped"}
  /\ pc = "append" => live \in SUBSET {"buf", "escaped", "val"}

JInv ==
  /\ pc \in Working \union {"enter", "returned", "undefined"}
  /\ pc = "enter" => call \in Calls \union {NullFormat} /\ f = 1 /\ next = 0
  /\ pc \in Working => Scanning
  /\ RoomInv /\ HeapInv /\ AllFreed

LEMMA JInit == Init => JInv
  BY SizesAssumption
  DEF Init, JInv, Working, RoomInv, HeapInv, AllFreed

(* The steps that return.                                                  *)
LEMMA JStepReturn ==
  ASSUME JInv,
         \/ EnterFails \/ EnterNull \/ Refuse \/ GrowFails \/ StringFails
         \/ NumberFails \/ AppendFails \/ Finish \/ Undefined
  PROVE  JInv'
<1>1. ASSUME NEW kept, Fail(kept),
             kept = {} \/ (kept = {"escaped"} /\ starved' = "truncated")
      PROVE  JInv'
  <2>1. pc' = "returned" /\ status' = 500 /\ UNCHANGED <<scanVars, cap, out, textVars>>
        /\ live' \subseteq kept \union {"null"}
    BY <1>1 DEF Fail
  <2>2. AllFreed'
    BY <1>1, <2>1 DEF AllFreed
  <2> QED
    BY <2>1, <2>2 DEF scanVars, textVars, JInv, Working, RoomInv, HeapInv
<1>2. CASE EnterFails \/ EnterNull \/ Refuse \/ GrowFails \/ NumberFails \/ AppendFails
  BY <1>1, <1>2 DEF EnterFails, EnterNull, Refuse, GrowFails, NumberFails, AppendFails
<1>3. CASE StringFails
  BY <1>1, <1>3 DEF StringFails
<1>4. CASE Finish
  BY <1>4 DEF Finish, scanVars, textVars, JInv, Working, RoomInv, HeapInv, AllFreed
<1>5. CASE Undefined
  BY <1>5 DEF Undefined, scanVars, textVars, JInv, Working, RoomInv, HeapInv, AllFreed
<1> QED
  BY <1>2, <1>3, <1>4, <1>5

(* The steps of the loop that only scan, and those that make room.         *)
LEMMA JStepScan ==
  ASSUME JInv,
         Enter \/ Grow \/ Literal \/ Percent \/ PassOver \/ AppendText \/ AppendGrows
  PROVE  JInv'
<1>1. CASE Enter
  BY <1>1 DEF Enter, scanVars, textVars, JInv, Working, RoomInv, HeapInv, AllFreed, Scanning
<1>2. CASE Grow \/ AppendGrows
  <2>1. cap' \in Nat /\ cap' >= cap /\ cap' = 2 * cap
    BY <1>2 DEF Grow, AppendGrows, JInv, RoomInv
  <2> QED
    BY <1>2, <2>1 DEF Grow, AppendGrows, scanVars, textVars, JInv, Working, RoomInv, HeapInv,
      AllFreed, Scanning
<1>3. CASE Literal \/ Percent
  <2>1. PICK m \in {1, 2} : Copy(m)
    BY <1>3 DEF Literal, Percent
  <2>2. pc = "loop" /\ ~Full /\ Scanning
    BY <1>3 DEF Literal, Percent, Top, JInv, Working
  <2>3. At(f) \in Tokens
    BY <2>2, CallTypes DEF Scanning
  <2>4. out' \in Seq(Tokens) /\ Len(out') < cap
    BY <2>1, <2>2, <2>3 DEF Copy, Full, JInv, RoomInv
  <2>5. Scanning'
    BY <2>1, <2>2 DEF Copy, Scanning
  <2> QED
    BY <2>1, <2>2, <2>4, <2>5
    DEF Copy, textVars, JInv, Working, RoomInv, HeapInv, AllFreed
<1>4. CASE PassOver
  <2>1. Scanning /\ f <= Len(Format) /\ pc = "loop"
    BY <1>4 DEF PassOver, Top, JInv, Working
  <2>2. f' \in Nat \ {0}
    BY <1>4, <2>1, SpecEndIs, CallTypes DEF PassOver, Scanning
  <2> QED
    BY <1>4, <2>1, <2>2
    DEF PassOver, textVars, JInv, Working, RoomInv, HeapInv, AllFreed, Scanning
<1>5. CASE AppendText
  <2>1. out' \in Seq(Tokens) /\ Len(out') < cap
    BY <1>5 DEF AppendText, Fits, JInv, RoomInv
  <2> QED
    BY <1>5, <2>1
    DEF AppendText, scanVars, textVars, JInv, Working, RoomInv, HeapInv, AllFreed, Scanning
<1> QED
  BY <1>1, <1>2, <1>3, <1>4, <1>5

(* The steps that read an argument.                                        *)
LEMMA JStepArgument ==
  ASSUME JInv, String \/ StringCut \/ Character \/ Number
  PROVE  JInv'
<1>1. Scanning /\ f <= Len(Format) /\ pc = "loop"
  BY DEF String, StringCut, Character, Number, Top, JInv, Working
<1>2. CASE String
  <2>1. Arg \in Seq(STRING)
    BY <1>1, <1>2, CallTypes DEF String
  <2>2. Scanning'
    BY <1>1, <1>2 DEF String, Scanning
  <2> QED
    BY <1>1, <1>2, <2>1, <2>2 DEF String, JInv, Working, RoomInv, HeapInv, AllFreed
<1>3. CASE StringCut
  <2>1. Arg \in Seq(STRING)
    BY <1>1, <1>3, CallTypes DEF StringCut
  <2>2. Precision \in Nat
    BY <1>3, ValueNat DEF StringCut, Top, Class, CutString, Precision
  <2>3. SubSeq(Arg, 1, Cut(Arg, Precision)) \in Seq(STRING)
    BY <2>1, <2>2, CutIs, SMTT(30)
  <2>4. Scanning'
    BY <1>1, <1>3 DEF StringCut, Scanning
  <2> QED
    BY <1>1, <1>3, <2>3, <2>4 DEF StringCut, JInv, Working, RoomInv, HeapInv, AllFreed
<1>4. CASE Character
  <2>1. Arg \in Seq(STRING) /\ Arg # <<>>
    BY <1>1, <1>4, CallTypes DEF Character
  <2>2. Escape(Arg[1]) \in Seq(Tokens)
    <3>1. Arg[1] \in STRING
      BY <2>1
    <3>2. Arg[1] \in Tokens
      BY <3>1 DEF Tokens
    <3> QED
      BY <3>2, EscapeLength
  <2>3. Scanning'
    BY <1>1, <1>4 DEF Character, Scanning
  <2> QED
    BY <1>1, <1>4, <2>2, <2>3 DEF Character, JInv, Working, RoomInv, HeapInv, AllFreed
<1>5. CASE Number
  <2>1. Arg \in Seq(STRING)
    BY <1>1, <1>5, CallTypes DEF Number, Printable, NumberType
  <2>2. Rendered \in Seq(Tokens)
    BY <2>1, RenderedSeq
  <2>3. Scanning'
    BY <1>1, <1>5, SpecEndIs, CallTypes DEF Number, Scanning
  <2> QED
    BY <1>1, <1>5, <2>2, <2>3 DEF Number, JInv, Working, RoomInv, HeapInv, AllFreed
<1> QED
  BY <1>2, <1>3, <1>4, <1>5

(* One byte escaped: six bytes of room and one byte less to come.          *)
LEMMA JStepEscape ==
  ASSUME JInv, EscapeByte \/ Escaped
  PROVE  JInv'
<1>1. CASE EscapeByte
  <2>1. k \in 1 .. Len(src) /\ src \in Seq(STRING) /\ piece \in Seq(Tokens)
        /\ Len(piece) <= 6 * (k - 1) /\ pc = "escape"
    BY <1>1 DEF EscapeByte, JInv, RoomInv
  <2>2. Escape(src[k]) \in Seq(Tokens) /\ Len(Escape(src[k])) \in 1 .. 6
    <3>1. src[k] \in STRING
      BY <2>1
    <3>2. src[k] \in Tokens
      BY <3>1 DEF Tokens
    <3> QED
      BY <3>2, EscapeLength
  <2>3. Written(piece) \in Seq(Tokens) /\ Len(Written(piece)) <= 6 * ((k + 1) - 1)
    <3> DEFINE e == Escape(src[k])
    <3>1. e \in Seq(Tokens) /\ Len(e) \in 1 .. 6
      BY <2>2
    <3> HIDE DEF e
    <3>2. piece \o e \in Seq(Tokens) /\ Len(piece \o e) = Len(piece) + Len(e)
      BY <2>1, <3>1
    <3>3. Written(piece) = piece \o e \/ Written(piece) = piece
      BY DEF Written, e
    <3>4. k \in Nat /\ Len(piece) \in Nat
      BY <2>1
    <3>5. Len(piece) + Len(e) <= 6 * ((k + 1) - 1) /\ Len(piece) <= 6 * ((k + 1) - 1)
      <4>1. \A x, y, z \in Nat : x <= 6 * (z - 1) /\ y <= 6 =>
              x + y <= 6 * ((z + 1) - 1) /\ x <= 6 * ((z + 1) - 1)
        OBVIOUS
      <4>2. Len(e) \in Nat /\ Len(e) <= 6
        <5>1. Len(e) \in 1 .. 6
          BY <3>1
        <5>2. \A x \in 1 .. 6 : x \in Nat /\ x <= 6
          OBVIOUS
        <5> QED
          BY <5>1, <5>2, Zenon
      <4>3. Len(piece) <= 6 * (k - 1)
        BY <2>1
      <4> QED
        BY <3>4, <4>1, <4>2, <4>3
    <3> QED
      BY <2>1, <3>2, <3>3, <3>5
  <2> QED
    BY <1>1, <2>1, <2>3
    DEF EscapeByte, scanVars, JInv, Working, RoomInv, HeapInv, AllFreed, Scanning
<1>2. CASE Escaped
  BY <1>2 DEF Escaped, scanVars, textVars, JInv, Working, RoomInv, HeapInv, AllFreed, Scanning
<1> QED
  BY <1>1, <1>2

LEMMA JStep == JInv /\ [Next]_vars => JInv'
<1> SUFFICES ASSUME JInv, [Next]_vars PROVE JInv'
  OBVIOUS
<1>1. CASE UNCHANGED vars
  BY <1>1 DEF vars, JInv, Working, RoomInv, HeapInv, AllFreed, Scanning
<1>2. CASE Next
  BY <1>2, JStepReturn, JStepScan, JStepArgument, JStepEscape DEF Next, Works, OutOfMemory
<1> QED
  BY <1>1, <1>2

LEMMA JAlways == Spec => []JInv
  BY JInit, JStep, PTL DEF Spec

----------------------------------------------------------------------------
(* mnet_jsonfv() makes room before it writes, NUL included, and the six    *)
(* bytes per character that it gives mnet_json_escape() are always enough. *)
THEOREM BufferBoundHolds == Spec => []BufferBound
<1>1. JInv => BufferBound
  BY DEF JInv, RoomInv, BufferBound, EscapedCap
<1> QED
  BY JAlways, <1>1, PTL

(* Every return of mnet_jsonfv() frees what it does not hand out, but for  *)
(* the escape buffer of a string that could not be cut.                    *)
THEOREM AllFreedHolds == Spec => []AllFreed
<1>1. JInv => AllFreed
  BY DEF JInv
<1> QED
  BY JAlways, <1>1, PTL

(* %.Ns leaves whole UTF-8 characters, whatever the string and N.          *)
THEOREM WholeCharactersHolds == Spec => []WholeCharacters
<1>1. ASSUME JInv, Top("cut"), Passed("string")
      PROVE  Arg \in Seq(STRING) /\ Precision \in Nat
  <2>1. Arg \in Seq(STRING)
    BY <1>1, CallTypes DEF Top, JInv, Working
  <2>2. Precision \in Nat
    BY <1>1, ValueNat DEF Top, Class, CutString, Precision
  <2> QED
    BY <2>1, <2>2
<1>2. ASSUME JInv PROVE WholeCharacters
  <2> SUFFICES ASSUME Top("cut"), Passed("string")
               PROVE  LET m == Cut(Arg, Precision)
                      IN /\ m <= Len(Arg) /\ (m <= Precision \/ m = 0)
                         /\ 0 < m /\ m < Len(Arg) => Arg[m + 1] # "C"
                         /\ (\A x \in 1 .. Len(Arg) : Arg[x] \notin {"L", "C"}) =>
                              m = Len(Arg) \/ m = Precision
    BY DEF WholeCharacters
  <2>1. Arg \in Seq(STRING) /\ Precision \in Nat
    BY <1>1, <1>2
  <2> HIDE DEF Arg, Precision
  <2> QED
    BY <2>1, CutIs
<1> QED
  BY JAlways, <1>2, PTL

----------------------------------------------------------------------------
(* EscapeAll satisfies its equation and returns a text.                    *)

EscapeBy(g, s) == IF s = <<>> THEN <<>> ELSE Escape(Head(s)) \o g[Tail(s)]

LEMMA EscapeAllIs ==
  ASSUME NEW s \in Seq(STRING)
  PROVE  EscapeAll[s] = EscapeBy(EscapeAll, s)
<1>1. OpDefinesFcn(EscapeAll, Seq(STRING), EscapeBy)
  BY Zenon DEF OpDefinesFcn, EscapeAll, EscapeBy
<1>2. WFDefOn(Shorter, Seq(STRING), EscapeBy)
  <2> SUFFICES ASSUME NEW g, NEW h, NEW x \in Seq(STRING),
                      \A y \in SetLessThan(x, Shorter, Seq(STRING)) : g[y] = h[y]
               PROVE  EscapeBy(g, x) = EscapeBy(h, x)
    BY Zenon DEF WFDefOn
  <2>1. ASSUME x # <<>> PROVE g[Tail(x)] = h[Tail(x)]
    <3>1. Tail(x) \in Seq(STRING) /\ Len(Tail(x)) < Len(x)
      BY <2>1
    <3>2. Tail(x) \in SetLessThan(x, Shorter, Seq(STRING))
      BY <3>1 DEF SetLessThan, Shorter
    <3> QED
      BY <3>2
  <2> QED
    BY <2>1, Zenon DEF EscapeBy
<1> HIDE DEF EscapeBy
<1>3. WFInductiveDefines(EscapeAll, Seq(STRING), EscapeBy)
  BY <1>1, <1>2, ShorterWellFounded, WFInductiveDef, Zenon
<1> QED
  BY <1>3, Zenon DEF WFInductiveDefines

LEMMA EscapeList ==
  ASSUME NEW c \in STRING
  PROVE  IsList(Escape(c))
<1>1. c \in Tokens
  BY DEF Tokens
<1> QED
  BY <1>1, EscapeLength, ListIs

LEMMA EscapeAllList == \A s \in Seq(STRING) : IsList(EscapeAll[s])
<1> DEFINE C == {s \in Seq(STRING) : ~IsList(EscapeAll[s])}
<1> SUFFICES ASSUME C # {} PROVE FALSE
  OBVIOUS
<1>1. PICK s \in C : \A y \in C : ~(<<y, s>> \in Shorter)
  BY ShorterWellFounded, WFMin
<1>2. s \in Seq(STRING) /\ \A y \in C : ~(Len(y) < Len(s))
  BY <1>1 DEF Shorter
<1>3. CASE s = <<>>
  <2>1. EscapeAll[s] = <<>>
    BY <1>2, <1>3, EscapeAllIs DEF EscapeBy
  <2> QED
    BY <1>1, <2>1 DEF IsList
<1>4. CASE s # <<>>
  <2>1. Tail(s) \in Seq(STRING) /\ Len(Tail(s)) < Len(s) /\ Head(s) \in STRING
    BY <1>2, <1>4
  <2>2. IsList(EscapeAll[Tail(s)])
    BY <1>2, <2>1
  <2>3. IsList(Escape(Head(s)))
    BY <2>1, EscapeList
  <2>4. IsList(Escape(Head(s)) \o EscapeAll[Tail(s)])
    BY <2>2, <2>3, ConcatList
  <2>5. EscapeAll[s] = Escape(Head(s)) \o EscapeAll[Tail(s)]
    BY <1>2, <1>4, EscapeAllIs DEF EscapeBy
  <2> QED
    BY <1>1, <2>4, <2>5
<1> QED
  BY <1>3, <1>4

(* The rest of a string from place x on, and its first byte.               *)
From(s, x) == SubSeq(s, x, Len(s))

LEMMA EscapeFrom ==
  ASSUME NEW s \in Seq(STRING), NEW x \in 1 .. Len(s)
  PROVE  /\ EscapeAll[From(s, x)] = Escape(s[x]) \o EscapeAll[From(s, x + 1)]
         /\ IsList(Escape(s[x])) /\ IsList(EscapeAll[From(s, x + 1)])
<1>1. PICK t : t = From(s, x)
  OBVIOUS
<1>2. /\ t \in Seq(STRING) /\ Len(t) = Len(s) - x + 1
      /\ \A y \in 1 .. Len(t) : t[y] = s[x - 1 + y]
  BY <1>1 DEF From
<1>3. t # <<>> /\ Head(t) = s[x]
  BY <1>2
<1>4. PICK u : u = From(s, x + 1)
  OBVIOUS
<1>5. /\ u \in Seq(STRING) /\ Len(u) = Len(s) - x
      /\ \A y \in 1 .. Len(u) : u[y] = s[x + y]
  BY <1>4 DEF From
<1>6. Tail(t) = u
  <2>1. IsList(t) /\ IsList(u)
    BY <1>2, <1>5, ListIs
  <2>2. /\ IsList(Tail(t)) /\ Len(Tail(t)) = Len(t) - 1
        /\ \A y \in 1 .. Len(t) - 1 : Tail(t)[y] = t[y + 1]
    BY <1>3, <2>1, TailList
  <2>3. PICK v : v = Tail(t)
    OBVIOUS
  <2>4. Len(v) = Len(u)
    BY <1>2, <1>5, <2>2, <2>3
  <2>5. ASSUME NEW y \in 1 .. Len(v) PROVE v[y] = u[y]
    <3>1. y \in 1 .. Len(t) - 1 /\ y + 1 \in 1 .. Len(t) /\ y \in 1 .. Len(u)
      BY <1>2, <1>5, <2>2, <2>3
    <3>2. x - 1 + (y + 1) = x + y
      BY <3>1
    <3>3. v[y] = t[y + 1] /\ t[y + 1] = s[x - 1 + (y + 1)] /\ u[y] = s[x + y]
      BY <1>2, <1>5, <2>2, <2>3, <3>1
    <3> QED
      BY <3>2, <3>3
  <2> QED
    BY <2>1, <2>2, <2>3, <2>4, <2>5, SameList
<1>7. EscapeAll[t] = Escape(s[x]) \o EscapeAll[u]
  BY <1>2, <1>3, <1>6, EscapeAllIs DEF EscapeBy
<1>8. s[x] \in STRING
  OBVIOUS
<1> QED
  BY <1>1, <1>4, <1>5, <1>7, <1>8, EscapeList, EscapeAllList

LEMMA EscapeNothing ==
  ASSUME NEW s \in Seq(STRING)
  PROVE  EscapeAll[From(s, Len(s) + 1)] = <<>>
<1>1. From(s, Len(s) + 1) = <<>>
  BY DEF From
<1>2. <<>> \in Seq(STRING)
  OBVIOUS
<1> QED
  BY <1>1, <1>2, EscapeAllIs DEF EscapeBy

----------------------------------------------------------------------------
(* The parts of a call, one behind the other.                              *)

LEMMA StartIs ==
  ASSUME NEW p
  PROVE  /\ Start(p)[0] = 0
         /\ \A n \in Nat : Start(p)[n + 1] = Start(p)[n] + Len(p[n + 1].text)
<1> DEFINE U == Start(p)
<1>1. NatInductiveDefHypothesis(U, 0, LAMBDA v, n : v + Len(p[n].text))
  BY Zenon DEF NatInductiveDefHypothesis, Start
<1>2. NatInductiveDefConclusion(U, 0, LAMBDA v, n : v + Len(p[n].text))
  BY <1>1, NatInductiveDef, Zenon
<1>3. \A n \in Nat : U[n] = IF n = 0 THEN 0 ELSE U[n - 1] + Len(p[n].text)
  BY <1>2, Zenon DEF NatInductiveDefConclusion
<1> HIDE DEF U
<1>4. U[0] = 0
  BY <1>3
<1>5. ASSUME NEW n \in Nat PROVE U[n + 1] = U[n] + Len(p[n + 1].text)
  <2>1. n + 1 \in Nat /\ n + 1 # 0 /\ (n + 1) - 1 = n
    OBVIOUS
  <2>2. U[n + 1] = U[(n + 1) - 1] + Len(p[n + 1].text)
    BY <1>3, <2>1
  <2> QED
    BY <2>1, <2>2
<1> QED
  BY <1>4, <1>5 DEF U

Takes(d) == IF d.type = "none" THEN 0 ELSE 1

LEMMA TakenIs ==
  ASSUME NEW p
  PROVE  /\ Taken(p)[0] = 0
         /\ \A n \in Nat : Taken(p)[n + 1] = Taken(p)[n] + Takes(p[n + 1])
<1> DEFINE U == Taken(p)
<1>1. NatInductiveDefHypothesis(U, 0, LAMBDA v, n : v + Takes(p[n]))
  BY Zenon DEF NatInductiveDefHypothesis, Taken, Takes
<1>2. NatInductiveDefConclusion(U, 0, LAMBDA v, n : v + Takes(p[n]))
  BY <1>1, NatInductiveDef, Zenon
<1>3. \A n \in Nat : U[n] = IF n = 0 THEN 0 ELSE U[n - 1] + Takes(p[n])
  BY <1>2, Zenon DEF NatInductiveDefConclusion
<1> HIDE DEF U
<1>4. U[0] = 0
  BY <1>3
<1>5. ASSUME NEW n \in Nat PROVE U[n + 1] = U[n] + Takes(p[n + 1])
  <2>1. n + 1 \in Nat /\ n + 1 # 0 /\ (n + 1) - 1 = n
    OBVIOUS
  <2>2. U[n + 1] = U[(n + 1) - 1] + Takes(p[n + 1])
    BY <1>3, <2>1
  <2> QED
    BY <2>1, <2>2
<1> QED
  BY <1>4, <1>5 DEF U

LEMMA MeantIs ==
  ASSUME NEW p
  PROVE  /\ Meant(p)[0] = <<>>
         /\ \A n \in Nat : Meant(p)[n + 1] = Meant(p)[n] \o Meaning(p[n + 1])
<1> DEFINE U == Meant(p)
<1>1. NatInductiveDefHypothesis(U, <<>>, LAMBDA v, n : v \o Meaning(p[n]))
  BY Zenon DEF NatInductiveDefHypothesis, Meant
<1>2. NatInductiveDefConclusion(U, <<>>, LAMBDA v, n : v \o Meaning(p[n]))
  BY <1>1, NatInductiveDef, Zenon
<1>3. \A n \in Nat : U[n] = IF n = 0 THEN <<>> ELSE U[n - 1] \o Meaning(p[n])
  BY <1>2, Zenon DEF NatInductiveDefConclusion
<1> HIDE DEF U
<1>4. U[0] = <<>>
  BY <1>3
<1>5. ASSUME NEW n \in Nat PROVE U[n + 1] = U[n] \o Meaning(p[n + 1])
  <2>1. n + 1 \in Nat /\ n + 1 # 0 /\ (n + 1) - 1 = n
    OBVIOUS
  <2>2. U[n + 1] = U[(n + 1) - 1] \o Meaning(p[n + 1])
    BY <1>3, <2>1
  <2> QED
    BY <2>1, <2>2
<1> QED
  BY <1>4, <1>5 DEF U

(* A part of a call that is spelled out.                                   *)
LEMMA PartIs ==
  ASSUME NEW c, Spelled(c), NEW n \in 1 .. Len(c.parts), NEW d, d = c.parts[n]
  PROVE  /\ Len(c.parts) \in Nat
         /\ d.text \in Seq(STRING) /\ d.text # <<>> /\ d.arg \in Seq(STRING)
         /\ Len(d.text) \in Nat /\ Len(d.text) > 0
         /\ d.type \in {"none", "string", "char", "int", "float"}
         /\ d.wide \in Nat /\ d.cut \in Int
         /\ \A j \in 1 .. Len(d.text) : c.format[Start(c.parts)[n - 1] + j] = d.text[j]
         /\ d.type # "none" =>
              c.args[Taken(c.parts)[n]] = [type |-> d.type, text |-> d.arg]
         /\ d.legal => WellFormed(d)
         /\ ~d.legal => Forbidden(c.format, Start(c.parts)[n - 1] + 1)
<1>1. c.parts \in Seq(CallPart)
  BY Zenon DEF Spelled
<1>2. d \in CallPart /\ Len(c.parts) \in Nat
  BY <1>1
<1>3. /\ d.text \in Seq(STRING) /\ d.arg \in Seq(STRING)
      /\ d.type \in {"none", "string", "char", "int", "float"}
      /\ d.wide \in Nat /\ d.cut \in Int
  BY <1>2 DEF CallPart
<1>4. /\ d.text # <<>>
      /\ \A j \in 1 .. Len(d.text) : c.format[Start(c.parts)[n - 1] + j] = d.text[j]
      /\ d.type # "none" =>
           c.args[Taken(c.parts)[n]] = [type |-> d.type, text |-> d.arg]
      /\ IF d.legal THEN WellFormed(d) ELSE Forbidden(c.format, Start(c.parts)[n - 1] + 1)
  BY Zenon DEF Spelled
<1>5. /\ d.legal => WellFormed(d)
      /\ ~d.legal => Forbidden(c.format, Start(c.parts)[n - 1] + 1)
  BY <1>4, Zenon
<1>6. Len(d.text) \in Nat /\ Len(d.text) > 0
  BY <1>3, <1>4
<1> QED
  BY <1>2, <1>3, <1>4, <1>5, <1>6

LEMMA PartText ==
  ASSUME NEW c, Spelled(c), NEW n \in 1 .. Len(c.parts), NEW d, d = c.parts[n],
         NEW x \in 1 .. Len(d.text)
  PROVE  c.format[Start(c.parts)[n - 1] + x] = d.text[x]
  BY Zenon DEF Spelled

(* Where the first parts end: further on with every part, and the last one *)
(* at the end of the format.                                               *)
LEMMA StartNat ==
  ASSUME NEW c, Spelled(c)
  PROVE  \A j \in 0 .. Len(c.parts) :
           Start(c.parts)[j] \in Nat /\ Taken(c.parts)[j] \in Nat
<1> DEFINE N == Len(c.parts)
           S == Start(c.parts)
           T == Taken(c.parts)
           C == {j \in 0 .. N : ~(S[j] \in Nat /\ T[j] \in Nat)}
<1>1. N \in Nat
  <2>1. c.parts \in Seq(CallPart)
    BY Zenon DEF Spelled
  <2> QED
    BY <2>1
<1>2. S[0] = 0 /\ \A m \in Nat : S[m + 1] = S[m] + Len(c.parts[m + 1].text)
  BY StartIs
<1>3. T[0] = 0 /\ \A m \in Nat : T[m + 1] = T[m] + Takes(c.parts[m + 1])
  BY TakenIs
<1> SUFFICES ASSUME C # {} PROVE FALSE
  OBVIOUS
<1>4. PICK j \in C : \A y \in C : j <= y
  <2>1. C \subseteq Nat
    BY <1>1
  <2> HIDE DEF C
  <2> QED
    BY <2>1, Least
<1>5. j # 0
  BY <1>2, <1>3, <1>4
<1>6. PICK m \in Nat : m \in 0 .. N /\ j = m + 1 /\ m \notin C
  <2>1. j - 1 \in 0 .. N /\ ~(j <= j - 1) /\ j = (j - 1) + 1 /\ j - 1 \in Nat
    BY <1>1, <1>4, <1>5
  <2> HIDE DEF C
  <2> QED
    BY <1>4, <2>1
<1>7. S[m] \in Nat /\ T[m] \in Nat
  BY <1>6
<1>8. PICK d : d = c.parts[m + 1]
  OBVIOUS
<1>9. Len(d.text) \in Nat
  <2>1. m + 1 \in 1 .. N
    BY <1>1, <1>4, <1>6
  <2>2. d.text \in Seq(STRING)
    BY <1>8, <2>1, PartIs
  <2> QED
    BY <2>2
<1>10. Takes(d) \in Nat
  BY DEF Takes
<1>11. S[j] = S[m] + Len(d.text) /\ T[j] = T[m] + Takes(d)
  BY <1>2, <1>3, <1>6, <1>8
<1>12. S[j] \in Nat /\ T[j] \in Nat
  <2> HIDE DEF S, T
  <2> QED
    BY <1>7, <1>9, <1>10, <1>11
<1> QED
  BY <1>4, <1>12

LEMMA StartUp ==
  ASSUME NEW c, Spelled(c), NEW N, N = Len(c.parts)
  PROVE  /\ N \in Nat
         /\ \A j \in 0 .. N : /\ Start(c.parts)[j] <= Start(c.parts)[N]
                              /\ j < N => Start(c.parts)[j] < Start(c.parts)[N]
                              /\ Taken(c.parts)[j] <= Taken(c.parts)[N]
<1> DEFINE S == Start(c.parts)
           T == Taken(c.parts)
           G(j) == S[j] <= S[N] /\ (j < N => S[j] < S[N]) /\ T[j] <= T[N]
           C == {m \in 0 .. N : ~G(N - m)}
<1>1. N \in Nat
  <2>1. c.parts \in Seq(CallPart)
    BY Zenon DEF Spelled
  <2> QED
    BY <2>1
<1>2. \A m \in Nat : S[m + 1] = S[m] + Len(c.parts[m + 1].text)
  BY StartIs
<1>3. \A m \in Nat : T[m + 1] = T[m] + Takes(c.parts[m + 1])
  BY TakenIs
<1>4. \A j \in 0 .. N : S[j] \in Nat /\ T[j] \in Nat
  BY StartNat
<1> HIDE DEF S, T
<1>5. ASSUME C # {} PROVE FALSE
  <2>1. PICK m \in C : \A y \in C : m <= y
    <3>1. C \subseteq Nat
      BY <1>1
    <3> HIDE DEF C
    <3> QED
      BY <1>5, <3>1, Least
  <2>2. m \in 0 .. N /\ ~G(N - m)
    BY <2>1
  <2>3. m # 0
    BY <1>1, <1>4, <2>2
  <2>4. PICK j \in 0 .. N - 1 : j = N - m
    <3> HIDE DEF G, C
    <3>1. N - m \in 0 .. N - 1
      BY <1>1, <2>2, <2>3
    <3> QED
      BY <3>1
  <2>5. G(j + 1)
    <3>1. m - 1 \in 0 .. N /\ ~(m <= m - 1) /\ N - (m - 1) = j + 1
      BY <1>1, <2>2, <2>3, <2>4
    <3>2. m - 1 \notin C
      BY <2>1, <3>1
    <3> HIDE DEF G
    <3>3. G(N - (m - 1))
      BY <3>1, <3>2
    <3> QED
      BY <3>1, <3>3
  <2>6. PICK d : d = c.parts[j + 1]
    OBVIOUS
  <2>7. Len(d.text) \in Nat /\ Len(d.text) > 0
    <3>1. j + 1 \in 1 .. Len(c.parts)
      BY <1>1
    <3> QED
      BY <2>6, <3>1, PartIs
  <2>8. Takes(d) \in Nat
    BY DEF Takes
  <2>9. j \in Nat /\ j \in 0 .. N /\ j + 1 \in 0 .. N /\ N \in 0 .. N
    BY <1>1
  <2>10. S[j + 1] = S[j] + Len(d.text) /\ T[j + 1] = T[j] + Takes(d)
    BY <1>2, <1>3, <2>6, <2>9
  <2>11. S[j] \in Nat /\ S[j + 1] \in Nat /\ S[N] \in Nat /\ T[j] \in Nat /\ T[N] \in Nat
    BY <1>4, <2>9
  <2>12. G(j)
    <3>1. S[j + 1] <= S[N] /\ T[j + 1] <= T[N]
      BY <2>5
    <3>2. S[j] < S[N]
      BY <2>7, <2>10, <2>11, <3>1
    <3>3. T[j] <= T[N]
      <4>1. \A x, y, z \in Nat : x + y <= z => x <= z
        OBVIOUS
      <4>2. T[j] + Takes(d) <= T[N]
        BY <2>10, <3>1, Zenon
      <4> QED
        BY <2>8, <2>11, <4>1, <4>2, Zenon
    <3>4. S[j] <= S[N]
      BY <2>11, <3>2
    <3> QED
      BY <3>2, <3>3, <3>4
  <2> QED
    BY <2>2, <2>4, <2>12
<1>6. ASSUME NEW j \in 0 .. N PROVE G(j)
  <2>1. N - j \in 0 .. N /\ N - (N - j) = j
    BY <1>1
  <2>2. N - j \notin C
    BY <1>5
  <2> HIDE DEF G
  <2>3. G(N - (N - j))
    BY <2>1, <2>2
  <2> QED
    BY <2>1, <2>3
<1> QED
  BY <1>1, <1>6 DEF S, T

(* The scanner stands in front of part d of the call.                      *)
Ahead(d) ==
  /\ Format \in Seq(STRING) /\ f \in Nat \ {0}
  /\ d.text \in Seq(STRING) /\ d.text # <<>> /\ f + Len(d.text) <= Len(Format) + 1
  /\ \A x \in 1 .. Len(d.text) : Format[f + x - 1] = d.text[x]

LEMMA AheadAt ==
  ASSUME NEW d, Ahead(d)
  PROVE  /\ Len(d.text) \in Nat /\ Len(d.text) > 0 /\ Len(Format) \in Nat
         /\ At(f) = d.text[1]
         /\ Len(d.text) > 1 => At(f + 1) = d.text[2]
         /\ Len(d.text) > 2 => At(f + 2) = d.text[3]
         /\ Len(d.text) > 3 => At(f + 3) = d.text[4]
<1>1. Len(d.text) \in Nat /\ Len(d.text) > 0 /\ Len(Format) \in Nat /\ f \in Nat
      /\ f + Len(d.text) <= Len(Format) + 1
  BY DEF Ahead
<1>2. \A x \in 1 .. Len(d.text) : At(f + x - 1) = d.text[x]
  BY <1>1 DEF Ahead, At
<1>3. f + 1 - 1 = f /\ f + 2 - 1 = f + 1 /\ f + 3 - 1 = f + 2 /\ f + 4 - 1 = f + 3
  BY <1>1
<1>4. At(f) = d.text[1]
  BY <1>1, <1>2, <1>3
<1>5. Len(d.text) > 1 => At(f + 1) = d.text[2]
  BY <1>1, <1>2, <1>3
<1>6. Len(d.text) > 2 => At(f + 2) = d.text[3]
  BY <1>1, <1>2, <1>3
<1>7. Len(d.text) > 3 => At(f + 3) = d.text[4]
  BY <1>1, <1>2, <1>3
<1> QED
  BY <1>1, <1>4, <1>5, <1>6, <1>7

(* The scanner sees a part for what it is.                                 *)
LEMMA SeesText ==
  ASSUME NEW d, Ahead(d), PlainText(d)
  PROVE  Class = "literal" /\ At(f) = d.text[1] /\ Len(d.text) = 1
<1>1. At(f) = d.text[1] /\ d.text[1] # "%" /\ Len(d.text) = 1
  BY AheadAt DEF PlainText
<1> QED
  BY <1>1, Zenon DEF Class

LEMMA SeesPercent ==
  ASSUME NEW d, Ahead(d), DoublePercent(d)
  PROVE  Class = "percent" /\ At(f) = "%" /\ Len(d.text) = 2
<1>1. d.text = <<"%", "%">>
  BY DEF DoublePercent
<1>2. Len(d.text) = 2 /\ d.text[1] = "%" /\ d.text[2] = "%"
  BY <1>1
<1>3. At(f) = "%" /\ At(f + 1) = "%"
  BY <1>2, AheadAt
<1> QED
  BY <1>2, <1>3 DEF Class

LEMMA SeesString ==
  ASSUME NEW d, Ahead(d), WholeString(d)
  PROVE  Class = "string" /\ Len(d.text) = 2
<1>1. d.text = <<"%", "s">>
  BY DEF WholeString
<1>2. Len(d.text) = 2 /\ d.text[1] = "%" /\ d.text[2] = "s"
  BY <1>1
<1>3. At(f) = "%" /\ At(f + 1) = "s"
  BY <1>2, AheadAt
<1> QED
  BY <1>2, <1>3 DEF Class, CutString

LEMMA SeesChar ==
  ASSUME NEW d, Ahead(d), OneCharacter(d)
  PROVE  Class = "char" /\ Len(d.text) = 2
<1>1. d.text = <<"%", "c">>
  BY DEF OneCharacter
<1>2. Len(d.text) = 2 /\ d.text[1] = "%" /\ d.text[2] = "c"
  BY <1>1
<1>3. At(f) = "%" /\ At(f + 1) = "c"
  BY <1>2, AheadAt
<1> QED
  BY <1>2, <1>3 DEF Class, CutString

LEMMA SeesCut ==
  ASSUME NEW d, Ahead(d), ShortString(d)
  PROVE  /\ Class = "cut" /\ Precision = d.cut /\ d.cut \in Nat
         /\ f + Len(d.text) = IF At(f + 2) = "s" THEN f + 3 ELSE f + 4
<1>1. CASE d.text = <<"%", ".", "s">> /\ d.cut = 0
  <2>1. Len(d.text) = 3 /\ d.text[1] = "%" /\ d.text[2] = "." /\ d.text[3] = "s"
    BY <1>1
  <2>2. At(f) = "%" /\ At(f + 1) = "." /\ At(f + 2) = "s"
    BY <2>1, AheadAt
  <2>3. Class = "cut"
    BY <2>2 DEF Class, CutString
  <2>4. Precision = d.cut /\ d.cut \in Nat
    BY <1>1, <2>2 DEF Precision
  <2> QED
    BY <2>1, <2>2, <2>3, <2>4
<1>2. CASE \E digit \in Digits : d.text = <<"%", ".", digit, "s">> /\ d.cut = Value[digit]
  <2>1. PICK digit \in Digits : d.text = <<"%", ".", digit, "s">> /\ d.cut = Value[digit]
    BY <1>2
  <2>2. Len(d.text) = 4 /\ d.text[1] = "%" /\ d.text[2] = "." /\ d.text[3] = digit
        /\ d.text[4] = "s"
    BY <2>1
  <2>3. At(f) = "%" /\ At(f + 1) = "." /\ At(f + 2) = digit /\ At(f + 3) = "s"
    BY <2>2, AheadAt
  <2>4. digit # "s"
    BY DEF Digits, Value
  <2>5. Class = "cut"
    BY <2>3 DEF Class, CutString
  <2>6. Precision = d.cut
    BY <2>1, <2>3, <2>4 DEF Precision
  <2>7. d.cut \in Nat
    BY <2>1, ValueNat
  <2> QED
    BY <2>2, <2>3, <2>4, <2>5, <2>6, <2>7
<1> QED
  BY <1>1, <1>2 DEF ShortString

(* A specifier ends at the first conversion character or "%".              *)
Stops == Conversions \union {"%"}

LEMMA SpecEndUnique ==
  ASSUME Format \in Seq(STRING), f \in Nat, NEW e \in f + 1 .. Len(Format) + 1,
         e = Len(Format) + 1 \/ Format[e] \in Stops,
         \A m \in f + 1 .. e - 1 : Format[m] \notin Stops
  PROVE  SpecEnd = e
<1> DEFINE Q(j) == /\ j = Len(Format) + 1 \/ Format[j] \in Stops
                   /\ \A m \in f + 1 .. j - 1 : Format[m] \notin Stops
<1>1. SpecEnd = CHOOSE j \in f + 1 .. Len(Format) + 1 : Q(j)
  BY Zenon DEF SpecEnd, Stops
<1>2. e \in f + 1 .. Len(Format) + 1 /\ Q(e)
  OBVIOUS
<1>3. SpecEnd \in f + 1 .. Len(Format) + 1 /\ Q(SpecEnd)
  <2> HIDE DEF Q
  <2> QED
    BY <1>1, <1>2, Zenon
<1>4. PICK s : s = SpecEnd
  OBVIOUS
<1>5. Len(Format) \in Nat /\ s \in f + 1 .. Len(Format) + 1 /\ Q(s)
  BY <1>3, <1>4
<1>6. ~(s < e)
  <2> SUFFICES ASSUME s < e PROVE FALSE
    OBVIOUS
  <2>1. s \in f + 1 .. e - 1 /\ s # Len(Format) + 1
    BY <1>5
  <2> QED
    BY <1>5, <2>1
<1>7. ~(e < s)
  <2> SUFFICES ASSUME e < s PROVE FALSE
    OBVIOUS
  <2>1. e \in f + 1 .. s - 1 /\ e # Len(Format) + 1
    BY <1>5
  <2> QED
    BY <1>2, <1>5, <2>1
<1> QED
  BY <1>4, <1>5, <1>6, <1>7

LEMMA ModifiersAre ==
  \A m \in Modifiers \ {"*"} :
    m \notin Stops /\ m \notin {"%", "s", "c", "end", "*", "d", "f", "n"}
  BY DEF Modifiers, Stops, Conversions, Digits, Value

(* Where a number's specifier ends, and what is in it.                     *)
LEMMA NumberSpec ==
  ASSUME NEW d, Ahead(d), PrintedNumber(d), d.text \in Seq(STRING)
  PROVE  /\ SpecEnd = f + Len(d.text) - 1 /\ At(SpecEnd) = d.text[Len(d.text)]
         /\ Inner = {d.text[j] : j \in 2 .. Len(d.text) - 1}
         /\ SpecText = d.text
<1>1. /\ Format \in Seq(STRING) /\ f \in Nat /\ f > 0 /\ Len(d.text) \in Nat /\ Len(d.text) > 1
      /\ f + Len(d.text) <= Len(Format) + 1 /\ Len(Format) \in Nat
  BY AheadAt DEF Ahead, PrintedNumber
<1>2. PICK l \in Nat : l = Len(d.text)
  BY <1>1
<1>3. PICK e \in Nat : e = f + l - 1
  <2>1. f + l - 1 \in Nat
    BY <1>1, <1>2
  <2> QED
    BY <2>1
<1>4. e \in f + 1 .. Len(Format) /\ e \in f + 1 .. Len(Format) + 1
  BY <1>1, <1>2, <1>3
<1>5. \A x \in 1 .. l : Format[f + x - 1] = d.text[x]
  BY <1>2 DEF Ahead
<1>6. Format[e] = d.text[l]
  BY <1>1, <1>2, <1>3, <1>5
<1>7. d.text[l] \in {"d", "f"}
  BY <1>2 DEF PrintedNumber
<1>8. d.text[l] \in Stops
  BY <1>7 DEF Stops, Conversions
<1>9. ASSUME NEW m \in f + 1 .. e - 1
      PROVE  Format[m] = d.text[m - f + 1] /\ m - f + 1 \in 2 .. l - 1
  <2>1. m - f + 1 \in 2 .. l - 1 /\ m - f + 1 \in 1 .. l /\ f + (m - f + 1) - 1 = m
    BY <1>1, <1>2, <1>3
  <2> QED
    BY <1>5, <2>1
<1>10. \A m \in f + 1 .. e - 1 : Format[m] \notin Stops
  <2> TAKE m \in f + 1 .. e - 1
  <2>1. d.text[m - f + 1] \in Modifiers \ {"*"}
    BY <1>2, <1>9 DEF PrintedNumber
  <2> QED
    BY <1>9, <2>1, ModifiersAre
<1>11. SpecEnd = e
  BY <1>1, <1>4, <1>6, <1>8, <1>10, SpecEndUnique
<1>12. At(SpecEnd) = d.text[l]
  BY <1>1, <1>4, <1>6, <1>11 DEF At
<1>13. Inner = {d.text[j] : j \in 2 .. l - 1}
  <2>1. Inner = {Format[j] : j \in f + 1 .. e - 1}
    BY <1>11 DEF Inner
  <2>2. ASSUME NEW x \in {Format[j] : j \in f + 1 .. e - 1}
        PROVE  x \in {d.text[j] : j \in 2 .. l - 1}
    BY <1>9
  <2>3. ASSUME NEW j \in 2 .. l - 1
        PROVE  d.text[j] \in {Format[m] : m \in f + 1 .. e - 1}
    <3>1. f + j - 1 \in f + 1 .. e - 1 /\ j \in 1 .. l
      BY <1>1, <1>2, <1>3
    <3>2. Format[f + j - 1] = d.text[j]
      BY <1>5, <3>1
    <3> QED
      BY <3>1, <3>2
  <2> QED
    BY <2>1, <2>2, <2>3
<1>14. SpecText = d.text
  <2>1. SpecText = SubSeq(Format, f, e)
    BY <1>11 DEF SpecText
  <2>2. PICK i \in Nat : f = i + 1
    <3>1. f - 1 \in Nat /\ f = (f - 1) + 1
      BY <1>1
    <3> QED
      BY <3>1
  <2>3. e \in i .. Len(Format) /\ e - i = Len(d.text)
    <3>1. e = (i + 1) + l - 1 /\ e \in f + 1 .. Len(Format)
      BY <1>3, <1>4, <2>2
    <3>2. e - i = l
      BY <3>1
    <3>3. PICK z \in Nat : z = Len(Format)
      BY <1>1
    <3>4. e \in (i + 1) + 1 .. z
      BY <2>2, <3>1, <3>3
    <3>5. e \in i .. z
      BY <3>4
    <3> QED
      BY <1>2, <3>2, <3>3, <3>5
  <2>4. \A x \in 1 .. Len(d.text) : Format[i + x] = d.text[x]
    <3> TAKE x \in 1 .. Len(d.text)
    <3>1. f + x - 1 = i + x
      BY <1>1, <2>2
    <3> QED
      BY <1>2, <1>5, <3>1
  <2> QED
    BY <1>1, <2>1, <2>2, <2>3, <2>4, SamePart
<1> QED
  BY <1>2, <1>3, <1>11, <1>12, <1>13, <1>14

LEMMA SeesNumber ==
  ASSUME NEW d, Ahead(d), PrintedNumber(d), Passable(d), d.text \in Seq(STRING)
  PROVE  /\ Class = "number" /\ Proper /\ NumberType = d.type /\ d.type \in {"int", "float"}
         /\ NormalFits /\ SpecEnd + 1 = f + Len(d.text)
<1>1. /\ SpecEnd = f + Len(d.text) - 1 /\ At(SpecEnd) = d.text[Len(d.text)]
      /\ Inner = {d.text[j] : j \in 2 .. Len(d.text) - 1} /\ SpecText = d.text
  BY NumberSpec
<1>2. /\ Len(d.text) \in Nat /\ Len(d.text) > 1 /\ f \in Nat
      /\ At(f) = "%" /\ At(f + 1) = d.text[2]
      /\ (Len(d.text) > 2 => At(f + 2) = d.text[3])
      /\ (Len(d.text) > 3 => At(f + 3) = d.text[4])
  BY AheadAt DEF Ahead, PrintedNumber
<1>3. \A j \in 2 .. Len(d.text) - 1 : d.text[j] \in Modifiers \ {"*"}
  BY Zenon DEF PrintedNumber
<1>4. \/ At(SpecEnd) = "d" /\ d.type = "int"
      \/ At(SpecEnd) = "f" /\ d.type = "float"
  BY <1>1, Zenon DEF PrintedNumber
<1>5. Numeric /\ NumberType = d.type
  BY <1>4 DEF Numeric, NumberType
<1>6. Proper
  BY <1>1, <1>3, <1>5 DEF Proper
<1>7. \A j \in 2 .. Len(d.text) :
        d.text[j] \in Modifiers \ {"*"} \/ (j = Len(d.text) /\ d.text[j] \in {"d", "f"})
  <2> TAKE j \in 2 .. Len(d.text)
  <2>1. j \in 2 .. Len(d.text) - 1 \/ j = Len(d.text)
    BY <1>2
  <2> QED
    BY <1>1, <1>3, <1>4, <2>1
<1>8. \A j \in 2 .. Len(d.text) : d.text[j] \notin {"%", "s", "c", "end", "*"}
  BY <1>7, ModifiersAre
<1>9. At(f + 1) \notin {"%", "s", "c", "end", "*"}
  BY <1>2, <1>8
<1>10. ~CutString
  <2> SUFFICES ASSUME CutString PROVE FALSE
    OBVIOUS
  <2>1. d.text[2] = "."
    BY <1>2 DEF CutString
  <2>0. d.text[Len(d.text)] \in {"d", "f"}
    BY <1>1, <1>4
  <2>2. Len(d.text) > 2
    <3>1. Len(d.text) # 2
      BY <2>0, <2>1
    <3>2. \A x \in Nat : x > 1 /\ x # 2 => x > 2
      OBVIOUS
    <3> QED
      BY <1>2, <3>1, <3>2
  <2>3. At(f + 2) = d.text[3] /\ d.text[3] # "s"
    BY <1>2, <1>8, <2>2
  <2>4. At(f + 2) \in Digits /\ At(f + 3) = "s"
    BY <2>3 DEF CutString
  <2>5. d.text[3] \notin {"d", "f"}
    BY <2>3, <2>4 DEF Digits, Value
  <2>6. Len(d.text) > 3
    <3>1. Len(d.text) # 3
      BY <2>0, <2>5
    <3>2. \A x \in Nat : x > 2 /\ x # 3 => x > 3
      OBVIOUS
    <3> QED
      BY <1>2, <2>2, <3>1, <3>2
  <2>7. At(f + 3) = d.text[4] /\ d.text[4] # "s"
    BY <1>2, <1>8, <2>6
  <2> QED
    BY <2>4, <2>7
<1>11. ~TooWide
  <2>1. At(f + 1) \in Digits => Value[At(f + 1)] <= MaxWidth /\ Value[At(f + 1)] \in Nat
    BY <1>2, ValueNat DEF PrintedNumber
  <2> QED
    BY <2>1, SizesAssumption DEF TooWide
<1>12. ~Overlong
  BY <1>1, <1>2, SizesAssumption DEF Overlong, Passable
<1>13. ~Refused
  BY <1>4, <1>5, <1>9, <1>11 DEF Refused
<1>14. Class = "number"
  BY <1>2, <1>9, <1>10, <1>12, <1>13 DEF Class
<1>15. SpecEnd + 1 = f + Len(d.text)
  BY <1>1, <1>2, SMTT(30)
<1>16. NormalFits
  BY <1>1, <1>5, Zenon DEF NormalFits, Passable
<1> QED
  BY <1>4, <1>5, <1>6, <1>14, <1>15, <1>16

(* The scanner refuses what is forbidden.                                  *)
LEMMA SeesForbidden ==
  ASSUME Format \in Seq(STRING), f \in 1 .. Len(Format), Forbidden(Format, f)
  PROVE  Class = "refused"
<1>1. Len(Format) \in Nat /\ f \in Nat
  OBVIOUS
<1>2. /\ Format[f] = "%"
      /\ f < Len(Format) => Format[f + 1] \notin {"%", "s", "c"}
  BY Zenon DEF Forbidden
<1>3. ~\E y \in f + 2 .. Len(Format) :
         /\ Format[f + 1] = "." /\ Format[y] = "s"
         /\ y = f + 2 \/ (y = f + 3 /\ Format[f + 2] \in Digits)
  BY Zenon DEF Forbidden
<1>4. PICK e \in f + 1 .. Len(Format) + 1 :
        /\ \A m \in f + 1 .. e - 1 : Format[m] \notin Stops
        /\ \/ e = Len(Format) + 1
           \/ /\ Format[e] \in Stops
              /\ \/ Format[f + 1] = "*"
                 \/ e - f + 1 < SpecSize /\
                      \/ Format[e] = "n"
                      \/ Format[e] \in {"c", "%"}
                           /\ \E m \in f + 1 .. e - 1 : Format[m] \in Modifiers
                      \/ Format[f + 1] \in Digits /\ Value[Format[f + 1]] > MaxWidth
  BY Zenon DEF Forbidden, Stops
<1>5. SpecEnd = e
  BY <1>1, <1>4, SpecEndUnique
<1>6. At(f) = "%" /\ At(f + 1) \notin {"%", "s", "c"}
  BY <1>1, <1>2 DEF At
<1>7. ~CutString
  <2> SUFFICES ASSUME CutString PROVE FALSE
    OBVIOUS
  <2>1. At(f + 1) = "." /\ (At(f + 2) = "s" \/ (At(f + 2) \in Digits /\ At(f + 3) = "s"))
    BY DEF CutString
  <2>2. "end" \notin Digits
    BY DEF Digits, Value
  <2>3. CASE At(f + 2) = "s"
    <3>1. f + 2 <= Len(Format) /\ Format[f + 2] = "s"
      BY <1>1, <2>3 DEF At
    <3>2. Format[f + 1] = "."
      BY <1>1, <2>1, <3>1 DEF At
    <3>3. f + 2 \in f + 2 .. Len(Format)
      BY <1>1, <3>1
    <3> QED
      BY <1>3, <3>1, <3>2, <3>3
  <2>4. CASE At(f + 2) \in Digits /\ At(f + 3) = "s"
    <3>1. f + 3 <= Len(Format) /\ Format[f + 3] = "s"
      BY <1>1, <2>4 DEF At
    <3>2. Format[f + 1] = "." /\ Format[f + 2] \in Digits
      BY <1>1, <2>1, <2>4, <3>1 DEF At
    <3>3. f + 3 \in f + 2 .. Len(Format)
      BY <1>1, <3>1
    <3> QED
      BY <1>3, <3>1, <3>2, <3>3
  <2> QED
    BY <2>1, <2>3, <2>4
<1>8. Refused
  <2>1. CASE e = Len(Format) + 1
    <3>1. At(SpecEnd) = "end"
      BY <1>1, <1>5, <2>1 DEF At
    <3> QED
      BY <3>1 DEF Refused
  <2>2. CASE e # Len(Format) + 1
    <3>1. e \in f + 1 .. Len(Format) /\ f + 1 <= Len(Format)
      BY <1>1, <2>2
    <3>2. At(SpecEnd) = Format[e] /\ At(f + 1) = Format[f + 1]
      BY <1>1, <1>5, <3>1 DEF At
    <3>3. CASE Format[f + 1] = "*"
      BY <3>2, <3>3 DEF Refused
    <3>4. CASE Format[f + 1] # "*"
      <4>1. /\ e - f + 1 < SpecSize
            /\ \/ Format[e] = "n"
               \/ Format[e] \in {"c", "%"}
                    /\ \E m \in f + 1 .. e - 1 : Format[m] \in Modifiers
               \/ Format[f + 1] \in Digits /\ Value[Format[f + 1]] > MaxWidth
        BY <1>4, <2>2, <3>4
      <4>2. ~Overlong
        <5>1. SpecText = SubSeq(Format, f, e)
          BY <1>5 DEF SpecText
        <5>2. Len(SubSeq(Format, f, e)) = e - f + 1
          BY <1>1, <3>1
        <5>3. e - f + 1 \in Int /\ SpecSize \in Int
          BY <1>1, <3>1, SizesAssumption
        <5> QED
          BY <4>1, <5>1, <5>2, <5>3 DEF Overlong
      <4>3. Inner = {Format[j] : j \in f + 1 .. e - 1}
        BY <1>5 DEF Inner
      <4>4. CASE Format[e] = "n"
        BY <3>2, <4>2, <4>4 DEF Refused
      <4>5. CASE Format[e] \in {"c", "%"}
                   /\ \E m \in f + 1 .. e - 1 : Format[m] \in Modifiers
        <5>1. ~Numeric
          BY <3>2, <4>5 DEF Numeric
        <5>2. Inner \intersect Modifiers # {}
          BY <4>3, <4>5
        <5> QED
          BY <4>2, <5>1, <5>2 DEF Refused
      <4>6. CASE Format[f + 1] \in Digits /\ Value[Format[f + 1]] > MaxWidth
        <5>1. TooWide
          BY <3>2, <4>6 DEF TooWide
        <5> QED
          BY <4>2, <5>1 DEF Refused
      <4> QED
        BY <4>1, <4>4, <4>5, <4>6
    <3> QED
      BY <3>3, <3>4
  <2> QED
    BY <2>1, <2>2
<1> QED
  BY <1>6, <1>7, <1>8 DEF Class

----------------------------------------------------------------------------
(* What a part stands for is what the code makes of it.                    *)

LEMMA MeaningText ==
  ASSUME NEW d, d.text \in Seq(STRING), PlainText(d)
  PROVE  Meaning(d) = <<d.text[1]>>
<1>1. /\ d.type = "none" /\ Len(d.text) = 1 /\ d.arg = d.text /\ d.wide = 0
  BY DEF PlainText
<1>2. d.arg # <<"n", "a", "n">>
  <2>1. Len(d.arg) = 1 /\ Len(<<"n", "a", "n">>) = 3
    BY <1>1
  <2> QED
    BY <2>1
<1>3. Meaning(d) = [j \in 1 .. d.wide - Len(d.arg) |-> "0"] \o d.arg
  BY <1>1, <1>2 DEF Meaning
<1>4. [j \in 1 .. d.wide - Len(d.arg) |-> "0"] = <<>>
  BY <1>1
<1>5. IsList(d.text) /\ IsList(<<d.text[1]>>)
  BY ListIs DEF IsList
<1>6. d.text = <<d.text[1]>>
  BY <1>1
<1> QED
  BY <1>1, <1>3, <1>4, <1>5, <1>6, ConcatEmpty

LEMMA MeaningPercent ==
  ASSUME NEW d, DoublePercent(d)
  PROVE  Meaning(d) = <<"%">>
<1>1. d.type = "none" /\ d.arg = <<"%">> /\ d.wide = 0
  BY DEF DoublePercent
<1>2. d.arg # <<"n", "a", "n">>
  <2>1. Len(<<"%">>) = 1 /\ Len(<<"n", "a", "n">>) = 3
    OBVIOUS
  <2> QED
    BY <1>1, <2>1
<1>3. Meaning(d) = [j \in 1 .. d.wide - Len(d.arg) |-> "0"] \o d.arg
  BY <1>1, <1>2 DEF Meaning
<1>4. [j \in 1 .. d.wide - Len(d.arg) |-> "0"] = <<>>
  BY <1>1
<1>5. IsList(<<"%">>)
  BY DEF IsList
<1> QED
  BY <1>1, <1>3, <1>4, <1>5, ConcatEmpty

LEMMA MeaningString ==
  ASSUME NEW d, d.arg \in Seq(STRING), WholeString(d)
  PROVE  Meaning(d) = EscapeAll[d.arg]
<1>1. d.type = "string" /\ d.cut < 0
  BY DEF WholeString
<1>2. Meaning(d) = EscapeAll[SubSeq(d.arg, 1, Len(d.arg))]
  BY <1>1 DEF Meaning
<1>3. SubSeq(d.arg, 1, Len(d.arg)) = d.arg
  OBVIOUS
<1> QED
  BY <1>2, <1>3

LEMMA MeaningCut ==
  ASSUME NEW d, d.cut \in Nat, ShortString(d)
  PROVE  Meaning(d) = EscapeAll[SubSeq(d.arg, 1, Cut(d.arg, d.cut))]
<1>1. d.type = "string" /\ ~(d.cut < 0)
  BY DEF ShortString
<1> QED
  BY <1>1 DEF Meaning

LEMMA MeaningChar ==
  ASSUME NEW d, d.arg \in Seq(STRING), OneCharacter(d)
  PROVE  Meaning(d) = Escape(d.arg[1])
<1>1. d.type = "char" /\ d.cut < 0 /\ Len(d.arg) = 1
  BY DEF OneCharacter
<1>2. Meaning(d) = EscapeAll[SubSeq(d.arg, 1, Len(d.arg))]
  BY <1>1 DEF Meaning
<1>3. EscapeAll[From(d.arg, 1)] = Escape(d.arg[1]) \o EscapeAll[From(d.arg, 1 + 1)]
      /\ IsList(Escape(d.arg[1]))
  <2>1. 1 \in 1 .. Len(d.arg)
    BY <1>1
  <2> QED
    BY <2>1, EscapeFrom
<1>4. EscapeAll[From(d.arg, 1 + 1)] = <<>>
  <2>1. 1 + 1 = Len(d.arg) + 1
    BY <1>1
  <2>2. EscapeAll[From(d.arg, Len(d.arg) + 1)] = <<>>
    BY EscapeNothing
  <2> QED
    BY <2>1, <2>2
<1>5. Escape(d.arg[1]) \o <<>> = Escape(d.arg[1])
  BY <1>3, ConcatEmpty
<1> QED
  BY <1>2, <1>3, <1>4, <1>5 DEF From

(* The padding makes a number as wide as its specifier wants it.           *)
LEMMA MeaningNumber ==
  ASSUME NEW d, Ahead(d), PrintedNumber(d), Passable(d), d.text \in Seq(STRING),
         Arg = d.arg, d.arg \in Seq(STRING)
  PROVE  Rendered = Meaning(d)
<1>1. /\ NumberType = d.type /\ d.type \in {"int", "float"}
      /\ Inner = {d.text[j] : j \in 2 .. Len(d.text) - 1}
  BY NumberSpec, SeesNumber
<1>2. d.type = "int" => d.arg # <<"n", "a", "n">>
  BY DEF PrintedNumber
<1>3. CASE d.arg = <<"n", "a", "n">>
  <2>1. NotFinite
    BY <1>1, <1>2, <1>3 DEF NotFinite
  <2>2. Meaning(d) = <<"n", "u", "l", "l">>
    BY <1>1, <1>3 DEF Meaning
  <2> QED
    BY <2>1, <2>2 DEF Rendered
<1>4. CASE d.arg # <<"n", "a", "n">>
  <2>1. Rendered = Padded
    BY <1>4 DEF Rendered, NotFinite
  <2>2. Meaning(d) = [j \in 1 .. d.wide - Len(d.arg) |-> "0"] \o d.arg
    BY <1>1, <1>4 DEF Meaning
  <2>3. PICK l \in Nat : l = Len(d.arg)
    OBVIOUS
  <2>4. Inner \intersect Digits = DigitsOf(d)
    BY <1>1 DEF DigitsOf
  <2>5. Wanted = {Value[digit] : digit \in DigitsOf(d)} \union {l}
    BY <2>3, <2>4 DEF Wanted
  <2>6. /\ d.wide \in {Value[digit] : digit \in DigitsOf(d)} \union {0}
        /\ \A digit \in DigitsOf(d) : Value[digit] <= d.wide
    BY Zenon DEF PrintedNumber
  <2>7. \A digit \in DigitsOf(d) : Value[digit] \in Nat
    <3>1. DigitsOf(d) \subseteq Digits
      BY DEF DigitsOf
    <3>2. 0 .. 9 \subseteq Nat
      OBVIOUS
    <3> QED
      BY <3>1, <3>2, ValueNat, Zenon
  <2>8. d.wide \in Nat
    BY <2>6, <2>7
  <2>9. PICK w \in Nat : w = IF d.wide >= l THEN d.wide ELSE l
    BY <2>8
  <2>10. w >= l /\ w >= d.wide
    BY <2>8, <2>9
  <2>11. w \in Wanted /\ \A m \in Wanted : m <= w
    <3>1. w \in Wanted
      <4>1. CASE d.wide >= l
        <5>1. w = d.wide /\ (d.wide = 0 => w = l)
          BY <2>8, <2>9, <4>1
        <5> QED
          BY <2>5, <2>6, <5>1
      <4>2. CASE ~(d.wide >= l)
        BY <2>5, <2>9, <4>2
      <4> QED
        BY <4>1, <4>2
    <3>2. ASSUME NEW digit \in DigitsOf(d) PROVE Value[digit] <= w
      <4>1. Value[digit] \in Nat /\ Value[digit] <= d.wide
        BY <2>6, <2>7
      <4> QED
        BY <2>8, <2>10, <4>1
    <3> QED
      BY <2>5, <2>10, <3>1, <3>2
  <2>12. Need = w
    <3>1. Need \in Wanted /\ \A m \in Wanted : m <= Need
      BY <2>11, Zenon DEF Need
    <3>2. Wanted \subseteq Nat
      BY <2>5, <2>7
    <3>3. Need \in Nat /\ Need <= w /\ w <= Need
      BY <2>11, <3>1, <3>2
    <3> QED
      BY <3>3
  <2>13. Padded = [j \in 1 .. w |-> IF j <= w - l THEN "0" ELSE d.arg[j - w + l]]
    BY <2>3, <2>12 DEF Padded
  <2>14. PICK z : z = [j \in 1 .. d.wide - l |-> "0"]
    OBVIOUS
  <2>15. 1 .. d.wide - l = 1 .. w - l /\ w - l \in Nat
    BY <2>8, <2>9
  <2>16. IsList(z) /\ Len(z) = w - l /\ \A x \in 1 .. w - l : z[x] = "0"
    <3>1. PICK y \in Nat : y = w - l
      BY <2>15
    <3>2. z = [j \in 1 .. y |-> "0"]
      BY <2>14, <2>15, <3>1
    <3>3. IsList(z) /\ Len(z) = y /\ \A x \in 1 .. y : z[x] = "0"
      BY <3>2 DEF IsList
    <3> QED
      BY <3>1, <3>3
  <2>17. PICK v : v = [j \in 1 .. w |-> IF j <= w - l THEN "0" ELSE d.arg[j - w + l]]
    OBVIOUS
  <2>18. IsList(v) /\ Len(v) = w
    BY <2>17 DEF IsList
  <2>19. PICK u : u = z \o d.arg
    OBVIOUS
  <2>20. IsList(d.arg)
    BY ListIs
  <2>21. /\ IsList(u) /\ Len(u) = (w - l) + l
         /\ \A x \in 1 .. w - l : u[x] = z[x]
         /\ \A x \in 1 .. l : u[(w - l) + x] = d.arg[x]
    <3>1. PICK b : b = d.arg
      OBVIOUS
    <3>2. IsList(z) /\ IsList(b) /\ u = z \o b
      BY <2>16, <2>19, <2>20, <3>1
    <3>3. IsList(u) /\ Len(u) = Len(z) + Len(b)
      BY <3>2, Concatenated
    <3>4. \A x \in 1 .. Len(z) : u[x] = z[x]
      BY <3>2, Concatenated
    <3>5. \A x \in 1 .. Len(b) : u[Len(z) + x] = b[x]
      BY <3>2, Concatenated
    <3> QED
      BY <2>3, <2>16, <3>1, <3>3, <3>4, <3>5
  <2>22. ASSUME NEW x \in 1 .. w PROVE v[x] = u[x]
    <3>1. CASE x <= w - l
      <4>1. x \in 1 .. w - l
        BY <2>15, <3>1
      <4>2. v[x] = "0"
        BY <2>17, <3>1
      <4> QED
        BY <2>16, <2>21, <4>1, <4>2
    <3>2. CASE ~(x <= w - l)
      <4>1. PICK y \in 1 .. l : y = x - w + l /\ x = (w - l) + y
        <5>1. x - w + l \in 1 .. l /\ x = (w - l) + (x - w + l)
          BY <2>15, <3>2
        <5> QED
          BY <5>1
      <4>2. v[x] = d.arg[x - w + l]
        BY <2>17, <3>2
      <4> QED
        BY <2>21, <4>1, <4>2
    <3> QED
      BY <3>1, <3>2
  <2>23. Len(u) = w
    BY <2>21
  <2>24. v = u
    BY <2>18, <2>21, <2>22, <2>23, SameList
  <2> QED
    BY <2>1, <2>2, <2>3, <2>13, <2>14, <2>17, <2>19, <2>24
<1> QED
  BY <1>3, <1>4

----------------------------------------------------------------------------
(* The scanner's invariant.  It has read the first j parts of the call,    *)
(* all of them allowed, and their arguments; what they stand for is in the *)
(* buffer, but for the text of the last one while that is being made.      *)

Read(j) ==
  /\ j \in 0 .. Len(call.parts)
  /\ f = Start(call.parts)[j] + 1 /\ next = Taken(call.parts)[j]
  /\ \A n \in 1 .. j : call.parts[n].legal

Done(j) == Read(j) /\ out = Meant(call.parts)[j]
Making(j) == j > 0 /\ Read(j) /\ out = Meant(call.parts)[j - 1]

Fitting == call # NullFormat /\ \A d \in Parts : Passable(d)

InStep ==
  /\ pc # "undefined"
  /\ pc = "enter" => out = <<>>
  /\ pc = "loop" => \E j \in 0 .. Len(call.parts) : Done(j)
  /\ pc = "append" =>
       \E j \in 0 .. Len(call.parts) : Making(j) /\ piece = Meaning(call.parts[j])
  /\ pc = "escape" =>
       \E j \in 0 .. Len(call.parts) :
         Making(j) /\ Meaning(call.parts[j]) = piece \o EscapeAll[From(src, k)]
  /\ pc = "returned" /\ starved = "none" =>
       \/ /\ status = 200 /\ \A n \in 1 .. Len(call.parts) : call.parts[n].legal
          /\ out = Meant(call.parts)[Len(call.parts)] /\ next = Len(Args)
       \/ status = 500 /\ \E n \in 1 .. Len(call.parts) : ~call.parts[n].legal

FInv == Fitting => InStep

(* The calls the theorem is about.                                         *)
CallsSpelled == \A c \in Calls : Spelled(c)

(* In front of a part: its text is next in the format, its argument next   *)
(* among the arguments.                                                    *)
LEMMA PartAhead ==
  ASSUME CallsSpelled, Scanning, f <= Len(Format), NEW j, Read(j)
  PROVE  \E d : /\ d = call.parts[j + 1] /\ j \in 0 .. Len(call.parts) - 1 /\ Ahead(d)
                /\ j + 1 \in 1 .. Len(call.parts)
                /\ d.text \in Seq(STRING) /\ d.arg \in Seq(STRING)
                /\ Start(call.parts)[j + 1] + 1 = f + Len(d.text)
                /\ Taken(call.parts)[j + 1] = next + Takes(d)
                /\ d.type # "none" => Passed(d.type) /\ Arg = d.arg
                /\ d.legal => WellFormed(d)
                /\ ~d.legal => Class = "refused"
<1>c. PICK c : c = call
  OBVIOUS
<1> DEFINE N == Len(c.parts)
           S == Start(c.parts)
           T == Taken(c.parts)
<1>1. Spelled(c) /\ Format \in Seq(STRING) /\ Len(Format) \in Nat
  BY <1>c, CallTypes DEF CallsSpelled, Scanning
<1>2. Len(Format) = S[N] /\ Len(Args) = T[N]
  <2>1. Len(c.format) = S[N] /\ Len(c.args) = T[N]
    BY <1>1, Zenon DEF Spelled
  <2> QED
    BY <1>c, <2>1 DEF Format, Args
<1>3. /\ N \in Nat
      /\ \A x \in 0 .. N : /\ S[x] <= S[N]
                           /\ x < N => S[x] < S[N]
                           /\ T[x] <= T[N]
  <2>1. Len(c.parts) = Len(c.parts)
    OBVIOUS
  <2> QED
    BY <1>1, <2>1, StartUp, Zenon
<1>4. \A x \in 0 .. N : S[x] \in Nat /\ T[x] \in Nat
  BY <1>1, StartNat
<1>5. j \in 0 .. N /\ f = S[j] + 1 /\ next = T[j]
  BY <1>c DEF Read
<1>0. j \in Nat
  BY <1>3, <1>5
<1>6. S[j + 1] = S[j] + Len(c.parts[j + 1].text)
  BY <1>0, StartIs, Zenon
<1>7. T[j + 1] = T[j] + Takes(c.parts[j + 1])
  BY <1>0, TakenIs, Zenon
<1> HIDE DEF S, T
<1>8. j < N
  <2>1. j # N
    BY <1>1, <1>2, <1>5
  <2> QED
    BY <1>3, <1>5, <2>1
<1>9. j \in 0 .. N - 1 /\ j + 1 \in 1 .. N /\ j + 1 \in 0 .. N /\ (j + 1) - 1 = j
  BY <1>3, <1>5, <1>8
<1>10. PICK d : d = c.parts[j + 1]
  OBVIOUS
<1>11. /\ d.text \in Seq(STRING) /\ d.text # <<>> /\ d.arg \in Seq(STRING)
       /\ Len(d.text) \in Nat /\ Len(d.text) > 0
       /\ d.type \in {"none", "string", "char", "int", "float"}
  <2>1. d.text \in Seq(STRING) /\ d.arg \in Seq(STRING)
    BY <1>1, <1>9, <1>10, PartIs
  <2>2. Len(d.text) \in Nat /\ Len(d.text) > 0
    BY <1>1, <1>9, <1>10, PartIs
  <2>3. d.type \in {"none", "string", "char", "int", "float"}
    BY <1>1, <1>9, <1>10, PartIs
  <2>4. d.text # <<>>
    BY <2>1, <2>2
  <2> QED
    BY <2>1, <2>2, <2>3, <2>4
<1>12. \A x \in 1 .. Len(d.text) : c.format[S[(j + 1) - 1] + x] = d.text[x]
  <2>1. PICK m : m = j + 1
    OBVIOUS
  <2>2. m \in 1 .. Len(c.parts) /\ d = c.parts[m]
    BY <1>9, <1>10, <2>1
  <2>3. ASSUME NEW x \in 1 .. Len(d.text)
        PROVE  c.format[Start(c.parts)[m - 1] + x] = d.text[x]
    BY <1>1, <2>2, PartText, SMTT(40)
  <2> QED
    BY <2>1, <2>3 DEF S
<1>13. d.type # "none" => c.args[T[j + 1]] = [type |-> d.type, text |-> d.arg]
  BY <1>1, <1>9, <1>10, PartIs DEF T
<1>14. d.legal => WellFormed(d)
  BY <1>1, <1>9, <1>10, PartIs
<1>15. ~d.legal => Forbidden(c.format, S[(j + 1) - 1] + 1)
  BY <1>1, <1>9, <1>10, PartIs DEF S
<1>16. S[j] \in Nat /\ S[j + 1] \in Nat /\ S[j + 1] <= Len(Format)
       /\ S[j + 1] = S[j] + Len(d.text)
  <2>1. S[j] \in Nat /\ S[j + 1] \in Nat
    BY <1>4, <1>5, <1>9, Zenon
  <2>2. S[j + 1] <= S[N]
    BY <1>3, <1>9, Zenon
  <2> QED
    BY <1>2, <1>6, <1>10, <2>1, <2>2
<1>17. Ahead(d)
  <2>1. f \in Nat \ {0} /\ f + Len(d.text) <= Len(Format) + 1
    <3>1. \A w, x, y, z \in Nat : z = x + y /\ z <= w => (x + 1) + y <= w + 1
      OBVIOUS
    <3>2. f \in Nat \ {0}
      BY <1>5, <1>16
    <3> QED
      BY <1>1, <1>5, <1>11, <1>16, <3>1, <3>2
  <2>2. ASSUME NEW x \in 1 .. Len(d.text) PROVE Format[f + x - 1] = d.text[x]
    <3>1. f + x - 1 = S[j] + x /\ (j + 1) - 1 = j
      BY <1>5, <1>9, <1>11, <1>16
    <3>2. Format[S[j] + x] = d.text[x]
      BY <1>c, <1>9, <1>12 DEF Format
    <3> QED
      BY <3>1, <3>2
  <2> QED
    BY <1>1, <1>11, <2>1, <2>2 DEF Ahead
<1>18. S[j + 1] + 1 = f + Len(d.text)
  <2>1. \A x, y, z \in Nat : z = x + y => z + 1 = (x + 1) + y
    OBVIOUS
  <2> QED
    BY <1>5, <1>11, <1>16, <2>1
<1>19. T[j + 1] = next + Takes(d)
  BY <1>5, <1>7, <1>10
<1>20. ASSUME d.type # "none" PROVE Passed(d.type) /\ Arg = d.arg
  <2>1. T[j + 1] = next + 1
    BY <1>19, <1>20 DEF Takes
  <2>2. next \in Nat /\ next + 1 <= Len(Args) /\ Len(Args) \in Nat
    <3>1. T[j] \in Nat /\ T[N] \in Nat /\ T[j + 1] <= T[N]
      <4>1. N \in 0 .. N
        BY <1>3
      <4> QED
        BY <1>3, <1>4, <1>5, <1>9, <4>1, Zenon
    <3> QED
      BY <1>2, <1>5, <2>1, <3>1
  <2>3. Args[next + 1] = [type |-> d.type, text |-> d.arg]
    BY <1>c, <1>13, <1>20, <2>1 DEF Args
  <2> QED
    BY <2>2, <2>3 DEF Passed, Arg
<1>21. ASSUME ~d.legal PROVE Class = "refused"
  <2>1. Forbidden(Format, f)
    <3>1. S[(j + 1) - 1] + 1 = f
      BY <1>5, <1>9
    <3> QED
      BY <1>c, <1>15, <1>21, <3>1 DEF Format
  <2>2. f \in 1 .. Len(Format)
    BY <1>1, <1>5, <1>16
  <2> QED
    BY <1>1, <2>1, <2>2, SeesForbidden
<1>22. Start(call.parts)[j + 1] + 1 = f + Len(d.text)
  BY <1>c, <1>18 DEF S
<1>23. Taken(call.parts)[j + 1] = next + Takes(d)
  BY <1>c, <1>19 DEF T
<1>24. d = call.parts[j + 1] /\ j \in 0 .. Len(call.parts) - 1 /\ j + 1 \in 1 .. Len(call.parts)
  BY <1>c, <1>9, <1>10
<1> QED
  BY <1>11, <1>14, <1>17, <1>20, <1>21, <1>22, <1>23, <1>24

(* What the loop finds at the next part.                                   *)
Kinds(d) ==
  \/ ~d.legal /\ Class = "refused"
  \/ d.legal /\ PlainText(d) /\ Class = "literal"
  \/ d.legal /\ DoublePercent(d) /\ Class = "percent"
  \/ d.legal /\ WholeString(d) /\ Class = "string"
  \/ d.legal /\ ShortString(d) /\ Class = "cut"
  \/ d.legal /\ OneCharacter(d) /\ Class = "char"
  \/ d.legal /\ PrintedNumber(d) /\ Class = "number" /\ Proper

Facing(j, d) ==
  /\ Done(j) /\ d = call.parts[j + 1] /\ j \in 0 .. Len(call.parts) - 1 /\ Ahead(d)
  /\ j + 1 \in 1 .. Len(call.parts)
  /\ d.text \in Seq(STRING) /\ d.arg \in Seq(STRING)
  /\ Start(call.parts)[j + 1] + 1 = f + Len(d.text)
  /\ Taken(call.parts)[j + 1] = next + Takes(d)
  /\ d.type # "none" => Passed(d.type) /\ Arg = d.arg
  /\ Passable(d) /\ Kinds(d)

LEMMA Turn ==
  ASSUME CallsSpelled, JInv, Fitting, InStep, pc = "loop", f <= Len(Format)
  PROVE  \E j, d : Facing(j, d)
<1>1. PICK j : Done(j)
  BY DEF InStep
<1>2. Scanning
  BY DEF JInv, Working
<1>3. PICK d : /\ d = call.parts[j + 1] /\ j \in 0 .. Len(call.parts) - 1 /\ Ahead(d)
               /\ j + 1 \in 1 .. Len(call.parts)
               /\ d.text \in Seq(STRING) /\ d.arg \in Seq(STRING)
               /\ Start(call.parts)[j + 1] + 1 = f + Len(d.text)
               /\ Taken(call.parts)[j + 1] = next + Takes(d)
               /\ d.type # "none" => Passed(d.type) /\ Arg = d.arg
               /\ d.legal => WellFormed(d)
               /\ ~d.legal => Class = "refused"
  BY <1>1, <1>2, PartAhead, Zenon DEF Done
<1>4. Passable(d)
  BY <1>3 DEF Fitting, Parts
<1>5. ASSUME ~d.legal PROVE Kinds(d)
  BY <1>3, <1>5, Zenon DEF Kinds
<1>6. ASSUME d.legal PROVE Kinds(d)
  <2>1. WellFormed(d) /\ Ahead(d)
    BY <1>3, <1>6
  <2>2. CASE PlainText(d)
    BY <1>6, <2>1, <2>2, SeesText, Zenon DEF Kinds
  <2>3. CASE DoublePercent(d)
    BY <1>6, <2>1, <2>3, SeesPercent, Zenon DEF Kinds
  <2>4. CASE WholeString(d)
    BY <1>6, <2>1, <2>4, SeesString, Zenon DEF Kinds
  <2>5. CASE ShortString(d)
    BY <1>6, <2>1, <2>5, SeesCut, Zenon DEF Kinds
  <2>6. CASE OneCharacter(d)
    BY <1>6, <2>1, <2>6, SeesChar, Zenon DEF Kinds
  <2>7. CASE PrintedNumber(d)
    <3>1. d.text \in Seq(STRING)
      BY <1>3
    <3>2. Class = "number" /\ Proper
      BY <1>4, <2>1, <2>7, <3>1, SeesNumber
    <3> QED
      BY <1>6, <2>7, <3>2, Zenon DEF Kinds
  <2> QED
    BY <2>1, <2>2, <2>3, <2>4, <2>5, <2>6, <2>7, Zenon DEF WellFormed
<1>7. Kinds(d)
  BY <1>5, <1>6
<1>8. Facing(j, d)
  BY <1>1, <1>3, <1>4, <1>7, Zenon DEF Facing
<1> QED
  BY <1>8

(* Past the part: one part more is read.                                   *)
LEMMA OneMore ==
  ASSUME NEW j, NEW d, Facing(j, d), d.legal, call' = call, f' = f + Len(d.text),
         next' = next + Takes(d)
  PROVE  /\ Read(j + 1)' /\ j + 1 \in 0 .. Len(call.parts) /\ j + 1 > 0 /\ (j + 1) - 1 = j
         /\ Meant(call.parts)[j + 1] = out \o Meaning(d)
<1>1. /\ j \in Nat /\ j + 1 \in 0 .. Len(call.parts) /\ j + 1 > 0 /\ (j + 1) - 1 = j
      /\ \A n \in 1 .. j + 1 : n \in 1 .. j \/ n = j + 1
  BY DEF Facing, Done, Read
<1>2. f' = Start(call.parts)[j + 1] + 1 /\ next' = Taken(call.parts)[j + 1]
  BY DEF Facing
<1>3. \A n \in 1 .. j + 1 : call.parts[n].legal
  BY <1>1 DEF Facing, Done, Read
<1>4. Read(j + 1)'
  BY <1>1, <1>2, <1>3, Zenon DEF Read
<1>5. Meant(call.parts)[j + 1] = Meant(call.parts)[j] \o Meaning(call.parts[j + 1])
  BY <1>1, MeantIs, Zenon
<1>6. out = Meant(call.parts)[j] /\ d = call.parts[j + 1]
  BY DEF Facing, Done
<1> QED
  BY <1>1, <1>4, <1>5, <1>6

LEMMA AppendIs ==
  ASSUME NEW s \in Seq(Tokens), NEW e \in Tokens
  PROVE  Append(s, e) = s \o <<e>>
<1> HIDE DEF Tokens
<1> QED
  OBVIOUS

(* The steps that copy a character.                                        *)
LEMMA FStepCopy ==
  ASSUME CallsSpelled, JInv, FInv, Literal \/ Percent
  PROVE  FInv'
<1> SUFFICES ASSUME Fitting' PROVE InStep'
  BY DEF FInv
<1>0. pc = "loop" /\ f <= Len(Format) /\ call' = call /\ pc' = "loop"
  BY DEF Literal, Percent, Top, Copy
<1>1. Fitting /\ InStep
  BY <1>0 DEF FInv, Fitting, Parts
<1>2. PICK j, d : Facing(j, d)
  BY <1>0, <1>1, Turn
<1>3. Kinds(d) /\ Ahead(d) /\ d.text \in Seq(STRING)
  BY <1>2 DEF Facing
<1>4. out \in Seq(Tokens) /\ At(f) \in Tokens
  BY <1>0, CallTypes DEF JInv, RoomInv, Working, Scanning
<1>5. d.legal /\ f' = f + Len(d.text) /\ next' = next + Takes(d) /\ Meaning(d) = <<At(f)>>
      /\ out' = Append(out, At(f))
  <2>1. CASE Literal
    <3>1. d.legal /\ PlainText(d)
      BY <1>3, <2>1 DEF Literal, Top, Kinds
    <3>2. At(f) = d.text[1] /\ Len(d.text) = 1
      BY <1>3, <3>1, SeesText
    <3>3. Meaning(d) = <<At(f)>>
      BY <1>3, <3>1, <3>2, MeaningText
    <3>4. Takes(d) = 0 /\ next \in Nat
      BY <1>0, <3>1 DEF Takes, PlainText, JInv, Working, Scanning
    <3> QED
      BY <2>1, <3>1, <3>2, <3>3, <3>4 DEF Literal, Copy
  <2>2. CASE Percent
    <3>1. d.legal /\ DoublePercent(d)
      BY <1>3, <2>2 DEF Percent, Top, Kinds
    <3>2. At(f) = "%" /\ Len(d.text) = 2
      BY <1>3, <3>1, SeesPercent
    <3>3. Meaning(d) = <<At(f)>>
      BY <3>1, <3>2, MeaningPercent
    <3>4. Takes(d) = 0 /\ next \in Nat
      BY <1>0, <3>1 DEF Takes, DoublePercent, JInv, Working, Scanning
    <3> QED
      BY <2>2, <3>1, <3>2, <3>3, <3>4 DEF Percent, Copy
  <2> QED
    BY <2>1, <2>2
<1>6. Read(j + 1)' /\ j + 1 \in 0 .. Len(call.parts)
      /\ Meant(call.parts)[j + 1] = out \o Meaning(d)
  BY <1>0, <1>2, <1>5, OneMore
<1>7. out' = Meant(call.parts)[j + 1]
  BY <1>4, <1>5, <1>6, AppendIs
<1>8. Done(j + 1)'
  BY <1>0, <1>6, <1>7, Zenon DEF Done
<1>9. \E x \in 0 .. Len(call'.parts) : Done(x)'
  BY <1>0, <1>6, <1>8
<1> QED
  BY <1>0, <1>9 DEF InStep

(* The steps that read an argument: its text is to be made next.           *)
LEMMA FStepArgument ==
  ASSUME CallsSpelled, JInv, FInv, String \/ StringCut \/ Character \/ Number
  PROVE  FInv'
<1> SUFFICES ASSUME Fitting' PROVE InStep'
  BY DEF FInv
<1>0. pc = "loop" /\ f <= Len(Format) /\ call' = call /\ out' = out
  BY DEF String, StringCut, Character, Number, Top
<1>1. Fitting /\ InStep
  BY <1>0 DEF FInv, Fitting, Parts
<1>2. PICK j, d : Facing(j, d)
  BY <1>0, <1>1, Turn
<1>3. Kinds(d) /\ Ahead(d) /\ d.text \in Seq(STRING) /\ d.arg \in Seq(STRING)
      /\ Passable(d) /\ d = call.parts[j + 1]
      /\ (d.type # "none" => Arg = d.arg)
  BY <1>2 DEF Facing
<1>4. ASSUME d.legal, f' = f + Len(d.text), next' = next + 1, d.type # "none"
      PROVE  j + 1 \in 0 .. Len(call'.parts) /\ Making(j + 1)' /\ d = call'.parts[j + 1]
  <2>1. Takes(d) = 1
    BY <1>4 DEF Takes
  <2>2. Read(j + 1)' /\ j + 1 \in 0 .. Len(call.parts) /\ j + 1 > 0 /\ (j + 1) - 1 = j
    BY <1>0, <1>2, <1>4, <2>1, OneMore
  <2>3. out = Meant(call.parts)[j]
    BY <1>2 DEF Facing, Done
  <2>4. out' = Meant(call'.parts)[(j + 1) - 1]
    BY <1>0, <2>2, <2>3
  <2>5. Making(j + 1)'
    BY <2>2, <2>4, Zenon DEF Making
  <2> QED
    BY <1>0, <1>3, <2>2, <2>5
<1>5. ASSUME d.legal, f' = f + Len(d.text), next' = next + 1, d.type # "none",
             pc' = "escape", piece' = <<>>, k' = 1, src' \in Seq(STRING),
             Meaning(d) = EscapeAll[src']
      PROVE  InStep'
  <2>1. From(src', k') = src'
    BY <1>5 DEF From
  <2>2. IsList(EscapeAll[src'])
    BY <1>5, EscapeAllList
  <2>3. Meaning(d) = piece' \o EscapeAll[From(src', k')]
    BY <1>5, <2>1, <2>2, ConcatEmpty
  <2>4. \E x \in 0 .. Len(call'.parts) :
          Making(x)' /\ Meaning(call'.parts[x]) = piece' \o EscapeAll[From(src', k')]
    BY <1>4, <1>5, <2>3
  <2> QED
    BY <1>5, <2>4 DEF InStep
<1>6. ASSUME d.legal, f' = f + Len(d.text), next' = next + 1, d.type # "none",
             pc' = "append", piece' = Meaning(d)
      PROVE  InStep'
  <2>1. \E x \in 0 .. Len(call'.parts) : Making(x)' /\ piece' = Meaning(call'.parts[x])
    BY <1>4, <1>6
  <2> QED
    BY <1>6, <2>1 DEF InStep
<1>7. CASE String
  <2>1. d.legal /\ WholeString(d)
    BY <1>3, <1>7 DEF String, Top, Kinds
  <2>2. Len(d.text) = 2 /\ d.type = "string"
    BY <1>3, <2>1, SeesString DEF WholeString
  <2>3. Meaning(d) = EscapeAll[d.arg]
    BY <1>3, <2>1, MeaningString
  <2> QED
    BY <1>3, <1>5, <1>7, <2>1, <2>2, <2>3 DEF String
<1>8. CASE StringCut
  <2>1. d.legal /\ ShortString(d)
    BY <1>3, <1>8 DEF StringCut, Top, Kinds
  <2>2. Precision = d.cut /\ d.cut \in Nat
        /\ f + Len(d.text) = IF At(f + 2) = "s" THEN f + 3 ELSE f + 4
    BY <1>3, <2>1, SeesCut
  <2>3. d.type = "string" /\ Arg = d.arg
    BY <1>3, <2>1 DEF ShortString
  <2>4. Meaning(d) = EscapeAll[SubSeq(d.arg, 1, Cut(d.arg, d.cut))]
    BY <2>1, <2>2, MeaningCut
  <2>5. src' = SubSeq(d.arg, 1, Cut(d.arg, d.cut))
    BY <1>8, <2>2, <2>3 DEF StringCut
  <2>6. src' \in Seq(STRING)
    <3>1. Cut(d.arg, d.cut) \in 0 .. Len(d.arg)
      BY <1>3, <2>2, CutIs
    <3> QED
      BY <1>3, <2>5, <3>1
  <2>7. f' = f + Len(d.text) /\ next' = next + 1 /\ pc' = "escape" /\ piece' = <<>> /\ k' = 1
    BY <1>8, <2>2 DEF StringCut
  <2>8. Meaning(d) = EscapeAll[src']
    BY <2>4, <2>5
  <2> QED
    BY <1>5, <2>1, <2>3, <2>6, <2>7, <2>8
<1>9. CASE Character
  <2>1. d.legal /\ OneCharacter(d)
    BY <1>3, <1>9 DEF Character, Top, Kinds
  <2>2. Len(d.text) = 2 /\ d.type = "char"
    BY <1>3, <2>1, SeesChar DEF OneCharacter
  <2>3. Meaning(d) = Escape(d.arg[1])
    BY <1>3, <2>1, MeaningChar
  <2> QED
    BY <1>3, <1>6, <1>9, <2>1, <2>2, <2>3 DEF Character
<1>10. CASE Number
  <2>1. d.legal /\ PrintedNumber(d)
    BY <1>3, <1>10 DEF Number, Top, Kinds
  <2>2. SpecEnd + 1 = f + Len(d.text) /\ d.type # "none"
    BY <1>3, <2>1, SeesNumber
  <2>3. Rendered = Meaning(d)
    BY <1>3, <2>1, <2>2, MeaningNumber
  <2>4. f' = f + Len(d.text) /\ next' = next + 1 /\ pc' = "append" /\ piece' = Meaning(d)
    BY <1>10, <2>2, <2>3 DEF Number
  <2> QED
    BY <1>6, <2>1, <2>2, <2>4
<1> QED
  BY <1>7, <1>8, <1>9, <1>10

(* Every byte of the string goes through, for there is always room.        *)
LEMMA FStepEscape ==
  ASSUME JInv, FInv, EscapeByte \/ Escaped
  PROVE  FInv'
<1> SUFFICES ASSUME Fitting' PROVE InStep'
  BY DEF FInv
<1>0. pc = "escape" /\ call' = call /\ f' = f /\ next' = next /\ out' = out /\ src' = src
  BY DEF EscapeByte, Escaped, scanVars, textVars
<1>1. Fitting /\ InStep
  BY <1>0 DEF FInv, Fitting, Parts
<1>2. PICK j \in 0 .. Len(call.parts) :
        Making(j) /\ Meaning(call.parts[j]) = piece \o EscapeAll[From(src, k)]
  BY <1>0, <1>1 DEF InStep
<1>3. Making(j)' /\ j \in 0 .. Len(call'.parts)
  BY <1>0, <1>2 DEF Making, Read
<1>4. src \in Seq(STRING) /\ piece \in Seq(Tokens) /\ k \in 1 .. Len(src) + 1
      /\ Len(piece) <= 6 * (k - 1)
  BY <1>0 DEF JInv, RoomInv
<1>5. k \in Nat /\ Len(src) \in Nat /\ Len(piece) \in Nat /\ IsList(piece)
  BY <1>4, ListIs
<1>6. CASE EscapeByte
  <2>1. k \in 1 .. Len(src) /\ pc' = "escape" /\ k' = k + 1 /\ piece' = Written(piece)
    BY <1>4, <1>0, <1>6 DEF EscapeByte
  <2>2. PICK e : e = Escape(src[k])
    OBVIOUS
  <2>3. IsList(e) /\ Len(e) \in Nat /\ Len(e) <= 6
    <3>1. src[k] \in STRING
      BY <1>4, <2>1
    <3>2. src[k] \in Tokens
      BY <3>1 DEF Tokens
    <3>3. e \in Seq(Tokens) /\ Len(e) \in 1 .. 6
      BY <2>2, <3>2, EscapeLength
    <3>4. \A x \in 1 .. 6 : x \in Nat /\ x <= 6
      OBVIOUS
    <3>5. IsList(e)
      BY <3>3, ListIs, Zenon
    <3> QED
      BY <3>3, <3>4, <3>5, Zenon
  <2>4. Len(piece) + Len(e) <= EscapedCap - 1
    <3>1. \A w, x, y, z \in Nat : x <= 6 * (z - 1) /\ y <= 6 /\ z <= w =>
            x + y <= (6 * w + 1) - 1
      OBVIOUS
    <3>2. k <= Len(src)
      BY <1>5, <2>1
    <3> QED
      BY <1>4, <1>5, <2>3, <3>1, <3>2 DEF EscapedCap
  <2>5. piece' = piece \o e
    BY <2>1, <2>2, <2>4 DEF Written
  <2>6. /\ EscapeAll[From(src, k)] = e \o EscapeAll[From(src, k + 1)]
        /\ IsList(EscapeAll[From(src, k + 1)])
    BY <1>4, <2>1, <2>2, EscapeFrom
  <2>7. piece \o (e \o EscapeAll[From(src, k + 1)]) = (piece \o e) \o EscapeAll[From(src, k + 1)]
    <3>1. PICK r : r = EscapeAll[From(src, k + 1)]
      OBVIOUS
    <3>2. IsList(r)
      BY <2>6, <3>1
    <3>3. PICK p : p = piece
      OBVIOUS
    <3>4. IsList(p) /\ IsList(e)
      BY <1>5, <2>3, <3>3
    <3>5. (p \o e) \o r = p \o (e \o r)
      BY <3>2, <3>4, ConcatAssoc
    <3> QED
      BY <3>1, <3>3, <3>5
  <2>8. Meaning(call'.parts[j]) = piece' \o EscapeAll[From(src', k')]
    BY <1>0, <1>2, <2>1, <2>5, <2>6, <2>7
  <2>9. \E x \in 0 .. Len(call'.parts) :
          Making(x)' /\ Meaning(call'.parts[x]) = piece' \o EscapeAll[From(src', k')]
    BY <1>3, <2>8
  <2> QED
    BY <2>1, <2>9 DEF InStep
<1>7. CASE Escaped
  <2>1. pc' = "append" /\ piece' = piece /\ (k > Len(src) \/ Len(piece) >= 6 * Len(src))
    BY <1>4, <1>5, <1>7 DEF Escaped, textVars, EscapedCap
  <2>2. k = Len(src) + 1
    <3>1. \A w, x, z \in Nat : x <= 6 * (z - 1) /\ x >= 6 * w => z > w
      OBVIOUS
    <3>2. k > Len(src)
      BY <1>4, <1>5, <2>1, <3>1
    <3> QED
      BY <1>4, <1>5, <3>2
  <2>3. EscapeAll[From(src, k)] = <<>>
    BY <1>4, <2>2, EscapeNothing
  <2>4. piece' = Meaning(call'.parts[j])
    BY <1>0, <1>2, <1>5, <2>1, <2>3, ConcatEmpty
  <2>5. \E x \in 0 .. Len(call'.parts) : Making(x)' /\ piece' = Meaning(call'.parts[x])
    BY <1>3, <2>4
  <2> QED
    BY <2>1, <2>5 DEF InStep
<1> QED
  BY <1>6, <1>7

(* The steps that append or make room.                                     *)
LEMMA FStepAppend ==
  ASSUME CallsSpelled, JInv, FInv, Enter \/ Grow \/ AppendText \/ AppendGrows
  PROVE  FInv'
<1> SUFFICES ASSUME Fitting' PROVE InStep'
  BY DEF FInv
<1>0. call' = call /\ f' = f /\ next' = next
  BY DEF Enter, Grow, AppendText, AppendGrows, scanVars
<1>1. Fitting /\ InStep
  BY <1>0 DEF FInv, Fitting, Parts
<1>2. CASE Enter
  <2>1. pc' = "loop" /\ out' = out /\ out = <<>> /\ f = 1 /\ next = 0
    BY <1>1, <1>2 DEF Enter, InStep, JInv
  <2>2. Start(call.parts)[0] = 0 /\ Taken(call.parts)[0] = 0 /\ Meant(call.parts)[0] = <<>>
    BY StartIs, TakenIs, MeantIs
  <2>3. Len(call.parts) \in Nat
    <3>1. Spelled(call)
      BY <1>1, <1>2 DEF CallsSpelled, JInv, Fitting, Enter
    <3>2. call.parts \in Seq(CallPart)
      BY <3>1, Zenon DEF Spelled
    <3> QED
      BY <3>2
  <2>4. Read(0)' /\ out' = Meant(call'.parts)[0]
    BY <1>0, <2>1, <2>2, <2>3 DEF Read
  <2>5. Done(0)' /\ 0 \in 0 .. Len(call'.parts)
    BY <1>0, <2>3, <2>4 DEF Done
  <2> QED
    BY <2>1, <2>5 DEF InStep
<1>3. CASE Grow
  <2>1. pc = "loop" /\ pc' = "loop" /\ out' = out
    BY <1>3 DEF Grow
  <2>2. PICK j \in 0 .. Len(call.parts) : Done(j)
    BY <1>1, <2>1 DEF InStep
  <2>3. Done(j)' /\ j \in 0 .. Len(call'.parts)
    BY <1>0, <2>1, <2>2 DEF Done, Read
  <2> QED
    BY <2>1, <2>3 DEF InStep
<1>4. CASE AppendGrows
  <2>1. pc = "append" /\ pc' = "append" /\ out' = out /\ piece' = piece
    BY <1>4 DEF AppendGrows, textVars
  <2>2. PICK j \in 0 .. Len(call.parts) : Making(j) /\ piece = Meaning(call.parts[j])
    BY <1>1, <2>1 DEF InStep
  <2>3. Making(j)' /\ j \in 0 .. Len(call'.parts) /\ piece' = Meaning(call'.parts[j])
    BY <1>0, <2>1, <2>2 DEF Making, Read
  <2> QED
    BY <2>1, <2>3 DEF InStep
<1>5. CASE AppendText
  <2>1. pc = "append" /\ pc' = "loop" /\ out' = out \o piece
    BY <1>5 DEF AppendText
  <2>2. PICK j \in 0 .. Len(call.parts) : Making(j) /\ piece = Meaning(call.parts[j])
    BY <1>1, <2>1 DEF InStep
  <2>3. j > 0 /\ Read(j) /\ out = Meant(call.parts)[j - 1]
    BY <2>2 DEF Making
  <2>4. PICK m \in Nat : j = m + 1 /\ m = j - 1
    <3>1. j - 1 \in Nat /\ j = (j - 1) + 1
      BY <2>2, <2>3
    <3> QED
      BY <3>1
  <2>5. Meant(call.parts)[m + 1] = Meant(call.parts)[m] \o Meaning(call.parts[m + 1])
    BY <2>4, MeantIs, Zenon
  <2>6. out' = Meant(call'.parts)[j]
    BY <1>0, <2>1, <2>2, <2>3, <2>4, <2>5
  <2>7. Read(j)' /\ j \in 0 .. Len(call'.parts)
    BY <1>0, <2>2, <2>3 DEF Read
  <2>8. Done(j)'
    BY <2>6, <2>7, Zenon DEF Done
  <2> QED
    BY <2>1, <2>7, <2>8 DEF InStep
<1> QED
  BY <1>2, <1>3, <1>4, <1>5

(* The steps that return, or lose step.                                    *)
LEMMA FStepReturn ==
  ASSUME CallsSpelled, JInv, FInv,
         \/ EnterNull \/ Finish \/ Refuse \/ PassOver \/ Undefined \/ OutOfMemory
  PROVE  FInv'
<1> SUFFICES ASSUME Fitting' PROVE InStep'
  BY DEF FInv
<1>0. call' = call
  BY DEF EnterNull, Finish, Refuse, PassOver, Undefined, OutOfMemory, EnterFails, GrowFails,
    StringFails, NumberFails, AppendFails, Fail, scanVars
<1>1. Fitting /\ InStep
  BY <1>0 DEF FInv, Fitting, Parts
<1>2. CASE EnterNull
  BY <1>1, <1>2 DEF EnterNull, Fitting
<1>3. CASE OutOfMemory
  <2>1. pc' = "returned" /\ starved' \in {"buf", "grow", "escaped", "truncated", "val"}
    BY <1>3 DEF OutOfMemory, EnterFails, GrowFails, StringFails, NumberFails, AppendFails, Fail
  <2> QED
    BY <2>1 DEF InStep
<1>4. CASE Finish
  <2>0. pc = "loop" /\ f > Len(Format) /\ pc' = "returned" /\ status' = 200
        /\ out' = out /\ next' = next
    BY <1>4 DEF Finish, scanVars
  <2>1. PICK j \in 0 .. Len(call.parts) : Done(j)
    BY <1>1, <2>0 DEF InStep
  <2>2. PICK c : c = call
    OBVIOUS
  <2> DEFINE N == Len(c.parts)
             S == Start(c.parts)
             T == Taken(c.parts)
  <2>3. Spelled(c) /\ Len(Format) \in Nat
    BY <2>0, <2>2, CallTypes DEF CallsSpelled, JInv, Working, Scanning
  <2>4. Len(Format) = S[N] /\ Len(Args) = T[N]
    <3>1. Len(c.format) = S[N] /\ Len(c.args) = T[N]
      BY <2>3, Zenon DEF Spelled
    <3> QED
      BY <2>2, <3>1 DEF Format, Args
  <2>5. /\ N \in Nat
        /\ \A x \in 0 .. N : /\ S[x] <= S[N]
                             /\ x < N => S[x] < S[N]
                             /\ T[x] <= T[N]
    <3>1. Len(c.parts) = Len(c.parts)
      OBVIOUS
    <3> QED
      BY <2>3, <3>1, StartUp, Zenon
  <2>6. \A x \in 0 .. N : S[x] \in Nat
    BY <2>3, StartNat
  <2>7. /\ j \in 0 .. N /\ f = S[j] + 1 /\ next = T[j] /\ out = Meant(c.parts)[j]
        /\ \A n \in 1 .. j : c.parts[n].legal
    BY <2>1, <2>2 DEF Done, Read
  <2> HIDE DEF S, T
  <2>8. j = N
    <3>1. S[j] \in Nat /\ S[N] \in Nat /\ (j < N => S[j] < S[N])
      <4>1. N \in 0 .. N
        BY <2>5
      <4> QED
        BY <2>5, <2>6, <2>7, <4>1, Zenon
    <3>2. ~(j < N)
      BY <2>0, <2>4, <2>7, <3>1
    <3> QED
      BY <2>5, <2>7, <3>2
  <2>9. /\ \A n \in 1 .. Len(call.parts) : call.parts[n].legal
        /\ out = Meant(call.parts)[Len(call.parts)] /\ next = Len(Args)
    BY <2>2, <2>4, <2>7, <2>8
  <2>10. Args' = Args
    BY <1>0 DEF Args
  <2> QED
    BY <1>0, <2>0, <2>9, <2>10 DEF InStep
<1>5. CASE Refuse \/ PassOver \/ Undefined
  <2>1. pc = "loop" /\ f <= Len(Format)
    BY <1>5 DEF Refuse, PassOver, Undefined, Top
  <2>2. PICK j, d : Facing(j, d)
    BY <1>1, <2>1, Turn
  <2>3. Kinds(d) /\ d = call.parts[j + 1] /\ j + 1 \in 1 .. Len(call.parts)
        /\ (d.type # "none" => Passed(d.type)) /\ Ahead(d) /\ Passable(d)
        /\ d.text \in Seq(STRING)
    BY <2>2 DEF Facing
  <2>4. CASE Refuse
    <3>1. ~d.legal
      BY <2>3, <2>4 DEF Refuse, Top, Kinds
    <3>2. pc' = "returned" /\ status' = 500
      BY <2>4 DEF Refuse, Fail
    <3>3. \E n \in 1 .. Len(call'.parts) : ~call'.parts[n].legal
      BY <1>0, <2>3, <3>1
    <3> QED
      BY <3>2, <3>3 DEF InStep
  <2>5. CASE PassOver
    BY <2>3, <2>5 DEF PassOver, Top, Kinds
  <2>6. CASE Undefined
    <3>1. CASE (Top("string") \/ Top("cut")) /\ ~Passed("string")
      <4>1. WholeString(d) \/ ShortString(d)
        BY <2>3, <3>1 DEF Top, Kinds
      <4>2. d.type = "string"
        BY <4>1 DEF WholeString, ShortString
      <4> QED
        BY <2>3, <3>1, <4>2
    <3>2. CASE Top("char") /\ ~Passed("char")
      <4>1. OneCharacter(d)
        BY <2>3, <3>2 DEF Top, Kinds
      <4>2. d.type = "char"
        BY <4>1 DEF OneCharacter
      <4> QED
        BY <2>3, <3>2, <4>2
    <3>3. CASE Top("number") /\ ~Printable
      <4>1. PrintedNumber(d)
        BY <2>3, <3>3 DEF Top, Kinds
      <4>2. Proper /\ NormalFits /\ NumberType = d.type /\ d.type \in {"int", "float"}
        BY <2>3, <4>1, SeesNumber
      <4> QED
        BY <2>3, <3>3, <4>2 DEF Printable
    <3> QED
      BY <2>6, <3>1, <3>2, <3>3, Zenon DEF Undefined
  <2> QED
    BY <1>5, <2>4, <2>5, <2>6
<1> QED
  BY <1>2, <1>3, <1>4, <1>5

LEMMA FInit == Init => FInv
  BY DEF Init, FInv, InStep

LEMMA FStep ==
  ASSUME CallsSpelled, JInv, FInv, [Next]_vars
  PROVE  FInv'
<1>1. CASE UNCHANGED vars
  <2>1. UNCHANGED <<call, f, out, next, src, k, piece, starved, pc, status>>
    BY <1>1 DEF vars
  <2>2. Fitting' <=> Fitting
    BY <2>1 DEF Fitting, Parts
  <2>3. InStep' <=> InStep
    BY <2>1 DEF InStep, Args, Done, Making, Read, From
  <2> QED
    BY <2>2, <2>3 DEF FInv
<1>2. CASE Next
  BY <1>2, FStepCopy, FStepArgument, FStepEscape, FStepAppend, FStepReturn DEF Next, Works
<1> QED
  BY <1>1, <1>2

(* mnet_jsonfv() makes of a format what its parts stand for, each with its *)
(* own argument, and refuses it if one of them is not allowed; for calls   *)
(* whose parts are each well formed or refused by Forbidden, and fit spec  *)
(* and nspec.                                                              *)
THEOREM FormatRightHolds == ASSUME CallsSpelled PROVE Spec => []FormatRight
<1>1. FInv => FormatRight
  <2> SUFFICES ASSUME Fitting, InStep PROVE FormatRight
    BY DEF FInv, FormatRight, Fitting
  <2>1. ASSUME NEW n \in 1 .. Len(call.parts), \A d \in Parts : d.legal
        PROVE  call.parts[n].legal
    BY <2>1 DEF Parts
  <2>2. ASSUME \A n \in 1 .. Len(call.parts) : call.parts[n].legal
        PROVE  \A d \in Parts : d.legal
    BY <2>2 DEF Parts
  <2> QED
    BY <2>1, <2>2 DEF InStep, FormatRight
<1>2. JInv /\ FInv /\ [Next]_vars => FInv'
  BY FStep
<1> QED
  BY JAlways, FInit, <1>1, <1>2, PTL DEF Spec
=============================================================================
