---------------------------- MODULE ClientProofs ----------------------------
(***************************************************************************)
(* For every set of URLs and responses and every size: mnet_call() never   *)
(* writes past its buffer, releases what it holds however it ends, asks    *)
(* the server the URL names, and returns the beginning of the body.        *)
(***************************************************************************)
EXTENDS Client, ListLemmas

(* The loop that doubles a size gets past any number.                      *)
LEMMA DoubledDef ==
  \A e \in Nat : Doubled[e] = IF e = 0 THEN RawStart ELSE 2 * Doubled[e - 1]
<1>1. NatInductiveDefHypothesis(Doubled, RawStart, LAMBDA v, e : 2 * v)
  BY Zenon DEF NatInductiveDefHypothesis, Doubled
<1>2. NatInductiveDefConclusion(Doubled, RawStart, LAMBDA v, e : 2 * v)
  BY <1>1, NatInductiveDef, Zenon
<1> QED
  BY <1>2, Zenon DEF NatInductiveDefConclusion

LEMMA DoubledGrows == \A e \in Nat : Doubled[e] \in Nat /\ Doubled[e] > e
<1> DEFINE C == {e \in Nat : ~(Doubled[e] \in Nat /\ Doubled[e] > e)}
<1> SUFFICES ASSUME C # {} PROVE FALSE
  OBVIOUS
<1>1. PICK x \in C : \A y \in C : x <= y
  BY Least
<1>2. x # 0
  BY DoubledDef, SizesAssumption
<1>3. x - 1 \in Nat /\ x - 1 \notin C
  BY <1>1, <1>2
<1>4. Doubled[x] = 2 * Doubled[x - 1]
  BY <1>1, <1>2, DoubledDef
<1> QED
  BY <1>1, <1>2, <1>3, <1>4

LEMMA LimitNat == Limit \in Nat /\ Limit >= Chunk
  BY SizesAssumption DEF Limit

LEMMA FitsRoom ==
  ASSUME NEW m \in Nat, m <= Limit + Chunk
  PROVE  Fits(m) \in Nat /\ Fits(m) >= m
<1> DEFINE S == {c \in Sizes : c >= m}
<1>1. Sizes \subseteq Nat
  BY DoubledGrows, LimitNat, SizesAssumption DEF Sizes
<1>2. Doubled[m] \in S
  BY DoubledGrows, LimitNat, SizesAssumption DEF Sizes
<1>3. PICK c \in S : \A d \in S : c <= d
  BY <1>1, <1>2, Least
<1>4. c \in Sizes /\ c >= m /\ \A d \in Sizes : d >= m => c <= d
  BY <1>3
<1> HIDE DEF S
<1>5. Fits(m) \in Sizes /\ Fits(m) >= m
  BY <1>4 DEF Fits
<1> QED
  BY <1>1, <1>5

(* What First() finds.                                                     *)
LEMMA FirstIs ==
  ASSUME NEW s \in Seq(STRING), NEW j \in 1 .. Len(s) + 1, NEW tokens
  PROVE  /\ First(s, j, tokens) \in j .. Len(s) + 1
         /\ First(s, j, tokens) <= Len(s) => s[First(s, j, tokens)] \in tokens
         /\ \A m \in j .. First(s, j, tokens) - 1 : s[m] \notin tokens
<1> DEFINE T == {k \in j .. Len(s) + 1 : k = Len(s) + 1 \/ s[k] \in tokens}
           Q(k) == /\ k <= Len(s) => s[k] \in tokens
                   /\ \A m \in j .. k - 1 : s[m] \notin tokens
<1>1. T \subseteq Nat /\ Len(s) + 1 \in T
  OBVIOUS
<1>2. PICK k \in T : \A y \in T : k <= y
  BY <1>1, Least
<1>3. k \in j .. Len(s) + 1 /\ Q(k)
  BY <1>2
<1>4. First(s, j, tokens) = CHOOSE x \in j .. Len(s) + 1 : Q(x)
  BY Zenon DEF First
<1>5. First(s, j, tokens) \in j .. Len(s) + 1 /\ Q(First(s, j, tokens))
  <2> HIDE DEF Q, T
  <2> QED
    BY <1>3, <1>4, Zenon
<1> QED
  BY <1>5

(* Two places with that property are one.                                  *)
LEMMA FirstUnique ==
  ASSUME NEW s \in Seq(STRING), NEW j \in 1 .. Len(s) + 1, NEW tokens,
         NEW k \in j .. Len(s) + 1,
         k <= Len(s) => s[k] \in tokens,
         \A m \in j .. k - 1 : s[m] \notin tokens
  PROVE  First(s, j, tokens) = k
<1> DEFINE x == First(s, j, tokens)
<1>1. x \in j .. Len(s) + 1 /\ (x <= Len(s) => s[x] \in tokens)
      /\ \A m \in j .. x - 1 : s[m] \notin tokens
  BY FirstIs
<1> HIDE DEF x
<1>2. x = k
  BY <1>1
<1> QED
  BY <1>2 DEF x

----------------------------------------------------------------------------
(* The inductive invariant.  raw is the part of the response read so far,  *)
(* and it fits; what a call holds depends on where it is; what it will     *)
(* return is cut out of raw.                                               *)

ReadInv ==
  /\ answer \in Answers
  /\ at \in 0 .. Len(answer.tokens) /\ raw = SubSeq(answer.tokens, 1, at)
  /\ rawCap \in Nat /\ Len(raw) <= rawCap /\ Len(raw) < Limit + Chunk

Held ==
  /\ pc \in {"call", "lookup", "free"} => live = {}
  /\ pc = "connect" => live = {"addrinfo"}
  /\ pc = "send" => live = {"socket"}
  /\ pc \in {"recv", "strip"} =>
       live = {"socket"} \union (IF raw = <<>> THEN {} ELSE {"raw"})
  /\ pc = "judge" => live = {"body"}
  /\ pc = "return" => live = IF result = Null THEN {} ELSE {"body"}

Places == {"call", "lookup", "connect", "send", "recv", "strip", "judge", "return", "free"}

ResultInv ==
  /\ pc \notin {"return", "free"} => result = Null
  /\ pc \in {"lookup", "connect", "send"} => asked = Parse(url.text)
  /\ pc = "judge" => /\ body = Bounded(BodyOf(raw))
                     /\ HasStatus(raw) /\ Len(raw) > 2 => status = answer.status
  /\ pc = "return" /\ result # Null =>
       /\ result = Bounded(BodyOf(raw))
       /\ HasStatus(raw) /\ Len(raw) > 2 => answer.status < 400

CInv == /\ pc \in Places /\ url \in Urls
        /\ ReadInv /\ Held /\ ResultInv

(* A part of a response is a sequence of its tokens.                       *)
LEMMA RawSeq ==
  ASSUME ReadInv
  PROVE  /\ answer.tokens \in Seq(STRING \ {"NULL"})
         /\ raw \in Seq(STRING \ {"NULL"}) /\ Len(raw) = at
         /\ \A k \in 1 .. at : raw[k] = answer.tokens[k]
<1>1. answer.tokens \in Seq(STRING \ {"NULL"})
  BY AnswersAssumption DEF ReadInv
<1> QED
  BY <1>1 DEF ReadInv

(* The body of a response, and what is left of it, is never Null.          *)
LEMMA BodySeq ==
  ASSUME NEW s \in Seq(STRING \ {"NULL"})
  PROVE  /\ Bounded(BodyOf(s)) \in Seq(STRING \ {"NULL"})
         /\ Bounded(BodyOf(s)) # Null
<1>1. s \in Seq(STRING)
  OBVIOUS
<1>2. First(s, 1, {"blank"}) \in 1 .. Len(s) + 1
  BY <1>1, FirstIs
<1>3. BodyOf(s) \in Seq(STRING \ {"NULL"})
  BY <1>2 DEF BodyOf
<1>4. Bounded(BodyOf(s)) \in Seq(STRING \ {"NULL"})
  BY <1>3, SizesAssumption DEF Bounded
<1>5. Null \notin Seq(STRING \ {"NULL"})
  BY DEF Null
<1> QED
  BY <1>4, <1>5

LEMMA CInit == Init => CInv
<1> SUFFICES ASSUME Init PROVE CInv
  OBVIOUS
<1>1. answer.tokens \in Seq(STRING \ {"NULL"})
  BY AnswersAssumption DEF Init
<1>2. ReadInv
  BY <1>1, LimitNat, SizesAssumption DEF Init, ReadInv
<1> QED
  BY <1>2 DEF Init, CInv, Held, Places, ResultInv

(* Steps before and after the reading leave what was read alone.           *)
LEMMA CStepElsewhere ==
  ASSUME CInv,
         \/ ParseUrl \/ Lookup \/ NextAddress \/ NoAddress \/ Connect
         \/ Judge \/ Free
  PROVE  CInv'
<1>1. CASE ParseUrl
  BY <1>1 DEF ParseUrl, CInv, ReadInv, Held, Places, ResultInv, readVars
<1>2. CASE Lookup
  BY <1>2 DEF Lookup, Fail, CInv, ReadInv, Held, Places, ResultInv, connVars, readVars
<1>3. CASE NextAddress
  BY <1>3 DEF NextAddress, CInv, ReadInv, Held, Places, ResultInv, connVars, readVars,
    resultVars
<1>4. CASE NoAddress
  BY <1>4 DEF NoAddress, Fail, CInv, ReadInv, Held, Places, ResultInv, connVars, readVars
<1>5. CASE Connect
  BY <1>5 DEF Connect, CInv, ReadInv, Held, Places, ResultInv, connVars, readVars, resultVars
<1>6. CASE Judge
  <2>1. body # Null
    BY <1>6, RawSeq, BodySeq DEF Judge, CInv, ResultInv
  <2>2. answer.status \in Nat
    BY AnswersAssumption DEF CInv, ReadInv
  <2> QED
    BY <1>6, <2>1, <2>2
    DEF Judge, Fail, CInv, ReadInv, Held, Places, ResultInv, connVars, readVars
<1>7. CASE Free
  BY <1>7 DEF Free, CInv, ReadInv, Held, Places, ResultInv, connVars, readVars, resultVars
<1> QED
  BY <1>1, <1>2, <1>3, <1>4, <1>5, <1>6, <1>7

LEMMA CStepRead ==
  ASSUME CInv,
         \/ Send \/ Enough \/ NoResponse \/ Strip \/ Interrupted \/ Closed \/ TimedOut
         \/ \E n \in 1 .. Chunk : CannotGrow(n)
  PROVE  CInv'
<1>1. CASE Send
  <2>1. answer.tokens \in Seq(STRING \ {"NULL"})
    BY RawSeq DEF CInv
  <2>2. SubSeq(answer.tokens, 1, 0) = <<>>
    OBVIOUS
  <2>3. answer' = answer /\ \/ UNCHANGED readVars
                            \/ at' = 0 /\ raw' = <<>> /\ rawCap' = 0
    BY <1>1 DEF Send
  <2>4. ASSUME UNCHANGED readVars PROVE ReadInv'
    BY <2>3, <2>4 DEF CInv, ReadInv, readVars
  <2>5. ASSUME at' = 0, raw' = <<>>, rawCap' = 0 PROVE ReadInv'
    <3>1. at' \in 0 .. Len(answer.tokens) /\ Len(raw') = 0
      BY <2>1, <2>5
    <3>2. raw' = SubSeq(answer.tokens, 1, at')
      BY <2>2, <2>5
    <3> QED
      BY <2>3, <2>5, <3>1, <3>2, LimitNat, SizesAssumption DEF CInv, ReadInv
  <2>6. ReadInv'
    BY <2>3, <2>4, <2>5
  <2> QED
    BY <1>1, <2>6 DEF Send, Fail, CInv, Held, Places, ResultInv, connVars, readVars
<1>2. CASE Enough
  BY <1>2 DEF Enough, CInv, ReadInv, Held, Places, ResultInv, connVars, readVars, resultVars
<1>3. CASE NoResponse
  BY <1>3 DEF NoResponse, Fail, CInv, ReadInv, Held, Places, ResultInv, connVars, readVars
<1>4. CASE Strip
  <2>1. raw' = raw /\ answer' = answer /\ status' \in StatusRead(raw)
    BY <1>4 DEF Strip, readVars
  <2>2. HasStatus(raw)' <=> HasStatus(raw)
    BY <2>1 DEF HasStatus
  <2>3. HasStatus(raw) /\ Len(raw) > 2 => status' = answer.status
    <3> SUFFICES ASSUME HasStatus(raw), Len(raw) > 2 PROVE status' = answer.status
      OBVIOUS
    <3>1. Len(raw) # 2
      BY RawSeq DEF CInv, ReadInv
    <3>2. StatusRead(raw) = {answer.status} \union {}
      BY <3>1, Zenon DEF StatusRead
    <3> QED
      BY <2>1, <3>2
  <2> QED
    BY <1>4, <2>1, <2>2, <2>3
    DEF Strip, Fail, CInv, ReadInv, Held, Places, ResultInv, connVars, readVars
<1>5. CASE Interrupted
  BY <1>5 DEF Interrupted, Reading, CInv, ReadInv, Held, Places, ResultInv, connVars,
    resultVars
<1>6. CASE Closed \/ TimedOut
  BY <1>6 DEF Closed, TimedOut, Reading, CInv, ReadInv, Held, Places, ResultInv, connVars,
    resultVars
<1>7. CASE \E n \in 1 .. Chunk : CannotGrow(n)
  BY <1>7 DEF CannotGrow, Reading, Fail, CInv, ReadInv, Held, Places, ResultInv, connVars,
    readVars
<1> QED
  BY <1>1, <1>2, <1>3, <1>4, <1>5, <1>6, <1>7

(* A portion is put where there is room for it.                            *)
LEMMA CStepReceive ==
  ASSUME CInv, NEW n \in 1 .. Chunk, Receive(n)
  PROVE  CInv'
<1> DEFINE tokens == answer.tokens
<1>1. tokens \in Seq(STRING \ {"NULL"}) /\ Len(raw) = at
      /\ \A k \in 1 .. at : raw[k] = tokens[k]
  BY RawSeq DEF CInv
<1>2. n \in Nat /\ n > 0 /\ n <= Chunk /\ at + n <= Len(tokens) /\ Len(raw) < Limit
  BY SizesAssumption DEF Receive, Reading
<1>3. at' = at + n /\ answer' = answer /\ raw' = SubSeq(tokens, 1, at + n)
  <2>1. raw' = raw \o SubSeq(tokens, at + 1, at + n) /\ at' = at + n /\ answer' = answer
    BY DEF Receive
  <2>2. raw = SubSeq(tokens, 1, at) /\ at \in Nat
    BY DEF CInv, ReadInv
  <2> QED
    BY <1>1, <1>2, <2>1, <2>2
<1>4. Len(raw') = Len(raw) + n /\ raw' # <<>>
  BY <1>1, <1>2, <1>3 DEF CInv, ReadInv
<1>5. rawCap' \in Nat /\ Len(raw) + n <= rawCap'
  <2>1. Fits(Len(raw) + n) \in Nat /\ Fits(Len(raw) + n) >= Len(raw) + n
    BY <1>1, <1>2, FitsRoom, LimitNat, SizesAssumption
  <2> QED
    BY <1>1, <1>2, <2>1 DEF Receive, Grown, CInv, ReadInv
<1>6. ReadInv'
  BY <1>1, <1>2, <1>3, <1>4, <1>5, LimitNat, SizesAssumption DEF CInv, ReadInv
<1>7. Held' /\ pc' = pc /\ url' = url
  BY <1>4 DEF Receive, Reading, CInv, Held, connVars
<1> QED
  BY <1>6, <1>7 DEF Receive, Reading, CInv, Places, ResultInv, connVars, resultVars

LEMMA CStep == CInv /\ [Next]_vars => CInv'
<1> SUFFICES ASSUME CInv, [Next]_vars PROVE CInv'
  OBVIOUS
<1>1. CASE UNCHANGED vars
  BY <1>1 DEF vars, CInv, ReadInv, Held, Places, ResultInv
<1>2. CASE Next
  BY <1>2, CStepElsewhere, CStepRead, CStepReceive DEF Next, Own
<1> QED
  BY <1>1, <1>2

LEMMA CAlways == Spec => []CInv
  BY CInit, CStep, PTL DEF Spec

----------------------------------------------------------------------------
(* mnet_read_response() doubles raw until the portion fits, so that it     *)
(* never writes past its end, and stops within a portion of the limit.     *)
(* There need not be a byte left behind what was received.                 *)
THEOREM RawFitsHolds == Spec => []RawFits
<1>1. CInv => RawFits
  BY DEF CInv, ReadInv, RawFits
<1> QED
  BY CAlways, <1>1, PTL

(* However mnet_call() ends, what it held is released.                     *)
THEOREM CallReleasesHolds == Spec => []CallReleases
<1>1. CInv => CallReleases
  BY DEF CInv, Held, CallReleases
<1> QED
  BY CAlways, <1>1, PTL

----------------------------------------------------------------------------
(* The body of a response, found in its first part.                        *)

(* The place of the first empty line, or the end.                          *)
LEMMA MeantIs ==
  ASSUME ReadInv
  PROVE  LET e == First(answer.tokens, 1, {"blank"})
         IN Meant = SubSeq(answer.tokens, e + 1, Len(answer.tokens))
<1> DEFINE s == answer.tokens
           e == First(s, 1, {"blank"})
           I == {k \in 1 .. Len(s) : s[k] = "blank"}
           b == SelectInSeq(s, LAMBDA t : t = "blank")
<1>1. s \in Seq(STRING)
  BY RawSeq
<1>2. e \in 1 .. Len(s) + 1 /\ (e <= Len(s) => s[e] = "blank")
      /\ \A m \in 1 .. e - 1 : s[m] # "blank"
  BY <1>1, FirstIs
<1>3. b = (IF I # {} THEN Min(I) ELSE 0)
      /\ Meant = IF b = 0 THEN <<>> ELSE SubSeq(s, b + 1, Len(s))
  BY Zenon DEF SelectInSeq, Meant
<1> HIDE DEF b
<1>4. CASE e = Len(s) + 1
  <2>1. I = {}
    BY <1>2, <1>4
  <2>2. Meant = <<>>
    BY <1>3, <2>1
  <2> QED
    BY <1>1, <1>4, <2>2
<1>5. CASE e <= Len(s)
  <2>1. e \in I /\ \A y \in I : e <= y
    BY <1>2, <1>5
  <2>2. \A x \in I : (\A y \in I : x <= y) => x = e
    BY <2>1, <1>1, <1>2
  <2>3. Min(I) = CHOOSE x \in I : \A y \in I : x <= y
    BY Zenon DEF Min
  <2>4. Min(I) = e
    <3> HIDE DEF I, e
    <3> QED
      BY <2>1, <2>2, <2>3
  <2>5. Meant = SubSeq(s, e + 1, Len(s))
    <3>1. I # {} /\ e # 0
      BY <1>2, <1>1, <2>1
    <3> HIDE DEF I, e, s
    <3> QED
      BY <1>3, <2>4, <3>1
  <2> QED
    BY <2>5
<1> QED
  BY <1>1, <1>2, <1>4, <1>5

(* What was read of a response has the beginning of its body, all of it    *)
(* when everything was read.                                               *)
LEMMA BodyPart ==
  ASSUME ReadInv
  PROVE  LET s == answer.tokens
             e == First(s, 1, {"blank"})
         IN /\ s \in Seq(STRING) /\ e \in 1 .. Len(s) + 1
            /\ BodyOf(raw) = IF at < e THEN <<>> ELSE SubSeq(s, e + 1, at)
<1> DEFINE s == answer.tokens
           e == First(s, 1, {"blank"})
<1>1. s \in Seq(STRING) /\ raw \in Seq(STRING) /\ Len(raw) = at /\ at \in 0 .. Len(s)
      /\ (\A k \in 1 .. at : raw[k] = s[k]) /\ raw = SubSeq(s, 1, at)
  BY RawSeq DEF ReadInv
<1>2. e \in 1 .. Len(s) + 1 /\ (e <= Len(s) => s[e] \in {"blank"})
      /\ \A m \in 1 .. e - 1 : s[m] \notin {"blank"}
  <2>1. PICK x, S : x = s /\ S = {"blank"}
    OBVIOUS
  <2>2. x \in Seq(STRING) /\ 1 \in 1 .. Len(x) + 1
    BY <1>1, <2>1
  <2>3. First(x, 1, S) \in 1 .. Len(x) + 1
        /\ (First(x, 1, S) <= Len(x) => x[First(x, 1, S)] \in S)
        /\ \A m \in 1 .. First(x, 1, S) - 1 : x[m] \notin S
    BY <2>2, FirstIs
  <2> QED
    BY <2>1, <2>3, Zenon
<1> HIDE DEF e, s
<1>3. ASSUME at < e PROVE BodyOf(raw) = <<>>
  <2> DEFINE B == {"blank"}
  <2>1. First(raw, 1, B) = at + 1
    <3>1. 1 \in 1 .. Len(raw) + 1 /\ at + 1 \in 1 .. Len(raw) + 1 /\ ~(at + 1 <= Len(raw))
          /\ \A m \in 1 .. (at + 1) - 1 : raw[m] \notin B
      BY <1>1, <1>2, <1>3
    <3> HIDE DEF B
    <3> QED
      BY <1>1, <3>1, FirstUnique
  <2> QED
    BY <1>1, <2>1 DEF BodyOf
<1>4. ASSUME ~(at < e) PROVE BodyOf(raw) = SubSeq(s, e + 1, at)
  <2> DEFINE B == {"blank"}
  <2>1. 1 \in 1 .. Len(raw) + 1 /\ e \in 1 .. Len(raw) + 1 /\ e <= Len(raw) /\ raw[e] \in B
        /\ \A m \in 1 .. e - 1 : raw[m] \notin B
    BY <1>1, <1>2, <1>4
  <2>2. First(raw, 1, B) = e
    <3> HIDE DEF B
    <3> QED
      BY <1>1, <2>1, FirstUnique
  <2>3. SubSeq(SubSeq(s, 1, at), e + 1, at) = SubSeq(s, e + 1, at)
    BY <1>1, <1>2, <1>4
  <2> QED
    BY <1>1, <2>2, <2>3 DEF BodyOf
<1> QED
  BY <1>1, <1>2, <1>3, <1>4 DEF e, s

(* What mnet_call() returns is the body the server sent, from its first    *)
(* byte on and no longer than MNET_MAX_BODY_SIZE; all of it when           *)
(* everything was read and is no longer than that.                         *)
THEOREM BodyReturnedHolds == Spec => []BodyReturned
<1>1. ASSUME CInv, pc = "return", result # Null
      PROVE  /\ IsPrefix(result, Meant) /\ Len(result) <= MaxBody
             /\ at = Len(answer.tokens) /\ Len(Meant) <= MaxBody => result = Meant
  <2> DEFINE s == answer.tokens
             e == First(s, 1, {"blank"})
             b == BodyOf(raw)
             m == Meant
  <2>1. /\ s \in Seq(STRING) /\ e \in 1 .. Len(s) + 1
        /\ b = IF at < e THEN <<>> ELSE SubSeq(s, e + 1, at)
        /\ m = SubSeq(s, e + 1, Len(s))
    BY <1>1, BodyPart, MeantIs DEF CInv
  <2>2. at \in 0 .. Len(s) /\ Len(raw) = at
    BY <1>1, RawSeq DEF CInv, ReadInv
  <2>3. result = SubSeq(b, 1, IF Len(b) > MaxBody THEN MaxBody ELSE Len(b))
    BY <1>1 DEF CInv, ResultInv, Bounded
  <2> HIDE DEF s, e, b, m
  <2>4. m \in Seq(STRING) /\ Len(m) = Len(s) - (IF e = Len(s) + 1 THEN Len(s) ELSE e)
        /\ \A k \in 1 .. Len(m) : m[k] = s[e + k]
    <3>1. CASE e = Len(s) + 1
      <4>1. SubSeq(s, Len(s) + 2, Len(s)) = <<>>
        BY <2>1
      <4> QED
        BY <2>1, <3>1, <4>1
    <3>2. CASE e <= Len(s)
      <4>1. e \in Nat /\ Len(s) \in e .. Len(s) /\ e # Len(s) + 1
        BY <2>1, <3>2
      <4>2. /\ m \in Seq(STRING) /\ Len(m) = Len(s) - e
            /\ \A k \in 1 .. Len(s) - e : m[k] = s[e + k]
        BY <2>1, <4>1, PartOf
      <4> QED
        BY <4>1, <4>2
    <3>3. e = Len(s) + 1 \/ e <= Len(s)
      BY <2>1
    <3> QED
      BY <3>1, <3>2, <3>3
  <2>5. b \in Seq(STRING) /\ Len(b) = (IF at < e THEN 0 ELSE at - e)
        /\ \A k \in 1 .. Len(b) : b[k] = s[e + k]
    <3>1. CASE at < e
      BY <2>1, <3>1
    <3>2. CASE ~(at < e)
      BY <2>1, <2>2, <3>2, PartOf
    <3> QED
      BY <3>1, <3>2
  <2>6. Len(b) <= Len(m) /\ \A k \in 1 .. Len(b) : b[k] = m[k]
    <3>1. s \in Seq(STRING) /\ e \in 1 .. Len(s) + 1
      BY <2>1
    <3>2. Len(b) \in Nat /\ Len(m) \in Nat /\ Len(s) \in Nat /\ at \in Nat /\ e \in Nat
      BY <3>1, <2>2, <2>4, <2>5
    <3>3. CASE at < e
      BY <3>2, <3>3, <2>5
    <3>4. CASE ~(at < e)
      <4>1. e # Len(s) + 1 /\ at <= Len(s)
        BY <3>1, <3>2, <3>4, <2>2
      <4>2. Len(b) = at - e /\ Len(m) = Len(s) - e
        BY <4>1, <3>4, <2>4, <2>5
      <4>3. Len(b) <= Len(m)
        BY <4>1, <4>2, <3>2
      <4>4. \A k \in 1 .. Len(b) : k \in 1 .. Len(m)
        BY <4>3, <3>2
      <4> QED
        BY <4>3, <4>4, <2>4, <2>5, Zenon
    <3> QED
      BY <3>3, <3>4
  <2>7. /\ result \in Seq(STRING)
        /\ Len(result) = (IF Len(b) > MaxBody THEN MaxBody ELSE Len(b))
        /\ \A k \in 1 .. Len(result) : result[k] = b[k]
    BY <2>3, <2>5, SizesAssumption
  <2>8. IsPrefix(result, m)
    <3>1. Len(result) <= Len(m) /\ \A k \in 1 .. Len(result) : result[k] = m[k]
      BY <2>5, <2>6, <2>7, <2>4, SizesAssumption
    <3>2. SubSeq(result, 1, Len(result)) = SubSeq(m, 1, Len(result))
      BY <3>1, <2>4, <2>7
    <3> QED
      BY <3>1, <3>2 DEF IsPrefix
  <2>9. ASSUME at = Len(s), Len(m) <= MaxBody PROVE result = m
    <3>1. b = m
      BY <2>1, <2>9
    <3>2. result = SubSeq(m, 1, Len(m))
      BY <2>3, <2>4, <2>9, <3>1, SizesAssumption
    <3> QED
      BY <2>4, <3>2
  <2> QED
    BY <2>7, <2>8, <2>9, <2>5, SizesAssumption DEF s, m
<1>2. CInv => BodyReturned
  BY <1>1 DEF CInv, ResultInv, BodyReturned
<1> QED
  BY CAlways, <1>2, PTL

----------------------------------------------------------------------------
(* The URL.                                                                *)

LEMMA PortNumbers ==
  /\ DOMAIN Ports = {"0", "80", "81", "65536"}
  /\ Ports["0"] = 0 /\ Ports["80"] = 80 /\ Ports["81"] = 81 /\ Ports["65536"] = 65536
  BY DEF Ports

(* What mnet_url_parse() finds in a URL of plain HTTP with a path that     *)
(* fits.                                                                   *)
LEMMA ParsedRight ==
  ASSUME NEW u \in Urls, Len(u.host) < HostSize, Len(u.path) < PathSize
  PROVE  /\ Parse(u.text).host = u.host /\ Parse(u.text).path = u.path
         /\ u.port # 0 /\ u.text[1] # "https://" => Parse(u.text).port = u.port
<1>1. PICK i \in 0 .. Len(u.text), j \in 0 .. Len(u.text) :
        Spelt(u, SubSeq(u.text, 1, i), SubSeq(u.text, i + Len(u.host) + 1, j))
  BY UrlsAssumption
<1> DEFINE t == u.text
           h == u.host
           q == u.path
           c == SubSeq(u.text, 1, i)
           d == SubSeq(u.text, i + Len(u.host) + 1, j)
<1>2. t \in Seq(STRING) /\ h \in Seq(STRING) /\ q \in Seq(STRING) /\ Len(h) \in Nat
      /\ i \in Nat /\ j \in Nat
  BY UrlsAssumption
<1>3. c \in Seq(STRING) /\ d \in Seq(STRING)
  <2> HIDE DEF t, h
  <2>1. c \in Seq(STRING)
    BY <1>2 DEF t
  <2>2. d \in Seq(STRING)
    BY <1>2 DEF t, h
  <2> QED
    BY <2>1, <2>2
<1>4. /\ t = c \o h \o d \o q
      /\ c # <<>> => Len(c) = 1 /\ c[1] \in Schemes
      /\ \A k \in 1 .. Len(h) : h[k] \notin Schemes \union Ends \union {":"}
      /\ d # <<>> => d[1] = ":"
      /\ \A k \in 1 .. Len(d) : d[k] \notin Ends
      /\ q # <<>> => q[1] \in Ends
      /\ u.port = IF Len(d) = 2 /\ d[2] \in {"80", "81"} THEN Ports[d[2]]
                  ELSE IF Len(d) > 1 THEN 0
                  ELSE IF c = <<"https://">> THEN 443 ELSE 80
  BY <1>1 DEF Spelt
<1> HIDE DEF t, h, q, c, d
<1>5. /\ Len(t) = Len(c) + Len(h) + Len(d) + Len(q)
      /\ \A k \in 1 .. Len(c) : t[k] = c[k]
      /\ \A k \in 1 .. Len(h) : t[Len(c) + k] = h[k]
      /\ \A k \in 1 .. Len(d) : t[Len(c) + Len(h) + k] = d[k]
      /\ \A k \in 1 .. Len(q) : t[Len(c) + Len(h) + Len(d) + k] = q[k]
  <2>1. t = c \o h \o d \o q
    BY <1>4
  <2> QED
    BY <1>2, <1>3, <2>1, Joined, SMTT(30)
<1> DEFINE start == Len(c) + 1
           colon == Len(c) + Len(h) + 1
           path  == Len(c) + Len(h) + Len(d) + 1
<1>6. /\ Len(c) \in Nat /\ Len(d) \in Nat /\ Len(h) \in Nat /\ Len(q) \in Nat
      /\ Len(t) \in Nat /\ start \in 1 .. Len(t) + 1 /\ colon \in start .. Len(t) + 1
      /\ path \in colon .. Len(t) + 1
  <2>2. Len(c) \in Nat /\ Len(d) \in Nat /\ Len(h) \in Nat /\ Len(q) \in Nat
    BY <1>2, <1>3
  <2>3. Len(t) = Len(c) + Len(h) + Len(d) + Len(q)
    BY <1>5
  <2> QED
    BY <2>2, <2>3, SMTT(30)
<1>7. path <= Len(t) => t[path] \in Ends
  <2> SUFFICES ASSUME path <= Len(t) PROVE t[path] \in Ends
    OBVIOUS
  <2>1. 1 \in 1 .. Len(q) /\ q # <<>>
    BY <1>2, <1>5, <1>6, SMTT(30)
  <2>2. q[1] \in Ends
    BY <1>4, <2>1
  <2> QED
    BY <1>5, <2>1, <2>2
<1>8. Len(c) = 0 \/ (Len(c) = 1 /\ t[1] \in Schemes)
  <2>1. CASE c = <<>>
    BY <2>1
  <2>2. CASE c # <<>>
    <3>1. Len(c) = 1 /\ c[1] \in Schemes /\ 1 \in 1 .. Len(c)
      BY <1>4, <2>2
    <3> QED
      BY <1>5, <3>1
  <2> QED
    BY <2>1, <2>2
<1>9. IF Len(d) = 0 THEN (colon <= Len(t) => t[colon] \in Ends) /\ path = colon
      ELSE colon <= Len(t) /\ t[colon] = ":"
  <2>1. CASE Len(d) = 0
    BY <1>6, <1>7, <2>1
  <2>2. CASE Len(d) # 0
    <3>1. d[1] = ":" /\ 1 \in 1 .. Len(d)
      BY <1>3, <1>4, <1>6, <2>2
    <3>2. t[Len(c) + Len(h) + 1] = d[1]
      BY <1>5, <3>1
    <3>3. colon <= Len(t)
      BY <1>5, <1>6, <2>2, SMTT(30)
    <3> QED
      BY <2>2, <3>1, <3>2, <3>3
  <2> QED
    BY <2>1, <2>2
<1>10. start = IF t # <<>> /\ t[1] \in Schemes THEN 2 ELSE 1
  <2>1. CASE Len(c) = 1
    BY <1>2, <1>6, <1>8, <2>1
  <2>2. CASE Len(c) = 0
    <3>1. t # <<>> => t[1] \notin Schemes
      <4> SUFFICES ASSUME t # <<>> PROVE t[1] \notin Schemes
        OBVIOUS
      <4>1. CASE Len(h) = 0
        <5>1. colon = 1 /\ colon <= Len(t)
          BY <1>2, <1>6, <2>2, <4>1
        <5> QED
          BY <1>9, <5>1 DEF Ends, Schemes
      <4>2. CASE Len(h) > 0
        BY <1>4, <1>5, <2>2, <4>2, <1>6, SMTT(30)
      <4> QED
        BY <4>1, <4>2, <1>6
    <3> QED
      BY <2>2, <3>1
  <2> QED
    BY <1>8, <2>1, <2>2
<1>11. First(t, start, Ends \union {":"}) = colon
  <2> DEFINE T == Ends \union {":"}
  <2>1. /\ colon <= Len(t) => t[colon] \in T
        /\ \A k \in start .. colon - 1 : t[k] \notin T
    <3>1. colon <= Len(t) => t[colon] \in T
      BY <1>9
    <3>2. ASSUME NEW k \in start .. colon - 1 PROVE t[k] \notin T
      <4>1. k - Len(c) \in 1 .. Len(h) /\ Len(c) + (k - Len(c)) = k
        BY <1>6, <3>2
      <4>2. t[k] = h[k - Len(c)]
        BY <1>5, <4>1
      <4> QED
        BY <1>4, <4>1, <4>2
    <3> QED
      BY <3>1, <3>2
  <2> HIDE DEF T, start, colon
  <2>2. start \in 1 .. Len(t) + 1 /\ colon \in start .. Len(t) + 1
    BY <1>6
  <2>3. First(t, start, T) = colon
    BY <1>2, <2>1, <2>2, FirstUnique
  <2> QED
    BY <2>3 DEF T
<1>12. path = IF colon <= Len(t) /\ t[colon] = ":" THEN First(t, colon + 1, Ends) ELSE colon
  <2>1. CASE Len(d) = 0
    BY <1>6, <1>9, <2>1 DEF Ends
  <2>2. CASE Len(d) # 0
    <3>1. \A k \in colon + 1 .. path - 1 : t[k] \notin Ends
      <4> TAKE k \in colon + 1 .. path - 1
      <4>1. k - (Len(c) + Len(h)) \in 1 .. Len(d) /\ Len(c) + Len(h) + (k - (Len(c) + Len(h))) = k
        BY <1>6, SMTT(30)
      <4>2. t[k] = d[k - (Len(c) + Len(h))]
        BY <1>5, <4>1
      <4> QED
        BY <1>4, <4>1, <4>2
    <3>2. colon + 1 \in 1 .. Len(t) + 1 /\ path \in colon + 1 .. Len(t) + 1
      BY <1>6, <2>2, SMTT(30)
    <3> HIDE DEF colon, path
    <3>3. First(t, colon + 1, Ends) = path
      BY <1>2, <1>7, <3>1, <3>2, FirstUnique
    <3> QED
      BY <1>6, <1>9, <2>2, <3>3
  <2> QED
    BY <2>1, <2>2
<1>13. SubSeq(t, start, colon - 1) = h /\ SubSeq(t, path, Len(t)) = q
  <2>1. SubSeq(t, start, colon - 1) = h
    <3> DEFINE i1 == Len(c)
               j1 == colon - 1
    <3>1. i1 \in Nat /\ j1 \in i1 .. Len(t) /\ j1 - i1 = Len(h) /\ start = i1 + 1
      BY <1>6
    <3>2. \A k \in 1 .. Len(h) : t[i1 + k] = h[k]
      BY <1>5
    <3> HIDE DEF i1, j1, start
    <3> QED
      BY <1>2, <3>1, <3>2, SamePart DEF j1
  <2>2. SubSeq(t, path, Len(t)) = q
    <3> DEFINE i2 == Len(c) + Len(h) + Len(d)
    <3>1. i2 \in Nat /\ Len(t) \in i2 .. Len(t) /\ Len(t) - i2 = Len(q) /\ path = i2 + 1
      BY <1>5, <1>6
    <3>2. \A k \in 1 .. Len(q) : t[i2 + k] = q[k]
      BY <1>5
    <3> HIDE DEF i2, path
    <3> QED
      BY <1>2, <3>1, <3>2, SamePart
  <2> QED
    BY <2>1, <2>2
<1>14. Cut(h, HostSize) = h /\ Cut(q, PathSize) = q
  <2>1. Len(h) < HostSize /\ Len(q) < PathSize
    BY DEF h, q
  <2>2. SubSeq(h, 1, Len(h)) = h /\ SubSeq(q, 1, Len(q)) = q
    BY <1>2
  <2>3. ~(Len(h) >= HostSize) /\ ~(Len(q) >= PathSize)
    <3>1. PICK x \in Nat, y \in Nat : x = Len(h) /\ y = Len(q)
      BY <1>6
    <3>2. x < HostSize /\ y < PathSize
      BY <2>1, <3>1
    <3>3. ~(x >= HostSize) /\ ~(y >= PathSize)
      BY <3>2, SizesAssumption
    <3> QED
      BY <3>1, <3>3
  <2> QED
    BY <2>2, <2>3 DEF Cut
<1> DEFINE Given == IF path > colon /\ PortGiven(t, colon + 1, path)
                    THEN Ports[t[colon + 1]] ELSE 80
<1>15. ASSUME u.port # 0, t[1] # "https://"
       PROVE  u.port = IF Len(d) = 2 /\ d[2] \in {"80", "81"} THEN Ports[d[2]] ELSE 80
  <2>1. c # <<"https://">>
    <3> SUFFICES ASSUME c = <<"https://">> PROVE FALSE
      OBVIOUS
    <3>1. Len(c) = 1 /\ c[1] = "https://" /\ 1 \in 1 .. Len(c)
      OBVIOUS
    <3> QED
      BY <1>5, <1>15, <3>1
  <2> QED
    BY <1>4, <1>15, <2>1
<1>16. ASSUME u.port # 0, t[1] # "https://" PROVE u.port = Given
  <2>1. CASE Len(d) = 2
    <3>1. t[colon + 1] = d[2] /\ path = (colon + 1) + 1 /\ path > colon
      BY <1>5, <1>6, <2>1
    <3>2. PortGiven(t, colon + 1, path) <=> d[2] \in {"80", "81"}
      BY <3>1, PortNumbers DEF PortGiven
    <3> HIDE DEF path, colon
    <3> QED
      BY <1>15, <1>16, <2>1, <3>1, <3>2
  <2>2. CASE Len(d) # 2
    <3>1. ~(path = (colon + 1) + 1)
      <4>1. Len(c) \in Nat /\ Len(h) \in Nat /\ Len(d) \in Nat
        BY <1>6
      <4>2. \A x, y, z \in Nat : z # 2 => ~(x + y + z + 1 = ((x + y + 1) + 1) + 1)
        OBVIOUS
      <4> QED
        BY <4>1, <4>2, <2>2, Zenon
    <3> HIDE DEF path, colon
    <3> QED
      BY <1>15, <1>16, <2>2, <3>1 DEF PortGiven
  <2> QED
    BY <2>1, <2>2
<1> HIDE DEF start, colon, path
<1>17. Parse(t) = [host |-> Cut(SubSeq(t, start, colon - 1), HostSize),
                   port |-> Given, path |-> Cut(SubSeq(t, path, Len(t)), PathSize)]
  BY <1>10, <1>11, <1>12 DEF Parse
<1> HIDE DEF Given
<1>18. Parse(t).host = h /\ Parse(t).path = q /\ Parse(t).port = Given
  <2>1. Parse(t) = [host |-> h, port |-> Given, path |-> q]
    BY <1>13, <1>14, <1>17
  <2> QED
    BY <2>1
<1> QED
  BY <1>16, <1>18 DEF t, h, q

(* mnet_url_parse() finds the host of every URL that fits the buffers, its *)
(* path if it has one, and its port if it is one of plain HTTP and names a *)
(* port or none, so that the request goes there and asks for that.         *)
THEOREM AskedRightHolds == Spec => []AskedRight
<1>1. CInv => AskedRight
  BY ParsedRight DEF CInv, ResultInv, AskedRight, FitsBuffers
<1> QED
  BY CAlways, <1>1, PTL
=============================================================================
