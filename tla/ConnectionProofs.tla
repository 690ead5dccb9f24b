-------------------------- MODULE ConnectionProofs --------------------------
(***************************************************************************)
(* For every set of clients, every buffer size, limit and timeout, every   *)
(* segmentation and whatever fails: how long one request can hold the      *)
(* worker that reads it, and what the server makes of the bytes it reads.  *)
(*                                                                         *)
(* TimeInv says what the two deadlines leave: while the headers are read   *)
(* the time gone and the time left add up to one timeout, and a body       *)
(* starts with at most that much gone and one more timeout to go.          *)
(*                                                                         *)
(* The rest rests on one picture.  T is all the client will ever send;     *)
(* what is received, on the wire and not yet sent are three pieces of it,  *)
(* one behind the other (NetInv), the buffer is a piece of what is         *)
(* received, with every answered request behind it (BufInv), and so is the *)
(* body (BodyInv).  What the code finds in the buffer follows from where   *)
(* that piece begins: a client that waits has sent nothing behind the      *)
(* request at hand (LogInv), so a request that can be told from the next   *)
(* is read from its first byte.                                            *)
(***************************************************************************)
EXTENDS Connection, ListLemmas, FiniteSetTheorems

TimeInv ==
  /\ ka \in BOOLEAN /\ left \in Nat /\ elapsed \in Nat
  /\ pc = "read" => elapsed + left = Window
  /\ pc = "parse" => elapsed <= Window
  /\ pc = "body" => elapsed + left <= 2 * Window
  /\ pc = "parsed" => elapsed <= 2 * Window

(* A timeout is a number.                                                  *)
LEMMA WindowNat == Window \in Nat
  BY BoundsAssumption DEF Window

(* Before the first request nothing is being read.                         *)
LEMMA TimeInit == Init => TimeInv
<1> SUFFICES ASSUME Init PROVE TimeInv
  OBVIOUS
<1>1. pc = "top" /\ ka = FALSE /\ left = 0 /\ elapsed = 0
  BY Zenon DEF Init
<1> QED
  BY <1>1 DEF TimeInv

(* Every step keeps it.                                                    *)
LEMMA TimeStep == TimeInv /\ [Next]_vars => TimeInv'
<1> SUFFICES ASSUME TimeInv, [Next]_vars PROVE TimeInv'
  OBVIOUS
<1> USE WindowNat
<1>1. CASE Top
  BY <1>1, BoundsAssumption DEF Top, TimeInv, Window
<1>2. CASE Recv
  <2>1. pc = "read" /\ UNCHANGED <<ka, left, elapsed>> /\ pc' \in {"parse", "read"}
    BY <1>2 DEF Recv
  <2> QED
    BY <2>1 DEF TimeInv, Window
<1>3. CASE HeaderTooLarge \/ GiveUp \/ Reject \/ BodyGiveUp \/ NoBodyMemory
           \/ RejectHeaders
  <2>1. pc' = "closed" /\ UNCHANGED <<ka, left, elapsed>>
    BY <1>3 DEF HeaderTooLarge, GiveUp, Reject, BodyGiveUp, NoBodyMemory, RejectHeaders
  <2> QED
    BY <2>1 DEF TimeInv
<1>4. CASE ParseOk
  <2>1. /\ pc = "parse" /\ UNCHANGED <<ka, elapsed>>
        /\ \/ pc' = "parsed" /\ left' = left
           \/ pc' = "body" /\ left' = Window
    BY <1>4 DEF ParseOk, Window
  <2>2. Window' = Window
    BY <2>1 DEF Window
  <2> QED
    BY <2>1, <2>2 DEF TimeInv
<1>5. CASE BodyRecv
  <2>1. pc = "body" /\ UNCHANGED <<ka, left, elapsed>> /\ pc' \in {"parsed", "body"}
    BY <1>5 DEF BodyRecv
  <2> QED
    BY <2>1 DEF TimeInv, Window
<1>6. CASE ParseHeaders
  <2>1. pc' = "respond" /\ UNCHANGED <<left, elapsed>>
    BY <1>6 DEF ParseHeaders
  <2>2. ka' \in BOOLEAN
    BY <1>6, Zenon DEF ParseHeaders, KeepsAlive
  <2> QED
    BY <2>1, <2>2 DEF TimeInv
<1>7. CASE Respond
  <2>1. pc' \in {"top", "closed"} /\ UNCHANGED <<ka, left, elapsed>>
    BY <1>7 DEF Respond
  <2> QED
    BY <2>1 DEF TimeInv
<1>8. CASE ClientSends \/ ClientCloses \/ UNCHANGED vars
  <2>1. UNCHANGED <<pc, ka, left, elapsed>>
    BY <1>8 DEF ClientSends, ClientCloses, vars
  <2> QED
    BY <2>1 DEF TimeInv, Window
<1>9. CASE Tick
  <2>1. /\ pc \in {"read", "body"} /\ left > 0 /\ UNCHANGED <<pc, ka>>
        /\ left' = left - 1 /\ elapsed' = elapsed + 1
    BY <1>9 DEF Tick, Polling
  <2>2. Window' = Window
    BY <2>1 DEF Window
  <2> QED
    BY <2>1, <2>2 DEF TimeInv
<1> QED
  BY <1>1, <1>2, <1>3, <1>4, <1>5, <1>6, <1>7, <1>8, <1>9 DEF Next, Server

(* However slowly a client sends, a request holds its worker for at most   *)
(* one timeout for the headers and one for the body: the deadlines of      *)
(* mnet_handle_client() and read_full_body() are absolute.                 *)
THEOREM RequestTimeBoundedHolds == Spec => []RequestTimeBounded
<1>1. TimeInv => RequestTimeBounded
  BY WindowNat DEF TimeInv, RequestTimeBounded
<1> QED
  BY TimeInit, TimeStep, <1>1, PTL DEF Spec

----------------------------------------------------------------------------
(* Where the server is in what the client sends.  T is all of it, Off the  *)
(* place of a request in it.                                               *)

Full(s)   == Stream(s)[Len(s)]
Off(s, i) == Len(Stream(s)[i - 1])
T         == Full(script)
Received  == Len(T) - (Len(wire) + Len(toSend))

NetInv ==
  /\ script \in Scripts /\ eof \in BOOLEAN
  /\ IsList(wire) /\ IsList(toSend) /\ Received \in Nat
  /\ \A k \in 1 .. Len(wire) : wire[k] = T[Received + k]
  /\ \A k \in 1 .. Len(toSend) : toSend[k] = T[Received + Len(wire) + k]

(* What is known at each place of mnet_handle_client().                    *)
InHand == {"body", "parsed", "respond"}

ControlInv ==
  /\ pc \in {"top", "read", "parse", "closed"} \union InHand /\ ka \in BOOLEAN
  /\ IsList(buf) /\ IsList(body)
  /\ Len(buf) <= BufferSize /\ Len(body) <= MaxBody
  /\ pc = "top" => buf = <<>> \/ Has(buf, "E")
  /\ pc = "read" => ~Complete(buf)
  /\ pc \in {"parse"} \union InHand => Complete(buf)
  /\ pc \in InHand => Verdicts(buf) = {0}
  /\ pc = "body" => Len(body) < ContentLength(buf)
  /\ pc \in {"parsed", "respond"} => Len(body) = ContentLength(buf)

Neat(r) == Framed(r) /\ Unblank(r)

(* Request i is behind place a of the stream.                              *)
Past(i, a) ==
  /\ Off(script, i) + 1 <= a
  /\ Separate(i) => Off(script, i) + Size(script[i]) <= a

(* A request that can be told from the next is read from its beginning.    *)
Fresh(a) == a + 1 <= Len(T) => T[a + 1].at = 1 \/ ~Neat(script[T[a + 1].i])

(* The buffer holds what follows place a.                                  *)
Holds(a) ==
  /\ a + Len(buf) <= Received
  /\ \A k \in 1 .. Len(buf) : buf[k] = T[a + k]
  /\ pc = "read" \/ (pc = "top" /\ buf = <<>>) => a + Len(buf) = Received
  /\ Patient /\ pc = "top" /\ buf # <<>> => buf[1].at # 1
  /\ Patient /\ pc = "parse" /\ buf[1].at = 1 => a + Len(buf) = Received
  /\ pc # "closed" => \A n \in 1 .. Len(log) : Past(log[n][1], a)
  /\ pc # "closed" /\ Patient => Fresh(a)

BufInv == \E a \in 0 .. Received : Holds(a)

Climbing ==
  \A n \in 1 .. Len(log) : /\ log[n][2] = 200 /\ n <= log[n][1]
                           /\ \A m \in 1 .. n - 1 : log[m][1] < log[n][1]

LogInv ==
  /\ IsList(log)
  /\ \A n \in 1 .. Len(log) :
       log[n] \in (1 .. Len(script)) \X {200, 400, 405, 413, 431, 501}
  /\ IF pc = "closed" THEN InOrder ELSE Climbing
  /\ Patient => \A p \in 1 .. Received + Len(wire) : T[p].i <= Len(log) + 1

(* The header block of request r ends where its client ended it.           *)
Clear(r) == r.sep = "E" \/ Unblank(r)

(* The body of the request at hand, of a client that waits.                *)
BodyFrom(i) == Off(script, i) + script[i].pad + 2

BodyInv ==
  /\ \A k \in 1 .. Len(body) : \E p \in 1 .. Len(T) : body[k] = T[p]
  /\ LET i == buf[1].i
     IN Patient /\ pc \in InHand /\ Framed(script[i]) /\ Clear(script[i]) =>
          /\ \A k \in 1 .. Len(body) : body[k] = T[BodyFrom(i) + k]
          /\ BodyFrom(i) + Len(body) <= Received
          /\ pc = "body" => BodyFrom(i) + Len(body) = Received

ServedInv ==
  Calm => \A n \in 1 .. Len(log) :
            Good(script[log[n][1]]) =>
              \/ log[n][2] = 200
              \/ pc = "closed" /\ log[n][2] = 413 /\ (left = 0 \/ eof)

(* The stream of a client, request after request.                          *)
LEMMA StreamIs ==
  ASSUME NEW s
  PROVE  LET U == Stream(s)
         IN U[0] = <<>> /\ \A n \in Nat \ {0} : U[n] = U[n - 1] \o Message(s[n], n)
<1> DEFINE U == Stream(s)
<1>1. NatInductiveDefHypothesis(U, <<>>, LAMBDA v, n : v \o Message(s[n], n))
  BY Zenon DEF NatInductiveDefHypothesis, Stream
<1>2. NatInductiveDefConclusion(U, <<>>, LAMBDA v, n : v \o Message(s[n], n))
  BY <1>1, NatInductiveDef, Zenon
<1>3. \A n \in Nat : U[n] = IF n = 0 THEN <<>> ELSE U[n - 1] \o Message(s[n], n)
  BY <1>2, Zenon DEF NatInductiveDefConclusion
<1> HIDE DEF U
<1>4. U[0] = <<>>
  BY <1>3
<1>5. \A n \in Nat \ {0} : U[n] = U[n - 1] \o Message(s[n], n)
  BY <1>3
<1> QED
  BY <1>4, <1>5 DEF U

LEMMA RequestIs ==
  ASSUME NEW s \in Scripts, NEW i \in 1 .. Len(s)
  PROVE  /\ s[i] \in Request /\ s[i].cl \in Int /\ s[i].pad \in Nat /\ Len(s[i].body) \in Nat
         /\ s[i].sep \in {"E", "L"} /\ s[i].body \in Seq({"b", "E", "L"})
         /\ Size(s[i]) = s[i].pad + 2 + Len(s[i].body) /\ Size(s[i]) \in Nat /\ Size(s[i]) >= 2
<1>1. s \in Seq(Request)
  BY ScriptsAssumption
<1>2. s[i] \in Request
  BY <1>1
<1>3. s[i].cl \in Int /\ s[i].pad \in Nat /\ s[i].sep \in {"E", "L"}
  BY <1>2 DEF Request
<1>4. s[i].body \in Seq({"b", "E", "L"})
  BY <1>2, Zenon DEF Request
<1>5. Len(s[i].body) \in Nat
  BY <1>4
<1> QED
  BY <1>2, <1>3, <1>4, <1>5 DEF Size

LEMMA MessageIs ==
  ASSUME NEW s \in Scripts, NEW i \in 1 .. Len(s)
  PROVE  /\ IsList(Message(s[i], i)) /\ Len(Message(s[i], i)) = Size(s[i])
         /\ \A at \in 1 .. Size(s[i]) : Message(s[i], i)[at] = Tok(Kind(s[i], at), i, at)
<1>1. Size(s[i]) \in Nat
  BY RequestIs
<1> QED
  BY <1>1 DEF Message, IsList

(* The first n requests lie one behind the other.                          *)
Laid(s, U, n) ==
  /\ IsList(U[n])
  /\ \A i \in 1 .. n :
       /\ Len(U[i - 1]) \in Nat /\ Len(U[i - 1]) + Size(s[i]) <= Len(U[n])
       /\ \A at \in 1 .. Size(s[i]) : U[n][Len(U[i - 1]) + at] = Tok(Kind(s[i], at), i, at)
  /\ \A p \in 1 .. Len(U[n]) :
       \E i \in 1 .. n : \E at \in 1 .. Size(s[i]) : p = Len(U[i - 1]) + at

LEMMA OneMore ==
  ASSUME NEW s \in Scripts, NEW U, NEW n \in 1 .. Len(s), Laid(s, U, n - 1),
         U[n] = U[n - 1] \o Message(s[n], n)
  PROVE  Laid(s, U, n)
<1> DEFINE a == U[n - 1]
           b == Message(s[n], n)
           z == Size(s[n])
<1>1. IsList(a) /\ Len(a) \in Nat
  BY DEF Laid, IsList
<1>2. IsList(b) /\ Len(b) = z /\ \A at \in 1 .. z : b[at] = Tok(Kind(s[n], at), n, at)
  BY MessageIs
<1>3. z \in Nat
  BY RequestIs
<1>4. s \in Seq(Request) /\ Len(s) \in Nat /\ n \in Nat /\ n >= 1
  BY ScriptsAssumption
<1> DEFINE u == U[n]
<1>5. u = a \o b
  OBVIOUS
<1> HIDE DEF a, b, z, u
<1>6. /\ IsList(u) /\ Len(u) = Len(a) + z
      /\ \A x \in 1 .. Len(a) : u[x] = a[x]
      /\ \A x \in 1 .. z : u[Len(a) + x] = b[x]
  <2>1. IsList(b) /\ Len(b) = z
    BY <1>2
  <2>2. /\ IsList(u) /\ Len(u) = Len(a) + Len(b)
        /\ \A x \in 1 .. Len(a) : u[x] = a[x]
        /\ \A x \in 1 .. Len(b) : u[Len(a) + x] = b[x]
    <3>1. IsList(a) /\ IsList(b) /\ u = a \o b
      BY <1>1, <1>5, <2>1
    <3>2. IsList(u) /\ Len(u) = Len(a) + Len(b)
      BY <3>1, Concatenated
    <3>3. \A x \in 1 .. Len(a) : u[x] = a[x]
      BY <3>1, Concatenated
    <3>4. \A x \in 1 .. Len(b) : u[Len(a) + x] = b[x]
      BY <3>1, Concatenated
    <3> QED
      BY <3>2, <3>3, <3>4
  <2> QED
    BY <2>1, <2>2
<1>7. ASSUME NEW i \in 1 .. n
      PROVE  /\ Len(U[i - 1]) \in Nat /\ Len(U[i - 1]) + Size(s[i]) <= Len(u)
             /\ \A at \in 1 .. Size(s[i]) : u[Len(U[i - 1]) + at] = Tok(Kind(s[i], at), i, at)
  <2>1. CASE i = n
    BY <1>1, <1>2, <1>3, <1>6, <2>1 DEF a, z
  <2>2. CASE i # n
    <3>1. i \in 1 .. n - 1 /\ i \in 1 .. Len(s)
      BY <1>4, <2>2
    <3>2. Len(U[i - 1]) \in Nat /\ Len(U[i - 1]) + Size(s[i]) <= Len(a)
          /\ \A at \in 1 .. Size(s[i]) : a[Len(U[i - 1]) + at] = Tok(Kind(s[i], at), i, at)
      BY <3>1 DEF Laid, a
    <3>3. Size(s[i]) \in Nat
      BY <3>1, RequestIs
    <3>4. \A at \in 1 .. Size(s[i]) : Len(U[i - 1]) + at \in 1 .. Len(a)
      BY <1>1, <3>2, <3>3
    <3>5. Len(U[i - 1]) + Size(s[i]) <= Len(u)
      BY <1>1, <1>3, <1>6, <3>2, <3>3
    <3>6. \A at \in 1 .. Size(s[i]) : u[Len(U[i - 1]) + at] = Tok(Kind(s[i], at), i, at)
      BY <1>6, <3>2, <3>4
    <3> QED
      BY <3>2, <3>5, <3>6
  <2> QED
    BY <2>1, <2>2
<1>8. ASSUME NEW p \in 1 .. Len(u)
      PROVE  \E i \in 1 .. n : \E at \in 1 .. Size(s[i]) : p = Len(U[i - 1]) + at
  <2>1. CASE p <= Len(a)
    <3>1. p \in 1 .. Len(a)
      BY <1>1, <1>3, <1>6, <2>1
    <3>2. PICK i \in 1 .. n - 1 : \E at \in 1 .. Size(s[i]) : p = Len(U[i - 1]) + at
      BY <3>1 DEF Laid, a
    <3>3. i \in 1 .. n
      BY <1>4
    <3> QED
      BY <3>2, <3>3
  <2>2. CASE ~(p <= Len(a))
    <3>1. p - Len(a) \in 1 .. z /\ p = Len(a) + (p - Len(a)) /\ n \in 1 .. n
      BY <1>1, <1>3, <1>4, <1>6, <2>2
    <3> QED
      BY <3>1 DEF a, z
  <2> QED
    BY <2>1, <2>2
<1> QED
  BY <1>6, <1>7, <1>8 DEF Laid, u

LEMMA AllLaid ==
  ASSUME NEW s \in Scripts, NEW n \in 0 .. Len(s)
  PROVE  Laid(s, Stream(s), n)
<1> DEFINE U == Stream(s)
           C == {m \in 0 .. Len(s) : ~Laid(s, U, m)}
<1>0. s \in Seq(Request) /\ Len(s) \in Nat
  BY ScriptsAssumption
<1>1. U[0] = <<>> /\ \A m \in Nat \ {0} : U[m] = U[m - 1] \o Message(s[m], m)
  BY StreamIs
<1> HIDE DEF U
<1> SUFFICES ASSUME C # {} PROVE FALSE
  BY DEF U
<1>2. PICK x \in C : \A y \in C : x <= y
  <2>1. C \subseteq Nat
    OBVIOUS
  <2> QED
    BY <2>1, Least
<1>3. x # 0
  <2>1. Laid(s, U, 0)
    <3>1. IsList(U[0]) /\ Len(U[0]) = 0
      BY <1>1 DEF IsList
    <3>2. 1 .. 0 = {} /\ 1 .. Len(U[0]) = {}
      BY <3>1
    <3> QED
      BY <3>1, <3>2 DEF Laid
  <2> QED
    BY <1>2, <2>1
<1>4. x - 1 \in 0 .. Len(s) /\ x - 1 \notin C /\ x \in 1 .. Len(s) /\ x \in Nat \ {0}
  BY <1>0, <1>2, <1>3
<1>5. Laid(s, U, x - 1)
  BY <1>4
<1>6. U[x] = U[x - 1] \o Message(s[x], x)
  BY <1>1, <1>4
<1> QED
  BY <1>2, <1>4, <1>5, <1>6, OneMore

(* The order of the places of requests.                                    *)
LEMMA Places ==
  ASSUME NEW s \in Scripts
  PROVE  /\ IsList(Full(s)) /\ Len(Full(s)) \in Nat /\ Len(s) \in Nat
         /\ \A i \in 1 .. Len(s) : /\ Off(s, i) \in Nat
                                   /\ Off(s, i) + Size(s[i]) <= Len(Full(s))
         /\ \A i, j \in 1 .. Len(s) : i < j => Off(s, i) + Size(s[i]) <= Off(s, j)
<1>0. s \in Seq(Request) /\ Len(s) \in Nat
  BY ScriptsAssumption
<1>1. Laid(s, Stream(s), Len(s))
  BY <1>0, AllLaid
<1>2. IsList(Full(s)) /\ Len(Full(s)) \in Nat
  BY <1>1 DEF Laid, Full, IsList
<1>3. \A i \in 1 .. Len(s) : Off(s, i) \in Nat /\ Off(s, i) + Size(s[i]) <= Len(Full(s))
  BY <1>1 DEF Laid, Full, Off
<1>4. ASSUME NEW i \in 1 .. Len(s), NEW j \in 1 .. Len(s), i < j
      PROVE  Off(s, i) + Size(s[i]) <= Off(s, j)
  <2>1. j - 1 \in 0 .. Len(s) /\ i \in 1 .. j - 1
    BY <1>0, <1>4
  <2>2. Laid(s, Stream(s), j - 1)
    BY <2>1, AllLaid
  <2> QED
    BY <2>1, <2>2 DEF Laid, Off
<1> QED
  BY <1>0, <1>2, <1>3, <1>4

(* Every token says where it is.                                           *)
LEMMA TokenAt ==
  ASSUME NEW s \in Scripts, NEW i \in 1 .. Len(s), NEW at \in 1 .. Size(s[i])
  PROVE  /\ Off(s, i) + at \in 1 .. Len(Full(s))
         /\ Full(s)[Off(s, i) + at] = Tok(Kind(s[i], at), i, at)
<1>0. s \in Seq(Request) /\ Len(s) \in Nat
  BY ScriptsAssumption
<1>1. Laid(s, Stream(s), Len(s))
  BY <1>0, AllLaid
<1>2. Size(s[i]) \in Nat
  BY RequestIs
<1>3. Full(s)[Off(s, i) + at] = Tok(Kind(s[i], at), i, at)
  BY <1>1 DEF Laid, Full, Off
<1>4. Off(s, i) \in Nat /\ Off(s, i) + Size(s[i]) <= Len(Full(s)) /\ Len(Full(s)) \in Nat
  BY Places
<1>5. Off(s, i) + at \in 1 .. Len(Full(s))
  BY <1>2, <1>4
<1> QED
  BY <1>3, <1>5

LEMMA TokenIs ==
  ASSUME NEW s \in Scripts, NEW p \in 1 .. Len(Full(s))
  PROVE  LET q == Full(s)[p]
         IN /\ q.i \in 1 .. Len(s) /\ q.at \in 1 .. Size(s[q.i]) /\ p = Off(s, q.i) + q.at
            /\ q = Tok(Kind(s[q.i], q.at), q.i, q.at) /\ q.t = Kind(s[q.i], q.at)
<1>0. s \in Seq(Request) /\ Len(s) \in Nat
  BY ScriptsAssumption
<1>1. Laid(s, Stream(s), Len(s))
  BY <1>0, AllLaid
<1>2. PICK i \in 1 .. Len(s) : \E at \in 1 .. Size(s[i]) : p = Off(s, i) + at
  BY <1>1 DEF Laid, Full, Off
<1>3. PICK at \in 1 .. Size(s[i]) : p = Off(s, i) + at
  BY <1>2
<1>4. Full(s)[p] = Tok(Kind(s[i], at), i, at)
  BY <1>3, TokenAt
<1>5. Full(s)[p].i = i /\ Full(s)[p].at = at /\ Full(s)[p].t = Kind(s[i], at)
  BY <1>4 DEF Tok
<1> QED
  BY <1>3, <1>4, <1>5

LEMMA Ordered ==
  ASSUME NEW s \in Scripts, NEW p \in 1 .. Len(Full(s)), NEW q \in 1 .. Len(Full(s)), p <= q
  PROVE  /\ Full(s)[p].i <= Full(s)[q].i
         /\ Full(s)[p].i = Full(s)[q].i => q - p = Full(s)[q].at - Full(s)[p].at
<1> DEFINE i == Full(s)[p].i
           j == Full(s)[q].i
           x == Full(s)[p].at
           y == Full(s)[q].at
<1>1. i \in 1 .. Len(s) /\ x \in 1 .. Size(s[i]) /\ p = Off(s, i) + x
  BY TokenIs
<1>2. j \in 1 .. Len(s) /\ y \in 1 .. Size(s[j]) /\ q = Off(s, j) + y
  BY TokenIs
<1> HIDE DEF i, j, x, y
<1>3. /\ Off(s, i) \in Nat /\ Off(s, j) \in Nat /\ Len(s) \in Nat
      /\ j < i => Off(s, j) + Size(s[j]) <= Off(s, i)
  BY <1>1, <1>2, Places
<1>4. Size(s[i]) \in Nat /\ Size(s[j]) \in Nat
  BY <1>1, <1>2, RequestIs
<1>5. i <= j
  BY <1>1, <1>2, <1>3, <1>4, SMTT(30)
<1>6. i = j => q - p = y - x
  BY <1>1, <1>2, <1>3, <1>4
<1> QED
  BY <1>5, <1>6 DEF i, j, x, y

(* What lies behind a request that is done with.                           *)
LEMMA Behind ==
  ASSUME script \in Scripts, NEW i \in 1 .. Len(script), NEW a \in Nat, Past(i, a),
         NEW p \in 1 .. Len(T), a < p
  PROVE  /\ i <= T[p].i
         /\ T[p].i = i => T[p].at > 1 /\ ~Separate(i)
<1>1. Size(script[i]) \in Nat /\ Size(script[i]) >= 2
  BY RequestIs
<1>2. /\ Off(script, i) + 1 \in 1 .. Len(T)
      /\ T[Off(script, i) + 1].i = i /\ T[Off(script, i) + 1].at = 1
  <2>1. 1 \in 1 .. Size(script[i])
    BY <1>1
  <2>2. /\ Off(script, i) + 1 \in 1 .. Len(T)
        /\ T[Off(script, i) + 1] = Tok(Kind(script[i], 1), i, 1)
    BY <2>1, TokenAt DEF T
  <2> QED
    BY <2>2 DEF Tok
<1>3. /\ T[p].i \in 1 .. Len(script) /\ T[p].at \in 1 .. Size(script[T[p].i])
      /\ p = Off(script, T[p].i) + T[p].at
  BY TokenIs DEF T
<1>4. Off(script, i) + 1 < p /\ Off(script, i) \in Nat /\ Len(T) \in Nat
  BY Places DEF Past, T
<1>5. i <= T[p].i /\ (T[p].i = i => p - (Off(script, i) + 1) = T[p].at - 1)
  <2> DEFINE b == Off(script, i) + 1
  <2>1. b <= p /\ b \in 1 .. Len(Full(script)) /\ p \in 1 .. Len(Full(script))
    BY <1>2, <1>4 DEF T
  <2> HIDE DEF b
  <2>2. /\ Full(script)[b].i <= Full(script)[p].i
        /\ Full(script)[b].i = Full(script)[p].i => p - b = Full(script)[p].at - Full(script)[b].at
    BY <2>1, Ordered
  <2> QED
    BY <1>2, <2>2 DEF T, b
<1>6. ASSUME T[p].i = i PROVE T[p].at > 1 /\ ~Separate(i)
  <2>1. T[p].at \in Nat /\ T[p].at <= Size(script[i]) /\ p = Off(script, i) + T[p].at
    BY <1>1, <1>3, <1>6
  <2>2. T[p].at > 1
    BY <1>4, <2>1
  <2>3. ~Separate(i)
    BY <1>1, <1>4, <2>1 DEF Past
  <2> QED
    BY <2>2, <2>3
<1> QED
  BY <1>5, <1>6

(* What is received, and what the client sends.                            *)
LEMMA NetNumbers ==
  ASSUME NetInv
  PROVE  /\ Len(wire) \in Nat /\ Len(toSend) \in Nat /\ Len(T) \in Nat /\ Len(script) \in Nat
         /\ Received + Len(wire) + Len(toSend) = Len(T)
<1>1. Len(wire) \in Nat /\ Len(toSend) \in Nat
  BY DEF NetInv, IsList
<1>2. Len(T) \in Nat /\ Len(script) \in Nat
  BY Places DEF NetInv, T
<1> QED
  BY <1>1, <1>2 DEF Received

LEMMA NetSame ==
  ASSUME NetInv, UNCHANGED <<script, wire, toSend>>, eof' \in BOOLEAN
  PROVE  NetInv' /\ Received' = Received /\ T' = T
<1>1. T' = T
  BY DEF T
<1>2. Received' = Received
  BY <1>1 DEF Received
<1> QED
  BY <1>1, <1>2 DEF NetInv

LEMMA NetReceive ==
  ASSUME NetInv, NEW n \in 0 .. Len(wire), wire' = Drop(wire, n), UNCHANGED <<script, toSend, eof>>
  PROVE  NetInv' /\ Received' = Received + n /\ T' = T /\ Len(wire') = Len(wire) - n
<1>1. T' = T
  BY DEF T
<1>2. IsList(wire') /\ Len(wire') = Len(wire) - n
      /\ \A x \in 1 .. Len(wire) - n : wire'[x] = wire[n + x]
  BY Suffix DEF NetInv, Drop
<1>3. Received' = Received + n
  BY <1>1, <1>2, NetNumbers DEF Received
<1>4. Received \in Nat /\ Received' \in Nat /\ Len(wire) \in Nat
  BY <1>3, NetNumbers DEF NetInv
<1>5. \A k \in 1 .. Len(wire') : wire'[k] = T[Received' + k]
  <2> SUFFICES ASSUME NEW k \in 1 .. Len(wire') PROVE wire'[k] = T[Received' + k]
    OBVIOUS
  <2>1. n + k \in 1 .. Len(wire) /\ wire'[k] = wire[n + k] /\ Received' + k = Received + (n + k)
    BY <1>2, <1>3, <1>4
  <2> QED
    BY <2>1 DEF NetInv
<1>6. \A k \in 1 .. Len(toSend') : toSend'[k] = T[Received' + Len(wire') + k]
  <2>1. Received' + Len(wire') = Received + Len(wire)
    BY <1>2, <1>3, <1>4
  <2> QED
    BY <2>1 DEF NetInv
<1> QED
  BY <1>1, <1>2, <1>3, <1>4, <1>5, <1>6 DEF NetInv

LEMMA NetSend ==
  ASSUME NetInv, ClientSends
  PROVE  /\ NetInv' /\ Received' = Received /\ T' = T
         /\ \E n \in 1 .. Len(toSend) : /\ Len(wire') = Len(wire) + n
                                        /\ \A k \in 1 .. n : Allowed(toSend[k].i)
<1>1. PICK n \in 1 .. Len(toSend) :
        /\ \A k \in 1 .. n : Allowed(toSend[k].i)
        /\ wire' = wire \o SubSeq(toSend, 1, n) /\ toSend' = Drop(toSend, n)
  BY DEF ClientSends
<1>2. UNCHANGED <<script, eof>> /\ T' = T
  BY DEF ClientSends, T
<1>3. IsList(wire) /\ IsList(toSend) /\ Len(wire) \in Nat /\ Len(toSend) \in Nat
      /\ Received \in Nat /\ n \in 0 .. Len(toSend) /\ n \in Nat
  BY NetNumbers DEF NetInv
<1> DEFINE m == SubSeq(toSend, 1, n)
<1>4. IsList(m) /\ Len(m) = n /\ \A x \in 1 .. n : m[x] = toSend[x]
  BY <1>3, Prefix
<1>5. IsList(toSend') /\ Len(toSend') = Len(toSend) - n
      /\ \A x \in 1 .. Len(toSend) - n : toSend'[x] = toSend[n + x]
  BY <1>1, <1>3, Suffix DEF Drop
<1>6. wire' = wire \o m
  BY <1>1
<1> HIDE DEF m
<1>7. IsList(wire') /\ Len(wire') = Len(wire) + Len(m)
  BY <1>3, <1>4, <1>6, Concatenated
<1>8. \A x \in 1 .. Len(wire) : wire'[x] = wire[x]
  BY <1>3, <1>4, <1>6, Concatenated
<1>9. \A x \in 1 .. Len(m) : wire'[Len(wire) + x] = m[x]
  BY <1>3, <1>4, <1>6, Concatenated
<1>10. Received' = Received
  BY <1>2, <1>3, <1>4, <1>5, <1>7, NetNumbers DEF Received
<1>11. \A k \in 1 .. Len(wire') : wire'[k] = T[Received + k]
  <2> SUFFICES ASSUME NEW k \in 1 .. Len(wire') PROVE wire'[k] = T[Received + k]
    OBVIOUS
  <2>1. CASE k <= Len(wire)
    BY <1>3, <1>8, <2>1 DEF NetInv
  <2>2. CASE ~(k <= Len(wire))
    <3> DEFINE x == k - Len(wire)
    <3>1. x \in 1 .. n /\ k = Len(wire) + x /\ x \in 1 .. Len(toSend)
          /\ Received + Len(wire) + x = Received + k
      BY <1>3, <1>4, <1>7, <2>2
    <3> HIDE DEF x
    <3>2. wire'[k] = toSend[x]
      BY <1>4, <1>9, <3>1
    <3> QED
      BY <3>1, <3>2 DEF NetInv
  <2> QED
    BY <2>1, <2>2
<1>12. \A k \in 1 .. Len(toSend') : toSend'[k] = T[Received + Len(wire') + k]
  <2> SUFFICES ASSUME NEW k \in 1 .. Len(toSend') PROVE toSend'[k] = T[Received + Len(wire') + k]
    OBVIOUS
  <2>1. n + k \in 1 .. Len(toSend) /\ toSend'[k] = toSend[n + k]
        /\ Received + Len(wire') + k = Received + Len(wire) + (n + k)
    BY <1>3, <1>4, <1>5, <1>7
  <2> QED
    BY <2>1 DEF NetInv
<1>13. NetInv'
  BY <1>2, <1>3, <1>5, <1>7, <1>10, <1>11, <1>12 DEF NetInv
<1> QED
  BY <1>1, <1>2, <1>4, <1>7, <1>10, <1>13

(* The end of a header block is where the code finds it.                   *)
LEMMA FirstIs ==
  ASSUME NEW b, IsList(b), NEW t, Has(b, t)
  PROVE  /\ First(b, t) \in 1 .. Len(b) /\ b[First(b, t)].t = t
         /\ \A j \in 1 .. First(b, t) - 1 : b[j].t # t
<1> DEFINE C == {k \in 1 .. Len(b) : b[k].t = t}
<1>0. Len(b) \in Nat
  BY DEF IsList
<1>1. PICK k \in C : \A y \in C : k <= y
  <2>1. C \subseteq Nat /\ C # {}
    BY <1>0 DEF Has
  <2> QED
    BY <2>1, Least
<1>2. k \in 1 .. Len(b) /\ b[k].t = t /\ \A j \in 1 .. k - 1 : b[j].t # t
  <2>1. \A j \in 1 .. k - 1 : j \in 1 .. Len(b) /\ ~(k <= j)
    BY <1>0, <1>1
  <2> QED
    BY <1>1, <2>1
<1> QED
  BY <1>2 DEF First

LEMMA EndOfHeaderIs ==
  ASSUME NEW b, IsList(b), Complete(b)
  PROVE  /\ EndOfHeader(b) \in 1 .. Len(b) /\ Len(b) \in Nat /\ Len(b) >= 1
         /\ IF Has(b, "E") THEN /\ b[EndOfHeader(b)].t = "E"
                                /\ \A j \in 1 .. EndOfHeader(b) - 1 : b[j].t # "E"
                           ELSE /\ b[EndOfHeader(b)].t = "L"
                                /\ \A j \in 1 .. EndOfHeader(b) - 1 : b[j].t # "L"
<1>1. Len(b) \in Nat
  BY DEF IsList
<1>2. CASE Has(b, "E")
  BY <1>1, <1>2, FirstIs DEF EndOfHeader
<1>3. CASE ~Has(b, "E")
  <2>1. Has(b, "L")
    BY <1>3 DEF Complete
  <2> QED
    BY <1>1, <1>3, <2>1, FirstIs DEF EndOfHeader
<1> QED
  BY <1>2, <1>3

LEMMA RestIs ==
  ASSUME NEW b, IsList(b), Complete(b)
  PROVE  /\ IsList(Rest(b)) /\ Len(Rest(b)) = Len(b) - EndOfHeader(b) /\ Len(Rest(b)) \in Nat
         /\ \A k \in 1 .. Len(Rest(b)) : Rest(b)[k] = b[EndOfHeader(b) + k]
<1>1. EndOfHeader(b) \in 1 .. Len(b) /\ Len(b) \in Nat
  BY EndOfHeaderIs
<1>2. EndOfHeader(b) \in 0 .. Len(b)
  BY <1>1
<1>3. Rest(b) = SubSeq(b, EndOfHeader(b) + 1, Len(b))
  BY DEF Rest, Drop
<1> DEFINE e == EndOfHeader(b)
<1> HIDE DEF e
<1>4. IsList(Rest(b)) /\ Len(Rest(b)) = Len(b) - e
      /\ \A x \in 1 .. Len(b) - e : Rest(b)[x] = b[e + x]
  BY <1>2, <1>3, Suffix DEF e
<1> QED
  BY <1>1, <1>4 DEF e

(* The tokens of the buffer are those of the stream.                       *)
LEMMA InBuffer ==
  ASSUME NetInv, ControlInv, NEW a \in 0 .. Received, Holds(a), NEW k \in 1 .. Len(buf)
  PROVE  /\ a + k \in 1 .. Len(T) /\ buf[k] = T[a + k] /\ buf[k].i \in 1 .. Len(script)
         /\ buf[k].at \in 1 .. Size(script[buf[k].i]) /\ a + k = Off(script, buf[k].i) + buf[k].at
         /\ buf[k].t = Kind(script[buf[k].i], buf[k].at)
<1>1. a + Len(buf) <= Received /\ buf[k] = T[a + k]
  BY DEF Holds
<1>2. Received \in Nat /\ Received <= Len(T) /\ Len(T) \in Nat /\ Len(buf) \in Nat
  BY NetNumbers DEF NetInv, ControlInv, IsList
<1>3. a + k \in 1 .. Len(T)
  BY <1>1, <1>2
<1> QED
  BY <1>1, <1>3, TokenIs DEF T, NetInv

LEMMA ContentLengthIs ==
  ASSUME NetInv, ControlInv, BufInv, Complete(buf)
  PROVE  ContentLength(buf) \in Nat
<1>1. CASE Lengths(buf) = {}
  BY <1>1 DEF ContentLength
<1>2. CASE Lengths(buf) # {}
  <2> DEFINE k == CHOOSE x \in Lengths(buf) : TRUE
  <2>1. k \in Lengths(buf) /\ ContentLength(buf) = script[buf[k].i].cl
    BY <1>2 DEF ContentLength
  <2> HIDE DEF k
  <2>2. k \in 1 .. EndOfHeader(buf) - 1 /\ script[buf[k].i].cl >= 0
    BY <2>1 DEF Lengths
  <2>3. EndOfHeader(buf) \in 1 .. Len(buf) /\ Len(buf) \in Nat
    BY EndOfHeaderIs DEF ControlInv
  <2>4. k \in 1 .. Len(buf)
    BY <2>2, <2>3
  <2>5. buf[k].i \in 1 .. Len(script)
    BY <2>4, InBuffer DEF BufInv
  <2>6. script[buf[k].i].cl \in Int
    BY <2>5, RequestIs DEF NetInv
  <2> QED
    BY <2>1, <2>2, <2>6
<1> QED
  BY <1>1, <1>2

LEMMA NoVerdict ==
  ASSUME NEW b, Verdicts(b) = {0}
  PROVE  /\ b[1].t = "h" /\ ~(ContentLength(b) > MaxBody)
<1>1. 0 \in Verdicts(b)
  OBVIOUS
<1>2. 0 \notin {400, 405} /\ 0 \notin {400} /\ 0 \notin {405} /\ 0 \notin {501} /\ 0 \notin {413}
  OBVIOUS
<1>3. b[1].t = "h"
  BY <1>1, <1>2, Zenon DEF Verdicts
<1>4. ~(ContentLength(b) > MaxBody)
  BY <1>1, <1>2, <1>3, ZenonT(60) DEF Verdicts
<1> QED
  BY <1>3, <1>4

(* What depends on the script alone.                                       *)
LEMMA SameScript ==
  ASSUME script' = script
  PROVE  /\ T' = T /\ (Patient' <=> Patient)
         /\ \A i, a : Past(i, a)' <=> Past(i, a)
         /\ \A a : Fresh(a)' <=> Fresh(a)
<1>1. T' = T
  BY DEF T
<1>2. Patient' <=> Patient
  BY DEF Patient
<1>3. \A i, a : Past(i, a)' <=> Past(i, a)
  BY <1>2 DEF Past, Separate
<1>4. \A a : Fresh(a)' <=> Fresh(a)
  BY <1>1 DEF Fresh
<1> QED
  BY <1>1, <1>2, <1>3, <1>4

LEMMA SameBuffer ==
  ASSUME script' = script, buf' = buf
  PROVE  Verdicts(buf)' = Verdicts(buf) /\ ContentLength(buf)' = ContentLength(buf)
<1>1. Lengths(buf)' = Lengths(buf)
  BY DEF Lengths
<1>2. Fields(buf)' = Fields(buf)
  BY DEF Fields
<1>3. \A f : Some(buf, f)' <=> Some(buf, f)
  BY <1>2 DEF Some
<1>4. ContentLength(buf)' = ContentLength(buf)
  BY <1>1 DEF ContentLength
<1>5. Verdicts(buf)' = Verdicts(buf)
  BY <1>1, <1>3, <1>4 DEF Verdicts
<1> QED
  BY <1>4, <1>5

(* Before the first byte.                                                  *)
LEMMA FrameInit == Init => NetInv /\ ControlInv /\ BufInv /\ LogInv /\ BodyInv /\ ServedInv
<1> SUFFICES ASSUME Init
             PROVE  NetInv /\ ControlInv /\ BufInv /\ LogInv /\ BodyInv /\ ServedInv
  OBVIOUS
<1>1. /\ script \in Scripts /\ toSend = T /\ wire = <<>> /\ eof = FALSE
      /\ pc = "top" /\ buf = <<>> /\ ka = FALSE /\ body = <<>> /\ log = <<>>
  BY DEF Init, T, Full
<1>2. IsList(T) /\ Len(T) \in Nat
  BY <1>1, Places DEF T
<1>3. IsList(<<>>) /\ Len(<<>>) = 0
  BY DEF IsList
<1>4. Received = 0
  BY <1>1, <1>2, <1>3 DEF Received
<1>5. NetInv
  <2>1. eof \in BOOLEAN
    BY <1>1, Zenon
  <2>2. IsList(wire) /\ IsList(toSend) /\ Len(wire) = 0
    BY <1>1, <1>2, <1>3
  <2>3. \A k \in 1 .. Len(toSend) : toSend[k] = T[Received + Len(wire) + k]
    BY <1>1, <1>2, <1>4, <2>2
  <2> QED
    BY <1>1, <1>4, <2>1, <2>2, <2>3 DEF NetInv
<1>6. ControlInv
  <2>1. ka \in BOOLEAN
    BY <1>1, Zenon
  <2>2. IsList(buf) /\ IsList(body) /\ Len(buf) <= BufferSize /\ Len(body) <= MaxBody
    BY <1>1, <1>3, BoundsAssumption
  <2> QED
    BY <1>1, <2>1, <2>2 DEF ControlInv, InHand
<1>7. Fresh(0)
  <2> SUFFICES ASSUME 1 <= Len(T) PROVE T[1].at = 1
    BY DEF Fresh
  <2>1. 1 \in 1 .. Len(T)
    BY <1>2
  <2>2. PICK p \in 1 .. Len(T) : p = 1
    BY <2>1
  <2>3. T[p].i \in 1 .. Len(script) /\ T[p].at \in 1 .. Size(script[T[p].i])
        /\ p = Off(script, T[p].i) + T[p].at
    BY <1>1, TokenIs DEF T
  <2>4. Off(script, T[p].i) \in Nat
    BY <1>1, <2>3, Places
  <2>5. Size(script[T[p].i]) \in Nat
    BY <1>1, <2>3, RequestIs
  <2> QED
    BY <2>2, <2>3, <2>4, <2>5
<1>8. Holds(0)
  BY <1>1, <1>3, <1>4, <1>7 DEF Holds
<1>9. BufInv
  BY <1>4, <1>8 DEF BufInv
<1>10. LogInv
  BY <1>1, <1>3, <1>4 DEF LogInv, Climbing
<1>11. BodyInv
  BY <1>1, <1>3 DEF BodyInv, InHand
<1>12. ServedInv
  BY <1>1, <1>3 DEF ServedInv
<1> QED
  BY <1>5, <1>6, <1>9, <1>10, <1>11, <1>12

FrameInv == NetInv /\ ControlInv /\ BufInv /\ LogInv /\ BodyInv

(* recv() takes what there is, up to the room left.                        *)
LEMMA Taking ==
  ASSUME NetInv, NEW space \in Nat
  PROVE  Taken(space) \in 0 .. Len(wire) /\ Taken(space) <= space /\ Taken(space) \in Nat
  BY NetNumbers DEF Taken

LEMMA RecvTakes ==
  ASSUME FrameInv, Recv
  PROVE  \E n \in 0 .. Len(wire) :
           /\ n \in Nat /\ Len(buf) + n <= BufferSize /\ IsList(SubSeq(wire, 1, n))
           /\ Len(SubSeq(wire, 1, n)) = n
           /\ \A x \in 1 .. n : SubSeq(wire, 1, n)[x] = T[Received + x]
           /\ buf' = buf \o SubSeq(wire, 1, n) /\ wire' = Drop(wire, n)
           /\ pc' = IF Complete(buf') THEN "parse" ELSE "read"
<1> DEFINE n == Taken(Room)
<1>1. Len(buf) \in Nat /\ Room \in Nat
  BY BoundsAssumption DEF FrameInv, ControlInv, IsList, Recv, Room
<1>2. n \in 0 .. Len(wire) /\ n <= Room /\ n \in Nat
  BY <1>1, Taking DEF FrameInv
<1>3. buf' = buf \o SubSeq(wire, 1, n) /\ wire' = Drop(wire, n)
      /\ pc' = IF Complete(buf') THEN "parse" ELSE "read"
  BY DEF Recv
<1> HIDE DEF n
<1>4. /\ IsList(SubSeq(wire, 1, n)) /\ Len(SubSeq(wire, 1, n)) = n
      /\ \A x \in 1 .. n : SubSeq(wire, 1, n)[x] = wire[x]
  BY <1>2, Prefix DEF FrameInv, NetInv
<1>5. Len(buf) + n <= BufferSize
  BY <1>1, <1>2, BoundsAssumption DEF Room
<1>6. \A x \in 1 .. n : x \in 1 .. Len(wire) /\ wire[x] = T[Received + x]
  BY <1>2, NetNumbers DEF FrameInv, NetInv
<1> QED
  BY <1>2, <1>3, <1>4, <1>5, <1>6

LEMMA BodyRecvTakes ==
  ASSUME FrameInv, BodyRecv
  PROVE  \E n \in 0 .. Len(wire) :
           /\ n \in Nat /\ Len(body) + n <= ContentLength(buf) /\ IsList(SubSeq(wire, 1, n))
           /\ Len(SubSeq(wire, 1, n)) = n
           /\ \A x \in 1 .. n : SubSeq(wire, 1, n)[x] = T[Received + x]
           /\ body' = body \o SubSeq(wire, 1, n) /\ wire' = Drop(wire, n)
           /\ pc' = IF Len(body) + n = ContentLength(buf) THEN "parsed" ELSE "body"
<1> DEFINE space == ContentLength(buf) - Len(body)
           n == Taken(space)
<1>0. pc = "body"
  BY DEF BodyRecv
<1>1. Len(body) \in Nat /\ ContentLength(buf) \in Nat /\ Len(body) < ContentLength(buf)
  BY <1>0, ContentLengthIs DEF FrameInv, ControlInv, IsList, InHand
<1>2. space \in Nat
  BY <1>1
<1>3. n \in 0 .. Len(wire) /\ n <= space /\ n \in Nat
  BY <1>2, Taking DEF FrameInv
<1>4. body' = body \o SubSeq(wire, 1, n) /\ wire' = Drop(wire, n)
      /\ pc' = IF Len(body) + n = ContentLength(buf) THEN "parsed" ELSE "body"
  BY DEF BodyRecv
<1>5. Len(body) + n <= ContentLength(buf)
  BY <1>1, <1>3
<1> HIDE DEF n
<1>6. /\ IsList(SubSeq(wire, 1, n)) /\ Len(SubSeq(wire, 1, n)) = n
      /\ \A x \in 1 .. n : SubSeq(wire, 1, n)[x] = wire[x]
  BY <1>3, Prefix DEF FrameInv, NetInv
<1>7. \A x \in 1 .. n : x \in 1 .. Len(wire) /\ wire[x] = T[Received + x]
  BY <1>3, NetNumbers DEF FrameInv, NetInv
<1> QED
  BY <1>3, <1>4, <1>5, <1>6, <1>7

(* The steps that close the connection, and those of the others that leave *)
(* the server where it is.                                                 *)
Ending ==
  HeaderTooLarge \/ GiveUp \/ Reject \/ BodyGiveUp \/ NoBodyMemory \/ RejectHeaders
Outside == ClientSends \/ ClientCloses \/ Tick \/ UNCHANGED vars

LEMMA Steps ==
  ASSUME [Next]_vars
  PROVE  Top \/ Recv \/ Ending \/ ParseOk \/ BodyRecv \/ ParseHeaders \/ Respond \/ Outside
  BY DEF Next, Server, Ending, Outside

LEMMA EndingIs ==
  ASSUME Ending
  PROVE  pc' = "closed" /\ UNCHANGED <<script, toSend, wire, eof, buf, ka, left, elapsed, body>>
  BY DEF Ending, HeaderTooLarge, GiveUp, Reject, BodyGiveUp, NoBodyMemory, RejectHeaders, netVars

LEMMA OutsideIs ==
  ASSUME Outside
  PROVE  UNCHANGED <<script, pc, buf, ka, body, log>>
  BY DEF Outside, ClientSends, ClientCloses, Tick, netVars, vars

LEMMA NetStep ==
  ASSUME FrameInv, [Next]_vars
  PROVE  NetInv'
<1> USE DEF FrameInv
<1>1. CASE Recv
  <2>1. UNCHANGED <<script, toSend, eof>>
    BY <1>1 DEF Recv
  <2> QED
    BY <1>1, <2>1, RecvTakes, NetReceive
<1>2. CASE BodyRecv
  <2>1. UNCHANGED <<script, toSend, eof>>
    BY <1>2 DEF BodyRecv
  <2> QED
    BY <1>2, <2>1, BodyRecvTakes, NetReceive
<1>3. CASE ClientSends
  BY <1>3, NetSend
<1>4. CASE ClientCloses
  <2>1. UNCHANGED <<script, wire, toSend>> /\ eof' \in BOOLEAN
    BY <1>4, Zenon DEF ClientCloses
  <2> QED
    BY <2>1, NetSame
<1>5. CASE Top \/ Ending \/ ParseOk \/ ParseHeaders \/ Respond \/ Tick \/ UNCHANGED vars
  <2>1. UNCHANGED <<script, wire, toSend, eof>>
    BY <1>5, EndingIs DEF Top, ParseOk, ParseHeaders, Respond, Tick, vars, netVars
  <2>2. eof' \in BOOLEAN
    BY <2>1 DEF NetInv
  <2> QED
    BY <2>1, <2>2, NetSame
<1> QED
  BY <1>1, <1>2, <1>3, <1>4, <1>5, Steps DEF Outside

LEMMA ControlStep ==
  ASSUME FrameInv, [Next]_vars
  PROVE  ControlInv'
<1> USE DEF FrameInv
<1>0. /\ ka \in BOOLEAN /\ IsList(buf) /\ IsList(body)
      /\ Len(buf) <= BufferSize /\ Len(body) <= MaxBody /\ Len(buf) \in Nat /\ Len(body) \in Nat
  BY DEF ControlInv, IsList
<1>1. CASE Top
  <2>1. pc = "top" /\ UNCHANGED <<buf, ka, body>> /\ pc' = IF Complete(buf) THEN "parse" ELSE "read"
    BY <1>1 DEF Top
  <2> QED
    BY <1>0, <2>1 DEF ControlInv, InHand
<1>2. CASE Recv
  <2>1. PICK n \in 0 .. Len(wire) :
           /\ n \in Nat /\ Len(buf) + n <= BufferSize /\ IsList(SubSeq(wire, 1, n))
           /\ Len(SubSeq(wire, 1, n)) = n
           /\ buf' = buf \o SubSeq(wire, 1, n)
           /\ pc' = IF Complete(buf') THEN "parse" ELSE "read"
    BY <1>2, RecvTakes
  <2>2. IsList(buf') /\ Len(buf') = Len(buf) + n
    <3> DEFINE q == SubSeq(wire, 1, n)
    <3>1. IsList(q) /\ Len(q) = n /\ buf' = buf \o q
      BY <2>1
    <3> HIDE DEF q
    <3> QED
      BY <1>0, <3>1, Concatenated
  <2>3. UNCHANGED <<ka, body>>
    BY <1>2 DEF Recv
  <2> QED
    BY <1>0, <2>1, <2>2, <2>3 DEF ControlInv, InHand
<1>3. CASE Ending
  BY <1>0, <1>3, EndingIs DEF ControlInv, InHand
<1>4. CASE ParseOk
  <2>1. pc = "parse" /\ Verdicts(buf) = {0} /\ Complete(buf) /\ UNCHANGED <<script, buf, ka>>
    BY <1>4 DEF ParseOk, ControlInv, netVars
  <2>2. ContentLength(buf) \in Nat /\ ContentLength(buf) <= MaxBody
    BY <2>1, ContentLengthIs, NoVerdict, BoundsAssumption
  <2>3. /\ IsList(Rest(buf)) /\ Len(Rest(buf)) \in Nat
    BY <1>0, <2>1, RestIs
  <2> DEFINE cl == ContentLength(buf)
  <2>4. CASE Len(Rest(buf)) >= cl
    <3>1. body' = SubSeq(Rest(buf), 1, cl) /\ pc' = "parsed"
      BY <1>4, <2>4 DEF ParseOk
    <3>2. PICK q, z : q = Rest(buf) /\ z = cl
      OBVIOUS
    <3>3. IsList(q) /\ z \in 0 .. Len(q) /\ body' = SubSeq(q, 1, z)
      BY <2>2, <2>3, <2>4, <3>1, <3>2
    <3>4. IsList(body') /\ Len(body') = cl
      BY <3>2, <3>3, Prefix
    <3> QED
      BY <1>0, <2>1, <2>2, <3>1, <3>4, SameBuffer DEF ControlInv, InHand
  <2>5. CASE ~(Len(Rest(buf)) >= cl)
    <3>1. body' = Rest(buf) /\ pc' = "body"
      BY <1>4, <2>5 DEF ParseOk
    <3>2. Len(body') < cl /\ Len(body') <= MaxBody
      BY <2>2, <2>3, <2>5, <3>1, BoundsAssumption
    <3> QED
      BY <1>0, <2>1, <2>3, <3>1, <3>2, SameBuffer DEF ControlInv, InHand
  <2> QED
    BY <2>4, <2>5
<1>5. CASE BodyRecv
  <2>1. PICK n \in 0 .. Len(wire) :
           /\ n \in Nat /\ Len(body) + n <= ContentLength(buf) /\ IsList(SubSeq(wire, 1, n))
           /\ Len(SubSeq(wire, 1, n)) = n
           /\ body' = body \o SubSeq(wire, 1, n)
           /\ pc' = IF Len(body) + n = ContentLength(buf) THEN "parsed" ELSE "body"
    BY <1>5, BodyRecvTakes
  <2>2. IsList(body') /\ Len(body') = Len(body) + n
    <3> DEFINE q == SubSeq(wire, 1, n)
    <3>1. IsList(q) /\ Len(q) = n /\ body' = body \o q
      BY <2>1
    <3> HIDE DEF q
    <3> QED
      BY <1>0, <3>1, Concatenated
  <2>3. pc = "body" /\ UNCHANGED <<script, ka, buf>>
    BY <1>5 DEF BodyRecv
  <2>4. Verdicts(buf) = {0} /\ Complete(buf)
    BY <2>3 DEF ControlInv, InHand
  <2>5. ContentLength(buf) \in Nat /\ ContentLength(buf) <= MaxBody
    BY <2>4, ContentLengthIs, NoVerdict, BoundsAssumption
  <2>6. Len(body') <= MaxBody /\ Len(body') <= ContentLength(buf)
    BY <1>0, <2>1, <2>2, <2>5, BoundsAssumption
  <2>7. pc' = "body" => Len(body') < ContentLength(buf)
    <3>1. pc' = "body" => Len(body') # ContentLength(buf)
      BY <2>1, <2>2
    <3>2. Len(body') \in Nat
      BY <2>2 DEF IsList
    <3> QED
      BY <2>5, <2>6, <3>1, <3>2
  <2>8. pc' = "parsed" => Len(body') = ContentLength(buf)
    BY <1>0, <2>1, <2>2, <2>5
  <2>9. pc' \in {"parsed", "body"}
    BY <2>1
  <2> QED
    BY <1>0, <2>2, <2>3, <2>4, <2>6, <2>7, <2>8, <2>9, SameBuffer DEF ControlInv, InHand
<1>6. CASE ParseHeaders
  <2>1. pc = "parsed" /\ pc' = "respond" /\ UNCHANGED <<script, buf, body>>
    BY <1>6 DEF ParseHeaders, netVars
  <2>2. ka' \in BOOLEAN
    BY <1>6, Zenon DEF ParseHeaders, KeepsAlive
  <2> QED
    BY <1>0, <2>1, <2>2, SameBuffer DEF ControlInv, InHand
<1>7. CASE Respond
  <2>0. pc = "respond" /\ Complete(buf) /\ UNCHANGED ka /\ body' = <<>>
    BY <1>7 DEF Respond, ControlInv, InHand
  <2>1. IsList(<<>>) /\ Len(<<>>) = 0
    BY DEF IsList
  <2>2. CASE ka
    <3>1. pc' = "top" /\ buf' = NextBuffer(buf)
      BY <1>7, <2>2 DEF Respond
    <3>2. IsList(Rest(buf)) /\ Len(Rest(buf)) <= Len(buf)
      BY <1>0, <2>0, EndOfHeaderIs, RestIs
    <3>3. IsList(buf') /\ Len(buf') <= BufferSize /\ (buf' = <<>> \/ Has(buf', "E"))
      BY <1>0, <2>1, <3>1, <3>2, BoundsAssumption DEF NextBuffer
    <3> QED
      BY <1>0, <2>0, <2>1, <3>1, <3>3, BoundsAssumption DEF ControlInv, InHand
  <2>3. CASE ~ka
    <3>1. pc' = "closed" /\ buf' = buf
      BY <1>7, <2>3 DEF Respond
    <3> QED
      BY <1>0, <2>0, <2>1, <3>1, BoundsAssumption DEF ControlInv, InHand
  <2> QED
    BY <2>2, <2>3
<1>8. CASE Outside
  BY <1>8, OutsideIs, SameBuffer DEF ControlInv, InHand
<1> QED
  BY <1>1, <1>2, <1>3, <1>4, <1>5, <1>6, <1>7, <1>8, Steps

(* What the tokens of a request are.                                       *)
LEMMA KindIs ==
  ASSUME NEW s \in Scripts, NEW i \in 1 .. Len(s), NEW at \in 1 .. Size(s[i])
  PROVE  /\ Kind(s[i], at) = "h" <=> at = 1
         /\ at > 1 /\ at < s[i].pad + 2 => Kind(s[i], at) = "x"
         /\ at = s[i].pad + 2 => Kind(s[i], at) = s[i].sep
         /\ at > s[i].pad + 2 => /\ at - (s[i].pad + 2) \in 1 .. Len(s[i].body)
                                 /\ Kind(s[i], at) = s[i].body[at - (s[i].pad + 2)]
         /\ Kind(s[i], at) \in {"h", "x", "E", "L", "b"} /\ at \in Nat
<1>1. /\ s[i].pad \in Nat /\ s[i].sep \in {"E", "L"} /\ Len(s[i].body) \in Nat
      /\ s[i].body \in Seq({"b", "E", "L"})
      /\ Size(s[i]) = s[i].pad + 2 + Len(s[i].body) /\ Size(s[i]) \in Nat
  BY RequestIs
<1>2. at > s[i].pad + 2 => /\ at - (s[i].pad + 2) \in 1 .. Len(s[i].body)
                           /\ Kind(s[i], at) = s[i].body[at - (s[i].pad + 2)]
  BY <1>1, SMTT(30) DEF Kind
<1>3. at > s[i].pad + 2 => Kind(s[i], at) \in {"b", "E", "L"}
  BY <1>1, <1>2
<1>4. /\ at = 1 => Kind(s[i], at) = "h"
      /\ at > 1 /\ at < s[i].pad + 2 => Kind(s[i], at) = "x"
      /\ at = s[i].pad + 2 => Kind(s[i], at) = s[i].sep
  BY <1>1 DEF Kind
<1>5. at \in Nat /\ (at = 1 \/ (at > 1 /\ at < s[i].pad + 2) \/ at = s[i].pad + 2 \/ at > s[i].pad + 2)
  BY <1>1
<1> QED
  BY <1>1, <1>2, <1>3, <1>4, <1>5

(* A buffer that starts with a request holds its header block first.       *)
LEMMA HeadIs ==
  ASSUME NetInv, ControlInv, NEW a \in 0 .. Received, Holds(a), Len(buf) >= 1, buf[1].at = 1
  PROVE  LET i == buf[1].i
             r == script[i]
         IN /\ i \in 1 .. Len(script) /\ a = Off(script, i) /\ buf[1].t = "h"
            /\ \A k \in 1 .. Len(buf) :
                 k <= Size(r) => /\ buf[k] = Tok(Kind(r, k), i, k) /\ buf[k].t = Kind(r, k)
                                 /\ buf[k].i = i /\ buf[k].at = k
            /\ Complete(buf) => EndOfHeader(buf) >= r.pad + 2
<1> DEFINE i == buf[1].i
           r == script[i]
<1>0. Len(buf) \in Nat /\ 1 \in 1 .. Len(buf) /\ IsList(buf) /\ script \in Scripts
  BY DEF ControlInv, IsList, NetInv
<1>1. PICK k \in 1 .. Len(buf) : k = 1
  BY <1>0
<1>2. /\ buf[k].i \in 1 .. Len(script) /\ a + k = Off(script, buf[k].i) + buf[k].at
  BY InBuffer
<1>3. i \in 1 .. Len(script) /\ a + 1 = Off(script, i) + 1
  BY <1>1, <1>2
<1>4. Off(script, i) \in Nat /\ Received \in Nat /\ a \in Nat
  BY <1>0, <1>3, Places DEF NetInv
<1>5. a = Off(script, i)
  BY <1>3, <1>4
<1>6. r.pad \in Nat /\ Size(r) \in Nat /\ Size(r) >= r.pad + 2 /\ Len(r.body) \in Nat
  <2>1. PICK j \in 1 .. Len(script) : j = i
    BY <1>3
  <2>2. script[j].pad \in Nat /\ Len(script[j].body) \in Nat /\ Size(script[j]) \in Nat
        /\ Size(script[j]) = script[j].pad + 2 + Len(script[j].body)
    BY <1>0, RequestIs
  <2> QED
    BY <2>1, <2>2, SMTT(30)
<1> HIDE DEF i
<1>7. ASSUME NEW x \in 1 .. Len(buf), x <= Size(r)
      PROVE  buf[x] = Tok(Kind(r, x), i, x) /\ buf[x].t = Kind(r, x) /\ buf[x].i = i /\ buf[x].at = x
  <2>1. x \in 1 .. Size(script[i])
    BY <1>0, <1>6, <1>7
  <2>2. T[Off(script, i) + x] = Tok(Kind(script[i], x), i, x)
    BY <1>0, <1>3, <2>1, TokenAt DEF T
  <2>3. buf[x] = T[a + x]
    BY DEF Holds
  <2>4. buf[x] = Tok(Kind(r, x), i, x)
    BY <1>5, <2>2, <2>3
  <2> QED
    BY <2>4 DEF Tok
<1>8. ASSUME Complete(buf), ~(EndOfHeader(buf) >= r.pad + 2) PROVE FALSE
  <2>1. PICK e \in 1 .. Len(buf) : e = EndOfHeader(buf)
    BY <1>0, <1>8, EndOfHeaderIs
  <2>2. buf[e].t \in {"E", "L"}
    BY <1>0, <1>8, <2>1, EndOfHeaderIs
  <2>3. e \in 1 .. Size(script[i]) /\ e < r.pad + 2 /\ (e = 1 \/ e > 1)
    BY <1>0, <1>6, <1>8, <2>1
  <2>4. Kind(script[i], e) \in {"h", "x"}
    BY <1>0, <1>3, <2>3, KindIs
  <2>5. e <= Size(r)
    BY <2>3, <1>6
  <2>6. buf[e].t = Kind(r, e)
    BY <1>7, <2>5
  <2> QED
    BY <2>2, <2>4, <2>6
<1>9. buf[1].t = "h"
  <2>1. 1 \in 1 .. Len(buf) /\ 1 <= Size(r) /\ 1 \in 1 .. Size(r)
    BY <1>0, <1>6
  <2>2. buf[1].t = Kind(r, 1)
    BY <1>7, <2>1
  <2> QED
    BY <2>2 DEF Kind
<1> QED
  BY <1>3, <1>5, <1>7, <1>8, <1>9 DEF i

LEMMA HeadAt ==
  ASSUME NetInv, ControlInv, NEW a \in 0 .. Received, Holds(a), Len(buf) >= 1, buf[1].t = "h"
  PROVE  buf[1].at = 1
<1>0. Len(buf) \in Nat /\ 1 \in 1 .. Len(buf) /\ script \in Scripts
  BY DEF ControlInv, IsList, NetInv
<1>1. PICK k \in 1 .. Len(buf) : k = 1
  BY <1>0
<1>2. /\ buf[k].i \in 1 .. Len(script) /\ buf[k].at \in 1 .. Size(script[buf[k].i])
      /\ buf[k].t = Kind(script[buf[k].i], buf[k].at)
  BY InBuffer
<1>3. buf[k].at = 1
  BY <1>0, <1>1, <1>2, KindIs
<1> QED
  BY <1>1, <1>3

(* A client that waits has sent nothing behind the request at hand.        *)
LEMMA OneAtATime ==
  ASSUME NetInv, ControlInv, LogInv, NEW a \in 0 .. Received, Holds(a), pc # "closed",
         Len(buf) >= 1, buf[1].at = 1
  PROVE  /\ Len(log) + 1 <= buf[1].i
         /\ \A n \in 1 .. Len(log) : log[n][1] < buf[1].i
         /\ Patient => \A p \in a + 1 .. Received + Len(wire) :
                         p \in 1 .. Len(T) /\ T[p].i = buf[1].i /\ T[p].at = p - a
<1> DEFINE i == buf[1].i
<1>0. /\ Len(buf) \in Nat /\ 1 \in 1 .. Len(buf) /\ script \in Scripts /\ Received \in Nat /\ a \in Nat
      /\ Len(T) \in Nat /\ Len(wire) \in Nat /\ Received + Len(wire) <= Len(T) /\ Len(log) \in Nat
  BY NetNumbers DEF ControlInv, IsList, NetInv, LogInv
<1>1. PICK k \in 1 .. Len(buf) : k = 1
  BY <1>0
<1>2. a + k \in 1 .. Len(T) /\ buf[k] = T[a + k] /\ buf[k].i \in 1 .. Len(script)
  BY InBuffer
<1>3. PICK b \in 1 .. Len(T) : b = a + 1
  BY <1>1, <1>2
<1>4. T[b].i = i /\ T[b].at = 1 /\ i \in 1 .. Len(script)
  BY <1>1, <1>2, <1>3
<1>5. Climbing
  BY DEF LogInv
<1>6. ASSUME NEW n \in 1 .. Len(log) PROVE log[n][1] < i
  <2>1. PICK j \in 1 .. Len(script) : j = log[n][1]
    BY DEF LogInv
  <2>2. Past(j, a)
    BY <2>1 DEF Holds
  <2>3. a < b
    BY <1>0, <1>3
  <2>4. j <= T[b].i /\ (T[b].i = j => T[b].at > 1)
    BY <1>0, <2>2, <2>3, Behind
  <2>5. j # i
    BY <1>4, <2>4
  <2>6. Len(script) \in Nat
    BY NetNumbers
  <2> QED
    BY <1>4, <2>1, <2>4, <2>5, <2>6
<1>7. Len(log) + 1 <= i
  <2>1. CASE Len(log) = 0
    BY <1>4, <2>1, NetNumbers
  <2>2. CASE Len(log) # 0
    <3>1. Len(log) \in 1 .. Len(log)
      BY <1>0, <2>2
    <3>2. PICK z \in 1 .. Len(log) : z = Len(log)
      BY <3>1
    <3>3. z <= log[z][1] /\ log[z][1] < i /\ log[z][1] \in 1 .. Len(script)
      BY <1>5, <1>6 DEF Climbing, LogInv
    <3>4. Len(log) \in Nat /\ i \in Nat /\ log[z][1] \in Nat
      <4>1. Len(script) \in Nat /\ Len(log) \in Nat
        BY <1>0, NetNumbers
      <4>2. i \in Nat
        BY <1>4, <4>1
      <4>3. log[z][1] \in Nat
        BY <3>3, <4>1
      <4> QED
        BY <4>1, <4>2, <4>3
    <3>5. PICK x \in Nat, y \in Nat : x = i /\ y = log[z][1]
      BY <3>4
    <3>6. z <= y /\ y < x /\ z \in Nat
      BY <3>2, <3>3, <3>4, <3>5
    <3>7. z + 1 <= x
      BY <3>6
    <3> QED
      BY <3>2, <3>5, <3>7
  <2> QED
    BY <2>1, <2>2
<1> HIDE DEF i
<1>8. ASSUME Patient, NEW p \in a + 1 .. Received + Len(wire)
      PROVE  p \in 1 .. Len(T) /\ T[p].i = i /\ T[p].at = p - a
  <2>1. p \in 1 .. Received + Len(wire) /\ p \in 1 .. Len(T) /\ b <= p
    BY <1>0, <1>3
  <2>2. T[p].i <= Len(log) + 1
    BY <1>8, <2>1 DEF LogInv
  <2>3. T[b].i <= T[p].i /\ (T[b].i = T[p].i => p - b = T[p].at - T[b].at)
    BY <1>0, <2>1, Ordered DEF T
  <2>4. T[p].i \in 1 .. Len(script) /\ T[p].at \in 1 .. Size(script[T[p].i])
    BY <1>0, <2>1, TokenIs DEF T
  <2>5. T[p].i = i
    <3>1. T[p].i \in Nat /\ i \in Nat
      BY <1>4, <2>4, NetNumbers, SMTT(30)
    <3> QED
      BY <1>0, <1>4, <1>7, <2>2, <2>3, <3>1
  <2>6. p - b = T[p].at - 1
    BY <1>4, <2>3, <2>5
  <2>7. T[p].at \in Nat
    BY <1>0, <2>4, RequestIs
  <2>8. p \in Int /\ b = a + 1 /\ a \in Int
    BY <1>0, <1>3
  <2>9. T[p].at = p - a
    <3>1. PICK y \in Nat : y = T[p].at
      BY <2>7
    <3>2. p - b = y - 1
      BY <2>6, <3>1
    <3>3. y = p - a
      BY <2>8, <3>2
    <3> QED
      BY <3>1, <3>3
  <2> QED
    BY <2>1, <2>5, <2>9
<1> QED
  BY <1>6, <1>7, <1>8 DEF i

(* The server reads the header block of such a client's request as the     *)
(* client means it.                                                        *)
LEMMA Whole ==
  ASSUME NetInv, ControlInv, LogInv, NEW a \in 0 .. Received, Holds(a), pc # "closed",
         Len(buf) >= 1, buf[1].at = 1, Patient
  PROVE  LET r == script[buf[1].i]
         IN \A k \in 1 .. Len(buf) :
              k \in 1 .. Size(r) /\ buf[k].t = Kind(r, k) /\ buf[k].i = buf[1].i
<1> DEFINE i == buf[1].i
           r == script[i]
<1>0. /\ Len(buf) \in Nat /\ script \in Scripts /\ Received \in Nat /\ a \in Nat
      /\ Len(wire) \in Nat /\ a + Len(buf) <= Received
  BY NetNumbers DEF ControlInv, IsList, NetInv, Holds
<1> SUFFICES ASSUME NEW k \in 1 .. Len(buf)
             PROVE  k \in 1 .. Size(r) /\ buf[k].t = Kind(r, k) /\ buf[k].i = i
  OBVIOUS
<1>1. PICK p \in a + 1 .. Received + Len(wire) : p = a + k
  BY <1>0
<1>2. p \in 1 .. Len(T) /\ T[p].i = i /\ T[p].at = p - a
  BY OneAtATime
<1>3. p - a = k
  BY <1>0, <1>1
<1>4. buf[k] = T[a + k] /\ buf[k].i \in 1 .. Len(script)
      /\ buf[k].at \in 1 .. Size(script[buf[k].i])
      /\ buf[k].t = Kind(script[buf[k].i], buf[k].at)
  BY InBuffer
<1>5. buf[k].i = i /\ buf[k].at = k
  BY <1>1, <1>2, <1>3, <1>4
<1> QED
  BY <1>4, <1>5

LEMMA HeaderEnd ==
  ASSUME NetInv, ControlInv, LogInv, NEW a \in 0 .. Received, Holds(a), pc # "closed",
         Len(buf) >= 1, buf[1].at = 1, Patient, Complete(buf), Clear(script[buf[1].i])
  PROVE  LET r == script[buf[1].i]
         IN /\ EndOfHeader(buf) = r.pad + 2 /\ Fields(buf) = {r} /\ Lengths(buf) \subseteq {1}
            /\ ContentLength(buf) = IF r.cl >= 0 THEN r.cl ELSE 0
<1> DEFINE i == buf[1].i
           r == script[i]
           e == EndOfHeader(buf)
<1>0. IsList(buf) /\ Len(buf) \in Nat /\ script \in Scripts /\ 1 \in 1 .. Len(buf)
  BY DEF ControlInv, IsList, NetInv
<1>1. i \in 1 .. Len(script) /\ buf[1].t = "h" /\ e >= r.pad + 2
  BY HeadIs
<1>2. \A k \in 1 .. Len(buf) : k \in 1 .. Size(r) /\ buf[k].t = Kind(r, k) /\ buf[k].i = i
  BY Whole
<1>3. r.pad \in Nat /\ r.sep \in {"E", "L"} /\ Size(r) \in Nat /\ r.cl \in Int
  <2>1. PICK j \in 1 .. Len(script) : j = i
    BY <1>1
  <2>2. script[j].pad \in Nat /\ Size(script[j]) \in Nat /\ script[j].cl \in Int
        /\ script[j].sep \in {"E", "L"}
    BY <1>0, RequestIs
  <2> QED
    BY <2>1, <2>2
<1>4. e \in 1 .. Len(buf)
  BY <1>0, EndOfHeaderIs
<1>5. ASSUME NEW k \in 1 .. Len(buf)
      PROVE  /\ buf[k].t = "h" <=> k = 1
             /\ k = r.pad + 2 => buf[k].t = r.sep
             /\ Unblank(r) /\ buf[k].t = "E" => k = r.pad + 2 /\ r.sep = "E"
  <2>1. k \in 1 .. Size(script[i]) /\ buf[k].t = Kind(script[i], k)
    BY <1>2
  <2>2. /\ Kind(script[i], k) = "h" <=> k = 1
        /\ k > 1 /\ k < script[i].pad + 2 => Kind(script[i], k) = "x"
        /\ k = script[i].pad + 2 => Kind(script[i], k) = script[i].sep
        /\ k > script[i].pad + 2 => /\ k - (script[i].pad + 2) \in 1 .. Len(script[i].body)
                                    /\ Kind(script[i], k) = script[i].body[k - (script[i].pad + 2)]
    BY <1>0, <1>1, <2>1, KindIs
  <2>3. k \in Nat /\ (k = 1 \/ (k > 1 /\ k < r.pad + 2) \/ k = r.pad + 2 \/ k > r.pad + 2)
    BY <1>0, <1>3
  <2>4. Unblank(r) /\ k > r.pad + 2 => Kind(script[i], k) # "E"
    BY <2>2 DEF Unblank
  <2> QED
    BY <2>1, <2>2, <2>3, <2>4
<1>6. r.pad + 2 \in 1 .. Len(buf) /\ buf[r.pad + 2].t = r.sep
  <2>1. r.pad + 2 \in 1 .. Len(buf)
    BY <1>0, <1>1, <1>3, <1>4
  <2> QED
    BY <1>5, <2>1
<1> HIDE DEF i, e
<1>7. e = r.pad + 2
  <2>1. CASE r.sep = "E"
    <3>1. Has(buf, "E")
      BY <1>6, <2>1 DEF Has
    <3>2. \A j \in 1 .. e - 1 : buf[j].t # "E"
      BY <1>0, <3>1, EndOfHeaderIs DEF e
    <3>3. ~(r.pad + 2 \in 1 .. e - 1)
      BY <1>6, <2>1, <3>2
    <3> QED
      BY <1>0, <1>1, <1>3, <1>4, <1>6, <3>3
  <2>2. CASE r.sep = "L"
    <3>1. Unblank(r)
      BY <2>2 DEF Clear, i
    <3>2. ~Has(buf, "E")
      BY <1>5, <2>2, <3>1 DEF Has
    <3>3. \A j \in 1 .. e - 1 : buf[j].t # "L"
      BY <1>0, <3>2, EndOfHeaderIs DEF e
    <3>4. ~(r.pad + 2 \in 1 .. e - 1)
      BY <1>6, <2>2, <3>3
    <3> QED
      BY <1>0, <1>1, <1>3, <1>4, <1>6, <3>4
  <2> QED
    BY <1>3, <2>1, <2>2
<1>8. {j \in 1 .. e - 1 : buf[j].t = "h"} = {1}
  <2>1. 1 \in 1 .. e - 1 /\ \A j \in 1 .. e - 1 : j \in 1 .. Len(buf)
    BY <1>0, <1>3, <1>4, <1>7
  <2> QED
    BY <1>1, <1>5, <2>1
<1>9. Fields(buf) = {r}
  BY <1>8 DEF Fields, e, i
<1>10. Lengths(buf) = IF r.cl >= 0 THEN {1} ELSE {}
  <2>1. \A k : k \in Lengths(buf) <=> k \in {j \in 1 .. e - 1 : buf[j].t = "h"} /\ script[buf[k].i].cl >= 0
    BY DEF Lengths, e
  <2>2. \A k : k \in Lengths(buf) <=> k = 1 /\ r.cl >= 0
    BY <1>8, <2>1 DEF i
  <2> QED
    BY <2>2
<1>11. ContentLength(buf) = IF r.cl >= 0 THEN r.cl ELSE 0
  <2>1. CASE r.cl >= 0
    <3>1. Lengths(buf) = {1} /\ (CHOOSE k \in Lengths(buf) : TRUE) \in Lengths(buf)
      BY <1>10, <2>1
    <3>2. (CHOOSE k \in Lengths(buf) : TRUE) = 1
      BY <3>1
    <3> QED
      BY <2>1, <3>1, <3>2 DEF ContentLength, i
  <2>2. CASE ~(r.cl >= 0)
    BY <1>10, <2>2 DEF ContentLength
  <2> QED
    BY <2>1, <2>2
<1> QED
  BY <1>7, <1>9, <1>10, <1>11 DEF e, i

(* So the length of a framed body is the one the server waits for, and a   *)
(* request that keeps the rules passes every test.                         *)
LEMMA FramedLength ==
  ASSUME NEW s \in Scripts, NEW i \in 1 .. Len(s), Framed(s[i])
  PROVE  (IF s[i].cl >= 0 THEN s[i].cl ELSE 0) = Len(s[i].body)
<1>1. s[i].cl \in Int /\ Len(s[i].body) \in Nat
  BY RequestIs
<1>2. CASE s[i].cl = Len(s[i].body)
  BY <1>1, <1>2
<1>3. CASE s[i].cl = -1 /\ s[i].body = <<>>
  BY <1>3
<1> QED
  BY <1>2, <1>3 DEF Framed

LEMMA LegalVerdict ==
  ASSUME NEW b, NEW r, b[1].t = "h", script[b[1].i] = r, r.fault = "none", Fields(b) = {r},
         Lengths(b) \subseteq {1}, ~(ContentLength(b) > MaxBody)
  PROVE  Verdicts(b) = {0} /\ ~HeadersTooLarge(b)
<1>1. ~Some(b, "duplicate") /\ ~Some(b, "encoding") /\ ~Some(b, "length") /\ ~Some(b, "fields")
  BY DEF Some
<1>2. ~(Cardinality(Lengths(b)) > 1)
  <2>1. IsFiniteSet({1}) /\ Cardinality({1}) = 1
    BY FS_Singleton
  <2>2. PICK S : S = {1}
    OBVIOUS
  <2>3. IsFiniteSet(S) /\ Lengths(b) \in SUBSET S /\ Cardinality(S) = 1
    BY <2>1, <2>2
  <2>4. PICK L \in SUBSET S : L = Lengths(b)
    BY <2>3
  <2>5. IsFiniteSet(L) /\ Cardinality(L) <= Cardinality(S)
    BY <2>3, FS_Subset
  <2>6. Cardinality(L) \in Nat
    BY <2>5, FS_CardinalityType
  <2> QED
    BY <2>3, <2>4, <2>5, <2>6
<1>3. r.fault # "line" /\ r.fault # "method"
  OBVIOUS
<1> QED
  BY <1>1, <1>2, <1>3 DEF Verdicts, HeadersTooLarge

(* A request stays behind.                                                 *)
LEMMA PastStays ==
  ASSUME script \in Scripts, NEW i \in 1 .. Len(script), NEW a \in Nat, Past(i, a),
         NEW c \in Nat, a <= c
  PROVE  Past(i, c)
<1>1. Off(script, i) \in Nat /\ Size(script[i]) \in Nat
  BY Places, RequestIs
<1> QED
  BY <1>1 DEF Past

(* The whole body of a request that is neat is in when it is answered.     *)
LEMMA AllIn ==
  ASSUME FrameInv, NEW a \in 0 .. Received, Holds(a), pc = "respond", Patient,
         Neat(script[buf[1].i])
  PROVE  Off(script, buf[1].i) + Size(script[buf[1].i]) <= Received
<1> USE DEF FrameInv
<1> DEFINE i == buf[1].i
<1>0. Complete(buf) /\ Verdicts(buf) = {0} /\ Len(body) = ContentLength(buf)
  BY DEF ControlInv, InHand
<1>1. Len(buf) >= 1 /\ script \in Scripts
  BY <1>0, EndOfHeaderIs DEF ControlInv, NetInv
<1>2. buf[1].at = 1
  BY <1>0, <1>1, HeadAt, NoVerdict
<1>3. i \in 1 .. Len(script)
  BY <1>1, <1>2, HeadIs
<1>4. Framed(script[i]) /\ Clear(script[i])
  BY DEF Neat, Clear
<1>5. ContentLength(buf) = IF script[i].cl >= 0 THEN script[i].cl ELSE 0
  BY <1>0, <1>1, <1>2, <1>4, HeaderEnd
<1>6. (IF script[i].cl >= 0 THEN script[i].cl ELSE 0) = Len(script[i].body)
  BY <1>1, <1>3, <1>4, FramedLength
<1>7. BodyFrom(i) + Len(body) <= Received
  BY <1>4 DEF BodyInv, InHand
<1>8. PICK j \in 1 .. Len(script) : j = i
  BY <1>3
<1>9. Size(script[j]) = script[j].pad + 2 + Len(script[j].body) /\ script[j].pad \in Nat
      /\ Len(script[j].body) \in Nat /\ Off(script, j) \in Nat
  BY <1>1, RequestIs, Places
<1>10. Len(body) = Len(script[j].body)
  BY <1>0, <1>5, <1>6, <1>8
<1>11. Off(script, j) + script[j].pad + 2 + Len(body) <= Received
  BY <1>7, <1>8 DEF BodyFrom
<1>12. Received \in Nat
  BY DEF NetInv
<1>13. Off(script, j) + Size(script[j]) <= Received
  <2>1. PICK o \in Nat, d \in Nat, l \in Nat :
          o = Off(script, j) /\ d = script[j].pad /\ l = Len(script[j].body)
    BY <1>9
  <2>2. o + d + 2 + l <= Received /\ Size(script[j]) = d + 2 + l
    BY <1>9, <1>10, <1>11, <2>1
  <2>3. o + (d + 2 + l) <= Received
    BY <1>12, <2>2
  <2> QED
    BY <2>1, <2>2, <2>3
<1> QED
  BY <1>8, <1>13

(* What is kept in the buffer, or dropped, when a request is answered.     *)
LEMMA Kept ==
  ASSUME FrameInv, NEW a \in 0 .. Received, Holds(a), pc = "respond", Has(Rest(buf), "E")
  PROVE  LET i == buf[1].i
             c == a + EndOfHeader(buf)
         IN /\ c \in 0 .. Received /\ c + Len(Rest(buf)) <= Received /\ Len(Rest(buf)) >= 1
            /\ \A k \in 1 .. Len(Rest(buf)) : Rest(buf)[k] = T[c + k]
            /\ i \in 1 .. Len(script) /\ a <= c /\ c \in Nat /\ a \in Nat /\ Past(i, c)
            /\ Patient => Rest(buf)[1].at # 1 /\ Fresh(c)
<1> USE DEF FrameInv
<1> DEFINE i == buf[1].i
           r == script[i]
           e == EndOfHeader(buf)
           c == a + e
<1>0. Complete(buf) /\ Verdicts(buf) = {0} /\ IsList(buf)
  BY DEF ControlInv, InHand
<1>1. Len(buf) >= 1 /\ Len(buf) \in Nat /\ script \in Scripts /\ e \in 1 .. Len(buf)
  BY <1>0, EndOfHeaderIs DEF NetInv
<1>2. buf[1].at = 1
  BY <1>0, <1>1, HeadAt, NoVerdict
<1>3. i \in 1 .. Len(script) /\ a = Off(script, i) /\ e >= r.pad + 2
  BY <1>0, <1>1, <1>2, HeadIs
<1>4. r.pad \in Nat /\ Size(r) = r.pad + 2 + Len(r.body)
  <2>1. PICK j \in 1 .. Len(script) : j = i
    BY <1>3
  <2>2. script[j].pad \in Nat /\ Size(script[j]) = script[j].pad + 2 + Len(script[j].body)
    BY <1>1, RequestIs
  <2> QED
    BY <2>1, <2>2
<1>5. /\ Len(Rest(buf)) = Len(buf) - e /\ Len(Rest(buf)) \in Nat
      /\ \A k \in 1 .. Len(Rest(buf)) : Rest(buf)[k] = buf[e + k]
  BY <1>0, RestIs
<1>6. a \in Nat /\ Received \in Nat /\ a + Len(buf) <= Received
  BY DEF NetInv, Holds
<1> HIDE DEF i, e
<1>7. c \in 0 .. Received /\ c + Len(Rest(buf)) <= Received /\ a <= c /\ c \in Nat
  BY <1>1, <1>5, <1>6
<1>8. PICK z \in 1 .. Len(Rest(buf)) : Rest(buf)[z].t = "E"
  BY DEF Has
<1>9. Len(Rest(buf)) >= 1
  BY <1>5, <1>8
<1>10. ASSUME NEW k \in 1 .. Len(Rest(buf)) PROVE Rest(buf)[k] = T[c + k]
  <2>1. e + k \in 1 .. Len(buf) /\ c + k = a + (e + k)
    BY <1>1, <1>5, <1>6
  <2>2. buf[e + k] = T[a + (e + k)]
    BY <2>1 DEF Holds
  <2> QED
    BY <1>5, <2>1, <2>2
<1>11. ASSUME Patient PROVE ~Unblank(r)
  <2>1. PICK y \in 1 .. Len(buf) : y = e + z
    BY <1>1, <1>5
  <2>2. y \in 1 .. Size(script[i]) /\ buf[y].t = Kind(script[i], y)
    BY <1>1, <1>2, <1>11, Whole DEF i
  <2>3. buf[y].t = "E" /\ y > script[i].pad + 2
    <3>1. buf[y].t = "E"
      BY <1>5, <1>8, <2>1
    <3>2. y > script[i].pad + 2
      BY <1>1, <1>3, <1>4, <1>5, <2>1
    <3> QED
      BY <3>1, <3>2
  <2>4. y - (script[i].pad + 2) \in 1 .. Len(script[i].body)
        /\ Kind(script[i], y) = script[i].body[y - (script[i].pad + 2)]
    BY <1>1, <1>3, <2>2, <2>3, KindIs
  <2> QED
    BY <2>2, <2>3, <2>4 DEF Unblank
<1>12. Past(i, c)
  <2>1. Off(script, i) + 1 <= c
    BY <1>1, <1>3, <1>6
  <2>2. ASSUME Separate(i) PROVE Off(script, i) + Size(script[i]) <= c
    <3>1. script[i].body = <<>>
      BY <1>11, <2>2 DEF Separate
    <3>2. Size(r) = r.pad + 2
      BY <1>4, <3>1
    <3> QED
      BY <1>1, <1>3, <1>4, <1>6, <3>2, SMTT(30)
  <2> QED
    BY <2>1, <2>2 DEF Past
<1>13. ASSUME Patient PROVE Rest(buf)[1].at # 1 /\ Fresh(c)
  <2>1. PICK p \in a + 1 .. Received + Len(wire) : p = c + 1
    <3>1. Len(wire) \in Nat
      BY NetNumbers
    <3> QED
      BY <1>1, <1>6, <1>7, <1>9, <1>5, <3>1
  <2>2. T[p].i = i /\ T[p].at = p - a
    BY <1>1, <1>2, <1>13, OneAtATime DEF i
  <2>3. p - a # 1
    BY <1>1, <1>6, <2>1
  <2>4. 1 \in 1 .. Len(Rest(buf))
    BY <1>5, <1>9
  <2>5. Rest(buf)[1] = T[p]
    BY <1>10, <2>1, <2>4
  <2>6. ~Neat(script[T[p].i])
    BY <1>11, <1>13, <2>2 DEF Neat
  <2> QED
    BY <2>1, <2>2, <2>3, <2>5, <2>6 DEF Fresh
<1> QED
  BY <1>3, <1>6, <1>7, <1>9, <1>10, <1>12, <1>13 DEF i, e

LEMMA Dropped ==
  ASSUME FrameInv, NEW a \in 0 .. Received, Holds(a), pc = "respond"
  PROVE  LET i == buf[1].i
         IN /\ i \in 1 .. Len(script) /\ a <= Received /\ Received \in Nat /\ a \in Nat
            /\ Past(i, Received) /\ (Patient => Fresh(Received))
<1> USE DEF FrameInv
<1> DEFINE i == buf[1].i
           r == script[i]
           e == EndOfHeader(buf)
<1>0. Complete(buf) /\ Verdicts(buf) = {0} /\ IsList(buf)
  BY DEF ControlInv, InHand
<1>1. Len(buf) >= 1 /\ Len(buf) \in Nat /\ script \in Scripts /\ e \in 1 .. Len(buf)
  BY <1>0, EndOfHeaderIs DEF NetInv
<1>2. buf[1].at = 1
  BY <1>0, <1>1, HeadAt, NoVerdict
<1>3. i \in 1 .. Len(script) /\ a = Off(script, i) /\ e >= r.pad + 2
  BY <1>0, <1>1, <1>2, HeadIs
<1>4. r.pad \in Nat /\ Size(r) = r.pad + 2 + Len(r.body) /\ Size(r) \in Nat
  <2>1. PICK j \in 1 .. Len(script) : j = i
    BY <1>3
  <2>2. script[j].pad \in Nat /\ Size(script[j]) = script[j].pad + 2 + Len(script[j].body)
        /\ Size(script[j]) \in Nat
    BY <1>1, RequestIs
  <2> QED
    BY <2>1, <2>2
<1>5. a \in Nat /\ Received \in Nat /\ a + Len(buf) <= Received /\ Len(wire) \in Nat
      /\ Received + Len(wire) <= Len(T) /\ Len(T) \in Nat /\ Len(script) \in Nat
  <2>1. a \in Nat /\ Received \in Nat /\ a + Len(buf) <= Received
    BY DEF NetInv, Holds
  <2> QED
    BY <2>1, NetNumbers
<1>6. ASSUME Patient, Neat(r) PROVE Off(script, i) + Size(r) <= Received
  BY <1>6, AllIn
<1> HIDE DEF i, e
<1>7. Past(i, Received)
  <2>1. Off(script, i) + 1 <= Received
    BY <1>1, <1>3, <1>5
  <2>2. ASSUME Separate(i) PROVE Off(script, i) + Size(script[i]) <= Received
    <3>1. CASE script[i].body = <<>>
      <4>1. Size(r) = r.pad + 2
        BY <1>4, <3>1
      <4> QED
        BY <1>1, <1>3, <1>4, <1>5, <4>1
    <3>2. CASE Patient /\ Unblank(script[i])
      BY <1>6, <2>2, <3>2 DEF Separate, Neat
    <3> QED
      BY <2>2, <3>1, <3>2 DEF Separate
  <2> QED
    BY <2>1, <2>2 DEF Past
<1>8. ASSUME Patient PROVE Fresh(Received)
  <2> SUFFICES ASSUME Received + 1 <= Len(T), T[Received + 1].at # 1, Neat(script[T[Received + 1].i])
               PROVE  FALSE
    BY DEF Fresh
  <2>1. PICK q \in 1 .. Len(T) : q = Received + 1
    BY <1>5
  <2>2. PICK p \in 1 .. Len(T) : p = Received
    BY <1>1, <1>5
  <2>3. p \in a + 1 .. Received + Len(wire)
    BY <1>1, <1>5, <2>2
  <2>4. T[p].i = i /\ T[p].at = p - a
    BY <1>1, <1>2, <1>8, <2>3, OneAtATime DEF i
  <2> DEFINE j == T[q].i
             x == T[q].at
  <2>5. j \in 1 .. Len(script) /\ x \in 1 .. Size(script[j]) /\ q = Off(script, j) + x
    BY <1>1, TokenIs DEF T
  <2> HIDE DEF j, x
  <2>6. Off(script, j) \in Nat /\ Size(script[j]) \in Nat
    BY <1>1, <2>5, Places, RequestIs
  <2>7. x # 1 /\ Neat(script[j])
    BY <2>1 DEF j, x
  <2>8. PICK y \in 1 .. Size(script[j]) : y = x - 1
    BY <2>5, <2>6, <2>7
  <2>9. Off(script, j) + y = p
    <3>1. PICK o \in Nat : o = Off(script, j)
      BY <2>6
    <3>2. x \in Int /\ y = x - 1 /\ q = o + x /\ q = Received + 1 /\ p = Received
      BY <2>1, <2>2, <2>5, <2>6, <2>8, <3>1
    <3>3. o + y = p
      BY <1>5, <3>2
    <3> QED
      BY <3>1, <3>3
  <2>10. T[p] = Tok(Kind(script[j], y), j, y)
    BY <1>1, <2>5, <2>9, TokenAt DEF T
  <2>11. j = i
    BY <2>4, <2>10 DEF Tok
  <2>12. Off(script, i) + Size(script[i]) <= Received
    BY <1>6, <1>8, <2>7, <2>11
  <2> QED
    BY <1>5, <2>1, <2>5, <2>6, <2>11, <2>12, SMTT(30)
<1> QED
  BY <1>3, <1>5, <1>7, <1>8 DEF i

LEMMA BufStep ==
  ASSUME FrameInv, [Next]_vars
  PROVE  BufInv'
<1> USE DEF FrameInv
<1>0. PICK a \in 0 .. Received : Holds(a)
  BY DEF BufInv
<1>1. /\ script \in Scripts /\ a \in Nat /\ Received \in Nat /\ Len(buf) \in Nat /\ IsList(buf)
      /\ a + Len(buf) <= Received /\ \A k \in 1 .. Len(buf) : buf[k] = T[a + k]
  BY <1>0 DEF NetInv, ControlInv, IsList, Holds
<1>2. CASE Top
  <2>1. pc = "top" /\ UNCHANGED <<script, toSend, wire, eof, buf, log>>
        /\ pc' = IF Complete(buf) THEN "parse" ELSE "read"
    BY <1>2 DEF Top, netVars
  <2>2. Received' = Received /\ T' = T
    BY <2>1, NetSame DEF NetInv
  <2>3. pc' = "read" => a + Len(buf) = Received
    <3>1. pc' = "read" => buf = <<>>
      BY <2>1 DEF ControlInv, Complete
    <3> QED
      BY <1>0, <2>1, <3>1 DEF Holds
  <2>4. Patient /\ pc' = "parse" => buf[1].at # 1
    <3>1. Complete(buf) => buf # <<>>
      BY EndOfHeaderIs DEF ControlInv
    <3> QED
      BY <1>0, <2>1, <3>1 DEF Holds
  <2>5. Holds(a)'
    BY <1>0, <2>1, <2>2, <2>3, <2>4, SameScript DEF Holds
  <2> QED
    BY <1>0, <2>2, <2>5 DEF BufInv
<1>3. CASE Recv
  <2>1. PICK n \in 0 .. Len(wire) :
           /\ n \in Nat /\ Len(buf) + n <= BufferSize /\ IsList(SubSeq(wire, 1, n))
           /\ Len(SubSeq(wire, 1, n)) = n
           /\ \A x \in 1 .. n : SubSeq(wire, 1, n)[x] = T[Received + x]
           /\ buf' = buf \o SubSeq(wire, 1, n) /\ wire' = Drop(wire, n)
           /\ pc' = IF Complete(buf') THEN "parse" ELSE "read"
    BY <1>3, RecvTakes
  <2>2. pc = "read" /\ UNCHANGED <<script, toSend, eof, log>>
    BY <1>3 DEF Recv
  <2>3. Received' = Received + n /\ T' = T
    BY <2>1, <2>2, NetReceive
  <2>4. a + Len(buf) = Received
    BY <1>0, <2>2 DEF Holds
  <2>5. PICK q : q = SubSeq(wire, 1, n)
    OBVIOUS
  <2>6. IsList(q) /\ Len(q) = n /\ (\A x \in 1 .. n : q[x] = T[Received + x]) /\ buf' = buf \o q
    BY <2>1, <2>5
  <2>7. Len(buf') = Len(buf) + n /\ \A x \in 1 .. Len(buf) : buf'[x] = buf[x]
    BY <1>1, <2>6, Concatenated
  <2>8. \A x \in 1 .. n : buf'[Len(buf) + x] = q[x]
    BY <1>1, <2>6, Concatenated
  <2>9. ASSUME NEW k \in 1 .. Len(buf') PROVE buf'[k] = T[a + k]
    <3>1. CASE k <= Len(buf)
      BY <1>1, <2>7, <3>1
    <3>2. CASE ~(k <= Len(buf))
      <4>1. PICK x \in 1 .. n : k = Len(buf) + x
        <5>1. k - Len(buf) \in 1 .. n /\ k = Len(buf) + (k - Len(buf))
          BY <1>1, <2>1, <2>7, <3>2
        <5> QED
          BY <5>1
      <4>2. Received + x = a + k
        <5>1. PICK R \in Nat, l \in Nat : R = Received /\ l = Len(buf)
          BY <1>1
        <5>2. R + x = a + k
          BY <1>1, <2>4, <4>1, <5>1
        <5> QED
          BY <5>1, <5>2
      <4> QED
        BY <2>6, <2>8, <4>1, <4>2
    <3> QED
      BY <3>1, <3>2
  <2>10. a + Len(buf') = Received' /\ a \in 0 .. Received' /\ pc' \in {"read", "parse"}
    <3>1. PICK R \in Nat, l \in Nat : R = Received /\ l = Len(buf)
      BY <1>1
    <3>2. Received' = R + n /\ Len(buf') = l + n /\ a + l = R /\ n \in Nat
      BY <2>1, <2>3, <2>4, <2>7, <3>1
    <3>3. a + Len(buf') = Received' /\ a \in 0 .. Received'
      BY <1>1, <3>2
    <3> QED
      BY <2>1, <3>3
  <2>11. Holds(a)'
    BY <1>0, <2>2, <2>3, <2>9, <2>10, SameScript DEF Holds
  <2> QED
    BY <2>10, <2>11 DEF BufInv
<1>4. CASE Ending
  <2>1. pc' = "closed" /\ UNCHANGED <<script, toSend, wire, eof, buf>>
    BY <1>4, EndingIs
  <2>2. Received' = Received /\ T' = T
    BY <2>1, NetSame DEF NetInv
  <2>3. Holds(a)'
    BY <1>1, <2>1, <2>2 DEF Holds
  <2> QED
    BY <1>0, <2>2, <2>3 DEF BufInv
<1>5. CASE ParseOk \/ ParseHeaders
  <2>1. pc' \in {"parsed", "body", "respond"} /\ pc # "closed"
        /\ UNCHANGED <<script, toSend, wire, eof, buf, log>>
    BY <1>5 DEF ParseOk, ParseHeaders, netVars
  <2>2. Received' = Received /\ T' = T
    BY <2>1, NetSame DEF NetInv
  <2>3. Holds(a)'
    BY <1>0, <2>1, <2>2, SameScript DEF Holds
  <2> QED
    BY <1>0, <2>2, <2>3 DEF BufInv
<1>6. CASE BodyRecv
  <2>1. PICK n \in 0 .. Len(wire) : n \in Nat /\ wire' = Drop(wire, n)
    BY <1>6, BodyRecvTakes
  <2>2. pc = "body" /\ pc' \in {"parsed", "body"} /\ UNCHANGED <<script, toSend, eof, buf, log>>
    BY <1>6 DEF BodyRecv
  <2>3. Received' = Received + n /\ T' = T
    BY <2>1, <2>2, NetReceive
  <2>4. a + Len(buf) <= Received' /\ a \in 0 .. Received'
    BY <1>1, <2>1, <2>3
  <2>5. Holds(a)'
    BY <1>0, <2>2, <2>3, <2>4, SameScript DEF Holds
  <2> QED
    BY <2>4, <2>5 DEF BufInv
<1>7. CASE Respond
  <2>1. pc = "respond" /\ UNCHANGED <<script, toSend, wire, eof, ka>>
    BY <1>7 DEF Respond, netVars
  <2>2. Received' = Received /\ T' = T
    BY <2>1, NetSame DEF NetInv
  <2> DEFINE i == buf[1].i
  <2>3. CASE ~ka
    <3>1. pc' = "closed" /\ buf' = buf
      BY <1>7, <2>3 DEF Respond
    <3>2. Holds(a)'
      BY <1>1, <2>2, <3>1 DEF Holds
    <3> QED
      BY <1>0, <2>2, <3>2 DEF BufInv
  <2>4. CASE ka
    <3>1. pc' = "top" /\ buf' = NextBuffer(buf)
      BY <1>7, <2>4 DEF Respond
    <3>2. log' = log \/ \E st : log' = Append(log, <<i, st>>)
      BY <1>7 DEF Respond, Send
    <3>3. i \in 1 .. Len(script) /\ Past(i, Received) /\ (Patient => Fresh(Received))
      BY <1>0, <2>1, Dropped
    <3>4. ASSUME NEW c \in Nat, a <= c, Past(i, c), NEW n \in 1 .. Len(log')
          PROVE  Past(log'[n][1], c)
      <4>1. ASSUME NEW m \in 1 .. Len(log) PROVE Past(log[m][1], c)
        <5>1. PICK j \in 1 .. Len(script) : j = log[m][1]
          BY DEF LogInv
        <5>2. Past(j, a)
          BY <1>0, <2>1, <5>1 DEF Holds
        <5>3. Past(j, c)
          BY <1>1, <3>4, <5>2, PastStays
        <5> QED
          BY <5>1, <5>3
      <4>2. CASE log' = log
        BY <4>1, <4>2
      <4>3. CASE log' # log
        <5>1. PICK st : log' = Append(log, <<i, st>>)
          BY <3>2, <4>3
        <5>2. PICK w : w = <<i, st>>
          OBVIOUS
        <5>3. IsList(log) /\ Len(log) \in Nat /\ log' = Append(log, w)
          BY <5>1, <5>2 DEF LogInv, IsList
        <5>4. Len(log') = Len(log) + 1 /\ log'[Len(log) + 1] = w
              /\ \A x \in 1 .. Len(log) : log'[x] = log[x]
          BY <5>3, AppendList
        <5>5. CASE n \in 1 .. Len(log)
          BY <4>1, <5>4, <5>5
        <5>6. CASE n = Len(log) + 1
          BY <3>4, <5>2, <5>4, <5>6
        <5> QED
          BY <5>3, <5>4, <5>5, <5>6
      <4> QED
        BY <4>2, <4>3
    <3>5. CASE Rest(buf) # <<>> /\ Has(Rest(buf), "E")
      <4>1. buf' = Rest(buf)
        BY <3>1, <3>5 DEF NextBuffer
      <4> DEFINE d == a + EndOfHeader(buf)
      <4>0. PICK c : c = d
        OBVIOUS
      <4>2. /\ c \in 0 .. Received /\ c + Len(Rest(buf)) <= Received /\ Len(Rest(buf)) >= 1
            /\ \A k \in 1 .. Len(Rest(buf)) : Rest(buf)[k] = T[c + k]
            /\ a <= c /\ c \in Nat /\ Past(i, c)
            /\ Patient => Rest(buf)[1].at # 1 /\ Fresh(c)
        BY <1>0, <2>1, <3>5, <4>0, Kept
      <4>3. \A n \in 1 .. Len(log') : Past(log'[n][1], c)
        BY <3>4, <4>2
      <4>4. Patient' <=> Patient
        BY <2>1, SameScript
      <4>5. (\A n \in 1 .. Len(log) : Past(log[n][1], c))'
        BY <2>1, <4>3, SameScript
      <4>6. Fresh(c)' <=> Fresh(c)
        BY <2>1, SameScript
      <4>7. Holds(c)'
        BY <2>2, <3>1, <3>5, <4>1, <4>2, <4>4, <4>5, <4>6 DEF Holds
      <4> QED
        BY <2>2, <4>2, <4>7 DEF BufInv
    <3>6. CASE ~(Rest(buf) # <<>> /\ Has(Rest(buf), "E"))
      <4>1. buf' = <<>> /\ Len(buf') = 0
        BY <3>1, <3>6 DEF NextBuffer
      <4>2. PICK c \in Nat : c = Received
        BY <1>1
      <4>3. \A n \in 1 .. Len(log') : Past(log'[n][1], c)
        BY <1>1, <3>3, <3>4, <4>2
      <4>4. Patient' <=> Patient
        BY <2>1, SameScript
      <4>5. (\A n \in 1 .. Len(log) : Past(log[n][1], c))'
        BY <2>1, <4>3, SameScript
      <4>6. Fresh(c)' <=> Fresh(c)
        BY <2>1, SameScript
      <4>7. Holds(c)'
        BY <2>2, <3>1, <3>3, <4>1, <4>2, <4>4, <4>5, <4>6 DEF Holds
      <4> QED
        BY <2>2, <4>2, <4>7 DEF BufInv
    <3> QED
      BY <3>5, <3>6
  <2> QED
    BY <2>3, <2>4
<1>8. CASE Outside
  <2>1. UNCHANGED <<script, pc, buf, log>>
    BY <1>8, OutsideIs
  <2>2. Received' = Received /\ T' = T
    <3>1. CASE ClientSends
      BY <3>1, NetSend
    <3>2. CASE ClientCloses \/ Tick \/ UNCHANGED vars
      <4>1. UNCHANGED <<script, wire, toSend>>
        BY <3>2 DEF ClientCloses, Tick, vars, netVars
      <4> QED
        BY <4>1 DEF Received, T
    <3> QED
      BY <1>8, <3>1, <3>2 DEF Outside
  <2>3. Holds(a)'
    BY <1>0, <2>1, <2>2, SameScript DEF Holds
  <2> QED
    BY <1>0, <2>2, <2>3 DEF BufInv
<1> QED
  BY <1>2, <1>3, <1>4, <1>5, <1>6, <1>7, <1>8, Steps

(* One more answer.                                                        *)
LEMMA OneAnswer ==
  ASSUME FrameInv, pc # "closed", Len(buf) >= 1, NEW st \in {200, 400, 405, 413, 431, 501},
         Send(buf[1].i, st), script' = script
  PROVE  /\ IsList(log') /\ Len(log') = Len(log) + 1 /\ Len(log) \in Nat
         /\ log'[Len(log) + 1][1] = buf[1].i /\ log'[Len(log) + 1][2] = st
         /\ \A n \in 1 .. Len(log) : log'[n] = log[n]
         /\ \A n \in 1 .. Len(log') :
              log'[n] \in (1 .. Len(script)) \X {200, 400, 405, 413, 431, 501}
         /\ InOrder'
<1> USE DEF FrameInv
<1>0. PICK a \in 0 .. Received : Holds(a)
  BY DEF BufInv
<1>1. /\ script \in Scripts /\ a \in Nat /\ Received \in Nat /\ Len(buf) \in Nat /\ 1 \in 1 .. Len(buf)
      /\ IsList(log) /\ Len(log) \in Nat /\ Len(script) \in Nat
  BY NetNumbers DEF NetInv, ControlInv, IsList, LogInv
<1>2. PICK k \in 1 .. Len(buf) : k = 1
  BY <1>1
<1>3. a + k \in 1 .. Len(T) /\ buf[k] = T[a + k] /\ buf[k].i \in 1 .. Len(script)
  BY <1>0, InBuffer, SMTT(30)
<1>4. PICK b \in 1 .. Len(T) : b = a + 1
  BY <1>2, <1>3
<1>5. PICK i \in 1 .. Len(script) : i = buf[1].i /\ T[b].i = i
  BY <1>2, <1>3, <1>4
<1>6. PICK w : w = <<i, st>>
  OBVIOUS
<1>7. log' = Append(log, w)
  BY <1>5, <1>6 DEF Send
<1>8. IsList(log') /\ Len(log') = Len(log) + 1 /\ log'[Len(log) + 1] = w
  BY <1>1, <1>7, AppendList
<1>9. \A n \in 1 .. Len(log) : log'[n] = log[n]
  BY <1>1, <1>7, AppendList
<1>10. w[1] = i /\ w[2] = st /\ w \in (1 .. Len(script)) \X {200, 400, 405, 413, 431, 501}
  BY <1>6
<1>11. ASSUME NEW n \in 1 .. Len(log')
       PROVE  log'[n] \in (1 .. Len(script)) \X {200, 400, 405, 413, 431, 501}
  <2>1. n \in 1 .. Len(log) \/ n = Len(log) + 1
    BY <1>1, <1>8
  <2>2. CASE n \in 1 .. Len(log)
    <3>1. log[n] \in (1 .. Len(script)) \X {200, 400, 405, 413, 431, 501}
      BY <2>2 DEF LogInv
    <3> QED
      BY <1>9, <2>2, <3>1, SMTT(30)
  <2>3. CASE n = Len(log) + 1
    BY <1>8, <1>10, <2>3
  <2> QED
    BY <2>1, <2>2, <2>3
<1>12. Climbing
  BY DEF LogInv
<1>13. ASSUME NEW m \in 1 .. Len(log), NEW n \in 1 .. Len(log), m < n
       PROVE  log[m][1] < log[n][1] /\ log[m][2] = 200
  <2>1. m \in 1 .. n - 1
    BY <1>1, <1>13
  <2> QED
    BY <1>12, <2>1 DEF Climbing
<1>14. ASSUME NEW m \in 1 .. Len(log)
       PROVE  /\ log[m][1] <= i /\ log[m][2] = 200 /\ log[m][1] \in 1 .. Len(script)
              /\ Separate(log[m][1]) => log[m][1] # i
  <2>1. PICK j \in 1 .. Len(script) : j = log[m][1]
    BY DEF LogInv
  <2>2. Past(j, a)
    BY <1>0, <2>1 DEF Holds
  <2>3. a < b
    BY <1>1, <1>4
  <2>4. j <= T[b].i /\ (T[b].i = j => ~Separate(j))
    BY <1>1, <2>2, <2>3, Behind
  <2> QED
    BY <1>5, <1>12, <2>1, <2>4 DEF Climbing
<1>15. \A j : Separate(j)' <=> Separate(j)
  BY DEF Separate, Patient
<1>16. ASSUME NEW m \in 1 .. Len(log'), NEW n \in 1 .. Len(log'), m < n
       PROVE  /\ log'[m][1] <= log'[n][1] /\ log'[m][2] = 200
              /\ Separate(log'[m][1]) => log'[m][1] # log'[n][1]
  <2>1. m \in 1 .. Len(log) /\ (n \in 1 .. Len(log) \/ n = Len(log) + 1) /\ log'[m] = log[m]
    BY <1>1, <1>8, <1>9, <1>16
  <2>2. CASE n \in 1 .. Len(log)
    <3>1. log[m][1] < log[n][1] /\ log[m][2] = 200 /\ log'[n] = log[n]
      BY <1>9, <1>13, <1>16, <2>1, <2>2, SMTT(30)
    <3>2. log[m][1] \in 1 .. Len(script) /\ log[n][1] \in 1 .. Len(script)
      BY <1>14, <2>1, <2>2, SMTT(30)
    <3>3. log[m][1] <= log[n][1] /\ log[m][1] # log[n][1]
      <4>1. PICK x \in Nat, y \in Nat : x = log[m][1] /\ y = log[n][1]
        BY <3>2, SMTT(30)
      <4>2. x < y
        BY <3>1, <4>1
      <4>3. x <= y /\ x # y
        BY <4>2
      <4> QED
        BY <4>1, <4>3
    <3> QED
      BY <2>1, <3>1, <3>3
  <2>3. CASE n = Len(log) + 1
    BY <1>8, <1>10, <1>14, <2>1, <2>3, SMTT(30)
  <2> QED
    BY <2>1, <2>2, <2>3
<1>17. InOrder'
  BY <1>15, <1>16 DEF InOrder
<1> QED
  BY <1>1, <1>5, <1>8, <1>9, <1>10, <1>11, <1>17

LEMMA ClimbingOrder ==
  ASSUME IsList(log), Climbing,
         \A n \in 1 .. Len(log) :
           log[n] \in (1 .. Len(script)) \X {200, 400, 405, 413, 431, 501}
  PROVE  InOrder
<1> SUFFICES ASSUME NEW m \in 1 .. Len(log), NEW n \in 1 .. Len(log), m < n
             PROVE  log[m][1] <= log[n][1] /\ log[m][2] = 200 /\ log[m][1] # log[n][1]
  BY DEF InOrder
<1>1. m \in 1 .. n - 1
  BY DEF IsList
<1>2. log[m][1] < log[n][1] /\ log[m][2] = 200
  BY <1>1 DEF Climbing
<1>3. log[m][1] \in Int /\ log[n][1] \in Int
  OBVIOUS
<1> QED
  BY <1>2, <1>3

(* What closes the connection sends at most one answer, to the request in  *)
(* the buffer.                                                             *)
LEMMA EndingLog ==
  ASSUME FrameInv, Ending
  PROVE  /\ pc # "closed"
         /\ \/ log' = log /\ pc = "read"
            \/ /\ Len(buf) >= 1
               /\ \E st \in {400, 405, 413, 431, 501} : Send(buf[1].i, st)
<1> USE DEF FrameInv
<1>1. pc \in {"parse"} \union InHand => Len(buf) >= 1
  BY EndOfHeaderIs DEF ControlInv
<1>2. CASE HeaderTooLarge
  <2>1. Len(buf) \in Nat /\ Len(buf) = BufferSize
    BY <1>2, BoundsAssumption DEF HeaderTooLarge, Room, ControlInv, IsList
  <2> QED
    BY <1>2, <2>1, BoundsAssumption DEF HeaderTooLarge
<1>3. CASE GiveUp
  BY <1>3 DEF GiveUp
<1>4. CASE Reject
  <2>1. PICK st \in Verdicts(buf) \ {0} : Send(buf[1].i, st)
    BY <1>4 DEF Reject
  <2>2. Verdicts(buf) \subseteq {0, 400, 405, 413, 431, 501}
    BY DEF Verdicts
  <2> QED
    BY <1>1, <1>4, <2>1, <2>2 DEF Reject
<1>5. CASE BodyGiveUp
  BY <1>1, <1>5 DEF BodyGiveUp, InHand
<1>6. CASE NoBodyMemory
  BY <1>1, <1>6 DEF NoBodyMemory
<1>7. CASE RejectHeaders
  BY <1>1, <1>7 DEF RejectHeaders, InHand
<1> QED
  BY <1>2, <1>3, <1>4, <1>5, <1>6, <1>7 DEF Ending

(* What has been sent and what has been answered.                          *)
LEMMA SentStays ==
  ASSUME LogInv, NetInv, NetInv', script' = script, IsList(log'),
         Received' + Len(wire') = Received + Len(wire), Len(log') >= Len(log)
  PROVE  (Patient => \A p \in 1 .. Received + Len(wire) : T[p].i <= Len(log) + 1)'
<1>1. T' = T /\ (Patient' <=> Patient)
  BY SameScript
<1> SUFFICES ASSUME Patient, NEW p \in 1 .. Received + Len(wire) PROVE T[p].i <= Len(log') + 1
  BY <1>1
<1>2. T[p].i <= Len(log) + 1
  BY DEF LogInv
<1>3. p \in 1 .. Len(T)
  BY NetNumbers DEF NetInv
<1>4. T[p].i \in 1 .. Len(script)
  BY <1>3, TokenIs DEF T, NetInv
<1>5. T[p].i \in Int /\ Len(log) \in Nat /\ Len(log') \in Nat
  BY <1>4 DEF LogInv, IsList
<1> QED
  BY <1>2, <1>5

LEMMA LogStep ==
  ASSUME FrameInv, [Next]_vars
  PROVE  LogInv'
<1> USE DEF FrameInv
<1> DEFINE Sent == Patient => \A p \in 1 .. Received + Len(wire) : T[p].i <= Len(log) + 1
           Entries == \A n \in 1 .. Len(log) :
                        log[n] \in (1 .. Len(script)) \X {200, 400, 405, 413, 431, 501}
<1>0. IsList(log) /\ Len(log) \in Nat /\ Entries /\ Received \in Nat /\ Len(wire) \in Nat /\ NetInv'
  BY NetStep, NetNumbers DEF LogInv, IsList, NetInv
<1>1. CASE Top \/ ParseOk \/ ParseHeaders
  <2>1. pc # "closed" /\ pc' # "closed" /\ UNCHANGED <<script, toSend, wire, log>>
    BY <1>1 DEF Top, ParseOk, ParseHeaders, netVars
  <2>2. Received' = Received /\ T' = T /\ (Patient' <=> Patient)
    BY <2>1, SameScript DEF Received
  <2>3. Climbing'
    BY <2>1 DEF LogInv, Climbing
  <2> QED
    BY <1>0, <2>1, <2>2, <2>3 DEF LogInv
<1>2. CASE Recv \/ BodyRecv
  <2>1. pc # "closed" /\ pc' # "closed" /\ UNCHANGED <<script, toSend, eof, log>>
    BY <1>2 DEF Recv, BodyRecv
  <2>2. PICK n \in 0 .. Len(wire) : wire' = Drop(wire, n)
    BY <1>2, RecvTakes, BodyRecvTakes
  <2>3. Received' = Received + n /\ Len(wire') = Len(wire) - n
    BY <2>1, <2>2, NetReceive
  <2>4. Received' + Len(wire') = Received + Len(wire)
    <3>1. \A R, l, m \in Nat : (R + m) + (l - m) = R + l
      OBVIOUS
    <3>2. Received \in Nat /\ Len(wire) \in Nat /\ n \in Nat
      BY <1>0
    <3> QED
      BY <2>3, <3>1, <3>2
  <2>5. Climbing'
    BY <2>1 DEF LogInv, Climbing
  <2>6. Sent'
    BY <1>0, <2>1, <2>4, SentStays
  <2> QED
    BY <1>0, <2>1, <2>5, <2>6 DEF LogInv
<1>3. CASE Ending
  <2>1. pc' = "closed" /\ UNCHANGED <<script, toSend, wire, eof>> /\ pc # "closed"
    BY <1>3, EndingIs, EndingLog
  <2>2. Received' = Received /\ Received' + Len(wire') = Received + Len(wire)
    BY <2>1 DEF Received, T
  <2>3. CASE log' = log
    <3>1. InOrder
      BY <1>0, <2>1, ClimbingOrder DEF LogInv
    <3>2. InOrder'
      BY <2>1, <2>3, <3>1 DEF InOrder, Separate, Patient
    <3>3. IsList(log') /\ Len(log') >= Len(log)
      BY <1>0, <2>3
    <3>4. Sent'
      BY <1>0, <2>1, <2>2, <3>3, SentStays
    <3> QED
      BY <1>0, <2>1, <2>3, <3>2, <3>3, <3>4 DEF LogInv
  <2>4. CASE log' # log
    <3>1. PICK st \in {200, 400, 405, 413, 431, 501} : Len(buf) >= 1 /\ Send(buf[1].i, st)
      BY <1>3, <2>4, EndingLog
    <3>2. IsList(log') /\ Len(log') = Len(log) + 1 /\ InOrder'
      BY <2>1, <3>1, OneAnswer
    <3>3. Entries'
      BY <2>1, <3>1, OneAnswer
    <3>4. Len(log') >= Len(log)
      BY <1>0, <3>2
    <3>5. Sent'
      BY <1>0, <2>1, <2>2, <3>2, <3>4, SentStays
    <3> QED
      BY <2>1, <3>2, <3>3, <3>5 DEF LogInv
  <2> QED
    BY <2>3, <2>4
<1>4. CASE Respond
  <2>1. pc = "respond" /\ UNCHANGED <<script, toSend, wire, eof>>
    BY <1>4 DEF Respond, netVars
  <2>2. Received' = Received /\ Received' + Len(wire') = Received + Len(wire)
    BY <2>1 DEF Received, T
  <2>3. Climbing
    BY <2>1 DEF LogInv
  <2>4. IsList(log') /\ Len(log') >= Len(log) /\ Entries' /\ Climbing' /\ InOrder'
    <3>1. CASE log' = log
      <4>1. InOrder
        BY <1>0, <2>3, ClimbingOrder
      <4>2. InOrder'
        BY <2>1, <3>1, <4>1 DEF InOrder, Separate, Patient
      <4> QED
        BY <1>0, <2>1, <2>3, <3>1, <4>2 DEF Climbing
    <3>2. CASE log' # log
      <4>1. Send(buf[1].i, 200)
        BY <1>4, <3>2 DEF Respond
      <4>2. Complete(buf) /\ Verdicts(buf) = {0}
        BY <2>1 DEF ControlInv, InHand
      <4>3. Len(buf) >= 1
        BY <4>2, EndOfHeaderIs DEF ControlInv
      <4>4. PICK st \in {200, 400, 405, 413, 431, 501} : st = 200
        OBVIOUS
      <4>5. Send(buf[1].i, st) /\ script' = script /\ pc # "closed"
        BY <2>1, <4>1, <4>4
      <4>6. IsList(log') /\ Len(log') = Len(log) + 1
            /\ log'[Len(log) + 1][1] = buf[1].i /\ log'[Len(log) + 1][2] = 200
        BY <4>3, <4>4, <4>5, OneAnswer
      <4>7. \A n \in 1 .. Len(log) : log'[n] = log[n]
        BY <4>3, <4>5, OneAnswer
      <4>8. Entries'
        BY <4>3, <4>5, OneAnswer
      <4>9. PICK a \in 0 .. Received : Holds(a)
        BY DEF BufInv
      <4>10. buf[1].at = 1
        BY <4>2, <4>3, <4>9, HeadAt, NoVerdict
      <4>11. Len(log) + 1 <= buf[1].i /\ \A n \in 1 .. Len(log) : log[n][1] < buf[1].i
        BY <2>1, <4>3, <4>9, <4>10, OneAtATime
      <4>12. ASSUME NEW n \in 1 .. Len(log')
             PROVE  /\ log'[n][2] = 200 /\ n <= log'[n][1]
                    /\ \A m \in 1 .. n - 1 : log'[m][1] < log'[n][1]
        <5>1. CASE n \in 1 .. Len(log)
          <6>1. log[n][2] = 200 /\ n <= log[n][1] /\ \A m \in 1 .. n - 1 : log[m][1] < log[n][1]
            BY <2>3, <5>1 DEF Climbing
          <6>2. \A m \in 1 .. n - 1 : m \in 1 .. Len(log)
            BY <1>0, <5>1
          <6> QED
            BY <4>7, <5>1, <6>1, <6>2
        <5>2. CASE n = Len(log) + 1
          <6>1. \A m \in 1 .. n - 1 : m \in 1 .. Len(log)
            BY <1>0, <5>2
          <6> QED
            BY <4>6, <4>7, <4>11, <5>2, <6>1
        <5> QED
          BY <1>0, <4>6, <5>1, <5>2
      <4>13. InOrder'
        BY <4>3, <4>5, OneAnswer
      <4>14. Climbing'
        BY <4>12 DEF Climbing
      <4>15. Len(log') >= Len(log)
        BY <1>0, <4>6
      <4> QED
        BY <4>6, <4>8, <4>13, <4>14, <4>15
    <3> QED
      BY <3>1, <3>2
  <2>5. Sent'
    BY <1>0, <2>1, <2>2, <2>4, SentStays
  <2> QED
    BY <2>4, <2>5 DEF LogInv
<1>5. CASE Outside
  <2>1. UNCHANGED <<script, pc, log>>
    BY <1>5, OutsideIs
  <2>2. IF pc' = "closed" THEN InOrder' ELSE Climbing'
    BY <2>1 DEF LogInv, Climbing, InOrder, Separate, Patient
  <2>3. CASE ClientSends
    <3>1. PICK n \in 1 .. Len(toSend) : /\ Len(wire') = Len(wire) + n
                                        /\ \A k \in 1 .. n : Allowed(toSend[k].i)
      BY <2>3, NetSend
    <3>2. Received' = Received /\ T' = T /\ (Patient' <=> Patient)
      BY <2>1, <2>3, NetSend, SameScript
    <3>3. ASSUME Patient, NEW p \in 1 .. Received' + Len(wire') PROVE T[p].i <= Len(log) + 1
      <4>1. CASE p <= Received + Len(wire)
        BY <1>0, <3>3, <4>1 DEF LogInv
      <4>2. CASE ~(p <= Received + Len(wire))
        <5>1. Len(toSend) \in Nat
          BY NetNumbers
        <5>2. PICK k \in 1 .. n : p = Received + Len(wire) + k
          <6>1. p - (Received + Len(wire)) \in 1 .. n
            BY <1>0, <3>1, <3>2, <4>2, <5>1
          <6>2. p = Received + Len(wire) + (p - (Received + Len(wire)))
            BY <1>0
          <6> QED
            BY <6>1, <6>2
        <5>3. k \in 1 .. Len(toSend) /\ toSend[k] = T[p]
          BY <5>1, <5>2 DEF NetInv
        <5>4. Allowed(T[p].i)
          BY <3>1, <5>3
        <5>5. p \in 1 .. Len(T)
          BY <1>0, <5>1, <5>2, <5>3, NetNumbers
        <5>6. T[p].i \in 1 .. Len(script)
          BY <5>5, TokenIs DEF T, NetInv
        <5> QED
          BY <3>3, <5>4, <5>6 DEF Allowed, Patient
      <4> QED
        BY <4>1, <4>2
    <3>4. Sent'
      BY <2>1, <3>2, <3>3
    <3> QED
      BY <1>0, <2>1, <2>2, <3>4 DEF LogInv
  <2>4. CASE ClientCloses \/ Tick \/ UNCHANGED vars
    <3>1. UNCHANGED <<script, wire, toSend>>
      BY <2>4 DEF ClientCloses, Tick, vars, netVars
    <3>2. Received' + Len(wire') = Received + Len(wire)
      BY <3>1 DEF Received, T
    <3>3. IsList(log') /\ Len(log') >= Len(log)
      BY <1>0, <2>1
    <3>4. Sent'
      BY <1>0, <2>1, <3>2, <3>3, SentStays
    <3> QED
      BY <1>0, <2>1, <2>2, <3>4 DEF LogInv
  <2> QED
    BY <1>5, <2>3, <2>4 DEF Outside
<1> QED
  BY <1>1, <1>2, <1>3, <1>4, <1>5, Steps

(* The body: what there is of it in the buffer, then what is received.     *)
LEMMA BodyKept ==
  ASSUME FrameInv, UNCHANGED <<script, buf, body>>, Received' = Received,
         pc' = pc \/ pc' \notin InHand \/ (pc \in InHand /\ pc' = "respond")
  PROVE  BodyInv'
<1>1. T' = T /\ (Patient' <=> Patient)
  BY SameScript
<1>2. pc' \in InHand => pc \in InHand
  BY DEF InHand
<1>3. pc' = "body" => pc = "body"
  BY DEF InHand
<1> QED
  BY <1>1, <1>2, <1>3 DEF FrameInv, BodyInv, BodyFrom

LEMMA BodyStep ==
  ASSUME FrameInv, [Next]_vars
  PROVE  BodyInv'
<1> USE DEF FrameInv
<1>0. /\ script \in Scripts /\ Received \in Nat /\ Len(T) \in Nat /\ Len(wire) \in Nat
      /\ Len(buf) \in Nat /\ IsList(buf) /\ IsList(body) /\ Len(body) \in Nat
  BY NetNumbers DEF NetInv, ControlInv, IsList
<1>1. CASE Top \/ ParseHeaders
  <2>1. UNCHANGED <<script, toSend, wire, buf, body>>
        /\ (pc' \in {"parse", "read"} \/ (pc = "parsed" /\ pc' = "respond"))
    BY <1>1 DEF Top, ParseHeaders, netVars
  <2>2. Received' = Received
    BY <2>1 DEF Received, T
  <2> QED
    BY <2>1, <2>2, BodyKept DEF InHand
<1>2. CASE Recv
  <2>1. UNCHANGED <<script, toSend, eof, body>> /\ pc' \in {"parse", "read"}
    BY <1>2 DEF Recv
  <2>2. T' = T
    BY <2>1 DEF T
  <2>3. pc' \notin InHand
    BY <2>1 DEF InHand
  <2> QED
    BY <2>1, <2>2, <2>3 DEF BodyInv
<1>3. CASE Ending
  <2>1. UNCHANGED <<script, toSend, wire, buf, body>> /\ pc' = "closed"
    BY <1>3, EndingIs
  <2>2. Received' = Received
    BY <2>1 DEF Received, T
  <2> QED
    BY <2>1, <2>2, BodyKept DEF InHand
<1>4. CASE ParseOk
  <2>1. pc = "parse" /\ Verdicts(buf) = {0} /\ UNCHANGED <<script, toSend, wire, buf>> /\ Complete(buf)
    BY <1>4 DEF ParseOk, netVars, ControlInv
  <2>2. Received' = Received /\ T' = T /\ (Patient' <=> Patient)
    BY <2>1, SameScript DEF Received
  <2>3. PICK a \in 0 .. Received : Holds(a)
    BY DEF BufInv
  <2>4. a \in Nat /\ a + Len(buf) <= Received
    BY <1>0, <2>3 DEF Holds
  <2> DEFINE e == EndOfHeader(buf)
  <2>5. e \in 1 .. Len(buf) /\ Len(buf) >= 1
    BY <1>0, <2>1, EndOfHeaderIs
  <2>6. IsList(Rest(buf)) /\ Len(Rest(buf)) = Len(buf) - e /\ Len(Rest(buf)) \in Nat
        /\ \A k \in 1 .. Len(Rest(buf)) : Rest(buf)[k] = buf[e + k]
    BY <1>0, <2>1, RestIs
  <2>7. /\ Len(body') \in Nat /\ Len(body') <= Len(Rest(buf))
        /\ \A k \in 1 .. Len(body') : body'[k] = Rest(buf)[k]
        /\ pc' = "body" => Len(body') = Len(Rest(buf))
        /\ pc' \in {"parsed", "body"}
    <3>1. ContentLength(buf) \in Nat
      BY <2>1, ContentLengthIs
    <3>2. CASE Len(Rest(buf)) >= ContentLength(buf)
      <4>1. body' = SubSeq(Rest(buf), 1, ContentLength(buf)) /\ pc' = "parsed"
        BY <1>4, <3>2 DEF ParseOk
      <4>2. PICK q, z : q = Rest(buf) /\ z = ContentLength(buf)
        OBVIOUS
      <4>3. IsList(q) /\ z \in 0 .. Len(q) /\ body' = SubSeq(q, 1, z)
        BY <2>6, <3>1, <3>2, <4>1, <4>2
      <4>4. Len(body') = z /\ \A k \in 1 .. z : body'[k] = q[k]
        BY <4>3, Prefix
      <4> QED
        BY <3>1, <3>2, <4>1, <4>2, <4>4
    <3>3. CASE ~(Len(Rest(buf)) >= ContentLength(buf))
      BY <1>4, <2>6, <3>3 DEF ParseOk
    <3> QED
      BY <3>2, <3>3
  <2> HIDE DEF e
  <2>8. ASSUME NEW k \in 1 .. Len(body')
        PROVE  body'[k] = T[a + e + k] /\ a + e + k \in 1 .. Len(T)
    <3>1. k \in 1 .. Len(Rest(buf))
      BY <2>6, <2>7
    <3>2. PICK x \in 1 .. Len(buf) : x = e + k
      BY <1>0, <2>5, <2>6, <3>1
    <3>3. buf[x] = T[a + x] /\ a + x \in 1 .. Len(T)
      BY <2>3, InBuffer
    <3>4. a + x = a + e + k
      BY <2>4, <2>5, <3>2
    <3> QED
      BY <2>6, <2>7, <3>1, <3>2, <3>3, <3>4
  <2>9. buf[1].at = 1
    BY <2>1, <2>3, <2>5, HeadAt, NoVerdict
  <2> DEFINE i == buf[1].i
  <2>10. i \in 1 .. Len(script) /\ a = Off(script, i)
    BY <2>3, <2>5, <2>9, HeadIs
  <2>11. Patient /\ Clear(script[i]) => e = script[i].pad + 2
    BY <2>1, <2>3, <2>5, <2>9, HeaderEnd DEF e
  <2>12. Patient => a + Len(buf) = Received
    BY <2>1, <2>3, <2>9 DEF Holds
  <2>13. a + e + Len(body') <= Received /\ (Patient /\ pc' = "body" => a + e + Len(body') = Received)
    <3>1. PICK R \in Nat, l \in Nat, d \in Nat, m \in Nat :
            R = Received /\ l = Len(buf) /\ d = e /\ m = Len(body')
      <4>1. e \in Nat
        BY <2>5
      <4> QED
        BY <1>0, <2>7, <4>1
    <3>2. a + l <= R /\ m <= l - d /\ (Patient => a + l = R) /\ (pc' = "body" => m = l - d)
      BY <2>4, <2>6, <2>7, <2>12, <3>1
    <3>3. a + d + m <= R
      BY <2>4, <3>2
    <3>4. Patient /\ pc' = "body" => a + d + m = R
      BY <2>4, <3>2
    <3> QED
      BY <3>1, <3>3, <3>4
  <2>14. Patient /\ Clear(script[i]) => BodyFrom(i) = a + e
    <3>1. PICK j \in 1 .. Len(script) : j = i
      BY <2>10
    <3>2. script[j].pad \in Nat
      BY <1>0, RequestIs
    <3> QED
      BY <2>4, <2>10, <2>11, <3>1, <3>2 DEF BodyFrom
  <2>15. (\A k \in 1 .. Len(body) : \E p \in 1 .. Len(T) : body[k] = T[p])'
    BY <2>2, <2>8
  <2>16. BodyFrom(i)' = BodyFrom(i) /\ i' = i
    BY <2>1 DEF BodyFrom
  <2> HIDE DEF i
  <2>17. ASSUME Patient, Clear(script[i])
         PROVE  /\ \A k \in 1 .. Len(body') : body'[k] = T[BodyFrom(i) + k]
                /\ BodyFrom(i) + Len(body') <= Received
                /\ pc' = "body" => BodyFrom(i) + Len(body') = Received
    BY <2>8, <2>13, <2>14, <2>17
  <2> QED
    BY <2>1, <2>2, <2>15, <2>16, <2>17 DEF BodyInv, i
<1>5. CASE BodyRecv
  <2>1. PICK n \in 0 .. Len(wire) :
           /\ n \in Nat /\ IsList(SubSeq(wire, 1, n)) /\ Len(SubSeq(wire, 1, n)) = n
           /\ \A x \in 1 .. n : SubSeq(wire, 1, n)[x] = T[Received + x]
           /\ body' = body \o SubSeq(wire, 1, n) /\ wire' = Drop(wire, n)
    BY <1>5, BodyRecvTakes
  <2>2. pc = "body" /\ UNCHANGED <<script, toSend, eof, buf>> /\ pc' \in {"parsed", "body"}
    BY <1>5 DEF BodyRecv
  <2>3. Received' = Received + n /\ T' = T /\ (Patient' <=> Patient)
    BY <2>1, <2>2, NetReceive, SameScript
  <2>4. PICK q : q = SubSeq(wire, 1, n)
    OBVIOUS
  <2>5. IsList(q) /\ Len(q) = n /\ (\A x \in 1 .. n : q[x] = T[Received + x]) /\ body' = body \o q
    BY <2>1, <2>4
  <2>6. Len(body') = Len(body) + n /\ \A x \in 1 .. Len(body) : body'[x] = body[x]
    <3>1. IsList(body) /\ IsList(q) /\ body' = body \o q /\ Len(q) = n
      BY <1>0, <2>5
    <3>2. Len(body') = Len(body) + Len(q)
      BY <3>1, Concatenated
    <3>3. \A x \in 1 .. Len(body) : body'[x] = body[x]
      BY <3>1, Concatenated
    <3> QED
      BY <3>1, <3>2, <3>3
  <2>7. \A x \in 1 .. n : body'[Len(body) + x] = q[x]
    BY <1>0, <2>5, Concatenated
  <2>8. ASSUME NEW k \in 1 .. Len(body')
        PROVE  \/ k \in 1 .. Len(body) /\ body'[k] = body[k]
               \/ \E x \in 1 .. n : k = Len(body) + x /\ body'[k] = T[Received + x]
    <3>1. CASE k <= Len(body)
      BY <1>0, <2>6, <3>1
    <3>2. CASE ~(k <= Len(body))
      <4>1. k - Len(body) \in 1 .. n /\ k = Len(body) + (k - Len(body))
        BY <1>0, <2>1, <2>6, <3>2
      <4>2. PICK x \in 1 .. n : k = Len(body) + x
        BY <4>1
      <4> QED
        BY <2>5, <2>7, <4>2
    <3> QED
      BY <3>1, <3>2
  <2>9. \A x \in 1 .. n : Received + x \in 1 .. Len(T)
    BY <1>0, <2>1, NetNumbers
  <2>10. (\A k \in 1 .. Len(body) : \E p \in 1 .. Len(T) : body[k] = T[p])'
    BY <2>3, <2>8, <2>9 DEF BodyInv
  <2> DEFINE i == buf[1].i
  <2>11. BodyFrom(i)' = BodyFrom(i) /\ i' = i
    BY <2>2 DEF BodyFrom
  <2> HIDE DEF i
  <2>12. ASSUME Patient, Framed(script[i]), Clear(script[i])
         PROVE  /\ \A k \in 1 .. Len(body') : body'[k] = T[BodyFrom(i) + k]
                /\ BodyFrom(i) + Len(body') = Received'
    <3>1. /\ \A k \in 1 .. Len(body) : body[k] = T[BodyFrom(i) + k]
          /\ BodyFrom(i) + Len(body) = Received
      BY <2>2, <2>12 DEF BodyInv, InHand, i
    <3>2. BodyFrom(i) \in Int
      <4>1. PICK a \in 0 .. Received : Holds(a)
        BY DEF BufInv
      <4>2. Complete(buf)
        BY <2>2 DEF ControlInv, InHand
      <4>3. 1 \in 1 .. Len(buf)
        BY <1>0, <4>2, EndOfHeaderIs
      <4>4. PICK k \in 1 .. Len(buf) : k = 1
        BY <4>3
      <4>5. buf[k].i \in 1 .. Len(script)
        BY <4>1, InBuffer
      <4>6. PICK j \in 1 .. Len(script) : j = i
        BY <4>4, <4>5 DEF i
      <4>7. script[j].pad \in Nat /\ Off(script, j) \in Nat
        BY <1>0, RequestIs, Places
      <4> QED
        BY <4>6, <4>7 DEF BodyFrom
    <3>3. PICK F \in Int : F = BodyFrom(i)
      BY <3>2
    <3>4. F + Len(body) = Received
      BY <3>1, <3>3
    <3>5. ASSUME NEW k \in 1 .. Len(body') PROVE body'[k] = T[F + k]
      <4>1. CASE k \in 1 .. Len(body) /\ body'[k] = body[k]
        BY <3>1, <3>3, <4>1
      <4>2. CASE \E x \in 1 .. n : k = Len(body) + x /\ body'[k] = T[Received + x]
        <5>1. PICK x \in 1 .. n : k = Len(body) + x /\ body'[k] = T[Received + x]
          BY <4>2
        <5>2. Received + x = F + k
          BY <1>0, <3>4, <5>1
        <5> QED
          BY <5>1, <5>2
      <4> QED
        BY <2>8, <4>1, <4>2
    <3>6. F + Len(body') = Received'
      <4>1. PICK l \in Nat : l = Len(body)
        BY <1>0
      <4>2. PICK R \in Nat : R = Received
        BY <1>0
      <4>3. F + l = R /\ n \in Nat
        BY <2>1, <3>4, <4>1, <4>2
      <4>4. F + (l + n) = R + n
        BY <4>3
      <4> QED
        BY <2>3, <2>6, <4>1, <4>2, <4>4
    <3> QED
      BY <3>3, <3>5, <3>6
  <2>13. Received' \in Nat
    BY <1>0, <2>1, <2>3
  <2> QED
    BY <2>2, <2>3, <2>10, <2>11, <2>12, <2>13 DEF BodyInv, i
<1>6. CASE Respond
  <2>1. body' = <<>> /\ pc' \in {"top", "closed"}
    BY <1>6 DEF Respond
  <2>2. pc' \notin InHand /\ Len(body') = 0
    BY <2>1 DEF InHand
  <2> QED
    BY <2>2 DEF BodyInv
<1>7. CASE Outside
  <2>1. UNCHANGED <<script, pc, buf, body>>
    BY <1>7, OutsideIs
  <2>2. Received' = Received
    <3>1. CASE ClientSends
      BY <3>1, NetSend
    <3>2. CASE ClientCloses \/ Tick \/ UNCHANGED vars
      <4>1. UNCHANGED <<script, wire, toSend>>
        BY <3>2 DEF ClientCloses, Tick, vars, netVars
      <4> QED
        BY <4>1 DEF Received, T
    <3> QED
      BY <1>7, <3>1, <3>2 DEF Outside
  <2> QED
    BY <2>1, <2>2, BodyKept
<1> QED
  BY <1>1, <1>2, <1>3, <1>4, <1>5, <1>6, <1>7, Steps

(* A request that keeps the rules, of a client that waits: it is read from *)
(* its beginning, its header block fits, and no test fails.                *)
LEMMA GoodPasses ==
  ASSUME FrameInv, pc # "closed", Patient, Len(buf) >= 1, Good(script[buf[1].i])
  PROVE  /\ Complete(buf) => Verdicts(buf) = {0} /\ ~HeadersTooLarge(buf)
         /\ Len(buf) = BufferSize => Complete(buf)
<1> USE DEF FrameInv
<1> DEFINE i == buf[1].i
           r == script[i]
<1>0. PICK a \in 0 .. Received : Holds(a)
  BY DEF BufInv
<1>1. Len(buf) \in Nat /\ 1 \in 1 .. Len(buf) /\ script \in Scripts
  BY DEF ControlInv, IsList, NetInv
<1>2. buf[1].at = 1
  <2>1. PICK k \in 1 .. Len(buf) : k = 1
    BY <1>1
  <2>2. a + k \in 1 .. Len(T) /\ buf[k] = T[a + k]
    BY <1>0, InBuffer
  <2>3. a + 1 <= Len(T) /\ buf[1] = T[a + 1]
    BY <2>1, <2>2, NetNumbers
  <2>4. Fresh(a) /\ Neat(r)
    BY <1>0 DEF Holds, Neat, Good, Legal
  <2> QED
    BY <2>3, <2>4 DEF Fresh
<1>3. i \in 1 .. Len(script) /\ buf[1].t = "h"
  BY <1>0, <1>2, HeadIs
<1>4. PICK j \in 1 .. Len(script) : j = i
  BY <1>3
<1>5. script[j].pad \in Nat /\ Size(script[j]) \in Nat /\ script[j].sep \in {"E", "L"}
      /\ Size(script[j]) = script[j].pad + 2 + Len(script[j].body) /\ Len(script[j].body) \in Nat
      /\ script[j].cl \in Int
  BY <1>1, RequestIs
<1>6. r.fault = "none" /\ r.cl <= MaxBody /\ r.pad + 2 <= BufferSize /\ Clear(r)
  BY DEF Good, Legal, Clear
<1>7. ASSUME Complete(buf) PROVE Verdicts(buf) = {0} /\ ~HeadersTooLarge(buf)
  <2>1. Fields(buf) = {r} /\ Lengths(buf) \subseteq {1}
        /\ ContentLength(buf) = IF r.cl >= 0 THEN r.cl ELSE 0
    BY <1>0, <1>2, <1>6, <1>7, HeaderEnd
  <2>2. ~(ContentLength(buf) > MaxBody)
    BY <1>4, <1>5, <1>6, <2>1, BoundsAssumption
  <2> QED
    BY <1>3, <1>6, <2>1, <2>2, LegalVerdict
<1>8. ASSUME Len(buf) = BufferSize PROVE Complete(buf)
  <2>1. PICK k \in 1 .. Len(buf) : k = script[j].pad + 2
    BY <1>1, <1>4, <1>5, <1>6, <1>8
  <2>2. k \in 1 .. Size(script[j]) /\ k <= Size(script[i])
    BY <1>1, <1>4, <1>5, <2>1, SMTT(30)
  <2>3. buf[k].t = Kind(script[i], k)
    BY <1>0, <1>2, <2>2, HeadIs
  <2>4. Kind(script[j], k) = script[j].sep
    BY <1>5, <2>1 DEF Kind
  <2> QED
    BY <1>4, <1>5, <2>3, <2>4 DEF Complete, Has
<1> QED
  BY <1>7, <1>8

LEMMA ServedStep ==
  ASSUME FrameInv, ServedInv, [Next]_vars
  PROVE  ServedInv'
<1> USE DEF FrameInv
<1>0. script' = script
  <2>1. CASE Ending
    BY <2>1, EndingIs
  <2>2. CASE Outside
    BY <2>2, OutsideIs
  <2>3. CASE Top \/ Recv \/ ParseOk \/ BodyRecv \/ ParseHeaders \/ Respond
    BY <2>3 DEF Top, Recv, ParseOk, BodyRecv, ParseHeaders, Respond, netVars
  <2> QED
    BY <2>1, <2>2, <2>3, Steps
<1>1. (Calm' <=> Calm) /\ Failures' = Failures
  BY <1>0 DEF Calm, Failures, Patient
<1> SUFFICES ASSUME Calm
             PROVE  \A n \in 1 .. Len(log') :
                      Good(script[log'[n][1]]) =>
                        \/ log'[n][2] = 200
                        \/ pc' = "closed" /\ log'[n][2] = 413 /\ (left' = 0 \/ eof')
  BY <1>0, <1>1 DEF ServedInv
<1>2. Patient /\ Failures = {}
  BY DEF Calm
<1>3. pc # "closed" => \A n \in 1 .. Len(log) : Good(script[log[n][1]]) => log[n][2] = 200
  BY DEF ServedInv
<1>4. ASSUME pc # "closed", Len(buf) >= 1, NEW st \in {200, 400, 405, 413, 431, 501},
             Send(buf[1].i, st),
             Good(script[buf[1].i]) =>
               st = 200 \/ (pc' = "closed" /\ st = 413 /\ (left' = 0 \/ eof'))
      PROVE  \A n \in 1 .. Len(log') :
               Good(script[log'[n][1]]) =>
                 \/ log'[n][2] = 200
                 \/ pc' = "closed" /\ log'[n][2] = 413 /\ (left' = 0 \/ eof')
  <2>1. /\ Len(log') = Len(log) + 1 /\ Len(log) \in Nat
        /\ log'[Len(log) + 1][1] = buf[1].i /\ log'[Len(log) + 1][2] = st
    BY <1>0, <1>4, OneAnswer
  <2>2. \A n \in 1 .. Len(log) : log'[n] = log[n]
    BY <1>0, <1>4, OneAnswer
  <2>3. \A n \in 1 .. Len(log') : n \in 1 .. Len(log) \/ n = Len(log) + 1
    BY <2>1
  <2> QED
    BY <1>3, <1>4, <2>1, <2>2, <2>3
<1>5. CASE Top \/ Recv \/ ParseOk \/ BodyRecv \/ ParseHeaders
  <2>1. pc # "closed" /\ log' = log
    BY <1>5 DEF Top, Recv, ParseOk, BodyRecv, ParseHeaders
  <2> QED
    BY <1>3, <2>1
<1>6. CASE Respond
  <2>1. pc = "respond" /\ (log' = log \/ Send(buf[1].i, 200))
    BY <1>6 DEF Respond
  <2>2. Len(buf) >= 1
    BY <2>1, EndOfHeaderIs DEF ControlInv, InHand
  <2>3. PICK st \in {200, 400, 405, 413, 431, 501} : st = 200
    OBVIOUS
  <2>4. CASE log' = log
    BY <1>3, <2>1, <2>4
  <2>5. CASE Send(buf[1].i, 200)
    <3>1. pc # "closed" /\ Send(buf[1].i, st)
      BY <2>1, <2>3, <2>5
    <3> QED
      BY <1>4, <2>2, <2>3, <3>1
  <2> QED
    BY <2>1, <2>4, <2>5
<1>7. CASE Ending
  <2>1. pc # "closed" /\ pc' = "closed" /\ left' = left /\ eof' = eof
    BY <1>7, EndingLog, EndingIs
  <2>2. CASE log' = log
    BY <1>3, <2>1, <2>2
  <2>3. CASE log' # log
    <3>1. PICK st \in {200, 400, 405, 413, 431, 501} : Len(buf) >= 1 /\ Send(buf[1].i, st)
      BY <1>7, <2>3, EndingLog
    <3>2. ASSUME Good(script[buf[1].i]) PROVE st = 413 /\ (left' = 0 \/ eof')
      <4>0. /\ Complete(buf) => Verdicts(buf) = {0} /\ ~HeadersTooLarge(buf)
            /\ Len(buf) = BufferSize => Complete(buf)
        BY <1>2, <2>1, <3>1, <3>2, GoodPasses
      <4>1. Len(log) \in Nat /\ IsList(log)
        BY DEF LogInv, IsList
      <4>2. \A x : Send(buf[1].i, x) => x = st
        <5>1. ASSUME NEW x, Send(buf[1].i, x) PROVE x = st
          <6>1. PICK v, w : v = <<buf[1].i, x>> /\ w = <<buf[1].i, st>>
            OBVIOUS
          <6>2. log' = Append(log, v) /\ log' = Append(log, w)
            BY <3>1, <5>1, <6>1 DEF Send
          <6>3. Append(log, v)[Len(log) + 1] = v
            BY <4>1, AppendList
          <6>4. Append(log, w)[Len(log) + 1] = w
            BY <4>1, AppendList
          <6>5. v[2] = x /\ w[2] = st
            BY <6>1
          <6> QED
            BY <6>2, <6>3, <6>4, <6>5
        <5> QED
          BY <5>1
      <4>3. ~HeaderTooLarge
        <5>1. Room = 0 => Len(buf) = BufferSize
          BY BoundsAssumption DEF Room, ControlInv, IsList
        <5> QED
          BY <4>0, <5>1 DEF HeaderTooLarge, ControlInv
      <4>4. ~GiveUp
        BY <2>3 DEF GiveUp
      <4>5. ~Reject
        BY <4>0 DEF Reject, ControlInv
      <4>6. ~NoBodyMemory
        BY <1>2 DEF NoBodyMemory
      <4>7. ~RejectHeaders
        BY <1>2, <4>0 DEF RejectHeaders, ControlInv, InHand
      <4>8. BodyGiveUp
        BY <1>7, <4>3, <4>4, <4>5, <4>6, <4>7 DEF Ending
      <4>9. st = 413
        BY <4>2, <4>8 DEF BodyGiveUp
      <4>10. left = 0 \/ eof
        BY <1>2, <4>8 DEF BodyGiveUp, PeerGone
      <4> QED
        BY <2>1, <4>9, <4>10
    <3> QED
      BY <1>4, <2>1, <3>1, <3>2
  <2> QED
    BY <2>2, <2>3
<1>8. CASE Outside
  <2>1. UNCHANGED <<pc, log>>
    BY <1>8, OutsideIs
  <2>2. pc = "closed" /\ (left = 0 \/ eof) => left' = 0 \/ eof'
    BY <1>8 DEF Outside, ClientSends, ClientCloses, Tick, Polling, vars, netVars
  <2> QED
    BY <2>1, <2>2 DEF ServedInv
<1> QED
  BY <1>5, <1>6, <1>7, <1>8, Steps

FrameServed == FrameInv /\ TimeInv /\ ServedInv

LEMMA FrameStep == FrameServed /\ [Next]_vars => FrameServed'
<1> SUFFICES ASSUME FrameServed, [Next]_vars PROVE FrameServed'
  OBVIOUS
<1>1. FrameInv /\ TimeInv /\ ServedInv
  BY DEF FrameServed
<1>2. NetInv' /\ ControlInv' /\ BufInv' /\ LogInv' /\ BodyInv'
  BY <1>1, NetStep, ControlStep, BufStep, LogStep, BodyStep
<1>3. TimeInv' /\ ServedInv'
  BY <1>1, TimeStep, ServedStep
<1> QED
  BY <1>2, <1>3 DEF FrameServed, FrameInv

LEMMA FrameAlways == Spec => []FrameServed
<1>1. Init => FrameServed
  BY FrameInit, TimeInit DEF FrameServed, FrameInv
<1> QED
  BY <1>1, FrameStep, PTL DEF Spec

(* The buffer never holds more than its size, the body never more than the *)
(* limit, and both hold only what the client sent.                         *)
LEMMA TypeFollows == FrameServed => TypeOK
<1> SUFFICES ASSUME FrameServed PROVE TypeOK
  OBVIOUS
<1> USE DEF FrameServed, FrameInv
<1> DEFINE Token == [t : {"h", "x", "E", "L", "b"}, i : 1 .. Len(script), at : Nat]
<1>0. /\ script \in Scripts /\ Received \in Nat /\ Len(T) \in Nat /\ Len(wire) \in Nat
      /\ Len(toSend) \in Nat /\ Received + Len(wire) + Len(toSend) = Len(T)
  BY NetNumbers DEF NetInv
<1>1. ASSUME NEW p \in 1 .. Len(T) PROVE T[p] \in Token
  <2> DEFINE q == T[p]
  <2>1. q.i \in 1 .. Len(script) /\ q.at \in 1 .. Size(script[q.i])
        /\ q = Tok(Kind(script[q.i], q.at), q.i, q.at)
    BY <1>0, TokenIs DEF T
  <2> HIDE DEF q
  <2>2. PICK i \in 1 .. Len(script), at \in 1 .. Size(script[q.i]) : i = q.i /\ at = q.at
    BY <2>1
  <2>3. Kind(script[i], at) \in {"h", "x", "E", "L", "b"} /\ at \in Nat
    BY <1>0, <2>2, KindIs
  <2>4. q = [t |-> Kind(script[i], at), i |-> i, at |-> at]
    BY <2>1, <2>2 DEF Tok
  <2>5. q \in Token
    BY <2>3, <2>4
  <2> QED
    BY <2>5 DEF q
<1> HIDE DEF Token
<1>2. \A k \in 1 .. Len(wire) : wire[k] \in Token
  <2> SUFFICES ASSUME NEW k \in 1 .. Len(wire) PROVE wire[k] \in Token
    OBVIOUS
  <2>1. Received + k \in 1 .. Len(T) /\ wire[k] = T[Received + k]
    BY <1>0 DEF NetInv
  <2> QED
    BY <1>1, <2>1
<1>3. \A k \in 1 .. Len(toSend) : toSend[k] \in Token
  <2> SUFFICES ASSUME NEW k \in 1 .. Len(toSend) PROVE toSend[k] \in Token
    OBVIOUS
  <2>1. Received + Len(wire) + k \in 1 .. Len(T) /\ toSend[k] = T[Received + Len(wire) + k]
    BY <1>0 DEF NetInv
  <2> QED
    BY <1>1, <2>1
<1>4. \A k \in 1 .. Len(buf) : buf[k] \in Token
  <2> SUFFICES ASSUME NEW k \in 1 .. Len(buf) PROVE buf[k] \in Token
    OBVIOUS
  <2>1. PICK a \in 0 .. Received : Holds(a)
    BY DEF BufInv
  <2>2. a + k \in 1 .. Len(T) /\ buf[k] = T[a + k]
    BY <2>1, InBuffer
  <2> QED
    BY <1>1, <2>2
<1>5. \A k \in 1 .. Len(body) : body[k] \in Token
  BY <1>1 DEF BodyInv
<1>6. \A q \in {toSend, wire, buf, body} : \A k \in 1 .. Len(q) : q[k] \in Token
  BY <1>2, <1>3, <1>4, <1>5
<1>7. script \in Scripts /\ eof \in BOOLEAN /\ ka \in BOOLEAN
  BY DEF NetInv, ControlInv
<1>8. pc \in {"top", "read", "parse", "body", "parsed", "respond", "closed"}
      /\ Len(buf) <= BufferSize /\ Len(body) <= MaxBody
  BY DEF ControlInv, InHand
<1>9. left \in Nat /\ elapsed \in Nat
  BY DEF TimeInv
<1>10. \A n \in 1 .. Len(log) :
         log[n] \in (1 .. Len(script)) \X {200, 400, 405, 413, 431, 501}
  BY DEF LogInv
<1> QED
  BY <1>6, <1>7, <1>8, <1>9, <1>10 DEF TypeOK, Token

(* mnet_handle_client()'s buffer never holds more than sizeof(buffer) - 1, *)
(* read_full_body() never returns more than max_body_size, and neither     *)
(* holds anything the client did not send.                                 *)
THEOREM TypeHolds == Spec => []TypeOK
  BY FrameAlways, TypeFollows, PTL

(* For every client, every segmentation and every failure: the answers of  *)
(* one connection come in the order of the requests, the last of them may  *)
(* be an error, and no request that can be told from the next is answered  *)
(* twice.                                                                  *)
THEOREM InOrderHolds == Spec => []InOrder
<1>1. FrameServed => InOrder
  <2> SUFFICES ASSUME FrameServed PROVE InOrder
    OBVIOUS
  <2>1. LogInv
    BY DEF FrameServed, FrameInv
  <2>2. CASE pc = "closed"
    BY <2>1, <2>2 DEF LogInv
  <2>3. CASE pc # "closed"
    BY <2>1, <2>3, ClimbingOrder DEF LogInv
  <2> QED
    BY <2>2, <2>3
<1> QED
  BY <1>1, FrameAlways, PTL

(* A request that keeps every rule, of a client that waits for its answers *)
(* while nothing fails, is never refused, wherever its bytes were cut:     *)
(* mnet_handle_client() and parse_request() find its header block whole.   *)
THEOREM WellFormedServedHolds == Spec => []WellFormedServed
<1>1. FrameServed => WellFormedServed
  BY DEF FrameServed, ServedInv, WellFormedServed, NotRefused
<1> QED
  BY <1>1, FrameAlways, PTL

(* read_full_body() joins what the buffer held of the body to what it      *)
(* receives: the handler gets the bytes the client sent as this body.      *)
THEOREM BodyIntactHolds == Spec => []BodyIntact
<1>1. FrameServed => BodyIntact
  <2> USE DEF FrameServed, FrameInv
  <2> DEFINE i == buf[1].i
             r == script[i]
  <2> SUFFICES ASSUME FrameServed, pc = "respond", Patient, Legal(r), r.sep = "E" \/ Unblank(r)
               PROVE  body = Drop(Message(r, i), r.pad + 2)
    BY DEF BodyIntact
  <2>0. Framed(r) /\ Clear(r)
    BY DEF Legal, Clear
  <2>1. PICK a \in 0 .. Received : Holds(a)
    BY DEF BufInv
  <2>2. Complete(buf) /\ Verdicts(buf) = {0} /\ Len(body) = ContentLength(buf) /\ IsList(body)
        /\ script \in Scripts
    BY DEF ControlInv, InHand, NetInv
  <2>3. Len(buf) >= 1
    BY <2>2, EndOfHeaderIs DEF ControlInv
  <2>4. buf[1].at = 1
    BY <2>1, <2>2, <2>3, HeadAt, NoVerdict
  <2>5. i \in 1 .. Len(script)
    BY <2>1, <2>3, <2>4, HeadIs
  <2>6. ContentLength(buf) = IF r.cl >= 0 THEN r.cl ELSE 0
    BY <2>0, <2>1, <2>2, <2>3, <2>4, HeaderEnd
  <2>7. \A k \in 1 .. Len(body) : body[k] = T[BodyFrom(i) + k]
    BY <2>0 DEF BodyInv, InHand
  <2>8. PICK j \in 1 .. Len(script) : j = i
    BY <2>5
  <2>9. /\ script[j].pad \in Nat /\ Len(script[j].body) \in Nat /\ Off(script, j) \in Nat
        /\ Size(script[j]) = script[j].pad + 2 + Len(script[j].body)
    BY <2>2, RequestIs, Places
  <2>10. Len(body) = Len(script[j].body)
    BY <2>0, <2>2, <2>6, <2>8, FramedLength
  <2> DEFINE m == Message(script[j], j)
             d == script[j].pad + 2
  <2>11. IsList(m) /\ Len(m) = Size(script[j])
    BY <2>2, MessageIs
  <2>12. \A at \in 1 .. Size(script[j]) : m[at] = Tok(Kind(script[j], at), j, at)
    BY <2>2, MessageIs
  <2> HIDE DEF m
  <2>13. d \in 0 .. Len(m) /\ Len(m) - d = Len(script[j].body) /\ d \in Nat
    BY <2>9, <2>11, SMTT(30)
  <2> DEFINE u == Drop(m, d)
  <2>14. IsList(u) /\ Len(u) = Len(m) - d /\ \A x \in 1 .. Len(m) - d : u[x] = m[d + x]
    BY <2>11, <2>13, Suffix DEF Drop
  <2> HIDE DEF u, d
  <2>15. ASSUME NEW k \in 1 .. Len(body) PROVE body[k] = u[k]
    <3>0. PICK l \in Nat : l = Len(script[j].body)
      BY <2>9
    <3>1. PICK x \in 1 .. Size(script[j]) : x = d + k
      <4>1. Size(script[j]) = d + l /\ k \in 1 .. l
        BY <2>9, <2>10, <3>0 DEF d
      <4>2. d + k \in 1 .. d + l
        BY <2>13, <4>1
      <4> QED
        BY <4>1, <4>2
    <3>2. T[Off(script, j) + x] = Tok(Kind(script[j], x), j, x)
      BY <2>2, TokenAt DEF T
    <3>3. m[x] = Tok(Kind(script[j], x), j, x)
      BY <2>12
    <3>4. BodyFrom(j) + k = Off(script, j) + x
      <4>1. PICK o \in Nat, b \in Nat : o = Off(script, j) /\ b = script[j].pad
        BY <2>9
      <4>2. BodyFrom(j) = o + b + 2 /\ d = b + 2
        BY <4>1 DEF BodyFrom, d
      <4>3. (o + b + 2) + k = o + ((b + 2) + k)
        BY <4>1, <2>10, <3>0
      <4> QED
        BY <3>1, <4>1, <4>2, <4>3
    <3>5. body[k] = T[BodyFrom(j) + k]
      BY <2>7, <2>8
    <3>6. u[k] = m[x]
      BY <2>10, <2>13, <2>14, <3>1
    <3> QED
      BY <3>2, <3>3, <3>4, <3>5, <3>6
  <2>16. body = u
    BY <2>2, <2>10, <2>13, <2>14, <2>15, SameList
  <2> QED
    BY <2>8, <2>16 DEF u, m, d
<1> QED
  BY <1>1, FrameAlways, PTL

=============================================================================
