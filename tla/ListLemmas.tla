----------------------------- MODULE ListLemmas -----------------------------
(***************************************************************************)
(* What the proofs of several modules need of numbers and of sequences of  *)
(* tokens.  Least stands in for induction: a property of every number      *)
(* holds if there is no smallest number without it.                        *)
(***************************************************************************)
EXTENDS Integers, Sequences, TLAPS, NaturalsInduction, WellFoundedInduction

(* A set of numbers that is not empty has a smallest one.                  *)
LEMMA Least ==
  ASSUME NEW T, T \subseteq Nat, T # {}
  PROVE  \E x \in T : \A y \in T : x <= y
<1>1. \E x \in T : \A y \in T : ~(<<y, x>> \in OpToRel(<, Nat))
  BY NatLessThanWellFounded, WFMin, Zenon
<1>2. PICK x \in T : \A y \in T : ~(<<y, x>> \in {ss \in Nat \X Nat : ss[1] < ss[2]})
  BY <1>1, Zenon DEF OpToRel
<1>3. \A y \in T : ~(y < x)
  BY <1>2
<1> QED
  BY <1>3

(* A set of numbers up to m has a greatest one.                            *)
LEMMA Greatest ==
  ASSUME NEW m \in Nat, NEW S \in SUBSET (1 .. m), S # {}
  PROVE  \E x \in S : \A y \in S : y <= x
<1> DEFINE Bounds == {b \in Nat : \A y \in S : y <= b}
<1>1. m \in Bounds
  OBVIOUS
<1>2. PICK b \in Bounds : \A c \in Bounds : b <= c
  BY <1>1, Least
<1>3. b \in Nat /\ \A y \in S : y <= b /\ y \in Nat /\ y >= 1
  BY <1>2
<1>4. ASSUME b \notin S PROVE FALSE
  <2>1. b >= 1
    <3>1. PICK y : y \in S
      OBVIOUS
    <3> QED
      BY <1>3, <3>1
  <2>2. \A y \in S : y <= b - 1
    BY <1>3, <1>4
  <2>3. b - 1 \in Bounds
    BY <1>3, <2>1, <2>2
  <2> QED
    BY <1>2, <1>3, <2>3
<1> QED
  BY <1>3, <1>4

(* A sequence of whatever, by its length and elements; one that grows by   *)
(* one, that loses its head, and two put together.                         *)
IsList(s) == Len(s) \in Nat /\ s = [x \in 1 .. Len(s) |-> s[x]]

LEMMA ListIs ==
  ASSUME NEW S, NEW s \in Seq(S)
  PROVE  IsList(s)
  BY DEF IsList

LEMMA ListOver ==
  ASSUME NEW s, IsList(s), NEW S, \A x \in 1 .. Len(s) : s[x] \in S
  PROVE  s \in Seq(S)
  BY DEF IsList

LEMMA AppendList ==
  ASSUME NEW s, IsList(s), NEW e
  PROVE  /\ IsList(Append(s, e)) /\ Len(Append(s, e)) = Len(s) + 1
         /\ Append(s, e)[Len(s) + 1] = e
         /\ \A x \in 1 .. Len(s) : Append(s, e)[x] = s[x]
<1> DEFINE S == {s[x] : x \in 1 .. Len(s)} \union {e}
<1>1. s \in Seq(S) /\ e \in S
  BY DEF IsList
<1> HIDE DEF S
<1>2. Append(s, e) \in Seq(S) /\ Len(Append(s, e)) = Len(s) + 1
      /\ Append(s, e)[Len(s) + 1] = e /\ \A x \in 1 .. Len(s) : Append(s, e)[x] = s[x]
  BY <1>1
<1> QED
  BY <1>2, ListIs, Zenon

LEMMA Excepted ==
  ASSUME NEW s, IsList(s), NEW k \in 1 .. Len(s), NEW e, NEW t, t = [s EXCEPT ![k] = e]
  PROVE  /\ IsList(t) /\ Len(t) = Len(s) /\ t[k] = e
         /\ \A x \in 1 .. Len(s) : x # k => t[x] = s[x]
<1> DEFINE S == {s[x] : x \in 1 .. Len(s)} \union {e}
<1>1. s \in Seq(S) /\ e \in S
  BY ListOver
<1> HIDE DEF S
<1>2. t \in Seq(S) /\ Len(t) = Len(s) /\ t[k] = e
      /\ \A x \in 1 .. Len(s) : x # k => t[x] = s[x]
  BY <1>1
<1>3. IsList(t)
  BY <1>2, ListIs
<1> QED
  BY <1>2, <1>3

LEMMA TailList ==
  ASSUME NEW s, IsList(s), s # <<>>
  PROVE  /\ IsList(Tail(s)) /\ Len(Tail(s)) = Len(s) - 1 /\ Len(s) >= 1 /\ Head(s) = s[1]
         /\ \A x \in 1 .. Len(s) - 1 : Tail(s)[x] = s[x + 1]
<1> DEFINE S == {s[x] : x \in 1 .. Len(s)}
<1>1. s \in Seq(S)
  BY DEF IsList
<1> HIDE DEF S
<1>2. Tail(s) \in Seq(S) /\ Len(Tail(s)) = Len(s) - 1 /\ Len(s) >= 1 /\ Head(s) = s[1]
      /\ \A x \in 1 .. Len(s) - 1 : Tail(s)[x] = s[x + 1]
  BY <1>1
<1> QED
  BY <1>2, ListIs, Zenon

LEMMA ConcatList ==
  ASSUME NEW s, IsList(s), NEW t, IsList(t)
  PROVE  /\ IsList(s \o t) /\ Len(s \o t) = Len(s) + Len(t)
         /\ \A x \in 1 .. Len(s) : (s \o t)[x] = s[x]
         /\ \A x \in 1 .. Len(t) : (s \o t)[Len(s) + x] = t[x]
<1> DEFINE S == {s[x] : x \in 1 .. Len(s)} \union {t[x] : x \in 1 .. Len(t)}
<1>1. s \in Seq(S) /\ t \in Seq(S)
  BY DEF IsList
<1> HIDE DEF S
<1>2. s \o t \in Seq(S) /\ Len(s \o t) = Len(s) + Len(t)
      /\ (\A x \in 1 .. Len(s) : (s \o t)[x] = s[x])
      /\ (\A x \in 1 .. Len(t) : (s \o t)[Len(s) + x] = t[x])
  BY <1>1
<1> QED
  BY <1>2, ListIs, Zenon

(* Lists are equal if their elements are.                                  *)
LEMMA Prefix ==
  ASSUME NEW s, IsList(s), NEW n \in 0 .. Len(s)
  PROVE  /\ IsList(SubSeq(s, 1, n)) /\ Len(SubSeq(s, 1, n)) = n
         /\ \A x \in 1 .. n : SubSeq(s, 1, n)[x] = s[x]
<1> DEFINE S == {s[x] : x \in 1 .. Len(s)}
<1>1. s \in Seq(S)
  BY DEF IsList
<1> HIDE DEF S
<1>2. /\ SubSeq(s, 1, n) \in Seq(S) /\ Len(SubSeq(s, 1, n)) = n
      /\ \A x \in 1 .. n : SubSeq(s, 1, n)[x] = s[x]
  BY <1>1
<1> QED
  BY <1>2, ListIs

LEMMA Suffix ==
  ASSUME NEW s, IsList(s), NEW n \in 0 .. Len(s)
  PROVE  /\ IsList(SubSeq(s, n + 1, Len(s))) /\ Len(SubSeq(s, n + 1, Len(s))) = Len(s) - n
         /\ \A x \in 1 .. Len(s) - n : SubSeq(s, n + 1, Len(s))[x] = s[n + x]
<1> DEFINE S == {s[x] : x \in 1 .. Len(s)}
<1>1. s \in Seq(S)
  BY DEF IsList
<1> HIDE DEF S
<1>2. /\ SubSeq(s, n + 1, Len(s)) \in Seq(S) /\ Len(SubSeq(s, n + 1, Len(s))) = Len(s) - n
      /\ \A x \in 1 .. Len(s) - n : SubSeq(s, n + 1, Len(s))[x] = s[n + x]
  BY <1>1
<1> QED
  BY <1>2, ListIs

LEMMA Part ==
  ASSUME NEW s, IsList(s), NEW i \in Nat, NEW j \in i .. Len(s), NEW t, t = SubSeq(s, i + 1, j)
  PROVE  /\ IsList(t) /\ Len(t) = j - i
         /\ \A x \in 1 .. j - i : t[x] = s[i + x]
<1> DEFINE S == {s[x] : x \in 1 .. Len(s)}
<1>1. s \in Seq(S)
  BY DEF IsList
<1> HIDE DEF S
<1>2. /\ t \in Seq(S) /\ Len(t) = j - i
      /\ \A x \in 1 .. j - i : t[x] = s[i + x]
  BY <1>1
<1> QED
  BY <1>2, ListIs

LEMMA Concatenated ==
  ASSUME NEW s, IsList(s), NEW t, IsList(t), NEW u, u = s \o t
  PROVE  /\ IsList(u) /\ Len(u) = Len(s) + Len(t)
         /\ \A x \in 1 .. Len(s) : u[x] = s[x]
         /\ \A x \in 1 .. Len(t) : u[Len(s) + x] = t[x]
  BY ConcatList

LEMMA SameList ==
  ASSUME NEW s, IsList(s), NEW t, IsList(t), Len(s) = Len(t),
         \A x \in 1 .. Len(s) : s[x] = t[x]
  PROVE  s = t
  BY DEF IsList

(* Two queues one after the other: the head of the second moves to the     *)
(* first, the head of the first is taken.                                  *)
LEMMA MoveHead ==
  ASSUME NEW s, IsList(s), NEW t, IsList(t), t # <<>>
  PROVE  Append(s, Head(t)) \o Tail(t) = s \o t
<1> DEFINE a == Append(s, Head(t))
           b == a \o Tail(t)
           c == s \o t
<1>1. IsList(a) /\ Len(a) = Len(s) + 1 /\ a[Len(s) + 1] = Head(t)
      /\ \A x \in 1 .. Len(s) : a[x] = s[x]
  BY AppendList
<1>2. IsList(Tail(t)) /\ Len(Tail(t)) = Len(t) - 1 /\ Len(t) >= 1 /\ Head(t) = t[1]
      /\ \A x \in 1 .. Len(t) - 1 : Tail(t)[x] = t[x + 1]
  BY TailList
<1> HIDE DEF a
<1>3. IsList(b) /\ Len(b) = Len(a) + Len(Tail(t)) /\ (\A x \in 1 .. Len(a) : b[x] = a[x])
      /\ (\A x \in 1 .. Len(Tail(t)) : b[Len(a) + x] = Tail(t)[x])
  <2>1. IsList(a) /\ IsList(Tail(t))
    BY <1>1, <1>2
  <2> QED
    BY <2>1, ConcatList
<1>4. IsList(c) /\ Len(c) = Len(s) + Len(t) /\ (\A x \in 1 .. Len(s) : c[x] = s[x])
      /\ (\A x \in 1 .. Len(t) : c[Len(s) + x] = t[x])
  BY ConcatList
<1>5. Len(s) \in Nat /\ Len(t) \in Nat
  BY DEF IsList
<1> HIDE DEF b, c
<1>6. Len(b) = Len(c)
  BY <1>1, <1>2, <1>3, <1>4, <1>5
<1>7. ASSUME NEW x \in 1 .. Len(b) PROVE b[x] = c[x]
  <2>1. CASE x <= Len(s)
    <3>1. x \in 1 .. Len(s) /\ x \in 1 .. Len(a)
      BY <1>1, <1>5, <2>1
    <3> QED
      BY <1>1, <1>3, <1>4, <3>1
  <2>2. CASE x = Len(s) + 1
    <3>1. x \in 1 .. Len(a) /\ 1 \in 1 .. Len(t)
      BY <1>1, <1>2, <1>5, <2>2
    <3>2. b[x] = Head(t) /\ c[x] = t[1]
      BY <1>1, <1>3, <1>4, <2>2, <3>1
    <3> QED
      BY <1>2, <3>2
  <2>3. CASE x > Len(s) + 1
    <3> DEFINE y == x - (Len(s) + 1)
    <3>1. y \in 1 .. Len(t) - 1 /\ y \in 1 .. Len(Tail(t)) /\ x = Len(a) + y
          /\ y + 1 \in 1 .. Len(t) /\ x = Len(s) + (y + 1)
      BY <1>1, <1>2, <1>3, <1>5, <2>3
    <3> HIDE DEF y
    <3>2. b[x] = Tail(t)[y] /\ c[x] = t[y + 1]
      BY <1>3, <1>4, <3>1
    <3> QED
      BY <1>2, <3>1, <3>2
  <2>4. x \in Nat
    BY <1>3 DEF IsList
  <2> QED
    BY <1>5, <2>1, <2>2, <2>3, <2>4
<1>8. b = c
  BY <1>3, <1>4, <1>6, <1>7, SameList
<1> QED
  BY <1>8 DEF a, b, c

LEMMA TakeHead ==
  ASSUME NEW s, IsList(s), NEW t, IsList(t), s # <<>>
  PROVE  /\ Tail(s) \o t = Tail(s \o t)
         /\ Head(s \o t) = Head(s) /\ s \o t # <<>>
<1> DEFINE a == Tail(s) \o t
           c == s \o t
           b == Tail(c)
<1>1. IsList(Tail(s)) /\ Len(Tail(s)) = Len(s) - 1 /\ Len(s) >= 1 /\ Head(s) = s[1]
      /\ \A x \in 1 .. Len(s) - 1 : Tail(s)[x] = s[x + 1]
  BY TailList
<1>2. IsList(a) /\ Len(a) = Len(Tail(s)) + Len(t)
      /\ (\A x \in 1 .. Len(Tail(s)) : a[x] = Tail(s)[x])
      /\ (\A x \in 1 .. Len(t) : a[Len(Tail(s)) + x] = t[x])
  BY <1>1, ConcatList
<1>3. IsList(c) /\ Len(c) = Len(s) + Len(t) /\ (\A x \in 1 .. Len(s) : c[x] = s[x])
      /\ (\A x \in 1 .. Len(t) : c[Len(s) + x] = t[x])
  BY ConcatList
<1>4. Len(s) \in Nat /\ Len(t) \in Nat
  BY DEF IsList
<1> HIDE DEF c
<1>5. c # <<>>
  BY <1>1, <1>3, <1>4
<1>6. IsList(b) /\ Len(b) = Len(c) - 1 /\ Head(c) = c[1]
      /\ \A x \in 1 .. Len(c) - 1 : b[x] = c[x + 1]
  BY <1>3, <1>5, TailList
<1>7. Head(c) = Head(s)
  <2>1. 1 \in 1 .. Len(s)
    BY <1>1, <1>4
  <2> QED
    BY <1>1, <1>3, <1>6, <2>1
<1> HIDE DEF a, b
<1>8. Len(a) = Len(b)
  BY <1>1, <1>2, <1>3, <1>4, <1>6
<1>9. ASSUME NEW x \in 1 .. Len(a) PROVE a[x] = b[x]
  <2>1. x \in Nat /\ x \in 1 .. Len(c) - 1 /\ b[x] = c[x + 1]
    BY <1>2, <1>6, <1>8 DEF IsList
  <2>2. CASE x <= Len(s) - 1
    <3>1. x \in 1 .. Len(s) - 1 /\ x \in 1 .. Len(Tail(s)) /\ x + 1 \in 1 .. Len(s)
      BY <1>1, <1>4, <2>1, <2>2
    <3> QED
      BY <1>1, <1>2, <1>3, <2>1, <3>1
  <2>3. CASE x > Len(s) - 1
    <3> DEFINE y == x - (Len(s) - 1)
    <3>1. y \in 1 .. Len(t) /\ x = Len(Tail(s)) + y /\ x + 1 = Len(s) + y
      BY <1>1, <1>2, <1>4, <2>1, <2>3
    <3> HIDE DEF y
    <3> QED
      BY <1>2, <1>3, <2>1, <3>1
  <2> QED
    BY <1>4, <2>1, <2>2, <2>3
<1>10. a = b
  BY <1>2, <1>6, <1>8, <1>9, SameList
<1> QED
  BY <1>5, <1>7, <1>10 DEF a, b, c

(* Concatenation: nothing, one element, three lists.                       *)
LEMMA ConcatEmpty ==
  ASSUME NEW s, IsList(s)
  PROVE  IsList(<<>>) /\ Len(<<>>) = 0 /\ <<>> \o s = s /\ s \o <<>> = s
<1>1. IsList(<<>>) /\ Len(<<>>) = 0 /\ Len(s) \in Nat
  BY DEF IsList
<1>2. IsList(<<>> \o s) /\ Len(<<>> \o s) = Len(<<>>) + Len(s)
      /\ (\A x \in 1 .. Len(s) : (<<>> \o s)[Len(<<>>) + x] = s[x])
  BY <1>1, ConcatList
<1>3. <<>> \o s = s
  <2>1. Len(<<>> \o s) = Len(s) /\ \A x \in 1 .. Len(s) : (<<>> \o s)[x] = s[x]
    BY <1>1, <1>2
  <2> QED
    BY <1>2, <2>1, SameList
<1>4. IsList(s \o <<>>) /\ Len(s \o <<>>) = Len(s) + Len(<<>>)
      /\ (\A x \in 1 .. Len(s) : (s \o <<>>)[x] = s[x])
  BY <1>1, ConcatList
<1>5. s \o <<>> = s
  <2>1. Len(s \o <<>>) = Len(s)
    BY <1>1, <1>4
  <2> QED
    BY <1>4, <2>1, SameList
<1> QED
  BY <1>1, <1>3, <1>5

LEMMA ConsIs ==
  ASSUME NEW e, NEW s, IsList(s)
  PROVE  /\ IsList(<<e>>) /\ IsList(<<e>> \o s) /\ <<e>> \o s # <<>>
         /\ Head(<<e>> \o s) = e /\ Tail(<<e>> \o s) = s
<1>1. IsList(<<e>>) /\ <<e>> # <<>> /\ Head(<<e>>) = e /\ Tail(<<e>>) = <<>>
  BY DEF IsList
<1>2. IsList(<<e>> \o s)
  BY <1>1, ConcatList
<1>3. Tail(<<e>>) \o s = Tail(<<e>> \o s) /\ Head(<<e>> \o s) = e /\ <<e>> \o s # <<>>
  <2> DEFINE o == <<e>>
  <2>1. IsList(o) /\ o # <<>> /\ Head(o) = e
    BY <1>1
  <2> HIDE DEF o
  <2>2. Tail(o) \o s = Tail(o \o s) /\ Head(o \o s) = e /\ o \o s # <<>>
    BY <2>1, TakeHead
  <2> QED
    BY <2>2 DEF o
<1>4. <<>> \o s = s
  BY ConcatEmpty
<1> QED
  BY <1>1, <1>2, <1>3, <1>4

LEMMA ConcatAssoc ==
  ASSUME NEW s, IsList(s), NEW t, IsList(t), NEW u, IsList(u)
  PROVE  (s \o t) \o u = s \o (t \o u)
<1> DEFINE S == {s[x] : x \in 1 .. Len(s)} \union {t[x] : x \in 1 .. Len(t)}
                  \union {u[x] : x \in 1 .. Len(u)}
<1>1. s \in Seq(S) /\ t \in Seq(S) /\ u \in Seq(S)
  BY SMTT(30) DEF IsList
<1> HIDE DEF S
<1> QED
  BY <1>1

(* What follows a place of a sequence, up to another.                      *)
LEMMA PartOf ==
  ASSUME NEW s \in Seq(STRING), NEW i \in Nat, NEW j \in i .. Len(s)
  PROVE  /\ SubSeq(s, i + 1, j) \in Seq(STRING) /\ Len(SubSeq(s, i + 1, j)) = j - i
         /\ \A k \in 1 .. j - i : SubSeq(s, i + 1, j)[k] = s[i + k]
  OBVIOUS

(* A part of a sequence, known by its elements.                            *)
LEMMA SamePart ==
  ASSUME NEW s \in Seq(STRING), NEW i \in Nat, NEW j \in i .. Len(s),
         NEW p \in Seq(STRING), j - i = Len(p), \A k \in 1 .. Len(p) : s[i + k] = p[k]
  PROVE  SubSeq(s, i + 1, j) = p
<1>1. SubSeq(s, i + 1, j) \in Seq(STRING) /\ Len(SubSeq(s, i + 1, j)) = Len(p)
      /\ \A k \in 1 .. Len(p) : SubSeq(s, i + 1, j)[k] = p[k]
  BY PartOf
<1> QED
  BY <1>1

(* Two sequences joined, and the parts of the result.                      *)
LEMMA JoinedTwo ==
  ASSUME NEW a \in Seq(STRING), NEW b \in Seq(STRING)
  PROVE  /\ a \o b \in Seq(STRING) /\ Len(a \o b) = Len(a) + Len(b)
         /\ \A k \in 1 .. Len(a) : (a \o b)[k] = a[k]
         /\ \A k \in 1 .. Len(b) : (a \o b)[Len(a) + k] = b[k]
  OBVIOUS

(* Four sequences joined, and the parts of the result.                     *)
LEMMA Joined ==
  ASSUME NEW a \in Seq(STRING), NEW b \in Seq(STRING), NEW c \in Seq(STRING),
         NEW d \in Seq(STRING), NEW t, t = a \o b \o c \o d
  PROVE  /\ t \in Seq(STRING) /\ Len(t) = Len(a) + Len(b) + Len(c) + Len(d)
         /\ \A k \in 1 .. Len(a) : t[k] = a[k]
         /\ \A k \in 1 .. Len(b) : t[Len(a) + k] = b[k]
         /\ \A k \in 1 .. Len(c) : t[Len(a) + Len(b) + k] = c[k]
         /\ \A k \in 1 .. Len(d) : t[Len(a) + Len(b) + Len(c) + k] = d[k]
<1> DEFINE e == a \o b
           f == e \o c
<1>1. e \in Seq(STRING) /\ Len(e) = Len(a) + Len(b)
      /\ (\A k \in 1 .. Len(a) : e[k] = a[k]) /\ \A k \in 1 .. Len(b) : e[Len(a) + k] = b[k]
  BY JoinedTwo
<1> HIDE DEF e
<1>2. f \in Seq(STRING) /\ Len(f) = Len(e) + Len(c)
      /\ (\A k \in 1 .. Len(e) : f[k] = e[k]) /\ \A k \in 1 .. Len(c) : f[Len(e) + k] = c[k]
  BY <1>1, JoinedTwo
<1>3. t = f \o d
  BY DEF f, e
<1> HIDE DEF f
<1>4. t \in Seq(STRING) /\ Len(t) = Len(f) + Len(d)
      /\ (\A k \in 1 .. Len(f) : t[k] = f[k]) /\ \A k \in 1 .. Len(d) : t[Len(f) + k] = d[k]
  <2>1. f \o d \in Seq(STRING) /\ Len(f \o d) = Len(f) + Len(d)
        /\ (\A k \in 1 .. Len(f) : (f \o d)[k] = f[k])
        /\ \A k \in 1 .. Len(d) : (f \o d)[Len(f) + k] = d[k]
    BY <1>2, JoinedTwo
  <2> QED
    BY <1>3, <2>1, Zenon
<1>5. \A k \in 1 .. Len(a) : t[k] = a[k]
  BY <1>1, <1>2, <1>4
<1>6. \A k \in 1 .. Len(b) : t[Len(a) + k] = b[k]
  BY <1>1, <1>2, <1>4
<1>7. \A k \in 1 .. Len(c) : t[Len(a) + Len(b) + k] = c[k]
  BY <1>1, <1>2, <1>4
<1> QED
  BY <1>1, <1>2, <1>4, <1>5, <1>6, <1>7, SMTT(30)

(* Texts ordered by their length: what a recursion over them goes down.    *)
Shorter == {ss \in Seq(STRING) \X Seq(STRING) : Len(ss[1]) < Len(ss[2])}

LEMMA ShorterWellFounded == IsWellFoundedOn(Shorter, Seq(STRING))
<1> SUFFICES ASSUME NEW T \in SUBSET Seq(STRING), T # {}
             PROVE  \E x \in T : \A y \in T : ~(<<y, x>> \in Shorter)
  BY MinWF
<1> DEFINE L == {Len(s) : s \in T}
<1>1. \A s \in T : Len(s) \in Nat
  OBVIOUS
<1>2. L \subseteq Nat /\ L # {}
  BY <1>1
<1>3. PICK m \in L : \A y \in L : m <= y
  BY <1>2, Least
<1>4. PICK x \in T : Len(x) = m
  BY <1>3
<1>5. \A y \in T : ~(Len(y) < Len(x))
  BY <1>1, <1>3, <1>4
<1> QED
  BY <1>5 DEF Shorter
=============================================================================
