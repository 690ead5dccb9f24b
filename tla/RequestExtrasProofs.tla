------------------------ MODULE RequestExtrasProofs ------------------------
(***************************************************************************)
(* For every request, every limit and whichever allocation fails: who owns *)
(* the arrays of headers, cookies and query parameters, that no header     *)
(* field is dropped, which cookies a handler sees, and that the query is   *)
(* decoded as its definition says.                                         *)
(***************************************************************************)
EXTENDS RequestExtras, ListLemmas

(* The allocations of one array, element by element.                       *)
LEMMA PairIs ==
  ASSUME NEW kind, NEW x, NEW a
  PROVE  a \in Pair(kind, x) <=> a = <<kind, x, "name">> \/ a = <<kind, x, "value">>
  BY DEF Pair

LEMMA ArrayIs ==
  ASSUME NEW kind, NEW m \in Nat, NEW a
  PROVE  a \in Array(kind, m) <=>
           \E x \in 0 .. m : a = <<kind, x, "name">> \/ a = <<kind, x, "value">>
  BY DEF Array, Pair

LEMMA ArrayGrows ==
  ASSUME NEW kind, NEW m \in Nat
  PROVE  /\ Array(kind, m + 1) = Array(kind, m) \union Pair(kind, m + 1)
         /\ Pair(kind, m + 1) \intersect Array(kind, m) = {}
<1>1. ASSUME NEW a PROVE a \in Array(kind, m + 1) <=> a \in Array(kind, m) \union Pair(kind, m + 1)
  <2>1. \A x : x \in 0 .. m + 1 <=> x \in 0 .. m \/ x = m + 1
    OBVIOUS
  <2> QED
    BY <2>1, ArrayIs, PairIs
<1>2. ASSUME NEW a \in Pair(kind, m + 1), a \in Array(kind, m) PROVE FALSE
  <2>1. PICK x \in 0 .. m : a = <<kind, x, "name">> \/ a = <<kind, x, "value">>
    BY <1>2, ArrayIs
  <2>2. a = <<kind, m + 1, "name">> \/ a = <<kind, m + 1, "value">>
    BY <1>2, PairIs
  <2>3. a[2] = x /\ a[2] = m + 1
    BY <2>1, <2>2
  <2> QED
    BY <2>1, <2>3
<1> QED
  BY <1>1, <1>2

LEMMA ArrayStarts == ASSUME NEW kind PROVE Array(kind, 0) = Pair(kind, 0)
<1>1. ASSUME NEW a PROVE a \in Array(kind, 0) <=> a \in Pair(kind, 0)
  <2>1. \A x : x \in 0 .. 0 <=> x = 0
    OBVIOUS
  <2> QED
    BY <2>1, ArrayIs, PairIs
<1> QED
  BY <1>1

(* Every allocation says what it belongs to.                               *)
LEMMA ArrayOf ==
  ASSUME NEW kind, NEW m \in Nat, NEW a \in Array(kind, m)
  PROVE  a[1] = kind /\ a[3] \in {"name", "value"}
  BY ArrayIs

LEMMA TemporaryOf ==
  ASSUME NEW kind, NEW a \in Temporary(kind)
  PROVE  a[1] = kind /\ a[3] \in {"copy", "block"}
  BY DEF Temporary

----------------------------------------------------------------------------
(* The inductive invariant: live is what extras has handed out and, while  *)
(* an array is filled, that array with its copy; no array is filled whose  *)
(* kind is handed out already.                                             *)

Owned(kind) == IF extras[kind].held THEN Array(kind, Len(extras[kind].list)) ELSE {}
AllOwned == UNION {Owned(kind) : kind \in Kinds}
Filling(kind) == Array(kind, Len(list)) \union Temporary(kind)

InHand ==
  IF pc = "lines" THEN Filling("header")
  ELSE IF pc = "crumbs" THEN Filling("cookie")
  ELSE IF pc \in {"pairs", "decode"} THEN Filling("query") ELSE {}

(* What can have been handed out where parse_request() is.                 *)
HeldAt(place) ==
  IF place \in {"idle", "headers", "lines"} THEN {}
  ELSE IF place \in {"cookie", "crumbs"} THEN {"header"}
  ELSE IF place \in {"fields", "pairs", "decode"} THEN {"header", "cookie"}
  ELSE Kinds

OwnInv ==
  /\ pc \in {"idle", "headers", "lines", "fields", "cookie", "crumbs", "pairs", "decode",
            "serve", "release"}
  /\ DOMAIN extras = Kinds /\ extras = [kind \in Kinds |-> extras[kind]]
  /\ \A kind \in Kinds : IsList(extras[kind].list)
  /\ \A kind \in Kinds : extras[kind].held => kind \in HeldAt(pc)
  /\ IsList(list)
  /\ misuse = FALSE
  /\ live = AllOwned \union InHand

(* What is handed out belongs to its kind.                                 *)
LEMMA OwnedOf ==
  ASSUME OwnInv, NEW kind \in Kinds, NEW a \in Owned(kind)
  PROVE  extras[kind].held /\ a[1] = kind /\ a[3] \in {"name", "value"}
<1>1. Len(extras[kind].list) \in Nat
  BY DEF OwnInv, IsList
<1>2. extras[kind].held /\ a \in Array(kind, Len(extras[kind].list))
  BY DEF Owned
<1> QED
  BY <1>1, <1>2, ArrayOf

LEMMA FillingOf ==
  ASSUME OwnInv, NEW kind \in Kinds, NEW a \in Filling(kind)
  PROVE  a[1] = kind
<1>1. Len(list) \in Nat
  BY DEF OwnInv, IsList
<1> QED
  BY <1>1, ArrayOf, TemporaryOf DEF Filling

(* Begin(): nothing of that kind is there yet.                             *)
LEMMA BeginOwns ==
  ASSUME OwnInv, NEW kind \in Kinds, ~extras[kind].held, live = AllOwned,
         Begin(kind), UNCHANGED extras
  PROVE  /\ misuse' = FALSE /\ IsList(list') /\ AllOwned' = AllOwned
         /\ live' = AllOwned \union Filling(kind)'
<1> DEFINE new == Pair(kind, 0) \union Temporary(kind)
<1>1. Filling(kind)' = new
  BY ArrayStarts DEF Begin, Filling
<1>2. new \intersect live = {}
  <2> SUFFICES ASSUME NEW a \in new, a \in live PROVE FALSE
    OBVIOUS
  <2>1. a[1] = kind
    BY PairIs, TemporaryOf
  <2>2. PICK other \in Kinds : a \in Owned(other)
    BY DEF AllOwned
  <2>3. a[1] = other
    BY <2>2, OwnedOf
  <2> QED
    BY <2>1, <2>2, <2>3, OwnedOf
<1>3. AllOwned' = AllOwned
  BY DEF AllOwned, Owned
<1>4. IsList(list')
  BY DEF Begin, IsList
<1> QED
  BY <1>1, <1>2, <1>3, <1>4 DEF Begin, Allocate, OwnInv

(* Store(): the place after the last one is free.                          *)
LEMMA StoreOwns ==
  ASSUME OwnInv, NEW kind \in Kinds, ~extras[kind].held, live = AllOwned \union Filling(kind),
         NEW entry, Store(kind, entry), UNCHANGED extras
  PROVE  /\ misuse' = FALSE /\ IsList(list') /\ AllOwned' = AllOwned
         /\ live' = AllOwned \union Filling(kind)'
<1> DEFINE new == Pair(kind, Len(list) + 1)
<1>1. IsList(list') /\ Len(list') = Len(list) + 1 /\ Len(list) \in Nat
  BY AppendList DEF Store, OwnInv, IsList
<1>2. Filling(kind)' = Filling(kind) \union new
  BY <1>1, ArrayGrows DEF Filling
<1>3. new \intersect live = {}
  <2> SUFFICES ASSUME NEW a \in new, a \in live PROVE FALSE
    OBVIOUS
  <2>1. a[1] = kind /\ a[3] \in {"name", "value"}
    BY PairIs
  <2>2. a \notin Array(kind, Len(list))
    BY <1>1, ArrayGrows
  <2>3. a \notin Temporary(kind)
    BY <2>1, TemporaryOf
  <2>4. PICK other \in Kinds : a \in Owned(other)
    BY <2>2, <2>3 DEF AllOwned, Filling
  <2>5. a[1] = other
    BY <2>4, OwnedOf
  <2> QED
    BY <2>1, <2>4, <2>5, OwnedOf
<1>4. AllOwned' = AllOwned
  BY DEF AllOwned, Owned
<1> QED
  BY <1>1, <1>2, <1>3, <1>4 DEF Store, Allocate, OwnInv

(* HandOut(): the array changes hands, the copy is freed.                  *)
LEMMA HandOutOwns ==
  ASSUME OwnInv, NEW kind \in Kinds, ~extras[kind].held, live = AllOwned \union Filling(kind),
         HandOut(kind)
  PROVE  misuse' = FALSE /\ live' = AllOwned'
<1>1. \A h \in Kinds : Owned(h)' = IF h = kind THEN Array(kind, Len(list)) ELSE Owned(h)
  BY DEF HandOut, Owned, OwnInv
<1>2. AllOwned' = AllOwned \union Array(kind, Len(list))
  <2>1. Owned(kind) = {}
    BY DEF Owned
  <2> QED
    BY <1>1, <2>1 DEF AllOwned
<1>3. (AllOwned \union Array(kind, Len(list))) \intersect Temporary(kind) = {}
  <2> SUFFICES ASSUME NEW a \in AllOwned \union Array(kind, Len(list)), a \in Temporary(kind)
               PROVE  FALSE
    OBVIOUS
  <2>1. a[3] \in {"name", "value"}
    <3>1. CASE a \in AllOwned
      BY <3>1, OwnedOf DEF AllOwned
    <3>2. CASE a \in Array(kind, Len(list))
      <4>1. Len(list) \in Nat
        BY DEF OwnInv, IsList
      <4> QED
        BY <3>2, <4>1, ArrayOf
    <3> QED
      BY <3>1, <3>2
  <2> QED
    BY <2>1, TemporaryOf
<1> QED
  BY <1>2, <1>3 DEF HandOut, Free, Filling, OwnInv

(* Abandon(): all of it is freed.                                          *)
LEMMA AbandonOwns ==
  ASSUME OwnInv, NEW kind \in Kinds, ~extras[kind].held, live = AllOwned \union Filling(kind),
         Abandon(kind)
  PROVE  misuse' = FALSE /\ live' = AllOwned'
<1>1. \A h \in Kinds : Owned(h)' = Owned(h)
  BY DEF Abandon, Owned, OwnInv, None
<1>2. AllOwned' = AllOwned
  BY <1>1 DEF AllOwned
<1>3. AllOwned \intersect Filling(kind) = {}
  <2> SUFFICES ASSUME NEW a \in AllOwned, a \in Filling(kind) PROVE FALSE
    OBVIOUS
  <2>1. PICK other \in Kinds : a \in Owned(other)
    BY DEF AllOwned
  <2>2. a[1] = other /\ a[1] = kind
    BY <2>1, OwnedOf, FillingOf
  <2> QED
    BY <2>1, <2>2, OwnedOf
<1> QED
  BY <1>2, <1>3 DEF Abandon, Free, Filling, OwnInv

LEMMA NothingOwned ==
  ASSUME \A kind \in Kinds : ~extras[kind].held
  PROVE  AllOwned = {}
  BY DEF AllOwned, Owned

LEMMA HeldOnly ==
  ASSUME OwnInv, NEW kind \in Kinds, kind \notin HeldAt(pc)
  PROVE  ~extras[kind].held
  BY DEF OwnInv

LEMMA OwnInit == Init => OwnInv
<1> SUFFICES ASSUME Init PROVE OwnInv
  OBVIOUS
<1>1. AllOwned = {}
  BY NothingOwned DEF Init, None
<1>2. IsList(<<>>)
  BY DEF IsList
<1> QED
  BY <1>1, <1>2 DEF Init, OwnInv, InHand, None, HeldAt, Kinds

(* Steps that allocate and free nothing.                                   *)
LEMMA OwnKept ==
  ASSUME OwnInv, UNCHANGED <<extras, live, misuse>>, IsList(list'), Len(list') = Len(list),
         pc' \in {"idle", "headers", "lines", "fields", "cookie", "crumbs", "pairs", "decode",
                 "serve", "release"},
         HeldAt(pc) \subseteq HeldAt(pc'),
         InHand' = InHand
  PROVE  OwnInv'
<1>1. AllOwned' = AllOwned
  BY DEF AllOwned, Owned
<1> QED
  BY <1>1 DEF OwnInv

LEMMA OwnStepPlain ==
  ASSUME OwnInv,
         \/ NoHeaders \/ SkipLine \/ OtherField \/ NoCookies
         \/ NoQuery \/ SkipPair \/ DecodeChar \/ DecodeEnds \/ Serve
         \/ (StoreCookie /\ Field.pieces[n] = Nothing)
  PROVE  OwnInv'
<1>1. IsList(list)
  BY DEF OwnInv
<1>2. CASE \/ SkipLine \/ OtherField \/ NoQuery \/ SkipPair \/ Serve \/ NoHeaders \/ NoCookies
  <2>1. UNCHANGED <<extras, live, misuse, list>>
    BY <1>2 DEF SkipLine, OtherField, NoQuery, SkipPair, Serve, NoHeaders, NoCookies, heapVars
  <2>2. /\ pc' \in {"lines", "fields", "pairs", "serve", "release"}
        /\ HeldAt(pc) \subseteq HeldAt(pc') /\ InHand' = InHand
    BY <1>2, <2>1 DEF SkipLine, OtherField, NoQuery, SkipPair, Serve, NoHeaders, NoCookies,
      AtField, AtQuery, AtPair, Line, Refuse431, HeldAt, InHand, Filling, Kinds
  <2> QED
    BY <1>1, <2>1, <2>2, OwnKept
<1>3. CASE DecodeChar
  BY <1>1, <1>3, OwnKept DEF DecodeChar, heapVars, OwnInv, InHand, Filling
<1>4. CASE DecodeEnds
  <2>1. IsList(list') /\ Len(list') = Len(list)
    <3> DEFINE l == Len(list)
    <3>1. PICK e : list' = [list EXCEPT ![l] = e]
      BY <1>4 DEF DecodeEnds
    <3>2. l \in Nat /\ list = [x \in 1 .. l |-> list[x]]
      BY <1>1 DEF IsList
    <3> HIDE DEF l
    <3>3. list' = [x \in 1 .. l |-> IF x = l THEN e ELSE list[x]]
      BY <3>1, <3>2
    <3>4. Len(list') = l /\ list' = [x \in 1 .. l |-> list'[x]]
      BY <3>2, <3>3
    <3> QED
      BY <3>2, <3>4 DEF IsList, l
  <2>2. UNCHANGED <<extras, live, misuse>> /\ pc = "decode" /\ pc' \in {"decode", "pairs"}
    BY <1>4 DEF DecodeEnds, heapVars
  <2>3. HeldAt(pc) \subseteq HeldAt(pc') /\ InHand' = InHand
    BY <2>1, <2>2 DEF HeldAt, InHand, Filling
  <2> QED
    BY <2>1, <2>2, <2>3, OwnKept
<1>5. CASE StoreCookie /\ Field.pieces[n] = Nothing
  <2>1. UNCHANGED <<extras, live, misuse, list>> /\ pc' = pc
    BY <1>5 DEF StoreCookie, heapVars
  <2> QED
    BY <1>1, <2>1, OwnKept DEF OwnInv, InHand, Filling
<1> QED
  BY <1>2, <1>3, <1>4, <1>5

(* Steps that begin, fill, hand out or give up an array.                   *)
LEMMA OwnStepBegin ==
  ASSUME OwnInv, BeginHeaders \/ BeginCookies \/ BeginQuery
  PROVE  OwnInv'
<1>1. ASSUME NEW kind \in Kinds, Begin(kind), UNCHANGED extras, InHand = {},
             kind \notin HeldAt(pc), HeldAt(pc') = HeldAt(pc),
             InHand' = Filling(kind)', pc' \in {"lines", "crumbs", "pairs"}
      PROVE  OwnInv'
  <2>1. ~extras[kind].held
    BY <1>1, HeldOnly
  <2>2. live = AllOwned
    BY <1>1 DEF OwnInv
  <2>3. /\ misuse' = FALSE /\ IsList(list') /\ AllOwned' = AllOwned
        /\ live' = AllOwned \union Filling(kind)'
    BY <1>1, <2>1, <2>2, BeginOwns
  <2> QED
    BY <1>1, <2>3 DEF OwnInv
<1>2. CASE BeginHeaders
  BY <1>1, <1>2 DEF BeginHeaders, HeldAt, InHand, Kinds
<1>3. CASE BeginCookies
  BY <1>1, <1>3 DEF BeginCookies, HeldAt, InHand, Kinds
<1>4. CASE BeginQuery
  BY <1>1, <1>4 DEF BeginQuery, AtQuery, HeldAt, InHand, Kinds
<1> QED
  BY <1>2, <1>3, <1>4

LEMMA OwnStepStore ==
  ASSUME OwnInv,
         \/ StoreLine \/ StorePair \/ (StoreCookie /\ Field.pieces[n] # Nothing)
  PROVE  OwnInv'
<1>1. ASSUME NEW kind \in Kinds, NEW entry, Store(kind, entry), UNCHANGED extras,
             InHand = Filling(kind), kind \notin HeldAt(pc), HeldAt(pc') = HeldAt(pc),
             InHand' = Filling(kind)', pc' \in {"lines", "crumbs", "decode"}
      PROVE  OwnInv'
  <2>1. ~extras[kind].held
    BY <1>1, HeldOnly
  <2>2. live = AllOwned \union Filling(kind)
    BY <1>1 DEF OwnInv
  <2>3. /\ misuse' = FALSE /\ IsList(list') /\ AllOwned' = AllOwned
        /\ live' = AllOwned \union Filling(kind)'
    BY <1>1, <2>1, <2>2, StoreOwns
  <2> QED
    BY <1>1, <2>3 DEF OwnInv
<1>2. CASE StoreLine
  BY <1>1, <1>2 DEF StoreLine, Line, HeldAt, InHand, Kinds
<1>3. CASE StorePair
  BY <1>1, <1>3 DEF StorePair, AtPair, HeldAt, InHand, Kinds
<1>4. CASE StoreCookie /\ Field.pieces[n] # Nothing
  BY <1>1, <1>4 DEF StoreCookie, HeldAt, InHand, Kinds
<1> QED
  BY <1>2, <1>3, <1>4

LEMMA OwnStepDone ==
  ASSUME OwnInv,
         EndHeaders \/ EndCookies \/ EndQuery \/ LineFails \/ CookieFails \/ PairFails
  PROVE  OwnInv'
<1>1. ASSUME NEW kind \in Kinds, HandOut(kind) \/ Abandon(kind), UNCHANGED list,
             InHand = Filling(kind), kind \notin HeldAt(pc),
             HeldAt(pc) \union {kind} \subseteq HeldAt(pc'),
             InHand' = {}, pc' \in {"fields", "serve", "release"}
      PROVE  OwnInv'
  <2>1. ~extras[kind].held
    BY <1>1, HeldOnly
  <2>2. misuse' = FALSE /\ live' = AllOwned'
    <3>1. live = AllOwned \union Filling(kind)
      BY <1>1 DEF OwnInv
    <3> QED
      BY <1>1, <2>1, <3>1, HandOutOwns, AbandonOwns
  <2>3. PICK e \in {None, [held |-> TRUE, list |-> list]} : extras' = [extras EXCEPT ![kind] = e]
    BY <1>1 DEF HandOut, Abandon
  <2>4. IsList(e.list)
    <3>1. IsList(<<>>) /\ IsList(list)
      BY DEF OwnInv, IsList
    <3>2. (e.held = FALSE /\ e.list = <<>>) \/ (e.held = TRUE /\ e.list = list)
      BY <2>3 DEF None
    <3> QED
      BY <3>1, <3>2
  <2>5. /\ DOMAIN extras' = Kinds /\ extras' = [h \in Kinds |-> extras'[h]]
        /\ \A h \in Kinds : extras'[h] = IF h = kind THEN e ELSE extras[h]
    BY <2>3 DEF OwnInv
  <2> QED
    BY <1>1, <2>2, <2>4, <2>5 DEF OwnInv
<1>2. CASE EndHeaders \/ LineFails
  BY <1>1, <1>2 DEF EndHeaders, LineFails, Line, Refuse431, HeldAt, InHand, Kinds
<1>3. CASE EndCookies \/ CookieFails
  BY <1>1, <1>3 DEF EndCookies, CookieFails, HeldAt, InHand, Kinds
<1>4. CASE EndQuery \/ PairFails
  BY <1>1, <1>4 DEF EndQuery, PairFails, AtPair, HeldAt, InHand, Kinds
<1> QED
  BY <1>2, <1>3, <1>4

LEMMA OwnStepField ==
  ASSUME OwnInv, CookieField
  PROVE  OwnInv'
<1>1. pc = "fields" /\ pc' = "cookie" /\ extras' = [extras EXCEPT !["cookie"] = None]
      /\ list' = list
  BY DEF CookieField, AtField
<1>2. "cookie" \in Kinds /\ live = AllOwned /\ misuse = FALSE
  BY <1>1 DEF OwnInv, InHand, Kinds
<1>3. /\ DOMAIN extras' = Kinds /\ extras' = [h \in Kinds |-> extras'[h]]
      /\ \A h \in Kinds : extras'[h] = IF h = "cookie" THEN None ELSE extras[h]
  BY <1>1 DEF OwnInv
<1>4. \A h \in Kinds : Owned(h)' = IF h = "cookie" THEN {} ELSE Owned(h)
  BY <1>3 DEF Owned, None
<1>5. AllOwned' = AllOwned \ Owned("cookie")
  <2>1. \A h \in Kinds : h # "cookie" => Owned(h) \intersect Owned("cookie") = {}
    BY <1>2, OwnedOf
  <2> QED
    BY <1>2, <1>4, <2>1 DEF AllOwned
<1>6. live' = live \ Owned("cookie") /\ misuse' = FALSE
  <2>1. CASE extras["cookie"].held
    <3>1. Owned("cookie") \subseteq live
      BY <1>2 DEF AllOwned
    <3> QED
      BY <1>2, <2>1, <3>1 DEF CookieField, Free, Owned
  <2>2. CASE ~extras["cookie"].held
    BY <1>2, <2>2 DEF CookieField, Owned, heapVars
  <2> QED
    BY <2>1, <2>2
<1>7. IsList(<<>>)
  BY DEF IsList
<1>8. \A kind \in Kinds : /\ IsList(extras'[kind].list)
                          /\ extras'[kind].held => kind \in {"header"}
  <2> TAKE kind \in Kinds
  <2>1. CASE kind = "cookie"
    BY <1>3, <1>7, <2>1 DEF None
  <2>2. CASE kind # "cookie"
    <3>1. extras'[kind] = extras[kind]
      BY <1>3, <2>2
    <3>2. extras[kind].held => kind \in {"header", "cookie"}
      BY <1>1, HeldOnly DEF HeldAt
    <3> QED
      BY <2>2, <3>1, <3>2 DEF OwnInv
  <2> QED
    BY <2>1, <2>2
<1> QED
  BY <1>1, <1>2, <1>3, <1>5, <1>6, <1>8 DEF OwnInv, HeldAt, InHand

LEMMA OwnStepEnds ==
  ASSUME OwnInv, Start \/ Release
  PROVE  OwnInv'
<1>1. extras' = [kind \in Kinds |-> None] /\ list' = list
  BY DEF Start, Release
<1>2. AllOwned' = {}
  BY <1>1 DEF AllOwned, Owned, None
<1>3. live' = {} /\ misuse' = FALSE /\ pc' \in {"idle", "headers"}
  <2>1. CASE Start
    <3>1. AllOwned = {}
      <4>1. \A kind \in Kinds : ~extras[kind].held
        BY <2>1, HeldOnly DEF Start, HeldAt
      <4> QED
        BY <4>1, NothingOwned
    <3> QED
      BY <2>1, <3>1 DEF Start, OwnInv, InHand, heapVars
  <2>2. CASE Release
    <3>1. live = AllOwned
      BY <2>2 DEF Release, OwnInv, InHand
    <3>2. AllOwned = UNION {Array(kind, Len(extras[kind].list)) :
                              kind \in {h \in Kinds : extras[h].held}}
      BY DEF AllOwned, Owned
    <3> QED
      BY <2>2, <3>1, <3>2 DEF Release, Free, OwnInv
  <2> QED
    BY <2>1, <2>2
<1>4. IsList(<<>>)
  BY DEF IsList
<1> QED
  BY <1>1, <1>2, <1>3, <1>4 DEF OwnInv, InHand, None

LEMMA OwnStep == OwnInv /\ [Next]_vars => OwnInv'
<1> SUFFICES ASSUME OwnInv, [Next]_vars PROVE OwnInv'
  OBVIOUS
<1>1. CASE UNCHANGED vars
  <2>1. AllOwned' = AllOwned /\ InHand' = InHand
    BY <1>1 DEF vars, AllOwned, Owned, InHand, Filling
  <2> QED
    BY <1>1, <2>1 DEF vars, OwnInv
<1>2. CASE Next
  BY <1>2, OwnStepPlain, OwnStepBegin, OwnStepStore, OwnStepDone, OwnStepField, OwnStepEnds
  DEF Next
<1> QED
  BY <1>1, <1>2

LEMMA OwnAlways == Spec => []OwnInv
  BY OwnInit, OwnStep, PTL DEF Spec

----------------------------------------------------------------------------
(* Every path through parse_request() and free_extras() frees what was     *)
(* allocated, once: while the handler runs exactly the arrays it is given  *)
(* are allocated, and between requests nothing is.                         *)
THEOREM ExtrasOwnedHolds == Spec => []ExtrasOwned
<1>1. ASSUME OwnInv PROVE ExtrasOwned
  <2>1. AllOwned = UNION {Array(kind, Len(extras[kind].list)) :
                            kind \in {h \in Kinds : extras[h].held}}
    BY DEF AllOwned, Owned
  <2>2. ASSUME pc = "idle" PROVE live = {}
    <3>1. \A kind \in Kinds : ~extras[kind].held
      BY <1>1, <2>2, HeldOnly DEF HeldAt
    <3>2. AllOwned = {}
      BY <3>1, NothingOwned
    <3> QED
      BY <1>1, <2>2, <3>2 DEF OwnInv, InHand
  <2>3. ASSUME pc \in {"serve", "release"} PROVE live = AllOwned
    BY <1>1, <2>3 DEF OwnInv, InHand
  <2> QED
    BY <1>1, <2>1, <2>2, <2>3 DEF OwnInv, ExtrasOwned
<1> QED
  BY OwnAlways, <1>1, PTL

----------------------------------------------------------------------------
(* The lines and pieces that are kept, one by one.                         *)

LEMMA FieldsUpToIs ==
  ASSUME NEW lines
  PROVE  LET K == FieldsUpTo(lines)
         IN /\ K[0] = <<>>
            /\ \A m \in Nat \ {0} :
                 K[m] = IF lines[m].form = "field" THEN Append(K[m - 1], lines[m]) ELSE K[m - 1]
<1> DEFINE K == FieldsUpTo(lines)
<1>1. NatInductiveDefHypothesis(K, <<>>,
        LAMBDA v, m : IF lines[m].form = "field" THEN Append(v, lines[m]) ELSE v)
  BY Zenon DEF NatInductiveDefHypothesis, FieldsUpTo
<1>2. NatInductiveDefConclusion(K, <<>>,
        LAMBDA v, m : IF lines[m].form = "field" THEN Append(v, lines[m]) ELSE v)
  BY <1>1, NatInductiveDef, Zenon
<1>3. \A m \in Nat : K[m] = IF m = 0 THEN <<>>
        ELSE IF lines[m].form = "field" THEN Append(K[m - 1], lines[m]) ELSE K[m - 1]
  BY <1>2, Zenon DEF NatInductiveDefConclusion
<1> HIDE DEF K
<1>4. K[0] = <<>>
  BY <1>3
<1>5. \A m \in Nat \ {0} :
        K[m] = IF lines[m].form = "field" THEN Append(K[m - 1], lines[m]) ELSE K[m - 1]
  BY <1>3
<1> QED
  BY <1>4, <1>5 DEF K

LEMMA PiecesUpToIs ==
  ASSUME NEW pieces
  PROVE  LET K == PiecesUpTo(pieces)
         IN /\ K[0] = <<>>
            /\ \A m \in Nat \ {0} :
                 K[m] = IF pieces[m] # Nothing THEN Append(K[m - 1], pieces[m]) ELSE K[m - 1]
<1> DEFINE K == PiecesUpTo(pieces)
<1>1. NatInductiveDefHypothesis(K, <<>>,
        LAMBDA v, m : IF pieces[m] # Nothing THEN Append(v, pieces[m]) ELSE v)
  BY Zenon DEF NatInductiveDefHypothesis, PiecesUpTo
<1>2. NatInductiveDefConclusion(K, <<>>,
        LAMBDA v, m : IF pieces[m] # Nothing THEN Append(v, pieces[m]) ELSE v)
  BY <1>1, NatInductiveDef, Zenon
<1>3. \A m \in Nat : K[m] = IF m = 0 THEN <<>>
        ELSE IF pieces[m] # Nothing THEN Append(K[m - 1], pieces[m]) ELSE K[m - 1]
  BY <1>2, Zenon DEF NatInductiveDefConclusion
<1> HIDE DEF K
<1>4. K[0] = <<>>
  BY <1>3
<1>5. \A m \in Nat \ {0} :
        K[m] = IF pieces[m] # Nothing THEN Append(K[m - 1], pieces[m]) ELSE K[m - 1]
  BY <1>3
<1> QED
  BY <1>4, <1>5 DEF K

(* What is kept are lines of the request, and more lines make it no        *)
(* shorter.                                                                *)
LEMMA FieldsUpToSeq ==
  ASSUME NEW L, NEW lines \in Seq(L)
  PROVE  \A m \in 0 .. Len(lines) : FieldsUpTo(lines)[m] \in Seq(L)
<1> DEFINE K == FieldsUpTo(lines)
           C == {m \in 0 .. Len(lines) : K[m] \notin Seq(L)}
<1>1. /\ K[0] = <<>>
      /\ \A m \in Nat \ {0} :
           K[m] = IF lines[m].form = "field" THEN Append(K[m - 1], lines[m]) ELSE K[m - 1]
  BY FieldsUpToIs
<1> HIDE DEF K
<1> SUFFICES ASSUME C # {} PROVE FALSE
  BY DEF K
<1>2. PICK x \in C : \A y \in C : x <= y
  <2>1. C \subseteq Nat
    OBVIOUS
  <2> QED
    BY <2>1, Least
<1>3. x # 0
  <2>1. <<>> \in Seq(L)
    OBVIOUS
  <2> QED
    BY <1>1, <1>2, <2>1
<1>4. x - 1 \in 0 .. Len(lines) /\ x - 1 \notin C /\ x \in 1 .. Len(lines)
  BY <1>2, <1>3
<1>5. K[x - 1] \in Seq(L) /\ lines[x] \in L
  BY <1>4
<1>6. K[x] \in Seq(L)
  <2>1. Append(K[x - 1], lines[x]) \in Seq(L)
    BY <1>5
  <2>2. K[x] = Append(K[x - 1], lines[x]) \/ K[x] = K[x - 1]
    <3>1. x \in Nat \ {0}
      BY <1>4
    <3> QED
      BY <1>1, <3>1, Zenon
  <2> QED
    BY <1>5, <2>1, <2>2
<1> QED
  BY <1>2, <1>6

LEMMA FieldsUpToGrows ==
  ASSUME NEW L, NEW lines \in Seq(L), NEW m \in 0 .. Len(lines)
  PROVE  Len(FieldsUpTo(lines)[m]) <= Len(FieldsUpTo(lines)[Len(lines)])
<1> DEFINE K == FieldsUpTo(lines)
           C == {x \in m .. Len(lines) : ~(Len(K[m]) <= Len(K[x]))}
<1>1. \A x \in Nat \ {0} :
        K[x] = IF lines[x].form = "field" THEN Append(K[x - 1], lines[x]) ELSE K[x - 1]
  BY FieldsUpToIs
<1>2. \A x \in 0 .. Len(lines) : K[x] \in Seq(L)
  BY FieldsUpToSeq
<1> HIDE DEF K
<1> SUFFICES ASSUME C # {} PROVE FALSE
  BY DEF K
<1>3. PICK x \in C : \A y \in C : x <= y
  <2>1. C \subseteq Nat
    OBVIOUS
  <2> QED
    BY <2>1, Least
<1>4. K[m] \in Seq(L) /\ x # m
  BY <1>2, <1>3
<1>5. x - 1 \in m .. Len(lines) /\ x - 1 \notin C /\ x \in 1 .. Len(lines)
  BY <1>3, <1>4
<1>6. K[x - 1] \in Seq(L) /\ lines[x] \in L /\ Len(K[m]) <= Len(K[x - 1])
  BY <1>2, <1>5
<1>7. Len(K[x]) >= Len(K[x - 1]) /\ Len(K[x]) \in Nat
  <2>1. Len(Append(K[x - 1], lines[x])) = Len(K[x - 1]) + 1 /\ Len(K[x - 1]) \in Nat
    BY <1>6
  <2>2. K[x] = Append(K[x - 1], lines[x]) \/ K[x] = K[x - 1]
    <3>1. x \in Nat \ {0}
      BY <1>5
    <3> QED
      BY <1>1, <3>1, Zenon
  <2> QED
    BY <2>1, <2>2
<1> QED
  BY <1>3, <1>4, <1>6, <1>7

----------------------------------------------------------------------------
(* The header array: at line n it holds the fields among the lines before. *)

Parsed == {"fields", "cookie", "crumbs", "pairs", "decode", "serve"}

HeaderInv ==
  /\ req \in Requests
  /\ pc = "lines" => /\ n \in 1 .. Len(req.lines) + 1 /\ Len(list) <= MaxHeaders
                     /\ list = FieldsUpTo(req.lines)[n - 1]
  /\ pc \in Parsed => Fields = WellFormed /\ Len(Fields) <= MaxHeaders
  /\ verdict = 431 /\ ~starved =>
       (\E l \in Lines : l.form = "long") \/ Len(WellFormed) >= MaxHeaders

LEMMA HeaderInit == Init => HeaderInv
  BY DEF Init, HeaderInv, Parsed

LEMMA LinesSeq ==
  ASSUME HeaderInv
  PROVE  /\ req.lines \in Seq(HeaderLine) /\ Len(req.lines) \in Nat
         /\ WellFormed \in Seq(HeaderLine)
         /\ \A m \in 0 .. Len(req.lines) : FieldsUpTo(req.lines)[m] \in Seq(HeaderLine)
<1>1. req.lines \in Seq(HeaderLine)
  BY RequestsAssumption DEF HeaderInv
<1>2. Len(req.lines) \in Nat
  BY <1>1
<1>3. \A m \in 0 .. Len(req.lines) : FieldsUpTo(req.lines)[m] \in Seq(HeaderLine)
  BY <1>1, FieldsUpToSeq
<1> QED
  BY <1>1, <1>2, <1>3 DEF WellFormed

(* Steps that leave the header array alone.                                *)
LEMMA HeaderKept ==
  ASSUME HeaderInv, req' = req, Fields' = Fields, verdict' \in {verdict, 200},
         ~starved' => ~starved, pc' \in Parsed => pc \in Parsed, pc' # "lines"
  PROVE  HeaderInv'
<1>1. WellFormed' = WellFormed /\ Lines' = Lines
  BY DEF WellFormed, Lines
<1> QED
  BY <1>1 DEF HeaderInv

LEMMA HeaderStepElsewhere ==
  ASSUME HeaderInv, OwnInv,
         \/ OtherField \/ CookieField \/ BeginCookies \/ NoCookies
         \/ StoreCookie \/ CookieFails \/ EndCookies
         \/ BeginQuery \/ NoQuery \/ SkipPair \/ StorePair \/ PairFails \/ EndQuery
         \/ DecodeChar \/ DecodeEnds \/ Serve \/ Release
  PROVE  HeaderInv'
<1>1. req' = req /\ verdict' \in {verdict, 200}
  BY DEF OtherField, CookieField, BeginCookies, NoCookies, StoreCookie, CookieFails, EndCookies,
    BeginQuery, NoQuery, SkipPair, StorePair, PairFails, EndQuery, DecodeChar, DecodeEnds,
    Serve, Release, Begin
<1>2. ~starved' => ~starved
  BY DEF OtherField, CookieField, BeginCookies, NoCookies, StoreCookie, CookieFails, EndCookies,
    BeginQuery, NoQuery, SkipPair, StorePair, PairFails, EndQuery, DecodeChar, DecodeEnds,
    Serve, Release, Begin
<1>3. (pc' \in Parsed => pc \in Parsed) /\ pc' # "lines"
  BY DEF OtherField, CookieField, BeginCookies, NoCookies, StoreCookie, CookieFails, EndCookies,
    BeginQuery, NoQuery, SkipPair, StorePair, PairFails, EndQuery, DecodeChar, DecodeEnds,
    Serve, Release, AtField, AtQuery, AtPair, Parsed
<1>4. CASE Release
  BY <1>1, <1>2, <1>4 DEF Release, HeaderInv, Parsed, WellFormed, Lines
<1>5. CASE ~Release
  <2>1. \/ extras' = extras
        \/ \E kind \in {"cookie", "query"} : \E e : extras' = [extras EXCEPT ![kind] = e]
    BY <1>5 DEF OtherField, CookieField, BeginCookies, NoCookies, StoreCookie, CookieFails,
      EndCookies, BeginQuery, NoQuery, SkipPair, StorePair, PairFails, EndQuery, DecodeChar,
      DecodeEnds, Serve, HandOut, Abandon
  <2>2. extras'["header"] = extras["header"]
    BY <2>1 DEF OwnInv, Kinds
  <2>3. Fields' = Fields
    BY <2>2 DEF Fields
  <2> QED
    BY <1>1, <1>2, <1>3, <2>3, HeaderKept
<1> QED
  BY <1>4, <1>5

LEMMA HeaderStepLines ==
  ASSUME HeaderInv, OwnInv,
         Start \/ BeginHeaders \/ NoHeaders \/ SkipLine \/ StoreLine \/ LineFails \/ EndHeaders
  PROVE  HeaderInv'
<1>1. CASE Start
  BY <1>1 DEF Start, HeaderInv, Parsed
<1>2. CASE BeginHeaders
  <2>1. Len(req.lines) \in Nat
    BY LinesSeq
  <2>2. FieldsUpTo(req.lines)[0] = <<>>
    BY FieldsUpToIs
  <2>3. req' = req /\ pc' = "lines" /\ verdict' = verdict /\ starved' = starved
        /\ list' = <<>> /\ n' = 1
    BY <1>2 DEF BeginHeaders, Begin
  <2>4. n' \in 1 .. Len(req.lines) + 1 /\ Len(list') <= MaxHeaders
        /\ list' = FieldsUpTo(req.lines)[n' - 1]
    BY <2>1, <2>2, <2>3, ExtrasAssumption
  <2> QED
    BY <2>3, <2>4 DEF HeaderInv, Parsed, WellFormed, Lines
<1>3. CASE NoHeaders
  BY <1>3 DEF NoHeaders, Refuse431, HeaderInv, Parsed, WellFormed, Lines
<1>4. CASE SkipLine \/ StoreLine
  <2>1. pc = "lines" /\ pc' = "lines" /\ n' = n + 1 /\ req' = req /\ verdict' = verdict
        /\ starved' = starved /\ n \in 1 .. Len(req.lines) /\ ~OverLimit(req.lines[n])
        /\ list' = IF req.lines[n].form = "field" THEN Append(list, req.lines[n]) ELSE list
    BY <1>4 DEF SkipLine, StoreLine, Line, Store
  <2>2. n \in Nat \ {0} /\ (n + 1) - 1 = n /\ n + 1 \in 1 .. Len(req.lines) + 1
    BY <2>1, LinesSeq
  <2>3. list = FieldsUpTo(req.lines)[n - 1] /\ list \in Seq(HeaderLine) /\ Len(list) < MaxHeaders
    <3>1. list = FieldsUpTo(req.lines)[n - 1] /\ n - 1 \in 0 .. Len(req.lines)
      BY <2>1, LinesSeq DEF HeaderInv
    <3>2. list \in Seq(HeaderLine)
      BY <3>1, LinesSeq
    <3> QED
      BY <2>1, <3>1, <3>2, ExtrasAssumption DEF OverLimit
  <2>4. FieldsUpTo(req.lines)[n] = list'
    BY <2>1, <2>2, <2>3, FieldsUpToIs
  <2>5. Len(list') <= MaxHeaders
    <3>1. req.lines[n] \in HeaderLine
      BY <2>1, LinesSeq
    <3>2. Len(Append(list, req.lines[n])) = Len(list) + 1
      BY <2>3, <3>1
    <3> QED
      BY <2>1, <2>3, <3>2, ExtrasAssumption
  <2> QED
    BY <2>1, <2>2, <2>4, <2>5 DEF HeaderInv, Parsed, WellFormed, Lines
<1>5. CASE LineFails
  <2>1. PICK line \in Line :
          /\ \/ OverLimit(line) /\ UNCHANGED starved
             \/ ~OverLimit(line) /\ line.form = "field" /\ starved' = TRUE
          /\ Abandon("header") /\ Refuse431
          /\ UNCHANGED <<req, ka, list, n, field, decodeVars>>
    BY <1>5 DEF LineFails
  <2>2. pc = "lines" /\ n \in 1 .. Len(req.lines) /\ line = req.lines[n]
    BY <2>1 DEF Line
  <2>3. ASSUME OverLimit(line), line.form # "long" PROVE Len(WellFormed) >= MaxHeaders
    <3>1. Len(list) >= MaxHeaders /\ list = FieldsUpTo(req.lines)[n - 1]
      BY <2>2, <2>3 DEF OverLimit, HeaderInv
    <3>2. n - 1 \in 0 .. Len(req.lines) /\ req.lines \in Seq(HeaderLine)
      BY <2>2, LinesSeq
    <3>3. Len(list) <= Len(WellFormed)
      BY <3>1, <3>2, FieldsUpToGrows DEF WellFormed
    <3>4. Len(list) \in Nat /\ Len(WellFormed) \in Nat
      BY <3>1, <3>2, LinesSeq
    <3> QED
      BY <3>1, <3>3, <3>4, ExtrasAssumption
  <2>4. line \in Lines
    BY <2>2 DEF Lines
  <2>5. req' = req /\ pc' = "release"
    BY <2>1 DEF Refuse431
  <2> QED
    BY <2>1, <2>3, <2>4, <2>5 DEF HeaderInv, Parsed, WellFormed, Lines
<1>6. CASE EndHeaders
  <2>1. pc = "lines" /\ n > Len(req.lines) /\ req' = req /\ pc' = "fields"
        /\ verdict' = verdict /\ starved' = starved
        /\ extras' = [extras EXCEPT !["header"] = [held |-> TRUE, list |-> list]]
    BY <1>6 DEF EndHeaders, HandOut
  <2>2. Fields' = list
    BY <2>1 DEF Fields, OwnInv, Kinds
  <2>3. n - 1 = Len(req.lines)
    BY <2>1, LinesSeq DEF HeaderInv
  <2>4. list = WellFormed /\ Len(list) <= MaxHeaders
    BY <2>1, <2>3 DEF HeaderInv, WellFormed
  <2> QED
    BY <2>1, <2>2, <2>4 DEF HeaderInv, Parsed, WellFormed, Lines
<1> QED
  BY <1>1, <1>2, <1>3, <1>4, <1>5, <1>6

LEMMA HeaderStep == HeaderInv /\ OwnInv /\ [Next]_vars => HeaderInv'
<1> SUFFICES ASSUME HeaderInv, OwnInv, [Next]_vars PROVE HeaderInv'
  OBVIOUS
<1>1. CASE UNCHANGED vars
  BY <1>1 DEF vars, HeaderInv, Fields, WellFormed, Lines
<1>2. CASE Next
  BY <1>2, HeaderStepElsewhere, HeaderStepLines DEF Next
<1> QED
  BY <1>1, <1>2

LEMMA HeaderAlways == Spec => []HeaderInv
  BY HeaderInit, HeaderStep, OwnAlways, PTL DEF Spec

(* parse_headers() and parse_request() hand a handler every header field   *)
(* of the request, in order, or refuse the request; and with memory to     *)
(* spare they refuse it only for a line or a number of fields over the     *)
(* limit.                                                                  *)
THEOREM HeadersCompleteHolds == Spec => []HeadersComplete
<1>1. HeaderInv => HeadersComplete
  BY DEF HeaderInv, HeadersComplete, Parsed
<1> QED
  BY HeaderAlways, <1>1, PTL

----------------------------------------------------------------------------
(* The cookie array: after the fields up to m it holds the cookies of the  *)
(* last Cookie field among them; while one is cut up, its pieces before n. *)

IsCookieField(fields, x) == fields[x].name = "Cookie"
Stored == extras["cookie"].list

CookiesUpTo(m, fields, stored) ==
  /\ (\A x \in 1 .. m : ~IsCookieField(fields, x)) => stored = <<>>
  /\ \A x \in 1 .. m :
       IsCookieField(fields, x) /\ (\A y \in x + 1 .. m : ~IsCookieField(fields, y)) =>
         stored = PiecesUpTo(fields[x].pieces)[Len(fields[x].pieces)]

CookieInv ==
  /\ pc \in {"idle", "headers", "lines", "cookie"} => Stored = <<>>
  /\ pc \in Parsed => field \in 1 .. Len(Fields) + 1
  /\ pc \in {"cookie", "crumbs"} => field <= Len(Fields) /\ IsCookieField(Fields, field)
  /\ pc = "crumbs" => /\ n \in 1 .. Len(Field.pieces) + 1
                      /\ list = PiecesUpTo(Field.pieces)[n - 1]
  /\ pc \in {"pairs", "decode", "serve"} => field = Len(Fields) + 1
  /\ pc \in {"fields", "pairs", "decode", "serve"} /\ ~starved => CookiesUpTo(field - 1, Fields, Stored)

LEMMA CookieInit == Init => CookieInv
  BY DEF Init, CookieInv, Parsed, Stored, Kinds, None

(* The pieces of a field.                                                  *)
LEMMA PiecesSeq ==
  ASSUME HeaderInv, pc \in Parsed, NEW x \in 1 .. Len(Fields)
  PROVE  /\ Len(Fields) \in Nat
         /\ Fields[x].pieces \in Seq(Piece \union {Nothing}) /\ Len(Fields[x].pieces) \in Nat
<1>1. Fields \in Seq(HeaderLine)
  BY LinesSeq DEF HeaderInv
<1>2. Fields[x] \in HeaderLine
  BY <1>1
<1>3. Fields[x].pieces \in Seq(Piece \union {Nothing})
  BY <1>2 DEF HeaderLine
<1> QED
  BY <1>1, <1>3

LEMMA FieldsNat ==
  ASSUME HeaderInv, pc \in Parsed
  PROVE  Len(Fields) \in Nat
<1>1. Fields \in Seq(HeaderLine)
  BY LinesSeq DEF HeaderInv
<1> QED
  BY <1>1

(* One field more that is no Cookie field, or that is one.                 *)
LEMMA CookiesPast ==
  ASSUME NEW m \in Nat, NEW fields, NEW stored,
         CookiesUpTo(m, fields, stored), ~IsCookieField(fields, m + 1)
  PROVE  CookiesUpTo(m + 1, fields, stored)
<1>1. \A x : x \in 1 .. m + 1 <=> x \in 1 .. m \/ x = m + 1
  OBVIOUS
<1>2. ASSUME \A x \in 1 .. m + 1 : ~IsCookieField(fields, x) PROVE stored = <<>>
  BY <1>1, <1>2 DEF CookiesUpTo
<1>3. ASSUME NEW x \in 1 .. m + 1, IsCookieField(fields, x),
             \A y \in x + 1 .. m + 1 : ~IsCookieField(fields, y)
      PROVE  stored = PiecesUpTo(fields[x].pieces)[Len(fields[x].pieces)]
  <2>1. x \in 1 .. m
    BY <1>1, <1>3
  <2>2. \A y \in x + 1 .. m : y \in x + 1 .. m + 1
    BY <2>1
  <2> QED
    BY <1>3, <2>1, <2>2 DEF CookiesUpTo
<1> QED
  BY <1>2, <1>3 DEF CookiesUpTo

LEMMA CookiesOf ==
  ASSUME NEW m \in Nat \ {0}, NEW fields, NEW stored, IsCookieField(fields, m),
         stored = PiecesUpTo(fields[m].pieces)[Len(fields[m].pieces)]
  PROVE  CookiesUpTo(m, fields, stored)
<1>1. m \in 1 .. m
  OBVIOUS
<1>2. ASSUME NEW x \in 1 .. m, \A y \in x + 1 .. m : ~IsCookieField(fields, y) PROVE x = m
  <2>1. x # m => m \in x + 1 .. m
    OBVIOUS
  <2> QED
    BY <1>2, <2>1
<1> QED
  BY <1>1, <1>2 DEF CookiesUpTo

LEMMA CookieStepBefore ==
  ASSUME CookieInv, HeaderInv, OwnInv,
         \/ Start \/ BeginHeaders \/ NoHeaders \/ SkipLine \/ StoreLine \/ LineFails
         \/ EndHeaders \/ Release
  PROVE  CookieInv'
<1>1. CASE Start \/ Release
  BY <1>1 DEF Start, Release, CookieInv, Parsed, Stored, Kinds, None
<1>2. CASE BeginHeaders \/ NoHeaders \/ SkipLine \/ StoreLine
  BY <1>2 DEF BeginHeaders, NoHeaders, SkipLine, StoreLine, Line, Refuse431, CookieInv, Parsed,
    Stored
<1>3. CASE LineFails
  BY <1>3 DEF LineFails, Refuse431, CookieInv, Parsed
<1>4. CASE EndHeaders
  <2>1. pc = "lines" /\ pc' = "fields" /\ field' = 1
        /\ extras' = [extras EXCEPT !["header"] = [held |-> TRUE, list |-> list]]
    BY <1>4 DEF EndHeaders, HandOut
  <2>2. Stored' = <<>>
    BY <2>1 DEF Stored, CookieInv, OwnInv, Kinds
  <2>3. Fields' = list /\ Len(list) \in Nat
    BY <2>1 DEF Fields, OwnInv, Kinds, IsList
  <2>4. CookiesUpTo(0, Fields', Stored')
    BY <2>2 DEF CookiesUpTo
  <2>5. field' - 1 = 0 /\ field' \in 1 .. Len(Fields') + 1
    BY <2>1, <2>3
  <2> QED
    BY <2>1, <2>4, <2>5 DEF CookieInv, Parsed
<1> QED
  BY <1>1, <1>2, <1>3, <1>4

(* Steps that leave the headers, the cookies and the place in them alone.  *)
LEMMA CookieStepAfter ==
  ASSUME CookieInv, HeaderInv, OwnInv,
         \/ BeginQuery \/ NoQuery \/ SkipPair \/ StorePair \/ PairFails \/ EndQuery
         \/ DecodeChar \/ DecodeEnds \/ Serve
  PROVE  CookieInv'
<1>1. \/ extras' = extras
      \/ \E e : extras' = [extras EXCEPT !["query"] = e]
  BY DEF BeginQuery, NoQuery, SkipPair, StorePair, PairFails, EndQuery, DecodeChar, DecodeEnds,
    Serve, HandOut, Abandon
<1>2. extras'["header"] = extras["header"] /\ extras'["cookie"] = extras["cookie"]
  BY <1>1 DEF OwnInv, Kinds
<1>3. Fields' = Fields /\ Stored' = Stored
  BY <1>2 DEF Fields, Stored
<1>4. /\ field' = field
      /\ ~starved' => ~starved
      /\ pc' \in {"pairs", "decode", "serve", "release"}
      /\ pc \in {"fields", "pairs", "decode", "serve"}
      /\ pc = "fields" => field > Len(Fields)
  <2>1. field' = field
    BY DEF BeginQuery, NoQuery, SkipPair, StorePair, PairFails, EndQuery, DecodeChar, DecodeEnds,
      Serve, Begin
  <2>2. ~starved' => ~starved
    BY DEF BeginQuery, NoQuery, SkipPair, StorePair, PairFails, EndQuery, DecodeChar, DecodeEnds,
      Serve, Begin
  <2>3. pc' \in {"pairs", "decode", "serve", "release"}
    BY DEF BeginQuery, NoQuery, SkipPair, StorePair, PairFails, EndQuery, DecodeChar, DecodeEnds,
      Serve, AtPair
  <2>4. pc \in {"fields", "pairs", "decode", "serve"} /\ (pc = "fields" => field > Len(Fields))
    BY DEF BeginQuery, NoQuery, SkipPair, StorePair, PairFails, EndQuery, DecodeChar, DecodeEnds,
      Serve, AtQuery, AtPair
  <2> QED
    BY <2>1, <2>2, <2>3, <2>4
<1>5. field = Len(Fields) + 1
  BY <1>4, FieldsNat DEF CookieInv, Parsed
<1>6. Len(Fields) \in Nat
  BY <1>4, FieldsNat DEF Parsed
<1> QED
  BY <1>3, <1>4, <1>5, <1>6 DEF CookieInv, Parsed

(* The loop over the fields.                                               *)
LEMMA CookieStepField ==
  ASSUME CookieInv, HeaderInv, OwnInv, OtherField \/ CookieField \/ BeginCookies \/ NoCookies
  PROVE  CookieInv'
<1>1. CASE OtherField
  <2>1. pc = "fields" /\ pc' = "fields" /\ field' = field + 1 /\ field <= Len(Fields)
        /\ ~IsCookieField(Fields, field) /\ extras' = extras /\ starved' = starved
    BY <1>1 DEF OtherField, AtField, IsCookie, Field, IsCookieField
  <2>2. Fields' = Fields /\ Stored' = Stored
    BY <2>1 DEF Fields, Stored
  <2>3. Len(Fields) \in Nat /\ field \in 1 .. Len(Fields) + 1
    BY <2>1, FieldsNat DEF CookieInv, Parsed
  <2>4. field - 1 \in Nat /\ (field - 1) + 1 = field /\ field' - 1 = field
        /\ field' \in 1 .. Len(Fields) + 1
    BY <2>1, <2>3
  <2>5. ~starved' => CookiesUpTo(field' - 1, Fields', Stored')
    <3>1. ~starved => CookiesUpTo(field - 1, Fields, Stored)
      BY <2>1 DEF CookieInv
    <3> QED
      BY <2>1, <2>2, <2>4, <3>1, CookiesPast
  <2> QED
    BY <2>1, <2>2, <2>4, <2>5 DEF CookieInv, Parsed
<1>2. CASE CookieField
  <2>1. pc = "fields" /\ pc' = "cookie" /\ field' = field /\ field <= Len(Fields)
        /\ IsCookieField(Fields, field) /\ extras' = [extras EXCEPT !["cookie"] = None]
    BY <1>2 DEF CookieField, AtField, IsCookie, Field, IsCookieField
  <2>2. Fields' = Fields /\ Stored' = <<>>
    BY <2>1 DEF Fields, Stored, OwnInv, Kinds, None
  <2>3. field \in 1 .. Len(Fields) + 1
    BY <2>1 DEF CookieInv, Parsed
  <2> QED
    BY <2>1, <2>2, <2>3 DEF CookieInv, Parsed, IsCookieField
<1>3. CASE BeginCookies
  <2>1. pc = "cookie" /\ pc' = "crumbs" /\ field' = field /\ extras' = extras
        /\ list' = <<>> /\ n' = 1
    BY <1>3 DEF BeginCookies, Begin
  <2>2. Fields' = Fields /\ Field' = Field
    BY <2>1 DEF Fields, Field
  <2>3. field \in 1 .. Len(Fields)
    BY <2>1, FieldsNat DEF CookieInv, Parsed
  <2>4. Len(Field.pieces) \in Nat /\ Len(Fields) \in Nat
    BY <2>1, <2>3, PiecesSeq DEF Parsed, Field
  <2>5. n' \in 1 .. Len(Field.pieces) + 1 /\ n' - 1 = 0
    BY <2>1, <2>4
  <2>6. list' = PiecesUpTo(Field.pieces)[n' - 1]
    BY <2>1, <2>5, PiecesUpToIs
  <2>7. IsCookieField(Fields', field') /\ field \in 1 .. Len(Fields) + 1 /\ field <= Len(Fields)
    BY <2>1, <2>2, <2>3, <2>4 DEF CookieInv, IsCookieField
  <2> QED
    BY <2>1, <2>2, <2>5, <2>6, <2>7 DEF CookieInv, Parsed
<1>4. CASE NoCookies
  <2>1. pc = "cookie" /\ pc' = "fields" /\ field' = field + 1 /\ extras' = extras
        /\ (~starved' => Field.pieces = <<>>)
    BY <1>4 DEF NoCookies
  <2>2. Fields' = Fields /\ Stored' = <<>>
    BY <2>1 DEF Fields, Stored, CookieInv
  <2>3. field \in 1 .. Len(Fields) /\ Len(Fields) \in Nat
    BY <2>1, FieldsNat DEF CookieInv, Parsed
  <2>4. field' - 1 = field /\ field \in Nat \ {0} /\ field' \in 1 .. Len(Fields) + 1
    BY <2>1, <2>3
  <2>5. Field.pieces = <<>> =>
          Stored' = PiecesUpTo(Fields[field].pieces)[Len(Fields[field].pieces)]
    BY <2>2, PiecesUpToIs DEF Field
  <2>6. IsCookieField(Fields, field)
    BY <2>1 DEF CookieInv
  <2>7. ~starved' => CookiesUpTo(field' - 1, Fields', Stored')
    BY <2>1, <2>2, <2>4, <2>5, <2>6, CookiesOf
  <2> QED
    BY <2>1, <2>2, <2>4, <2>7 DEF CookieInv, Parsed
<1> QED
  BY <1>1, <1>2, <1>3, <1>4

(* One Cookie field.                                                       *)
LEMMA CookieStepCrumbs ==
  ASSUME CookieInv, HeaderInv, OwnInv, StoreCookie \/ CookieFails \/ EndCookies
  PROVE  CookieInv'
<1>1. pc = "crumbs"
  BY DEF StoreCookie, CookieFails, EndCookies
<1>2. field \in 1 .. Len(Fields) /\ Len(Fields) \in Nat /\ IsCookieField(Fields, field)
  BY <1>1, FieldsNat DEF CookieInv, Parsed
<1>3. Len(Field.pieces) \in Nat
  BY <1>1, <1>2, PiecesSeq DEF Parsed, Field
<1>4. n \in 1 .. Len(Field.pieces) + 1 /\ list = PiecesUpTo(Field.pieces)[n - 1]
  BY <1>1 DEF CookieInv
<1>5. CASE StoreCookie
  <2>1. pc' = "crumbs" /\ field' = field /\ extras' = extras /\ n' = n + 1
        /\ n <= Len(Field.pieces)
        /\ list' = IF Field.pieces[n] # Nothing THEN Append(list, Field.pieces[n]) ELSE list
    BY <1>5 DEF StoreCookie, AtPiece, Store
  <2>2. Fields' = Fields /\ Field' = Field
    BY <2>1 DEF Fields, Field
  <2>3. n \in Nat \ {0} /\ n' - 1 = n /\ n' \in 1 .. Len(Field.pieces) + 1
    BY <1>3, <1>4, <2>1
  <2>4. list' = PiecesUpTo(Field.pieces)[n]
    BY <1>4, <2>1, <2>3, PiecesUpToIs
  <2>5. IsCookieField(Fields', field') /\ field \in 1 .. Len(Fields) + 1
    BY <1>2, <2>1, <2>2 DEF IsCookieField
  <2>6. n' \in 1 .. Len(Field'.pieces) + 1 /\ list' = PiecesUpTo(Field'.pieces)[n' - 1]
    BY <2>2, <2>3, <2>4
  <2>7. field' \in 1 .. Len(Fields') + 1 /\ field' <= Len(Fields')
    BY <1>2, <2>1, <2>2, <2>5
  <2> QED
    BY <2>1, <2>5, <2>6, <2>7 DEF CookieInv, Parsed
<1>6. CASE CookieFails
  <2>1. pc' = "fields" /\ field' = field + 1 /\ starved' = TRUE
        /\ extras' = [extras EXCEPT !["cookie"] = None]
    BY <1>6 DEF CookieFails, Abandon
  <2>2. Fields' = Fields
    BY <2>1 DEF Fields, OwnInv, Kinds
  <2>3. field' \in 1 .. Len(Fields) + 1
    BY <1>2, <2>1
  <2> QED
    BY <2>1, <2>2, <2>3 DEF CookieInv, Parsed
<1>7. CASE EndCookies
  <2>1. pc' = "fields" /\ field' = field + 1 /\ ~(n <= Len(Field.pieces))
        /\ extras' = [extras EXCEPT !["cookie"] = [held |-> TRUE, list |-> list]]
    BY <1>7 DEF EndCookies, HandOut, AtPiece
  <2>2. Fields' = Fields /\ Stored' = list
    BY <2>1 DEF Fields, Stored, OwnInv, Kinds
  <2>3. n - 1 = Len(Field.pieces) /\ field' - 1 = field /\ field \in Nat \ {0}
        /\ field' \in 1 .. Len(Fields) + 1
    BY <1>2, <1>3, <1>4, <2>1
  <2>4. list = PiecesUpTo(Fields[field].pieces)[Len(Fields[field].pieces)]
    BY <1>4, <2>3 DEF Field
  <2>5. CookiesUpTo(field' - 1, Fields', Stored')
    BY <1>2, <2>2, <2>3, <2>4, CookiesOf
  <2> QED
    BY <2>1, <2>2, <2>3, <2>5 DEF CookieInv, Parsed
<1> QED
  BY <1>5, <1>6, <1>7

LEMMA CookieStep == CookieInv /\ HeaderInv /\ OwnInv /\ [Next]_vars => CookieInv'
<1> SUFFICES ASSUME CookieInv, HeaderInv, OwnInv, [Next]_vars PROVE CookieInv'
  OBVIOUS
<1>1. CASE UNCHANGED vars
  BY <1>1 DEF vars, CookieInv, Fields, Field, Stored
<1>2. CASE Next
  BY <1>2, CookieStepBefore, CookieStepAfter, CookieStepField, CookieStepCrumbs DEF Next
<1> QED
  BY <1>1, <1>2

LEMMA CookieAlways == Spec => []CookieInv
  BY CookieInit, CookieStep, HeaderAlways, OwnAlways, PTL DEF Spec

LEMMA StoredIsLast ==
  ASSUME CookieInv, HeaderInv, pc = "serve", ~starved
  PROVE  Stored = LastCookies
<1>1. Fields = WellFormed /\ Len(Fields) \in Nat
  BY FieldsNat DEF HeaderInv, Parsed
<1>2. CookiesUpTo(Len(Fields), Fields, Stored)
  <2>1. field - 1 = Len(Fields)
    BY <1>1 DEF CookieInv
  <2> QED
    BY <2>1 DEF CookieInv
<1>3. CookieFields = {k \in 1 .. Len(Fields) : IsCookieField(Fields, k)}
  BY <1>1 DEF CookieFields, IsCookieField
<1>4. CASE CookieFields = {}
  BY <1>2, <1>3, <1>4 DEF CookiesUpTo, LastCookies
<1>5. CASE CookieFields # {}
  <2> DEFINE last == CHOOSE k \in CookieFields : \A j \in CookieFields : j <= k
  <2>1. last \in CookieFields /\ \A j \in CookieFields : j <= last
    <3>1. \E x \in CookieFields : \A y \in CookieFields : y <= x
      BY <1>1, <1>3, <1>5, Greatest
    <3> QED
      BY <3>1
  <2>2. LastCookies = PiecesUpTo(Fields[last].pieces)[Len(Fields[last].pieces)]
    BY <1>1, <1>5 DEF LastCookies
  <2> HIDE DEF last
  <2>3. last \in 1 .. Len(Fields) /\ IsCookieField(Fields, last)
    BY <1>3, <2>1
  <2>4. \A y \in last + 1 .. Len(Fields) : ~IsCookieField(Fields, y)
    <3>1. \A y \in last + 1 .. Len(Fields) : y \in 1 .. Len(Fields) /\ ~(y <= last)
      BY <1>1, <2>3
    <3> QED
      BY <1>3, <2>1, <3>1
  <2> QED
    BY <1>2, <2>2, <2>3, <2>4 DEF CookiesUpTo
<1> QED
  BY <1>4, <1>5

(* Whatever Cookie fields a request has, in whatever order, MNET_COOKIE()  *)
(* answers from the last one, with its first cookie of that name: the      *)
(* cookies of an earlier field never show through, unless memory ran out.  *)
THEOREM LastCookieWinsHolds == Spec => []LastCookieWins
<1>1. ASSUME CookieInv, HeaderInv, OwnInv PROVE LastCookieWins
  <2> SUFFICES ASSUME pc = "serve", ~starved, NEW name \in CookieNames
               PROVE  IF \A k \in 1 .. Len(Stored) : Stored[k].name # name
                      THEN Lookup("cookie", name) = <<>>
                      ELSE \E k \in 1 .. Len(Stored) :
                             /\ Stored[k].name = name
                             /\ \A j \in 1 .. k - 1 : Stored[j].name # name
                             /\ Lookup("cookie", name) = <<Stored[k].value>>
    BY <1>1, StoredIsLast DEF LastCookieWins
  <2> DEFINE found == {k \in 1 .. Len(Stored) : Stored[k].name = name}
             first == CHOOSE k \in found : \A m \in found : k <= m
  <2>1. Lookup("cookie", name) = IF found = {} THEN <<>> ELSE <<Stored[first].value>>
    BY DEF Lookup, Stored
  <2>2. Len(Stored) \in Nat
    BY <1>1 DEF OwnInv, IsList, Kinds, Stored
  <2>3. CASE found = {}
    BY <2>1, <2>3
  <2>4. CASE found # {}
    <3>1. first \in found /\ \A m \in found : first <= m
      <4>1. found \subseteq Nat
        BY <2>2
      <4>2. \E k \in found : \A m \in found : k <= m
        BY <4>1, <2>4, Least
      <4> QED
        BY <4>2
    <3>2. Lookup("cookie", name) = <<Stored[first].value>>
      BY <2>1, <2>4
    <3> HIDE DEF first
    <3>3. first \in 1 .. Len(Stored) /\ Stored[first].name = name
      BY <3>1
    <3>4. \A j \in 1 .. first - 1 : Stored[j].name # name
      <4>1. \A j \in 1 .. first - 1 : j \in 1 .. Len(Stored) /\ ~(first <= j)
        BY <2>2, <3>3
      <4> QED
        BY <3>1, <4>1
    <3> QED
      BY <3>2, <3>3, <3>4
  <2> QED
    BY <2>3, <2>4
<1> QED
  BY CookieAlways, HeaderAlways, OwnAlways, <1>1, PTL

----------------------------------------------------------------------------
(* Decoding satisfies its equation: it calls itself on shorter texts only. *)

Refuses(s) == s[1] = "%" /\ (~Escaped(s) \/ Char[<<s[2], s[3]>>] = "NUL")
First(s)   == CASE s[1] = "%" -> Char[<<s[2], s[3]>>] [] s[1] = "+" -> " " [] OTHER -> s[1]
Later(s)   == SubSeq(s, IF s[1] = "%" THEN 4 ELSE 2, Len(s))

DecodingBy(g, s) ==
  IF s = <<>> THEN <<>>
  ELSE IF Refuses(s) THEN Broken
  ELSE IF g[Later(s)] = Broken THEN Broken ELSE <<First(s)>> \o g[Later(s)]

LEMMA LaterIsShorter ==
  ASSUME NEW s \in Seq(STRING), s # <<>>
  PROVE  Later(s) \in Seq(STRING) /\ Len(Later(s)) < Len(s)
  BY DEF Later

LEMMA DecodingIs ==
  ASSUME NEW s \in Seq(STRING)
  PROVE  Decoding[s] = DecodingBy(Decoding, s)
<1>1. OpDefinesFcn(Decoding, Seq(STRING), DecodingBy)
  BY Zenon DEF OpDefinesFcn, Decoding, DecodingBy, Refuses, First, Later
<1>2. WFDefOn(Shorter, Seq(STRING), DecodingBy)
  <2> SUFFICES ASSUME NEW g, NEW h, NEW x \in Seq(STRING),
                      \A y \in SetLessThan(x, Shorter, Seq(STRING)) : g[y] = h[y]
               PROVE  DecodingBy(g, x) = DecodingBy(h, x)
    BY Zenon DEF WFDefOn
  <2>1. ASSUME x # <<>> PROVE g[Later(x)] = h[Later(x)]
    <3>1. Later(x) \in Seq(STRING) /\ Len(Later(x)) < Len(x)
      BY <2>1, LaterIsShorter
    <3>2. Later(x) \in SetLessThan(x, Shorter, Seq(STRING))
      BY <3>1 DEF SetLessThan, Shorter
    <3> QED
      BY <3>2
  <2> QED
    BY <2>1, Zenon DEF DecodingBy
<1> HIDE DEF DecodingBy
<1>3. WFInductiveDefines(Decoding, Seq(STRING), DecodingBy)
  BY <1>1, <1>2, ShorterWellFounded, WFInductiveDef, Zenon
<1> QED
  BY <1>3, Zenon DEF WFInductiveDefines

LEMMA CharIs ==
  ASSUME NEW a \in Hex, NEW b \in Hex
  PROVE  Char[<<a, b>>] # "%"
<1>1. <<a, b>> \in Hex \X Hex
  OBVIOUS
<1>2. <<a, b>> \in {<<"0", "0">>, <<"0", "4">>, <<"4", "0">>, <<"4", "4">>}
  BY DEF Hex
<1>3. Char[<<a, b>>] = CASE <<a, b>> = <<"0", "0">> -> "NUL"
                         [] <<a, b>> = <<"0", "4">> -> "EOT"
                         [] <<a, b>> = <<"4", "0">> -> "@"
                         [] <<a, b>> = <<"4", "4">> -> "D"
  BY <1>1 DEF Char
<1>4. Char[<<a, b>>] \in {"NUL", "EOT", "@", "D"}
  BY <1>2, <1>3, Zenon
<1> QED
  BY <1>4

LEMMA DecodingList == \A s \in Seq(STRING) : IsList(Decoding[s])
<1> DEFINE C == {s \in Seq(STRING) : ~IsList(Decoding[s])}
<1> SUFFICES ASSUME C # {} PROVE FALSE
  OBVIOUS
<1>1. PICK s \in C : \A y \in C : ~(<<y, s>> \in Shorter)
  BY ShorterWellFounded, WFMin
<1>2. s \in Seq(STRING) /\ \A y \in C : ~(Len(y) < Len(s))
  BY <1>1 DEF Shorter
<1>3. s # <<>> => Later(s) \in Seq(STRING) /\ IsList(Decoding[Later(s)])
  BY <1>2, LaterIsShorter
<1>4. IsList(Broken) /\ IsList(<<>>)
  BY DEF Broken, IsList
<1>5. Decoding[s] = DecodingBy(Decoding, s)
  BY <1>2, DecodingIs
<1>6. IsList(DecodingBy(Decoding, s))
  <2>1. s # <<>> => IsList(<<First(s)>> \o Decoding[Later(s)])
    BY <1>3, ConsIs
  <2> QED
    BY <1>4, <2>1 DEF DecodingBy
<1> QED
  BY <1>1, <1>5, <1>6

----------------------------------------------------------------------------
(* One pass of mnet_url_decode(): of a text s the characters from x on are *)
(* still to be read and stand in b as they did, and the p characters that  *)
(* b begins with are what the others decode to.                            *)

From(s, x) == SubSeq(s, x, Len(s))

Reads(s, b, x, p) ==
  /\ IsList(b) /\ Len(b) = Len(s) /\ x \in 1 .. Len(s) + 1 /\ p \in 0 .. x - 1
  /\ \A m \in x .. Len(s) : b[m] = s[m]
  /\ \A m \in 1 .. p : b[m] # "%"
  /\ Decoding[s] = IF Decoding[From(s, x)] = Broken THEN Broken
                   ELSE SubSeq(b, 1, p) \o Decoding[From(s, x)]

EscapeIn(b, x) == x + 2 <= Len(b) /\ b[x + 1] \in Hex /\ b[x + 2] \in Hex
CharAt(b, x) == CASE b[x] = "+" -> " "
                  [] b[x] = "%" -> Char[<<b[x + 1], b[x + 2]>>]
                  [] OTHER      -> b[x]
CanRead(b, x) == b[x] = "%" => EscapeIn(b, x) /\ CharAt(b, x) # "NUL"
Width(b, x) == IF b[x] = "%" THEN 3 ELSE 1

LEMMA FromIs ==
  ASSUME NEW s \in Seq(STRING), NEW x \in 1 .. Len(s) + 1
  PROVE  /\ From(s, x) \in Seq(STRING) /\ Len(From(s, x)) = Len(s) - x + 1
         /\ \A m \in 1 .. Len(s) - x + 1 : From(s, x)[m] = s[x + m - 1]
         /\ Len(s) \in Nat
  BY DEF From

LEMMA FromEnd ==
  ASSUME NEW s \in Seq(STRING)
  PROVE  From(s, Len(s) + 1) = <<>> /\ From(s, 1) = s
<1>1. Len(s) \in Nat /\ Len(s) + 1 \in 1 .. Len(s) + 1 /\ 1 \in 1 .. Len(s) + 1
  OBVIOUS
<1>2. From(s, Len(s) + 1) \in Seq(STRING) /\ Len(From(s, Len(s) + 1)) = 0
  <2>1. PICK x : x = Len(s) + 1
    OBVIOUS
  <2>2. x \in 1 .. Len(s) + 1
    BY <1>1, <2>1
  <2>3. From(s, x) \in Seq(STRING)
    BY <2>2, FromIs
  <2>4. Len(From(s, x)) = Len(s) - x + 1
    BY <2>2, FromIs
  <2>5. Len(s) - x + 1 = 0
    BY <1>1, <2>1
  <2> QED
    BY <2>1, <2>3, <2>4, <2>5
<1>3. From(s, 1) = s
  BY DEF From
<1> QED
  BY <1>2, <1>3

(* What the equation of Decoding says of the rest of a text.               *)
LEMMA RestIs ==
  ASSUME NEW s \in Seq(STRING), NEW x \in 1 .. Len(s)
  PROVE  /\ From(s, x) # <<>> /\ From(s, x)[1] = s[x]
         /\ Escaped(From(s, x)) <=> EscapeIn(s, x)
         /\ x + 2 <= Len(s) => From(s, x)[2] = s[x + 1] /\ From(s, x)[3] = s[x + 2]
         /\ Refuses(From(s, x)) <=> ~CanRead(s, x)
<1> DEFINE f == From(s, x)
<1>0. Len(s) \in Nat /\ x \in 1 .. Len(s) + 1
  OBVIOUS
<1>1. f \in Seq(STRING) /\ Len(f) = Len(s) - x + 1 /\ Len(s) \in Nat
      /\ \A m \in 1 .. Len(s) - x + 1 : f[m] = s[x + m - 1]
  BY <1>0, FromIs
<1> HIDE DEF f
<1>2. f # <<>> /\ f[1] = s[x]
  <2>1. 1 \in 1 .. Len(s) - x + 1 /\ x + 1 - 1 = x
    BY <1>1
  <2> QED
    BY <1>1, <2>1
<1>3. x + 2 <= Len(s) => f[2] = s[x + 1] /\ f[3] = s[x + 2]
  <2> SUFFICES ASSUME x + 2 <= Len(s) PROVE f[2] = s[x + 1] /\ f[3] = s[x + 2]
    OBVIOUS
  <2>1. 2 \in 1 .. Len(s) - x + 1 /\ 3 \in 1 .. Len(s) - x + 1
        /\ x + 2 - 1 = x + 1 /\ x + 3 - 1 = x + 2
    BY <1>1
  <2> QED
    BY <1>1, <2>1
<1>4. Len(f) >= 3 <=> x + 2 <= Len(s)
  BY <1>1
<1>5. Escaped(f) <=> EscapeIn(s, x)
  BY <1>3, <1>4 DEF Escaped, EscapeIn
<1>6. Refuses(f) <=> ~CanRead(s, x)
  <2>1. CASE f[1] # "%"
    BY <1>2, <2>1 DEF Refuses, CanRead
  <2>2. CASE f[1] = "%" /\ ~Escaped(f)
    BY <1>2, <1>5, <2>2 DEF Refuses, CanRead
  <2>3. CASE f[1] = "%" /\ Escaped(f)
    <3>1. CharAt(s, x) = Char[<<f[2], f[3]>>]
      <4>1. x + 2 <= Len(s)
        BY <1>5, <2>3 DEF EscapeIn
      <4> QED
        BY <1>2, <1>3, <2>3, <4>1 DEF CharAt
    <3> QED
      BY <1>2, <1>5, <2>3, <3>1 DEF Refuses, CanRead
  <2> QED
    BY <2>1, <2>2, <2>3
<1> QED
  BY <1>2, <1>3, <1>5, <1>6 DEF f

LEMMA RestLater ==
  ASSUME NEW s \in Seq(STRING), NEW x \in 1 .. Len(s), CanRead(s, x)
  PROVE  /\ x + Width(s, x) \in x + 1 .. Len(s) + 1
         /\ First(From(s, x)) = CharAt(s, x)
         /\ Later(From(s, x)) = From(s, x + Width(s, x))
         /\ CharAt(s, x) # "%"
<1> DEFINE f == From(s, x)
           w == Width(s, x)
<1>1. /\ f # <<>> /\ f[1] = s[x] /\ (Escaped(f) <=> EscapeIn(s, x))
      /\ (x + 2 <= Len(s) => f[2] = s[x + 1] /\ f[3] = s[x + 2])
  BY RestIs
<1>2. f \in Seq(STRING) /\ Len(f) = Len(s) - x + 1 /\ Len(s) \in Nat
      /\ \A m \in 1 .. Len(s) - x + 1 : f[m] = s[x + m - 1]
  BY FromIs
<1>3. s[x] = "%" => EscapeIn(s, x) /\ x + 2 <= Len(s)
  BY DEF CanRead, EscapeIn
<1>4. x + w \in x + 1 .. Len(s) + 1 /\ w \in {1, 3}
  BY <1>2, <1>3 DEF Width
<1>5. First(f) = CharAt(s, x)
  <2>1. CASE s[x] = "%"
    BY <1>1, <1>3, <2>1 DEF First, CharAt
  <2>2. CASE s[x] # "%"
    BY <1>1, <2>2 DEF First, CharAt
  <2> QED
    BY <2>1, <2>2
<1>6. CharAt(s, x) # "%"
  <2>1. CASE s[x] = "%"
    BY <1>3, <2>1, CharIs DEF CharAt, EscapeIn
  <2>2. CASE s[x] # "%"
    BY <2>2 DEF CharAt
  <2> QED
    BY <2>1, <2>2
<1>7. Later(f) = From(s, x + w)
  <2>1. Later(f) = SubSeq(f, w + 1, Len(f))
    <3>1. CASE s[x] = "%"
      BY <1>1, <3>1 DEF Later, Width
    <3>2. CASE s[x] # "%"
      BY <1>1, <3>2 DEF Later, Width
    <3> QED
      BY <3>1, <3>2
  <2> HIDE DEF f, w
  <2>2. PICK y : y = x + w
    OBVIOUS
  <2>3. y \in 1 .. Len(s) + 1 /\ y >= x + 1 /\ w \in 0 .. Len(f)
    BY <1>2, <1>4, <2>2
  <2>4. From(s, y) \in Seq(STRING) /\ Len(From(s, y)) = Len(s) - y + 1
        /\ \A m \in 1 .. Len(s) - y + 1 : From(s, y)[m] = s[y + m - 1]
    BY <2>3, FromIs
  <2>5. Len(From(s, y)) = Len(f) - w
    BY <1>2, <1>4, <2>2, <2>4
  <2>6. \A m \in 1 .. Len(From(s, y)) : f[w + m] = From(s, y)[m]
    <3> TAKE m \in 1 .. Len(From(s, y))
    <3>0. m \in 1 .. Len(s) - y + 1 /\ m \in Nat /\ w \in Nat /\ w >= 1
      BY <1>2, <1>4, <2>3, <2>4
    <3>1. w + m \in 1 .. Len(s) - x + 1 /\ m \in 1 .. Len(s) - y + 1
          /\ x + (w + m) - 1 = y + m - 1
      BY <1>2, <2>2, <3>0
    <3>2. f[w + m] = s[x + (w + m) - 1]
      BY <1>2, <3>1
    <3>3. From(s, y)[m] = s[y + m - 1]
      BY <2>4, <3>1
    <3> QED
      BY <3>1, <3>2, <3>3
  <2>7. Len(f) \in w .. Len(f) /\ w \in Nat /\ Len(f) - w = Len(From(s, y))
    BY <1>2, <2>3, <2>5
  <2>8. SubSeq(f, w + 1, Len(f)) = From(s, y)
    BY <1>2, <2>4, <2>6, <2>7, SamePart
  <2> QED
    BY <2>1, <2>2, <2>8
<1> QED
  BY <1>4, <1>5, <1>6, <1>7

LEMMA ReadsBegins ==
  ASSUME NEW s \in Seq(STRING)
  PROVE  Reads(s, s, 1, 0)
<1>1. IsList(s) /\ Len(s) \in Nat
  BY ListIs DEF IsList
<1>2. IsList(Decoding[s]) /\ From(s, 1) = s
  BY DecodingList, FromEnd
<1>3. SubSeq(s, 1, 0) = <<>>
  OBVIOUS
<1>4. SubSeq(s, 1, 0) \o Decoding[From(s, 1)] = Decoding[s]
  BY <1>2, <1>3, ConcatEmpty
<1>5. Decoding[s] = IF Decoding[From(s, 1)] = Broken THEN Broken
                    ELSE SubSeq(s, 1, 0) \o Decoding[From(s, 1)]
  BY <1>2, <1>4
<1>6. 1 \in 1 .. Len(s) + 1 /\ 0 \in 0 .. 1 - 1 /\ 1 .. 0 = {}
  BY <1>1
<1> QED
  BY <1>1, <1>5, <1>6, Zenon DEF Reads

LEMMA ReadsSame ==
  ASSUME NEW s, NEW b, NEW x, NEW p, Len(s) \in Nat, Reads(s, b, x, p), x <= Len(b)
  PROVE  /\ (CanRead(b, x) <=> CanRead(s, x)) /\ Width(b, x) = Width(s, x)
         /\ (EscapeIn(s, x) \/ b[x] # "%" => CharAt(b, x) = CharAt(s, x))
<1>1. b[x] = s[x] /\ Len(b) = Len(s) /\ x \in 1 .. Len(s)
  BY DEF Reads
<1>2. x + 2 <= Len(b) => b[x + 1] = s[x + 1] /\ b[x + 2] = s[x + 2]
  <2>1. \A m \in x .. Len(s) : b[m] = s[m]
    BY DEF Reads
  <2>2. x + 2 <= Len(b) => x + 1 \in x .. Len(s) /\ x + 2 \in x .. Len(s)
    BY <1>1
  <2> QED
    BY <2>1, <2>2
<1>3. EscapeIn(b, x) <=> EscapeIn(s, x)
  BY <1>1, <1>2 DEF EscapeIn
<1>4. EscapeIn(s, x) => CharAt(b, x) = CharAt(s, x)
  BY <1>1, <1>2 DEF EscapeIn, CharAt
<1>5. b[x] # "%" => CharAt(b, x) = CharAt(s, x)
  BY <1>1 DEF CharAt
<1> QED
  BY <1>1, <1>3, <1>4, <1>5 DEF CanRead, Width

LEMMA ReadsStuck ==
  ASSUME NEW s \in Seq(STRING), NEW b, NEW x, NEW p, Reads(s, b, x, p), x <= Len(b),
         ~CanRead(b, x)
  PROVE  Shown(s) = <<>>
<1>1. Len(s) \in Nat /\ x \in 1 .. Len(s)
  BY DEF Reads
<1>2. From(s, x) # <<>> /\ Refuses(From(s, x))
  BY <1>1, ReadsSame, RestIs
<1>3. From(s, x) \in Seq(STRING)
  BY <1>1, FromIs
<1>4. Decoding[From(s, x)] = Broken
  BY <1>2, <1>3, DecodingIs DEF DecodingBy
<1> QED
  BY <1>4 DEF Reads, Shown

LEMMA ReadsDone ==
  ASSUME NEW s \in Seq(STRING), NEW b, NEW x, NEW p, Reads(s, b, x, p), ~(x <= Len(b))
  PROVE  Shown(s) = SubSeq(b, 1, p)
<1>1. Len(s) \in Nat /\ x = Len(s) + 1 /\ p \in 0 .. Len(b) /\ IsList(b)
  BY DEF Reads
<1>2. From(s, x) = <<>> /\ <<>> \in Seq(STRING)
  BY <1>1, FromEnd
<1>3. Decoding[From(s, x)] = <<>> /\ <<>> # Broken
  BY <1>2, DecodingIs DEF DecodingBy, Broken
<1>4. IsList(SubSeq(b, 1, p)) /\ Len(SubSeq(b, 1, p)) = p
      /\ \A m \in 1 .. p : SubSeq(b, 1, p)[m] = b[m]
  BY <1>1, Prefix
<1>5. Decoding[s] = SubSeq(b, 1, p)
  <2>1. SubSeq(b, 1, p) \o <<>> = SubSeq(b, 1, p)
    BY <1>4, ConcatEmpty
  <2> QED
    BY <1>3, <2>1 DEF Reads
<1>6. SubSeq(b, 1, p) # Broken
  <2>1. Len(Broken) = 1 /\ Broken[1] = "%"
    BY DEF Broken
  <2>2. p = 1 => SubSeq(b, 1, p)[1] # "%"
    BY <1>4 DEF Reads
  <2> QED
    BY <1>4, <2>1, <2>2
<1> QED
  BY <1>5, <1>6 DEF Shown

LEMMA ReadsNext ==
  ASSUME NEW s \in Seq(STRING), NEW b, NEW x, NEW p, Reads(s, b, x, p), x <= Len(b),
         CanRead(b, x)
  PROVE  Reads(s, [b EXCEPT ![p + 1] = CharAt(b, x)], x + Width(b, x), p + 1)
<1>1. Len(s) \in Nat /\ x \in 1 .. Len(s) /\ IsList(b) /\ Len(b) = Len(s) /\ p \in 0 .. x - 1
  BY DEF Reads
<1>2. CanRead(s, x) /\ Width(b, x) = Width(s, x) /\ CharAt(b, x) = CharAt(s, x)
  <2>1. (CanRead(b, x) <=> CanRead(s, x)) /\ Width(b, x) = Width(s, x)
        /\ (EscapeIn(s, x) \/ b[x] # "%" => CharAt(b, x) = CharAt(s, x))
    BY <1>1, ReadsSame
  <2>2. b[x] = s[x]
    BY <1>1 DEF Reads
  <2>3. EscapeIn(s, x) \/ b[x] # "%"
    BY <2>1, <2>2 DEF CanRead
  <2> QED
    BY <2>1, <2>3
<1>3. PICK y, c : y = x + Width(s, x) /\ c = CharAt(s, x)
  OBVIOUS
<1> DEFINE d == [b EXCEPT ![p + 1] = c]
           t == Decoding[From(s, y)]
<1>4. y \in x + 1 .. Len(s) + 1 /\ c # "%"
      /\ First(From(s, x)) = c /\ Later(From(s, x)) = From(s, y)
  BY <1>1, <1>2, <1>3, RestLater
<1>5. From(s, x) # <<>> /\ ~Refuses(From(s, x)) /\ From(s, x) \in Seq(STRING)
  BY <1>1, <1>2, RestIs, FromIs
<1>6. Decoding[From(s, x)] = IF t = Broken THEN Broken ELSE <<c>> \o t
  BY <1>4, <1>5, DecodingIs DEF DecodingBy
<1>7. IsList(t)
  <2>1. y \in 1 .. Len(s) + 1
    BY <1>1, <1>4
  <2> QED
    BY <2>1, FromIs, DecodingList
<1>8. p + 1 \in 1 .. Len(b) /\ p \in 0 .. Len(b) /\ p + 1 \in 0 .. Len(b)
  BY <1>1
<1>9. /\ IsList(d) /\ Len(d) = Len(s) /\ d[p + 1] = c
      /\ \A m \in 1 .. Len(s) : m # p + 1 => d[m] = b[m]
  <2>1. IsList(d) /\ Len(d) = Len(b) /\ d[p + 1] = c
        /\ \A m \in 1 .. Len(b) : m # p + 1 => d[m] = b[m]
    <3>1. PICK q, v : q = p + 1 /\ v = [b EXCEPT ![q] = c]
      OBVIOUS
    <3>2. IsList(b) /\ q \in 1 .. Len(b)
      BY <1>1, <1>8, <3>1
    <3>3. IsList(v) /\ Len(v) = Len(b) /\ v[q] = c
      <4>1. v = [b EXCEPT ![q] = c]
        BY <3>1
      <4>2. IsList(v)
        BY <3>2, <4>1, Excepted
      <4>3. Len(v) = Len(b)
        BY <3>2, <4>1, Excepted
      <4>4. v[q] = c
        BY <3>2, <4>1, Excepted
      <4> QED
        BY <4>2, <4>3, <4>4
    <3>4. \A m \in 1 .. Len(b) : m # q => v[m] = b[m]
      BY <3>1, <3>2, Excepted
    <3>5. v = d
      BY <3>1
    <3> QED
      BY <3>1, <3>3, <3>4, <3>5, Zenon
  <2> QED
    BY <1>1, <2>1
<1> HIDE DEF d, t
<1>10. SubSeq(d, 1, p + 1) = SubSeq(b, 1, p) \o <<c>>
  <2> DEFINE u == SubSeq(b, 1, p)
             v == SubSeq(d, 1, p + 1)
  <2>1. IsList(u) /\ Len(u) = p /\ \A m \in 1 .. p : u[m] = b[m]
    BY <1>1, <1>8, Prefix
  <2>2. IsList(v) /\ Len(v) = p + 1 /\ \A m \in 1 .. p + 1 : v[m] = d[m]
    BY <1>1, <1>8, <1>9, Prefix
  <2>3. IsList(<<c>>) /\ Len(<<c>>) = 1 /\ <<c>>[1] = c
    BY DEF IsList
  <2> HIDE DEF u, v
  <2>4. PICK e, w : e = <<c>> /\ w = u \o e
    OBVIOUS
  <2>5. IsList(w) /\ Len(w) = p + 1 /\ (\A m \in 1 .. p : w[m] = u[m]) /\ w[p + 1] = c
    <3>1. IsList(e) /\ Len(e) = 1 /\ e[1] = c
      BY <2>3, <2>4
    <3>2. IsList(w) /\ Len(w) = Len(u) + Len(e)
          /\ (\A m \in 1 .. Len(u) : w[m] = u[m])
          /\ \A m \in 1 .. Len(e) : w[Len(u) + m] = e[m]
      <4>1. w = u \o e /\ IsList(u) /\ IsList(e)
        BY <2>1, <2>4, <3>1
      <4>2. IsList(w) /\ Len(w) = Len(u) + Len(e)
        BY <4>1, Concatenated
      <4>3. \A m \in 1 .. Len(u) : w[m] = u[m]
        BY <4>1, Concatenated
      <4>4. \A m \in 1 .. Len(e) : w[Len(u) + m] = e[m]
        BY <4>1, Concatenated
      <4> QED
        BY <4>2, <4>3, <4>4
    <3> QED
      BY <1>1, <2>1, <3>1, <3>2
  <2>6. \A m \in 1 .. p + 1 : v[m] = w[m]
    <3> TAKE m \in 1 .. p + 1
    <3>1. CASE m \in 1 .. p
      <4>1. m # p + 1 /\ m \in 1 .. Len(s)
        BY <1>1, <3>1
      <4> QED
        BY <1>9, <2>1, <2>2, <2>5, <3>1, <4>1
    <3>2. CASE m = p + 1
      BY <1>9, <2>2, <2>5, <3>2
    <3> QED
      BY <1>1, <3>1, <3>2
  <2>7. v = w
    BY <2>2, <2>5, <2>6, SameList
  <2> QED
    BY <2>4, <2>7 DEF u, v
<1>11. Decoding[s] = IF t = Broken THEN Broken ELSE SubSeq(d, 1, p + 1) \o t
  <2>1. CASE t = Broken
    <3>1. Decoding[From(s, x)] = Broken
      BY <1>6, <2>1
    <3> QED
      BY <2>1, <3>1 DEF Reads
  <2>2. CASE t # Broken
    <3>1. Decoding[From(s, x)] = <<c>> \o t
      BY <1>6, <2>2
    <3>2. <<c>> \o t # Broken
      <4>1. Head(<<c>> \o t) = c
        BY <1>7, ConsIs
      <4>2. Head(Broken) = "%"
        BY DEF Broken
      <4> QED
        BY <1>4, <4>1, <4>2
    <3>3. Decoding[s] = SubSeq(b, 1, p) \o (<<c>> \o t)
      BY <3>1, <3>2 DEF Reads
    <3>4. IsList(SubSeq(b, 1, p)) /\ IsList(<<c>>)
      BY <1>1, <1>7, <1>8, Prefix, ConsIs
    <3>5. (SubSeq(b, 1, p) \o <<c>>) \o t = SubSeq(b, 1, p) \o (<<c>> \o t)
      <4>1. PICK u, e : u = SubSeq(b, 1, p) /\ e = <<c>>
        OBVIOUS
      <4>2. IsList(u) /\ IsList(e) /\ IsList(t)
        BY <1>7, <3>4, <4>1
      <4>3. (u \o e) \o t = u \o (e \o t)
        BY <4>2, ConcatAssoc, SMTT(30)
      <4> QED
        BY <4>1, <4>3, Zenon
    <3> QED
      BY <1>10, <2>2, <3>3, <3>5
  <2> QED
    BY <2>1, <2>2
<1>12. y \in 1 .. Len(s) + 1 /\ p + 1 \in 0 .. y - 1
  BY <1>1, <1>4
<1>13. \A m \in y .. Len(s) : d[m] = s[m]
  <2> TAKE m \in y .. Len(s)
  <2>1. m \in x .. Len(s) /\ m \in 1 .. Len(s) /\ m # p + 1
    BY <1>1, <1>4, <1>12
  <2> QED
    BY <1>9, <2>1 DEF Reads
<1>14. \A m \in 1 .. p + 1 : d[m] # "%"
  <2> TAKE m \in 1 .. p + 1
  <2>1. m = p + 1 \/ (m \in 1 .. p /\ m # p + 1 /\ m \in 1 .. Len(s))
    BY <1>1
  <2> QED
    BY <1>4, <1>9, <2>1 DEF Reads
<1>15. Reads(s, d, y, p + 1)
  BY <1>9, <1>11, <1>12, <1>13, <1>14 DEF Reads, t
<1> QED
  BY <1>2, <1>3, <1>15 DEF d

----------------------------------------------------------------------------
(* The pieces of a query that are there, one by one.                       *)

LEMMA PiecesUpToList ==
  ASSUME NEW pieces, Len(pieces) \in Nat
  PROVE  \A m \in 0 .. Len(pieces) :
           IsList(PiecesUpTo(pieces)[m]) /\ Len(PiecesUpTo(pieces)[m]) <= m
<1> DEFINE K == PiecesUpTo(pieces)
           C == {m \in 0 .. Len(pieces) : ~(IsList(K[m]) /\ Len(K[m]) <= m)}
<1>1. /\ K[0] = <<>>
      /\ \A m \in Nat \ {0} :
           K[m] = IF pieces[m] # Nothing THEN Append(K[m - 1], pieces[m]) ELSE K[m - 1]
  BY PiecesUpToIs
<1> HIDE DEF K
<1> SUFFICES ASSUME C # {} PROVE FALSE
  BY DEF K
<1>2. PICK x \in C : \A y \in C : x <= y
  <2>1. C \subseteq Nat
    OBVIOUS
  <2> QED
    BY <2>1, Least
<1>3. x # 0
  <2>1. IsList(<<>>) /\ Len(<<>>) <= 0
    BY DEF IsList
  <2> QED
    BY <1>1, <1>2, <2>1
<1>4. x - 1 \in 0 .. Len(pieces) /\ x - 1 \notin C /\ x \in Nat \ {0}
  BY <1>2, <1>3
<1>5. IsList(K[x - 1]) /\ Len(K[x - 1]) <= x - 1 /\ Len(K[x - 1]) \in Nat
  BY <1>4 DEF IsList
<1>6. K[x] = Append(K[x - 1], pieces[x]) \/ K[x] = K[x - 1]
  BY <1>1, <1>4, Zenon
<1>7. IsList(K[x]) /\ Len(K[x]) <= x
  <2>1. IsList(Append(K[x - 1], pieces[x]))
        /\ Len(Append(K[x - 1], pieces[x])) = Len(K[x - 1]) + 1
    BY <1>5, AppendList
  <2>2. PICK h \in Nat : h = Len(K[x - 1])
    BY <1>5
  <2>3. h <= x /\ h + 1 <= x
    BY <1>4, <1>5, <2>2
  <2> QED
    BY <1>5, <1>6, <2>1, <2>2, <2>3
<1> QED
  BY <1>2, <1>7

LEMMA PiecesUpToPrefix ==
  ASSUME NEW pieces, Len(pieces) \in Nat, NEW m \in 0 .. Len(pieces)
  PROVE  /\ Len(PiecesUpTo(pieces)[m]) <= Len(PiecesUpTo(pieces)[Len(pieces)])
         /\ \A x \in 1 .. Len(PiecesUpTo(pieces)[m]) :
              PiecesUpTo(pieces)[Len(pieces)][x] = PiecesUpTo(pieces)[m][x]
<1> DEFINE K == PiecesUpTo(pieces)
           Begins(a, b) == Len(a) <= Len(b) /\ \A x \in 1 .. Len(a) : b[x] = a[x]
           C == {y \in m .. Len(pieces) : ~Begins(K[m], K[y])}
<1>1. \A y \in Nat \ {0} :
        K[y] = IF pieces[y] # Nothing THEN Append(K[y - 1], pieces[y]) ELSE K[y - 1]
  BY PiecesUpToIs
<1>2. \A y \in 0 .. Len(pieces) : IsList(K[y])
  BY PiecesUpToList
<1> HIDE DEF K
<1> SUFFICES ASSUME C # {} PROVE FALSE
  BY DEF K
<1>3. PICK x \in C : \A y \in C : x <= y
  <2>1. C \subseteq Nat
    OBVIOUS
  <2> QED
    BY <2>1, Least
<1>4. IsList(K[m]) /\ x # m
  <2>1. IsList(K[m])
    BY <1>2
  <2>2. Begins(K[m], K[m])
    BY <2>1 DEF IsList
  <2> QED
    BY <1>3, <2>1, <2>2
<1>5. x - 1 \in m .. Len(pieces) /\ x - 1 \notin C /\ x \in Nat \ {0} /\ x - 1 \in 0 .. Len(pieces)
  BY <1>3, <1>4
<1>6. IsList(K[x - 1]) /\ Begins(K[m], K[x - 1]) /\ Len(K[x - 1]) \in Nat /\ Len(K[m]) \in Nat
  BY <1>2, <1>4, <1>5 DEF IsList
<1>7. K[x] = Append(K[x - 1], pieces[x]) \/ K[x] = K[x - 1]
  BY <1>1, <1>5, Zenon
<1>8. Begins(K[m], K[x])
  <2>1. CASE K[x] = K[x - 1]
    BY <1>6, <2>1
  <2>2. CASE K[x] = Append(K[x - 1], pieces[x])
    <3>1. Len(K[x]) = Len(K[x - 1]) + 1 /\ \A y \in 1 .. Len(K[x - 1]) : K[x][y] = K[x - 1][y]
      BY <1>6, <2>2, AppendList
    <3>2. Len(K[m]) <= Len(K[x])
      BY <1>6, <3>1
    <3>3. \A y \in 1 .. Len(K[m]) : K[x][y] = K[m][y]
      <4> TAKE y \in 1 .. Len(K[m])
      <4>1. y \in 1 .. Len(K[x - 1])
        BY <1>6
      <4> QED
        BY <1>6, <3>1, <4>1
    <3> QED
      BY <3>2, <3>3
  <2> QED
    BY <1>7, <2>1, <2>2
<1> QED
  BY <1>3, <1>8

----------------------------------------------------------------------------
(* The query array: before piece n it holds the pieces there are, decoded; *)
(* while one is decoded, it stands at the end, its name first.             *)

Kept(m)  == PiecesUpTo(req.query)[m]
Shows(q) == [name |-> Shown(q.name), value |-> Shown(q.value)]
Original == IF part = "name" THEN req.query[n].name ELSE req.query[n].value

PairsInv ==
  /\ n \in 1 .. Len(req.query) + 1 /\ Len(list) <= Slots
  /\ Len(list) = Len(Kept(n - 1))
  /\ \A m \in 1 .. Len(list) : list[m] = Shows(Kept(n - 1)[m])

DecodeInv ==
  /\ n \in 1 .. Len(req.query) /\ Len(list) <= Slots /\ req.query[n] # Nothing
  /\ Len(list) = Len(Kept(n - 1)) + 1
  /\ \A m \in 1 .. Len(list) - 1 : list[m] = Shows(Kept(n - 1)[m])
  /\ part \in {"name", "value"}
  /\ list[Len(list)] = IF part = "name" THEN req.query[n]
                       ELSE [req.query[n] EXCEPT !.name = Shown(req.query[n].name)]
  /\ Reads(Original, buf, i, pos)

Shortened == \A m \in 1 .. Len(Given) : ~Long(Given[m])
Expected  == [m \in 1 .. Smaller(Len(Given), MaxQuery) |-> Shows(Given[m])]

QueryInv ==
  /\ pc \notin {"serve", "release"} => extras["query"].list = <<>>
  /\ pc = "pairs" => PairsInv
  /\ pc = "decode" => DecodeInv
  /\ pc = "serve" /\ ~starved /\ Shortened => extras["query"].list = Expected

LEMMA QueryInit == Init => QueryInv
  BY DEF Init, QueryInv, Kinds, None

LEMMA QuerySeq ==
  ASSUME HeaderInv
  PROVE  /\ req.query \in Seq(Piece \union {Nothing}) /\ Len(req.query) \in Nat
         /\ \A m \in 1 .. Len(req.query) : req.query[m] # Nothing =>
              /\ req.query[m] \in Piece
              /\ req.query[m].name \in Seq(STRING) /\ req.query[m].value \in Seq(STRING)
<1>1. req.query \in Seq(Piece \union {Nothing})
  BY RequestsAssumption DEF HeaderInv
<1>2. \A m \in 1 .. Len(req.query) : req.query[m] \in Piece \union {Nothing}
  BY <1>1
<1> QED
  BY <1>1, <1>2 DEF Piece

LEMMA QueryStepBefore ==
  ASSUME QueryInv, HeaderInv, OwnInv,
         \/ Start \/ BeginHeaders \/ NoHeaders \/ SkipLine \/ StoreLine \/ LineFails \/ EndHeaders
         \/ OtherField \/ CookieField \/ BeginCookies \/ NoCookies
         \/ StoreCookie \/ CookieFails \/ EndCookies \/ Serve \/ Release
  PROVE  QueryInv'
<1>1. CASE Start \/ Release
  BY <1>1 DEF Start, Release, QueryInv, Kinds, None
<1>2. CASE Serve
  BY <1>2 DEF Serve, QueryInv
<1>3. CASE ~(Start \/ Release \/ Serve)
  <2>1. pc \notin {"serve", "release"} /\ pc' \notin {"pairs", "decode", "serve"}
    BY <1>3 DEF BeginHeaders, NoHeaders, SkipLine, StoreLine, LineFails, EndHeaders, Line,
      OtherField, CookieField, BeginCookies, NoCookies, StoreCookie, CookieFails, EndCookies,
      AtField, Refuse431
  <2>2. \/ extras' = extras
        \/ \E kind \in {"header", "cookie"} : \E e : extras' = [extras EXCEPT ![kind] = e]
    BY <1>3 DEF BeginHeaders, NoHeaders, SkipLine, StoreLine, LineFails, EndHeaders,
      OtherField, CookieField, BeginCookies, NoCookies, StoreCookie, CookieFails, EndCookies,
      HandOut, Abandon
  <2>3. extras'["query"] = extras["query"]
    BY <2>2 DEF OwnInv, Kinds
  <2> QED
    BY <2>1, <2>3 DEF QueryInv
<1> QED
  BY <1>1, <1>2, <1>3

(* The pieces stored before piece m, and those stored after it.            *)
LEMMA KeptNext ==
  ASSUME HeaderInv, NEW m \in 1 .. Len(req.query)
  PROVE  /\ IsList(Kept(m - 1)) /\ IsList(Kept(m)) /\ Len(Kept(m - 1)) \in Nat
         /\ Len(Kept(m - 1)) <= m - 1
         /\ req.query[m] = Nothing => Kept(m) = Kept(m - 1)
         /\ req.query[m] # Nothing => /\ Len(Kept(m)) = Len(Kept(m - 1)) + 1
                                      /\ Kept(m)[Len(Kept(m))] = req.query[m]
                                      /\ \A x \in 1 .. Len(Kept(m - 1)) :
                                           Kept(m)[x] = Kept(m - 1)[x]
<1>1. Len(req.query) \in Nat
  BY QuerySeq
<1>2. m - 1 \in 0 .. Len(req.query) /\ m \in 0 .. Len(req.query) /\ m \in Nat \ {0}
  BY <1>1
<1>3. /\ IsList(Kept(m - 1)) /\ IsList(Kept(m)) /\ Len(Kept(m - 1)) <= m - 1
  BY <1>1, <1>2, PiecesUpToList DEF Kept
<1>4. Kept(m) = IF req.query[m] # Nothing THEN Append(Kept(m - 1), req.query[m]) ELSE Kept(m - 1)
  BY <1>2, PiecesUpToIs, Zenon DEF Kept
<1>5. Len(Kept(m - 1)) \in Nat
  BY <1>3 DEF IsList
<1>6. ASSUME req.query[m] # Nothing
      PROVE  /\ Len(Kept(m)) = Len(Kept(m - 1)) + 1
             /\ Kept(m)[Len(Kept(m))] = req.query[m]
             /\ \A x \in 1 .. Len(Kept(m - 1)) : Kept(m)[x] = Kept(m - 1)[x]
  <2>1. PICK k : k = Kept(m - 1)
    OBVIOUS
  <2>2. IsList(k) /\ Kept(m) = Append(k, req.query[m])
    BY <1>3, <1>4, <1>6, <2>1
  <2>3. Len(Kept(m)) = Len(k) + 1
    BY <2>2, AppendList
  <2>4. Kept(m)[Len(k) + 1] = req.query[m]
    BY <2>2, AppendList
  <2>5. \A x \in 1 .. Len(k) : Kept(m)[x] = k[x]
    BY <2>2, AppendList
  <2> QED
    BY <2>1, <2>3, <2>4, <2>5
<1> QED
  BY <1>3, <1>4, <1>5, <1>6

LEMMA GivenIs ==
  ASSUME HeaderInv, NEW m \in 0 .. Len(req.query)
  PROVE  /\ Len(req.query) \in Nat /\ IsList(Given) /\ Len(Given) \in Nat /\ Len(Given) <= Len(req.query)
         /\ IsList(Kept(m)) /\ Len(Kept(m)) \in Nat /\ Len(Kept(m)) <= m
         /\ Len(Kept(m)) <= Len(Given)
         /\ \A x \in 1 .. Len(Kept(m)) : Given[x] = Kept(m)[x]
<1>1. Len(req.query) \in Nat /\ Len(req.query) \in 0 .. Len(req.query)
  BY QuerySeq
<1>2. IsList(Given) /\ Len(Given) <= Len(req.query) /\ IsList(Kept(m)) /\ Len(Kept(m)) <= m
  BY <1>1, PiecesUpToList DEF Given, Kept
<1>3. Len(Given) \in Nat /\ Len(Kept(m)) \in Nat
  BY <1>2 DEF IsList
<1>4. Len(Kept(m)) <= Len(Given) /\ \A x \in 1 .. Len(Kept(m)) : Given[x] = Kept(m)[x]
  BY <1>1, PiecesUpToPrefix DEF Given, Kept
<1> QED
  BY <1>1, <1>2, <1>3, <1>4

(* When the loop over the pairs ends, nothing is missing.                  *)
LEMMA PairsDone ==
  ASSUME HeaderInv, PairsInv, IsList(list), ~(AtPiece(req.query) /\ Len(list) < Slots)
  PROVE  list = Expected
<1>1. Len(req.query) \in Nat /\ n - 1 \in 0 .. Len(req.query) /\ n \in Nat
  BY QuerySeq DEF PairsInv
<1> DEFINE k == Kept(n - 1)
<1>2. /\ IsList(Given) /\ Len(Given) \in Nat /\ Len(Given) <= Len(req.query)
      /\ IsList(k) /\ Len(k) \in Nat /\ Len(k) <= n - 1
      /\ Len(k) <= Len(Given) /\ \A x \in 1 .. Len(k) : Given[x] = k[x]
  BY <1>1, GivenIs
<1>3. n > Len(req.query) => k = Given
  <2>1. n > Len(req.query) => n - 1 = Len(req.query)
    BY <1>1
  <2> QED
    BY <2>1 DEF Kept, Given
<1>4. Len(list) = Len(k) /\ Len(list) <= Slots /\ \A m \in 1 .. Len(list) : list[m] = Shows(k[m])
  BY DEF PairsInv
<1> HIDE DEF k
<1>5. MaxQuery \in Nat
  BY ExtrasAssumption
<1>6. Len(list) = Smaller(Len(Given), MaxQuery)
  <2>1. CASE n > Len(req.query)
    BY <1>1, <1>2, <1>3, <1>4, <1>5, <2>1 DEF Slots, Smaller
  <2>2. CASE n <= Len(req.query)
    BY <1>1, <1>2, <1>4, <1>5, <2>2 DEF Slots, Smaller, AtPiece
  <2> QED
    BY <1>1, <2>1, <2>2
<1>7. \A m \in 1 .. Len(list) : list[m] = Shows(Given[m])
  BY <1>2, <1>4
<1>8. list = [m \in 1 .. Len(list) |-> list[m]]
  BY DEF IsList
<1>9. list = [m \in 1 .. Len(list) |-> Shows(Given[m])]
  BY <1>7, <1>8
<1> QED
  BY <1>6, <1>9, Zenon DEF Expected

LEMMA QueryUnchanged ==
  ASSUME req' = req
  PROVE  /\ Given' = Given /\ Expected' = Expected /\ (Shortened' <=> Shortened) /\ Slots' = Slots
         /\ \A m : Kept(m)' = Kept(m)
  BY DEF Given, Expected, Shortened, Slots, Kept, Shows, Long

LEMMA QueryStepPairs ==
  ASSUME QueryInv, HeaderInv, OwnInv, BeginQuery \/ NoQuery \/ SkipPair \/ EndQuery
  PROVE  QueryInv'
<1>1. req' = req
  BY DEF BeginQuery, NoQuery, SkipPair, EndQuery, Begin
<1>2. Len(req.query) \in Nat /\ MaxQuery \in Nat
  BY QuerySeq, ExtrasAssumption
<1>3. CASE BeginQuery
  <2>1. pc = "fields" /\ pc' = "pairs" /\ extras' = extras /\ list' = <<>> /\ n' = 1
    BY <1>3 DEF BeginQuery, AtQuery, Begin
  <2>2. Kept(0) = <<>> /\ n' - 1 = 0 /\ Len(<<>>) = 0 /\ 1 .. 0 = {}
    BY <2>1, PiecesUpToIs DEF Kept
  <2>3. n' \in 1 .. Len(req.query) + 1 /\ 0 <= Slots
    BY <1>2, <2>1 DEF Slots, Smaller
  <2>4. PairsInv'
    BY <1>1, <2>1, <2>2, <2>3, QueryUnchanged DEF PairsInv, Kept, Slots
  <2> QED
    BY <2>1, <2>4 DEF QueryInv
<1>4. CASE NoQuery
  <2>1. pc = "fields" /\ pc' = "serve" /\ extras' = extras /\ (~starved' => req.query = <<>>)
    BY <1>4 DEF NoQuery, AtQuery
  <2>2. ASSUME req.query = <<>> PROVE Expected = <<>>
    <3>1. Given = <<>>
      BY <2>2, PiecesUpToIs DEF Given
    <3>2. Smaller(Len(Given), MaxQuery) = 0
      BY <1>2, <3>1 DEF Smaller
    <3> QED
      BY <3>2 DEF Expected
  <2> QED
    BY <1>1, <2>1, <2>2, QueryUnchanged DEF QueryInv
<1>5. CASE SkipPair
  <2>1. pc = "pairs" /\ pc' = "pairs" /\ extras' = extras /\ list' = list /\ n' = n + 1
        /\ n <= Len(req.query) /\ req.query[n] = Nothing
    BY <1>5 DEF SkipPair, AtPair, AtPiece
  <2>2. PairsInv
    BY <2>1 DEF QueryInv
  <2>3. n \in 1 .. Len(req.query) /\ n' - 1 = n /\ n' \in 1 .. Len(req.query) + 1
    BY <1>2, <2>1, <2>2 DEF PairsInv
  <2>4. Kept(n) = Kept(n - 1)
    BY <2>1, <2>3, KeptNext
  <2>5. PairsInv'
    BY <1>1, <2>1, <2>2, <2>3, <2>4, QueryUnchanged DEF PairsInv, Kept, Slots
  <2> QED
    BY <2>1, <2>5 DEF QueryInv
<1>6. CASE EndQuery
  <2>1. pc = "pairs" /\ pc' = "serve" /\ ~(AtPiece(req.query) /\ Len(list) < Slots)
        /\ extras' = [extras EXCEPT !["query"] = [held |-> TRUE, list |-> list]]
    BY <1>6 DEF EndQuery, HandOut
  <2>2. extras'["query"].list = list
    BY <2>1 DEF OwnInv, Kinds
  <2>3. list = Expected
    BY <2>1, PairsDone DEF QueryInv, OwnInv
  <2> QED
    BY <1>1, <2>1, <2>2, <2>3, QueryUnchanged DEF QueryInv
<1> QED
  BY <1>3, <1>4, <1>5, <1>6

LEMMA QueryStepFails ==
  ASSUME QueryInv, HeaderInv, OwnInv, PairFails
  PROVE  QueryInv'
<1>1. req' = req /\ pc = "pairs" /\ pc' = "serve" /\ n <= Len(req.query) /\ req.query[n] # Nothing
      /\ (~starved' => Long(req.query[n]))
  BY DEF PairFails, AtPair, AtPiece
<1>2. Len(req.query) \in Nat /\ PairsInv
  BY <1>1, QuerySeq DEF QueryInv
<1>3. n \in 1 .. Len(req.query) /\ n \in 0 .. Len(req.query)
  BY <1>1, <1>2 DEF PairsInv
<1>4. /\ Len(Kept(n)) = Len(Kept(n - 1)) + 1 /\ Kept(n)[Len(Kept(n))] = req.query[n]
      /\ Len(Kept(n - 1)) \in Nat
  BY <1>1, <1>3, KeptNext
<1>5. Len(Kept(n)) <= Len(Given) /\ (\A x \in 1 .. Len(Kept(n)) : Given[x] = Kept(n)[x])
      /\ Len(Given) \in Nat
  BY <1>3, GivenIs
<1>6. PICK x : x = Len(Kept(n))
  OBVIOUS
<1>7. x \in 1 .. Len(Given) /\ Given[x] = req.query[n]
  BY <1>4, <1>5, <1>6
<1>8. ~starved' => ~Shortened
  BY <1>1, <1>7 DEF Shortened
<1> QED
  BY <1>1, <1>8, QueryUnchanged DEF QueryInv

LEMMA QueryStepStore ==
  ASSUME QueryInv, HeaderInv, OwnInv, StorePair
  PROVE  QueryInv'
<1>1. /\ req' = req /\ extras' = extras /\ n' = n /\ pc = "pairs" /\ pc' = "decode"
      /\ n <= Len(req.query) /\ Len(list) < Slots /\ req.query[n] # Nothing
      /\ list' = Append(list, req.query[n])
      /\ part' = "name" /\ buf' = req.query[n].name /\ i' = 1 /\ pos' = 0
  BY DEF StorePair, AtPair, AtPiece, Store
<1>2. Len(req.query) \in Nat /\ MaxQuery \in Nat /\ PairsInv /\ IsList(list)
  BY <1>1, QuerySeq, ExtrasAssumption DEF QueryInv, OwnInv
<1>3. n \in 1 .. Len(req.query) /\ Len(list) \in Nat /\ Slots \in Nat
  BY <1>1, <1>2 DEF PairsInv, IsList, Slots, Smaller
<1>4. req.query[n].name \in Seq(STRING)
  BY <1>1, <1>3, QuerySeq
<1>5. Len(list') = Len(list) + 1 /\ list'[Len(list) + 1] = req.query[n]
  BY <1>1, <1>2, AppendList
<1>6. \A m \in 1 .. Len(list) : list'[m] = list[m]
  BY <1>1, <1>2, AppendList
<1>7. Reads(Original, buf, i, pos)'
  <2>1. Reads(req.query[n].name, req.query[n].name, 1, 0)
    BY <1>4, ReadsBegins
  <2>2. Original' = req.query[n].name
    BY <1>1 DEF Original
  <2> QED
    BY <1>1, <2>1, <2>2 DEF Reads, From
<1>8. DecodeInv'
  <2>1. Len(list') <= Slots /\ Len(list') = Len(Kept(n - 1)) + 1 /\ Len(list') - 1 = Len(list)
    BY <1>1, <1>2, <1>3, <1>5 DEF PairsInv
  <2>2. \A m \in 1 .. Len(list') - 1 : list'[m] = Shows(Kept(n - 1)[m])
    BY <1>2, <1>6, <2>1 DEF PairsInv
  <2>3. list'[Len(list')] = req.query[n]
    BY <1>5
  <2>4. Slots' = Slots /\ Kept(n - 1)' = Kept(n - 1)
    BY <1>1 DEF Slots, Kept
  <2> QED
    BY <1>1, <1>3, <1>7, <2>1, <2>2, <2>3, <2>4 DEF DecodeInv
<1> QED
  BY <1>1, <1>8 DEF QueryInv

(* The name or value that is being decoded.                                *)
LEMMA OriginalIs ==
  ASSUME HeaderInv, DecodeInv
  PROVE  /\ n \in 1 .. Len(req.query) /\ Original \in Seq(STRING)
         /\ req.query[n] \in Piece
         /\ req.query[n].name \in Seq(STRING) /\ req.query[n].value \in Seq(STRING)
<1>1. n \in 1 .. Len(req.query) /\ req.query[n] # Nothing
  BY DEF DecodeInv
<1>2. req.query[n] \in Piece
      /\ req.query[n].name \in Seq(STRING) /\ req.query[n].value \in Seq(STRING)
  BY <1>1, QuerySeq
<1> QED
  BY <1>1, <1>2 DEF Original

LEMMA DecodesIs ==
  ASSUME HeaderInv, DecodeInv
  PROVE  /\ Decodes <=> i <= Len(buf) /\ CanRead(buf, i)
         /\ ~Decodes => Result = Shown(Original)
<1>1. Original \in Seq(STRING) /\ Reads(Original, buf, i, pos)
  BY OriginalIs DEF DecodeInv
<1>2. Decoded = CharAt(buf, i) /\ (EscapeAt(i) <=> EscapeIn(buf, i))
  BY Zenon DEF Decoded, CharAt, EscapeAt, EscapeIn
<1>3. i <= Len(buf) => pos < Len(buf)
  BY <1>1 DEF Reads
<1>4. Decodes <=> i <= Len(buf) /\ CanRead(buf, i)
  BY <1>2, <1>3 DEF Decodes, CanRead
<1>5. ASSUME ~Decodes PROVE Result = Shown(Original)
  <2>1. CASE i <= Len(buf)
    <3>1. Shown(Original) = <<>>
      BY <1>1, <1>4, <1>5, <2>1, ReadsStuck
    <3> QED
      BY <2>1, <3>1 DEF Result
  <2>2. CASE ~(i <= Len(buf))
    <3>1. Shown(Original) = SubSeq(buf, 1, pos)
      BY <1>1, <2>2, ReadsDone
    <3> QED
      BY <2>2, <3>1 DEF Result
  <2> QED
    BY <2>1, <2>2
<1> QED
  BY <1>4, <1>5

LEMMA QueryStepChar ==
  ASSUME QueryInv, HeaderInv, OwnInv, DecodeChar
  PROVE  QueryInv'
<1>1. /\ req' = req /\ extras' = extras /\ n' = n /\ list' = list /\ part' = part
      /\ pc = "decode" /\ pc' = "decode" /\ Decodes
      /\ buf' = [buf EXCEPT ![pos + 1] = Decoded] /\ pos' = pos + 1
      /\ i' = i + Width(buf, i)
  BY DEF DecodeChar, Width
<1>2. DecodeInv
  BY <1>1 DEF QueryInv
<1>3. i <= Len(buf) /\ CanRead(buf, i) /\ Decoded = CharAt(buf, i)
  <2>1. i <= Len(buf) /\ CanRead(buf, i)
    BY <1>1, <1>2, DecodesIs
  <2>2. Decoded = CharAt(buf, i)
    BY Zenon DEF Decoded, CharAt
  <2> QED
    BY <2>1, <2>2
<1>4. Original \in Seq(STRING) /\ Reads(Original, buf, i, pos)
  BY <1>2, OriginalIs DEF DecodeInv
<1>5. Reads(Original, [buf EXCEPT ![pos + 1] = CharAt(buf, i)], i + Width(buf, i), pos + 1)
  BY <1>3, <1>4, ReadsNext
<1>6. Reads(Original, buf', i', pos')
  BY <1>1, <1>3, <1>5
<1>7. Original' = Original /\ Slots' = Slots /\ Kept(n - 1)' = Kept(n - 1)
  BY <1>1 DEF Original, Slots, Kept
<1>8. Reads(Original, buf, i, pos)'
  BY <1>6, <1>7 DEF Reads, From
<1>9. DecodeInv'
  BY <1>1, <1>2, <1>7, <1>8 DEF DecodeInv
<1> QED
  BY <1>1, <1>9 DEF QueryInv

LEMMA QueryStepEnds ==
  ASSUME QueryInv, HeaderInv, OwnInv, DecodeEnds
  PROVE  QueryInv'
<1>1. req' = req /\ extras' = extras /\ pc = "decode" /\ ~Decodes
  BY DEF DecodeEnds
<1>2. DecodeInv /\ IsList(list) /\ Len(req.query) \in Nat
  BY <1>1, QuerySeq DEF QueryInv, OwnInv
<1>3. /\ n \in 1 .. Len(req.query) /\ Result = Shown(Original)
      /\ req.query[n] \in Piece /\ req.query[n].value \in Seq(STRING)
  BY <1>1, <1>2, OriginalIs, DecodesIs
<1>4. /\ Len(Kept(n - 1)) \in Nat /\ Len(Kept(n)) = Len(Kept(n - 1)) + 1
      /\ Kept(n)[Len(Kept(n))] = req.query[n]
      /\ \A x \in 1 .. Len(Kept(n - 1)) : Kept(n)[x] = Kept(n - 1)[x]
  BY <1>2, <1>3, KeptNext DEF DecodeInv
<1>5. PICK k : k = Len(list)
  OBVIOUS
<1>6. k \in 1 .. Len(list) /\ k \in Nat /\ k = Len(Kept(n)) /\ k - 1 = Len(Kept(n - 1)) /\ k <= Slots
  BY <1>2, <1>4, <1>5 DEF DecodeInv
<1>7. Slots' = Slots /\ \A m : Kept(m)' = Kept(m)
  BY <1>1, QueryUnchanged
<1>8. CASE part = "name"
  <2>1. /\ list' = [list EXCEPT ![k] = [list[k] EXCEPT !.name = Result]]
        /\ part' = "value" /\ buf' = list[k].value /\ i' = 1 /\ pos' = 0 /\ n' = n /\ pc' = pc
    BY <1>5, <1>8 DEF DecodeEnds
  <2>2. list[k] = req.query[n] /\ Original = req.query[n].name
    BY <1>2, <1>5, <1>8 DEF DecodeInv, Original
  <2>3. PICK e : e = [list[k] EXCEPT !.name = Result]
    OBVIOUS
  <2>4. Len(list') = Len(list) /\ list'[k] = e
    BY <1>2, <1>6, <2>1, <2>3, Excepted
  <2>5. \A x \in 1 .. Len(list) : x # k => list'[x] = list[x]
    BY <1>2, <1>6, <2>1, <2>3, Excepted
  <2>6. list'[Len(list')] = [req.query[n] EXCEPT !.name = Shown(req.query[n].name)]
    BY <1>3, <1>5, <2>2, <2>3, <2>4
  <2>7. \A m \in 1 .. Len(list') - 1 : list'[m] = Shows(Kept(n - 1)[m])
    <3> TAKE m \in 1 .. Len(list') - 1
    <3>1. m \in 1 .. k - 1 /\ k \in Nat
      BY <1>5, <1>6, <2>4
    <3>2. m \in 1 .. k /\ m # k
      BY <3>1
    <3>3. m \in 1 .. Len(list) /\ m \in 1 .. Len(list) - 1
      BY <1>5, <3>1, <3>2
    <3> QED
      BY <1>2, <2>5, <3>2, <3>3 DEF DecodeInv
  <2>8. Reads(Original, buf, i, pos)'
    <3>1. Reads(req.query[n].value, req.query[n].value, 1, 0)
      BY <1>3, ReadsBegins
    <3>2. Original' = req.query[n].value /\ buf' = req.query[n].value
      BY <1>1, <2>1, <2>2 DEF Original
    <3> QED
      BY <1>1, <2>1, <3>1, <3>2 DEF Reads, From
  <2>9. DecodeInv'
    <3>1. Kept(n - 1)' = Kept(n - 1)
      BY <1>1, <2>1 DEF Kept
    <3>2. Len(list') <= Slots /\ Len(list') = Len(Kept(n - 1)) + 1
      BY <1>2, <2>4 DEF DecodeInv
    <3> QED
      BY <1>1, <1>2, <1>7, <2>1, <2>6, <2>7, <2>8, <3>1, <3>2 DEF DecodeInv
  <2> QED
    BY <1>1, <2>1, <2>9 DEF QueryInv
<1>9. CASE part # "name"
  <2>1. /\ list' = [list EXCEPT ![k] = [list[k] EXCEPT !.value = Result]]
        /\ n' = n + 1 /\ pc' = "pairs"
    BY <1>5, <1>9 DEF DecodeEnds
  <2>2. list[k] = [req.query[n] EXCEPT !.name = Shown(req.query[n].name)]
        /\ Original = req.query[n].value
    BY <1>2, <1>5, <1>9 DEF DecodeInv, Original
  <2>3. PICK e : e = [list[k] EXCEPT !.value = Result]
    OBVIOUS
  <2>4. Len(list') = Len(list) /\ list'[k] = e
    BY <1>2, <1>6, <2>1, <2>3, Excepted
  <2>5. \A x \in 1 .. Len(list) : x # k => list'[x] = list[x]
    BY <1>2, <1>6, <2>1, <2>3, Excepted
  <2>6. e = Shows(req.query[n])
    BY <1>3, <2>2, <2>3 DEF Shows, Piece
  <2>7. \A m \in 1 .. Len(list') : list'[m] = Shows(Kept(n)[m])
    <3> TAKE m \in 1 .. Len(list')
    <3>1. CASE m = k
      BY <1>4, <1>6, <2>4, <2>6, <3>1
    <3>2. CASE m # k
      <4>0. m \in 1 .. k /\ k \in Nat
        BY <1>5, <1>6, <2>4
      <4>1. m \in 1 .. Len(list) /\ m \in 1 .. Len(list) - 1 /\ m \in 1 .. Len(Kept(n - 1))
        <5>1. m \in 1 .. k - 1
          BY <3>2, <4>0
        <5> QED
          BY <1>5, <1>6, <4>0, <5>1, Zenon
      <4> QED
        BY <1>2, <1>4, <2>5, <3>2, <4>1 DEF DecodeInv
    <3> QED
      BY <3>1, <3>2
  <2>8. PairsInv'
    <3>1. n' - 1 = n /\ n' \in 1 .. Len(req.query) + 1
      BY <1>2, <1>3, <2>1
    <3>2. Kept(n - 1)' = Kept(n)
      BY <1>1, <3>1 DEF Kept
    <3>3. Len(list') <= Slots /\ Len(list') = Len(Kept(n))
      BY <1>5, <1>6, <2>4
    <3> QED
      BY <1>1, <1>7, <2>7, <3>1, <3>2, <3>3 DEF PairsInv
  <2> QED
    BY <1>1, <2>1, <2>8 DEF QueryInv
<1> QED
  BY <1>8, <1>9

LEMMA QueryStep == QueryInv /\ HeaderInv /\ OwnInv /\ [Next]_vars => QueryInv'
<1> SUFFICES ASSUME QueryInv, HeaderInv, OwnInv, [Next]_vars PROVE QueryInv'
  OBVIOUS
<1>1. CASE UNCHANGED vars
  <2>1. req' = req /\ pc' = pc /\ extras' = extras /\ starved' = starved
    BY <1>1 DEF vars
  <2>2. PairsInv' <=> PairsInv
    BY <1>1 DEF vars, PairsInv, Kept, Slots, Shows
  <2>3. DecodeInv' <=> DecodeInv
    BY <1>1 DEF vars, DecodeInv, Kept, Slots, Shows, Original, Reads, From
  <2> QED
    BY <2>1, <2>2, <2>3, QueryUnchanged DEF QueryInv
<1>2. CASE Next
  BY <1>2, QueryStepBefore, QueryStepPairs, QueryStepFails, QueryStepStore, QueryStepChar,
    QueryStepEnds DEF Next
<1> QED
  BY <1>1, <1>2

LEMMA QueryAlways == Spec => []QueryInv
  BY QueryInit, QueryStep, HeaderAlways, OwnAlways, PTL DEF Spec

(* mnet_url_decode(), run in place on the name and then on the value of    *)
(* each pair, leaves in the query array what they mean, read from the      *)
(* left: with memory to spare and no pair over the limit a handler finds   *)
(* the first MNET_MAX_QUERY pairs that are there, in order, decoded, and   *)
(* an empty text for one that does not decode.                             *)
THEOREM QueryDecodedHolds == Spec => []QueryDecoded
<1>1. QueryInv => QueryDecoded
  BY DEF QueryInv, QueryDecoded, Shortened, Expected, Shows
<1> QED
  BY QueryAlways, <1>1, PTL
=============================================================================
