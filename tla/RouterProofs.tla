---------------------------- MODULE RouterProofs ----------------------------
(***************************************************************************)
(* For every table of routes, every request and every capacity: the route  *)
(* table is large enough, mnet_route_match() stays inside pattern and      *)
(* path and the parameter values are freed exactly once; and for patterns  *)
(* made of whole segments, the route found and the values stored are those *)
(* the segments say.                                                       *)
(***************************************************************************)
EXTENDS Router, ListLemmas, FiniteSetTheorems

(* The routes a program can register.                                      *)
StaticPath(p) == p \o <<"/", "*">>
Route(m, p)    == [method |-> m, path |-> p, names |-> ParamNames(p), static |-> FALSE]
StaticRoute(p) == [method |-> "GET", path |-> StaticPath(p), names |-> <<>>, static |-> TRUE]
AllRoutes ==
  {Route(m, p) : m \in Methods, p \in Patterns} \union {StaticRoute(p) : p \in StaticPrefixes}

(* EndOf() finds a place, and not one before k.                            *)
LEMMA EndOfIs ==
  ASSUME NEW p, Len(p) \in Nat, NEW k \in 1 .. Len(p) + 1, NEW stops
  PROVE  /\ EndOf(p, k, stops) \in k .. Len(p) + 1
         /\ EndOf(p, k, stops) = Len(p) + 1 \/ p[EndOf(p, k, stops)] \in stops
         /\ \A m \in k .. EndOf(p, k, stops) - 1 : p[m] \notin stops
<1> DEFINE T == {j \in k .. Len(p) + 1 : j = Len(p) + 1 \/ p[j] \in stops}
<1>1. Len(p) + 1 \in T /\ T \subseteq Nat
  OBVIOUS
<1>2. PICK j \in T : \A m \in T : j <= m
  BY <1>1, Least
<1>3. \A m \in k .. j - 1 : p[m] \notin stops
  <2>1. \A m \in k .. j - 1 : m \in k .. Len(p) + 1 /\ ~(j <= m)
    BY <1>2
  <2> QED
    BY <1>2, <2>1
<1>4. \E e \in k .. Len(p) + 1 :
        /\ e = Len(p) + 1 \/ p[e] \in stops
        /\ \A m \in k .. e - 1 : p[m] \notin stops
  BY <1>2, <1>3
<1> QED
  BY <1>4 DEF EndOf

LEMMA BeyondIs ==
  ASSUME NEW p, Len(p) \in Nat, NEW k \in 1 .. Len(p) + 1
  PROVE  Beyond(p, k) \in k .. Len(p) + 1
  BY DEF Beyond

(* Paths and patterns have a length.                                       *)
LEMMA PathLen ==
  /\ \A p \in Paths : Len(p) \in Nat
  /\ \A r \in AllRoutes : Len(r.path) \in Nat
<1>1. \A p \in Patterns \union StaticPrefixes \union Paths : p \in Seq(STRING)
  BY RouterAssumption
<1>2. ASSUME NEW p \in StaticPrefixes PROVE Len(StaticPath(p)) \in Nat
  <2> DEFINE S == STRING \union {"/", "*"}
  <2>1. p \in Seq(STRING)
    BY <1>1
  <2>2. p \in Seq(S) /\ "/" \in S /\ "*" \in S
    BY <2>1
  <2> HIDE DEF S
  <2>3. <<"/", "*">> \in Seq(S)
    BY <2>2
  <2>4. StaticPath(p) \in Seq(S)
    BY <2>2, <2>3 DEF StaticPath
  <2> QED
    BY <2>4
<1>3. ASSUME NEW r \in AllRoutes PROVE Len(r.path) \in Nat
  <2>1. (\E p \in Patterns : r.path = p) \/ (\E p \in StaticPrefixes : r.path = StaticPath(p))
    BY DEF AllRoutes, Route, StaticRoute
  <2>2. ASSUME NEW p \in Patterns PROVE Len(p) \in Nat
    BY <1>1
  <2> QED
    BY <1>2, <2>1, <2>2
<1>4. ASSUME NEW p \in Paths PROVE Len(p) \in Nat
  BY <1>1
<1> QED
  BY <1>3, <1>4

----------------------------------------------------------------------------
(* Type correctness.                                                       *)

(* TypeOK and what the places in pattern and path refer to.                *)
TInv ==
  /\ routes \in Seq(AllRoutes) /\ capacity \in Nat
  /\ req.path \in Paths \union {<<"/">>}
  /\ TypeOK

LEMMA TypeInit == Init => TInv
<1> SUFFICES ASSUME Init PROVE TInv
  OBVIOUS
<1>1. routes = <<>> /\ Len(routes) = 0 /\ i = 1
  BY DEF Init
<1>2. routes \in Seq(AllRoutes) /\ i \in 1 .. Len(routes) + 1
  BY <1>1
<1>3. Len(routes) <= capacity /\ Len(routes) <= MaxRoutes /\ capacity \in Nat /\ n \in Nat
  BY <1>1, RouterAssumption DEF Init
<1>4. req.method = "GET" /\ req.path = <<"/">> /\ as = "GET"
  BY DEF Init
<1>5. DOMAIN slots = 1 .. MaxParams /\ misuse \in BOOLEAN /\ pc = "config" /\ answer = "none"
  BY DEF Init
<1> QED
  BY <1>2, <1>3, <1>4, <1>5 DEF TInv, TypeOK

LEMMA TypeFacts ==
  ASSUME TInv
  PROVE  /\ Len(routes) \in Nat /\ Len(req.path) \in Nat
         /\ pc = "match" => Len(Pattern) \in Nat
<1>1. Len(routes) \in Nat
  BY DEF TInv
<1>2. Len(req.path) \in Nat
  BY PathLen DEF TInv
<1>3. ASSUME pc = "match" PROVE Len(Pattern) \in Nat
  <2>1. i \in 1 .. Len(routes) /\ routes \in Seq(AllRoutes)
    BY <1>1, <1>3 DEF TInv, TypeOK
  <2>2. routes[i] \in AllRoutes
    BY <2>1
  <2> QED
    BY <2>2, PathLen DEF Pattern
<1> QED
  BY <1>1, <1>2, <1>3

LEMMA TypeRegister ==
  ASSUME TInv, AddRoute \/ Static \/ RegisterFails \/ SetNotFound
  PROVE  TInv'
<1>1. pc = "config" /\ pc' = pc /\ req' = req /\ as' = as /\ i' = i /\ n' = n
      /\ slots' = slots /\ misuse' = misuse /\ answer' = answer
  BY DEF AddRoute, Static, RegisterFails, SetNotFound, Register, matchVars, heapVars
<1>2. Len(routes) \in Nat /\ capacity \in Nat /\ Len(routes) <= capacity /\ Len(routes) <= MaxRoutes
  BY TypeFacts DEF TInv, TypeOK
<1>3. Grown \in Nat /\ Len(routes) < Grown /\ capacity <= Grown
  BY <1>2, RouterAssumption DEF Grown
<1>4. \/ routes' = routes /\ capacity' \in {capacity, Grown}
      \/ \E r \in AllRoutes : routes' = Append(routes, r) /\ capacity' = Grown
                              /\ Len(routes) < MaxRoutes
  <2>1. CASE AddRoute
    <3>1. PICK m \in Methods, p \in Patterns :
            Register(Route(m, p))
      BY <2>1 DEF AddRoute, Route
    <3>2. Route(m, p) \in AllRoutes
      BY DEF AllRoutes
    <3> QED
      BY <3>1, <3>2 DEF Register
  <2>2. CASE Static
    <3>1. PICK p \in StaticPrefixes :
            Register(StaticRoute(p))
      BY <2>2, Zenon DEF Static, StaticRoute, StaticPath
    <3>2. StaticRoute(p) \in AllRoutes
      BY DEF AllRoutes
    <3> QED
      BY <3>1, <3>2 DEF Register
  <2>3. CASE RegisterFails \/ SetNotFound
    BY <2>3 DEF RegisterFails, SetNotFound
  <2> QED
    BY <2>1, <2>2, <2>3
<1>5. routes' \in Seq(AllRoutes) /\ Len(routes') <= capacity' /\ Len(routes') <= MaxRoutes
      /\ capacity' \in Nat /\ Len(routes') \in {Len(routes), Len(routes) + 1}
  <2>1. CASE routes' = routes /\ capacity' \in {capacity, Grown}
    BY <2>1, <1>2, <1>3 DEF TInv
  <2>2. ASSUME NEW r \in AllRoutes, routes' = Append(routes, r), capacity' = Grown,
               Len(routes) < MaxRoutes
        PROVE  <1>5!:
    <3>1. routes \in Seq(AllRoutes)
      BY DEF TInv
    <3>2. routes' \in Seq(AllRoutes) /\ Len(routes') = Len(routes) + 1
      BY <2>2, <3>1
    <3> QED
      BY <1>2, <1>3, <2>2, <3>2, RouterAssumption
  <2> QED
    BY <1>4, <2>1, <2>2
<1>6. i' \in 1 .. Len(routes') + 1
  BY <1>1, <1>2, <1>5 DEF TInv, TypeOK
<1> QED
  BY <1>1, <1>5, <1>6 DEF TInv, TypeOK

(* Steps of mnet_find_route() and dispatch(), outside the matcher's loop.  *)
LEMMA TypeSearch ==
  ASSUME TInv, Request \/ Skip \/ Try \/ HeadAsGet \/ NoRoute \/ Dispatch \/ Release
  PROVE  TInv'
<1>1. Len(routes) \in Nat /\ i \in 1 .. Len(routes) + 1 /\ n \in Nat
  BY TypeFacts DEF TInv, TypeOK
<1>2. routes' = routes /\ capacity' = capacity
  BY DEF Request, Skip, Try, HeadAsGet, NoRoute, Dispatch, Release, tableVars
<1>3. CASE Request
  <2>1. PICK m \in Methods, p \in Paths : req' = [method |-> m, path |-> p] /\ as' = m
    BY <1>3 DEF Request
  <2>2. req'.method = m /\ req'.path = p
    BY <2>1
  <2>3. pc' = "scan" /\ i' = 1 /\ n' = 0 /\ answer' = "none" /\ misuse' = misuse
        /\ DOMAIN slots' = 1 .. MaxParams
    BY <1>3 DEF Request
  <2>4. i' \in 1 .. Len(routes') + 1 /\ n' \in Nat
    BY <1>1, <1>2, <2>3
  <2> QED
    BY <1>2, <2>1, <2>2, <2>3, <2>4 DEF TInv, TypeOK
<1>4. CASE Skip \/ HeadAsGet \/ NoRoute
  <2>1. req' = req /\ as' \in {as, "GET"} /\ slots' = slots /\ misuse' = misuse
        /\ answer' = answer /\ pc' \in {"scan", "missed"} /\ n' \in {n, 0}
    BY <1>4 DEF Skip, HeadAsGet, NoRoute, matchVars, heapVars
  <2>2. i' \in 1 .. Len(routes') + 1 /\ n' \in Nat
    <3>1. (i' = i + 1 /\ i <= Len(routes)) \/ i' = 1 \/ i' = i
      BY <1>4 DEF Skip, HeadAsGet, NoRoute
    <3> QED
      BY <1>1, <1>2, <2>1, <3>1
  <2> QED
    BY <1>2, <2>1, <2>2 DEF TInv, TypeOK
<1>5. CASE Try
  <2>1. req' = req /\ as' = as /\ i' = i /\ slots' = slots /\ misuse' = misuse
        /\ answer' = answer /\ pc' = "match" /\ n' = 0 /\ ppos' = 1 /\ rpos' = 1
        /\ i <= Len(routes)
    BY <1>5 DEF Try, heapVars
  <2>2. Pattern' = Pattern
    BY <1>2, <2>1 DEF Pattern
  <2>3. Len(Pattern) \in Nat /\ Len(req.path) \in Nat
    <3>1. routes[i] \in AllRoutes
      BY <1>1, <2>1 DEF TInv
    <3> QED
      BY <3>1, PathLen, TypeFacts DEF Pattern
  <2>4. ppos' \in 1 .. Len(Pattern') + 1 /\ rpos' \in 1 .. Len(req'.path) + 1 /\ n' \in Nat
    BY <2>1, <2>2, <2>3
  <2> QED
    BY <1>2, <2>1, <2>4 DEF TInv, TypeOK
<1>6. CASE Dispatch
  <2>1. req' = req /\ as' = as /\ i' = i /\ slots' = slots /\ misuse' = misuse
        /\ pc' = "sent" /\ n' = n
    BY <1>6 DEF Dispatch, matchVars, heapVars
  <2>2. answer' \in {"welcome", "handler", "custom", "404"}
    BY <1>6 DEF Dispatch, Answer
  <2> QED
    BY <1>2, <2>1, <2>2 DEF TInv, TypeOK
<1>7. CASE Release
  <2>1. req' = req /\ as' = as /\ i' = i /\ slots' = slots /\ answer' = answer
        /\ pc' = "idle" /\ n' = n
    BY <1>7 DEF Release, matchVars
  <2>2. misuse' \in BOOLEAN
    BY <1>7, Zenon DEF Release, Free
  <2> QED
    BY <1>2, <2>1, <2>2 DEF TInv, TypeOK
<1> QED
  BY <1>3, <1>4, <1>5, <1>6, <1>7

(* The matcher's loop.                                                     *)
LEMMA TypeMatch ==
  ASSUME TInv, Wildcard \/ Parameter \/ NoMemory \/ Literal \/ Matched \/ Mismatch
  PROVE  TInv'
<1>1. pc = "match"
  BY DEF Wildcard, Parameter, NoMemory, Literal, Matched, Mismatch, Looping, Ended
<1>2. /\ Len(routes) \in Nat /\ Len(req.path) \in Nat /\ Len(Pattern) \in Nat
      /\ i \in 1 .. Len(routes) /\ n \in Nat
      /\ ppos \in 1 .. Len(Pattern) + 1 /\ rpos \in 1 .. Len(req.path) + 1
  BY <1>1, TypeFacts DEF TInv, TypeOK
<1>3. /\ routes' = routes /\ capacity' = capacity /\ req' = req /\ as' = as /\ answer' = answer
  BY DEF Wildcard, Parameter, NoMemory, Literal, Matched, Mismatch, tableVars
<1>4. CASE Wildcard \/ Parameter \/ Literal
  <2>1. pc' = pc /\ i' = i /\ misuse' = misuse /\ n' \in {n, n + 1}
    BY <1>4 DEF Wildcard, Parameter, Literal, Store, heapVars
  <2>2. DOMAIN slots' = DOMAIN slots
    BY <1>4 DEF Wildcard, Parameter, Literal, Store, heapVars
  <2>3. ppos <= Len(Pattern) /\ rpos <= Len(req.path)
    BY <1>4 DEF Wildcard, Parameter, Literal, Looping
  <2>4. ppos' \in 1 .. Len(Pattern) + 1 /\ rpos' \in 1 .. Len(req.path) + 1
    <3>1. CASE Wildcard \/ Literal
      <4>1. ppos' = ppos + 1 /\ rpos' \in {rpos + 1, Len(req.path) + 1}
        BY <3>1 DEF Wildcard, Literal
      <4> QED
        BY <1>2, <2>3, <4>1
    <3>2. CASE Parameter
      <4> DEFINE e == EndOf(req.path, rpos, {"/"})
                 f == EndOf(Pattern, ppos + 1, {"/"})
      <4>1. e \in 1 .. Len(req.path) + 1
        <5>1. PICK p, k, S : p = req.path /\ k = rpos /\ S = {"/"}
          OBVIOUS
        <5>2. Len(p) \in Nat /\ k \in 1 .. Len(p) + 1
          BY <1>2, <5>1
        <5>3. EndOf(p, k, S) \in k .. Len(p) + 1
          BY <5>2, EndOfIs
        <5>4. EndOf(p, k, S) \in 1 .. Len(p) + 1
          BY <5>2, <5>3
        <5> QED
          BY <5>1, <5>4, Zenon
      <4>2. f \in 1 .. Len(Pattern) + 1
        <5>1. ppos + 1 \in 1 .. Len(Pattern) + 1
          BY <1>2, <2>3
        <5>2. f \in ppos + 1 .. Len(Pattern) + 1
          BY <1>2, <5>1, EndOfIs
        <5> QED
          BY <1>2, <5>2
      <4>3. rpos' = Beyond(req.path, e) /\ ppos' = Beyond(Pattern, f)
        BY <3>2 DEF Parameter
      <4> HIDE DEF e, f
      <4>4. rpos' \in e .. Len(req.path) + 1 /\ ppos' \in f .. Len(Pattern) + 1
        BY <1>2, <4>1, <4>2, <4>3, BeyondIs
      <4> QED
        BY <1>2, <4>1, <4>2, <4>4
    <3> QED
      BY <1>4, <3>1, <3>2
  <2>5. Pattern' = Pattern /\ n' \in Nat
    BY <1>2, <1>3, <2>1 DEF Pattern
  <2> QED
    BY <1>1, <1>2, <1>3, <2>1, <2>2, <2>4, <2>5 DEF TInv, TypeOK
<1>5. CASE NoMemory \/ Mismatch
  <2>1. pc' = "scan" /\ i' = i + 1 /\ n' \in {n, n + 1}
    BY <1>5 DEF NoMemory, Mismatch, matchVars
  <2>2. DOMAIN slots' = DOMAIN slots
    BY <1>5 DEF NoMemory, Mismatch
  <2>3. misuse' \in BOOLEAN
    BY <1>5, Zenon DEF NoMemory, Mismatch, Free
  <2>4. i' \in 1 .. Len(routes) + 1 /\ n' \in Nat
    BY <1>2, <2>1
  <2> QED
    BY <1>3, <2>1, <2>2, <2>3, <2>4 DEF TInv, TypeOK
<1>6. CASE Matched
  BY <1>2, <1>3, <1>6 DEF Matched, matchVars, heapVars, TInv, TypeOK
<1> QED
  BY <1>4, <1>5, <1>6

LEMMA TypeStep == TInv /\ [Next]_vars => TInv'
<1> SUFFICES ASSUME TInv, [Next]_vars PROVE TInv'
  OBVIOUS
<1>1. CASE UNCHANGED vars
  BY <1>1 DEF vars, TInv, TypeOK, Pattern
<1>2. CASE Next
  BY <1>2, TypeRegister, TypeSearch, TypeMatch DEF Next
<1> QED
  BY <1>1, <1>2

LEMMA TypeAlways == Spec => []TInv
  BY TypeInit, TypeStep, PTL DEF Spec

(* The route table never holds more routes than mnet_add_route() has made  *)
(* room for, and mnet_route_match() never looks past the end of pattern    *)
(* or path, whatever it has to match.                                      *)
THEOREM TypeHolds == Spec => []TypeOK
<1>1. TInv => TypeOK
  BY DEF TInv
<1> QED
  BY TypeAlways, <1>1, PTL

----------------------------------------------------------------------------
(* Who owns the parameter values.  mnet_add_route() does not limit the     *)
(* parameters of a pattern, and mnet_route_match() counts the ones it has  *)
(* no slot for: ownership holds for tables whose patterns have at most     *)
(* MNET_MAX_PARAMS of them.                                                *)

Captures(p, k) == {j \in 1 .. k - 1 : p[j] \in {":", "*"}}
FewParams ==
  \A r \in AllRoutes : Cardinality(Captures(r.path, Len(r.path) + 1)) <= MaxParams

LEMMA CapturesFinite ==
  ASSUME NEW p, NEW k \in Nat
  PROVE  IsFiniteSet(Captures(p, k)) /\ Cardinality(Captures(p, k)) \in Nat
<1>1. IsFiniteSet(1 .. k - 1)
  BY FS_Interval
<1>2. Captures(p, k) \subseteq 1 .. k - 1
  BY DEF Captures
<1> QED
  BY <1>1, <1>2, FS_Subset, FS_CardinalityType

LEMMA CapturesGrow ==
  ASSUME NEW p, NEW j \in Nat, NEW k \in Nat, j <= k
  PROVE  Cardinality(Captures(p, j)) <= Cardinality(Captures(p, k))
<1>1. Captures(p, j) \subseteq Captures(p, k)
  BY DEF Captures
<1> QED
  BY <1>1, CapturesFinite, FS_Subset

LEMMA CapturesCount ==
  ASSUME NEW p, NEW j \in Nat \ {0}, NEW k \in Nat, j < k, p[j] \in {":", "*"}
  PROVE  Cardinality(Captures(p, j)) + 1 <= Cardinality(Captures(p, k))
<1>1. j \notin Captures(p, j) /\ Captures(p, j) \union {j} \subseteq Captures(p, k)
  BY DEF Captures
<1>2. IsFiniteSet(Captures(p, j)) /\ IsFiniteSet(Captures(p, k))
  BY CapturesFinite
<1>3. Cardinality(Captures(p, j) \union {j}) = Cardinality(Captures(p, j)) + 1
  BY <1>1, <1>2, FS_AddElement
<1>4. Cardinality(Captures(p, j) \union {j}) <= Cardinality(Captures(p, k))
  BY <1>1, <1>2, FS_Subset
<1> QED
  BY <1>3, <1>4

(* The values held are those of the attempt under way, in the first n      *)
(* slots, and n counts parameters the matcher has passed.                  *)
PInv ==
  /\ ~misuse
  /\ pc \in {"match", "found", "missed", "sent"} =>
       /\ n <= MaxParams
       /\ \A k \in 1 .. n : slots[k].id = Id(k)
       /\ live = {Id(k) : k \in 1 .. n}
  /\ pc = "match" => n <= Cardinality(Captures(Pattern, ppos))
  /\ pc = "missed" => n = 0
  /\ pc \in {"config", "idle", "scan"} => live = {}

LEMMA OwnInit == Init => PInv
  BY DEF Init, PInv

(* What mnet_match_params_free() frees: the values in the slots counted.   *)
LEMMA FreedIs ==
  ASSUME NEW s, NEW m \in Nat, m <= MaxParams, \A k \in 1 .. m : s[k].id = Id(k)
  PROVE  Freed(s, m) = {Id(k) : k \in 1 .. m}
<1>1. \A k \in 1 .. m : k <= MaxParams
  BY RouterAssumption
<1>2. \A k : Id(k) # <<>>
  BY DEF Id
<1>3. \A k \in 1 .. m : s[k] # Null
  BY <1>2 DEF Null
<1> QED
  BY <1>1, <1>3 DEF Freed

LEMMA FreeIs ==
  ASSUME NEW s, NEW m \in Nat, m <= MaxParams, ~misuse, Freed(s, m) = live, Free(s, m)
  PROVE  live' = {} /\ ~misuse'
<1>1. ~(m > MaxParams)
  BY RouterAssumption
<1>2. live \subseteq live
  OBVIOUS
<1>3. misuse' = (misuse \/ m > MaxParams \/ ~(live \subseteq live))
  BY Zenon DEF Free
<1>4. ~misuse'
  BY <1>1, <1>2, <1>3, Zenon
<1>5. live' = live \ live
  BY Zenon DEF Free
<1> QED
  BY <1>4, <1>5

LEMMA OwnOutside ==
  ASSUME PInv, TInv,
         \/ AddRoute \/ Static \/ RegisterFails \/ SetNotFound
         \/ Request \/ Skip \/ HeadAsGet \/ NoRoute \/ Try \/ Dispatch \/ Release
  PROVE  PInv'
<1>1. CASE AddRoute \/ Static \/ RegisterFails \/ SetNotFound
  <2>1. pc = "config" /\ pc' = pc /\ live' = live /\ misuse' = misuse
    BY <1>1 DEF AddRoute, Static, RegisterFails, SetNotFound, Register, heapVars
  <2> QED
    BY <2>1 DEF PInv
<1>2. CASE Request \/ Skip \/ HeadAsGet
  <2>1. pc \in {"config", "idle", "scan"} /\ pc' = "scan" /\ live' = live /\ misuse' = misuse
    BY <1>2 DEF Request, Skip, HeadAsGet, heapVars
  <2> QED
    BY <2>1 DEF PInv
<1>3. CASE NoRoute \/ Try
  <2>1. pc = "scan" /\ pc' \in {"missed", "match"} /\ live' = live /\ misuse' = misuse /\ n' = 0
    BY <1>3 DEF NoRoute, Try, heapVars
  <2>2. live' = {} /\ 1 .. n' = {} /\ n' <= MaxParams
    BY <2>1, RouterAssumption DEF PInv
  <2>3. live' = {Id(k)' : k \in 1 .. n'}
    BY <2>2
  <2>4. pc' = "match" => n' <= Cardinality(Captures(Pattern', ppos'))
    <3>1. pc' = "match" => ppos' = 1
      BY <1>3 DEF NoRoute, Try
    <3>2. Cardinality(Captures(Pattern', 1)) \in Nat
      BY CapturesFinite
    <3> QED
      BY <2>1, <3>1, <3>2
  <2> QED
    BY <2>1, <2>2, <2>3, <2>4 DEF PInv
<1>4. CASE Dispatch
  <2>1. pc \in {"found", "missed"} /\ pc' = "sent" /\ n' = n /\ slots' = slots
        /\ live' = live /\ misuse' = misuse /\ as' = as /\ i' = i
    BY <1>4 DEF Dispatch, matchVars, heapVars
  <2>2. \A k : Id(k)' = Id(k)
    BY <2>1 DEF Id
  <2> QED
    BY <2>1, <2>2 DEF PInv
<1>5. CASE Release
  <2>1. pc = "sent" /\ pc' = "idle" /\ Free(slots, n)
    BY <1>5 DEF Release
  <2>2. Freed(slots, n) = live /\ n <= MaxParams /\ n \in Nat
    BY <2>1, FreedIs DEF PInv, TInv, TypeOK
  <2>3. live' = {} /\ ~misuse'
    BY <2>1, <2>2, FreeIs DEF PInv
  <2> QED
    BY <2>1, <2>3 DEF PInv
<1> QED
  BY <1>1, <1>2, <1>3, <1>4, <1>5

LEMMA OwnMatch ==
  ASSUME PInv, TInv, TInv', FewParams,
         Wildcard \/ Parameter \/ NoMemory \/ Literal \/ Matched \/ Mismatch
  PROVE  PInv'
<1>1. pc = "match"
  BY DEF Wildcard, Parameter, NoMemory, Literal, Matched, Mismatch, Looping, Ended
<1>2. /\ n \in Nat /\ n <= MaxParams /\ live = {Id(k) : k \in 1 .. n}
      /\ \A k \in 1 .. n : slots[k].id = Id(k)
      /\ n <= Cardinality(Captures(Pattern, ppos))
      /\ ppos \in 1 .. Len(Pattern) + 1 /\ Len(Pattern) \in Nat
      /\ DOMAIN slots = 1 .. MaxParams
  BY <1>1, TypeFacts DEF PInv, TInv, TypeOK
<1>3. Cardinality(Captures(Pattern, Len(Pattern) + 1)) <= MaxParams
  <2>1. i \in 1 .. Len(routes) /\ routes \in Seq(AllRoutes)
    BY <1>1, TypeFacts DEF TInv, TypeOK
  <2>2. routes[i] \in AllRoutes
    BY <2>1
  <2> QED
    BY <2>2 DEF FewParams, Pattern
<1>4. CASE Wildcard \/ Parameter
  <2>1. pc' = pc /\ as' = as /\ i' = i /\ routes' = routes /\ n' = n + 1 /\ misuse' = misuse
        /\ Pattern[ppos] \in {":", "*"} /\ ppos <= Len(Pattern)
    BY <1>4 DEF Wildcard, Parameter, Looping, Store, tableVars
  <2>2. Pattern' = Pattern /\ \A k : Id(k)' = Id(k)
    BY <2>1 DEF Pattern, Id
  <2>3. ppos' \in ppos + 1 .. Len(Pattern) + 1
    <3>1. CASE Wildcard
      BY <1>2, <2>1, <3>1 DEF Wildcard
    <3>2. CASE Parameter
      <4> DEFINE f == EndOf(Pattern, ppos + 1, {"/"})
      <4>1. ppos + 1 \in 1 .. Len(Pattern) + 1
        BY <1>2, <2>1
      <4>2. f \in ppos + 1 .. Len(Pattern) + 1
        BY <1>2, <4>1, EndOfIs
      <4>3. ppos' = Beyond(Pattern, f)
        BY <3>2 DEF Parameter
      <4> HIDE DEF f
      <4>4. ppos' \in f .. Len(Pattern) + 1
        BY <1>2, <4>2, <4>3, BeyondIs
      <4> QED
        BY <1>2, <4>2, <4>4
    <3> QED
      BY <1>4, <3>1, <3>2
  <2>4. n' <= Cardinality(Captures(Pattern', ppos')) /\ n' <= MaxParams
    <3> DEFINE c == Cardinality(Captures(Pattern, ppos))
               d == Cardinality(Captures(Pattern, ppos'))
               e == Cardinality(Captures(Pattern, Len(Pattern) + 1))
    <3>1. ppos \in Nat \ {0} /\ ppos' \in Nat /\ ppos < ppos' /\ ppos' <= Len(Pattern) + 1
          /\ Len(Pattern) + 1 \in Nat
      BY <1>2, <2>3
    <3>2. c + 1 <= d
      BY <2>1, <3>1, CapturesCount
    <3>3. d <= e
      BY <3>1, CapturesGrow
    <3>4. c \in Nat /\ d \in Nat /\ e \in Nat
      BY <3>1, CapturesFinite
    <3>5. n <= c /\ e <= MaxParams
      BY <1>2, <1>3
    <3> HIDE DEF c, d, e
    <3>6. n + 1 <= d /\ n + 1 <= MaxParams
      BY <1>2, <3>2, <3>3, <3>4, <3>5, RouterAssumption
    <3> QED
      BY <2>1, <2>2, <3>6 DEF d
  <2>5. n < MaxParams
    BY <1>2, <2>1, <2>4, RouterAssumption
  <2>6. \E v : slots' = [slots EXCEPT ![n + 1] = [id |-> Id(n + 1), v |-> v]]
    BY <1>4, <2>5 DEF Wildcard, Parameter, Store
  <2>7. live' = live \union {Id(n + 1)}
    BY <1>4, <2>5 DEF Wildcard, Parameter, Store
  <2>8. 1 .. n' = 1 .. n \union {n + 1} /\ n + 1 \in 1 .. MaxParams
    BY <1>2, <2>1, <2>5, RouterAssumption
  <2>9. \A k \in 1 .. n' : slots'[k].id = Id(k)
    <3>1. \A k \in 1 .. n : k \in 1 .. MaxParams /\ k # n + 1
      BY <1>2, RouterAssumption
    <3>2. \A k \in 1 .. n : slots'[k] = slots[k]
      BY <1>2, <2>6, <3>1
    <3>3. slots'[n + 1].id = Id(n + 1)
      BY <1>2, <2>6, <2>8
    <3> QED
      BY <1>2, <2>8, <3>2, <3>3
  <2>10. live' = {Id(k) : k \in 1 .. n'}
    BY <1>2, <2>7, <2>8
  <2> QED
    BY <1>1, <2>1, <2>2, <2>4, <2>9, <2>10 DEF PInv
<1>5. CASE NoMemory
  <2>1. pc' = "scan" /\ n < MaxParams /\ slots' = [slots EXCEPT ![n + 1] = Null]
        /\ Free(slots', n + 1)
    BY <1>5 DEF NoMemory
  <2>2. Freed(slots', n + 1) = {Id(k) : k \in 1 .. n}
    <3>1. n + 1 \in 1 .. MaxParams /\ 1 .. n + 1 = 1 .. n \union {n + 1}
          /\ \A k \in 1 .. n : k \in 1 .. MaxParams /\ k # n + 1 /\ k <= MaxParams
      BY <1>2, <2>1, RouterAssumption
    <3>2. slots'[n + 1] = Null /\ \A k \in 1 .. n : slots'[k] = slots[k]
      BY <1>2, <2>1, <3>1
    <3>3. Freed(slots', n + 1) = Freed(slots', n)
      BY <3>1, <3>2 DEF Freed
    <3>4. Freed(slots', n) = {Id(k) : k \in 1 .. n}
      BY <1>2, <3>2, FreedIs
    <3> QED
      BY <3>3, <3>4
  <2>3. live' = {} /\ ~misuse'
    <3>1. n + 1 \in Nat /\ n + 1 <= MaxParams
      BY <1>2, <2>1, RouterAssumption
    <3>2. Freed(slots', n + 1) = live
      BY <1>2, <2>2
    <3>3. ~misuse
      BY DEF PInv
    <3> QED
      BY <2>1, <3>1, <3>2, <3>3, FreeIs
  <2> QED
    BY <2>1, <2>3 DEF PInv
<1>6. CASE Literal
  <2>1. pc' = pc /\ as' = as /\ i' = i /\ routes' = routes /\ n' = n /\ misuse' = misuse
        /\ slots' = slots /\ live' = live /\ ppos' = ppos + 1 /\ ppos <= Len(Pattern)
    BY <1>6 DEF Literal, Looping, heapVars, tableVars
  <2>2. Pattern' = Pattern /\ \A k : Id(k)' = Id(k)
    BY <2>1 DEF Pattern, Id
  <2>3. n' <= Cardinality(Captures(Pattern', ppos'))
    <3>1. ppos \in Nat /\ ppos + 1 \in Nat /\ ppos <= ppos + 1
      BY <1>2
    <3>2. Cardinality(Captures(Pattern, ppos)) <= Cardinality(Captures(Pattern, ppos + 1))
      BY <3>1, CapturesGrow
    <3>3. Cardinality(Captures(Pattern, ppos)) \in Nat
          /\ Cardinality(Captures(Pattern, ppos + 1)) \in Nat
      BY <3>1, CapturesFinite
    <3> QED
      BY <1>2, <2>1, <2>2, <3>2, <3>3
  <2> QED
    BY <1>1, <1>2, <2>1, <2>2, <2>3 DEF PInv
<1>7. CASE Matched
  <2>1. pc' = "found" /\ as' = as /\ i' = i /\ n' = n /\ misuse' = misuse
        /\ slots' = slots /\ live' = live
    BY <1>7 DEF Matched, matchVars, heapVars
  <2>2. \A k : Id(k)' = Id(k)
    BY <2>1 DEF Id
  <2> QED
    BY <1>2, <2>1, <2>2 DEF PInv
<1>8. CASE Mismatch
  <2>1. pc' = "scan" /\ Free(slots, n)
    BY <1>8 DEF Mismatch
  <2>2. Freed(slots, n) = live
    BY <1>2, FreedIs
  <2>3. live' = {} /\ ~misuse'
    BY <1>2, <2>1, <2>2, FreeIs DEF PInv
  <2> QED
    BY <2>1, <2>3 DEF PInv
<1> QED
  BY <1>4, <1>5, <1>6, <1>7, <1>8

(* Whatever is registered and requested, with any allocation failing: a    *)
(* failed attempt of mnet_route_match() leaves no value behind, a          *)
(* successful one exactly those it counts, mnet_handle_client() frees them *)
(* once and none outlives the request.  Patterns with more than            *)
(* MNET_MAX_PARAMS parameters are excluded: there it is false.             *)
THEOREM ParamsOwnedHolds == ASSUME FewParams PROVE Spec => []ParamsOwned
<1>1. PInv /\ TInv /\ [Next]_vars /\ TInv' => PInv'
  <2> SUFFICES ASSUME PInv, TInv, [Next]_vars, TInv' PROVE PInv'
    OBVIOUS
  <2>1. CASE UNCHANGED vars
    BY <2>1 DEF vars, PInv, Id, Pattern
  <2>2. CASE Next
    BY <2>2, OwnOutside, OwnMatch DEF Next
  <2> QED
    BY <2>1, <2>2
<1>2. PInv /\ TInv => ParamsOwned
  <2> SUFFICES ASSUME PInv, TInv PROVE ParamsOwned
    OBVIOUS
  <2>1. pc = "missed" => live = {}
    BY DEF PInv
  <2>2. pc \in {"found", "sent"} => live = {slots[k].id : k \in 1 .. n}
    BY DEF PInv
  <2> QED
    BY <2>1, <2>2 DEF PInv, ParamsOwned
<1> QED
  BY OwnInit, TypeAlways, <1>1, <1>2, PTL DEF Spec

----------------------------------------------------------------------------
(* The segments of a rooted pattern or path: the m-th begins behind the    *)
(* m-th slash and ends before the next.                                    *)

Upto(p, k)   == {j \in Slashes(p) : j <= k}
Rank(p, k)   == Cardinality(Upto(p, k))
Count(p)     == Cardinality(Slashes(p))
Opens(p, m)  == Slash(p, m) + 1
Closes(p, m) == EndOf(p, Opens(p, m), {"/"})
Rooted(p)    == IsList(p) /\ p # <<>> /\ p[1] = "/"

LEMMA RankNat ==
  ASSUME NEW p, Len(p) \in Nat, NEW k
  PROVE  /\ IsFiniteSet(Slashes(p)) /\ Count(p) \in Nat
         /\ IsFiniteSet(Upto(p, k)) /\ Rank(p, k) \in Nat
<1>1. IsFiniteSet(1 .. Len(p))
  BY FS_Interval
<1>2. Slashes(p) \subseteq 1 .. Len(p) /\ Upto(p, k) \subseteq Slashes(p)
  BY DEF Slashes, Upto
<1>3. IsFiniteSet(Slashes(p))
  BY <1>1, <1>2, FS_Subset
<1>4. IsFiniteSet(Upto(p, k))
  BY <1>2, <1>3, FS_Subset
<1> QED
  BY <1>3, <1>4, FS_CardinalityType DEF Count, Rank

LEMMA RankGrows ==
  ASSUME NEW p, Len(p) \in Nat, NEW j \in Slashes(p), NEW k \in Slashes(p), j < k
  PROVE  Rank(p, j) < Rank(p, k)
<1>1. j \in Nat /\ k \in Nat
  BY DEF Slashes
<1>2. k \notin Upto(p, j) /\ Upto(p, j) \union {k} \subseteq Upto(p, k)
  BY <1>1 DEF Upto, Slashes
<1>3. IsFiniteSet(Upto(p, j)) /\ IsFiniteSet(Upto(p, k))
      /\ Rank(p, j) \in Nat /\ Rank(p, k) \in Nat
  BY RankNat
<1>4. Cardinality(Upto(p, j) \union {k}) = Rank(p, j) + 1
  BY <1>2, <1>3, FS_AddElement DEF Rank
<1>5. Cardinality(Upto(p, j) \union {k}) <= Rank(p, k)
  BY <1>2, <1>3, FS_Subset DEF Rank
<1> QED
  BY <1>3, <1>4, <1>5

(* From one slash to the next.                                             *)
LEMMA RankStep ==
  ASSUME NEW p, Len(p) \in Nat, NEW k \in Slashes(p), NEW e, e = EndOf(p, k + 1, {"/"})
  PROVE  /\ k \in 1 .. Len(p) /\ e \in k + 1 .. Len(p) + 1
         /\ e = Len(p) + 1 => Rank(p, k) = Count(p)
         /\ e # Len(p) + 1 => e \in Slashes(p) /\ Rank(p, e) = Rank(p, k) + 1
<1>1. k \in 1 .. Len(p) /\ k + 1 \in 1 .. Len(p) + 1
  BY DEF Slashes
<1>2. PICK x, S : x = k + 1 /\ S = {"/"}
  OBVIOUS
<1>3. e \in x .. Len(p) + 1 /\ (e = Len(p) + 1 \/ p[e] \in S) /\ \A m \in x .. e - 1 : p[m] \notin S
  <2>1. x \in 1 .. Len(p) + 1 /\ e = EndOf(p, x, S)
    BY <1>1, <1>2
  <2>2. e \in x .. Len(p) + 1
    BY <2>1, EndOfIs
  <2>3. e = Len(p) + 1 \/ p[e] \in S
    BY <2>1, EndOfIs
  <2>4. \A m \in x .. e - 1 : p[m] \notin S
    BY <2>1, EndOfIs
  <2> QED
    BY <2>2, <2>3, <2>4
<1>4. \A m \in Slashes(p) : m <= k \/ m >= e
  <2>1. \A m \in Slashes(p) : m \in Nat /\ p[m] \in S
    BY <1>2 DEF Slashes
  <2>2. \A m \in Nat : m <= k \/ m >= e \/ m \in x .. e - 1
    BY <1>1, <1>2, <1>3
  <2> QED
    BY <1>3, <2>1, <2>2
<1>5. ASSUME e = Len(p) + 1 PROVE Rank(p, k) = Count(p)
  <2>1. \A m \in Slashes(p) : m <= k
    BY <1>1, <1>4, <1>5 DEF Slashes
  <2>2. Upto(p, k) = Slashes(p)
    BY <2>1 DEF Upto
  <2> QED
    BY <2>2 DEF Rank, Count
<1>6. ASSUME e # Len(p) + 1 PROVE e \in Slashes(p) /\ Rank(p, e) = Rank(p, k) + 1
  <2>1. e \in 1 .. Len(p) /\ p[e] = "/" /\ e > k
    BY <1>1, <1>2, <1>3, <1>6
  <2>2. e \in Slashes(p)
    BY <2>1 DEF Slashes
  <2>3. Upto(p, e) = Upto(p, k) \union {e} /\ e \notin Upto(p, k)
    <3>1. \A m \in Slashes(p) : m <= e => m <= k \/ m = e
      BY <1>4, <2>1 DEF Slashes
    <3>2. \A m \in Slashes(p) : m <= k => m <= e
      BY <1>1, <2>1 DEF Slashes
    <3>3. ~(e <= k)
      BY <1>1, <2>1
    <3>4. e <= e
      BY <2>1
    <3> QED
      BY <2>2, <3>1, <3>2, <3>3, <3>4 DEF Upto
  <2>4. IsFiniteSet(Upto(p, k))
    BY RankNat
  <2> QED
    BY <2>2, <2>3, <2>4, FS_AddElement DEF Rank
<1> QED
  BY <1>1, <1>2, <1>3, <1>5, <1>6

LEMMA FirstSlash ==
  ASSUME NEW p, Rooted(p)
  PROVE  Len(p) \in Nat /\ Len(p) >= 1 /\ 1 \in Slashes(p) /\ Rank(p, 1) = 1
<1>1. Len(p) \in Nat /\ Len(p) >= 1
  <2>1. Len(p) \in Nat
    BY DEF Rooted, IsList
  <2>2. Len(p) # 0
    <3>1. IsList(<<>>) /\ Len(<<>>) = 0
      BY DEF IsList
    <3>2. ASSUME Len(p) = 0 PROVE FALSE
      <4>1. p = [x \in 1 .. 0 |-> p[x]]
        BY <3>2 DEF Rooted, IsList
      <4>2. p = <<>>
        BY <4>1
      <4> QED
        BY <4>2 DEF Rooted
    <3> QED
      BY <3>2
  <2> QED
    BY <2>1, <2>2
<1>2. 1 \in Slashes(p)
  BY <1>1 DEF Slashes, Rooted
<1>3. Upto(p, 1) = {1}
  BY <1>2 DEF Upto, Slashes
<1> QED
  BY <1>1, <1>2, <1>3, FS_Singleton DEF Rank

(* There is an m-th slash, one only, for every m there should be.          *)
LEMMA SlashIs ==
  ASSUME NEW p, Rooted(p)
  PROVE  \A m \in 1 .. Count(p) : Slash(p, m) \in Slashes(p) /\ Rank(p, Slash(p, m)) = m
<1>1. Len(p) \in Nat /\ 1 \in Slashes(p) /\ Rank(p, 1) = 1 /\ Count(p) \in Nat
  BY FirstSlash, RankNat
<1> DEFINE Has(m) == \E k \in Slashes(p) : Rank(p, k) = m
           C == {m \in 1 .. Count(p) : ~Has(m)}
<1>2. C = {}
  <2> SUFFICES ASSUME C # {} PROVE FALSE
    OBVIOUS
  <2>1. C \subseteq Nat
    BY <1>1
  <2>2. PICK m \in C : \A y \in C : m <= y
    BY <2>1, Least
  <2>3. m \in 1 .. Count(p) /\ m # 1
    BY <1>1, <2>2
  <2>4. m - 1 \in 1 .. Count(p) /\ ~(m <= m - 1)
    BY <1>1, <2>3
  <2>5. m - 1 \notin C
    BY <2>2, <2>4
  <2>6. PICK k \in Slashes(p) : Rank(p, k) = m - 1
    BY <2>4, <2>5
  <2>7. PICK e : e = EndOf(p, k + 1, {"/"})
    OBVIOUS
  <2>8. (e = Len(p) + 1 => Rank(p, k) = Count(p))
        /\ (e # Len(p) + 1 => e \in Slashes(p) /\ Rank(p, e) = Rank(p, k) + 1)
    BY <1>1, <2>7, RankStep
  <2>9. m - 1 # Count(p) /\ (m - 1) + 1 = m
    BY <1>1, <2>3
  <2>10. e \in Slashes(p) /\ Rank(p, e) = m
    BY <2>6, <2>8, <2>9
  <2> QED
    BY <2>2, <2>10
<1>3. ASSUME NEW m \in 1 .. Count(p)
      PROVE  Slash(p, m) \in Slashes(p) /\ Rank(p, Slash(p, m)) = m
  <2>1. \E k \in Slashes(p) : Cardinality({j \in Slashes(p) : j <= k}) = m
    BY <1>2 DEF Rank, Upto
  <2> QED
    BY <2>1 DEF Slash, Rank, Upto
<1> QED
  BY <1>3

LEMMA SlashUnique ==
  ASSUME NEW p, Rooted(p), NEW k \in Slashes(p), NEW m \in 1 .. Count(p), Rank(p, k) = m
  PROVE  Slash(p, m) = k
<1>1. Slash(p, m) \in Slashes(p) /\ Rank(p, Slash(p, m)) = m
  BY SlashIs
<1>2. PICK s : s = Slash(p, m)
  OBVIOUS
<1>3. Len(p) \in Nat /\ k \in Nat /\ s \in Nat /\ s \in Slashes(p) /\ Rank(p, s) = m /\ m \in Nat
  BY <1>1, <1>2, FirstSlash, RankNat DEF Slashes
<1>4. ~(k < s) /\ ~(s < k)
  BY <1>3, RankGrows
<1> QED
  BY <1>2, <1>3, <1>4

LEMMA FirstOpens ==
  ASSUME NEW p, Rooted(p)
  PROVE  Count(p) \in Nat /\ 1 \in 1 .. Count(p) /\ Opens(p, 1) = 2
<1>1. Len(p) \in Nat /\ 1 \in Slashes(p) /\ Rank(p, 1) = 1
  BY FirstSlash
<1>2. IsFiniteSet(Slashes(p)) /\ Count(p) \in Nat
  BY <1>1, RankNat
<1>3. Upto(p, 1) \subseteq Slashes(p)
  BY DEF Upto
<1>4. Rank(p, 1) <= Count(p)
  BY <1>2, <1>3, FS_Subset DEF Rank, Count
<1>5. 1 \in 1 .. Count(p)
  BY <1>1, <1>2, <1>4
<1>6. Slash(p, 1) = 1
  BY <1>1, <1>5, SlashUnique
<1> QED
  BY <1>2, <1>5, <1>6 DEF Opens

(* Segment m of p is s, the characters from a up to b.                     *)
IsSegment(p, m, a, b, s) ==
  /\ Len(p) \in Nat /\ Count(p) \in Nat /\ m \in 1 .. Count(p)
  /\ a \in 2 .. Len(p) + 1 /\ b \in a .. Len(p) + 1
  /\ p[a - 1] = "/" /\ \A x \in a .. b - 1 : p[x] # "/"
  /\ m < Count(p) => b <= Len(p) /\ p[b] = "/" /\ Opens(p, m + 1) = b + 1
  /\ m = Count(p) => b = Len(p) + 1
  /\ IsList(s) /\ Len(s) = b - a /\ \A x \in 1 .. b - a : s[x] = p[a + x - 1]

LEMMA SegmentIs ==
  ASSUME NEW p, Rooted(p), NEW m \in 1 .. Count(p)
  PROVE  IsSegment(p, m, Opens(p, m), Closes(p, m), Segments(p)[m])
<1>1. Len(p) \in Nat /\ Count(p) \in Nat /\ IsList(p)
  BY FirstSlash, FirstOpens DEF Rooted
<1>2. PICK k : k = Slash(p, m)
  OBVIOUS
<1>3. k \in Slashes(p) /\ Rank(p, k) = m /\ k \in 1 .. Len(p) /\ p[k] = "/"
  BY <1>2, SlashIs DEF Slashes
<1>4. PICK a, b, S : a = k + 1 /\ b = EndOf(p, a, S) /\ S = {"/"}
  OBVIOUS
<1>5. a = Opens(p, m) /\ b = Closes(p, m) /\ b = EndOf(p, k + 1, {"/"})
  BY <1>2, <1>4 DEF Opens, Closes
<1>6. a \in 2 .. Len(p) + 1 /\ a \in 1 .. Len(p) + 1 /\ a - 1 = k
  BY <1>1, <1>3, <1>4
<1>7. b \in a .. Len(p) + 1
  BY <1>1, <1>4, <1>6, EndOfIs
<1>8. \A x \in a .. b - 1 : p[x] # "/"
  <2>1. \A x \in a .. b - 1 : p[x] \notin S
    BY <1>1, <1>4, <1>6, EndOfIs
  <2> QED
    BY <1>4, <2>1
<1>9. /\ b = Len(p) + 1 => Rank(p, k) = Count(p)
      /\ b # Len(p) + 1 => b \in Slashes(p) /\ Rank(p, b) = Rank(p, k) + 1
  BY <1>1, <1>3, <1>5, RankStep
<1>10. ASSUME m < Count(p) PROVE b <= Len(p) /\ p[b] = "/" /\ Opens(p, m + 1) = b + 1
  <2>1. m # Count(p) /\ m + 1 \in 1 .. Count(p)
    BY <1>1, <1>10
  <2>2. b \in Slashes(p) /\ Rank(p, b) = m + 1
    BY <1>3, <1>9, <2>1
  <2>3. Slash(p, m + 1) = b
    BY <2>1, <2>2, SlashUnique
  <2> QED
    BY <2>2, <2>3 DEF Slashes, Opens
<1>11. ASSUME m = Count(p) PROVE b = Len(p) + 1
  <2>1. SUFFICES ASSUME b # Len(p) + 1 PROVE FALSE
    OBVIOUS
  <2>2. b \in Slashes(p) /\ Rank(p, b) = Count(p) + 1
    BY <1>3, <1>9, <1>11, <2>1
  <2>3. IsFiniteSet(Slashes(p)) /\ Upto(p, b) \subseteq Slashes(p) /\ Rank(p, b) \in Nat
    BY <1>1, RankNat DEF Upto
  <2>4. Rank(p, b) <= Count(p)
    BY <2>3, FS_Subset DEF Rank, Count
  <2> QED
    BY <1>1, <2>2, <2>4
<1>12. PICK s : s = SubSeq(p, a, b - 1)
  OBVIOUS
<1>13. s = Segments(p)[m]
  BY <1>2, <1>4, <1>12 DEF Segments, Count
<1>14. IsList(s) /\ Len(s) = b - a /\ \A x \in 1 .. b - a : s[x] = p[a + x - 1]
  <2>1. PICK j : j = b - 1
    OBVIOUS
  <2>2. s = SubSeq(p, k + 1, j) /\ k \in Nat /\ j \in k .. Len(p) /\ j - k = b - a
    <3>1. k \in Nat /\ a = k + 1 /\ b \in a .. Len(p) + 1
      BY <1>3, <1>4, <1>7
    <3>2. j \in k .. Len(p) /\ j - k = b - a
      BY <1>1, <2>1, <3>1
    <3> QED
      BY <1>12, <2>1, <3>1, <3>2
  <2>3. IsList(s) /\ Len(s) = j - k
    <3>1. IsList(s)
      BY <1>1, <2>2, Part
    <3>2. Len(s) = j - k
      BY <1>1, <2>2, Part
    <3> QED
      BY <3>1, <3>2
  <2>4. \A x \in 1 .. j - k : s[x] = p[k + x]
    BY <1>1, <2>2, Part
  <2>5. \A x \in 1 .. b - a : a + x - 1 = k + x
    BY <1>3, <1>4, <1>6, <1>7
  <2> QED
    BY <2>2, <2>3, <2>4, <2>5
<1>15. IsSegment(p, m, a, b, s)
  BY <1>1, <1>3, <1>6, <1>7, <1>8, <1>10, <1>11, <1>14 DEF IsSegment
<1> QED
  BY <1>5, <1>13, <1>15

(* The kind of a segment, by its characters.                               *)
LEMMA SegmentKind ==
  ASSUME NEW p, NEW m, NEW a, NEW b, NEW s, IsSegment(p, m, a, b, s)
  PROVE  /\ s = <<>> <=> a = b
         /\ Named(s) <=> a < b /\ p[a] = ":"
         /\ Rest(s) <=> b = a + 1 /\ p[a] = "*"
<1>1. /\ a \in Nat /\ b \in Nat /\ a <= b /\ IsList(s) /\ Len(s) = b - a
      /\ \A x \in 1 .. b - a : s[x] = p[a + x - 1]
  BY DEF IsSegment
<1>2. s = <<>> <=> a = b
  <2>1. ASSUME s = <<>> PROVE a = b
    BY <1>1, <2>1
  <2>2. ASSUME a = b PROVE s = <<>>
    <3>1. s = [x \in 1 .. 0 |-> s[x]]
      BY <1>1, <2>2 DEF IsList
    <3> QED
      BY <3>1
  <2> QED
    BY <2>1, <2>2
<1>3. a < b => s[1] = p[a]
  <2>1. a < b => 1 \in 1 .. b - a /\ a + 1 - 1 = a
    BY <1>1
  <2> QED
    BY <1>1, <2>1
<1>4. Named(s) <=> a < b /\ p[a] = ":"
  <2>1. a = b \/ a < b
    BY <1>1
  <2>2. ~(a = b /\ a < b)
    BY <1>1
  <2> QED
    BY <1>2, <1>3, <2>1, <2>2 DEF Named
<1>5. Rest(s) <=> b = a + 1 /\ p[a] = "*"
  <2>1. PICK t : t = <<"*">>
    OBVIOUS
  <2>2. IsList(t) /\ Len(t) = 1 /\ t[1] = "*"
    BY <2>1 DEF IsList
  <2>3. ASSUME s = t PROVE b = a + 1 /\ p[a] = "*"
    <3>1. b - a = 1 /\ s[1] = "*"
      BY <1>1, <2>2, <2>3
    <3>2. b = a + 1 /\ a < b
      BY <1>1, <3>1
    <3> QED
      BY <1>3, <3>1, <3>2
  <2>4. ASSUME b = a + 1, p[a] = "*" PROVE s = t
    <3>1. Len(s) = 1 /\ s[1] = "*"
      BY <1>1, <1>3, <2>4
    <3>2. Len(s) = Len(t) /\ \A x \in 1 .. Len(s) : s[x] = t[x]
      BY <2>2, <3>1
    <3> QED
      BY <1>1, <2>2, <3>2, SameList
  <2> QED
    BY <2>1, <2>3, <2>4 DEF Rest
<1> QED
  BY <1>2, <1>4, <1>5

(* Two segments are equal if the characters are.                           *)
LEMMA SameSegment ==
  ASSUME NEW p, NEW m, NEW a, NEW b, NEW s, IsSegment(p, m, a, b, s),
         NEW r, NEW k, NEW c, NEW d, NEW t, IsSegment(r, k, c, d, t)
  PROVE  s = t <=> b - a = d - c /\ \A z \in 0 .. b - a - 1 : p[a + z] = r[c + z]
<1>1. /\ a \in Nat /\ b \in Nat /\ a <= b /\ IsList(s) /\ Len(s) = b - a
      /\ \A x \in 1 .. b - a : s[x] = p[a + x - 1]
  BY DEF IsSegment
<1>2. /\ c \in Nat /\ d \in Nat /\ c <= d /\ IsList(t) /\ Len(t) = d - c
      /\ \A x \in 1 .. d - c : t[x] = r[c + x - 1]
  BY DEF IsSegment
<1>3. ASSUME s = t PROVE b - a = d - c /\ \A z \in 0 .. b - a - 1 : p[a + z] = r[c + z]
  <2>1. b - a = d - c
    BY <1>1, <1>2, <1>3
  <2>2. ASSUME NEW z \in 0 .. b - a - 1 PROVE p[a + z] = r[c + z]
    <3>1. z + 1 \in 1 .. b - a /\ a + (z + 1) - 1 = a + z /\ c + (z + 1) - 1 = c + z
      BY <1>1, <1>2
    <3> QED
      BY <1>1, <1>2, <1>3, <2>1, <3>1
  <2> QED
    BY <2>1, <2>2
<1>4. ASSUME b - a = d - c, \A z \in 0 .. b - a - 1 : p[a + z] = r[c + z] PROVE s = t
  <2>1. ASSUME NEW x \in 1 .. b - a PROVE s[x] = t[x]
    <3>1. x - 1 \in 0 .. b - a - 1 /\ a + (x - 1) = a + x - 1 /\ c + (x - 1) = c + x - 1
      BY <1>1, <1>2
    <3> QED
      BY <1>1, <1>2, <1>4, <3>1
  <2> QED
    BY <1>1, <1>2, <1>4, <2>1, SameList
<1> QED
  BY <1>3, <1>4

----------------------------------------------------------------------------
(* How far mnet_route_match() has come: at the start; in segment m of      *)
(* both, as far into the one as into the other; behind a parameter with    *)
(* one of the two at its last segment; or at the end, behind a wildcard.   *)

Earlier(p, r, m) ==
  \A k \in 1 .. m - 1 : Segments(p)[k] = Segments(r)[k] \/ Named(Segments(p)[k])

Within(p, r, x, y, m) ==
  /\ m \in 1 .. Count(p) /\ m \in 1 .. Count(r) /\ Earlier(p, r, m)
  /\ x \in Opens(p, m) .. Closes(p, m) /\ y \in Opens(r, m) .. Closes(r, m)
  /\ x - Opens(p, m) = y - Opens(r, m)
  /\ \A z \in 0 .. x - Opens(p, m) - 1 : p[Opens(p, m) + z] = r[Opens(r, m) + z]
  /\ x > Opens(p, m) => p[Opens(p, m)] \notin {":", "*"}

After(p, m) == IF m < Count(p) THEN Opens(p, m + 1) ELSE Len(p) + 1

Parted(p, r, x, y, m) ==
  /\ m \in 1 .. Count(p) /\ m \in 1 .. Count(r) /\ Earlier(p, r, m)
  /\ Named(Segments(p)[m]) /\ (m = Count(p) \/ m = Count(r))
  /\ m = Count(r) => Segments(r)[m] # <<>>
  /\ x = After(p, m) /\ y = After(r, m)

Swallowed(p, r, x, y, m) ==
  /\ m \in 1 .. Count(p) /\ m \in 1 .. Count(r) /\ Earlier(p, r, m)
  /\ m = Count(p) /\ Rest(Segments(p)[m]) /\ Opens(r, m) <= Len(r)
  /\ x = Len(p) + 1 /\ y = Len(r) + 1

Progress(p, r, x, y) ==
  \/ x = 1 /\ y = 1
  \/ \E m : Within(p, r, x, y, m) \/ Parted(p, r, x, y, m) \/ Swallowed(p, r, x, y, m)

(* What Within says, of the places in the two segments.                    *)
LEMMA WithinIs ==
  ASSUME NEW p, Rooted(p), NEW r, Rooted(r), NEW x, NEW y, NEW m, Within(p, r, x, y, m)
  PROVE  \E a, b, s, c, d, t :
           /\ a = Opens(p, m) /\ b = Closes(p, m) /\ s = Segments(p)[m]
           /\ c = Opens(r, m) /\ d = Closes(r, m) /\ t = Segments(r)[m]
           /\ IsSegment(p, m, a, b, s) /\ IsSegment(r, m, c, d, t)
           /\ x \in a .. b /\ y \in c .. d /\ x - a = y - c
           /\ \A z \in 0 .. x - a - 1 : p[a + z] = r[c + z]
           /\ x > a => p[a] \notin {":", "*"}
<1>1. m \in 1 .. Count(p) /\ m \in 1 .. Count(r)
  BY DEF Within
<1>2. IsSegment(p, m, Opens(p, m), Closes(p, m), Segments(p)[m])
      /\ IsSegment(r, m, Opens(r, m), Closes(r, m), Segments(r)[m])
  BY <1>1, SegmentIs
<1> QED
  BY <1>2, Zenon DEF Within

(* Once one of the two has parted from the other, the loop is over.        *)
LEMMA PartedOver ==
  ASSUME NEW p, Rooted(p), NEW r, Rooted(r), NEW x, NEW y, NEW m,
         Parted(p, r, x, y, m) \/ Swallowed(p, r, x, y, m)
  PROVE  ~(x <= Len(p) /\ y <= Len(r))
<1>1. Len(p) \in Nat /\ Len(r) \in Nat /\ Count(p) \in Nat /\ Count(r) \in Nat
  BY FirstSlash, FirstOpens
<1> QED
  BY <1>1 DEF Parted, Swallowed, After

LEMMA LiteralStep ==
  ASSUME NEW p, Rooted(p), NEW r, Rooted(r), NEW x, NEW y, Progress(p, r, x, y),
         x <= Len(p), y <= Len(r), p[x] \notin {":", "*"}, p[x] = r[y]
  PROVE  Progress(p, r, x + 1, y + 1)
<1>0. Len(p) \in Nat /\ Len(r) \in Nat /\ Count(p) \in Nat /\ Count(r) \in Nat
  BY FirstSlash, FirstOpens
<1>1. CASE x = 1 /\ y = 1
  <2>1. 1 \in 1 .. Count(p) /\ 1 \in 1 .. Count(r) /\ Opens(p, 1) = 2 /\ Opens(r, 1) = 2
    BY FirstOpens
  <2>2. PICK b, d : b = Closes(p, 1) /\ d = Closes(r, 1)
    OBVIOUS
  <2>3. b \in 2 .. Len(p) + 1 /\ d \in 2 .. Len(r) + 1
    <3>1. IsSegment(p, 1, 2, b, Segments(p)[1]) /\ IsSegment(r, 1, 2, d, Segments(r)[1])
      BY <2>1, <2>2, SegmentIs
    <3> QED
      BY <3>1 DEF IsSegment
  <2>4. 2 \in 2 .. b /\ 2 \in 2 .. d /\ 0 .. 2 - 2 - 1 = {} /\ 1 .. 1 - 1 = {}
    BY <1>0, <2>3
  <2>5. Within(p, r, 2, 2, 1)
    BY <2>1, <2>2, <2>4 DEF Within, Earlier
  <2> QED
    BY <1>1, <2>5 DEF Progress
<1>2. ASSUME NEW m, Within(p, r, x, y, m) PROVE Progress(p, r, x + 1, y + 1)
  <2>1. PICK a, b, s, c, d, t :
           /\ a = Opens(p, m) /\ b = Closes(p, m) /\ s = Segments(p)[m]
           /\ c = Opens(r, m) /\ d = Closes(r, m) /\ t = Segments(r)[m]
           /\ IsSegment(p, m, a, b, s) /\ IsSegment(r, m, c, d, t)
           /\ x \in a .. b /\ y \in c .. d /\ x - a = y - c
           /\ \A z \in 0 .. x - a - 1 : p[a + z] = r[c + z]
           /\ x > a => p[a] \notin {":", "*"}
    BY <1>2, WithinIs
  <2>2. /\ a \in Nat /\ b \in Nat /\ c \in Nat /\ d \in Nat /\ a <= b /\ c <= d
        /\ m \in 1 .. Count(p) /\ m \in 1 .. Count(r)
        /\ b <= Len(p) + 1 /\ d <= Len(r) + 1
        /\ \A z \in a .. b - 1 : p[z] # "/"
        /\ \A z \in c .. d - 1 : r[z] # "/"
    <3>1. IsSegment(p, m, a, b, s) /\ IsSegment(r, m, c, d, t)
      BY <2>1
    <3>2. a \in Nat /\ b \in Nat /\ a <= b /\ m \in 1 .. Count(p) /\ b <= Len(p) + 1
          /\ \A z \in a .. b - 1 : p[z] # "/"
      BY <3>1 DEF IsSegment
    <3>3. c \in Nat /\ d \in Nat /\ c <= d /\ m \in 1 .. Count(r) /\ d <= Len(r) + 1
          /\ \A z \in c .. d - 1 : r[z] # "/"
      BY <3>1 DEF IsSegment
    <3> QED
      BY <3>2, <3>3
  <2>3. /\ m < Count(p) => b <= Len(p) /\ p[b] = "/" /\ Opens(p, m + 1) = b + 1
        /\ m = Count(p) => b = Len(p) + 1
        /\ m < Count(r) => d <= Len(r) /\ r[d] = "/" /\ Opens(r, m + 1) = d + 1
        /\ m = Count(r) => d = Len(r) + 1
    BY <2>1 DEF IsSegment
  <2>4. \A z \in 0 .. x - a : p[a + z] = r[c + z]
    <3> TAKE z \in 0 .. x - a
    <3>1. x \in a .. b /\ y \in c .. d /\ x - a = y - c
      BY <2>1
    <3>2. z \in 0 .. x - a - 1 \/ (a + z = x /\ c + z = y)
      BY <2>2, <3>1
    <3>3. z \in 0 .. x - a - 1 => p[a + z] = r[c + z]
      BY <2>1
    <3> QED
      BY <3>2, <3>3
  <2>5. CASE x < b
    <3>1. x \in a .. b - 1
      BY <2>1, <2>2, <2>5
    <3>2. y # d
      <4>1. p[x] # "/"
        BY <2>2, <3>1
      <4>2. y = d => m # Count(r)
        BY <1>0, <2>1, <2>2, <2>3
      <4>3. y = d => r[d] = "/"
        BY <1>0, <2>2, <2>3, <4>2
      <4> QED
        BY <4>1, <4>3
    <3>3. x + 1 \in a .. b /\ y + 1 \in c .. d /\ (x + 1) - a = (y + 1) - c /\ (x + 1) - a - 1 = x - a
      <4>1. x \in a .. b /\ y \in c .. d /\ x - a = y - c
        BY <2>1
      <4> QED
        BY <2>2, <2>5, <3>2, <4>1
    <3>4. p[a] \notin {":", "*"}
      <4>1. x > a \/ x = a
        BY <2>1, <2>2
      <4> QED
        BY <2>1, <4>1
    <3>5. Within(p, r, x + 1, y + 1, m)
      BY <1>2, <2>1, <2>4, <3>3, <3>4 DEF Within
    <3> QED
      BY <3>5 DEF Progress
  <2>6. CASE x = b
    <3>1. m < Count(p)
      BY <1>0, <2>2, <2>3, <2>6
    <3>2. p[x] = "/"
      BY <2>3, <2>6, <3>1
    <3>3. y = d
      <4>1. y \notin c .. d - 1
        BY <2>2, <3>2
      <4>2. y \in c .. d
        BY <2>1
      <4> QED
        BY <2>2, <4>1, <4>2
    <3>4. m < Count(r)
      BY <1>0, <2>2, <2>3, <3>3
    <3>5. PICK k : k = m + 1
      OBVIOUS
    <3>6. k \in 1 .. Count(p) /\ k \in 1 .. Count(r) /\ k - 1 = m /\ m \in Nat /\ k \in Nat
      BY <1>0, <2>2, <3>1, <3>4, <3>5
    <3>7. x + 1 = Opens(p, k) /\ y + 1 = Opens(r, k)
      BY <2>3, <2>6, <3>1, <3>3, <3>4, <3>5
    <3>8. s = t
      <4>1. b - a = d - c /\ \A z \in 0 .. b - a - 1 : p[a + z] = r[c + z]
        BY <2>1, <2>6, <3>3
      <4> QED
        BY <2>1, <4>1, SameSegment
    <3>9. Earlier(p, r, k)
      <4>1. \A q \in 1 .. k - 1 : q \in 1 .. m - 1 \/ q = m
        BY <3>6
      <4>2. Earlier(p, r, m)
        BY <1>2 DEF Within
      <4> QED
        BY <2>1, <3>8, <4>1, <4>2 DEF Earlier
    <3>10. PICK e, f, g, h : e = Opens(p, k) /\ f = Closes(p, k) /\ g = Opens(r, k) /\ h = Closes(r, k)
      OBVIOUS
    <3>11. e \in Nat /\ f \in Nat /\ e <= f /\ g \in Nat /\ h \in Nat /\ g <= h
      <4>1. IsSegment(p, k, e, f, Segments(p)[k]) /\ IsSegment(r, k, g, h, Segments(r)[k])
        BY <3>6, <3>10, SegmentIs
      <4> QED
        BY <4>1 DEF IsSegment
    <3>12. e \in e .. f /\ g \in g .. h /\ e - e = g - g /\ 0 .. e - e - 1 = {} /\ ~(e > e)
      BY <3>11
    <3>13. Within(p, r, e, g, k)
      BY <3>6, <3>9, <3>10, <3>12 DEF Within
    <3> QED
      BY <3>7, <3>10, <3>13 DEF Progress
  <2> QED
    BY <2>1, <2>2, <2>5, <2>6
<1> QED
  BY <1>1, <1>2, PartedOver DEF Progress

(* A parameter or a wildcard is met at the start of a segment of both.     *)
LEMMA CaptureAt ==
  ASSUME NEW p, Rooted(p), WellShaped(p), NEW r, Rooted(r), NEW x, NEW y, Progress(p, r, x, y),
         x <= Len(p), y <= Len(r), p[x] \in {":", "*"}
  PROVE  \E m : /\ m \in 1 .. Count(p) /\ m \in 1 .. Count(r) /\ Earlier(p, r, m)
                /\ x = Opens(p, m) /\ y = Opens(r, m) /\ x < Closes(p, m)
<1>0. Len(p) \in Nat /\ Len(r) \in Nat /\ Count(p) \in Nat /\ Count(r) \in Nat
  BY FirstSlash, FirstOpens
<1>1. ~(x = 1 /\ y = 1)
  BY DEF Rooted
<1>2. PICK m : Within(p, r, x, y, m)
  BY <1>1, PartedOver DEF Progress
<1>3. PICK a, b, s, c, d, t :
           /\ a = Opens(p, m) /\ b = Closes(p, m) /\ s = Segments(p)[m]
           /\ c = Opens(r, m) /\ d = Closes(r, m) /\ t = Segments(r)[m]
           /\ IsSegment(p, m, a, b, s) /\ IsSegment(r, m, c, d, t)
           /\ x \in a .. b /\ y \in c .. d /\ x - a = y - c
           /\ \A z \in 0 .. x - a - 1 : p[a + z] = r[c + z]
           /\ x > a => p[a] \notin {":", "*"}
  BY <1>2, WithinIs
<1>4. /\ a \in Nat /\ b \in Nat /\ c \in Nat /\ d \in Nat /\ a >= 2
      /\ m \in 1 .. Count(p) /\ m \in 1 .. Count(r)
      /\ \A z \in a .. b - 1 : p[z] # "/"
      /\ m < Count(p) => p[b] = "/"
      /\ m = Count(p) => b = Len(p) + 1
  <2>1. IsSegment(p, m, a, b, s) /\ IsSegment(r, m, c, d, t)
    BY <1>3
  <2>2. c \in Nat /\ d \in Nat /\ m \in 1 .. Count(r)
    BY <2>1 DEF IsSegment
  <2>3. /\ a \in Nat /\ b \in Nat /\ a >= 2 /\ m \in 1 .. Count(p)
        /\ \A z \in a .. b - 1 : p[z] # "/"
        /\ m < Count(p) => p[b] = "/"
        /\ m = Count(p) => b = Len(p) + 1
    <3>1. IsSegment(p, m, a, b, s)
      BY <2>1
    <3>2. a \in Nat /\ b \in Nat /\ a >= 2 /\ m \in 1 .. Count(p)
      BY <3>1 DEF IsSegment
    <3>3. \A z \in a .. b - 1 : p[z] # "/"
      BY <3>1 DEF IsSegment
    <3>4. (m < Count(p) => p[b] = "/") /\ (m = Count(p) => b = Len(p) + 1)
      BY <3>1 DEF IsSegment
    <3> QED
      BY <3>2, <3>3, <3>4
  <2> QED
    BY <2>2, <2>3
<1>5. x # b
  <2>1. x = b => m < Count(p)
    BY <1>0, <1>4
  <2> QED
    BY <1>4, <2>1
<1>6. x = a
  <2>1. SUFFICES ASSUME x # a PROVE FALSE
    OBVIOUS
  <2>2. x - 1 \in a .. b - 1 /\ x \in 1 .. Len(p)
    <3>1. x \in a .. b
      BY <1>3
    <3> QED
      BY <1>0, <1>4, <2>1, <3>1
  <2>3. p[x - 1] = "/"
    BY <2>2 DEF WellShaped
  <2> QED
    BY <1>4, <2>2, <2>3
<1>7. y = c /\ x < b
  <2>1. x \in a .. b /\ y \in c .. d /\ x - a = y - c
    BY <1>3
  <2> QED
    BY <1>4, <1>5, <1>6, <2>1
<1> QED
  BY <1>2, <1>3, <1>4, <1>6, <1>7 DEF Within

LEMMA WildcardStep ==
  ASSUME NEW p, Rooted(p), WellShaped(p), NEW r, Rooted(r), NEW x, NEW y, Progress(p, r, x, y),
         x <= Len(p), y <= Len(r), p[x] = "*"
  PROVE  Progress(p, r, x + 1, Len(r) + 1)
<1>0. Len(p) \in Nat /\ Len(r) \in Nat /\ Count(p) \in Nat /\ Count(r) \in Nat
  BY FirstSlash, FirstOpens
<1>1. PICK m : /\ m \in 1 .. Count(p) /\ m \in 1 .. Count(r) /\ Earlier(p, r, m)
               /\ x = Opens(p, m) /\ y = Opens(r, m) /\ x < Closes(p, m)
  BY CaptureAt
<1>2. PICK b, s : b = Closes(p, m) /\ s = Segments(p)[m]
  OBVIOUS
<1>3. IsSegment(p, m, x, b, s)
  BY <1>1, <1>2, SegmentIs
<1>4. x \in 1 .. Len(p) /\ b \in x .. Len(p) + 1 /\ (m < Count(p) => b <= Len(p)) /\ x < b
  <2>1. x \in 2 .. Len(p) + 1 /\ b \in x .. Len(p) + 1 /\ (m < Count(p) => b <= Len(p))
    BY <1>3 DEF IsSegment
  <2>2. x < b
    BY <1>1, <1>2
  <2> QED
    BY <1>0, <2>1, <2>2
<1>5. x = Len(p)
  BY <1>4 DEF WellShaped
<1>6. b = x + 1 /\ m = Count(p)
  BY <1>0, <1>1, <1>4, <1>5
<1>7. Rest(s)
  BY <1>3, <1>6, SegmentKind
<1>8. Swallowed(p, r, Len(p) + 1, Len(r) + 1, m)
  BY <1>1, <1>2, <1>6, <1>7 DEF Swallowed
<1> QED
  BY <1>5, <1>8 DEF Progress

LEMMA EndOfNext ==
  ASSUME NEW p, Len(p) \in Nat, NEW k \in 1 .. Len(p), NEW S, p[k] \notin S
  PROVE  EndOf(p, k + 1, S) = EndOf(p, k, S)
<1>1. PICK j, e, f : j = k + 1 /\ e = EndOf(p, k, S) /\ f = EndOf(p, j, S)
  OBVIOUS
<1>2. k \in 1 .. Len(p) + 1 /\ j \in 1 .. Len(p) + 1
  BY <1>1
<1>3. e \in k .. Len(p) + 1 /\ (e = Len(p) + 1 \/ p[e] \in S)
  BY <1>1, <1>2, EndOfIs
<1>4. \A m \in k .. e - 1 : p[m] \notin S
  BY <1>1, <1>2, EndOfIs
<1>5. f \in j .. Len(p) + 1 /\ (f = Len(p) + 1 \/ p[f] \in S)
  BY <1>1, <1>2, EndOfIs
<1>6. \A m \in j .. f - 1 : p[m] \notin S
  BY <1>1, <1>2, EndOfIs
<1>7. e # k
  BY <1>3
<1>8. ~(e < f)
  <2>1. SUFFICES ASSUME e < f PROVE FALSE
    OBVIOUS
  <2>2. e \in j .. f - 1 /\ e # Len(p) + 1
    BY <1>1, <1>3, <1>5, <1>7, <2>1
  <2> QED
    BY <1>3, <1>6, <2>2
<1>9. ~(f < e)
  <2>1. SUFFICES ASSUME f < e PROVE FALSE
    OBVIOUS
  <2>2. f \in k .. e - 1 /\ f # Len(p) + 1
    BY <1>1, <1>3, <1>5, <2>1
  <2> QED
    BY <1>4, <1>5, <2>2
<1>10. e = f
  BY <1>1, <1>3, <1>5, <1>8, <1>9
<1> QED
  BY <1>1, <1>10

LEMMA AfterIs ==
  ASSUME NEW p, Rooted(p), NEW m \in 1 .. Count(p)
  PROVE  Beyond(p, Closes(p, m)) = After(p, m)
<1>1. PICK a, b, s : a = Opens(p, m) /\ b = Closes(p, m) /\ s = Segments(p)[m]
  OBVIOUS
<1>2. IsSegment(p, m, a, b, s)
  BY <1>1, SegmentIs
<1>3. /\ Len(p) \in Nat /\ Count(p) \in Nat /\ b \in Nat
      /\ m < Count(p) => b <= Len(p) /\ p[b] = "/" /\ Opens(p, m + 1) = b + 1
      /\ m = Count(p) => b = Len(p) + 1
  BY <1>2 DEF IsSegment
<1>4. Beyond(p, b) = After(p, m)
  <2>1. CASE m < Count(p)
    BY <1>3, <2>1 DEF Beyond, After
  <2>2. CASE m = Count(p)
    BY <1>3, <2>2 DEF Beyond, After
  <2> QED
    BY <1>3, <2>1, <2>2
<1> QED
  BY <1>1, <1>4

(* In front of a segment there is in both.                                 *)
LEMMA WithinBegins ==
  ASSUME NEW p, Rooted(p), NEW r, Rooted(r), NEW m \in 1 .. Count(p), m \in 1 .. Count(r),
         Earlier(p, r, m)
  PROVE  Within(p, r, Opens(p, m), Opens(r, m), m)
<1>1. PICK a, b, c, d : a = Opens(p, m) /\ b = Closes(p, m) /\ c = Opens(r, m) /\ d = Closes(r, m)
  OBVIOUS
<1>2. a \in Nat /\ b \in Nat /\ a <= b /\ c \in Nat /\ d \in Nat /\ c <= d
  <2>1. IsSegment(p, m, a, b, Segments(p)[m]) /\ IsSegment(r, m, c, d, Segments(r)[m])
    BY <1>1, SegmentIs
  <2> QED
    BY <2>1 DEF IsSegment
<1>3. a \in a .. b /\ c \in c .. d /\ a - a = c - c /\ 0 .. a - a - 1 = {} /\ ~(a > a)
  BY <1>2
<1>4. Within(p, r, a, c, m)
  BY <1>1, <1>3 DEF Within
<1> QED
  BY <1>1, <1>4

LEMMA ParameterStep ==
  ASSUME NEW p, Rooted(p), WellShaped(p), NEW r, Rooted(r), NEW x, NEW y, Progress(p, r, x, y),
         x <= Len(p), y <= Len(r), p[x] = ":"
  PROVE  Progress(p, r, Beyond(p, EndOf(p, x + 1, {"/"})), Beyond(r, EndOf(r, y, {"/"})))
<1>0. Len(p) \in Nat /\ Len(r) \in Nat /\ Count(p) \in Nat /\ Count(r) \in Nat
  BY FirstSlash, FirstOpens
<1>1. PICK m : /\ m \in 1 .. Count(p) /\ m \in 1 .. Count(r) /\ Earlier(p, r, m)
               /\ x = Opens(p, m) /\ y = Opens(r, m) /\ x < Closes(p, m)
  BY CaptureAt
<1>2. PICK b, s, d, t : b = Closes(p, m) /\ s = Segments(p)[m]
                        /\ d = Closes(r, m) /\ t = Segments(r)[m]
  OBVIOUS
<1>3. IsSegment(p, m, x, b, s) /\ IsSegment(r, m, y, d, t)
  BY <1>1, <1>2, SegmentIs
<1>4. Named(s)
  BY <1>1, <1>2, <1>3, SegmentKind
<1>5. EndOf(p, x + 1, {"/"}) = b /\ EndOf(r, y, {"/"}) = d
  <2>1. x \in 1 .. Len(p)
    BY <1>3 DEF IsSegment
  <2>2. PICK S : S = {"/"}
    OBVIOUS
  <2>3. p[x] \notin S
    BY <2>2
  <2>4. EndOf(p, x + 1, S) = EndOf(p, x, S)
    BY <1>0, <2>1, <2>3, EndOfNext
  <2> QED
    BY <1>1, <1>2, <2>2, <2>4 DEF Closes
<1>6. Beyond(p, b) = After(p, m) /\ Beyond(r, d) = After(r, m)
  BY <1>1, <1>2, AfterIs
<1>7. Progress(p, r, After(p, m), After(r, m))
  <2>1. CASE m < Count(p) /\ m < Count(r)
    <3>1. PICK k : k = m + 1
      OBVIOUS
    <3>2. k \in 1 .. Count(p) /\ k \in 1 .. Count(r) /\ m \in Nat /\ k - 1 = m
      BY <1>0, <1>1, <2>1, <3>1
    <3>3. Earlier(p, r, k)
      <4>1. \A q \in 1 .. k - 1 : q \in 1 .. m - 1 \/ q = m
        BY <3>2
      <4> QED
        BY <1>1, <1>2, <1>4, <4>1 DEF Earlier
    <3>4. Within(p, r, Opens(p, k), Opens(r, k), k)
      BY <3>2, <3>3, WithinBegins
    <3>5. After(p, m) = Opens(p, k) /\ After(r, m) = Opens(r, k)
      BY <2>1, <3>1 DEF After
    <3> QED
      BY <3>4, <3>5 DEF Progress
  <2>2. CASE ~(m < Count(p) /\ m < Count(r))
    <3>1. m = Count(p) \/ m = Count(r)
      BY <1>0, <1>1, <2>2
    <3>2. m = Count(r) => t # <<>>
      <4>1. m = Count(r) => d = Len(r) + 1
        BY <1>3 DEF IsSegment
      <4>2. y \in Nat
        BY <1>3 DEF IsSegment
      <4>3. m = Count(r) => y # d
        BY <1>0, <4>1, <4>2
      <4> QED
        BY <1>3, <4>3, SegmentKind
    <3>3. Parted(p, r, After(p, m), After(r, m), m)
      BY <1>1, <1>2, <1>4, <3>1, <3>2 DEF Parted
    <3> QED
      BY <3>3 DEF Progress
  <2> QED
    BY <2>1, <2>2
<1> QED
  BY <1>5, <1>6, <1>7

----------------------------------------------------------------------------
(* What Matches says, with the segments counted.                           *)

Dropped(p) == Count(p) > 1 /\ Segments(p)[Count(p)] = <<>> /\ Named(Segments(p)[Count(p) - 1])
Final(p)   == IF Dropped(p) THEN Count(p) - 1 ELSE Count(p)
Agrees(p, r, l) == \A k \in 1 .. l :
  k <= Count(r) /\ (Segments(p)[k] = Segments(r)[k] \/ Named(Segments(p)[k]))
Fits(p, r, l) ==
  \/ /\ Rest(Segments(p)[l]) /\ Agrees(p, r, l - 1)
     /\ Count(r) > l \/ (Count(r) = l /\ Segments(r)[l] # <<>>)
  \/ /\ Named(Segments(p)[l]) /\ Agrees(p, r, l)
     /\ \/ Count(r) = l /\ Segments(r)[l] # <<>>
        \/ Count(r) = l + 1 /\ Segments(r)[l + 1] = <<>>
  \/ ~Rest(Segments(p)[l]) /\ ~Named(Segments(p)[l]) /\ Agrees(p, r, l) /\ Count(r) = l

LEMMA SegmentsLen ==
  ASSUME NEW p, Rooted(p)
  PROVE  Len(Segments(p)) = Count(p) /\ Count(p) \in Nat /\ IsList(Segments(p))
<1>1. Count(p) \in Nat
  BY FirstOpens
<1> DEFINE g(m) == SubSeq(p, Slash(p, m) + 1, EndOf(p, Slash(p, m) + 1, {"/"}) - 1)
           S == {g(m) : m \in 1 .. Count(p)}
<1>2. Segments(p) = [m \in 1 .. Count(p) |-> g(m)]
  BY DEF Segments, Count
<1> HIDE DEF g
<1>3. Segments(p) \in Seq(S) /\ Len(Segments(p)) = Count(p)
  BY <1>1, <1>2
<1> HIDE DEF S
<1> QED
  BY <1>1, <1>3, ListIs

Agreeing(P, R, M, h) == \A k \in 1 .. h : k <= M /\ (P[k] = R[k] \/ Named(P[k]))
Fitting(P, R, l, M) ==
  \/ Rest(P[l]) /\ Agreeing(P, R, M, l - 1) /\ (M > l \/ (M = l /\ R[l] # <<>>))
  \/ /\ Named(P[l]) /\ Agreeing(P, R, M, l)
     /\ (M = l /\ R[l] # <<>>) \/ (M = l + 1 /\ R[l + 1] = <<>>)
  \/ ~Rest(P[l]) /\ ~Named(P[l]) /\ Agreeing(P, R, M, l) /\ M = l

LEMMA MatchesIs ==
  ASSUME NEW p, Rooted(p), NEW r, Rooted(r)
  PROVE  Final(p) \in 1 .. Count(p) /\ (Matches(p, r) <=> Fits(p, r, Final(p)))
<1>1. PICK P, R, N, M : P = Segments(p) /\ R = Segments(r) /\ N = Count(p) /\ M = Count(r)
  OBVIOUS
<1>2. Len(P) = N /\ IsList(P) /\ Len(R) = M /\ N \in Nat /\ N >= 1 /\ M \in Nat
  BY <1>1, SegmentsLen, FirstOpens
<1>3. PICK C, l : C = Core(P) /\ l = Final(p)
  OBVIOUS
<1>4. Dropped(p) <=> N > 1 /\ P[N] = <<>> /\ Named(P[N - 1])
  BY <1>1 DEF Dropped
<1>5. l \in 1 .. N /\ Len(C) = l /\ \A k \in 1 .. l : C[k] = P[k]
  <2>1. CASE Dropped(p)
    <3>1. l = N - 1 /\ N > 1 /\ C = SubSeq(P, 1, l)
      BY <1>1, <1>2, <1>3, <1>4, <2>1 DEF Final, Core
    <3>2. l \in 0 .. Len(P) /\ l \in 1 .. N
      BY <1>2, <3>1
    <3>3. Len(C) = l
      BY <1>2, <3>1, <3>2, Prefix
    <3>4. \A k \in 1 .. l : C[k] = P[k]
      BY <1>2, <3>1, <3>2, Prefix
    <3> QED
      BY <3>2, <3>3, <3>4
  <2>2. CASE ~Dropped(p)
    <3>1. l = N /\ C = P
      BY <1>1, <1>2, <1>3, <1>4, <2>2 DEF Final, Core
    <3> QED
      BY <1>2, <3>1
  <2> QED
    BY <2>1, <2>2
<1>6. Matches(p, r) <=> Fitting(C, R, l, M)
  <2>1. p[1] = "/" /\ r[1] = "/"
    BY DEF Rooted
  <2>2. C = Core(Segments(p)) /\ R = Segments(r) /\ l = Len(C) /\ M = Len(R)
    BY <1>1, <1>2, <1>3, <1>5
  <2>3. Matches(p, r) <=>
          p[1] = "/" /\ r[1] = "/" /\ Fitting(Core(Segments(p)), Segments(r),
                                             Len(Core(Segments(p))), Len(Segments(r)))
    BY Zenon DEF Matches, Fitting, Agreeing
  <2> QED
    BY <2>1, <2>2, <2>3
<1>7. /\ C[l] = P[l]
      /\ Agreeing(C, R, M, l) <=> Agrees(p, r, l)
      /\ Agreeing(C, R, M, l - 1) <=> Agrees(p, r, l - 1)
  <2>1. C[l] = P[l] /\ l - 1 \in Nat /\ \A k \in 1 .. l - 1 : k \in 1 .. l
    BY <1>5
  <2>2. Agreeing(C, R, M, l) <=> Agrees(p, r, l)
    BY <1>1, <1>5 DEF Agrees, Agreeing
  <2>3. Agreeing(C, R, M, l - 1) <=> Agrees(p, r, l - 1)
    BY <1>1, <1>5, <2>1 DEF Agrees, Agreeing
  <2> QED
    BY <2>1, <2>2, <2>3
<1>8. Matches(p, r) <=> Fits(p, r, l)
  BY <1>1, <1>6, <1>7 DEF Fitting, Fits
<1> QED
  BY <1>1, <1>3, <1>5, <1>8

LEMMA OpensEnd ==
  ASSUME NEW p, Rooted(p), NEW k \in 1 .. Count(p)
  PROVE  Opens(p, k) > Len(p) <=> k = Count(p) /\ Segments(p)[k] = <<>>
<1>1. PICK a, b, s : a = Opens(p, k) /\ b = Closes(p, k) /\ s = Segments(p)[k]
  OBVIOUS
<1>2. IsSegment(p, k, a, b, s)
  BY <1>1, SegmentIs
<1>3. /\ Len(p) \in Nat /\ Count(p) \in Nat /\ a \in Nat /\ b \in Nat /\ a <= b /\ b <= Len(p) + 1
      /\ k < Count(p) => b <= Len(p)
      /\ k = Count(p) => b = Len(p) + 1
  BY <1>2 DEF IsSegment
<1>4. s = <<>> <=> a = b
  BY <1>2, SegmentKind
<1>5. a > Len(p) <=> k = Count(p) /\ a = b
  BY <1>3
<1> QED
  BY <1>1, <1>4, <1>5

LEMMA KindsApart ==
  ASSUME NEW s, Named(s)
  PROVE  ~Rest(s) /\ s # <<>>
<1>1. <<"*">>[1] = "*"
  OBVIOUS
<1> QED
  BY <1>1 DEF Named, Rest

LEMMA FinalIs ==
  ASSUME NEW p, Rooted(p)
  PROVE  /\ Count(p) \in Nat /\ Final(p) \in 1 .. Count(p)
         /\ \/ Final(p) = Count(p) /\ ~Dropped(p)
            \/ Final(p) = Count(p) - 1 /\ Segments(p)[Count(p)] = <<>> /\ Named(Segments(p)[Final(p)])
<1>1. Count(p) \in Nat
  BY FirstOpens
<1>2. Final(p) \in 1 .. Count(p)
  BY MatchesIs
<1> QED
  BY <1>1, <1>2 DEF Final, Dropped

LEMMA EarlierAgrees ==
  ASSUME NEW p, NEW r, NEW m \in Nat, Count(r) \in Nat, m <= Count(r), Earlier(p, r, m)
  PROVE  /\ Agrees(p, r, m - 1)
         /\ Segments(p)[m] = Segments(r)[m] \/ Named(Segments(p)[m]) => Agrees(p, r, m)
<1>1. \A k \in 1 .. m - 1 : k <= Count(r)
  OBVIOUS
<1>2. \A k \in 1 .. m : k \in 1 .. m - 1 \/ k = m
  OBVIOUS
<1> QED
  BY <1>1, <1>2 DEF Earlier, Agrees

(* With both at their end the route matches.                               *)
LEMMA EndedMatches ==
  ASSUME NEW p, Rooted(p), NEW r, Rooted(r), NEW x, NEW y, Progress(p, r, x, y),
         x > Len(p), y > Len(r)
  PROVE  Matches(p, r)
<1>0. /\ Len(p) \in Nat /\ Len(r) \in Nat /\ Count(p) \in Nat /\ Count(r) \in Nat
      /\ Len(p) >= 1 /\ Len(r) >= 1
  BY FirstSlash, FirstOpens
<1>1. PICK l, N, M : l = Final(p) /\ N = Count(p) /\ M = Count(r)
  OBVIOUS
<1>2. /\ l \in 1 .. N /\ N \in Nat /\ M \in Nat
      /\ (l = N /\ ~Dropped(p)) \/ (l = N - 1 /\ Segments(p)[N] = <<>> /\ Named(Segments(p)[l]))
  BY <1>0, <1>1, FinalIs
<1> SUFFICES Fits(p, r, l)
  BY <1>1, MatchesIs
<1>3. ASSUME NEW m, Within(p, r, x, y, m) PROVE Fits(p, r, l)
  <2>1. PICK a, b, s, c, d, t :
           /\ a = Opens(p, m) /\ b = Closes(p, m) /\ s = Segments(p)[m]
           /\ c = Opens(r, m) /\ d = Closes(r, m) /\ t = Segments(r)[m]
           /\ IsSegment(p, m, a, b, s) /\ IsSegment(r, m, c, d, t)
           /\ x \in a .. b /\ y \in c .. d /\ x - a = y - c
           /\ \A z \in 0 .. x - a - 1 : p[a + z] = r[c + z]
           /\ x > a => p[a] \notin {":", "*"}
    BY <1>3, WithinIs
  <2>2. /\ a \in Nat /\ b \in Nat /\ c \in Nat /\ d \in Nat /\ m \in Nat
        /\ m <= N /\ m <= M /\ b <= Len(p) + 1 /\ d <= Len(r) + 1
        /\ (m < N => b <= Len(p)) /\ (m < M => d <= Len(r))
    <3>1. IsSegment(p, m, a, b, s) /\ IsSegment(r, m, c, d, t)
      BY <2>1
    <3>2. a \in Nat /\ b \in Nat /\ m \in Nat /\ m <= N /\ b <= Len(p) + 1
          /\ (m < N => b <= Len(p))
      BY <1>1, <3>1 DEF IsSegment
    <3>3. c \in Nat /\ d \in Nat /\ m <= M /\ d <= Len(r) + 1 /\ (m < M => d <= Len(r))
      BY <1>1, <3>1 DEF IsSegment
    <3> QED
      BY <3>2, <3>3
  <2>3. x = b /\ y = d /\ m = N /\ m = M
    <3>1. x \in a .. b /\ y \in c .. d
      BY <2>1
    <3> QED
      BY <1>0, <1>2, <2>2, <3>1
  <2>4. s = t
    BY <2>1, <2>3, SameSegment
  <2>5. ~Named(s) /\ ~Rest(s)
    <3>1. Named(s) \/ Rest(s) => a < b /\ p[a] \in {":", "*"}
      <4>1. (Named(s) <=> a < b /\ p[a] = ":") /\ (Rest(s) <=> b = a + 1 /\ p[a] = "*")
        BY <2>1, SegmentKind
      <4> QED
        BY <2>2, <4>1
    <3> QED
      BY <2>1, <2>2, <2>3, <3>1
  <2>6. Agrees(p, r, m) /\ Agrees(p, r, m - 1)
    BY <1>1, <1>2, <1>3, <2>1, <2>2, <2>4, EarlierAgrees DEF Within
  <2>7. CASE l = N
    BY <1>1, <2>1, <2>3, <2>5, <2>6, <2>7 DEF Fits
  <2>8. CASE l # N
    <3>1. l = m - 1 /\ Segments(p)[m] = <<>> /\ Named(Segments(p)[l]) /\ l + 1 = m
      BY <1>2, <2>2, <2>3, <2>8
    <3>2. Segments(r)[l + 1] = <<>> /\ Count(r) = l + 1
      BY <1>1, <2>1, <2>3, <2>4, <3>1
    <3> QED
      BY <2>6, <3>1, <3>2 DEF Fits
  <2> QED
    BY <2>7, <2>8
<1>4. ASSUME NEW m, Parted(p, r, x, y, m) PROVE Fits(p, r, l)
  <2>1. /\ m \in Nat /\ m >= 1 /\ m <= N /\ m <= M /\ Named(Segments(p)[m]) /\ (m = N \/ m = M)
        /\ m = M => Segments(r)[m] # <<>>
        /\ x = After(p, m) /\ y = After(r, m)
    BY <1>0, <1>1, <1>4 DEF Parted
  <2>2. Agrees(p, r, m)
    BY <1>0, <1>1, <1>4, <2>1, EarlierAgrees DEF Parted
  <2>3. m < M => M = m + 1 /\ Segments(r)[m + 1] = <<>>
    <3>1. m < M => y = Opens(r, m + 1) /\ m + 1 \in 1 .. Count(r)
      BY <1>1, <1>2, <2>1 DEF After
    <3> QED
      BY <1>1, <3>1, OpensEnd
  <2>4. m < N => N = m + 1 /\ Segments(p)[m + 1] = <<>>
    <3>1. m < N => x = Opens(p, m + 1) /\ m + 1 \in 1 .. Count(p)
      BY <1>1, <1>2, <2>1 DEF After
    <3> QED
      BY <1>1, <3>1, OpensEnd
  <2>5. l = m
    <3>1. CASE m = N
      BY <1>2, <2>1, <3>1, KindsApart
    <3>2. CASE m # N
      <4>1. N = m + 1 /\ Segments(p)[N] = <<>> /\ N > 1 /\ N - 1 = m
        BY <1>2, <2>1, <2>4, <3>2
      <4>2. Dropped(p)
        BY <1>1, <2>1, <4>1 DEF Dropped
      <4> QED
        BY <1>2, <4>1, <4>2
    <3> QED
      BY <3>1, <3>2
  <2>6. \/ M = l /\ Segments(r)[l] # <<>>
        \/ M = l + 1 /\ Segments(r)[l + 1] = <<>>
    BY <1>2, <2>1, <2>3, <2>5
  <2> QED
    BY <1>1, <2>1, <2>2, <2>5, <2>6 DEF Fits
<1>5. ASSUME NEW m, Swallowed(p, r, x, y, m) PROVE Fits(p, r, l)
  <2>1. /\ m \in Nat /\ m >= 1 /\ m = N /\ m <= M /\ Rest(Segments(p)[m])
        /\ Opens(r, m) <= Len(r) /\ m \in 1 .. Count(r)
    BY <1>0, <1>1, <1>5 DEF Swallowed
  <2>2. Agrees(p, r, m - 1)
    BY <1>0, <1>1, <1>5, <2>1, EarlierAgrees DEF Swallowed
  <2>3. Segments(p)[m] # <<>>
    BY <2>1 DEF Rest
  <2>4. l = m
    BY <1>2, <2>1, <2>3
  <2>5. ~(m = Count(r) /\ Segments(r)[m] = <<>>)
    <3>1. Opens(r, m) \in Nat
      <4>1. IsSegment(r, m, Opens(r, m), Closes(r, m), Segments(r)[m])
        BY <2>1, SegmentIs
      <4> QED
        BY <4>1 DEF IsSegment
    <3>2. ~(Opens(r, m) > Len(r))
      BY <1>0, <2>1, <3>1
    <3> QED
      BY <2>1, <3>2, OpensEnd
  <2>6. M > l \/ (M = l /\ Segments(r)[l] # <<>>)
    BY <1>1, <1>2, <2>1, <2>4, <2>5
  <2> QED
    BY <1>1, <2>1, <2>2, <2>4, <2>6 DEF Fits
<1>6. ~(x = 1 /\ y = 1)
  BY <1>0
<1> QED
  BY <1>3, <1>4, <1>5, <1>6 DEF Progress

(* Where the matcher gives up the route does not match: in a segment of    *)
(* both, behind a parameter, or never.                                     *)
Stuck(p, r, x, y) ==
  /\ x <= Len(p) \/ y <= Len(r)
  /\ x <= Len(p) /\ y <= Len(r) => p[x] \notin {":", "*", r[y]}

LEMMA StuckWithin ==
  ASSUME NEW p, Rooted(p), NEW r, Rooted(r), NEW x, NEW y, NEW m, Within(p, r, x, y, m),
         Stuck(p, r, x, y)
  PROVE  ~Fits(p, r, Final(p))
<1>0. Len(p) \in Nat /\ Len(r) \in Nat /\ Count(p) \in Nat /\ Count(r) \in Nat
  BY FirstSlash, FirstOpens
<1>1. PICK l, N, M : l = Final(p) /\ N = Count(p) /\ M = Count(r)
  OBVIOUS
<1>2. /\ l \in 1 .. N /\ N \in Nat /\ M \in Nat
      /\ (l = N /\ ~Dropped(p)) \/ (l = N - 1 /\ Segments(p)[N] = <<>> /\ Named(Segments(p)[l]))
  BY <1>0, <1>1, FinalIs
<1> SUFFICES ASSUME Fits(p, r, l) PROVE FALSE
  BY <1>1
<1>3. PICK a, b, s, c, d, t :
         /\ a = Opens(p, m) /\ b = Closes(p, m) /\ s = Segments(p)[m]
         /\ c = Opens(r, m) /\ d = Closes(r, m) /\ t = Segments(r)[m]
         /\ IsSegment(p, m, a, b, s) /\ IsSegment(r, m, c, d, t)
         /\ x \in a .. b /\ y \in c .. d /\ x - a = y - c
         /\ \A z \in 0 .. x - a - 1 : p[a + z] = r[c + z]
         /\ x > a => p[a] \notin {":", "*"}
  BY WithinIs
<1>4. /\ a \in Nat /\ b \in Nat /\ c \in Nat /\ d \in Nat /\ m \in Nat /\ m >= 1
      /\ m <= N /\ m <= M /\ a <= b /\ c <= d /\ b <= Len(p) + 1 /\ d <= Len(r) + 1
      /\ (m < N => b <= Len(p) /\ p[b] = "/") /\ (m < M => d <= Len(r) /\ r[d] = "/")
      /\ (m = N => b = Len(p) + 1) /\ (m = M => d = Len(r) + 1)
  <2>1. IsSegment(p, m, a, b, s) /\ IsSegment(r, m, c, d, t)
    BY <1>3
  <2>2. /\ a \in Nat /\ b \in Nat /\ m \in Nat /\ m >= 1 /\ m <= N /\ a <= b /\ b <= Len(p) + 1
        /\ (m < N => b <= Len(p) /\ p[b] = "/") /\ (m = N => b = Len(p) + 1)
    BY <1>1, <2>1 DEF IsSegment
  <2>3. /\ c \in Nat /\ d \in Nat /\ m <= M /\ c <= d /\ d <= Len(r) + 1
        /\ (m < M => d <= Len(r) /\ r[d] = "/") /\ (m = M => d = Len(r) + 1)
    BY <1>1, <2>1 DEF IsSegment
  <2> QED
    BY <2>2, <2>3
<1>3a. x \in a .. b /\ y \in c .. d /\ x - a = y - c
  BY <1>3
<1>3b. s = Segments(p)[m] /\ t = Segments(r)[m]
  BY <1>3
<1>5. /\ s = <<>> <=> a = b
      /\ Named(s) <=> a < b /\ p[a] = ":"
      /\ Rest(s) <=> b = a + 1 /\ p[a] = "*"
      /\ t = <<>> <=> c = d
  BY <1>3, SegmentKind
<1>6. s = t <=> b - a = d - c /\ \A z \in 0 .. b - a - 1 : p[a + z] = r[c + z]
  BY <1>3, SameSegment
<1>7. x > a => ~Named(s) /\ ~Rest(s)
  BY <1>3, <1>5
<1>8. x <= Len(p) => m <= l
  <2>1. SUFFICES ASSUME x <= Len(p), ~(m <= l) PROVE FALSE
    OBVIOUS
  <2>2. m = N /\ Segments(p)[m] = <<>>
    BY <1>2, <1>4, <2>1
  <2>3. a = b /\ b = Len(p) + 1
    BY <1>3a, <1>3b, <1>4, <1>5, <2>2
  <2> QED
    BY <1>0, <1>3a, <1>3b, <1>4, <2>1, <2>3
<1>9. CASE x <= Len(p) /\ y <= Len(r)
  <2>1. p[x] \notin {":", "*"} /\ p[x] # r[y]
    BY <1>9 DEF Stuck
  <2>2. ~Named(s) /\ ~Rest(s)
    <3>1. x = a \/ x > a
      BY <1>3a, <1>3b, <1>4
    <3> QED
      BY <1>5, <1>7, <2>1, <3>1
  <2>3. s # t
    <3>1. SUFFICES ASSUME s = t PROVE FALSE
      OBVIOUS
    <3>2. CASE x < b
      <4>1. x - a \in 0 .. b - a - 1 /\ a + (x - a) = x /\ c + (x - a) = y
        BY <1>3a, <1>3b, <1>4, <3>2
      <4>2. p[a + (x - a)] = r[c + (x - a)]
        BY <1>6, <3>1, <4>1
      <4> QED
        BY <2>1, <4>1, <4>2
    <3>3. CASE x = b
      <4>1. y = d /\ m < N /\ m < M
        <5>1. b - a = d - c
          BY <1>6, <3>1
        <5>2. y = d
          BY <1>3a, <1>3b, <1>4, <3>3, <5>1
        <5> QED
          BY <1>0, <1>2, <1>4, <1>9, <3>3, <5>2
      <4> QED
        BY <1>4, <2>1, <3>3, <4>1
    <3> QED
      BY <1>3a, <1>3b, <1>4, <3>2, <3>3
  <2>4. m <= l
    BY <1>8, <1>9
  <2>5. ~Agrees(p, r, l)
    <3>1. m \in 1 .. l
      BY <1>2, <1>4, <2>4
    <3> QED
      BY <1>3b, <2>2, <2>3, <3>1 DEF Agrees
  <2>6. Rest(Segments(p)[l]) => ~Agrees(p, r, l - 1)
    <3>1. Rest(Segments(p)[l]) => m # l
      BY <1>3a, <1>3b, <2>2
    <3>2. m # l => m \in 1 .. l - 1
      BY <1>2, <1>4, <2>4
    <3> QED
      BY <1>3b, <2>2, <2>3, <3>1, <3>2 DEF Agrees
  <2> QED
    BY <2>5, <2>6 DEF Fits
<1>10. CASE x <= Len(p) /\ ~(y <= Len(r))
  <2>1. y = d /\ m = M /\ m <= l
    BY <1>0, <1>2, <1>3a, <1>3b, <1>4, <1>8, <1>10
  <2>2. t # <<>> => x > a
    BY <1>3a, <1>3b, <1>4, <1>5, <2>1
  <2>3. CASE Rest(Segments(p)[l])
    <3>1. M > l \/ (M = l /\ Segments(r)[l] # <<>>)
      BY <1>1, <2>3, KindsApart DEF Fits
    <3>2. m = l /\ t # <<>>
      BY <1>2, <1>3a, <1>3b, <1>4, <2>1, <3>1
    <3> QED
      BY <1>3a, <1>3b, <1>7, <2>2, <2>3, <3>2
  <2>4. CASE Named(Segments(p)[l])
    <3>1. \/ M = l /\ Segments(r)[l] # <<>>
          \/ M = l + 1
      BY <1>1, <2>4, KindsApart DEF Fits
    <3>2. m = l /\ t # <<>>
      BY <1>2, <1>3a, <1>3b, <1>4, <2>1, <3>1
    <3> QED
      BY <1>3a, <1>3b, <1>7, <2>2, <2>4, <3>2
  <2>5. CASE ~Rest(Segments(p)[l]) /\ ~Named(Segments(p)[l])
    <3>1. Agrees(p, r, l) /\ M = l
      BY <1>1, <2>5 DEF Fits
    <3>2. m = l /\ l \in 1 .. l
      BY <1>2, <2>1, <3>1
    <3>3. s = t
      BY <1>3b, <2>5, <3>1, <3>2 DEF Agrees
    <3>4. b - a = d - c
      BY <1>6, <3>3
    <3>5. x = b
      BY <1>3a, <1>3b, <1>4, <2>1, <3>4
    <3>6. m # N
      BY <1>0, <1>4, <1>10, <3>5
    <3> QED
      BY <1>2, <2>5, <3>2, <3>6
  <2> QED
    BY <2>3, <2>4, <2>5
<1>11. CASE ~(x <= Len(p))
  <2>1. x = b /\ m = N /\ y <= Len(r)
    BY <1>0, <1>2, <1>3a, <1>3b, <1>4, <1>11 DEF Stuck
  <2>2. ~Named(s) /\ ~Rest(s)
    <3>1. CASE x > a
      BY <1>7, <3>1
    <3>2. CASE ~(x > a)
      <4>1. ~(a < b) /\ b # a + 1
        BY <1>3a, <1>4, <2>1, <3>2
      <4> QED
        BY <1>5, <4>1
    <3> QED
      BY <3>1, <3>2
  <2>3. CASE l = N
    <3>1. Agrees(p, r, l) /\ M = l
      BY <1>1, <1>3a, <1>3b, <2>1, <2>2, <2>3 DEF Fits
    <3>2. m = l /\ l \in 1 .. l /\ m = M
      BY <1>2, <2>1, <2>3, <3>1
    <3>3. s = t
      BY <1>3b, <2>2, <3>1, <3>2 DEF Agrees
    <3>4. b - a = d - c
      BY <1>6, <3>3
    <3> QED
      BY <1>0, <1>3a, <1>3b, <1>4, <2>1, <3>2, <3>4
  <2>4. CASE l # N
    <3>1. l = m - 1 /\ s = <<>> /\ Named(Segments(p)[l])
      BY <1>2, <1>3a, <1>3b, <2>1, <2>4
    <3>2. \/ M = l
          \/ M = l + 1 /\ Segments(r)[l + 1] = <<>>
      BY <1>1, <3>1, KindsApart DEF Fits
    <3>3. M = m /\ l + 1 = m
      BY <1>2, <1>4, <3>1, <3>2
    <3>4. t = <<>>
      BY <1>2, <1>3a, <1>3b, <3>2, <3>3
    <3>5. y = c /\ c = d
      BY <1>3a, <1>3b, <1>4, <1>5, <2>1, <3>1, <3>4
    <3> QED
      BY <1>0, <1>4, <2>1, <3>3, <3>5
  <2> QED
    BY <2>3, <2>4
<1> QED
  BY <1>9, <1>10, <1>11

LEMMA StuckParted ==
  ASSUME NEW p, Rooted(p), NEW r, Rooted(r), NEW x, NEW y, NEW m, Parted(p, r, x, y, m),
         Stuck(p, r, x, y)
  PROVE  ~Fits(p, r, Final(p))
<1>0. Len(p) \in Nat /\ Len(r) \in Nat /\ Count(p) \in Nat /\ Count(r) \in Nat
  BY FirstSlash, FirstOpens
<1>1. PICK l, N, M : l = Final(p) /\ N = Count(p) /\ M = Count(r)
  OBVIOUS
<1>2. /\ l \in 1 .. N /\ N \in Nat /\ M \in Nat
      /\ (l = N /\ ~Dropped(p)) \/ (l = N - 1 /\ Segments(p)[N] = <<>> /\ Named(Segments(p)[l]))
  BY <1>0, <1>1, FinalIs
<1> SUFFICES ASSUME Fits(p, r, l) PROVE FALSE
  BY <1>1
<1>3. /\ m \in Nat /\ m >= 1 /\ m <= N /\ m <= M /\ Named(Segments(p)[m]) /\ (m = N \/ m = M)
      /\ x = After(p, m) /\ y = After(r, m)
  BY <1>0, <1>1 DEF Parted
<1>4. CASE m = N
  <2>1. l = m
    BY <1>2, <1>3, <1>4, KindsApart
  <2>2. x = Len(p) + 1 /\ y <= Len(r)
    BY <1>0, <1>1, <1>3, <1>4 DEF After, Stuck
  <2>3. m < M /\ y = Opens(r, m + 1) /\ m + 1 \in 1 .. Count(r)
    BY <1>0, <1>1, <1>3, <2>2 DEF After
  <2>4. M = m + 1 /\ Segments(r)[m + 1] = <<>>
    BY <1>1, <1>2, <1>3, <2>1, <2>3, KindsApart DEF Fits
  <2>5. y > Len(r)
    BY <1>1, <2>3, <2>4, OpensEnd
  <2>6. y \in Nat
    <3>1. IsSegment(r, m + 1, y, Closes(r, m + 1), Segments(r)[m + 1])
      BY <2>3, SegmentIs
    <3> QED
      BY <3>1 DEF IsSegment
  <2> QED
    BY <1>0, <2>2, <2>5, <2>6
<1>5. CASE m # N
  <2>1. m = M /\ y = Len(r) + 1 /\ x = Opens(p, m + 1) /\ m + 1 \in 1 .. Count(p)
    BY <1>0, <1>1, <1>3, <1>5 DEF After
  <2>2. x <= Len(p)
    BY <1>0, <2>1 DEF Stuck
  <2>3. M >= l
    BY <1>1, <1>2 DEF Fits
  <2>4. N = m + 1 /\ l = N - 1 /\ Segments(p)[N] = <<>>
    BY <1>2, <1>3, <1>5, <2>1, <2>3
  <2>5. x > Len(p)
    BY <1>1, <2>1, <2>4, OpensEnd
  <2>6. x \in Nat
    <3>1. IsSegment(p, m + 1, x, Closes(p, m + 1), Segments(p)[m + 1])
      BY <2>1, SegmentIs
    <3> QED
      BY <3>1 DEF IsSegment
  <2> QED
    BY <1>0, <2>2, <2>5, <2>6
<1> QED
  BY <1>4, <1>5

LEMMA StuckFails ==
  ASSUME NEW p, Rooted(p), NEW r, Rooted(r), NEW x, NEW y, Progress(p, r, x, y),
         Stuck(p, r, x, y)
  PROVE  ~Matches(p, r)
<1>0. Len(p) \in Nat /\ Len(r) \in Nat /\ Len(p) >= 1 /\ Len(r) >= 1
  BY FirstSlash
<1> SUFFICES ~Fits(p, r, Final(p))
  BY MatchesIs
<1>1. ~(x = 1 /\ y = 1)
  BY <1>0 DEF Stuck, Rooted
<1>2. ASSUME NEW m PROVE ~Swallowed(p, r, x, y, m)
  BY <1>0 DEF Swallowed, Stuck
<1> QED
  BY <1>1, <1>2, StuckWithin, StuckParted DEF Progress

----------------------------------------------------------------------------
(* The search: no route passed over matches, unless memory failed.         *)

WellShapedRoutes == \A r \in AllRoutes : WellShaped(r.path)

Asking == \/ as = req.method
          \/ as = "GET" /\ req.method = "HEAD" /\ (~starved => Candidates("HEAD") = {})
PassedOver == ~starved => \A j \in 1 .. i - 1 : j \notin Candidates(as)
NoneThere  == as # "HEAD" /\ (~starved => Candidates(as) = {})

RInv ==
  /\ pc \in {"scan", "match", "found", "missed", "sent"} => Asking
  /\ pc \in {"scan", "match", "found"} => PassedOver
  /\ pc = "match" => /\ routes[i].method = as /\ Pattern[1] = "/" /\ req.path[1] = "/"
                     /\ Progress(Pattern, req.path, ppos, rpos)
  /\ pc = "found" => i \in Candidates(as)
  /\ pc = "missed" => NoneThere
  /\ pc = "sent" /\ answer = "handler" => i \in Candidates(as) /\ PassedOver
  /\ pc = "sent" /\ answer # "handler" => NoneThere

LEMMA RouteInit == Init => RInv
  BY DEF Init, RInv

LEMMA PathRooted ==
  /\ \A p \in Paths \union {<<"/">>} : p[1] = "/" => Rooted(p)
  /\ \A r \in AllRoutes : r.path[1] = "/" => Rooted(r.path)
<1>1. \A p \in Patterns \union StaticPrefixes \union Paths : p \in Seq(STRING) /\ p # <<>>
  BY RouterAssumption
<1>2. \A p \in Patterns \union StaticPrefixes \union Paths : IsList(p) /\ p # <<>>
  BY <1>1, ListIs
<1>3. IsList(<<"/">>) /\ <<"/">> # <<>>
  BY DEF IsList
<1>4. ASSUME NEW p \in StaticPrefixes PROVE IsList(StaticPath(p)) /\ StaticPath(p) # <<>>
  <2>1. PICK e, u : e = <<"/", "*">> /\ u = p \o e
    OBVIOUS
  <2>2. IsList(p) /\ IsList(e)
    BY <1>2, <2>1 DEF IsList
  <2>3. IsList(u)
    BY <2>1, <2>2, Concatenated
  <2>4. Len(u) # 0
    <3>1. Len(u) = Len(p) + Len(e)
      BY <2>1, <2>2, Concatenated
    <3>2. Len(p) \in Nat /\ Len(e) = 2
      BY <1>1, <2>1
    <3> QED
      BY <3>1, <3>2
  <2> QED
    BY <2>1, <2>3, <2>4 DEF StaticPath
<1>5. ASSUME NEW r \in AllRoutes PROVE IsList(r.path) /\ r.path # <<>>
  <2>1. (\E p \in Patterns : r.path = p) \/ (\E p \in StaticPrefixes : r.path = StaticPath(p))
    BY DEF AllRoutes, Route, StaticRoute
  <2> QED
    BY <1>2, <1>4, <2>1
<1> QED
  BY <1>2, <1>3, <1>5 DEF Rooted

LEMMA MatchFacts ==
  ASSUME TInv, RInv, WellShapedRoutes, pc = "match"
  PROVE  /\ Rooted(Pattern) /\ Rooted(req.path) /\ WellShaped(Pattern)
         /\ Len(Pattern) \in Nat /\ Len(req.path) \in Nat
         /\ ppos \in Nat /\ rpos \in Nat /\ i \in 1 .. Len(routes)
<1>1. i \in 1 .. Len(routes) /\ routes \in Seq(AllRoutes)
  BY TypeFacts DEF TInv, TypeOK
<1>2. routes[i] \in AllRoutes
  BY <1>1
<1>3. Rooted(Pattern) /\ Rooted(req.path)
  BY <1>2, PathRooted DEF RInv, Pattern, TInv
<1>4. WellShaped(Pattern)
  BY <1>2 DEF WellShapedRoutes, Pattern
<1>5. Len(Pattern) \in Nat /\ Len(req.path) \in Nat
  BY TypeFacts
<1> QED
  BY <1>1, <1>3, <1>4, <1>5 DEF TInv, TypeOK

LEMMA SameCandidates ==
  ASSUME routes' = routes, req' = req
  PROVE  \A m : Candidates(m)' = Candidates(m)
  BY DEF Candidates

(* Route i turns out not to match, or was not tried for want of memory.    *)
LEMMA PassRoute ==
  ASSUME PassedOver, Len(routes) \in Nat, i \in 1 .. Len(routes),
         routes' = routes, req' = req, as' = as, i' = i + 1,
         starved' = starved \/ starved' = TRUE, ~starved' => i \notin Candidates(as)
  PROVE  PassedOver'
<1> SUFFICES ASSUME ~starved' PROVE \A j \in 1 .. i' - 1 : j \notin Candidates(as)'
  BY DEF PassedOver
<1>1. ~starved /\ Candidates(as)' = Candidates(as)
  BY DEF Candidates
<1>2. \A j \in 1 .. i' - 1 : j \in 1 .. i - 1 \/ j = i
  OBVIOUS
<1> QED
  BY <1>1, <1>2 DEF PassedOver

LEMMA RouteSearch ==
  ASSUME RInv, TInv,
         \/ AddRoute \/ Static \/ RegisterFails \/ SetNotFound \/ Release
         \/ Request \/ Skip \/ HeadAsGet \/ NoRoute \/ Try \/ Dispatch
  PROVE  RInv'
<1>0. Len(routes) \in Nat /\ i \in 1 .. Len(routes) + 1
  BY TypeFacts DEF TInv, TypeOK
<1>1. CASE AddRoute \/ Static \/ RegisterFails \/ SetNotFound \/ Release
  <2>1. pc' \in {"config", "idle"}
    BY <1>1 DEF AddRoute, Static, RegisterFails, SetNotFound, Register, Release
  <2> QED
    BY <2>1 DEF RInv
<1>2. CASE Request
  <2>1. pc' = "scan" /\ i' = 1
    BY <1>2 DEF Request
  <2>2. as' = req'.method
    BY <1>2 DEF Request
  <2>3. PassedOver'
    BY <2>1 DEF PassedOver
  <2> QED
    BY <2>1, <2>2, <2>3 DEF RInv, Asking
<1>3. CASE Skip
  <2>1. pc = "scan" /\ pc' = "scan" /\ routes' = routes /\ req' = req /\ as' = as /\ i' = i + 1
        /\ starved' = starved /\ i <= Len(routes)
        /\ (routes[i].method # as \/ routes[i].path[1] # "/" \/ req.path[1] # "/")
    BY <1>3 DEF Skip, tableVars
  <2>2. i \notin Candidates(as)
    BY <2>1 DEF Candidates, Matches
  <2>3. PassedOver'
    <3>1. i \in 1 .. Len(routes) /\ PassedOver
      BY <1>0, <2>1 DEF RInv
    <3> QED
      BY <1>0, <2>1, <2>2, <3>1, PassRoute
  <2>4. Asking'
    BY <2>1, SameCandidates DEF RInv, Asking
  <2> QED
    BY <2>1, <2>3, <2>4 DEF RInv
<1>4. CASE HeadAsGet
  <2>1. pc = "scan" /\ pc' = "scan" /\ routes' = routes /\ req' = req /\ as = "HEAD" /\ as' = "GET"
        /\ i' = 1 /\ starved' = starved /\ i > Len(routes)
    BY <1>4 DEF HeadAsGet, tableVars
  <2>2. ~starved => Candidates("HEAD") = {}
    <3>1. \A j \in 1 .. Len(routes) : j \in 1 .. i - 1
      BY <1>0, <2>1
    <3>2. Candidates("HEAD") \subseteq 1 .. Len(routes)
      BY DEF Candidates
    <3> QED
      BY <2>1, <3>1, <3>2 DEF RInv, PassedOver
  <2>3. req.method = "HEAD"
    BY <2>1 DEF RInv, Asking
  <2>4. PassedOver'
    BY <2>1 DEF PassedOver
  <2>5. Asking'
    BY <2>1, <2>2, <2>3, SameCandidates DEF Asking
  <2> QED
    BY <2>1, <2>4, <2>5 DEF RInv
<1>5. CASE NoRoute
  <2>1. pc = "scan" /\ pc' = "missed" /\ routes' = routes /\ req' = req /\ as # "HEAD" /\ as' = as
        /\ starved' = starved /\ i > Len(routes)
    BY <1>5 DEF NoRoute, tableVars
  <2>2. ~starved => Candidates(as) = {}
    <3>1. \A j \in 1 .. Len(routes) : j \in 1 .. i - 1
      BY <1>0, <2>1
    <3>2. Candidates(as) \subseteq 1 .. Len(routes)
      BY DEF Candidates
    <3> QED
      BY <2>1, <3>1, <3>2 DEF RInv, PassedOver
  <2>3. Candidates(as)' = Candidates(as)
    BY <2>1 DEF Candidates
  <2>4. NoneThere'
    BY <2>1, <2>2, <2>3 DEF NoneThere
  <2>5. Asking'
    BY <2>1, SameCandidates DEF RInv, Asking
  <2> QED
    BY <2>1, <2>4, <2>5 DEF RInv
<1>6. CASE Try
  <2>1. pc = "scan" /\ pc' = "match" /\ routes' = routes /\ req' = req /\ as' = as /\ i' = i
        /\ starved' = starved /\ ppos' = 1 /\ rpos' = 1 /\ routes[i].method = as
        /\ routes[i].path[1] = "/" /\ req.path[1] = "/"
    BY <1>6 DEF Try, tableVars
  <2>2. Candidates(as)' = Candidates(as) /\ Pattern' = Pattern
    BY <2>1 DEF Candidates, Pattern
  <2>3. PassedOver'
    BY <2>1, <2>2 DEF RInv, PassedOver
  <2>4. Asking'
    BY <2>1, SameCandidates DEF RInv, Asking
  <2>5. Progress(Pattern, req.path, ppos, rpos)'
    BY <2>1 DEF Progress
  <2> QED
    BY <2>1, <2>2, <2>3, <2>4, <2>5 DEF RInv, Pattern
<1>7. CASE Dispatch
  <2>1. pc \in {"found", "missed"} /\ pc' = "sent" /\ routes' = routes /\ req' = req /\ as' = as
        /\ i' = i /\ starved' = starved /\ answer' = Answer(pc = "found")
    BY <1>7 DEF Dispatch, tableVars
  <2>2. Candidates(as)' = Candidates(as)
    BY <2>1 DEF Candidates
  <2>3. Asking'
    BY <2>1, SameCandidates DEF RInv, Asking
  <2>4. CASE pc = "found"
    <3>1. i \in Candidates(as) /\ PassedOver
      BY <2>4 DEF RInv
    <3>2. routes # <<>>
      <4>1. Len(routes) # 0
        BY <1>0, <3>1 DEF Candidates
      <4> QED
        BY <4>1
    <3>3. answer' = "handler"
      BY <2>1, <2>4, <3>2 DEF Answer
    <3>4. PassedOver'
      BY <2>1, <2>2, <3>1 DEF PassedOver
    <3> QED
      BY <2>1, <2>2, <2>3, <3>1, <3>3, <3>4 DEF RInv
  <2>5. CASE pc = "missed"
    <3>1. answer' # "handler"
      BY <2>1, <2>5 DEF Answer
    <3>2. NoneThere'
      BY <2>1, <2>2, <2>5 DEF RInv, NoneThere
    <3> QED
      BY <2>1, <2>3, <3>1, <3>2 DEF RInv
  <2> QED
    BY <2>1, <2>4, <2>5
<1> QED
  BY <1>1, <1>2, <1>3, <1>4, <1>5, <1>6, <1>7

LEMMA RouteMatch ==
  ASSUME RInv, TInv, WellShapedRoutes,
         Wildcard \/ Parameter \/ NoMemory \/ Literal \/ Matched \/ Mismatch
  PROVE  RInv'
<1>0. pc = "match" /\ Len(routes) \in Nat
  BY TypeFacts DEF Wildcard, Parameter, NoMemory, Literal, Matched, Mismatch, Looping, Ended
<1>1. /\ Rooted(Pattern) /\ Rooted(req.path) /\ WellShaped(Pattern)
      /\ Len(Pattern) \in Nat /\ Len(req.path) \in Nat
      /\ ppos \in Nat /\ rpos \in Nat /\ i \in 1 .. Len(routes)
  BY <1>0, MatchFacts
<1>2. routes' = routes /\ req' = req /\ as' = as
  BY DEF Wildcard, Parameter, NoMemory, Literal, Matched, Mismatch, tableVars
<1>3. /\ routes[i].method = as /\ Pattern[1] = "/" /\ req.path[1] = "/" /\ PassedOver /\ Asking
      /\ Progress(Pattern, req.path, ppos, rpos)
  BY <1>0 DEF RInv
<1>4. Candidates(as)' = Candidates(as)
  BY <1>2 DEF Candidates
<1>5. (starved' = starved \/ starved' = TRUE) => Asking'
  <2>1. Candidates("HEAD")' = Candidates("HEAD")
    BY <1>2 DEF Candidates
  <2>2. CASE as = req.method
    BY <1>2, <2>2 DEF Asking
  <2>3. CASE as # req.method
    <3>1. as' = "GET" /\ req'.method = "HEAD" /\ (~starved => Candidates("HEAD") = {})
      BY <1>2, <1>3, <2>3 DEF Asking
    <3>2. starved' = starved => (~starved' => Candidates("HEAD")' = {})
      BY <2>1, <3>1
    <3>3. starved' = TRUE => (~starved' => Candidates("HEAD")' = {})
      OBVIOUS
    <3> QED
      BY <3>1, <3>2, <3>3 DEF Asking
  <2> QED
    BY <2>2, <2>3
<1>6. CASE Wildcard \/ Parameter \/ Literal
  <2>1. pc' = "match" /\ i' = i /\ starved' = starved
    BY <1>0, <1>6 DEF Wildcard, Parameter, Literal
  <2>2. Pattern' = Pattern /\ ppos <= Len(Pattern) /\ rpos <= Len(req.path)
    BY <1>2, <1>6, <2>1 DEF Pattern, Wildcard, Parameter, Literal, Looping
  <2>3. Progress(Pattern, req.path, ppos', rpos')
    <3>1. CASE Wildcard
      <4>1. Pattern[ppos] = "*" /\ ppos' = ppos + 1 /\ rpos' = Len(req.path) + 1
        BY <3>1 DEF Wildcard
      <4> QED
        BY <1>1, <1>3, <2>2, <4>1, WildcardStep
    <3>2. CASE Parameter
      <4>1. Pattern[ppos] = ":" /\ ppos' = Beyond(Pattern, EndOf(Pattern, ppos + 1, {"/"}))
            /\ rpos' = Beyond(req.path, EndOf(req.path, rpos, {"/"}))
        BY <3>2 DEF Parameter
      <4> QED
        BY <1>1, <1>3, <2>2, <4>1, ParameterStep
    <3>3. CASE Literal
      <4>1. Pattern[ppos] \notin {":", "*"} /\ Pattern[ppos] = req.path[rpos]
            /\ ppos' = ppos + 1 /\ rpos' = rpos + 1
        BY <3>3 DEF Literal
      <4> QED
        BY <1>1, <1>3, <2>2, <4>1, LiteralStep
    <3> QED
      BY <1>6, <3>1, <3>2, <3>3
  <2>4. Progress(Pattern, req.path, ppos, rpos)'
    BY <1>2, <2>2, <2>3 DEF Progress, Within, Parted, Swallowed, Earlier, After, Count, Opens, Closes
  <2>5. PassedOver'
    BY <1>3, <1>4, <2>1 DEF PassedOver
  <2> QED
    BY <1>2, <1>3, <1>5, <2>1, <2>2, <2>4, <2>5 DEF RInv
<1>7. CASE NoMemory
  <2>1. pc' = "scan" /\ i' = i + 1 /\ starved' = TRUE
    BY <1>7 DEF NoMemory
  <2>2. PassedOver'
    BY <2>1 DEF PassedOver
  <2> QED
    BY <1>5, <2>1, <2>2 DEF RInv
<1>8. CASE Matched
  <2>1. pc' = "found" /\ i' = i /\ starved' = starved
        /\ ppos > Len(Pattern) /\ rpos > Len(req.path)
    BY <1>8 DEF Matched, Ended
  <2>2. Matches(Pattern, req.path)
    BY <1>1, <1>3, <2>1, EndedMatches
  <2>3. i \in Candidates(as)
    BY <1>1, <1>3, <2>2 DEF Candidates, Pattern
  <2>4. PassedOver'
    BY <1>3, <1>4, <2>1 DEF PassedOver
  <2> QED
    BY <1>4, <1>5, <2>1, <2>3, <2>4 DEF RInv
<1>9. CASE Mismatch
  <2>1. pc' = "scan" /\ i' = i + 1 /\ starved' = starved
    BY <1>9 DEF Mismatch
  <2>2. Stuck(Pattern, req.path, ppos, rpos)
    BY <1>0, <1>1, <1>9 DEF Mismatch, Ended, Looping, Stuck
  <2>3. ~Matches(Pattern, req.path)
    BY <1>1, <1>3, <2>2, StuckFails
  <2>4. i \notin Candidates(as)
    BY <2>3 DEF Candidates, Pattern
  <2>5. PassedOver'
    BY <1>0, <1>1, <1>2, <1>3, <2>1, <2>4, PassRoute
  <2> QED
    BY <1>5, <2>1, <2>5 DEF RInv
<1> QED
  BY <1>6, <1>7, <1>8, <1>9

(* What RInv says once the answer is sent.                                 *)
LEMMA RouteRight ==
  ASSUME RInv
  PROVE  RoutedRight
<1> SUFFICES ASSUME pc = "sent"
             PROVE  /\ answer = "handler" => i \in Candidates(as)
                    /\ ~starved => (answer = "handler" <=> Chosen # 0)
                    /\ ~starved /\ Chosen # 0 => i = Chosen
  BY DEF RoutedRight
<1>1. Asking /\ (answer = "handler" => i \in Candidates(as) /\ PassedOver)
      /\ (answer # "handler" => NoneThere)
  BY DEF RInv
<1> DEFINE S == IF Candidates(req.method) = {} /\ req.method = "HEAD"
                THEN Candidates("GET") ELSE Candidates(req.method)
<1>2. ASSUME ~starved PROVE S = Candidates(as)
  <2>1. CASE as = req.method
    <3>1. Candidates(as) = {} => as # "HEAD"
      BY <1>1, <1>2 DEF NoneThere
    <3> QED
      BY <2>1, <3>1
  <2>2. CASE as # req.method
    BY <1>1, <1>2, <2>2 DEF Asking
  <2> QED
    BY <2>1, <2>2
<1>3. Chosen = IF S = {} THEN 0 ELSE CHOOSE k \in S : \A j \in S : k <= j
  BY DEF Chosen
<1> HIDE DEF S
<1>4. ASSUME ~starved, answer = "handler" PROVE Chosen = i /\ i # 0
  <2>0. S \subseteq 1 .. Len(routes) /\ i \in S /\ \A j \in 1 .. i - 1 : j \notin S
    <3>1. Candidates(as) \subseteq 1 .. Len(routes)
      BY DEF Candidates
    <3> QED
      BY <1>1, <1>2, <1>4, <3>1 DEF PassedOver
  <2>1. i \in S /\ i \in Nat /\ i # 0 /\ S \subseteq Nat
    BY <2>0
  <2>2. \A j \in S : i <= j
    <3>1. \A j \in S : j \notin 1 .. i - 1 /\ j \in Nat /\ j >= 1
      BY <2>0
    <3> QED
      BY <2>1, <3>1
  <2>3. \A k \in S : (\A j \in S : k <= j) => k = i
    BY <2>1, <2>2
  <2>4. (CHOOSE k \in S : \A j \in S : k <= j) = i
    BY <2>1, <2>2, <2>3
  <2> QED
    BY <1>3, <2>1, <2>4
<1>5. ASSUME ~starved, answer # "handler" PROVE Chosen = 0
  BY <1>1, <1>2, <1>3, <1>5 DEF NoneThere
<1> QED
  BY <1>1, <1>4, <1>5

LEMMA RouteAlways == ASSUME WellShapedRoutes PROVE Spec => []RInv
<1>1. RInv /\ TInv /\ [Next]_vars => RInv'
  <2> SUFFICES ASSUME RInv, TInv, [Next]_vars PROVE RInv'
    OBVIOUS
  <2>1. CASE UNCHANGED vars
    <3>1. Progress(Pattern, req.path, ppos, rpos)' <=> Progress(Pattern, req.path, ppos, rpos)
      BY <2>1 DEF vars, Pattern, Progress, Within, Parted, Swallowed, Earlier, After, Count, Opens,
        Closes
    <3>2. \A m : Candidates(m)' = Candidates(m)
      BY <2>1, SameCandidates DEF vars
    <3>3. (Asking' <=> Asking) /\ (PassedOver' <=> PassedOver) /\ (NoneThere' <=> NoneThere)
      BY <2>1, <3>2 DEF vars, Asking, PassedOver, NoneThere, Candidates
    <3>4. Candidates(as)' = Candidates(as) /\ Pattern' = Pattern
      BY <2>1 DEF vars, Candidates, Pattern
    <3> QED
      BY <2>1, <3>1, <3>3, <3>4 DEF vars, RInv
  <2>2. CASE Next
    BY <2>2, RouteSearch, RouteMatch DEF Next
  <2> QED
    BY <2>1, <2>2
<1> QED
  BY RouteInit, TypeAlways, <1>1, PTL DEF Spec

(* mnet_find_route() and dispatch() hand every request to the first route  *)
(* that matches it segment by segment, a HEAD request to a GET route only  *)
(* if no HEAD route does, and none to a route that does not match; with    *)
(* any allocation failing, whatever is registered with ":" at the start of *)
(* a segment and "*" as the last one.                                      *)
THEOREM RoutedRightHolds == ASSUME WellShapedRoutes PROVE Spec => []RoutedRight
<1>1. RInv => RoutedRight
  BY RouteRight
<1> QED
  BY RouteAlways, <1>1, PTL

----------------------------------------------------------------------------
(* The names mnet_add_route() collects: one for each ":" and "*".  Names() *)
(* satisfies its equation since it only moves forward.                     *)

LabelEnd(p, k) == EndOf(p, k + 1, {"/", "."})
Label(p, k)    == IF LabelEnd(p, k) = k + 1 THEN Unnamed ELSE SubSeq(p, k + 1, LabelEnd(p, k) - 1)
NameAt(p, k)   == IF p[k] = "*" THEN <<"*">> ELSE Label(p, k)

NamesBy(p, g, k) ==
  IF k > Len(p) THEN <<>>
  ELSE IF p[k] = ":" THEN <<Label(p, k)>> \o g[LabelEnd(p, k)]
  ELSE IF p[k] = "*" THEN << <<"*">> >>
  ELSE g[k + 1]

Forward(p) == {kk \in Nat \X Nat : kk[1] > kk[2] /\ kk[2] <= Len(p)}

LEMMA ForwardWellFounded ==
  ASSUME NEW p, Len(p) \in Nat
  PROVE  IsWellFoundedOn(Forward(p), Nat)
<1> SUFFICES ASSUME NEW T \in SUBSET Nat, T # {}
             PROVE  \E x \in T : \A y \in T : ~(<<y, x>> \in Forward(p))
  BY MinWF
<1>1. CASE \E x \in T : x > Len(p)
  <2>1. PICK x \in T : x > Len(p)
    BY <1>1
  <2>2. ~(x <= Len(p))
    BY <2>1
  <2> QED
    BY <2>2 DEF Forward
<1>2. CASE \A x \in T : ~(x > Len(p))
  <2> DEFINE L == {Len(p) - x : x \in T}
  <2>1. \A x \in T : x \in Nat /\ Len(p) - x \in Nat
    BY <1>2
  <2>2. L \subseteq Nat /\ L # {}
    BY <2>1
  <2>3. PICK m \in L : \A y \in L : m <= y
    BY <2>2, Least
  <2>4. PICK x \in T : m = Len(p) - x
    BY <2>3
  <2>5. ASSUME NEW y \in T PROVE ~(y > x)
    <3>1. Len(p) - y \in L
      OBVIOUS
    <3>2. m <= Len(p) - y
      BY <2>3, <3>1
    <3> QED
      BY <2>1, <2>4, <3>2
  <2> QED
    BY <2>5 DEF Forward
<1> QED
  BY <1>1, <1>2

LEMMA LabelEndIs ==
  ASSUME NEW p, Len(p) \in Nat, NEW k \in Nat, k <= Len(p)
  PROVE  LabelEnd(p, k) \in Nat /\ LabelEnd(p, k) > k /\ LabelEnd(p, k) <= Len(p) + 1
<1>1. PICK j, S : j = k + 1 /\ S = {"/", "."}
  OBVIOUS
<1>2. j \in 1 .. Len(p) + 1
  BY <1>1
<1>3. EndOf(p, j, S) \in j .. Len(p) + 1
  BY <1>2, EndOfIs
<1>4. EndOf(p, j, S) = LabelEnd(p, k)
  BY <1>1 DEF LabelEnd
<1> QED
  BY <1>1, <1>2, <1>3, <1>4

LEMMA NamesIs ==
  ASSUME NEW p, Len(p) \in Nat, NEW k \in Nat
  PROVE  Names(p)[k] = NamesBy(p, Names(p), k)
<1>1. OpDefinesFcn(Names(p), Nat, LAMBDA g, x : NamesBy(p, g, x))
  BY Zenon DEF OpDefinesFcn, Names, NamesBy, Label, LabelEnd
<1>2. WFDefOn(Forward(p), Nat, LAMBDA g, x : NamesBy(p, g, x))
  <2> SUFFICES ASSUME NEW g, NEW h, NEW x \in Nat,
                      \A y \in SetLessThan(x, Forward(p), Nat) : g[y] = h[y]
               PROVE  NamesBy(p, g, x) = NamesBy(p, h, x)
    BY Zenon DEF WFDefOn
  <2>1. ASSUME NEW y \in Nat, y > x, x <= Len(p) PROVE g[y] = h[y]
    BY <2>1 DEF SetLessThan, Forward
  <2>2. CASE x <= Len(p)
    <3>1. LabelEnd(p, x) \in Nat /\ LabelEnd(p, x) > x /\ x + 1 \in Nat /\ x + 1 > x
      BY <2>2, LabelEndIs
    <3>2. g[LabelEnd(p, x)] = h[LabelEnd(p, x)] /\ g[x + 1] = h[x + 1]
      BY <2>1, <2>2, <3>1
    <3> QED
      BY <3>2, Zenon DEF NamesBy
  <2>3. CASE x > Len(p)
    BY <2>3, Zenon DEF NamesBy
  <2> QED
    BY <2>2, <2>3
<1> HIDE DEF NamesBy
<1>3. IsWellFoundedOn(Forward(p), Nat)
  BY ForwardWellFounded
<1>4. WFInductiveDefines(Names(p), Nat, LAMBDA g, x : NamesBy(p, g, x))
  BY <1>1, <1>2, <1>3, WFInductiveDef, Zenon
<1> QED
  BY <1>4, Zenon DEF WFInductiveDefines

Marks(p, k)      == p[k] \in {":", "*"}
Between(p, x, q) == {j \in x .. q - 1 : Marks(p, j)}

(* Collecting from x on, the name of the mark at q comes after those of    *)
(* the marks before it.                                                    *)
LinedUp(p, x) ==
  /\ IsList(Names(p)[x])
  /\ \A q \in x .. Len(p) : Marks(p, q) =>
       /\ Cardinality(Between(p, x, q)) + 1 \in 1 .. Len(Names(p)[x])
       /\ Names(p)[x][Cardinality(Between(p, x, q)) + 1] = NameAt(p, q)

LEMMA BetweenNat ==
  ASSUME NEW p, NEW x \in Nat, NEW q \in Nat
  PROVE  IsFiniteSet(Between(p, x, q)) /\ Cardinality(Between(p, x, q)) \in Nat
<1>1. IsFiniteSet(x .. q - 1)
  BY FS_Interval
<1>2. Between(p, x, q) \subseteq x .. q - 1
  BY DEF Between
<1> QED
  BY <1>1, <1>2, FS_Subset, FS_CardinalityType

(* The parameter's own name holds no mark.                                 *)
LEMMA NoMarkInLabel ==
  ASSUME NEW p, Len(p) \in Nat, WellShaped(p), NEW x \in 1 .. Len(p), p[x] = ":",
         NEW j \in x + 1 .. LabelEnd(p, x) - 1
  PROVE  ~Marks(p, j)
<1>1. PICK k, S : k = x + 1 /\ S = {"/", "."}
  OBVIOUS
<1>2. k \in 1 .. Len(p) + 1
  BY <1>1
<1>3. /\ EndOf(p, k, S) \in k .. Len(p) + 1
      /\ \A m \in k .. EndOf(p, k, S) - 1 : p[m] \notin S
  BY <1>2, EndOfIs
<1>4. EndOf(p, k, S) = LabelEnd(p, x)
  BY <1>1 DEF LabelEnd
<1>5. /\ LabelEnd(p, x) \in k .. Len(p) + 1
      /\ \A m \in k .. LabelEnd(p, x) - 1 : p[m] # "/"
  BY <1>1, <1>3, <1>4
<1>6. j \in 1 .. Len(p) /\ (j - 1 = x \/ j - 1 \in k .. LabelEnd(p, x) - 1)
  BY <1>1, <1>5
<1>7. p[j - 1] # "/"
  BY <1>5, <1>6
<1> QED
  BY <1>6, <1>7 DEF WellShaped, Marks

LEMMA LinedUpHere ==
  ASSUME NEW p, Len(p) \in Nat, WellShaped(p), NEW x \in 1 .. Len(p),
         \A y \in x + 1 .. Len(p) + 1 : LinedUp(p, y)
  PROVE  LinedUp(p, x)
<1>0. x \in Nat
  OBVIOUS
<1>1. Names(p)[x] = NamesBy(p, Names(p), x) /\ ~(x > Len(p))
  BY <1>0, NamesIs
<1>2. CASE p[x] = ":"
  <2>1. PICK e : e = LabelEnd(p, x)
    OBVIOUS
  <2>2. e \in x + 1 .. Len(p) + 1
    BY <1>0, <2>1, LabelEndIs
  <2>3. PICK g, a, u : g = Names(p)[e] /\ a = <<Label(p, x)>> /\ u = Names(p)[x]
    OBVIOUS
  <2>4. u = a \o g
    BY <1>1, <1>2, <2>1, <2>3 DEF NamesBy
  <2>5. LinedUp(p, e)
    BY <2>2
  <2>6. IsList(g) /\ IsList(a)
    BY <2>3, <2>5 DEF LinedUp, IsList
  <2>6a. Len(a) = 1 /\ a[1] = Label(p, x)
    BY <2>3
  <2>7. IsList(u)
    BY <2>4, <2>6, Concatenated
  <2>8. Len(u) = 1 + Len(g)
    <3>1. Len(u) = Len(a) + Len(g)
      BY <2>4, <2>6, Concatenated
    <3> QED
      BY <2>6a, <3>1
  <2>9. u[1] = Label(p, x)
    <3>1. \A z \in 1 .. Len(a) : u[z] = a[z]
      BY <2>4, <2>6, Concatenated
    <3> QED
      BY <2>6a, <3>1
  <2>10. \A z \in 1 .. Len(g) : u[1 + z] = g[z]
    <3>1. \A z \in 1 .. Len(g) : u[Len(a) + z] = g[z]
      BY <2>4, <2>6, Concatenated
    <3> QED
      BY <2>6a, <3>1
  <2>11. Len(g) \in Nat
    BY <2>6 DEF IsList
  <2>12. ASSUME NEW q \in x .. Len(p), Marks(p, q)
         PROVE  /\ Cardinality(Between(p, x, q)) + 1 \in 1 .. Len(u)
                /\ u[Cardinality(Between(p, x, q)) + 1] = NameAt(p, q)
    <3>1. CASE q = x
      <4>1. Between(p, x, q) = {}
        BY <3>1 DEF Between
      <4>2. Cardinality(Between(p, x, q)) = 0
        BY <4>1, FS_EmptySet
      <4>3. NameAt(p, q) = Label(p, x)
        BY <1>2, <3>1 DEF NameAt
      <4> QED
        BY <2>8, <2>9, <2>11, <4>2, <4>3
    <3>2. CASE q # x
      <4>1. q \in e .. Len(p)
        <5>1. q \notin x + 1 .. e - 1
          BY <1>2, <2>1, <2>12, NoMarkInLabel
        <5> QED
          BY <2>2, <2>12, <3>2, <5>1
      <4>2. PICK c : c = Cardinality(Between(p, e, q))
        OBVIOUS
      <4>3. c + 1 \in 1 .. Len(g) /\ g[c + 1] = NameAt(p, q)
        BY <2>3, <2>5, <2>12, <4>1, <4>2 DEF LinedUp
      <4>4. Between(p, x, q) = Between(p, e, q) \union {x} /\ x \notin Between(p, e, q)
        <5>1. \A j \in x .. q - 1 : j = x \/ j \in x + 1 .. e - 1 \/ j \in e .. q - 1
          BY <2>2, <4>1
        <5>2. \A j \in x + 1 .. e - 1 : ~Marks(p, j)
          BY <1>2, <2>1, NoMarkInLabel
        <5>3. x \in x .. q - 1 /\ x \notin e .. q - 1 /\ e .. q - 1 \subseteq x .. q - 1
          BY <2>2, <4>1
        <5>4. Marks(p, x)
          BY <1>2 DEF Marks
        <5> QED
          BY <5>1, <5>2, <5>3, <5>4 DEF Between
      <4>5. e \in Nat /\ q \in Nat
        BY <2>2, <4>1
      <4>6. IsFiniteSet(Between(p, e, q)) /\ c \in Nat
        BY <4>2, <4>5, BetweenNat
      <4>7. Cardinality(Between(p, x, q)) = c + 1
        BY <4>2, <4>4, <4>6, FS_AddElement
      <4>8. PICK z : z = c + 1
        OBVIOUS
      <4>9. z \in 1 .. Len(g) /\ g[z] = NameAt(p, q) /\ Cardinality(Between(p, x, q)) = z
        BY <4>3, <4>7, <4>8
      <4>10. u[1 + z] = NameAt(p, q) /\ z + 1 = 1 + z /\ z + 1 \in 1 .. Len(u)
        BY <2>8, <2>10, <2>11, <4>9
      <4> QED
        BY <4>9, <4>10
    <3> QED
      BY <3>1, <3>2
  <2> QED
    BY <2>3, <2>7, <2>12 DEF LinedUp
<1>3. CASE p[x] = "*"
  <2>1. x = Len(p)
    BY <1>3 DEF WellShaped
  <2>2. Names(p)[x] = << <<"*">> >>
    BY <1>1, <1>3 DEF NamesBy
  <2>3. IsList(Names(p)[x]) /\ Len(Names(p)[x]) = 1 /\ Names(p)[x][1] = <<"*">>
    BY <2>2 DEF IsList
  <2>4. ASSUME NEW q \in x .. Len(p)
        PROVE  q = x /\ Cardinality(Between(p, x, q)) = 0 /\ NameAt(p, q) = <<"*">>
    <3>1. q = x
      BY <2>1
    <3>2. Between(p, x, q) = {}
      BY <3>1 DEF Between
    <3> QED
      BY <1>3, <3>1, <3>2, FS_EmptySet DEF NameAt
  <2> QED
    BY <2>3, <2>4 DEF LinedUp
<1>4. CASE p[x] \notin {":", "*"}
  <2>1. PICK y : y = x + 1
    OBVIOUS
  <2>2. y \in x + 1 .. Len(p) + 1 /\ LinedUp(p, y)
    BY <2>1
  <2>3. Names(p)[x] = Names(p)[y]
    BY <1>1, <1>4, <2>1 DEF NamesBy
  <2>4. ASSUME NEW q \in x .. Len(p), Marks(p, q)
        PROVE  q \in y .. Len(p) /\ Between(p, x, q) = Between(p, y, q)
    <3>1. q # x
      BY <1>4, <2>4 DEF Marks
    <3>2. q \in y .. Len(p) /\ y .. q - 1 \subseteq x .. q - 1
          /\ \A j \in x .. q - 1 : j = x \/ j \in y .. q - 1
      BY <2>1, <2>4, <3>1
    <3> QED
      BY <1>4, <3>2 DEF Between, Marks
  <2> QED
    BY <2>2, <2>3, <2>4 DEF LinedUp
<1> QED
  BY <1>2, <1>3, <1>4

LEMMA NamesLineUp ==
  ASSUME NEW p, Len(p) \in Nat, WellShaped(p)
  PROVE  \A x \in 1 .. Len(p) + 1 : LinedUp(p, x)
<1> DEFINE T == {z \in 0 .. Len(p) : ~LinedUp(p, Len(p) + 1 - z)}
<1>1. T = {}
  <2>1. SUFFICES ASSUME T # {} PROVE FALSE
    OBVIOUS
  <2>2. T \subseteq Nat
    OBVIOUS
  <2>3. PICK z \in T : \A y \in T : z <= y
    BY <2>1, <2>2, Least
  <2>4. PICK x : x = Len(p) + 1 - z
    OBVIOUS
  <2>5. x \in 1 .. Len(p) + 1 /\ ~LinedUp(p, x)
    BY <2>3, <2>4
  <2>6. \A y \in x + 1 .. Len(p) + 1 : LinedUp(p, y)
    <3>1. SUFFICES ASSUME NEW y \in x + 1 .. Len(p) + 1, ~LinedUp(p, y) PROVE FALSE
      OBVIOUS
    <3>2. PICK w : w = Len(p) + 1 - y
      OBVIOUS
    <3>3. w \in 0 .. Len(p) /\ Len(p) + 1 - w = y /\ ~(z <= w)
      BY <2>3, <2>4, <2>5, <3>1, <3>2
    <3>4. w \in T
      BY <3>1, <3>3
    <3> QED
      BY <2>3, <3>3, <3>4
  <2>7. x \notin 1 .. Len(p)
    BY <2>5, <2>6, LinedUpHere
  <2>8. x \in Nat /\ x > Len(p)
    BY <2>5, <2>7
  <2>9. Names(p)[x] = <<>>
    BY <2>8, NamesIs DEF NamesBy
  <2>10. x .. Len(p) = {}
    BY <2>8
  <2>11. LinedUp(p, x)
    BY <2>9, <2>10 DEF LinedUp, IsList
  <2> QED
    BY <2>5, <2>11
<1> HIDE DEF T
<1>2. \A x \in 1 .. Len(p) + 1 : Len(p) + 1 - x \in 0 .. Len(p)
                                 /\ Len(p) + 1 - (Len(p) + 1 - x) = x
  OBVIOUS
<1> QED
  BY <1>1, <1>2 DEF T

----------------------------------------------------------------------------
(* The values mnet_route_match() stores: one slot for each mark it has     *)
(* passed, holding what the path has in that segment.                      *)

Held(p, r, c, s, x) ==
  /\ c = Cardinality(Captures(p, x))
  /\ \A k \in 1 .. Count(p) :
       Opens(p, k) < x /\ Marks(p, Opens(p, k)) =>
         s[Cardinality(Captures(p, Opens(p, k))) + 1].v = Captured(p, r, k)

LEMMA HeldFirst ==
  ASSUME NEW p, Rooted(p), NEW r, NEW s
  PROVE  Held(p, r, 0, s, 1)
<1>1. Captures(p, 1) = {}
  BY DEF Captures
<1>2. Cardinality(Captures(p, 1)) = 0
  BY <1>1, FS_EmptySet
<1>3. ASSUME NEW k \in 1 .. Count(p) PROVE ~(Opens(p, k) < 1)
  <2>1. IsSegment(p, k, Opens(p, k), Closes(p, k), Segments(p)[k])
    BY SegmentIs
  <2>2. Opens(p, k) \in Nat /\ Opens(p, k) >= 2
    BY <2>1 DEF IsSegment
  <2> QED
    BY <2>2
<1> QED
  BY <1>2, <1>3 DEF Held

LEMMA OpensNat ==
  ASSUME NEW p, Rooted(p), NEW k \in 1 .. Count(p)
  PROVE  Len(p) \in Nat /\ Opens(p, k) \in Nat /\ Opens(p, k) >= 2
<1>1. IsSegment(p, k, Opens(p, k), Closes(p, k), Segments(p)[k])
  BY SegmentIs
<1> QED
  BY <1>1 DEF IsSegment

LEMMA HeldLiteral ==
  ASSUME NEW p, Rooted(p), NEW r, NEW c, NEW s, NEW x \in Nat, x >= 1, Held(p, r, c, s, x),
         ~Marks(p, x)
  PROVE  Held(p, r, c, s, x + 1)
<1>1. \A j \in 1 .. x + 1 - 1 : j \in 1 .. x - 1 \/ j = x
  OBVIOUS
<1>2. 1 .. x - 1 \subseteq 1 .. x + 1 - 1
  OBVIOUS
<1>3. Captures(p, x + 1) = Captures(p, x)
  BY <1>1, <1>2 DEF Captures, Marks
<1>4. ASSUME NEW k \in 1 .. Count(p), Opens(p, k) < x + 1, Marks(p, Opens(p, k))
      PROVE  Opens(p, k) < x
  <2>1. Opens(p, k) # x /\ Opens(p, k) \in Nat
    BY <1>4, OpensNat
  <2> QED
    BY <1>4, <2>1
<1> QED
  BY <1>3, <1>4 DEF Held

LEMMA OpensOnce ==
  ASSUME NEW p, Rooted(p), NEW k \in 1 .. Count(p), NEW m \in 1 .. Count(p),
         Opens(p, k) = Opens(p, m)
  PROVE  k = m
<1>1. Slash(p, k) \in Slashes(p) /\ Rank(p, Slash(p, k)) = k
  BY SlashIs
<1>2. Slash(p, m) \in Slashes(p) /\ Rank(p, Slash(p, m)) = m
  BY SlashIs
<1>3. Slash(p, k) \in Nat /\ Slash(p, m) \in Nat
  BY <1>1, <1>2, FirstSlash DEF Slashes
<1>4. Slash(p, k) = Slash(p, m)
  BY <1>3 DEF Opens
<1> QED
  BY <1>1, <1>2, <1>4

LEMMA HeldMark ==
  ASSUME NEW p, Rooted(p), NEW r, NEW c \in Nat, NEW s, NEW x \in Nat, Held(p, r, c, s, x),
         NEW m \in 1 .. Count(p), x = Opens(p, m), Marks(p, x),
         NEW z \in Nat, x < z, \A j \in x + 1 .. z - 1 : ~Marks(p, j),
         NEW t, \A j \in 1 .. c : t[j] = s[j], t[c + 1].v = Captured(p, r, m)
  PROVE  Held(p, r, c + 1, t, z)
<1>0. x >= 2
  BY OpensNat
<1>1. Captures(p, z) = Captures(p, x) \union {x} /\ x \notin Captures(p, x)
  <2>1. \A j \in 1 .. z - 1 : j \in 1 .. x - 1 \/ j = x \/ j \in x + 1 .. z - 1
    OBVIOUS
  <2>2. 1 .. x - 1 \subseteq 1 .. z - 1 /\ x \in 1 .. z - 1 /\ x \notin 1 .. x - 1
    BY <1>0
  <2> QED
    BY <2>1, <2>2 DEF Captures, Marks
<1>2. IsFiniteSet(Captures(p, x)) /\ c = Cardinality(Captures(p, x))
  BY CapturesFinite DEF Held
<1>3. Cardinality(Captures(p, z)) = c + 1
  <2>1. PICK K : K = Captures(p, x)
    OBVIOUS
  <2>2. Cardinality(K \union {x}) = Cardinality(K) + 1
    BY <1>1, <1>2, <2>1, FS_AddElement
  <2> QED
    BY <1>1, <1>2, <2>1, <2>2
<1>4. ASSUME NEW k \in 1 .. Count(p), Opens(p, k) < z, Marks(p, Opens(p, k))
      PROVE  t[Cardinality(Captures(p, Opens(p, k))) + 1].v = Captured(p, r, k)
  <2>1. PICK a : a = Opens(p, k)
    OBVIOUS
  <2>2. a \in Nat /\ a >= 2 /\ a < z /\ Marks(p, a)
    BY <1>4, <2>1, OpensNat
  <2>3. a <= x
    BY <2>2
  <2>4. CASE a = x
    <3>1. k = m
      BY <2>1, <2>4, OpensOnce
    <3> QED
      BY <1>2, <2>1, <2>4, <3>1
  <2>5. CASE a < x
    <3>1. PICK d : d = Cardinality(Captures(p, a))
      OBVIOUS
    <3>2. d \in Nat
      BY <2>2, <3>1, CapturesFinite
    <3>3. d + 1 <= c
      BY <1>2, <2>2, <2>5, <3>1, CapturesCount DEF Marks
    <3>4. s[d + 1].v = Captured(p, r, k)
      BY <1>4, <2>1, <2>5, <3>1 DEF Held
    <3>5. d + 1 \in 1 .. c
      BY <3>2, <3>3
    <3>6. t[d + 1] = s[d + 1]
      BY <3>5
    <3> QED
      BY <2>1, <3>1, <3>4, <3>6
  <2> QED
    BY <2>2, <2>3, <2>4, <2>5
<1> QED
  BY <1>3, <1>4 DEF Held

(* What the two kinds of mark store is what the route promises, and the    *)
(* matcher leaves the segment.                                             *)
LEMMA WildcardValue ==
  ASSUME NEW p, Rooted(p), WellShaped(p), NEW r, Rooted(r), NEW x, NEW y, Progress(p, r, x, y),
         x <= Len(p), y <= Len(r), p[x] = "*"
  PROVE  \E m \in 1 .. Count(p) :
           x = Opens(p, m) /\ SubSeq(r, y, Len(r)) = Captured(p, r, m)
<1>0. Len(p) \in Nat /\ Count(p) \in Nat
  BY FirstSlash, FirstOpens
<1>1. PICK m : /\ m \in 1 .. Count(p) /\ m \in 1 .. Count(r) /\ Earlier(p, r, m)
               /\ x = Opens(p, m) /\ y = Opens(r, m) /\ x < Closes(p, m)
  BY CaptureAt
<1>2. PICK b, s : b = Closes(p, m) /\ s = Segments(p)[m]
  OBVIOUS
<1>3. IsSegment(p, m, x, b, s)
  BY <1>1, <1>2, SegmentIs
<1>4. x \in 1 .. Len(p) /\ b \in x .. Len(p) + 1 /\ x < b
  <2>1. x \in 2 .. Len(p) + 1 /\ b \in x .. Len(p) + 1
    BY <1>3 DEF IsSegment
  <2>2. x < b
    BY <1>1, <1>2
  <2> QED
    BY <1>0, <2>1, <2>2
<1>5. x = Len(p)
  BY <1>4 DEF WellShaped
<1>6. b = x + 1
  BY <1>0, <1>4, <1>5
<1>7. Rest(s)
  BY <1>3, <1>6, SegmentKind
<1>8. Captured(p, r, m) = SubSeq(r, y, Len(r))
  BY <1>1, <1>2, <1>7, Zenon DEF Captured, Opens
<1> QED
  BY <1>1, <1>8

LEMMA ParameterValue ==
  ASSUME NEW p, Rooted(p), WellShaped(p), NEW r, Rooted(r), NEW x, NEW y, Progress(p, r, x, y),
         x <= Len(p), y <= Len(r), p[x] = ":",
         NEW e, e = EndOf(r, y, {"/"}), NEW z, z = Beyond(p, EndOf(p, x + 1, {"/"}))
  PROVE  /\ z \in Nat /\ x < z /\ \A j \in x + 1 .. z - 1 : ~Marks(p, j)
         /\ \E m \in 1 .. Count(p) :
              x = Opens(p, m) /\ Decode(SubSeq(r, y, e - 1)) = Captured(p, r, m)
<1>0. Len(p) \in Nat /\ Len(r) \in Nat /\ Count(p) \in Nat /\ Count(r) \in Nat
  BY FirstSlash, FirstOpens
<1>1. PICK m : /\ m \in 1 .. Count(p) /\ m \in 1 .. Count(r) /\ Earlier(p, r, m)
               /\ x = Opens(p, m) /\ y = Opens(r, m) /\ x < Closes(p, m)
  BY CaptureAt
<1>2. PICK b, s : b = Closes(p, m) /\ s = Segments(p)[m]
  OBVIOUS
<1>3. IsSegment(p, m, x, b, s)
  BY <1>1, <1>2, SegmentIs
<1>4. Named(s)
  BY <1>1, <1>2, <1>3, SegmentKind
<1>5. /\ x \in 1 .. Len(p) /\ b \in x .. Len(p) + 1 /\ x < b
      /\ \A j \in x .. b - 1 : p[j] # "/"
  <2>1. x \in 2 .. Len(p) + 1 /\ b \in x .. Len(p) + 1
    BY <1>3 DEF IsSegment
  <2>2. \A j \in x .. b - 1 : p[j] # "/"
    BY <1>3 DEF IsSegment
  <2>3. x < b
    BY <1>1, <1>2
  <2> QED
    BY <1>0, <2>1, <2>2, <2>3
<1>6. EndOf(p, x + 1, {"/"}) = b
  <2>1. PICK S : S = {"/"}
    OBVIOUS
  <2>2. p[x] \notin S
    BY <2>1
  <2>3. EndOf(p, x + 1, S) = EndOf(p, x, S)
    BY <1>0, <1>5, <2>2, EndOfNext
  <2> QED
    BY <1>1, <1>2, <2>1, <2>3 DEF Closes
<1>7. z = b \/ (z = b + 1 /\ p[b] = "/")
  BY <1>6 DEF Beyond
<1>8. z \in Nat /\ x < z
  BY <1>0, <1>5, <1>7
<1>9. ASSUME NEW j \in x + 1 .. z - 1 PROVE ~Marks(p, j)
  <2>1. CASE j = b
    <3>1. p[b] = "/"
      BY <1>5, <1>7, <1>9, <2>1
    <3> QED
      BY <2>1, <3>1 DEF Marks
  <2>2. CASE j # b
    <3>1. j - 1 \in x .. b - 1 /\ j \in 1 .. Len(p)
      BY <1>0, <1>5, <1>7, <1>9, <2>2
    <3>2. p[j - 1] # "/"
      BY <1>5, <3>1
    <3> QED
      BY <3>1, <3>2 DEF WellShaped, Marks
  <2> QED
    BY <2>1, <2>2
<1>10. Decode(SubSeq(r, y, e - 1)) = Captured(p, r, m)
  <2>1. ~Rest(s)
    BY <1>4, KindsApart
  <2>2. Segments(r)[m] = SubSeq(r, y, e - 1)
    BY <1>1 DEF Segments, Opens, Count
  <2> QED
    BY <1>2, <2>1, <2>2, Zenon DEF Captured
<1> QED
  BY <1>1, <1>8, <1>9, <1>10

VInv ==
  /\ pc = "match" => Held(Pattern, req.path, n, slots, ppos)
  /\ pc = "found" \/ (pc = "sent" /\ answer = "handler") =>
       Held(Pattern, req.path, n, slots, Len(Pattern) + 1)

LEMMA ValueInit == Init => VInv
  BY DEF Init, VInv

LEMMA HeldSame ==
  ASSUME routes' = routes, i' = i, req' = req, n' = n, slots' = slots
  PROVE  /\ Pattern' = Pattern /\ req.path' = req.path
         /\ \A x : Held(Pattern, req.path, n, slots, x)' <=> Held(Pattern, req.path, n, slots, x)
  BY DEF Pattern, Held, Count, Opens

LEMMA ValueSearch ==
  ASSUME VInv, RInv, TInv,
         \/ AddRoute \/ Static \/ RegisterFails \/ SetNotFound \/ Release
         \/ Request \/ Skip \/ HeadAsGet \/ NoRoute \/ Try \/ Dispatch
  PROVE  VInv'
<1>1. CASE \/ AddRoute \/ Static \/ RegisterFails \/ SetNotFound \/ Release
           \/ Request \/ Skip \/ HeadAsGet \/ NoRoute
  <2>1. pc' \in {"config", "idle", "scan", "missed"}
    BY <1>1 DEF AddRoute, Static, RegisterFails, SetNotFound, Register, Release, Request, Skip,
      HeadAsGet, NoRoute
  <2> QED
    BY <2>1 DEF VInv
<1>2. CASE Try
  <2>1. pc' = "match" /\ n' = 0 /\ ppos' = 1 /\ routes' = routes /\ i' = i /\ i <= Len(routes)
        /\ routes[i].path[1] = "/"
    BY <1>2 DEF Try, tableVars
  <2>2. i \in 1 .. Len(routes) /\ routes \in Seq(AllRoutes)
    BY <2>1, TypeFacts DEF TInv, TypeOK
  <2>3. routes[i] \in AllRoutes
    BY <2>2
  <2>4. Rooted(Pattern) /\ Pattern' = Pattern
    BY <2>1, <2>3, PathRooted DEF Pattern
  <2>5. Held(Pattern, req'.path, 0, slots', 1)
    BY <2>4, HeldFirst
  <2>6. Held(Pattern, req.path, n, slots, ppos)'
    BY <2>1, <2>4, <2>5 DEF Held, Count, Opens
  <2> QED
    BY <2>1, <2>6 DEF VInv
<1>3. CASE Dispatch
  <2>1. pc \in {"found", "missed"} /\ pc' = "sent" /\ routes' = routes /\ req' = req
        /\ i' = i /\ n' = n /\ slots' = slots /\ answer' = Answer(pc = "found")
    BY <1>3 DEF Dispatch, tableVars, matchVars, heapVars
  <2>2. pc = "missed" => answer' # "handler"
    BY <2>1 DEF Answer
  <2>3. Pattern' = Pattern /\ \A x : Held(Pattern, req.path, n, slots, x)' <=> Held(Pattern, req.path, n, slots, x)
    BY <2>1, HeldSame
  <2> QED
    BY <2>1, <2>2, <2>3 DEF VInv
<1> QED
  BY <1>1, <1>2, <1>3

(* A pattern of at most MNET_MAX_PARAMS parameters has a slot for each.    *)
LEMMA RoomForMark ==
  ASSUME TInv, FewParams, pc = "match", ppos <= Len(Pattern), Marks(Pattern, ppos),
         n = Cardinality(Captures(Pattern, ppos))
  PROVE  n \in Nat /\ n < MaxParams
<1>1. i \in 1 .. Len(routes) /\ routes \in Seq(AllRoutes) /\ Len(Pattern) \in Nat
      /\ ppos \in Nat \ {0} /\ n \in Nat
  BY TypeFacts DEF TInv, TypeOK
<1>2. routes[i] \in AllRoutes
  BY <1>1
<1>3. PICK l : l = Len(Pattern) + 1
  OBVIOUS
<1>4. l \in Nat /\ ppos < l
  BY <1>1, <1>3
<1>5. Cardinality(Captures(Pattern, ppos)) + 1 <= Cardinality(Captures(Pattern, l))
  BY <1>1, <1>4, CapturesCount DEF Marks
<1>6. Cardinality(Captures(Pattern, l)) <= MaxParams
  BY <1>2, <1>3 DEF FewParams, Pattern
<1>7. Cardinality(Captures(Pattern, l)) \in Nat
  BY <1>4, CapturesFinite
<1> QED
  BY <1>1, <1>5, <1>6, <1>7, RouterAssumption

LEMMA ValueMatch ==
  ASSUME VInv, RInv, TInv, WellShapedRoutes, FewParams,
         Wildcard \/ Parameter \/ NoMemory \/ Literal \/ Matched \/ Mismatch
  PROVE  VInv'
<1>0. pc = "match" /\ Len(routes) \in Nat
  BY TypeFacts DEF Wildcard, Parameter, NoMemory, Literal, Matched, Mismatch, Looping, Ended
<1>1. /\ Rooted(Pattern) /\ Rooted(req.path) /\ WellShaped(Pattern)
      /\ Len(Pattern) \in Nat /\ Len(req.path) \in Nat
      /\ ppos \in Nat /\ rpos \in Nat /\ i \in 1 .. Len(routes)
  BY <1>0, MatchFacts
<1>2. /\ ppos \in 1 .. Len(Pattern) + 1 /\ DOMAIN slots = 1 .. MaxParams
      /\ Progress(Pattern, req.path, ppos, rpos)
      /\ Held(Pattern, req.path, n, slots, ppos)
  BY <1>0, <1>1 DEF TInv, TypeOK, RInv, VInv
<1>3. routes' = routes /\ req' = req
  BY DEF Wildcard, Parameter, NoMemory, Literal, Matched, Mismatch, tableVars
<1>4. CASE Wildcard \/ Parameter
  <2>1. /\ pc' = "match" /\ i' = i /\ ppos <= Len(Pattern) /\ rpos <= Len(req.path)
        /\ Marks(Pattern, ppos)
    BY <1>0, <1>4 DEF Wildcard, Parameter, Looping, Marks
  <2>2. n \in Nat /\ n < MaxParams
    BY <1>0, <1>2, <2>1, RoomForMark DEF Held
  <2>3. \E v, m : /\ Store(v) /\ m \in 1 .. Count(Pattern) /\ ppos = Opens(Pattern, m)
                  /\ v = Captured(Pattern, req.path, m)
                  /\ ppos' \in Nat /\ ppos < ppos'
                  /\ \A j \in ppos + 1 .. ppos' - 1 : ~Marks(Pattern, j)
    <3>1. CASE Wildcard
      <4>1. /\ Pattern[ppos] = "*" /\ ppos' = ppos + 1
            /\ Store(SubSeq(req.path, rpos, Len(req.path)))
        BY <3>1 DEF Wildcard
      <4>2. \E m \in 1 .. Count(Pattern) :
              ppos = Opens(Pattern, m)
              /\ SubSeq(req.path, rpos, Len(req.path)) = Captured(Pattern, req.path, m)
        <5>1. PICK p, r, x, y : p = Pattern /\ r = req.path /\ x = ppos /\ y = rpos
          OBVIOUS
        <5>2. /\ Rooted(p) /\ WellShaped(p) /\ Rooted(r) /\ Progress(p, r, x, y)
              /\ x <= Len(p) /\ y <= Len(r) /\ p[x] = "*"
          BY <1>1, <1>2, <2>1, <4>1, <5>1
        <5>3. \E m \in 1 .. Count(p) :
                x = Opens(p, m) /\ SubSeq(r, y, Len(r)) = Captured(p, r, m)
          BY <5>2, WildcardValue
        <5> QED
          BY <5>1, <5>3, Zenon
      <4>3. ppos' \in Nat /\ ppos < ppos' /\ ppos + 1 .. ppos' - 1 = {}
        BY <1>1, <4>1
      <4> QED
        BY <4>1, <4>2, <4>3
    <3>2. CASE Parameter
      <4>1. PICK e : e = EndOf(req.path, rpos, {"/"})
        OBVIOUS
      <4>2. PICK z : z = ppos'
        OBVIOUS
      <4>3. /\ Pattern[ppos] = ":" /\ z = Beyond(Pattern, EndOf(Pattern, ppos + 1, {"/"}))
            /\ Store(Decode(SubSeq(req.path, rpos, e - 1)))
        BY <3>2, <4>1, <4>2 DEF Parameter
      <4>4. z \in Nat /\ ppos < z /\ \A j \in ppos + 1 .. z - 1 : ~Marks(Pattern, j)
        BY <1>1, <1>2, <2>1, <4>1, <4>3, ParameterValue
      <4>5. \E m \in 1 .. Count(Pattern) :
              ppos = Opens(Pattern, m)
              /\ Decode(SubSeq(req.path, rpos, e - 1)) = Captured(Pattern, req.path, m)
        BY <1>1, <1>2, <2>1, <4>1, <4>3, ParameterValue
      <4> QED
        BY <4>2, <4>3, <4>4, <4>5
    <3> QED
      BY <1>4, <3>1, <3>2
  <2>4. PICK v, m : /\ Store(v) /\ m \in 1 .. Count(Pattern) /\ ppos = Opens(Pattern, m)
                    /\ v = Captured(Pattern, req.path, m)
                    /\ ppos' \in Nat /\ ppos < ppos'
                    /\ \A j \in ppos + 1 .. ppos' - 1 : ~Marks(Pattern, j)
    BY <2>3
  <2>5. n' = n + 1 /\ slots' = [slots EXCEPT ![n + 1] = [id |-> Id(n + 1), v |-> v]]
    BY <2>2, <2>4 DEF Store
  <2>6. n + 1 \in 1 .. MaxParams /\ \A j \in 1 .. n : j # n + 1 /\ j \in 1 .. MaxParams
    BY <2>2, RouterAssumption
  <2>7. slots'[n + 1].v = v /\ \A j \in 1 .. n : slots'[j] = slots[j]
    BY <1>2, <2>5, <2>6
  <2>8. PICK t, z : t = slots' /\ z = ppos'
    OBVIOUS
  <2>9. t[n + 1].v = Captured(Pattern, req.path, m) /\ \A j \in 1 .. n : t[j] = slots[j]
    BY <2>4, <2>7, <2>8
  <2>10. z \in Nat /\ ppos < z /\ \A j \in ppos + 1 .. z - 1 : ~Marks(Pattern, j)
    BY <2>4, <2>8
  <2>11. Held(Pattern, req.path, n + 1, t, z)
    BY <1>1, <1>2, <2>1, <2>2, <2>4, <2>9, <2>10, HeldMark
  <2>12. Pattern' = Pattern
    BY <1>3, <2>1 DEF Pattern
  <2>13. Held(Pattern, req.path, n, slots, ppos)'
    BY <1>3, <2>5, <2>8, <2>11, <2>12 DEF Held, Count, Opens
  <2> QED
    BY <2>1, <2>13 DEF VInv
<1>5. CASE Literal
  <2>1. /\ pc' = "match" /\ i' = i /\ n' = n /\ slots' = slots /\ ppos' = ppos + 1
        /\ ~Marks(Pattern, ppos)
    BY <1>0, <1>5 DEF Literal, heapVars, Marks
  <2>2. Held(Pattern, req.path, n, slots, ppos + 1)
    BY <1>1, <1>2, <2>1, HeldLiteral
  <2>3. Pattern' = Pattern
    BY <1>3, <2>1 DEF Pattern
  <2>4. Held(Pattern, req.path, n, slots, ppos)'
    BY <1>3, <2>1, <2>2, <2>3 DEF Held, Count, Opens
  <2> QED
    BY <2>1, <2>4 DEF VInv
<1>6. CASE Matched
  <2>1. pc' = "found" /\ i' = i /\ n' = n /\ slots' = slots /\ ppos > Len(Pattern)
    BY <1>6 DEF Matched, Ended, matchVars, heapVars
  <2>2. ppos = Len(Pattern) + 1
    BY <1>1, <1>2, <2>1
  <2>3. Pattern' = Pattern
    BY <1>3, <2>1 DEF Pattern
  <2>4. Held(Pattern, req.path, n, slots, Len(Pattern) + 1)'
    BY <1>2, <1>3, <2>1, <2>2, <2>3 DEF Held, Count, Opens
  <2> QED
    BY <2>1, <2>4 DEF VInv
<1>7. CASE NoMemory \/ Mismatch
  <2>1. pc' = "scan"
    BY <1>7 DEF NoMemory, Mismatch
  <2> QED
    BY <2>1 DEF VInv
<1> QED
  BY <1>4, <1>5, <1>6, <1>7

(* A segment's name is what mnet_add_route() collects for its mark.        *)
LEMMA NameOfSegment ==
  ASSUME NEW p, Rooted(p), ClearlyNamed(p), NEW k \in 1 .. Count(p),
         NEW P, P = Segments(p)[k], (Named(P) /\ Tail(P) # <<>>) \/ Rest(P)
  PROVE  /\ Opens(p, k) \in 1 .. Len(p) /\ Marks(p, Opens(p, k))
         /\ NameAt(p, Opens(p, k)) = IF Rest(P) THEN P ELSE Tail(P)
         /\ NameAt(p, Opens(p, k)) # Unnamed
<1>0. Len(Segments(p)) = Count(p) /\ IsList(p)
  BY SegmentsLen DEF Rooted
<1>1. PICK a, b : a = Opens(p, k) /\ b = Closes(p, k)
  OBVIOUS
<1>2. IsSegment(p, k, a, b, P)
  BY <1>1, SegmentIs
<1>3. /\ Len(p) \in Nat /\ a \in 2 .. Len(p) + 1 /\ b \in a .. Len(p) + 1
      /\ \A x \in a .. b - 1 : p[x] # "/"
      /\ b = Len(p) + 1 \/ p[b] = "/"
      /\ IsList(P) /\ Len(P) = b - a /\ \A x \in 1 .. b - a : P[x] = p[a + x - 1]
  <2>1. k = Count(p) \/ k < Count(p)
    BY <1>2 DEF IsSegment
  <2> QED
    BY <1>2, <2>1 DEF IsSegment
<1>4. CASE Rest(P)
  <2>1. b = a + 1 /\ p[a] = "*"
    BY <1>2, <1>4, SegmentKind
  <2>2. a \in 1 .. Len(p)
    BY <1>3, <2>1
  <2>3. P = <<"*">> /\ NameAt(p, a) = <<"*">>
    BY <1>4, <2>1 DEF Rest, NameAt
  <2>4. <<"*">> # Unnamed
    BY DEF Unnamed
  <2> QED
    BY <1>1, <1>4, <2>1, <2>2, <2>3, <2>4 DEF Marks
<1>5. CASE Named(P) /\ Tail(P) # <<>>
  <2>1. a < b /\ p[a] = ":"
    BY <1>2, <1>5, SegmentKind
  <2>2. a \in 1 .. Len(p) /\ ~Rest(P) /\ P # <<>>
    BY <1>3, <1>5, <2>1, KindsApart
  <2>3. Tail(P) # Unnamed /\ \A j \in 1 .. Len(P) : P[j] # "."
    BY <1>0, <1>5 DEF ClearlyNamed
  <2>4. PICK T : T = Tail(P)
    OBVIOUS
  <2>5. IsList(T)
    BY <1>3, <2>2, <2>4, TailList
  <2>6. Len(T) = Len(P) - 1
    BY <1>3, <2>2, <2>4, TailList
  <2>7. \A x \in 1 .. Len(P) - 1 : T[x] = P[x + 1]
    BY <1>3, <2>2, <2>4, TailList
  <2>8. PICK j, S : j = a + 1 /\ S = {"/", "."}
    OBVIOUS
  <2>9. \A x \in j .. b - 1 : p[x] \notin S
    <3>1. ASSUME NEW x \in j .. b - 1 PROVE p[x] # "."
      <4>1. PICK z : z = x - a + 1
        OBVIOUS
      <4>2. z \in 1 .. Len(P) /\ z \in 1 .. b - a /\ a + z - 1 = x
        BY <1>3, <2>8, <3>1, <4>1
      <4>3. P[z] = p[x]
        BY <1>3, <4>2
      <4> QED
        BY <2>3, <4>2, <4>3
    <3>2. \A x \in j .. b - 1 : x \in a .. b - 1
      BY <1>3, <2>8
    <3> QED
      BY <1>3, <2>8, <3>1, <3>2
  <2>10. j \in 1 .. Len(p) + 1
    BY <1>3, <2>1, <2>8
  <2>11. /\ EndOf(p, j, S) \in j .. Len(p) + 1
         /\ EndOf(p, j, S) = Len(p) + 1 \/ p[EndOf(p, j, S)] \in S
         /\ \A m \in j .. EndOf(p, j, S) - 1 : p[m] \notin S
    BY <1>3, <2>10, EndOfIs
  <2>12. EndOf(p, j, S) = b
    <3>1. PICK e : e = EndOf(p, j, S)
      OBVIOUS
    <3>2. ~(e < b)
      <4>1. e < b => e \in j .. b - 1 /\ e # Len(p) + 1
        BY <1>3, <2>11, <3>1
      <4> QED
        BY <2>9, <2>11, <3>1, <4>1
    <3>3. ~(b < e)
      <4>1. b < e => b \in j .. e - 1 /\ b # Len(p) + 1
        BY <1>3, <2>1, <2>8, <2>11, <3>1
      <4>2. b # Len(p) + 1 => p[b] \in S
        BY <1>3, <2>8
      <4> QED
        BY <2>11, <3>1, <4>1, <4>2
    <3> QED
      BY <1>3, <2>10, <2>11, <3>1, <3>2, <3>3
  <2>13. LabelEnd(p, a) = b
    BY <2>8, <2>12 DEF LabelEnd
  <2>14. b # a + 1
    <3>1. Len(T) # 0
      BY <1>5, <2>4, <2>5 DEF IsList
    <3> QED
      BY <1>3, <2>6, <3>1
  <2>15. PICK u, l : u = SubSeq(p, a + 1, l) /\ l = b - 1
    OBVIOUS
  <2>16. a \in Nat /\ l \in a .. Len(p)
    BY <1>3, <2>1, <2>15
  <2>17. IsList(u)
    BY <1>0, <2>15, <2>16, Part
  <2>18. Len(u) = l - a
    BY <1>0, <2>15, <2>16, Part
  <2>19. \A x \in 1 .. l - a : u[x] = p[a + x]
    BY <1>0, <2>15, <2>16, Part
  <2>20. Len(u) = Len(T) /\ \A x \in 1 .. Len(T) : u[x] = T[x]
    <3>1. Len(u) = Len(T) /\ Len(T) = l - a /\ Len(P) - 1 = l - a /\ Len(P) = b - a
      BY <1>3, <2>6, <2>15, <2>16, <2>18
    <3>2. ASSUME NEW x \in 1 .. l - a PROVE u[x] = T[x]
      <4>1. PICK y : y = x + 1
        OBVIOUS
      <4>2. y \in 1 .. b - a /\ a + y - 1 = a + x
        BY <1>3, <2>15, <3>2, <4>1
      <4>3. T[x] = P[y]
        BY <2>7, <3>1, <4>1
      <4>4. P[y] = p[a + x]
        BY <1>3, <4>2
      <4> QED
        BY <2>19, <4>3, <4>4
    <3> QED
      BY <3>1, <3>2
  <2>21. u = T
    BY <2>5, <2>17, <2>20, SameList
  <2>22. Label(p, a) = SubSeq(p, a + 1, b - 1)
    BY <2>13, <2>14 DEF Label
  <2>23. NameAt(p, a) = T
    BY <2>1, <2>15, <2>21, <2>22 DEF NameAt
  <2> QED
    BY <1>1, <2>1, <2>2, <2>3, <2>4, <2>23 DEF Marks
<1> QED
  BY <1>4, <1>5

ClearNames == \A p \in Patterns : ClearlyNamed(p)

(* Names and values are counted alike, so the slot of a name is the slot   *)
(* of its segment.                                                         *)
LEMMA ValueRight ==
  ASSUME VInv, RInv, TInv, WellShapedRoutes, ClearNames
  PROVE  ParamFound
<1> SUFFICES ASSUME pc = "sent", answer = "handler", ~routes[i].static,
                    NEW k \in 1 .. Len(Segments(Pattern)), NEW P, P = Segments(Pattern)[k],
                    (Named(P) /\ Tail(P) # <<>>) \/ Rest(P)
             PROVE  Param(IF Rest(P) THEN P ELSE Tail(P)) = Captured(Pattern, req.path, k)
  BY DEF ParamFound
<1>1. i \in Candidates(as)
  BY DEF RInv
<1>2. i \in 1 .. Len(routes) /\ Matches(routes[i].path, req.path) /\ routes \in Seq(AllRoutes)
  BY <1>1 DEF Candidates, TInv
<1>3. routes[i] \in AllRoutes /\ routes[i].path[1] = "/"
  BY <1>2 DEF Matches
<1>4. PICK p : p = Pattern
  OBVIOUS
<1>5. p \in Patterns /\ routes[i].names = ParamNames(p)
  <2>1. routes[i] \notin {StaticRoute(q) : q \in StaticPrefixes}
    BY DEF StaticRoute
  <2>2. PICK m \in Methods, q \in Patterns : routes[i] = Route(m, q)
    BY <1>3, <2>1 DEF AllRoutes
  <2> QED
    BY <1>4, <2>2 DEF Route, Pattern
<1>6. Rooted(p) /\ WellShaped(p) /\ ClearlyNamed(p)
  <2>1. Rooted(p)
    BY <1>3, <1>4, PathRooted DEF Pattern
  <2>2. WellShaped(p)
    BY <1>3, <1>4 DEF WellShapedRoutes, Pattern
  <2> QED
    BY <1>5, <2>1, <2>2 DEF ClearNames
<1>7. Len(p) \in Nat /\ k \in 1 .. Count(p)
  BY <1>4, <1>6, FirstSlash, SegmentsLen
<1>8. PICK q, name : q = Opens(p, k) /\ name = IF Rest(P) THEN P ELSE Tail(P)
  OBVIOUS
<1>9. q \in 1 .. Len(p) /\ Marks(p, q)
  BY <1>4, <1>6, <1>7, <1>8, NameOfSegment
<1>10. NameAt(p, q) = name /\ name # Unnamed
  BY <1>4, <1>6, <1>7, <1>8, NameOfSegment
<1>11. PICK N, c : N = ParamNames(p) /\ c = Cardinality(Captures(p, q)) + 1
  OBVIOUS
<1>12. c \in 1 .. Len(N) /\ N[c] = name
  <2>1. Between(p, 1, q) = Captures(p, q)
    BY DEF Between, Captures, Marks
  <2>2. 1 \in 1 .. Len(p) + 1
    BY <1>7
  <2>3. LinedUp(p, 1)
    BY <1>6, <1>7, <2>2, NamesLineUp
  <2> QED
    BY <1>9, <1>10, <1>11, <2>1, <2>3 DEF LinedUp, ParamNames
<1>13. Held(p, req.path, n, slots, Len(p) + 1)
  BY <1>4 DEF VInv
<1>14. c \in 1 .. n
  <2>1. PICK l : l = Len(p) + 1
    OBVIOUS
  <2>2. q \in Nat \ {0} /\ l \in Nat /\ q < l
    BY <1>7, <1>9, <2>1
  <2>3. Cardinality(Captures(p, q)) + 1 <= Cardinality(Captures(p, l))
    BY <1>9, <2>2, CapturesCount DEF Marks
  <2>4. Cardinality(Captures(p, q)) \in Nat /\ Cardinality(Captures(p, l)) \in Nat
    BY <2>2, CapturesFinite
  <2>5. n = Cardinality(Captures(p, l))
    BY <1>13, <2>1 DEF Held
  <2> QED
    BY <1>11, <2>3, <2>4, <2>5
<1>15. slots[c].v = Captured(p, req.path, k)
  <2>1. q < Len(p) + 1
    BY <1>7, <1>9
  <2> QED
    BY <1>7, <1>8, <1>9, <1>11, <1>13, <2>1 DEF Held
<1> DEFINE named == {j \in 1 .. n : j <= Len(routes[i].names) /\ routes[i].names[j] = name}
<1>16. named = {c}
  <2>1. n \in Nat /\ Len(N) \in Nat
    <3>1. 1 \in 1 .. Len(p) + 1
      BY <1>7
    <3>2. LinedUp(p, 1)
      BY <1>6, <1>7, <3>1, NamesLineUp
    <3> QED
      BY <1>11, <3>2 DEF LinedUp, IsList, ParamNames, TInv, TypeOK
  <2>2. N = routes[i].names
    BY <1>5, <1>11
  <2>3. c \in named
    BY <1>12, <1>14, <2>1, <2>2
  <2>4. ASSUME NEW j \in named PROVE j = c
    <3>1. j \in 1 .. n /\ j <= Len(N) /\ N[j] = name
      BY <2>2, <2>4
    <3>2. j \in 1 .. Len(N) /\ N[j] = N[c] /\ N[j] # Unnamed
      BY <1>10, <1>12, <2>1, <3>1
    <3> QED
      BY <1>6, <1>11, <1>12, <3>2 DEF ClearlyNamed
  <2> HIDE DEF named
  <2> QED
    BY <2>3, <2>4
<1>17. Param(name) = IF named = {} THEN <<>>
                     ELSE slots[CHOOSE j \in named : \A m \in named : j <= m].v
  BY Zenon DEF Param
<1>18. c \in Nat
  BY <1>14
<1> HIDE DEF named
<1>19. (CHOOSE j \in named : \A m \in named : j <= m) = c
  BY <1>16, <1>18
<1>20. Param(name) = slots[c].v
  BY <1>16, <1>17, <1>19
<1> QED
  BY <1>4, <1>8, <1>15, <1>20

(* MNET_PARAM(req, name) is, in every handler, the segment of the path     *)
(* that the pattern gives that name, decoded for ":" and as it came for    *)
(* "*", if its escapes are well formed: mnet_add_route() and               *)
(* mnet_route_match() walk the pattern by different rules and still number *)
(* the parameters alike.  For tables                                       *)
(* whose parameters have names of their own and fit into MNET_MAX_PARAMS   *)
(* slots, with any allocation failing.                                     *)
THEOREM ParamFoundHolds ==
  ASSUME WellShapedRoutes, FewParams, ClearNames PROVE Spec => []ParamFound
<1>1. VInv /\ RInv /\ TInv /\ [Next]_vars => VInv'
  <2> SUFFICES ASSUME VInv, RInv, TInv, [Next]_vars PROVE VInv'
    OBVIOUS
  <2>1. CASE UNCHANGED vars
    <3>1. Pattern' = Pattern
      BY <2>1 DEF vars, Pattern
    <3>2. Held(Pattern, req.path, n, slots, ppos)' <=> Held(Pattern, req.path, n, slots, ppos)
      BY <2>1, <3>1 DEF vars, Held, Count, Opens
    <3>3. Held(Pattern, req.path, n, slots, Len(Pattern) + 1)'
          <=> Held(Pattern, req.path, n, slots, Len(Pattern) + 1)
      BY <2>1, <3>1 DEF vars, Held, Count, Opens
    <3> QED
      BY <2>1, <3>2, <3>3 DEF vars, VInv
  <2>2. CASE Next
    BY <2>2, ValueSearch, ValueMatch DEF Next
  <2> QED
    BY <2>1, <2>2
<1>2. VInv /\ RInv /\ TInv => ParamFound
  BY ValueRight
<1> QED
  BY ValueInit, RouteAlways, TypeAlways, <1>1, <1>2, PTL DEF Spec
=============================================================================
