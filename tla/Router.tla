------------------------------- MODULE Router -------------------------------
(***************************************************************************)
(* Route registration (mnet_add_route, mnet_static) and the routing of one *)
(* request: mnet_find_route() over mnet_route_match(), then dispatch() and *)
(* the release of the parameter values.                                    *)
(*                                                                         *)
(* A pattern or a path is a sequence of tokens: "/", ":", "*", ".", a word *)
(* such as "a", and in a path "%2F" (an escape that decodes to "/") and    *)
(* "%zz" (one that does not decode).  A parameter value is an allocation:  *)
(* `live' holds the allocations not yet freed, named by the attempt and    *)
(* the slot they were made for.                                            *)
(***************************************************************************)
EXTENDS Integers, Sequences, FiniteSets

CONSTANTS
  Patterns, StaticPrefixes,  \* what the program registers
  Paths, Methods,            \* what clients ask for
  MaxRoutes,                 \* bound: routes registered
  InitialCapacity,           \* MNET_INITIAL_ROUTE_CAPACITY
  MaxParams,                 \* MNET_MAX_PARAMS
  MemoryFails                \* malloc() may return NULL

ASSUME RouterAssumption ==
  /\ \A p \in Patterns \union StaticPrefixes \union Paths :
       p \in Seq(STRING) /\ p # <<>>
  /\ MaxRoutes \in Nat /\ MaxParams \in Nat \ {0}
  /\ InitialCapacity \in Nat \ {0}
  /\ MemoryFails \in BOOLEAN

Null == [id |-> <<>>, v |-> <<>>]

VARIABLES
  routes, capacity,   \* app->routes[0 .. route_count), app->route_capacity
  notFound,           \* app->not_found_handler is set
  pc, req, as, i,     \* the search: request, method looked for, route index
  ppos, rpos, n,      \* mnet_route_match()'s locals
  slots,              \* param_values
  live,               \* history: parameter values allocated and not freed
  misuse,             \* history: something else than a live value was freed
  starved,            \* history: malloc() failed during this request
  answer              \* what dispatch() returned

tableVars == <<routes, capacity, notFound>>
matchVars == <<ppos, rpos, n>>
heapVars  == <<slots, live, misuse>>
vars == <<routes, capacity, notFound, pc, req, as, i, ppos, rpos, n, slots, live, misuse,
          starved, answer>>

Init ==
  /\ routes = <<>> /\ capacity = 0 /\ notFound = FALSE
  /\ pc = "config" /\ req = [method |-> "GET", path |-> <<"/">>]
  /\ as = "GET" /\ i = 1 /\ ppos = 1 /\ rpos = 1 /\ n = 0
  /\ slots = [k \in 1 .. MaxParams |-> Null]
  /\ live = {} /\ misuse = FALSE
  /\ starved = FALSE /\ answer = "none"

----------------------------------------------------------------------------
(* Registration.                                                           *)

EndOf(p, k, stops) ==      \* the first place from k on that holds a stop
  CHOOSE j \in k .. Len(p) + 1 :
    /\ j = Len(p) + 1 \/ p[j] \in stops
    /\ \A m \in k .. j - 1 : p[m] \notin stops

Unnamed == <<"_">>         \* a generated name

(* The parameter names mnet_add_route() collects from place k on.          *)
Names(p) ==
  LET names[k \in Nat] ==
        IF k > Len(p) THEN <<>>
        ELSE IF p[k] = ":" THEN
          LET e == EndOf(p, k + 1, {"/", "."})
          IN <<IF e = k + 1 THEN Unnamed ELSE SubSeq(p, k + 1, e - 1)>> \o names[e]
        ELSE IF p[k] = "*" THEN << <<"*">> >>
        ELSE names[k + 1]
  IN names

ParamNames(p) == Names(p)[1]

GrownLate == IF Len(routes) <= capacity THEN capacity ELSE 2 * capacity \* fault

Grown ==
  IF Len(routes) < capacity THEN capacity
  ELSE IF capacity = 0 THEN InitialCapacity ELSE 2 * capacity

Register(r) ==
  /\ pc = "config" /\ Len(routes) < MaxRoutes
  /\ routes' = Append(routes, r) /\ capacity' = Grown
  /\ UNCHANGED <<notFound, pc, req, as, i, matchVars, heapVars, answer, starved>>

AddRoute == \E m \in Methods, p \in Patterns :
  Register([method |-> m, path |-> p, names |-> ParamNames(p), static |-> FALSE])

Static == \E p \in StaticPrefixes :     \* param_names stays NULL
  Register([method |-> "GET", path |-> p \o <<"/", "*">>, names |-> <<>>,
            static |-> TRUE])

(* An allocation fails: the table may have grown, no route is added.       *)
RegisterFails ==
  /\ pc = "config" /\ MemoryFails /\ Len(routes) < MaxRoutes
  /\ capacity' \in {capacity, Grown}
  /\ UNCHANGED <<routes, notFound, pc, req, as, i, matchVars, heapVars, answer, starved>>

(* mnet_set_not_found_handler(), before mnet_run().                        *)
SetNotFound ==
  /\ pc = "config" /\ notFound' = TRUE
  /\ UNCHANGED <<routes, capacity, pc, req, as, i, matchVars, heapVars, answer, starved>>

----------------------------------------------------------------------------
(* mnet_find_route().                                                      *)

Request ==
  /\ pc \in {"config", "idle"}
  /\ \E m \in Methods, p \in Paths : req' = [method |-> m, path |-> p] /\ as' = m
  /\ pc' = "scan" /\ i' = 1 /\ n' = 0 /\ answer' = "none" /\ starved' = FALSE
  /\ slots' = [k \in 1 .. MaxParams |-> Null]
  /\ UNCHANGED <<tableVars, ppos, rpos, live, misuse>>

Skip ==     \* another method, or a pattern or path that is not rooted
  /\ pc = "scan" /\ i <= Len(routes)
  /\ \/ routes[i].method # as
     \/ routes[i].path[1] # "/" \/ req.path[1] # "/"
  /\ i' = i + 1
  /\ UNCHANGED <<tableVars, pc, req, as, matchVars, heapVars, answer, starved>>

Try ==
  /\ pc = "scan" /\ i <= Len(routes) /\ routes[i].method = as
  /\ routes[i].path[1] = "/" /\ req.path[1] = "/"
  /\ pc' = "match" /\ ppos' = 1 /\ rpos' = 1 /\ n' = 0
  /\ UNCHANGED <<tableVars, req, as, i, heapVars, answer, starved>>

HeadAsGet ==
  /\ pc = "scan" /\ i > Len(routes) /\ as = "HEAD"
  /\ as' = "GET" /\ i' = 1
  /\ UNCHANGED <<tableVars, pc, req, matchVars, heapVars, answer, starved>>

NoRoute ==
  /\ pc = "scan" /\ i > Len(routes) /\ as # "HEAD"
  /\ pc' = "missed" /\ n' = 0     \* *out_count = 0
  /\ UNCHANGED <<tableVars, req, as, i, ppos, rpos, heapVars, answer, starved>>

----------------------------------------------------------------------------
(* mnet_route_match(), one turn of its loop at a time.                     *)

Pattern == routes[i].path
Looping == pc = "match" /\ ppos <= Len(Pattern) /\ rpos <= Len(req.path)

Decode(v) == [k \in 1 .. Len(v) |-> IF v[k] = "%2F" THEN "/" ELSE v[k]]

Id(k) == <<as, i, k>>

(* A value for slot n + 1, if there is such a slot.                        *)
Store(v) ==
  /\ n' = n + 1
  /\ IF n < MaxParams
     THEN /\ slots' = [slots EXCEPT ![n + 1] = [id |-> Id(n + 1), v |-> v]]
          /\ live' = live \union {Id(n + 1)}
     ELSE UNCHANGED <<slots, live>>
  /\ UNCHANGED misuse

(* mnet_match_params_free(): the first k slots of s.                       *)
Freed(s, k) == {s[j].id : j \in {m \in 1 .. k : m <= MaxParams /\ s[m] # Null}}
FreeNothing(s, k) == UNCHANGED <<live, misuse>>     \* fault: forgotten

Free(s, k) ==
  /\ live' = live \ Freed(s, k)
  /\ misuse' = (misuse \/ k > MaxParams \/ ~(Freed(s, k) \subseteq live))

(* Fault: decoded like a named parameter.                                  *)
WildcardDecoded ==
  /\ Looping /\ Pattern[ppos] = "*"
  /\ Store(Decode(SubSeq(req.path, rpos, Len(req.path))))
  /\ ppos' = ppos + 1 /\ rpos' = Len(req.path) + 1
  /\ UNCHANGED <<tableVars, pc, req, as, i, answer, starved>>

Wildcard ==
  /\ Looping /\ Pattern[ppos] = "*"
  /\ Store(SubSeq(req.path, rpos, Len(req.path)))
  /\ ppos' = ppos + 1 /\ rpos' = Len(req.path) + 1
  /\ UNCHANGED <<tableVars, pc, req, as, i, answer, starved>>

Beyond(p, k) == IF k <= Len(p) /\ p[k] = "/" THEN k + 1 ELSE k

Parameter ==
  /\ Looping /\ Pattern[ppos] = ":"
  /\ LET e == EndOf(req.path, rpos, {"/"})
     IN /\ Store(Decode(SubSeq(req.path, rpos, e - 1)))
        /\ rpos' = Beyond(req.path, e)
  /\ ppos' = Beyond(Pattern, EndOf(Pattern, ppos + 1, {"/"}))
  /\ UNCHANGED <<tableVars, pc, req, as, i, answer, starved>>

(* malloc() fails: the slot is cleared, what there is is freed, no match.  *)
NoMemory ==
  /\ Looping /\ Pattern[ppos] \in {":", "*"} /\ MemoryFails /\ n < MaxParams
  /\ slots' = [slots EXCEPT ![n + 1] = Null]
  /\ Free(slots', n + 1)
  /\ pc' = "scan" /\ i' = i + 1 /\ n' = n + 1 /\ starved' = TRUE
  /\ UNCHANGED <<tableVars, req, as, ppos, rpos, answer>>

Literal ==
  /\ Looping /\ Pattern[ppos] \notin {":", "*"} /\ Pattern[ppos] = req.path[rpos]
  /\ ppos' = ppos + 1 /\ rpos' = rpos + 1
  /\ UNCHANGED <<tableVars, pc, req, as, i, n, heapVars, answer, starved>>

(* Fault: what is left of the path after the pattern is not looked at.     *)
EndedIgnoresPath ==
  /\ pc = "match" /\ ~Looping
  /\ ppos > Len(Pattern)

Ended ==      \* both at their end
  /\ pc = "match" /\ ~Looping
  /\ ppos > Len(Pattern) /\ rpos > Len(req.path)

Matched ==
  /\ Ended /\ pc' = "found"
  /\ UNCHANGED <<tableVars, req, as, i, matchVars, heapVars, answer, starved>>

Mismatch ==
  /\ pc = "match" /\ ~Ended
  /\ Looping => Pattern[ppos] \notin {":", "*", req.path[rpos]}
  /\ Free(slots, n)
  /\ pc' = "scan" /\ i' = i + 1
  /\ UNCHANGED <<tableVars, req, as, matchVars, slots, answer, starved>>

----------------------------------------------------------------------------
(* dispatch(), and mnet_handle_client() after the answer is sent.          *)

Welcoming == {<<"/">>, <<"/", "index.html">>}

Answer(found) ==
  IF routes = <<>> THEN IF req.path \in Welcoming THEN "welcome" ELSE "404"
  ELSE IF found THEN "handler"
  ELSE IF notFound THEN "custom" ELSE "404"

Dispatch ==
  /\ pc \in {"found", "missed"}
  /\ answer' = Answer(pc = "found") /\ pc' = "sent"
  /\ UNCHANGED <<tableVars, req, as, i, matchVars, heapVars, starved>>

Release ==
  /\ pc = "sent"
  /\ Free(slots, n) /\ pc' = "idle"
  /\ UNCHANGED <<tableVars, req, as, i, matchVars, slots, answer, starved>>

Next ==
  \/ AddRoute \/ Static \/ RegisterFails \/ SetNotFound
  \/ Request \/ Skip \/ Try \/ HeadAsGet \/ NoRoute
  \/ Wildcard \/ Parameter \/ NoMemory \/ Literal \/ Matched \/ Mismatch
  \/ Dispatch \/ Release

Spec == Init /\ [][Next]_vars

----------------------------------------------------------------------------
(* What mnet_request_param() finds: the first slot of that name.           *)
Param(name) ==
  LET named == {k \in 1 .. n : k <= Len(routes[i].names) /\ routes[i].names[k] = name}
  IN IF named = {} THEN <<>>
     ELSE slots[CHOOSE k \in named : \A j \in named : k <= j].v

----------------------------------------------------------------------------
(* What a route promises, segment by segment, for patterns whose "*" is a  *)
(* last segment and whose ":" starts one.                                  *)

Slashes(p) == {k \in 1 .. Len(p) : p[k] = "/"}
Slash(p, m) == CHOOSE k \in Slashes(p) : Cardinality({j \in Slashes(p) : j <= k}) = m
Segments(p) ==
  [m \in 1 .. Cardinality(Slashes(p)) |->
     SubSeq(p, Slash(p, m) + 1, EndOf(p, Slash(p, m) + 1, {"/"}) - 1)]

Named(s) == s # <<>> /\ s[1] = ":"
Rest(s)  == s = <<"*">>

(* A ":" starts a segment, a "*" is the last one.                          *)
WellShaped(p) ==
  \A k \in 1 .. Len(p) :
    /\ p[k] = ":" => k > 1 /\ p[k - 1] = "/"
    /\ p[k] = "*" => k > 1 /\ p[k - 1] = "/" /\ k = Len(p)

(* No parameter has a "." or a generated name, and no two have one name.   *)
ClearlyNamed(p) ==
  /\ \A m \in 1 .. Len(Segments(p)) : Named(Segments(p)[m]) =>
       /\ Tail(Segments(p)[m]) # Unnamed
       /\ \A j \in 1 .. Len(Segments(p)[m]) : Segments(p)[m][j] # "."
  /\ \A j, k \in 1 .. Len(ParamNames(p)) :
       ParamNames(p)[j] = ParamNames(p)[k] => j = k \/ ParamNames(p)[j] = Unnamed

(* A slash after a last parameter says nothing.                            *)
Core(P) == LET l == Len(P) IN
  IF l > 1 /\ P[l] = <<>> /\ Named(P[l - 1]) THEN SubSeq(P, 1, l - 1) ELSE P

Matches(pattern, path) ==
  LET P == Core(Segments(pattern))
      R == Segments(path)
      l == Len(P)
      Agree(last) == \A k \in 1 .. last : k <= Len(R) /\ (P[k] = R[k] \/ Named(P[k]))
  IN /\ pattern[1] = "/" /\ path[1] = "/"
     /\ \/ Rest(P[l]) /\ Agree(l - 1)
           /\ (Len(R) > l \/ (Len(R) = l /\ R[l] # <<>>))
        \/ Named(P[l]) /\ Agree(l)
           /\ \/ Len(R) = l /\ R[l] # <<>>
              \/ Len(R) = l + 1 /\ R[l + 1] = <<>>
        \/ ~Rest(P[l]) /\ ~Named(P[l]) /\ Agree(l) /\ Len(R) = l

(* What the parameter of segment k stands for.                             *)
Captured(pattern, path, k) ==
  IF Rest(Segments(pattern)[k]) THEN SubSeq(path, Slash(path, k) + 1, Len(path))
  ELSE Decode(Segments(path)[k])

Candidates(m) ==
  {k \in 1 .. Len(routes) : routes[k].method = m /\ Matches(routes[k].path, req.path)}

(* The first route of the request's method that matches; for HEAD, failing *)
(* that, the first GET route.                                              *)
Chosen ==
  LET S == IF Candidates(req.method) = {} /\ req.method = "HEAD"
           THEN Candidates("GET") ELSE Candidates(req.method)
  IN IF S = {} THEN 0 ELSE CHOOSE k \in S : \A j \in S : k <= j

----------------------------------------------------------------------------
(* Properties.                                                             *)

TypeOK ==
  /\ Len(routes) <= capacity /\ Len(routes) <= MaxRoutes
  /\ pc \in {"config", "idle", "scan", "match", "found", "missed", "sent"}
  /\ req.method \in Methods \union {"GET"} /\ as \in Methods \union {"GET"}
  /\ i \in 1 .. Len(routes) + 1 /\ n \in Nat
  /\ pc = "match" => /\ i <= Len(routes) /\ ppos \in 1 .. Len(Pattern) + 1
                     /\ rpos \in 1 .. Len(req.path) + 1
  /\ DOMAIN slots = 1 .. MaxParams /\ misuse \in BOOLEAN
  /\ answer \in {"none", "welcome", "handler", "custom", "404"}

(* mnet_find_route() and dispatch() hand the request to the first route    *)
(* that matches it, and to none only if none matches: the matcher's loop   *)
(* agrees with the segment-by-segment meaning of a pattern.  Without       *)
(* memory a route may be passed over, never a wrong one taken.             *)
RoutedRight ==
  pc = "sent" =>
    /\ answer = "handler" => i \in Candidates(as)
    /\ ~starved => (answer = "handler" <=> Chosen # 0)
    /\ ~starved /\ Chosen # 0 => i = Chosen

(* A segment with an escape that does not decode.                          *)
Malformed(s) == \E k \in 1 .. Len(s) : s[k] = "%zz"

(* MNET_PARAM(req, name) is the part of the path the pattern gives that    *)
(* name, decoded if it is one segment: the names mnet_add_route()          *)
(* collected line up with the values the matcher stored.  Nothing is said  *)
(* of a segment that does not decode.                                      *)
ParamFound ==
  pc = "sent" /\ answer = "handler" /\ ~routes[i].static =>
    LET P == Segments(Pattern)
    IN \A k \in 1 .. Len(P) :
         Rest(P[k]) \/ (Named(P[k]) /\ Tail(P[k]) # <<>> /\ ~Malformed(Segments(req.path)[k])) =>
           Param(IF Rest(P[k]) THEN P[k] ELSE Tail(P[k]))
             = Captured(Pattern, req.path, k)

(* Parameter values are freed once, on every path: a failed attempt leaves *)
(* none behind, a successful one leaves exactly the values it counts, and  *)
(* none outlives the request.                                              *)
ParamsOwned ==
  /\ ~misuse
  /\ pc \in {"found", "sent"} =>
       n <= MaxParams /\ live = {slots[k].id : k \in 1 .. n}
  /\ pc \in {"config", "idle", "scan", "missed"} => live = {}
=============================================================================
