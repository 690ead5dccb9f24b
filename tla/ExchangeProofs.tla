--------------------------- MODULE ExchangeProofs ---------------------------
(***************************************************************************)
(* For every sequence of requests, every directory and every buffer size,  *)
(* whatever handlers return and whatever allocation fails: the bodies of   *)
(* the responses are freed once, no byte is sent but those of texts and of *)
(* files below the root, and the client reads every answer as it was made. *)
(***************************************************************************)
EXTENDS Exchange, ListLemmas

Busy  == {"handle", "file", "base", "contain", "open", "measure", "read", "answer"}
Quiet == {"wait", "closed", "send"}

(* How far the worker and the client are.                                  *)
PlaceInv ==
  /\ script \in Scripts
  /\ sent \in Nat /\ served \in Nat /\ sent <= Len(script) /\ served <= sent
  /\ pc \in Busy \union Quiet
  /\ pc \in Busy \union {"send"} => served >= 1
  /\ IsList(made)
  /\ Len(made) = IF pc \in Busy THEN served - 1 ELSE served

LEMMA EmptyList == IsList(<<>>) /\ Len(<<>>) = 0
  BY DEF IsList

LEMMA ScriptLen ==
  ASSUME PlaceInv
  PROVE  Len(script) \in Nat /\ IsList(script)
<1>1. script \in Seq([head : BOOLEAN, ka : BOOLEAN, call : HandlerCall])
  BY ScriptsAssumption DEF PlaceInv
<1> QED
  BY <1>1, ListIs

LEMMA PlaceInit == Init => PlaceInv
<1> SUFFICES ASSUME Init PROVE PlaceInv
  OBVIOUS
<1>1. script \in Scripts /\ sent = 0 /\ served = 0 /\ pc = "wait" /\ made = <<>>
  BY DEF Init
<1>2. Len(script) \in Nat
  BY <1>1, ScriptsAssumption
<1> QED
  BY <1>1, <1>2, EmptyList DEF PlaceInv, Busy, Quiet

(* What the steps of static_handler() do to the place.                     *)
LEMMA StaticPlace ==
  ASSUME StaticNext
  PROVE  /\ pc \in Busy \ {"handle", "answer"} /\ pc' \in Busy \ {"handle", "file"}
         /\ served' = served
<1>1. served' = served
  BY DEF StaticNext, ResolveFile, ResolveBase, Contain, Open, Measure, ReadFile
<1>2. pc \in Busy \ {"handle", "answer"}
  BY DEF StaticNext, ResolveFile, ResolveBase, Contain, Open, Measure, ReadFile, Busy
<1>3. pc' \in Busy \ {"handle", "file"}
  BY DEF StaticNext, ResolveFile, ResolveBase, Contain, Open, Measure, ReadFile, Busy, Fails,
    Return
<1> QED
  BY <1>1, <1>2, <1>3

LEMMA PlaceStep == PlaceInv /\ [Next]_vars => PlaceInv'
<1> SUFFICES ASSUME PlaceInv, [Next]_vars PROVE PlaceInv'
  OBVIOUS
<1>0. Len(made) \in Nat /\ Len(script) \in Nat
  BY ScriptLen DEF PlaceInv, IsList
<1>1. CASE TakeRequest
  <2>1. pc = "wait" /\ served < sent /\ served' = served + 1 /\ pc' = "handle"
        /\ UNCHANGED <<script, sent, made>>
    BY <1>1 DEF TakeRequest, serverVars, clientVars
  <2> QED
    BY <2>1 DEF PlaceInv, Busy, Quiet
<1>2. CASE GiveUp \/ Finish
  <2>1. pc \in {"wait", "send"} /\ pc' \in {"wait", "closed"}
        /\ UNCHANGED <<script, sent, served, made>>
    BY <1>2 DEF GiveUp, Finish, serverVars, clientVars
  <2> QED
    BY <2>1 DEF PlaceInv, Busy, Quiet
<1>3. CASE Handle \/ HandleFile
  <2>1. pc = "handle" /\ pc' \in {"answer", "file"} /\ UNCHANGED <<script, sent, served, made>>
    BY <1>3 DEF Handle, HandleFile, Return, serverVars, clientVars
  <2> QED
    BY <2>1 DEF PlaceInv, Busy, Quiet
<1>4. CASE ServeFile
  <2>1. pc \in Busy /\ pc' \in Busy /\ UNCHANGED <<script, sent, served, made>>
    BY <1>4, StaticPlace DEF ServeFile, serverVars, clientVars
  <2> QED
    BY <2>1 DEF PlaceInv, Quiet
<1>5. CASE Answer \/ Refuse
  <2>1. pc \in {"answer", "handle"} /\ pc' = "send" /\ UNCHANGED <<script, sent, served>>
    BY <1>5 DEF Answer, Refuse, clientVars
  <2>2. \E e : made' = Append(made, e)
    BY <1>5 DEF Answer, Refuse
  <2>3. IsList(made') /\ Len(made') = Len(made) + 1
    BY <2>2, AppendList DEF PlaceInv
  <2> QED
    BY <2>1, <2>3 DEF PlaceInv, Busy, Quiet
<1>6. CASE SendRequest
  <2>1. sent < Len(script) /\ sent' = sent + 1 /\ UNCHANGED <<script, pc, served, made>>
    BY <1>6 DEF SendRequest, staticVars, serverVars
  <2> QED
    BY <1>0, <2>1 DEF PlaceInv
<1>7. CASE SendToken \/ Receive \/ SeeClose \/ Leave \/ OthersWrite \/ UNCHANGED vars
  <2>1. UNCHANGED <<script, sent, pc, served, made>>
    BY <1>7 DEF SendToken, Receive, SeeClose, Leave, OthersWrite, Rewrite, vars, staticVars,
      serverVars, clientVars
  <2> QED
    BY <2>1 DEF PlaceInv
<1> QED
  BY <1>1, <1>2, <1>3, <1>4, <1>5, <1>6, <1>7 DEF Next, Server, Client

LEMMA PlaceAlways == Spec => []PlaceInv
  BY PlaceInit, PlaceStep, PTL DEF Spec

----------------------------------------------------------------------------
(* Who owns what: the worker holds the bodies it has forgotten and what    *)
(* the request at hand needs.                                              *)

IsForgotten(r) == r.body /\ ~r.chunked /\ Fallback(r)
Forgotten == {<<"body", j>> : j \in {m \in 1 .. Len(made) : IsForgotten(made[m].r)}}

ToFree(r) == IF r.body /\ ~r.chunked THEN {Body} ELSE {}

InHand ==
  IF pc \in {"base", "open"} THEN {RealPath}
  ELSE IF pc = "contain" THEN {RealPath, BasePath}
  ELSE IF pc \in {"measure", "read"} THEN {Stream, RealPath}
  ELSE IF pc = "answer" THEN ToFree(resp)
  ELSE IF pc = "send" THEN Freed(resp) ELSE {}

OwnInv ==
  /\ ~misuse
  /\ live = Forgotten \union InHand
  /\ pc = "send" => \/ made[served].r = resp
                    \/ resp = Zero /\ ~made[served].r.body

LEMMA OwnInit == Init => OwnInv
<1> SUFFICES ASSUME Init PROVE OwnInv
  OBVIOUS
<1>1. made = <<>> /\ live = {} /\ misuse = FALSE /\ pc = "wait"
  BY DEF Init
<1>2. 1 .. Len(made) = {}
  BY <1>1, EmptyList
<1> QED
  BY <1>1, <1>2 DEF OwnInv, Forgotten, InHand

(* A body is not one of the handler's own resources.                       *)
LEMMA Different ==
  /\ RealPath \notin Forgotten /\ BasePath \notin Forgotten /\ Stream \notin Forgotten
  /\ RealPath # BasePath /\ RealPath # Stream /\ BasePath # Stream
<1>1. \A j : <<"body", j>> # <<"real">> /\ <<"body", j>> # <<"base">> /\ <<"body", j>> # <<"fp">>
  OBVIOUS
<1>2. RealPath # BasePath /\ RealPath # Stream /\ BasePath # Stream
  BY DEF RealPath, BasePath, Stream
<1> QED
  BY <1>1, <1>2 DEF Forgotten, RealPath, BasePath, Stream

(* The handler returns, having freed all it held.                          *)
LEMMA ReturnOwns ==
  ASSUME ~misuse, NEW freed, freed \in SUBSET {RealPath, BasePath, Stream},
         live = Forgotten \union freed, NEW r, Return(r, freed),
         Forgotten' = Forgotten, served' = served
  PROVE  OwnInv'
<1>1. misuse' = (misuse \/ ~(freed \subseteq live))
  BY Zenon DEF Return
<1>2. freed \subseteq live
  OBVIOUS
<1>3. ~misuse'
  BY <1>1, <1>2, Zenon
<1>4. \A x \in freed : x \notin Forgotten
  BY Different
<1>5. live \ freed = Forgotten
  BY <1>4
<1>6. pc' = "answer" /\ resp' = r
  BY DEF Return
<1>7. live' = Forgotten \union (IF r.body /\ ~r.chunked THEN {Body} ELSE {})
  BY <1>5 DEF Return
<1>8. Body' = Body
  BY DEF Body
<1>9. InHand' = IF r.body /\ ~r.chunked THEN {Body} ELSE {}
  BY <1>6, <1>8 DEF InHand, ToFree
<1> QED
  BY <1>3, <1>6, <1>7, <1>9 DEF OwnInv

(* Nothing was made, nothing decided: the same bodies are forgotten.       *)
LEMMA ForgottenKept ==
  ASSUME UNCHANGED <<made, notFoundSet>>
  PROVE  Forgotten' = Forgotten
  BY DEF Forgotten, IsForgotten, Fallback

LEMMA OwnStatic ==
  ASSUME OwnInv, PlaceInv, ServeFile
  PROVE  OwnInv'
<1>1. Forgotten' = Forgotten /\ served' = served
  BY ForgottenKept, StaticPlace DEF ServeFile, serverVars
<1>2. ~misuse /\ live = Forgotten \union InHand
  BY DEF OwnInv
<1>3. ASSUME NEW status, NEW freed, Fails(status, freed),
             freed = InHand, freed \in SUBSET {RealPath, BasePath, Stream}
      PROVE  OwnInv'
  <2>1. PICK r : Return(r, freed)
    BY <1>3 DEF Fails
  <2> QED
    BY <1>1, <1>2, <1>3, <2>1, ReturnOwns
<1>4. ASSUME NEW resource, Take(resource), pc' \in {"base", "contain", "measure"},
             InHand' = InHand \union {resource}
      PROVE  OwnInv'
  <2>1. live' = live \union {resource} /\ misuse' = misuse
    BY <1>4 DEF Take
  <2> QED
    BY <1>1, <1>2, <1>4, <2>1 DEF OwnInv
<1>5. CASE ResolveFile
  <2>1. pc = "file" /\ InHand = {}
    BY <1>5 DEF ResolveFile, InHand
  <2>2. CASE Real[want] = Absent
    BY <1>3, <1>5, <2>1, <2>2 DEF ResolveFile
  <2>3. CASE Real[want] # Absent
    <3>1. pc' = "base" /\ Take(RealPath)
      BY <1>5, <2>3 DEF ResolveFile
    <3>2. InHand' = {RealPath}
      BY <3>1 DEF InHand
    <3> QED
      BY <1>4, <2>1, <3>1, <3>2
  <2> QED
    BY <2>2, <2>3
<1>6. CASE ResolveBase
  <2>1. pc = "base" /\ InHand = {RealPath}
    BY <1>6 DEF ResolveBase, InHand
  <2>2. CASE Fails(404, {RealPath})
    BY <1>3, <2>1, <2>2
  <2>3. CASE pc' = "contain" /\ Take(BasePath)
    <3>1. InHand' = {RealPath, BasePath}
      BY <2>3 DEF InHand
    <3> QED
      BY <1>4, <2>1, <2>3, <3>1
  <2> QED
    BY <1>6, <2>2, <2>3 DEF ResolveBase
<1>7. CASE Contain
  <2>1. pc = "contain" /\ InHand = {RealPath, BasePath}
    BY <1>7 DEF Contain, InHand
  <2>2. CASE Inside(place, Base)
    <3>1. pc' = "open" /\ live' = live \ {BasePath} /\ misuse' = misuse
      BY <1>7, <2>2 DEF Contain
    <3>2. InHand' = {RealPath}
      BY <3>1 DEF InHand
    <3>3. live' = Forgotten \union {RealPath}
      BY <1>2, <2>1, <3>1, Different
    <3> QED
      BY <1>1, <1>2, <3>1, <3>2, <3>3 DEF OwnInv
  <2>3. CASE ~Inside(place, Base)
    BY <1>3, <1>7, <2>1, <2>3 DEF Contain
  <2> QED
    BY <2>2, <2>3
<1>8. CASE Open
  <2>1. pc = "open" /\ InHand = {RealPath}
    BY <1>8 DEF Open, InHand
  <2>2. CASE Kind[place] = "locked"
    BY <1>3, <1>8, <2>1, <2>2 DEF Open
  <2>3. CASE Kind[place] # "locked"
    <3>1. pc' = "measure" /\ Take(Stream)
      BY <1>8, <2>3 DEF Open
    <3>2. InHand' = {RealPath} \union {Stream}
      BY <3>1 DEF InHand
    <3> QED
      BY <1>4, <2>1, <3>1, <3>2
  <2> QED
    BY <2>2, <2>3
<1>9. CASE Measure
  <2>1. pc = "measure" /\ InHand = {Stream, RealPath}
    BY <1>9 DEF Measure, InHand
  <2>2. CASE Fails(404, {Stream, RealPath})
    BY <1>3, <2>1, <2>2
  <2>3. CASE pc' = "read" /\ UNCHANGED <<resp, heapVars>>
    <3>1. InHand' = InHand /\ live' = live /\ misuse' = misuse
      BY <2>1, <2>3 DEF InHand, heapVars
    <3> QED
      BY <1>1, <1>2, <2>3, <3>1 DEF OwnInv
  <2> QED
    BY <1>9, <2>2, <2>3 DEF Measure
<1>10. CASE ReadFile
  <2>1. pc = "read" /\ InHand = {Stream, RealPath}
    BY <1>10 DEF ReadFile, InHand
  <2>2. CASE Fails(500, {Stream, RealPath})
    BY <1>3, <2>1, <2>2
  <2>3. ASSUME NEW r, Return(r, {Stream, RealPath}) PROVE OwnInv'
    BY <1>1, <1>2, <2>1, <2>3, ReturnOwns
  <2> QED
    BY <1>10, <2>2, <2>3 DEF ReadFile
<1> QED
  BY <1>5, <1>6, <1>7, <1>8, <1>9, <1>10 DEF ServeFile, StaticNext

(* One response more is made: it is forgotten or to be freed.              *)
LEMMA ForgottenGrows ==
  ASSUME PlaceInv, pc \in Busy, NEW e, made' = Append(made, e), notFoundSet' = notFoundSet
  PROVE  /\ Forgotten' = Forgotten \union (IF IsForgotten(e.r) THEN {Body} ELSE {})
         /\ made'[served] = e
<1>1. IsList(made) /\ Len(made) \in Nat /\ Len(made) = served - 1 /\ served \in Nat
  BY DEF PlaceInv, IsList
<1>2. Len(made') = Len(made) + 1 /\ made'[Len(made) + 1] = e
      /\ \A x \in 1 .. Len(made) : made'[x] = made[x]
  BY <1>1, AppendList
<1>3. Len(made) + 1 = served
  BY <1>1
<1>4. \A x : x \in 1 .. Len(made') <=> x \in 1 .. Len(made) \/ x = served
  BY <1>1, <1>2, <1>3
<1>5. {m \in 1 .. Len(made') : IsForgotten(made'[m].r)} =
        {m \in 1 .. Len(made) : IsForgotten(made[m].r)}
          \union (IF IsForgotten(e.r) THEN {served} ELSE {})
  BY <1>2, <1>3, <1>4
<1>6. Forgotten' = {<<"body", j>> : j \in {m \in 1 .. Len(made') : IsForgotten(made'[m].r)}}
  BY DEF Forgotten, IsForgotten, Fallback
<1>7. Forgotten' = Forgotten \union (IF IsForgotten(e.r) THEN {Body} ELSE {})
  BY <1>5, <1>6 DEF Forgotten, Body
<1> QED
  BY <1>2, <1>3, <1>7

LEMMA OwnAnswer ==
  ASSUME OwnInv, PlaceInv, Answer \/ Refuse
  PROVE  OwnInv'
<1>1. CASE Answer
  <2> DEFINE e == [r |-> resp, quiet |-> out' = <<>>]
  <2>1. pc = "answer" /\ pc' = "send" /\ made' = Append(made, e)
        /\ UNCHANGED <<resp, served, live, misuse, notFoundSet>>
    BY <1>1 DEF Answer, heapVars
  <2>2. e.r = resp
    OBVIOUS
  <2> HIDE DEF e
  <2>3. Forgotten' = Forgotten \union (IF IsForgotten(resp) THEN {Body} ELSE {})
        /\ made'[served] = e
    BY <2>1, <2>2, ForgottenGrows DEF Busy
  <2>4. live = Forgotten \union ToFree(resp) /\ ~misuse
    BY <2>1 DEF OwnInv, InHand
  <2>5. InHand' = Freed(resp)
    BY <2>1 DEF InHand, Freed, Body, Fallback
  <2>6. Forgotten \union ToFree(resp) = Forgotten' \union Freed(resp)
    BY <2>3 DEF ToFree, Freed, IsForgotten
  <2>7. made'[served'].r = resp'
    BY <2>1, <2>2, <2>3
  <2> QED
    BY <2>1, <2>4, <2>5, <2>6, <2>7 DEF OwnInv
<1>2. CASE Refuse
  <2> DEFINE e == [r |-> [Copy(400, 1) EXCEPT !.body = FALSE, !.of = FixedPage], quiet |-> FALSE]
  <2>1. pc = "handle" /\ pc' = "send" /\ made' = Append(made, e) /\ resp' = Zero
        /\ UNCHANGED <<served, live, misuse, notFoundSet>>
    BY <1>2 DEF Refuse, heapVars
  <2>2. e.r.body = FALSE
    BY DEF Copy, Zero
  <2> HIDE DEF e
  <2>3. Forgotten' = Forgotten \union (IF IsForgotten(e.r) THEN {Body} ELSE {})
        /\ made'[served] = e
    BY <2>1, ForgottenGrows DEF Busy
  <2>4. Forgotten' = Forgotten
    BY <2>2, <2>3 DEF IsForgotten
  <2>5. InHand = {} /\ InHand' = {}
    BY <2>1 DEF InHand, Freed, Zero
  <2>6. ~made'[served'].r.body
    BY <2>1, <2>2, <2>3
  <2> QED
    BY <2>1, <2>4, <2>5, <2>6 DEF OwnInv
<1> QED
  BY <1>1, <1>2

LEMMA OwnFinish ==
  ASSUME OwnInv, PlaceInv, Finish
  PROVE  OwnInv'
<1>1. pc = "send" /\ pc' \in {"wait", "closed"} /\ live' = live \ Freed(resp)
      /\ UNCHANGED <<served, made, notFoundSet>>
  BY DEF Finish, serverVars
<1>2. Forgotten' = Forgotten
  BY <1>1, ForgottenKept
<1>3. live = Forgotten \union Freed(resp)
  BY <1>1 DEF OwnInv, InHand
<1>4. misuse' = (misuse \/ ~(Freed(resp) \subseteq live))
  BY Zenon DEF Finish
<1>5. ~misuse'
  <2>1. Freed(resp) \subseteq live /\ ~misuse
    BY <1>3 DEF OwnInv
  <2> QED
    BY <1>4, <2>1, Zenon
<1>6. \A x \in Freed(resp) : x \notin Forgotten
  <2> SUFFICES ASSUME resp.body, ~Fallback(resp) PROVE <<"body", served>> \notin Forgotten
    BY DEF Freed, Body
  <2>1. made[served].r = resp
    BY <1>1 DEF OwnInv, Zero
  <2>2. ~IsForgotten(made[served].r)
    BY <2>1 DEF IsForgotten
  <2> QED
    BY <2>2 DEF Forgotten
<1>7. live' = Forgotten
  BY <1>1, <1>3, <1>6
<1>8. InHand' = {}
  BY <1>1 DEF InHand
<1> QED
  BY <1>1, <1>2, <1>5, <1>7, <1>8 DEF OwnInv

LEMMA OwnStep == OwnInv /\ PlaceInv /\ [Next]_vars => OwnInv'
<1> SUFFICES ASSUME OwnInv, PlaceInv, [Next]_vars PROVE OwnInv'
  OBVIOUS
<1>1. CASE TakeRequest \/ GiveUp \/ HandleFile
  <2>1. UNCHANGED <<made, notFoundSet, live, misuse>>
    BY <1>1 DEF TakeRequest, GiveUp, HandleFile, heapVars, serverVars
  <2>2. pc \in {"wait", "handle"} /\ pc' \in {"handle", "closed", "file"}
    BY <1>1 DEF TakeRequest, GiveUp, HandleFile
  <2>3. InHand = {} /\ InHand' = {}
    BY <2>2 DEF InHand
  <2> QED
    BY <2>1, <2>2, <2>3, ForgottenKept DEF OwnInv
<1>2. CASE Handle
  <2>1. PICK r : Return(r, {})
    BY <1>2 DEF Handle
  <2>2. UNCHANGED <<made, notFoundSet, served>> /\ pc = "handle"
    BY <1>2 DEF Handle, serverVars
  <2>3. live = Forgotten \union {} /\ ~misuse
    BY <2>2 DEF OwnInv, InHand
  <2>4. Forgotten' = Forgotten
    BY <2>2, ForgottenKept
  <2> QED
    BY <2>1, <2>2, <2>3, <2>4, ReturnOwns
<1>3. CASE SendToken \/ SendRequest \/ Receive \/ SeeClose \/ Leave \/ OthersWrite
           \/ UNCHANGED vars
  <2>1. UNCHANGED <<pc, resp, served, made, notFoundSet, live, misuse>>
    BY <1>3 DEF SendToken, SendRequest, Receive, SeeClose, Leave, OthersWrite, Rewrite, vars,
      staticVars, serverVars, heapVars
  <2>2. InHand' = InHand
    BY <2>1 DEF InHand, ToFree, Freed, Body, Fallback
  <2> QED
    BY <2>1, <2>2, ForgottenKept DEF OwnInv
<1> QED
  BY <1>1, <1>2, <1>3, OwnStatic, OwnAnswer, OwnFinish DEF Next, Server, Client

LEMMA OwnAlways == Spec => []OwnInv
  BY OwnInit, OwnStep, PlaceAlways, PTL DEF Spec

(* No body a builder or static_handler() allocates, and no path or stream  *)
(* of static_handler(), is freed twice, or still held when the worker      *)
(* waits for a request or has closed the connection, whatever fails.  Only *)
(* a body returned with status 0, in whose place the 404 page was sent,    *)
(* may be.                                                                 *)
THEOREM BodiesFreedHolds == Spec => []BodiesFreed
<1>1. OwnInv => BodiesFreed
  BY DEF OwnInv, BodiesFreed, InHand, Forgotten, IsForgotten
<1> QED
  BY OwnAlways, <1>1, PTL

----------------------------------------------------------------------------
(* What a body can be made of.                                             *)

Sendable == {FromText, FixedPage} \union {p \in Paths : Below(p)}
Whole(r) ==
  /\ r.len \in Nat
  /\ IF r.body THEN r.filled = r.len /\ r.of \in Sendable ELSE ~r.chunked /\ r.of = Nowhere

(* The test of static_handler() on characters is the one on components.    *)
LEMMA InsideBelow ==
  ASSUME NEW p \in Paths, Inside(p, Base)
  PROVE  Below(p)
<1>1. p \in Seq(STRING) /\ Base \in Seq(STRING) /\ Base # <<>>
  BY FilesAssumption
<1>2. Len(p) \in Nat /\ Len(Base) \in Nat /\ Len(Base) >= 1
  BY <1>1
<1>3. Len(p) >= Len(Base) /\ SubSeq(p, 1, Len(Base)) = Base
  BY DEF Inside, StartsWith
<1>4. CASE Len(p) = Len(Base)
  <2>1. SubSeq(p, 1, Len(p)) = p
    BY <1>1
  <2> QED
    BY <1>3, <1>4, <2>1 DEF Below
<1>5. CASE Len(p) > Len(Base)
  <2>1. Len(Base) \in 1 .. Len(p) - 1
    BY <1>2, <1>5
  <2>2. p[Len(Base) + 1] = "/" \/ Base[Len(Base)] = "/"
    BY <1>2, <1>5 DEF Inside
  <2>3. SubSeq(p, 1, Len(Base))[Len(Base)] = p[Len(Base)]
    BY <1>1, <1>2, <1>3
  <2> QED
    BY <1>3, <2>1, <2>2, <2>3 DEF Below
<1> QED
  BY <1>2, <1>3, <1>4, <1>5

(* From the path requested to the response.                                *)
FileInv ==
  /\ size \in [Paths -> Nat]
  /\ pc = "file" => want \in DOMAIN Real
  /\ pc \in {"base", "contain", "open", "measure", "read"} => place \in Paths
  /\ pc \in {"open", "measure", "read"} => Below(place)
  /\ pc = "read" => measured \in Nat
  /\ pc = "answer" => Whole(resp)

LEMMA FileStart == Init => FileInv
  BY FilesAssumption DEF Init, FileInit, FileInv

LEMMA CopyWhole ==
  ASSUME NEW status, NEW m \in Nat
  PROVE  /\ Whole(Copy(status, m)) /\ Whole([Zero EXCEPT !.status = status])
         /\ \A r \in Error(status, m) : Whole(r)
<1>1. Whole(Copy(status, m))
  BY DEF Whole, Copy, Zero, Sendable
<1>2. Whole([Zero EXCEPT !.status = status])
  BY DEF Whole, Zero
<1> QED
  BY <1>1, <1>2 DEF Error

LEMMA RequestType ==
  ASSUME PlaceInv, pc \in Busy
  PROVE  /\ Request.head \in BOOLEAN /\ Request.call \in HandlerCall
         /\ Request.call.fn # "text" => Request.call.size \in Nat
<1>1. script \in Seq([head : BOOLEAN, ka : BOOLEAN, call : HandlerCall])
      /\ \A j \in 1 .. Len(script) : script[j].call.fn # "text" => script[j].call.size \in Nat
  BY ScriptsAssumption DEF PlaceInv
<1>2. served \in 1 .. Len(script)
  BY ScriptLen DEF PlaceInv, Busy
<1>3. script[served] \in [head : BOOLEAN, ka : BOOLEAN, call : HandlerCall]
  <2> DEFINE R == [head : BOOLEAN, ka : BOOLEAN, call : HandlerCall]
  <2>1. script \in Seq(R)
    BY <1>1
  <2> HIDE DEF R
  <2>2. script[served] \in R
    BY <1>2, <2>1
  <2> QED
    BY <2>2 DEF R
<1> QED
  BY <1>1, <1>2, <1>3 DEF Request

LEMMA BuiltWhole ==
  ASSUME NEW call \in HandlerCall, call.fn # "text" => call.size \in Nat,
         NEW r \in Built(call)
  PROVE  Whole(r)
<1>1. call.size \in Nat \union {-1}
  BY DEF HandlerCall
<1>2. Whole(Zero)
  BY DEF Whole, Zero
<1>3. CASE call.fn = "text"
  <2>1. r = Zero \/ (call.size \in Nat /\ r = Copy(200, call.size))
    BY <1>1, <1>3 DEF Built, Text
  <2> QED
    BY <1>2, <2>1, CopyWhole
<1>4. CASE call.fn = "welcome"
  <2>1. r = Copy(200, 1) \/ r \in Error(500, 1)
    BY <1>4 DEF Built
  <2>2. 1 \in Nat
    OBVIOUS
  <2> QED
    BY <2>1, <2>2, CopyWhole, ZenonT(30)
<1>5. CASE call.fn = "error"
  BY <1>5, CopyWhole DEF Built
<1>6. CASE call.fn = "chunked"
  <2>1. r = [Copy(call.status, call.size) EXCEPT !.chunked = TRUE, !.good = call.good]
    BY <1>6 DEF Built
  <2>2. call.size \in Nat
    BY <1>6
  <2> QED
    BY <2>1, <2>2 DEF Whole, Copy, Zero, Sendable
<1>7. CASE call.fn = "nobody"
  <2>1. r = [Zero EXCEPT !.status = 500, !.len = call.size]
    BY <1>7 DEF Built
  <2>2. call.size \in Nat
    BY <1>7
  <2> QED
    BY <2>1, <2>2 DEF Whole, Zero
<1>8. CASE call.fn \notin {"text", "welcome", "error", "chunked", "nobody"}
  BY <1>2, <1>8, CopyWhole, ZenonT(30) DEF Built
<1> QED
  BY <1>3, <1>4, <1>5, <1>6, <1>7, <1>8

LEMMA FileStatic ==
  ASSUME FileInv, ServeFile
  PROVE  FileInv'
<1>0. size' = size /\ want' = want
  BY DEF ServeFile, StaticNext, ResolveFile, ResolveBase, Contain, Open, Measure, ReadFile,
    fileVars, diskVars
<1>1. ASSUME NEW status, NEW freed, Fails(status, freed) PROVE FileInv'
  <2>1. PICK r \in Error(status, 1) : Return(r, freed)
    BY <1>1 DEF Fails
  <2>2. Whole(r)
    BY CopyWhole
  <2>3. Whole(resp)'
    BY <2>1, <2>2 DEF Return, Whole
  <2> QED
    BY <1>0, <2>1, <2>3 DEF Return, FileInv
<1>2. CASE ResolveFile
  <2>1. pc = "file" /\ want \in DOMAIN Real
    BY <1>2 DEF ResolveFile, FileInv
  <2>2. CASE Real[want] = Absent
    BY <1>1, <1>2, <2>2 DEF ResolveFile
  <2>3. CASE Real[want] # Absent
    <3>1. place' = Real[want] /\ pc' = "base"
      BY <1>2, <2>3 DEF ResolveFile
    <3>2. place' \in Paths
      BY <2>1, <2>3, <3>1, FilesAssumption
    <3> QED
      BY <1>0, <3>1, <3>2 DEF FileInv
  <2> QED
    BY <2>2, <2>3
<1>3. CASE ResolveBase
  <2>1. CASE Fails(404, {RealPath})
    BY <1>1, <2>1
  <2>2. CASE pc' = "contain"
    <3>1. pc = "base" /\ place' = place
      BY <1>3 DEF ResolveBase, fileVars
    <3> QED
      BY <1>0, <2>2, <3>1 DEF FileInv
  <2> QED
    BY <1>3, <2>1, <2>2 DEF ResolveBase
<1>4. CASE Contain
  <2>1. pc = "contain" /\ place' = place /\ place \in Paths
    BY <1>4 DEF Contain, fileVars, FileInv
  <2>2. CASE Inside(place, Base)
    <3>1. pc' = "open" /\ Below(place)
      BY <1>4, <2>1, <2>2, InsideBelow DEF Contain
    <3>2. Below(place)'
      BY <2>1, <3>1 DEF Below
    <3> QED
      BY <1>0, <2>1, <3>1, <3>2 DEF FileInv
  <2>3. CASE ~Inside(place, Base)
    BY <1>1, <1>4, <2>3 DEF Contain
  <2> QED
    BY <2>2, <2>3
<1>5. CASE Open
  <2>1. pc = "open" /\ place' = place /\ place \in Paths /\ Below(place)
    BY <1>5 DEF Open, fileVars, FileInv
  <2>2. Below(place)'
    BY <2>1 DEF Below
  <2>3. CASE pc' = "measure"
    BY <1>0, <2>1, <2>2, <2>3 DEF FileInv
  <2> QED
    BY <1>1, <1>5, <2>3 DEF Open
<1>6. CASE Measure
  <2>1. pc = "measure" /\ place' = place /\ place \in Paths /\ Below(place)
    BY <1>6 DEF Measure, FileInv
  <2>2. Below(place)'
    BY <2>1 DEF Below
  <2>3. CASE /\ measured' \in IF Kind[place] = "dir" THEN 0 .. MaxSize ELSE {size[place]}
             /\ pc' = "read"
    <3>1. measured' \in Nat
      BY <2>1, <2>3, FilesAssumption DEF FileInv
    <3> QED
      BY <1>0, <2>1, <2>2, <2>3, <3>1 DEF FileInv
  <2> QED
    BY <1>1, <1>6, <2>3 DEF Measure
<1>7. CASE ReadFile
  <2>1. pc = "read" /\ place \in Paths /\ Below(place) /\ measured \in Nat
    BY <1>7 DEF ReadFile, FileInv
  <2> DEFINE there == IF Kind[place] = "dir" THEN 0 ELSE size[place]
             total == IF there < measured THEN there ELSE measured
             r == [Copy(200, Announced(total)) EXCEPT !.filled = total, !.of = place]
  <2>2. CASE Return(r, {Stream, RealPath})
    <3>1. total \in Nat
      BY <2>1 DEF FileInv
    <3> HIDE DEF total
    <3>2. r.len = total /\ r.filled = total /\ r.of = place /\ r.body
      BY DEF Announced, Copy, Zero
    <3>3. place \in Sendable
      BY <2>1 DEF Sendable
    <3>4. pc' = "answer" /\ resp' = r
      BY <2>2 DEF Return
    <3> HIDE DEF r
    <3>5. Whole(resp)'
      BY <3>1, <3>2, <3>3, <3>4 DEF Whole
    <3> QED
      BY <1>0, <3>4, <3>5 DEF FileInv
  <2> QED
    BY <1>1, <1>7, <2>2 DEF ReadFile
<1> QED
  BY <1>2, <1>3, <1>4, <1>5, <1>6, <1>7 DEF ServeFile, StaticNext

LEMMA FileStep == FileInv /\ PlaceInv /\ [Next]_vars => FileInv'
<1> SUFFICES ASSUME FileInv, PlaceInv, [Next]_vars PROVE FileInv'
  OBVIOUS
<1>1. CASE Handle
  <2>1. PICK r \in Built(Request.call) : Return(r, {})
    BY <1>1 DEF Handle
  <2>2. pc = "handle" /\ size' = size
    BY <1>1 DEF Handle, diskVars
  <2>3. Request.call \in HandlerCall
        /\ (Request.call.fn # "text" => Request.call.size \in Nat)
    BY <2>2, RequestType DEF Busy
  <2>4. Whole(r)
    BY <2>3, BuiltWhole
  <2>5. Whole(resp)' /\ pc' = "answer"
    BY <2>1, <2>4 DEF Return, Whole
  <2> QED
    BY <2>2, <2>5 DEF FileInv
<1>2. CASE HandleFile
  <2>1. pc = "handle" /\ pc' = "file" /\ want' = Request.call.name /\ size' = size
    BY <1>2 DEF HandleFile, diskVars
  <2>2. Request.call \in HandlerCall
    BY <2>1, RequestType DEF Busy
  <2>3. want' \in DOMAIN Real
    BY <2>1, <2>2 DEF HandlerCall
  <2> QED
    BY <2>1, <2>3 DEF FileInv
<1>3. CASE TakeRequest \/ GiveUp \/ Answer \/ Refuse \/ Finish
  <2>1. pc' \in {"handle", "closed", "send", "wait"} /\ size' = size
    BY <1>3 DEF TakeRequest, GiveUp, Answer, Refuse, Finish, diskVars
  <2> QED
    BY <2>1 DEF FileInv
<1>4. CASE OthersWrite
  <2>1. UNCHANGED <<pc, want, place, measured, resp>>
    BY <1>4 DEF OthersWrite, Rewrite, fileVars
  <2>2. PICK f \in Paths, m \in 0 .. MaxSize : size' = [size EXCEPT ![f] = m]
    BY <1>4 DEF OthersWrite, Rewrite
  <2>3. size' \in [Paths -> Nat]
    <3>1. m \in Nat
      BY <2>2, FilesAssumption
    <3> QED
      BY <2>2, <3>1 DEF FileInv
  <2> QED
    BY <2>1, <2>3 DEF FileInv, Below, Whole
<1>5. CASE SendToken \/ SendRequest \/ Receive \/ SeeClose \/ Leave \/ UNCHANGED vars
  <2>1. UNCHANGED staticVars
    BY <1>5 DEF SendToken, SendRequest, Receive, SeeClose, Leave, vars
  <2> QED
    BY <2>1 DEF staticVars, FileInv, Below, Whole
<1> QED
  BY <1>1, <1>2, <1>3, <1>4, <1>5, FileStatic DEF Next, Server, Client

LEMMA FileAlways == Spec => []FileInv
  BY FileStart, FileStep, PlaceAlways, PTL DEF Spec

(* From the response to the client.                                        *)
Clean(token)  == token.t = "byte" => token.of \in Sendable
CleanList(q)  == IsList(q) /\ \A x \in 1 .. Len(q) : Clean(q[x])
CleanHeard(r) == r = [status |-> r.status, bytes |-> r.bytes] /\ r.bytes \in Seq(Sendable)

LEMMA CleanOne ==
  ASSUME NEW token, Clean(token)
  PROVE  CleanList(<<token>>)
<1>1. Len(<<token>>) = 1 /\ <<token>>[1] = token /\ IsList(<<token>>)
  BY DEF IsList
<1> QED
  BY <1>1 DEF CleanList

LEMMA CleanEmpty == CleanList(<<>>)
  BY EmptyList DEF CleanList

LEMMA CleanAppend ==
  ASSUME NEW q, CleanList(q), NEW token, Clean(token)
  PROVE  CleanList(Append(q, token))
<1>1. IsList(q) /\ Len(q) \in Nat
  BY DEF CleanList, IsList
<1>2. IsList(Append(q, token)) /\ Len(Append(q, token)) = Len(q) + 1
      /\ Append(q, token)[Len(q) + 1] = token
      /\ \A x \in 1 .. Len(q) : Append(q, token)[x] = q[x]
  BY <1>1, AppendList
<1>3. ASSUME NEW x \in 1 .. Len(q) + 1 PROVE Clean(Append(q, token)[x])
  <2>1. x \in 1 .. Len(q) \/ x = Len(q) + 1
    BY <1>1
  <2> QED
    BY <1>2, <2>1 DEF CleanList
<1> QED
  BY <1>2, <1>3 DEF CleanList

LEMMA CleanTail ==
  ASSUME NEW q, CleanList(q), q # <<>>
  PROVE  CleanList(Tail(q)) /\ Clean(Head(q))
<1>1. IsList(q) /\ Len(q) \in Nat
  BY DEF CleanList, IsList
<1>2. IsList(Tail(q)) /\ Len(Tail(q)) = Len(q) - 1 /\ Len(q) >= 1 /\ Head(q) = q[1]
      /\ \A x \in 1 .. Len(q) - 1 : Tail(q)[x] = q[x + 1]
  BY <1>1, TailList
<1>3. 1 \in 1 .. Len(q) /\ \A x \in 1 .. Len(q) - 1 : x + 1 \in 1 .. Len(q)
  BY <1>1, <1>2
<1> QED
  BY <1>2, <1>3 DEF CleanList

LEMMA CleanConcat ==
  ASSUME NEW q, CleanList(q), NEW s, CleanList(s)
  PROVE  CleanList(q \o s)
<1>1. IsList(q) /\ IsList(s) /\ Len(q) \in Nat /\ Len(s) \in Nat
  BY DEF CleanList, IsList
<1>2. IsList(q \o s) /\ Len(q \o s) = Len(q) + Len(s)
      /\ (\A x \in 1 .. Len(q) : (q \o s)[x] = q[x])
      /\ (\A x \in 1 .. Len(s) : (q \o s)[Len(q) + x] = s[x])
  BY <1>1, ConcatList
<1>3. ASSUME NEW x \in 1 .. Len(q) + Len(s) PROVE Clean((q \o s)[x])
  <2>1. CASE x <= Len(q)
    <3>1. x \in 1 .. Len(q)
      BY <1>1, <2>1
    <3> QED
      BY <1>2, <3>1 DEF CleanList
  <2>2. CASE x > Len(q)
    <3>1. x - Len(q) \in 1 .. Len(s) /\ x = Len(q) + (x - Len(q))
      BY <1>1, <2>2
    <3>2. (q \o s)[x] = s[x - Len(q)]
      BY <1>2, <3>1
    <3> QED
      BY <3>1, <3>2 DEF CleanList
  <2> QED
    BY <1>1, <2>1, <2>2
<1> QED
  BY <1>2, <1>3 DEF CleanList

LEMMA HeadClean ==
  ASSUME NEW r, NEW keep
  PROVE  CleanList(HeadOf(r, keep))
<1> DEFINE h == [t |-> "head", status |-> r.status, chunked |-> r.chunked,
                 length |-> r.len, close |-> ~keep]
<1>1. h.t = "head"
  OBVIOUS
<1>2. HeadOf(r, keep) = <<h>>
  BY DEF HeadOf
<1> HIDE DEF h
<1>3. Clean(h)
  BY <1>1 DEF Clean
<1> QED
  BY <1>2, <1>3, CleanOne

LEMMA BytesClean ==
  ASSUME NEW r, Whole(r), r.body
  PROVE  CleanList(Bytes(r))
<1>1. r.len \in Nat /\ r.filled = r.len /\ r.of \in Sendable
  BY DEF Whole
<1>2. Bytes(r) = [k \in 1 .. r.len |-> [t |-> "byte", of |-> r.of]]
  BY <1>1 DEF Bytes
<1>3. Len(Bytes(r)) = r.len /\ \A k \in 1 .. r.len : Bytes(r)[k] = [t |-> "byte", of |-> r.of]
  BY <1>1, <1>2
<1>4. IsList(Bytes(r))
  BY <1>1, <1>2, <1>3 DEF IsList
<1> QED
  BY <1>1, <1>3, <1>4 DEF CleanList, Clean

LEMMA PageClean ==
  ASSUME NEW status, NEW keep
  PROVE  CleanList(Page(status, keep))
<1> DEFINE r == [Copy(status, 1) EXCEPT !.of = FixedPage]
<1>1. Whole(r) /\ r.body
  BY DEF Whole, Copy, Zero, Sendable
<1>2. Page(status, keep) = HeadOf(r, keep) \o Bytes(r)
  BY DEF Page
<1> HIDE DEF r
<1> QED
  BY <1>1, <1>2, HeadClean, BytesClean, CleanConcat

LEMMA SentClean ==
  ASSUME NEW r, Whole(r), NEW head, NEW q \in Sent(r, head)
  PROVE  CleanList(q)
<1> DEFINE h == HeadOf(r, Request.ka)
<1>1. CleanList(h)
  BY HeadClean
<1>2. CleanList(<<[t |-> "last"]>>) /\ CleanList(<<[t |-> "crlf"]>>)
      /\ CleanList(<<[t |-> "size", n |-> r.len]>>)
  <2>1. Clean([t |-> "last"]) /\ Clean([t |-> "crlf"]) /\ Clean([t |-> "size", n |-> r.len])
    BY DEF Clean
  <2> QED
    BY <2>1, CleanOne
<1>3. CleanList(Chunk(r))
  <2>1. CASE r.body /\ r.len > 0
    <3>1. CleanList(Bytes(r))
      BY <2>1, BytesClean
    <3>2. CleanList(<<[t |-> "size", n |-> r.len]>> \o Bytes(r) \o <<[t |-> "crlf"]>>)
      BY <1>2, <3>1, CleanConcat
    <3> QED
      BY <2>1, <3>2 DEF Chunk
  <2>2. CASE ~(r.body /\ r.len > 0)
    BY <2>2, CleanEmpty DEF Chunk
  <2> QED
    BY <2>1, <2>2
<1>4. \/ q = <<>> \/ q = h
      \/ q = h \o Chunk(r) \o <<[t |-> "last"]>>
      \/ r.body /\ q = h \o Bytes(r)
  BY DEF Sent
<1> HIDE DEF h
<1>5. CleanList(h \o Chunk(r) \o <<[t |-> "last"]>>)
  BY <1>1, <1>2, <1>3, CleanConcat
<1>6. r.body => CleanList(h \o Bytes(r))
  BY <1>1, BytesClean, CleanConcat
<1> QED
  BY <1>1, <1>4, <1>5, <1>6, CleanEmpty

CleanInv ==
  /\ CleanList(out) /\ CleanList(wire)
  /\ CleanHeard(heard)
  /\ IsList(got) /\ \A j \in 1 .. Len(got) : CleanHeard(got[j])

LEMMA CleanInit == Init => CleanInv
<1> SUFFICES ASSUME Init PROVE CleanInv
  OBVIOUS
<1>1. out = <<>> /\ wire = <<>> /\ got = <<>> /\ heard = [status |-> 0, bytes |-> <<>>]
  BY DEF Init
<1>2. CleanHeard(heard)
  BY <1>1 DEF CleanHeard
<1> QED
  BY <1>1, <1>2, CleanEmpty, EmptyList DEF CleanInv

LEMMA HeardMore ==
  ASSUME IsList(got), \A j \in 1 .. Len(got) : CleanHeard(got[j]), NEW r, CleanHeard(r),
         got' = Append(got, r)
  PROVE  IsList(got') /\ \A j \in 1 .. Len(got') : CleanHeard(got'[j])
<1>1. IsList(got') /\ Len(got') = Len(got) + 1 /\ got'[Len(got) + 1] = r
      /\ \A x \in 1 .. Len(got) : got'[x] = got[x]
  BY AppendList
<1>2. \A j \in 1 .. Len(got') : j \in 1 .. Len(got) \/ j = Len(got) + 1
  BY <1>1 DEF IsList
<1> QED
  BY <1>1, <1>2

LEMMA CleanReceive ==
  ASSUME CleanInv, Receive
  PROVE  CleanInv'
<1> DEFINE token == Head(wire)
<1>1. wire # <<>> /\ wire' = Tail(wire) /\ out' = out
  BY DEF Receive, serverVars
<1>2. CleanList(wire') /\ Clean(token)
  BY <1>1, CleanTail DEF CleanInv
<1>3. ASSUME UNCHANGED <<heard, got>> PROVE CleanInv'
  BY <1>1, <1>2, <1>3 DEF CleanInv
<1>4. ASSUME NEW r, CleanHeard(r), got' = Append(got, r), heard' \in {heard, r} PROVE CleanInv'
  BY <1>1, <1>2, <1>4, HeardMore DEF CleanInv
<1>5. ASSUME NEW r, CleanHeard(r), got' = got, heard' = r PROVE CleanInv'
  BY <1>1, <1>2, <1>5 DEF CleanInv
<1>6. CASE token.t \notin Expected[rd]
  <2>1. UNCHANGED <<heard, got>>
    BY <1>6 DEF Receive
  <2> QED
    BY <1>3, <2>1
<1> HIDE DEF token
<1>7. CASE ReadHead(token)
  <2> DEFINE r == [status |-> token.status, bytes |-> <<>>]
  <2>1. CleanHeard(r)
    BY DEF CleanHeard
  <2>2. (got' = Append(got, r) /\ heard' = heard) \/ (heard' = r /\ got' = got)
    BY <1>7 DEF ReadHead, Done
  <2> QED
    BY <1>4, <1>5, <2>1, <2>2
<1>8. CASE ReadByte(token) /\ token.t = "byte"
  <2> DEFINE r == [heard EXCEPT !.bytes = Append(@, token.of)]
  <2>1. token.of \in Sendable
    BY <1>2, <1>8 DEF Clean
  <2>2. heard = [status |-> heard.status, bytes |-> heard.bytes] /\ heard.bytes \in Seq(Sendable)
    BY DEF CleanInv, CleanHeard
  <2>3. Append(heard.bytes, token.of) \in Seq(Sendable)
    BY <2>1, <2>2
  <2>4. r = [status |-> heard.status, bytes |-> Append(heard.bytes, token.of)]
    BY <2>2
  <2>5. CleanHeard(r)
    BY <2>3, <2>4 DEF CleanHeard
  <2>6. heard' = r /\ (got' = got \/ got' = Append(got, r))
    BY <1>8 DEF ReadByte, Done
  <2> QED
    BY <1>4, <1>5, <2>5, <2>6
<1>9. CASE ReadChunked(token)
  <2>1. heard' = heard /\ (got' = got \/ got' = Append(got, heard))
    BY <1>9 DEF ReadChunked, Done
  <2>2. CleanHeard(heard)
    BY DEF CleanInv
  <2> QED
    BY <1>3, <1>4, <2>1, <2>2
<1> QED
  BY <1>6, <1>7, <1>8, <1>9 DEF Receive, token

LEMMA CleanStep == CleanInv /\ FileInv /\ [Next]_vars => CleanInv'
<1> SUFFICES ASSUME CleanInv, FileInv, [Next]_vars PROVE CleanInv'
  OBVIOUS
<1>1. CASE Answer
  <2>1. pc = "answer" /\ UNCHANGED <<wire, heard, got>>
        /\ out' \in IF Fallback(resp) THEN {Page(404, Request.ka)} ELSE Sent(resp, Request.head)
    BY <1>1 DEF Answer, clientVars
  <2>2. CleanList(out')
    BY <2>1, PageClean, SentClean DEF FileInv
  <2> QED
    BY <2>1, <2>2 DEF CleanInv
<1>2. CASE Refuse
  <2>1. out' = Page(400, FALSE) /\ UNCHANGED <<wire, heard, got>>
    BY <1>2 DEF Refuse, clientVars
  <2> QED
    BY <2>1, PageClean DEF CleanInv
<1>3. CASE SendToken
  <2>1. out # <<>> /\ out' = Tail(out) /\ UNCHANGED <<heard, got>>
        /\ (wire' = wire \/ wire' = Append(wire, Head(out)))
    BY <1>3 DEF SendToken, clientVars
  <2>2. CleanList(out') /\ Clean(Head(out))
    BY <2>1, CleanTail DEF CleanInv
  <2>3. CleanList(wire')
    BY <2>1, <2>2, CleanAppend DEF CleanInv
  <2> QED
    BY <2>1, <2>2, <2>3 DEF CleanInv
<1>4. CASE Leave
  <2>1. wire' = <<>> /\ UNCHANGED <<out, heard, got>>
    BY <1>4 DEF Leave, serverVars
  <2> QED
    BY <2>1, CleanEmpty DEF CleanInv
<1>5. CASE TakeRequest \/ GiveUp \/ Handle \/ HandleFile \/ ServeFile \/ Finish \/ OthersWrite
           \/ SendRequest \/ SeeClose \/ UNCHANGED vars
  <2>1. UNCHANGED <<out, wire, heard, got>>
    BY <1>5 DEF TakeRequest, GiveUp, Handle, HandleFile, ServeFile, Finish, OthersWrite,
      SendRequest, SeeClose, vars, serverVars, clientVars
  <2> QED
    BY <2>1 DEF CleanInv
<1> QED
  BY <1>1, <1>2, <1>3, <1>4, <1>5, CleanReceive DEF Next, Server, Client

LEMMA CleanAlways == Spec => []CleanInv
  BY CleanInit, CleanStep, FileAlways, PTL DEF Spec

LEMMA HeardSendable ==
  ASSUME CleanInv
  PROVE  Heard \subseteq Sendable
<1>1. \A j \in 1 .. Len(got) : got[j].bytes \in Seq(Sendable)
  BY DEF CleanInv, CleanHeard
<1>2. \A j \in 1 .. Len(got) : \A k \in 1 .. Len(got[j].bytes) : got[j].bytes[k] \in Sendable
  BY <1>1
<1> QED
  BY <1>2 DEF Heard

(* Whatever names clients ask for and whatever those resolve to, through   *)
(* links or not, a byte of a file reaches a client only if the file lies   *)
(* in the directory static_handler() was given.                            *)
THEOREM ContainedHolds == Spec => []Contained
<1>1. CleanInv => Contained
  <2>1. FromText \notin Paths /\ FixedPage \notin Paths
    BY FilesAssumption
  <2> QED
    BY <2>1, HeardSendable DEF Contained, Sendable
<1> QED
  BY CleanAlways, <1>1, PTL

(* However files change between ftell() and fread(), and whatever answer   *)
(* is sent in whatever form, no byte of a body is one nobody wrote.        *)
THEOREM NoGarbageHolds == Spec => []NoGarbage
<1>1. CleanInv => NoGarbage
  <2>1. Garbage \notin Sendable
    <3>1. Garbage # FromText /\ Garbage # FixedPage
      BY DEF Garbage, FromText, FixedPage
    <3> QED
      BY <3>1, FilesAssumption DEF Sendable
  <2> QED
    BY <2>1, HeardSendable DEF NoGarbage
<1> QED
  BY CleanAlways, <1>1, PTL

----------------------------------------------------------------------------
(* The client stays in step.  What is on its way to it, on the connection  *)
(* and still with the worker, is the rest of the answer it is reading.     *)

Pending == wire \o out

Run(m, o)  == [k \in 1 .. m |-> [t |-> "byte", of |-> o]]
Same(m, o) == [k \in 1 .. m |-> o]
LastToken  == <<[t |-> "last"]>>
EndTokens  == <<[t |-> "crlf"]>> \o LastToken

(* The answer to the latest request, once it is made.                      *)
Current == made[sent].r
Status  == IF Fallback(Current) THEN 404 ELSE Current.status
Size    == IF Fallback(Current) THEN 1 ELSE Current.len
Of      == IF Fallback(Current) THEN FixedPage ELSE Current.of
Chunks  == ~Fallback(Current) /\ Current.chunked

After ==       \* what follows its head, if that is not all
  IF ~Chunks THEN Run(Size, Of)
  ELSE IF Size > 0 THEN <<[t |-> "size", n |-> Size]>> \o (Run(Size, Of) \o EndTokens)
  ELSE LastToken

IsHead(h) == h.t = "head" /\ h.status = Status /\ h.length = Size /\ (h.chunked <=> Chunks)

Before ==      \* all of it is to come
  /\ Pending # <<>> /\ IsHead(Head(Pending))
  /\ IF script[sent].head THEN Head(Pending).close \/ Tail(Pending) = <<>>
                          ELSE Tail(Pending) = After

InBody(m) ==   \* m bytes are read
  /\ Len(made) = sent /\ ~script[sent].head
  /\ m \in 0 .. Size /\ heard = [status |-> Status, bytes |-> Same(m, Of)]

Reading == {"head", "body", "size", "chunk", "crlf"}

Following ==
  /\ rd \in Reading \union {"idle", "gone", "over"}
  /\ Len(got) <= Len(made) /\ \A j \in 1 .. Len(got) : got[j] = Meant(j)
  /\ rd = "idle" => Len(got) = sent /\ Len(made) = sent /\ (closing \/ Pending = <<>>)
  /\ rd \in Reading => sent >= 1 /\ Len(got) = sent - 1
  /\ rd = "head" => \/ Len(made) = sent - 1 /\ Pending = <<>>
                    \/ Len(made) = sent /\ made[sent].quiet /\ Pending = <<>>
                    \/ Len(made) = sent /\ Before
  /\ rd = "body" => /\ left \in 1 .. Size /\ InBody(Size - left) /\ ~Chunks
                    /\ Pending = Run(left, Of)
  /\ rd = "size" => /\ Chunks
                    /\ \/ InBody(0) /\ Pending = After
                       \/ InBody(Size) /\ Pending = LastToken
  /\ rd = "chunk" => /\ left \in 1 .. Size /\ InBody(Size - left) /\ Chunks
                     /\ Pending = Run(left, Of) \o EndTokens
  /\ rd = "crlf" => InBody(Size) /\ Chunks /\ Pending = EndTokens
  /\ rd = "over" => pc = "closed" /\ \A j \in 1 .. Len(made) : made[j].quiet \/ j <= Len(got)

(* An answer as it was made, not only as it was meant.                     *)
Entry(r) == Whole(r) \/ (r.len = 1 /\ r.filled = 1 /\ r.of = FixedPage /\ ~r.chunked)

NoneUpset == \A j \in 1 .. Len(made) : ~Upset(j)

StepInv ==
  /\ pc # "send" => out = <<>>
  /\ \A j \in 1 .. Len(made) : Entry(made[j].r)
  /\ NoneUpset => Following

(* Runs of equal bytes.                                                    *)
LEMMA RunIs ==
  ASSUME NEW m \in Nat, NEW o
  PROVE  /\ IsList(Run(m, o)) /\ Len(Run(m, o)) = m
         /\ m = 0 => Run(m, o) = <<>>
         /\ m >= 1 => /\ Run(m, o) # <<>> /\ Head(Run(m, o)) = [t |-> "byte", of |-> o]
                      /\ Tail(Run(m, o)) = Run(m - 1, o)
<1>0. \A k \in Nat : Len(Run(k, o)) = k /\ \A x \in 1 .. k : Run(k, o)[x] = [t |-> "byte", of |-> o]
  BY DEF Run
<1>1. \A k \in Nat : IsList(Run(k, o))
  BY <1>0 DEF IsList, Run
<1>2. m = 0 => Run(m, o) = <<>>
  <2>1. ASSUME m = 0 PROVE Run(m, o) = <<>>
    <3>1. IsList(<<>>) /\ Len(<<>>) = 0 /\ IsList(Run(m, o)) /\ Len(Run(m, o)) = 0
      BY <1>0, <1>1, <2>1, EmptyList
    <3> QED
      BY <3>1, SameList
  <2> QED
    BY <2>1
<1>3. ASSUME m >= 1
      PROVE  /\ Run(m, o) # <<>> /\ Head(Run(m, o)) = [t |-> "byte", of |-> o]
             /\ Tail(Run(m, o)) = Run(m - 1, o)
  <2>1. Run(m, o) # <<>>
    BY <1>0, <1>3, EmptyList
  <2>2. IsList(Tail(Run(m, o))) /\ Len(Tail(Run(m, o))) = m - 1 /\ Head(Run(m, o)) = Run(m, o)[1]
        /\ \A x \in 1 .. m - 1 : Tail(Run(m, o))[x] = Run(m, o)[x + 1]
    BY <1>0, <1>1, <2>1, TailList
  <2>3. m - 1 \in Nat /\ 1 \in 1 .. m /\ \A x \in 1 .. m - 1 : x + 1 \in 1 .. m
    BY <1>3
  <2>4. \A x \in 1 .. m - 1 : Tail(Run(m, o))[x] = Run(m - 1, o)[x]
    BY <1>0, <2>2, <2>3
  <2>5. Tail(Run(m, o)) = Run(m - 1, o)
    <3>1. IsList(Run(m - 1, o)) /\ Len(Run(m - 1, o)) = m - 1
      BY <1>0, <1>1, <2>3
    <3> QED
      BY <2>2, <2>4, <3>1, SameList
  <2> QED
    BY <1>0, <2>1, <2>2, <2>3, <2>5
<1> QED
  BY <1>0, <1>1, <1>2, <1>3

LEMMA SameIs ==
  ASSUME NEW m \in Nat, NEW o
  PROVE  /\ IsList(Same(m, o)) /\ Len(Same(m, o)) = m
         /\ Append(Same(m, o), o) = Same(m + 1, o)
         /\ m = 0 => Same(m, o) = <<>>
<1>0. \A k \in Nat : Len(Same(k, o)) = k /\ \A x \in 1 .. k : Same(k, o)[x] = o
  BY DEF Same
<1>1. \A k \in Nat : IsList(Same(k, o))
  BY <1>0 DEF IsList, Same
<1>2. Append(Same(m, o), o) = Same(m + 1, o)
  <2> DEFINE a == Append(Same(m, o), o)
  <2>1. IsList(a) /\ Len(a) = m + 1 /\ a[m + 1] = o /\ \A x \in 1 .. m : a[x] = Same(m, o)[x]
    BY <1>0, <1>1, AppendList
  <2>2. m + 1 \in Nat /\ \A x \in 1 .. m + 1 : x \in 1 .. m \/ x = m + 1
    OBVIOUS
  <2> HIDE DEF a
  <2>3. \A x \in 1 .. m + 1 : a[x] = Same(m + 1, o)[x]
    BY <1>0, <2>1, <2>2
  <2>4. a = Same(m + 1, o)
    BY <1>0, <1>1, <2>1, <2>2, <2>3, SameList
  <2> QED
    BY <2>4 DEF a
<1>3. m = 0 => Same(m, o) = <<>>
  <2>1. ASSUME m = 0 PROVE Same(m, o) = <<>>
    <3>1. IsList(Same(m, o)) /\ Len(Same(m, o)) = 0
      BY <1>0, <1>1, <2>1
    <3> QED
      BY <3>1, EmptyList, SameList
  <2> QED
    BY <2>1
<1> QED
  BY <1>0, <1>1, <1>2, <1>3

LEMMA EndIs ==
  /\ IsList(LastToken) /\ LastToken # <<>> /\ Head(LastToken) = [t |-> "last"]
  /\ Tail(LastToken) = <<>>
  /\ IsList(EndTokens) /\ EndTokens # <<>> /\ Head(EndTokens) = [t |-> "crlf"]
  /\ Tail(EndTokens) = LastToken
<1>1. IsList(LastToken) /\ LastToken # <<>> /\ Head(LastToken) = [t |-> "last"]
      /\ Tail(LastToken) = <<>>
  BY DEF LastToken, IsList
<1> QED
  BY <1>1, ConsIs DEF EndTokens

(* The queue to the client, as one.                                        *)
LEMMA PendingIs ==
  ASSUME CleanInv
  PROVE  IsList(Pending) /\ IsList(wire) /\ IsList(out)
<1>1. IsList(wire) /\ IsList(out)
  BY DEF CleanInv, CleanList
<1> QED
  BY <1>1, ConcatList DEF Pending

LEMMA PendingReceived ==
  ASSUME CleanInv, Receive
  PROVE  Pending # <<>> /\ Pending' = Tail(Pending) /\ Head(wire) = Head(Pending)
<1>1. wire # <<>> /\ wire' = Tail(wire) /\ out' = out
  BY DEF Receive, serverVars
<1>2. Pending' = Tail(wire) \o out
  BY <1>1 DEF Pending
<1>3. IsList(wire) /\ IsList(out)
  BY PendingIs
<1>4. Tail(wire) \o out = Tail(wire \o out) /\ Head(wire \o out) = Head(wire) /\ wire \o out # <<>>
  BY <1>1, <1>3, TakeHead
<1> QED
  BY <1>2, <1>4 DEF Pending

LEMMA PendingSent ==
  ASSUME CleanInv, SendToken, rd # "gone"
  PROVE  Pending' = Pending
<1>1. out # <<>> /\ wire' = Append(wire, Head(out)) /\ out' = Tail(out)
  BY DEF SendToken
<1>2. IsList(wire) /\ IsList(out)
  BY PendingIs
<1> QED
  BY <1>1, <1>2, MoveHead DEF Pending

(* What was made stays as it is.                                           *)
LEMMA AnswerKept ==
  ASSUME UNCHANGED <<script, made, notFoundSet>>
  PROVE  /\ \A j : Meant(j)' = Meant(j)
         /\ NoneUpset' <=> NoneUpset
         /\ sent' = sent => /\ Status' = Status /\ Size' = Size /\ Of' = Of /\ Chunks' = Chunks
                            /\ After' = After
<1>1. \A r : Fallback(r)' <=> Fallback(r)
  BY DEF Fallback
<1>2. \A j : Meant(j)' = Meant(j)
  BY DEF Meant, Fallback, Bytes
<1>3. NoneUpset' <=> NoneUpset
  BY DEF NoneUpset, Upset, Fallback
<1>4. ASSUME sent' = sent
      PROVE  Status' = Status /\ Size' = Size /\ Of' = Of /\ Chunks' = Chunks /\ After' = After
  <2>1. Status' = Status /\ Size' = Size /\ Of' = Of /\ Chunks' = Chunks
    BY <1>4 DEF Status, Size, Of, Chunks, Current, Fallback
  <2> QED
    BY <2>1 DEF After
<1> QED
  BY <1>2, <1>3, <1>4

(* The latest answer, as the client is to understand it.                   *)
LEMMA MeantCurrent ==
  ASSUME StepInv, NoneUpset, PlaceInv, Len(made) = sent, sent >= 1
  PROVE  /\ Size \in Nat
         /\ Meant(sent) = [status |-> Status,
                           bytes  |-> IF script[sent].head THEN <<>> ELSE Same(Size, Of)]
<1>1. sent \in 1 .. Len(made) /\ ~Upset(sent) /\ Entry(Current)
  BY DEF StepInv, NoneUpset, PlaceInv, Current
<1>2. CASE Fallback(Current)
  <2>1. ~script[sent].head
    BY <1>1, <1>2 DEF Upset, Current
  <2>2. Meant(sent) = [status |-> 404, bytes |-> <<FixedPage>>]
    BY <1>2 DEF Meant, Current
  <2>3. Same(1, FixedPage) = <<FixedPage>>
    <3>1. IsList(<<FixedPage>>) /\ Len(<<FixedPage>>) = 1 /\ <<FixedPage>>[1] = FixedPage
      BY DEF IsList
    <3>2. IsList(Same(1, FixedPage)) /\ Len(Same(1, FixedPage)) = 1
      <4>1. 1 \in Nat
        OBVIOUS
      <4> QED
        BY <4>1, SameIs
    <3>3. \A x \in 1 .. 1 : x = 1 /\ Same(1, FixedPage)[x] = FixedPage
      BY DEF Same
    <3> QED
      BY <3>1, <3>2, <3>3, SameList
  <2> QED
    BY <1>2, <2>1, <2>2, <2>3 DEF Status, Size, Of
<1>3. CASE ~Fallback(Current)
  <2>1. Status = Current.status /\ Size = Current.len /\ Of = Current.of
    BY <1>3 DEF Status, Size, Of
  <2>2. Current.len \in Nat /\ (Current.len = 0 \/ Current.filled = Current.len)
    <3>1. CASE Whole(Current) /\ ~Current.body
      <4>0. Nowhere # FixedPage
        BY DEF Nowhere, FixedPage
      <4>1. Current.of # FixedPage
        BY <3>1, <4>0 DEF Whole
      <4>2. ~(Current.len > 0)
        BY <1>1, <3>1, <4>1 DEF Upset, Current
      <4> QED
        BY <3>1, <4>2 DEF Whole
    <3>2. CASE Whole(Current) /\ Current.body
      BY <3>2 DEF Whole
    <3>3. CASE Current.len = 1 /\ Current.filled = 1
      BY <3>3
    <3> QED
      BY <1>1, <3>1, <3>2, <3>3 DEF Entry
  <2>3. Meant(sent) = [status |-> Current.status,
                       bytes  |-> IF script[sent].head THEN <<>>
                                  ELSE [k \in 1 .. Current.len |-> Bytes(Current)[k].of]]
    BY <1>3 DEF Meant, Current
  <2>4. [k \in 1 .. Current.len |-> Bytes(Current)[k].of] = Same(Current.len, Current.of)
    <3>1. \A k \in 1 .. Current.len : Bytes(Current)[k].of = Current.of
      BY <2>2 DEF Bytes
    <3> QED
      BY <3>1 DEF Same
  <2> QED
    BY <2>1, <2>2, <2>3, <2>4
<1> QED
  BY <1>2, <1>3

(* One answer more is read to its end.                                     *)
LEMMA GotMore ==
  ASSUME PlaceInv, CleanInv, \A j \in 1 .. Len(got) : got[j] = Meant(j), Len(got) = sent - 1,
         Len(made) = sent, sent >= 1, got' = Append(got, Meant(sent)),
         UNCHANGED <<script, made, notFoundSet>>
  PROVE  Len(got') = sent /\ \A j \in 1 .. Len(got') : got'[j] = Meant(j)'
<1>1. IsList(got) /\ Len(got) \in Nat /\ sent \in Nat
  BY DEF CleanInv, IsList, PlaceInv
<1>2. Len(got') = Len(got) + 1 /\ got'[Len(got) + 1] = Meant(sent)
      /\ \A x \in 1 .. Len(got) : got'[x] = got[x]
  BY <1>1, AppendList
<1>3. Len(got) + 1 = sent /\ \A j \in 1 .. sent : j \in 1 .. Len(got) \/ j = sent
  BY <1>1
<1>4. \A j : Meant(j)' = Meant(j)
  BY AnswerKept
<1> QED
  BY <1>2, <1>3, <1>4

LEMMA StepInit == Init => StepInv
<1> SUFFICES ASSUME Init PROVE StepInv
  OBVIOUS
<1>1. made = <<>> /\ got = <<>> /\ wire = <<>> /\ out = <<>> /\ rd = "idle" /\ sent = 0
  BY DEF Init
<1>2. Len(made) = 0 /\ Len(got) = 0 /\ 1 .. Len(made) = {} /\ 1 .. Len(got) = {}
  BY <1>1, EmptyList
<1>3. Pending = <<>>
  BY <1>1, EmptyList, ConcatEmpty DEF Pending
<1>4. Following
  BY <1>1, <1>2, <1>3 DEF Following, Reading
<1> QED
  BY <1>1, <1>2, <1>4 DEF StepInv

(* What the worker does for itself does not concern the client.            *)
LEMMA FollowingKept ==
  ASSUME Following, UNCHANGED <<script, made, notFoundSet, sent, rd, left, heard, got, closing>>,
         Pending' = Pending, pc = "closed" => pc' = "closed"
  PROVE  Following'
<1>1. (\A j : Meant(j)' = Meant(j)) /\ Status' = Status /\ Size' = Size /\ Of' = Of
      /\ Chunks' = Chunks /\ After' = After
  BY AnswerKept
<1>2. \A h : IsHead(h)' <=> IsHead(h)
  BY <1>1 DEF IsHead
<1>3. Before' <=> Before
  BY <1>1 DEF Before, IsHead
<1>4. \A m : InBody(m)' <=> InBody(m)
  BY <1>1 DEF InBody
<1> QED
  BY <1>1, <1>3, <1>4 DEF Following

(* The client reads a token, in each of the places of a response.          *)
LEMMA Reads ==
  ASSUME CleanInv, Receive
  PROVE  /\ UNCHANGED <<script, made, notFoundSet, sent, pc>>
         /\ (\A j : Meant(j)' = Meant(j)) /\ Status' = Status /\ Size' = Size /\ Of' = Of
         /\ Chunks' = Chunks /\ After' = After
<1>1. UNCHANGED <<script, made, notFoundSet, sent, pc>>
  BY DEF Receive, staticVars, serverVars
<1> QED
  BY <1>1, AnswerKept

(* It has come to the end of an answer, or not.                            *)
LEMMA AtTheEnd ==
  ASSUME PlaceInv, CleanInv, StepInv, NoneUpset, Following, Receive, rd \in Reading,
         Len(made) = sent, Done(Meant(sent)), closing' \/ Pending' = <<>>
  PROVE  Following'
<1>1. UNCHANGED <<script, made, notFoundSet, sent>>
  BY Reads
<1>2. Len(got) = sent - 1 /\ sent >= 1 /\ \A j \in 1 .. Len(got) : got[j] = Meant(j)
  BY DEF Following
<1>3. rd' = "idle" /\ got' = Append(got, Meant(sent))
  BY DEF Done
<1>4. Len(got') = sent /\ \A j \in 1 .. Len(got') : got'[j] = Meant(j)'
  BY <1>1, <1>2, <1>3, GotMore
<1>5. sent \in Nat
  BY DEF PlaceInv
<1> QED
  BY <1>1, <1>3, <1>4, <1>5 DEF Following, Reading

LEMMA StillReading ==
  ASSUME PlaceInv, CleanInv, Following, Receive, rd \in Reading, got' = got,
         rd' \in Reading \ {"head"}, Len(made) = sent, ~script[sent].head, Size \in Nat,
         rd' \in {"body", "chunk"} =>
           /\ left' \in 1 .. Size
           /\ heard' = [status |-> Status, bytes |-> Same(Size - left', Of)],
         rd' = "body" => ~Chunks /\ Pending' = Run(left', Of),
         rd' = "size" => /\ Chunks
                         /\ \/ /\ heard' = [status |-> Status, bytes |-> Same(0, Of)]
                               /\ Pending' = After
                            \/ /\ heard' = [status |-> Status, bytes |-> Same(Size, Of)]
                               /\ Pending' = LastToken,
         rd' = "chunk" => Chunks /\ Pending' = Run(left', Of) \o EndTokens,
         rd' = "crlf" => /\ heard' = [status |-> Status, bytes |-> Same(Size, Of)]
                         /\ Chunks /\ Pending' = EndTokens
  PROVE  Following'
<1>1. /\ UNCHANGED <<script, made, notFoundSet, sent, pc>>
      /\ (\A j : Meant(j)' = Meant(j)) /\ Status' = Status /\ Size' = Size /\ Of' = Of
      /\ Chunks' = Chunks /\ After' = After
  BY Reads
<1>2. /\ Len(got') <= Len(made') /\ \A j \in 1 .. Len(got') : got'[j] = Meant(j)'
      /\ sent' >= 1 /\ Len(got') = sent' - 1
  BY <1>1 DEF Following
<1>3. 0 \in 0 .. Size /\ Size \in 0 .. Size
      /\ (left' \in 1 .. Size => Size - left' \in 0 .. Size)
  OBVIOUS
<1>4. rd' \in {"body", "chunk"} => left' \in 1 .. Size' /\ InBody(Size - left)'
  BY <1>1, <1>3 DEF InBody
<1>5. rd' = "size" => /\ Chunks'
                      /\ \/ InBody(0)' /\ Pending' = After'
                         \/ InBody(Size)' /\ Pending' = LastToken'
  BY <1>1, <1>3 DEF InBody, LastToken
<1>6. rd' = "crlf" => InBody(Size)' /\ Chunks' /\ Pending' = EndTokens'
  BY <1>1, <1>3 DEF InBody, EndTokens, LastToken
<1>7. (rd' = "body" => ~Chunks' /\ Pending' = Run(left, Of)')
      /\ (rd' = "chunk" => Chunks' /\ Pending' = (Run(left, Of) \o EndTokens)')
  BY <1>1 DEF Run, EndTokens, LastToken
<1> QED
  BY <1>1, <1>2, <1>4, <1>5, <1>6, <1>7 DEF Following, Reading

LEMMA ReceiveHead ==
  ASSUME PlaceInv, CleanInv, StepInv, NoneUpset, Following, Receive, rd = "head"
  PROVE  Following'
<1>1. Pending # <<>> /\ Pending' = Tail(Pending) /\ Head(wire) = Head(Pending)
  BY PendingReceived
<1>2. Len(made) = sent /\ Before /\ sent >= 1
  BY <1>1 DEF Following, Reading
<1> DEFINE h == Head(wire)
           r == [status |-> h.status, bytes |-> <<>>]
<1>3. /\ h.t = "head" /\ h.status = Status /\ h.length = Size /\ (h.chunked <=> Chunks)
      /\ IF script[sent].head THEN h.close \/ Pending' = <<>> ELSE Pending' = After
  BY <1>1, <1>2 DEF Before, IsHead
<1>4. ReadHead(h)
  BY <1>3 DEF Receive, Expected
<1>5. /\ Size \in Nat
      /\ Meant(sent) = [status |-> Status,
                        bytes  |-> IF script[sent].head THEN <<>> ELSE Same(Size, Of)]
  BY <1>2, MeantCurrent
<1>6. 0 \in Nat /\ Same(0, Of) = <<>> /\ Run(0, Of) = <<>>
  BY SameIs, RunIs
<1>7. rd \in Reading
  BY DEF Reading
<1> HIDE DEF h
<1>8. ASSUME script[sent].head \/ (~Chunks /\ Size = 0)
      PROVE  Following'
  <2>1. Done(r) /\ closing' = h.close
    BY <1>3, <1>4, <1>8 DEF ReadHead
  <2>2. r = Meant(sent)
    BY <1>3, <1>5, <1>6, <1>8
  <2>3. closing' \/ Pending' = <<>>
    <3>1. CASE script[sent].head
      BY <1>3, <2>1, <3>1
    <3>2. CASE ~script[sent].head
      BY <1>3, <1>6, <1>8, <3>2 DEF After
    <3> QED
      BY <3>1, <3>2
  <2> QED
    BY <1>2, <1>7, <2>1, <2>2, <2>3, AtTheEnd
<1>9. ASSUME ~script[sent].head, Chunks \/ Size # 0
      PROVE  Following'
  <2>1. heard' = r /\ left' = Size /\ got' = got /\ rd' = IF Chunks THEN "size" ELSE "body"
    BY <1>3, <1>4, <1>9 DEF ReadHead
  <2>2. Pending' = After
    BY <1>3, <1>9
  <2>3. heard' = [status |-> Status, bytes |-> Same(0, Of)]
    BY <1>3, <1>6, <2>1
  <2>4. ~Chunks => left' \in 1 .. Size /\ Size - left' = 0 /\ Pending' = Run(left', Of)
    BY <1>5, <1>9, <2>1, <2>2 DEF After
  <2>5. rd' \in Reading \ {"head"}
    BY <2>1 DEF Reading
  <2>6. rd' = "body" => ~Chunks
    BY <2>1
  <2>7. rd' = "size" => Chunks
    BY <2>1
  <2>8. rd' # "chunk" /\ rd' # "crlf"
    BY <2>1
  <2> HIDE DEF Chunks, Size, Of
  <2>9. rd' \in {"body", "chunk"} =>
          left' \in 1 .. Size /\ heard' = [status |-> Status, bytes |-> Same(Size - left', Of)]
    BY <2>3, <2>4, <2>6, <2>8
  <2> QED
    BY <1>2, <1>5, <1>7, <1>9, <2>1, <2>2, <2>3, <2>4, <2>5, <2>6, <2>7, <2>8, <2>9, StillReading
<1> QED
  BY <1>8, <1>9

(* One byte of a body more.                                                *)
LEMMA OneByteMore ==
  ASSUME CleanInv, NEW m \in Nat, NEW o, NEW st, heard = [status |-> st, bytes |-> Same(m, o)]
  PROVE  [heard EXCEPT !.bytes = Append(@, o)] = [status |-> st, bytes |-> Same(m + 1, o)]
<1>1. [heard EXCEPT !.bytes = Append(@, o)] = [status |-> st, bytes |-> Append(Same(m, o), o)]
  OBVIOUS
<1> QED
  BY <1>1, SameIs

LEMMA ReceiveBody ==
  ASSUME PlaceInv, CleanInv, StepInv, NoneUpset, Following, Receive, rd = "body"
  PROVE  Following'
<1>1. Pending # <<>> /\ Pending' = Tail(Pending) /\ Head(wire) = Head(Pending)
  BY PendingReceived
<1>2. left \in 1 .. Size /\ InBody(Size - left) /\ ~Chunks /\ Pending = Run(left, Of) /\ sent >= 1
  BY DEF Following, Reading
<1>3. Len(made) = sent /\ ~script[sent].head
      /\ heard = [status |-> Status, bytes |-> Same(Size - left, Of)]
  BY <1>2 DEF InBody
<1>4. Size \in Nat /\ Meant(sent) = [status |-> Status, bytes |-> Same(Size, Of)]
  BY <1>2, <1>3, MeantCurrent
<1>5. left \in Nat /\ left >= 1 /\ left - 1 \in Nat /\ Size - left \in Nat
      /\ Size - left + 1 = Size - (left - 1)
  BY <1>2, <1>4
<1>6. Head(wire) = [t |-> "byte", of |-> Of] /\ Pending' = Run(left - 1, Of)
  BY <1>1, <1>2, <1>5, RunIs
<1>7. ReadByte(Head(wire))
  BY <1>6 DEF Receive, Expected
<1> DEFINE r == [heard EXCEPT !.bytes = Append(@, Of)]
<1>8. r = [status |-> Status, bytes |-> Same(Size - (left - 1), Of)]
  <2>1. r = [status |-> Status, bytes |-> Same((Size - left) + 1, Of)]
    BY <1>3, <1>5, OneByteMore
  <2> QED
    BY <1>5, <2>1
<1>9. /\ IF left > 1 THEN left' = left - 1 /\ UNCHANGED <<rd, got>> ELSE Done(r)
      /\ heard' = r
  BY <1>6, <1>7 DEF ReadByte
<1>10. rd \in Reading
  BY DEF Reading
<1> HIDE DEF r
<1>11. ASSUME left > 1
       PROVE  Following'
  <2>1. left' = left - 1 /\ rd' = "body" /\ got' = got /\ heard' = r
    BY <1>9, <1>11
  <2>2. left' \in 1 .. Size
    BY <1>2, <1>4, <1>11, <2>1
  <2>3. heard' = [status |-> Status, bytes |-> Same(Size - left', Of)]
    BY <1>8, <2>1
  <2>4. Pending' = Run(left', Of)
    BY <1>6, <2>1
  <2>5. rd' \in Reading \ {"head"} /\ rd' # "size" /\ rd' # "chunk" /\ rd' # "crlf"
    BY <2>1 DEF Reading
  <2> QED
    BY <1>2, <1>3, <1>4, <1>10, <2>1, <2>2, <2>3, <2>4, <2>5, StillReading
<1>12. ASSUME ~(left > 1)
       PROVE  Following'
  <2>1. left = 1 /\ Size - (left - 1) = Size /\ left - 1 = 0
    BY <1>4, <1>5, <1>12
  <2>2. r = Meant(sent)
    BY <1>4, <1>8, <2>1
  <2>3. Pending' = <<>>
    BY <1>5, <1>6, <2>1, RunIs
  <2> QED
    BY <1>3, <1>9, <1>10, <1>12, <2>2, <2>3, AtTheEnd
<1> QED
  BY <1>11, <1>12

LEMMA ReceiveChunk ==
  ASSUME PlaceInv, CleanInv, StepInv, NoneUpset, Following, Receive, rd = "chunk"
  PROVE  Following'
<1>1. Pending # <<>> /\ Pending' = Tail(Pending) /\ Head(wire) = Head(Pending)
  BY PendingReceived
<1>2. left \in 1 .. Size /\ InBody(Size - left) /\ Chunks
      /\ Pending = Run(left, Of) \o EndTokens /\ sent >= 1
  BY DEF Following, Reading
<1>3. Len(made) = sent /\ ~script[sent].head
      /\ heard = [status |-> Status, bytes |-> Same(Size - left, Of)]
  BY <1>2 DEF InBody
<1>4. Size \in Nat
  BY <1>2, <1>3, MeantCurrent
<1>5. left \in Nat /\ left >= 1 /\ left - 1 \in Nat /\ Size - left \in Nat
      /\ Size - left + 1 = Size - (left - 1)
  BY <1>2, <1>4
<1>6. Head(wire) = [t |-> "byte", of |-> Of] /\ Pending' = Run(left - 1, Of) \o EndTokens
  <2>1. IsList(Run(left, Of)) /\ Run(left, Of) # <<>> /\ Tail(Run(left, Of)) = Run(left - 1, Of)
        /\ Head(Run(left, Of)) = [t |-> "byte", of |-> Of]
    BY <1>5, RunIs
  <2>2. IsList(EndTokens)
    BY EndIs
  <2>3. /\ Tail(Run(left, Of)) \o EndTokens = Tail(Run(left, Of) \o EndTokens)
        /\ Head(Run(left, Of) \o EndTokens) = Head(Run(left, Of))
    BY <2>1, <2>2, TakeHead
  <2> QED
    BY <1>1, <1>2, <2>1, <2>3
<1>7. ReadByte(Head(wire))
  BY <1>6 DEF Receive, Expected
<1> DEFINE r == [heard EXCEPT !.bytes = Append(@, Of)]
<1>8. r = [status |-> Status, bytes |-> Same(Size - (left - 1), Of)]
  <2>1. r = [status |-> Status, bytes |-> Same((Size - left) + 1, Of)]
    BY <1>3, <1>5, OneByteMore
  <2> QED
    BY <1>5, <2>1
<1>9. /\ IF left > 1 THEN left' = left - 1 /\ UNCHANGED <<rd, got>>
                      ELSE rd' = "crlf" /\ UNCHANGED <<left, got>>
      /\ heard' = r
  <2>0. Head(wire).of = Of
    BY <1>6
  <2>1. heard' = r
    BY <1>7, <2>0, Zenon DEF ReadByte
  <2>2. left > 1 => left' = left - 1 /\ UNCHANGED <<rd, got>>
    BY <1>7 DEF ReadByte
  <2>3. ~(left > 1) => rd' = "crlf" /\ UNCHANGED <<left, got>>
    BY <1>7 DEF ReadByte
  <2> QED
    BY <2>1, <2>2, <2>3
<1>10. rd \in Reading
  BY DEF Reading
<1> HIDE DEF r
<1>11. ASSUME left > 1
       PROVE  Following'
  <2>1. left' = left - 1 /\ rd' = "chunk" /\ got' = got /\ heard' = r
    BY <1>9, <1>11
  <2>2. left' \in 1 .. Size
    BY <1>2, <1>4, <1>11, <2>1
  <2>3. heard' = [status |-> Status, bytes |-> Same(Size - left', Of)]
    BY <1>8, <2>1
  <2>4. Pending' = Run(left', Of) \o EndTokens
    BY <1>6, <2>1
  <2>5. rd' \in Reading \ {"head"} /\ rd' # "size" /\ rd' # "body" /\ rd' # "crlf"
    BY <2>1 DEF Reading
  <2> QED
    BY <1>2, <1>3, <1>4, <1>10, <2>1, <2>2, <2>3, <2>4, <2>5, StillReading
<1>12. ASSUME ~(left > 1)
       PROVE  Following'
  <2>1. left = 1 /\ Size - (left - 1) = Size /\ left - 1 = 0
    BY <1>4, <1>5, <1>12
  <2>2. rd' = "crlf" /\ got' = got /\ heard' = [status |-> Status, bytes |-> Same(Size, Of)]
    BY <1>8, <1>9, <1>12, <2>1
  <2>3. Pending' = EndTokens
    <3>1. 0 \in Nat /\ Run(0, Of) = <<>>
      BY RunIs
    <3> QED
      BY <1>6, <2>1, <3>1, EndIs, ConcatEmpty
  <2>4. rd' \in Reading \ {"head"} /\ rd' # "size" /\ rd' # "body" /\ rd' # "chunk"
    BY <2>2 DEF Reading
  <2> QED
    BY <1>2, <1>3, <1>4, <1>10, <2>2, <2>3, <2>4, StillReading
<1> QED
  BY <1>11, <1>12

LEMMA ReceiveSize ==
  ASSUME PlaceInv, CleanInv, StepInv, NoneUpset, Following, Receive, rd = "size"
  PROVE  Following'
<1>1. Pending # <<>> /\ Pending' = Tail(Pending) /\ Head(wire) = Head(Pending)
  BY PendingReceived
<1>2. /\ sent >= 1 /\ Chunks
      /\ \/ InBody(0) /\ Pending = After
         \/ InBody(Size) /\ Pending = LastToken
  <2>1. sent >= 1
    BY DEF Following, Reading
  <2>2. Chunks /\ ((InBody(0) /\ Pending = After) \/ (InBody(Size) /\ Pending = LastToken))
    BY Zenon DEF Following
  <2> QED
    BY <2>1, <2>2, Zenon
<1>3. Len(made) = sent /\ ~script[sent].head
  BY <1>2 DEF InBody
<1>4. Size \in Nat /\ Meant(sent) = [status |-> Status, bytes |-> Same(Size, Of)]
  BY <1>2, <1>3, MeantCurrent
<1>5. rd \in Reading
  BY DEF Reading
<1>6. ASSUME Pending = LastToken, InBody(Size)
      PROVE  Following'
  <2>1. Head(wire) = [t |-> "last"] /\ Pending' = <<>>
    BY <1>1, <1>6, EndIs
  <2>2. ReadChunked(Head(wire))
    BY <2>1 DEF Receive, Expected
  <2>3. Done(heard)
    BY <2>1, <2>2 DEF ReadChunked
  <2>4. heard = Meant(sent)
    BY <1>4, <1>6 DEF InBody
  <2> QED
    BY <1>3, <1>5, <2>1, <2>3, <2>4, AtTheEnd
<1>7. ASSUME Pending = After, InBody(0), Size > 0
      PROVE  Following'
  <2>1. After = <<[t |-> "size", n |-> Size]>> \o (Run(Size, Of) \o EndTokens)
    BY <1>2, <1>7 DEF After
  <2>2. IsList(Run(Size, Of) \o EndTokens)
    BY <1>4, RunIs, EndIs, ConcatList
  <2>3. Head(wire) = [t |-> "size", n |-> Size] /\ Pending' = Run(Size, Of) \o EndTokens
    BY <1>1, <1>7, <2>1, <2>2, ConsIs
  <2>4. ReadChunked(Head(wire))
    BY <2>3 DEF Receive, Expected
  <2>5. rd' = "chunk" /\ left' = Size /\ got' = got /\ heard' = heard
    BY <2>3, <2>4 DEF ReadChunked
  <2>6. heard' = [status |-> Status, bytes |-> Same(0, Of)]
    BY <1>7, <2>5 DEF InBody
  <2>7. left' \in 1 .. Size /\ Size - left' = 0
    BY <1>4, <1>7, <2>5
  <2>8. heard' = [status |-> Status, bytes |-> Same(Size - left', Of)]
    BY <2>6, <2>7
  <2>9. rd' \in Reading \ {"head"} /\ rd' # "size" /\ rd' # "body" /\ rd' # "crlf"
    BY <2>5 DEF Reading
  <2>10. Pending' = Run(left', Of) \o EndTokens
    BY <2>3, <2>5
  <2> QED
    BY <1>2, <1>3, <1>4, <1>5, <2>5, <2>7, <2>8, <2>9, <2>10, StillReading
<1>8. Pending = After /\ ~(Size > 0) => Pending = LastToken /\ Size = 0
  BY <1>2, <1>4 DEF After
<1> QED
  BY <1>2, <1>6, <1>7, <1>8

LEMMA ReceiveCrlf ==
  ASSUME PlaceInv, CleanInv, StepInv, NoneUpset, Following, Receive, rd = "crlf"
  PROVE  Following'
<1>1. Pending' = Tail(Pending) /\ Head(wire) = Head(Pending)
  BY PendingReceived
<1>2. InBody(Size) /\ Chunks /\ Pending = EndTokens /\ sent >= 1
  BY DEF Following, Reading
<1>3. Len(made) = sent /\ ~script[sent].head
      /\ heard = [status |-> Status, bytes |-> Same(Size, Of)]
  BY <1>2 DEF InBody
<1>4. Size \in Nat
  BY <1>2, <1>3, MeantCurrent
<1>5. Head(wire) = [t |-> "crlf"] /\ Pending' = LastToken
  BY <1>1, <1>2, EndIs
<1>6. ReadChunked(Head(wire))
  BY <1>5 DEF Receive, Expected
<1>7. rd' = "size" /\ got' = got /\ heard' = heard
  BY <1>5, <1>6 DEF ReadChunked
<1>8. rd \in Reading /\ rd' \in Reading \ {"head"} /\ rd' # "chunk" /\ rd' # "body" /\ rd' # "crlf"
  BY <1>7 DEF Reading
<1> QED
  BY <1>2, <1>3, <1>4, <1>5, <1>7, <1>8, StillReading

LEMMA FollowingReceive ==
  ASSUME PlaceInv, CleanInv, StepInv, NoneUpset, Following, Receive
  PROVE  Following'
<1>1. rd \in {"head", "body", "chunk", "size", "crlf"}
  BY DEF Receive, Expected
<1> QED
  BY <1>1, ReceiveHead, ReceiveBody, ReceiveChunk, ReceiveSize, ReceiveCrlf

(* A worker that answers finds nothing on its way; the client waits for    *)
(* the answer, or has left.                                                *)
LEMMA BeforeAnswer ==
  ASSUME PlaceInv, CleanInv, StepInv, Following, pc \in {"handle", "answer"}
  PROVE  /\ Len(made) = served - 1
         /\ rd = "gone" \/ (rd = "head" /\ served = sent /\ wire = <<>>)
<1>1. Len(made) = served - 1 /\ served \in Nat /\ sent \in Nat /\ served <= sent /\ out = <<>>
  BY DEF PlaceInv, Busy, StepInv
<1>2. rd # "over"
  BY DEF Following
<1>3. rd # "idle"
  BY <1>1 DEF Following
<1>4. rd \in Reading => rd = "head"
  BY <1>1 DEF Following, Reading, InBody
<1>5. ASSUME rd = "head"
      PROVE  served = sent /\ wire = <<>>
  <2>1. Len(made) = sent - 1 /\ Pending = <<>>
    BY <1>1, <1>5 DEF Following
  <2>2. wire \o <<>> = wire
    BY PendingIs, ConcatEmpty
  <2> QED
    BY <1>1, <2>1, <2>2 DEF Pending
<1> QED
  BY <1>1, <1>2, <1>3, <1>4, <1>5 DEF Following

(* Answers made before stay what they were.                                *)
LEMMA OlderKept ==
  ASSUME PlaceInv, NEW e, made' = Append(made, e), UNCHANGED <<script, notFoundSet>>
  PROVE  /\ Len(made') = Len(made) + 1 /\ made'[Len(made) + 1] = e
         /\ \A j \in 1 .. Len(made) : made'[j] = made[j] /\ Meant(j)' = Meant(j)
         /\ NoneUpset' => NoneUpset
<1>1. /\ Len(made') = Len(made) + 1 /\ made'[Len(made) + 1] = e
      /\ \A j \in 1 .. Len(made) : made'[j] = made[j]
  BY AppendList DEF PlaceInv
<1>2. Len(made) \in Nat
  BY DEF PlaceInv, IsList
<1>3. \A j \in 1 .. Len(made) : Meant(j)' = Meant(j)
  BY <1>1 DEF Meant, Fallback, Bytes
<1>4. \A j \in 1 .. Len(made) : Upset(j)' <=> Upset(j)
  BY <1>1 DEF Upset, Fallback
<1>5. \A j \in 1 .. Len(made) : j \in 1 .. Len(made')
  BY <1>1, <1>2
<1>6. NoneUpset' => NoneUpset
  BY <1>4, <1>5 DEF NoneUpset
<1> QED
  BY <1>1, <1>3, <1>6

(* An answer with its head first is on its way.                            *)
LEMMA FollowingAnswer ==
  ASSUME PlaceInv, CleanInv, CleanInv', StepInv, NoneUpset, Following,
         pc \in {"handle", "answer"}, pc' = "send",
         NEW e, made' = Append(made, e), UNCHANGED <<script, notFoundSet, wire, clientVars>>,
         rd = "head" => \/ e.quiet /\ out' = <<>>
                        \/ /\ out' # <<>> /\ IsHead(Head(out))'
                           /\ IF script[sent].head THEN Head(out').close \/ Tail(out') = <<>>
                                                   ELSE Tail(out') = After'
  PROVE  Following'
<1>1. /\ Len(made) = served - 1
      /\ rd = "gone" \/ (rd = "head" /\ served = sent /\ wire = <<>>)
  BY BeforeAnswer
<1>2. /\ Len(made') = Len(made) + 1 /\ made'[Len(made) + 1] = e
      /\ \A j \in 1 .. Len(made) : made'[j] = made[j] /\ Meant(j)' = Meant(j)
  BY OlderKept
<1>3. UNCHANGED <<sent, rd, got>>
  BY DEF clientVars
<1>4. Len(made) \in Nat /\ Len(got) \in Nat /\ sent \in Nat /\ served \in Nat
  BY DEF PlaceInv, CleanInv, IsList
<1>5. Len(got') <= Len(made') /\ \A j \in 1 .. Len(got') : got'[j] = Meant(j)'
  <2>1. Len(got) <= Len(made) /\ \A j \in 1 .. Len(got) : got[j] = Meant(j)
    BY DEF Following
  <2>2. \A j \in 1 .. Len(got) : j \in 1 .. Len(made)
    BY <1>4, <2>1
  <2>3. \A j \in 1 .. Len(got') : got'[j] = Meant(j)'
    BY <1>2, <1>3, <2>1, <2>2
  <2> QED
    BY <1>2, <1>3, <1>4, <2>1, <2>3
<1>6. CASE rd = "gone"
  BY <1>3, <1>5, <1>6 DEF Following, Reading
<1>7. CASE rd = "head"
  <2>1. served = sent /\ wire' = <<>> /\ sent >= 1 /\ Len(got) = sent - 1
    BY <1>1, <1>7 DEF Following, Reading
  <2>2. Pending' = out'
    <3>1. IsList(out')
      BY PendingIs DEF CleanInv, CleanList
    <3>2. <<>> \o out' = out'
      BY <3>1, ConcatEmpty
    <3> QED
      BY <2>1, <3>2 DEF Pending
  <2>3. Len(made') = sent' /\ made'[sent'] = e
    BY <1>1, <1>2, <1>3, <1>4, <2>1
  <2>4. CASE e.quiet /\ out' = <<>>
    <3>1. made'[sent'].quiet /\ Pending' = <<>>
      BY <2>2, <2>3, <2>4
    <3> QED
      BY <1>3, <1>5, <1>7, <2>1, <2>3, <3>1 DEF Following, Reading
  <2>5. CASE /\ out' # <<>> /\ IsHead(Head(out))'
             /\ IF script[sent].head THEN Head(out').close \/ Tail(out') = <<>>
                                     ELSE Tail(out') = After'
    <3>1. IsHead(Head(Pending))'
      BY <2>2, <2>5 DEF IsHead
    <3>2. Before'
      BY <1>3, <2>2, <2>5, <3>1 DEF Before
    <3> QED
      BY <1>3, <1>5, <1>7, <2>1, <2>3, <3>2 DEF Following, Reading
  <2> QED
    BY <1>7, <2>4, <2>5
<1> QED
  BY <1>1, <1>6, <1>7

LEMMA HeadIs ==
  ASSUME NEW r, NEW keep, NEW u, IsList(u), NEW q, q = HeadOf(r, keep) \o u
  PROVE  /\ q # <<>> /\ Tail(q) = u /\ Head(q).t = "head" /\ Head(q).status = r.status
         /\ Head(q).length = r.len /\ (Head(q).chunked <=> r.chunked)
         /\ (Head(q).close <=> ~keep)
<1> DEFINE h == [t |-> "head", status |-> r.status, chunked |-> r.chunked,
                 length |-> r.len, close |-> ~keep]
<1>1. HeadOf(r, keep) = <<h>>
  BY DEF HeadOf
<1>2. /\ h.t = "head" /\ h.status = r.status /\ h.length = r.len /\ h.chunked = r.chunked
      /\ h.close = ~keep
  BY Zenon
<1> HIDE DEF h
<1>3. q # <<>> /\ Head(q) = h /\ Tail(q) = u
  BY <1>1, ConsIs
<1> QED
  BY <1>2, <1>3, Zenon

LEMMA HeadAlone ==
  ASSUME NEW r, NEW keep
  PROVE  HeadOf(r, keep) = HeadOf(r, keep) \o <<>>
<1>1. IsList(HeadOf(r, keep))
  BY DEF HeadOf, IsList
<1> QED
  BY <1>1, ConcatEmpty

LEMMA BytesRun ==
  ASSUME NEW r, r.len \in Nat, r.filled = r.len
  PROVE  Bytes(r) = Run(r.len, r.of)
  BY DEF Bytes, Run

LEMMA PageIs ==
  ASSUME NEW st, NEW keep, NEW q, q = Page(st, keep)
  PROVE  /\ q # <<>> /\ Tail(q) = Run(1, FixedPage) /\ Head(q).t = "head"
         /\ Head(q).status = st /\ Head(q).length = 1 /\ ~Head(q).chunked
         /\ ~keep => Head(q).close
<1> DEFINE r == [Copy(st, 1) EXCEPT !.of = FixedPage]
           u == Run(1, FixedPage)
<1>1. q = HeadOf(r, keep) \o Bytes(r)
  BY DEF Page
<1>2. r.len = 1 /\ r.filled = 1 /\ r.of = FixedPage /\ r.status = st /\ r.chunked = FALSE
  BY DEF Copy, Zero
<1> HIDE DEF r
<1>3. Bytes(r) = u
  BY <1>2, BytesRun
<1>4. IsList(u)
  <2>1. 1 \in Nat
    OBVIOUS
  <2> QED
    BY <2>1, RunIs
<1> HIDE DEF u
<1>5. /\ q # <<>> /\ Tail(q) = u /\ Head(q).t = "head" /\ Head(q).status = r.status
      /\ Head(q).length = r.len /\ (Head(q).chunked <=> r.chunked)
      /\ (Head(q).close <=> ~keep)
  BY <1>1, <1>3, <1>4, HeadIs
<1>6. /\ q # <<>> /\ Tail(q) = u /\ Head(q).t = "head" /\ Head(q).status = st
      /\ Head(q).length = 1 /\ ~Head(q).chunked /\ (~keep => Head(q).close)
  BY <1>2, <1>5, Zenon
<1> QED
  BY <1>6 DEF u

(* What send_response() sends, head first and then what belongs to it.     *)
Rest(r) ==
  IF ~r.chunked THEN Run(r.len, r.of)
  ELSE IF r.len > 0 THEN <<[t |-> "size", n |-> r.len]>> \o (Run(r.len, r.of) \o EndTokens)
  ELSE LastToken

LEMMA InOneSet ==
  ASSUME NEW a, IsList(a), NEW b, IsList(b), NEW c, IsList(c), NEW d, IsList(d)
  PROVE  \E S : a \in Seq(S) /\ b \in Seq(S) /\ c \in Seq(S) /\ d \in Seq(S)
<1> DEFINE S == {a[x] : x \in 1 .. Len(a)} \union {b[x] : x \in 1 .. Len(b)}
                  \union {c[x] : x \in 1 .. Len(c)} \union {d[x] : x \in 1 .. Len(d)}
<1>0. /\ \A x \in 1 .. Len(a) : a[x] \in S
      /\ \A x \in 1 .. Len(b) : b[x] \in S
      /\ \A x \in 1 .. Len(c) : c[x] \in S
      /\ \A x \in 1 .. Len(d) : d[x] \in S
  OBVIOUS
<1> HIDE DEF S
<1>1. a \in Seq(S) /\ b \in Seq(S) /\ c \in Seq(S) /\ d \in Seq(S)
  BY <1>0, ListOver
<1> QED
  BY <1>1

LEMMA ChunkIs ==
  ASSUME NEW r, Whole(r), r.chunked
  PROVE  Chunk(r) \o LastToken = Rest(r) /\ IsList(Chunk(r)) /\ IsList(Rest(r))
<1>1. r.body /\ r.len \in Nat /\ r.filled = r.len
  BY DEF Whole
<1>2. CASE r.len > 0
  <2> DEFINE a == <<[t |-> "size", n |-> r.len]>>
             b == Run(r.len, r.of)
             c == <<[t |-> "crlf"]>>
  <2>1. Chunk(r) = (a \o b) \o c
    BY <1>1, <1>2, BytesRun DEF Chunk
  <2>2. IsList(b)
    BY <1>1, RunIs
  <2>3. IsList(a) /\ IsList(c) /\ IsList(LastToken) /\ IsList(EndTokens)
    <3>1. IsList(a) /\ IsList(c)
      BY DEF IsList
    <3> QED
      BY <3>1, EndIs
  <2>4. Rest(r) = a \o (b \o EndTokens) /\ EndTokens = c \o LastToken
    BY <1>2 DEF Rest, EndTokens
  <2> HIDE DEF a, b, c
  <2>5. IsList(a \o b) /\ IsList((a \o b) \o c) /\ IsList(b \o EndTokens)
        /\ IsList(a \o (b \o EndTokens)) /\ IsList(c \o LastToken)
    BY <2>2, <2>3, ConcatList
  <2>6. ((a \o b) \o c) \o LastToken = a \o (b \o (c \o LastToken))
    <3> DEFINE l == LastToken
    <3>1. IsList(l)
      BY EndIs
    <3>2. IsList(a) /\ IsList(c)
      BY <2>3
    <3> HIDE DEF l
    <3>3. PICK S : a \in Seq(S) /\ b \in Seq(S) /\ c \in Seq(S) /\ l \in Seq(S)
      BY <2>2, <3>1, <3>2, InOneSet
    <3>4. a \o b \in Seq(S) /\ c \o l \in Seq(S)
      BY <3>3
    <3>5. (a \o b) \o (c \o l) = a \o (b \o (c \o l))
      BY <3>3, <3>4
    <3>6. ((a \o b) \o c) \o l = (a \o b) \o (c \o l)
      BY <3>3, <3>4
    <3> QED
      BY <3>5, <3>6 DEF l
  <2> QED
    BY <2>1, <2>4, <2>5, <2>6
<1>3. CASE ~(r.len > 0)
  <2>1. Chunk(r) = <<>> /\ Rest(r) = LastToken
    BY <1>3 DEF Chunk, Rest
  <2> QED
    BY <2>1, EndIs, ConcatEmpty, EmptyList
<1> QED
  BY <1>2, <1>3

LEMMA SentIs ==
  ASSUME NEW r, Whole(r), NEW head \in BOOLEAN, NEW q \in Sent(r, head), q # <<>>,
         r.body \/ r.len = 0 \/ head
  PROVE  \E u : IsList(u) /\ q = HeadOf(r, Request.ka) \o u /\ u = IF head THEN <<>> ELSE Rest(r)
<1>0. r.len \in Nat /\ r.good
  BY DEF Whole, Sent
<1>1. CASE head
  <2>1. q = HeadOf(r, Request.ka)
    BY <1>0, <1>1 DEF Sent
  <2> QED
    BY <1>1, <2>1, HeadAlone, EmptyList
<1>2. CASE ~head /\ r.chunked
  <2>1. q = (HeadOf(r, Request.ka) \o Chunk(r)) \o LastToken
    BY <1>0, <1>2 DEF Sent, LastToken
  <2>2. Chunk(r) \o LastToken = Rest(r) /\ IsList(Chunk(r)) /\ IsList(Rest(r))
    BY <1>2, ChunkIs
  <2>3. IsList(HeadOf(r, Request.ka))
    BY DEF HeadOf, IsList
  <2>4. (HeadOf(r, Request.ka) \o Chunk(r)) \o LastToken
          = HeadOf(r, Request.ka) \o (Chunk(r) \o LastToken)
    <3> DEFINE h == HeadOf(r, Request.ka)
               c == Chunk(r)
               l == LastToken
    <3>1. IsList(h) /\ IsList(c) /\ IsList(l)
      BY <2>2, <2>3, EndIs
    <3> HIDE DEF h, c, l
    <3>2. (h \o c) \o l = h \o (c \o l)
      BY <3>1, ConcatAssoc
    <3> QED
      BY <3>2 DEF h, c, l
  <2> QED
    BY <1>2, <2>1, <2>2, <2>4
<1>3. CASE ~head /\ ~r.chunked /\ r.body /\ r.len > 0
  <2>1. q = HeadOf(r, Request.ka) \o Bytes(r)
    BY <1>0, <1>3 DEF Sent
  <2>2. r.filled = r.len
    BY <1>3 DEF Whole
  <2>3. Bytes(r) = Rest(r) /\ IsList(Rest(r))
    BY <1>0, <1>3, <2>2, BytesRun, RunIs DEF Rest
  <2> QED
    BY <1>3, <2>1, <2>3
<1>4. CASE ~head /\ ~r.chunked /\ ~(r.body /\ r.len > 0)
  <2>1. q = HeadOf(r, Request.ka)
    BY <1>0, <1>4 DEF Sent
  <2>2. r.len = 0
    BY <1>0, <1>4
  <2>3. Rest(r) = <<>>
    BY <1>4, <2>2, RunIs DEF Rest
  <2> QED
    BY <1>4, <2>1, <2>3, HeadAlone, EmptyList
<1> QED
  BY <1>1, <1>2, <1>3, <1>4

(* The answer that is made is the latest, in the next state.               *)
LEMMA NewCurrent ==
  ASSUME PlaceInv, CleanInv, StepInv, Following, pc \in {"handle", "answer"},
         NEW e, made' = Append(made, e), UNCHANGED <<script, notFoundSet, clientVars>>,
         rd = "head", NoneUpset'
  PROVE  /\ Request = script[sent] /\ sent' = sent
         /\ Current' = e.r /\ (Fallback(Current)' <=> Fallback(e.r))
         /\ ~(script[sent].head /\ Fallback(e.r))
         /\ ~(~e.r.body /\ e.r.len > 0 /\ e.r.of # FixedPage)
<1>1. Len(made) = served - 1 /\ served = sent /\ served \in Nat
  BY BeforeAnswer DEF PlaceInv
<1>2. Len(made') = Len(made) + 1 /\ made'[Len(made) + 1] = e
  BY OlderKept
<1>3. sent' = sent /\ Len(made) + 1 = sent /\ sent \in 1 .. Len(made')
  <2>1. Len(made) \in Nat
    BY DEF PlaceInv, IsList
  <2> QED
    BY <1>1, <1>2, <2>1 DEF clientVars
<1>4. made'[sent] = e /\ Current' = e.r
  BY <1>2, <1>3 DEF Current
<1>5. Fallback(Current)' <=> Fallback(e.r)
  BY <1>4 DEF Fallback
<1>6. ~Upset(sent)'
  <2>1. \A j \in 1 .. Len(made') : ~Upset(j)'
    BY DEF NoneUpset
  <2> QED
    BY <1>3, <2>1 DEF Upset, Fallback
<1>7. ~(script[sent].head /\ Fallback(e.r)) /\ ~(~e.r.body /\ e.r.len > 0 /\ e.r.of # FixedPage)
  BY <1>3, <1>4, <1>6 DEF Upset, Fallback
<1> QED
  BY <1>1, <1>3, <1>4, <1>5, <1>7 DEF Request

LEMMA StepAnswer ==
  ASSUME PlaceInv, CleanInv, CleanInv', FileInv, StepInv, Answer, NoneUpset', NoneUpset, Following
  PROVE  Following'
<1> DEFINE e == [r |-> resp, quiet |-> out' = <<>>]
<1>1. /\ pc = "answer" /\ pc' = "send" /\ made' = Append(made, e)
      /\ UNCHANGED <<script, notFoundSet, wire, clientVars>>
  BY DEF Answer
<1>2. e.r = resp /\ (e.quiet <=> out' = <<>>)
  BY Zenon
<1>3. Whole(resp) /\ pc \in {"handle", "answer"}
  BY <1>1 DEF FileInv
<1> HIDE DEF e
<1>4. ASSUME rd = "head"
      PROVE  \/ e.quiet /\ out' = <<>>
             \/ /\ out' # <<>> /\ IsHead(Head(out))'
                /\ IF script[sent].head THEN Head(out').close \/ Tail(out') = <<>>
                                        ELSE Tail(out') = After'
  <2>1. /\ Request = script[sent] /\ sent' = sent
        /\ Current' = resp /\ (Fallback(Current)' <=> Fallback(resp))
        /\ ~(script[sent].head /\ Fallback(resp))
        /\ ~(~resp.body /\ resp.len > 0 /\ resp.of # FixedPage)
    BY <1>1, <1>2, <1>3, <1>4, NewCurrent
  <2>2. CASE Fallback(resp)
    <3>1. out' = Page(404, Request.ka)
      BY <2>2 DEF Answer
    <3>2. Status' = 404 /\ Size' = 1 /\ Of' = FixedPage /\ ~Chunks'
      BY <2>1, <2>2 DEF Status, Size, Of, Chunks
    <3>3. After' = Run(1, FixedPage)
      BY <3>2 DEF After, Run
    <3>4. /\ out' # <<>> /\ Tail(out') = Run(1, FixedPage) /\ Head(out').t = "head"
          /\ Head(out').status = 404 /\ Head(out').length = 1 /\ ~Head(out').chunked
      BY <3>1, PageIs
    <3>5. IsHead(Head(out))'
      BY <3>2, <3>4 DEF IsHead
    <3> QED
      BY <2>1, <2>2, <3>3, <3>4, <3>5
  <2>3. CASE ~Fallback(resp) /\ out' # <<>>
    <3>1. out' \in Sent(resp, script[sent].head)
      BY <2>1, <2>3 DEF Answer
    <3>2. Status' = resp.status /\ Size' = resp.len /\ Of' = resp.of /\ (Chunks' <=> resp.chunked)
      BY <2>1, <2>3 DEF Status, Size, Of, Chunks
    <3>3. After' = Rest(resp)
      BY <3>2 DEF After, Rest, Run, EndTokens, LastToken
    <3>4. script[sent].head \in BOOLEAN
      BY <1>1, <2>1, RequestType DEF Busy
    <3>5. resp.body \/ resp.len = 0
      <4>1. Nowhere # FixedPage
        BY DEF Nowhere, FixedPage
      <4> QED
        BY <1>3, <2>1, <4>1 DEF Whole
    <3>6. PICK u : /\ IsList(u) /\ out' = HeadOf(resp, Request.ka) \o u
                   /\ u = IF script[sent].head THEN <<>> ELSE Rest(resp)
      BY <1>3, <2>3, <3>1, <3>4, <3>5, SentIs
    <3>7. /\ Tail(out') = u /\ Head(out').t = "head" /\ Head(out').status = resp.status
          /\ Head(out').length = resp.len /\ (Head(out').chunked <=> resp.chunked)
      <4>1. PICK keep : IsList(u) /\ out' = HeadOf(resp, keep) \o u
        BY <3>6, Zenon
      <4> QED
        BY <4>1, HeadIs, SMTT(30)
    <3>8. IsHead(Head(out))'
      BY <3>2, <3>7 DEF IsHead
    <3> QED
      BY <2>3, <3>3, <3>6, <3>7, <3>8
  <2>4. CASE out' = <<>>
    BY <1>2, <2>4
  <2> QED
    BY <2>2, <2>3, <2>4
<1> QED
  BY <1>1, <1>3, <1>4, FollowingAnswer

LEMMA StepRefuse ==
  ASSUME PlaceInv, CleanInv, CleanInv', StepInv, Refuse, NoneUpset', NoneUpset, Following
  PROVE  Following'
<1> DEFINE r == [Copy(400, 1) EXCEPT !.body = FALSE, !.of = FixedPage]
           e == [r |-> r, quiet |-> FALSE]
<1>1. /\ pc \in {"handle", "answer"} /\ pc' = "send" /\ made' = Append(made, e)
      /\ out' = Page(400, FALSE) /\ UNCHANGED <<script, notFoundSet, wire, clientVars>>
  BY DEF Refuse
<1>2. e.r = r /\ r.status = 400 /\ r.len = 1 /\ r.of = FixedPage /\ ~r.chunked
  BY DEF Copy, Zero
<1> HIDE DEF e, r
<1>3. ASSUME rd = "head"
      PROVE  /\ out' # <<>> /\ IsHead(Head(out))'
             /\ IF script[sent].head THEN Head(out').close \/ Tail(out') = <<>>
                                     ELSE Tail(out') = After'
  <2>1. Current' = r /\ (Fallback(Current)' <=> Fallback(r))
    BY <1>1, <1>2, <1>3, NewCurrent
  <2>2. ~Fallback(r)
    BY <1>2 DEF Fallback
  <2>3. Status' = 400 /\ Size' = 1 /\ Of' = FixedPage /\ ~Chunks'
    BY <1>2, <2>1, <2>2 DEF Status, Size, Of, Chunks
  <2>4. After' = Run(1, FixedPage)
    BY <2>3 DEF After, Run
  <2>5. /\ out' # <<>> /\ Tail(out') = Run(1, FixedPage) /\ Head(out').t = "head"
        /\ Head(out').status = 400 /\ Head(out').length = 1 /\ ~Head(out').chunked
        /\ Head(out').close
    <3>1. PICK keep : ~keep /\ out' = Page(400, keep)
      BY <1>1, Zenon
    <3> QED
      BY <3>1, PageIs
  <2>6. IsHead(Head(out))'
    BY <2>3, <2>5 DEF IsHead
  <2> QED
    BY <2>4, <2>5, <2>6
<1> QED
  BY <1>1, <1>3, FollowingAnswer

(* Every answer is one of a handler, or the page of a refusal.             *)
LEMMA EntryMade ==
  ASSUME PlaceInv, FileInv, StepInv, Answer \/ Refuse
  PROVE  \E e : /\ made' = Append(made, e) /\ Entry(e.r)
                /\ UNCHANGED <<script, notFoundSet>>
<1>1. CASE Answer
  <2> DEFINE e == [r |-> resp, quiet |-> out' = <<>>]
  <2>1. made' = Append(made, e) /\ UNCHANGED <<script, notFoundSet>> /\ pc = "answer"
    BY <1>1 DEF Answer
  <2>2. e.r = resp
    BY Zenon
  <2> HIDE DEF e
  <2>3. Entry(e.r)
    BY <2>1, <2>2 DEF FileInv, Entry
  <2> QED
    BY <2>1, <2>3
<1>2. CASE Refuse
  <2> DEFINE r == [Copy(400, 1) EXCEPT !.body = FALSE, !.of = FixedPage]
             e == [r |-> r, quiet |-> FALSE]
  <2>1. made' = Append(made, e) /\ UNCHANGED <<script, notFoundSet>>
    BY <1>2 DEF Refuse
  <2>2. e.r = r /\ r.len = 1 /\ r.filled = 1 /\ r.of = FixedPage /\ ~r.chunked
    BY DEF Copy, Zero
  <2> HIDE DEF e, r
  <2>3. Entry(e.r)
    BY <2>2 DEF Entry
  <2> QED
    BY <2>1, <2>3
<1> QED
  BY <1>1, <1>2

LEMMA FollowingSendRequest ==
  ASSUME PlaceInv, CleanInv, Following, SendRequest
  PROVE  Following'
<1>1. /\ rd = "idle" /\ ~closing /\ rd' = "head" /\ sent' = sent + 1
      /\ UNCHANGED <<script, notFoundSet, made, got, wire, out>>
  BY DEF SendRequest, serverVars
<1>2. Len(got) = sent /\ Len(made) = sent /\ Pending = <<>> /\ sent \in Nat
  BY <1>1 DEF Following, PlaceInv
<1>3. Pending' = <<>>
  BY <1>1, <1>2 DEF Pending
<1>4. Len(got') <= Len(made') /\ \A j \in 1 .. Len(got') : got'[j] = Meant(j)'
  <2>1. \A j : Meant(j)' = Meant(j)
    BY <1>1, AnswerKept
  <2> QED
    BY <1>1, <2>1 DEF Following
<1>5. sent' >= 1 /\ Len(got') = sent' - 1 /\ Len(made') = sent' - 1
  BY <1>1, <1>2
<1> QED
  BY <1>1, <1>3, <1>4, <1>5 DEF Following, Reading

LEMMA FollowingSeeClose ==
  ASSUME PlaceInv, CleanInv, StepInv, NoneUpset, Following, SeeClose
  PROVE  Following'
<1>1. /\ pc = "closed" /\ wire = <<>> /\ rd' = "over" /\ rd # "gone" /\ rd # "over"
      /\ UNCHANGED <<script, notFoundSet, made, got, pc>>
  BY DEF SeeClose, serverVars, staticVars
<1>2. Pending = <<>>
  <2>1. out = <<>>
    BY <1>1 DEF StepInv
  <2> QED
    BY <1>1, <2>1, EmptyList, ConcatEmpty DEF Pending
<1>3. Len(got') <= Len(made') /\ \A j \in 1 .. Len(got') : got'[j] = Meant(j)'
  <2>1. \A j : Meant(j)' = Meant(j)
    BY <1>1, AnswerKept
  <2> QED
    BY <1>1, <2>1 DEF Following
<1>4. Len(got) \in Nat /\ Len(made) \in Nat /\ sent \in Nat
  BY DEF PlaceInv, CleanInv, IsList
<1>5. \A j \in 1 .. Len(made) : made[j].quiet \/ j <= Len(got)
  <2>1. CASE rd = "idle"
    BY <1>4, <2>1 DEF Following
  <2>2. CASE rd = "head"
    <3>1. Len(got) = sent - 1
      BY <2>2 DEF Following, Reading
    <3>2. ~Before
      BY <1>2 DEF Before
    <3>3. Len(made) = sent - 1 \/ (Len(made) = sent /\ made[sent].quiet)
      BY <2>2, <3>2 DEF Following
    <3> QED
      BY <1>4, <3>1, <3>3
  <2>3. CASE rd = "body"
    <3>1. left \in 1 .. Size /\ InBody(Size - left) /\ Pending = Run(left, Of) /\ sent >= 1
      BY <2>3 DEF Following, Reading
    <3>2. Size \in Nat
      BY <3>1, MeantCurrent DEF InBody
    <3>3. left \in Nat /\ left >= 1
      BY <3>1, <3>2
    <3> QED
      BY <1>2, <3>1, <3>3, RunIs
  <2>4. CASE rd = "chunk"
    <3>1. left \in 1 .. Size /\ InBody(Size - left) /\ Pending = Run(left, Of) \o EndTokens
          /\ sent >= 1
      BY <2>4 DEF Following, Reading
    <3>2. Size \in Nat
      BY <3>1, MeantCurrent DEF InBody
    <3>3. left \in Nat /\ left >= 1
      BY <3>1, <3>2
    <3>4. IsList(Run(left, Of)) /\ Run(left, Of) # <<>> /\ IsList(EndTokens)
      BY <3>3, RunIs, EndIs
    <3> QED
      BY <1>2, <3>1, <3>4, TakeHead
  <2>5. CASE rd = "size"
    <3>1. sent >= 1
      BY <2>5 DEF Following, Reading
    <3>2. Chunks /\ ((InBody(0) /\ Pending = After) \/ (InBody(Size) /\ Pending = LastToken))
      BY <2>5, Zenon DEF Following
    <3>3. Len(made) = sent
      BY <3>2 DEF InBody
    <3>4. Size \in Nat
      BY <3>1, <3>3, MeantCurrent
    <3>5. After # <<>>
      <4>1. CASE Size > 0
        <5>1. IsList(Run(Size, Of) \o EndTokens)
          BY <3>4, RunIs, EndIs, ConcatList
        <5>2. After = <<[t |-> "size", n |-> Size]>> \o (Run(Size, Of) \o EndTokens)
          BY <3>2, <4>1 DEF After
        <5> QED
          BY <5>1, <5>2, ConsIs
      <4>2. CASE ~(Size > 0)
        BY <3>2, <4>2, EndIs DEF After
      <4> QED
        BY <4>1, <4>2
    <3> QED
      BY <1>2, <3>2, <3>5, EndIs
  <2>6. CASE rd = "crlf"
    BY <1>2, <2>6, EndIs DEF Following
  <2> QED
    BY <1>1, <2>1, <2>2, <2>3, <2>4, <2>5, <2>6 DEF Following, Reading
<1> QED
  BY <1>1, <1>3, <1>5 DEF Following, Reading

(* The client is gone, and gets nothing more.                              *)
LEMMA FollowingGone ==
  ASSUME Following, rd' = "gone", UNCHANGED <<script, notFoundSet, made, got>>
  PROVE  Following'
<1>1. Len(got') <= Len(made') /\ \A j \in 1 .. Len(got') : got'[j] = Meant(j)'
  <2>1. \A j : Meant(j)' = Meant(j)
    BY AnswerKept
  <2> QED
    BY <2>1 DEF Following
<1> QED
  BY <1>1 DEF Following, Reading

LEMMA StepStep ==
  StepInv /\ PlaceInv /\ FileInv /\ CleanInv /\ CleanInv' /\ [Next]_vars => StepInv'
<1> SUFFICES ASSUME StepInv, PlaceInv, FileInv, CleanInv, CleanInv', [Next]_vars
             PROVE  StepInv'
  OBVIOUS
<1>1. CASE Answer \/ Refuse
  <2>1. PICK e : made' = Append(made, e) /\ Entry(e.r) /\ UNCHANGED <<script, notFoundSet>>
    BY <1>1, EntryMade
  <2>2. /\ Len(made') = Len(made) + 1 /\ made'[Len(made) + 1] = e
        /\ \A j \in 1 .. Len(made) : made'[j] = made[j]
        /\ NoneUpset' => NoneUpset
    BY <2>1, OlderKept
  <2>3. pc' = "send"
    BY <1>1 DEF Answer, Refuse
  <2>4. \A j \in 1 .. Len(made') : Entry(made'[j].r)
    <3>1. Len(made) \in Nat
      BY DEF PlaceInv, IsList
    <3>2. \A j \in 1 .. Len(made') : j \in 1 .. Len(made) \/ j = Len(made) + 1
      BY <2>2, <3>1
    <3>3. \A j \in 1 .. Len(made) : Entry(made[j].r)
      BY DEF StepInv
    <3> QED
      BY <2>1, <2>2, <3>2, <3>3
  <2>5. NoneUpset' => Following'
    <3> SUFFICES ASSUME NoneUpset' PROVE Following'
      OBVIOUS
    <3>1. NoneUpset /\ Following
      BY <2>2 DEF StepInv
    <3> QED
      BY <1>1, <3>1, StepAnswer, StepRefuse
  <2>6. \A j \in 1 .. Len(made') : Entry(made[j].r)'
    BY <2>4 DEF Entry, Whole, Sendable
  <2> QED
    BY <2>3, <2>5, <2>6 DEF StepInv
<1>2. ASSUME ~(Answer \/ Refuse)
      PROVE  StepInv'
  <2>1. UNCHANGED <<made, script, notFoundSet>>
    BY <1>2 DEF Next, Server, Client, TakeRequest, GiveUp, Handle, HandleFile, ServeFile,
      SendToken, Finish, SendRequest, Receive, SeeClose, Leave, OthersWrite, vars, serverVars
  <2>2. \A j \in 1 .. Len(made') : Entry(made[j].r)'
    BY <2>1 DEF StepInv, Entry, Whole, Sendable
  <2>3. NoneUpset' <=> NoneUpset
    BY <2>1, AnswerKept
  <2>4. CASE TakeRequest \/ GiveUp \/ Handle \/ HandleFile \/ ServeFile \/ Finish
             \/ OthersWrite \/ UNCHANGED vars
    <3>1. UNCHANGED <<out, wire, clientVars>>
      BY <2>4 DEF TakeRequest, GiveUp, Handle, HandleFile, ServeFile, Finish, OthersWrite, vars,
        serverVars, clientVars
    <3>2. pc = "closed" => pc' = "closed"
      BY <2>4, StaticPlace DEF TakeRequest, GiveUp, Handle, HandleFile, ServeFile, Finish,
        OthersWrite, Rewrite, vars, staticVars, Busy
    <3>3. pc' # "send" => out' = <<>>
      <4>1. pc' = pc \/ out = <<>>
        <5>1. pc = "send" => Finish \/ pc' = pc
          BY <2>4, StaticPlace DEF TakeRequest, GiveUp, Handle, HandleFile, ServeFile,
            OthersWrite, Rewrite, vars, staticVars, Busy
        <5> QED
          BY <5>1 DEF Finish, StepInv
      <4> QED
        BY <3>1, <4>1 DEF StepInv
    <3>4. Pending' = Pending
      BY <3>1 DEF Pending
    <3>5. NoneUpset => Following'
      BY <2>1, <3>1, <3>2, <3>4, FollowingKept DEF StepInv, clientVars
    <3> QED
      BY <2>2, <2>3, <3>3, <3>5 DEF StepInv
  <2>5. CASE SendToken
    <3>1. UNCHANGED <<pc, clientVars>> /\ pc = "send"
      BY <2>5 DEF SendToken, staticVars
    <3>2. ASSUME NoneUpset PROVE Following'
      <4>1. Following
        BY <3>2 DEF StepInv
      <4>2. CASE rd = "gone"
        BY <2>1, <3>1, <4>1, <4>2, FollowingGone DEF clientVars
      <4>3. CASE rd # "gone"
        <5>1. Pending' = Pending
          BY <2>5, <4>3, PendingSent
        <5> QED
          BY <2>1, <3>1, <4>1, <5>1, FollowingKept DEF clientVars
      <4> QED
        BY <4>2, <4>3
    <3> QED
      BY <2>2, <2>3, <3>1, <3>2 DEF StepInv
  <2>6. CASE SendRequest \/ Receive \/ SeeClose \/ Leave
    <3>1. UNCHANGED <<pc, out>>
      BY <2>6 DEF SendRequest, Receive, SeeClose, Leave, staticVars, serverVars
    <3>2. ASSUME NoneUpset PROVE Following'
      <4>1. Following
        BY <3>2 DEF StepInv
      <4>2. CASE SendRequest
        BY <4>1, <4>2, FollowingSendRequest
      <4>3. CASE Receive
        BY <3>2, <4>1, <4>3, FollowingReceive
      <4>4. CASE SeeClose
        BY <3>2, <4>1, <4>4, FollowingSeeClose
      <4>5. CASE Leave
        <5>1. rd' = "gone" /\ got' = got
          BY <4>5 DEF Leave
        <5> QED
          BY <2>1, <4>1, <5>1, FollowingGone
      <4> QED
        BY <2>6, <4>2, <4>3, <4>4, <4>5
    <3> QED
      BY <2>2, <2>3, <3>1, <3>2 DEF StepInv
  <2> QED
    BY <1>2, <2>4, <2>5, <2>6 DEF Next, Server, Client
<1> QED
  BY <1>1, <1>2

(* The client takes every answer for what the server made it: it is never  *)
(* lost in a response, has read each answer to its last byte, and at the   *)
(* end of the connection has all that send_response() and the fixed pages  *)
(* sent, as long as no answer was one that puts every client out of step.  *)
THEOREM AnswersInStepHolds == Spec => []AnswersInStep
<1>1. StepInv => AnswersInStep
  BY DEF StepInv, AnswersInStep, Following, NoneUpset, Reading
<1>2. Spec => []StepInv
  BY StepInit, StepStep, PlaceAlways, FileAlways, CleanAlways, PTL DEF Spec
<1> QED
  BY <1>1, <1>2, PTL
=============================================================================
