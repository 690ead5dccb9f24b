--------------------------- MODULE RequestExtras ---------------------------
(***************************************************************************)
(* What parse_request() makes of the header block and the query string of  *)
(* a request: the arrays of headers, cookies and query parameters, their   *)
(* limits, the in-place URL decoding, the look-ups of a handler and        *)
(* free_extras(), for one request after another and with any allocation    *)
(* failing.                                                                *)
(*                                                                         *)
(* A header line is a record: its form ("field", "nocolon", "badname",     *)
(* "long"), name, value and, for a Cookie field, its pieces.  A piece (of  *)
(* a cookie or a query) has a name and a value, sequences of characters;   *)
(* one that is not there ("&&") is Nothing and strtok_r() skips it.        *)
(* An allocation is named by the array it belongs to and its place, 0 for  *)
(* the arrays themselves.                                                  *)
(***************************************************************************)
EXTENDS Integers, Sequences, FiniteSets

CONSTANTS
  Requests,     \* records: lines, query
  Nothing,      \* a piece that is not there
  MaxHeaders,   \* MNET_MAX_HEADERS
  MaxQuery,     \* MNET_MAX_QUERY
  MaxValue      \* MNET_MAX_QUERY_NAME, MNET_MAX_QUERY_VALUE

Piece == [name : Seq(STRING), value : Seq(STRING)]
HeaderLine == [form : {"field", "nocolon", "badname", "long"}, name : STRING, value : STRING,
               pieces : Seq(Piece \union {Nothing})]

ASSUME ExtrasAssumption ==
  MaxHeaders \in Nat \ {0} /\ MaxQuery \in Nat \ {0} /\ MaxValue \in Nat
ASSUME RequestsAssumption ==
  /\ Nothing \notin Piece
  /\ \A r \in Requests :
       r.lines \in Seq(HeaderLine) /\ r.query \in Seq(Piece \union {Nothing})

Kinds == {"header", "cookie", "query"}
None  == [held |-> FALSE, list |-> <<>>]

VARIABLES
  req, pc, verdict, ka,   \* verdict and keep_alive of parse_request()
  extras,                 \* the arrays it has handed out, by kind
  list, n,                \* the array being filled, the line or piece looked at
  field,                  \* the stored header looked at
  part, buf, i, pos,      \* mnet_url_decode_ex(): what it decodes, its locals
  live,                   \* history: allocations not freed
  misuse,                 \* history: freed twice, or lost by overwriting it
  starved                 \* history: an allocation failed in this request

heapVars   == <<live, misuse>>
decodeVars == <<part, buf, i, pos>>
vars == <<req, pc, verdict, ka, extras, list, n, field, part, buf, i, pos,
          live, misuse, starved>>

Init ==
  /\ req \in Requests /\ pc = "idle" /\ verdict = 0 /\ ka = FALSE
  /\ extras = [kind \in Kinds |-> None]
  /\ list = <<>> /\ n = 1 /\ field = 1
  /\ part = "name" /\ buf = <<>> /\ i = 1 /\ pos = 0
  /\ live = {} /\ misuse = FALSE /\ starved = FALSE

----------------------------------------------------------------------------
(* Allocations.                                                            *)

Pair(kind, k)   == {<<kind, k, "name">>, <<kind, k, "value">>}
Array(kind, m)  == UNION {Pair(kind, k) : k \in 0 .. m}
Temporary(kind) == {<<kind, 0, "copy">>}
                     \union (IF kind = "header" THEN {<<kind, 0, "block">>} ELSE {})

Allocate(new) ==
  /\ live' = live \union new
  /\ misuse' = (misuse \/ new \intersect live # {})
Free(old) ==
  /\ live' = live \ old
  /\ misuse' = (misuse \/ ~(old \subseteq live))

(* The next array: the two arrays and the copy to cut up, or none of them. *)
Begin(kind) ==
  /\ Allocate(Pair(kind, 0) \union Temporary(kind))
  /\ list' = <<>> /\ n' = 1
  /\ UNCHANGED <<req, verdict, ka, field, decodeVars, starved>>

(* The caller gets what was stored, or nothing.                            *)
HandOut(kind) ==
  /\ Free(Temporary(kind))
  /\ extras' = [extras EXCEPT ![kind] = [held |-> TRUE, list |-> list]]

(* Fault: the entries stored so far are forgotten.                         *)
AbandonArraysOnly(kind) ==
  /\ Free(Pair(kind, 0) \union Temporary(kind))
  /\ extras' = [extras EXCEPT ![kind] = None]

Abandon(kind) ==
  /\ Free(Array(kind, Len(list)) \union Temporary(kind))
  /\ extras' = [extras EXCEPT ![kind] = None]

Store(kind, entry) ==
  /\ Allocate(Pair(kind, Len(list) + 1)) /\ list' = Append(list, entry)

----------------------------------------------------------------------------
(* parse_headers().                                                        *)

Start ==
  /\ pc = "idle" /\ req' \in Requests
  /\ extras' = [kind \in Kinds |-> None]
  /\ verdict' = 0 /\ ka' = FALSE /\ starved' = FALSE
  /\ pc' = "headers"
  /\ UNCHANGED <<list, n, field, decodeVars, heapVars>>

Refuse431 == verdict' = 431 /\ pc' = "release"

BeginHeaders == pc = "headers" /\ pc' = "lines" /\ Begin("header") /\ UNCHANGED extras

NoHeaders ==     \* an allocation fails before the first line
  /\ pc = "headers" /\ Refuse431 /\ starved' = TRUE
  /\ UNCHANGED <<req, ka, extras, list, n, field, decodeVars, heapVars>>

(* Fault: the limit is noticed one line too late.                          *)
OverLimitLate(line) == Len(list) > MaxHeaders \/ line.form = "long"

OverLimit(line) == Len(list) >= MaxHeaders \/ line.form = "long"

(* The line the loop has arrived at, if there is one.                      *)
Line == {req.lines[k] : k \in {m \in 1 .. Len(req.lines) : pc = "lines" /\ m = n}}

SkipLine == \E line \in Line :
  /\ ~OverLimit(line) /\ line.form \in {"nocolon", "badname"}
  /\ n' = n + 1
  /\ UNCHANGED <<req, pc, verdict, ka, extras, list, field, decodeVars, heapVars, starved>>

StoreLine == \E line \in Line :
  /\ ~OverLimit(line) /\ line.form = "field"
  /\ Store("header", line) /\ n' = n + 1
  /\ UNCHANGED <<req, pc, verdict, ka, extras, field, decodeVars, starved>>

LineFails == \E line \in Line :
  /\ \/ OverLimit(line) /\ UNCHANGED starved
     \/ ~OverLimit(line) /\ line.form = "field" /\ starved' = TRUE
  /\ Abandon("header") /\ Refuse431
  /\ UNCHANGED <<req, ka, list, n, field, decodeVars>>

EndHeaders ==
  /\ pc = "lines" /\ n > Len(req.lines)
  /\ HandOut("header") /\ pc' = "fields" /\ field' = 1
  /\ UNCHANGED <<req, verdict, ka, list, n, decodeVars, starved>>

----------------------------------------------------------------------------
(* The loop over the stored headers, and parse_cookies().                  *)

Fields   == extras["header"].list
Field    == Fields[field]
AtField  == pc = "fields" /\ field <= Len(Fields)
IsCookie == Field.name = "Cookie"

OtherField ==
  /\ AtField /\ ~IsCookie
  /\ ka' = (ka \/ (Field.name = "Connection" /\ Field.value = "keep-alive"))
  /\ field' = field + 1
  /\ UNCHANGED <<req, pc, verdict, extras, list, n, decodeVars, heapVars, starved>>

(* Fault: only the first Cookie field is read.                             *)
CookieFieldOnce ==
  /\ AtField /\ IsCookie
  /\ IF extras["cookie"].held THEN pc' = pc /\ field' = field + 1
                              ELSE pc' = "cookie" /\ field' = field
  /\ UNCHANGED <<req, verdict, ka, extras, list, n, decodeVars, heapVars, starved>>

(* The cookies of an earlier Cookie field are freed first.                 *)
CookieField ==
  /\ AtField /\ IsCookie
  /\ IF extras["cookie"].held
     THEN Free(Array("cookie", Len(extras["cookie"].list)))
     ELSE UNCHANGED heapVars
  /\ extras' = [extras EXCEPT !["cookie"] = None]
  /\ pc' = "cookie"
  /\ UNCHANGED <<req, verdict, ka, list, n, field, decodeVars, starved>>

BeginCookies ==
  /\ pc = "cookie" /\ Field.pieces # <<>>
  /\ pc' = "crumbs" /\ Begin("cookie") /\ UNCHANGED extras

NoCookies ==      \* an empty value, or an allocation fails
  /\ pc = "cookie"
  /\ \/ Field.pieces = <<>> /\ UNCHANGED starved
     \/ Field.pieces # <<>> /\ starved' = TRUE
  /\ pc' = "fields" /\ field' = field + 1
  /\ UNCHANGED <<req, verdict, ka, extras, list, n, decodeVars, heapVars>>

AtPiece(pieces) == n <= Len(pieces)

StoreCookie ==
  /\ pc = "crumbs" /\ AtPiece(Field.pieces)
  /\ IF Field.pieces[n] = Nothing THEN UNCHANGED <<list, heapVars>>
                                  ELSE Store("cookie", Field.pieces[n])
  /\ n' = n + 1
  /\ UNCHANGED <<req, pc, verdict, ka, extras, field, decodeVars, starved>>

CookieFails ==
  /\ pc = "crumbs" /\ AtPiece(Field.pieces) /\ Field.pieces[n] # Nothing
  /\ Abandon("cookie") /\ starved' = TRUE
  /\ pc' = "fields" /\ field' = field + 1
  /\ UNCHANGED <<req, verdict, ka, list, n, decodeVars>>

EndCookies ==
  /\ pc = "crumbs" /\ ~AtPiece(Field.pieces)
  /\ HandOut("cookie") /\ pc' = "fields" /\ field' = field + 1
  /\ UNCHANGED <<req, verdict, ka, list, n, decodeVars, starved>>

----------------------------------------------------------------------------
(* parse_query_string().                                                   *)

AtQuery == pc = "fields" /\ field > Len(Fields)

BeginQuery ==
  AtQuery /\ req.query # <<>> /\ pc' = "pairs" /\ Begin("query") /\ UNCHANGED extras

NoQuery ==        \* none, or an allocation fails: served without
  /\ AtQuery
  /\ \/ req.query = <<>> /\ UNCHANGED starved
     \/ req.query # <<>> /\ starved' = TRUE
  /\ pc' = "serve"
  /\ UNCHANGED <<req, verdict, ka, extras, list, n, field, decodeVars, heapVars>>

Smaller(a, b) == IF a < b THEN a ELSE b
Slots  == Smaller(Len(req.query), MaxQuery)
AtPair == pc = "pairs" /\ AtPiece(req.query) /\ Len(list) < Slots
Long(piece) == Len(piece.name) > MaxValue \/ Len(piece.value) > MaxValue

SkipPair ==
  /\ AtPair /\ req.query[n] = Nothing
  /\ n' = n + 1
  /\ UNCHANGED <<req, pc, verdict, ka, extras, list, field, decodeVars, heapVars, starved>>

StorePair ==
  /\ AtPair /\ req.query[n] # Nothing /\ ~Long(req.query[n])
  /\ Store("query", req.query[n])
  /\ part' = "name" /\ buf' = req.query[n].name /\ i' = 1 /\ pos' = 0 /\ pc' = "decode"
  /\ UNCHANGED <<req, verdict, ka, extras, n, field, starved>>

(* Out of memory or too long: no parameter at all, and parse_request()     *)
(* does not look at the result.                                            *)
PairFails ==
  /\ AtPair /\ req.query[n] # Nothing
  /\ IF Long(req.query[n]) THEN starved' \in {starved, TRUE} ELSE starved' = TRUE
  /\ Abandon("query") /\ pc' = "serve"
  /\ UNCHANGED <<req, verdict, ka, list, n, field, decodeVars>>

EndQuery ==
  /\ pc = "pairs" /\ ~(AtPiece(req.query) /\ Len(list) < Slots)
  /\ HandOut("query") /\ pc' = "serve"
  /\ UNCHANGED <<req, verdict, ka, list, n, field, decodeVars, starved>>

----------------------------------------------------------------------------
(* mnet_url_decode() of the pair just stored, in place: buf is source and  *)
(* destination.  Two hexadecimal digits make a character.                  *)

Hex  == {"0", "4"}
Char == [d \in Hex \X Hex |-> CASE d = <<"0", "0">> -> "NUL"
                                [] d = <<"0", "4">> -> "EOT"
                                [] d = <<"4", "0">> -> "@"
                                [] d = <<"4", "4">> -> "D"]

EscapeAt(k) == k + 2 <= Len(buf) /\ buf[k + 1] \in Hex /\ buf[k + 2] \in Hex

Decoded == CASE buf[i] = "+" -> " "
             [] buf[i] = "%" -> Char[<<buf[i + 1], buf[i + 2]>>]
             [] OTHER        -> buf[i]
Decodes ==     \* the pass is not over, and neither refuses nor runs out of room
  i <= Len(buf) /\ pos < Len(buf) /\ (buf[i] = "%" => EscapeAt(i) /\ Decoded # "NUL")

DecodeChar ==
  /\ pc = "decode" /\ Decodes
  /\ buf' = [buf EXCEPT ![pos + 1] = Decoded]
  /\ pos' = pos + 1 /\ i' = i + (IF buf[i] = "%" THEN 3 ELSE 1)
  /\ UNCHANGED <<req, pc, verdict, ka, extras, list, n, field, part, heapVars, starved>>

(* Fault: what was decoded so far is kept.                                 *)
ResultPartial == SubSeq(buf, 1, pos)

Result == IF i <= Len(buf) THEN <<>> ELSE SubSeq(buf, 1, pos)

DecodeEnds ==
  /\ pc = "decode" /\ ~Decodes
  /\ IF part = "name"
     THEN /\ list' = [list EXCEPT ![Len(list)].name = Result]
          /\ part' = "value" /\ buf' = list[Len(list)].value /\ i' = 1 /\ pos' = 0
          /\ UNCHANGED <<n, pc>>
     ELSE /\ list' = [list EXCEPT ![Len(list)].value = Result]
          /\ n' = n + 1 /\ pc' = "pairs" /\ UNCHANGED decodeVars
  /\ UNCHANGED <<req, verdict, ka, extras, field, heapVars, starved>>

----------------------------------------------------------------------------
(* The handler runs; free_extras(), called after it and after a refusal.   *)

Serve ==
  /\ pc = "serve" /\ pc' = "release" /\ verdict' = 200
  /\ UNCHANGED <<req, ka, extras, list, n, field, decodeVars, heapVars, starved>>

Release ==
  /\ pc = "release" /\ pc' = "idle"
  /\ Free(UNION {Array(kind, Len(extras[kind].list)) :
                   kind \in {h \in Kinds : extras[h].held}})
  /\ extras' = [kind \in Kinds |-> None]
  /\ UNCHANGED <<req, verdict, ka, list, n, field, decodeVars, starved>>

Next ==
  \/ Start \/ BeginHeaders \/ NoHeaders \/ SkipLine \/ StoreLine \/ LineFails \/ EndHeaders
  \/ OtherField \/ CookieField \/ BeginCookies \/ NoCookies
  \/ StoreCookie \/ CookieFails \/ EndCookies
  \/ BeginQuery \/ NoQuery \/ SkipPair \/ StorePair \/ PairFails \/ EndQuery
  \/ DecodeChar \/ DecodeEnds \/ Serve \/ Release

Spec == Init /\ [][Next]_vars

(* mnet_request_query(), _header(), _cookie(): the first of that name.     *)
Lookup(kind, name) ==
  LET found == {k \in 1 .. Len(extras[kind].list) : extras[kind].list[k].name = name}
  IN IF found = {} THEN <<>>
     ELSE <<extras[kind].list[CHOOSE k \in found : \A m \in found : k <= m].value>>

----------------------------------------------------------------------------
(* Properties.                                                             *)

(* What parse_request() hands out is all there is allocated while the      *)
(* handler runs, nothing survives free_extras(), nothing is freed twice or *)
(* lost: on every path, however many Cookie fields there are and whichever *)
(* allocation fails.                                                       *)
ExtrasOwned ==
  /\ ~misuse
  /\ pc = "idle" => live = {}
  /\ pc \in {"serve", "release"} =>
       live = UNION {Array(kind, Len(extras[kind].list)) :
                       kind \in {h \in Kinds : extras[h].held}}

Lines == {req.lines[k] : k \in 1 .. Len(req.lines)}

(* The first m lines without those that are no field, the first m pieces   *)
(* without those that are not there.                                       *)
FieldsUpTo(lines) ==
  LET kept[m \in Nat] ==
        IF m = 0 THEN <<>>
        ELSE IF lines[m].form = "field" THEN Append(kept[m - 1], lines[m]) ELSE kept[m - 1]
  IN kept
PiecesUpTo(pieces) ==
  LET kept[m \in Nat] ==
        IF m = 0 THEN <<>>
        ELSE IF pieces[m] # Nothing THEN Append(kept[m - 1], pieces[m]) ELSE kept[m - 1]
  IN kept

WellFormed == FieldsUpTo(req.lines)[Len(req.lines)]

(* A handler sees every header field of the request or the request is      *)
(* refused: fields are never dropped, and none is refused without a reason. *)
HeadersComplete ==
  /\ pc = "serve" => Fields = WellFormed /\ Len(WellFormed) <= MaxHeaders
  /\ verdict = 431 /\ ~starved =>
       \/ \E l \in Lines : l.form = "long"
       \/ Len(WellFormed) >= MaxHeaders

CookieFields == {k \in 1 .. Len(WellFormed) : WellFormed[k].name = "Cookie"}

LastCookies ==
  IF CookieFields = {} THEN <<>>
  ELSE LET last == CHOOSE k \in CookieFields : \A j \in CookieFields : j <= k
           pieces == WellFormed[last].pieces
       IN PiecesUpTo(pieces)[Len(pieces)]
CookieNames ==
  {p.name : p \in UNION {{l.pieces[k] : k \in 1 .. Len(l.pieces)} : l \in Lines} \ {Nothing}}

(* MNET_COOKIE() answers from the last Cookie field of the request, from   *)
(* all of it and from nothing else, with the first cookie of that name.    *)
LastCookieWins ==
  pc = "serve" /\ ~starved =>
    \A name \in CookieNames :
      IF \A k \in 1 .. Len(LastCookies) : LastCookies[k].name # name
      THEN Lookup("cookie", name) = <<>>
      ELSE \E k \in 1 .. Len(LastCookies) :
             /\ LastCookies[k].name = name /\ \A j \in 1 .. k - 1 : LastCookies[j].name # name
             /\ Lookup("cookie", name) = <<LastCookies[k].value>>

(* What a name or value means once decoded, read from the left; Broken     *)
(* with an escape that is none or stands for NUL.  Nothing decodes to "%". *)
Broken == <<"%">>
Escaped(s) == Len(s) >= 3 /\ s[2] \in Hex /\ s[3] \in Hex
Decoding[s \in Seq(STRING)] ==
  IF s = <<>> THEN <<>>
  ELSE IF s[1] = "%" /\ (~Escaped(s) \/ Char[<<s[2], s[3]>>] = "NUL") THEN Broken
  ELSE LET c    == CASE s[1] = "%" -> Char[<<s[2], s[3]>>] [] s[1] = "+" -> " " [] OTHER -> s[1]
           rest == Decoding[SubSeq(s, IF s[1] = "%" THEN 4 ELSE 2, Len(s))]
       IN IF rest = Broken THEN Broken ELSE <<c>> \o rest
Shown(s) == IF Decoding[s] = Broken THEN <<>> ELSE Decoding[s]

Given == PiecesUpTo(req.query)[Len(req.query)]

(* MNET_QUERY() finds the first MNET_MAX_QUERY parameters, decoded; a name *)
(* or value that does not decode is empty, the others are not disturbed.   *)
QueryDecoded ==
  pc = "serve" /\ ~starved /\ (\A k \in 1 .. Len(Given) : ~Long(Given[k])) =>
    extras["query"].list =
      [k \in 1 .. Smaller(Len(Given), MaxQuery) |->
         [name |-> Shown(Given[k].name), value |-> Shown(Given[k].value)]]
=============================================================================
