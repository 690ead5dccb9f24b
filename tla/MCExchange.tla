----------------------------- MODULE MCExchange -----------------------------
(* Requests, and a directory for static files.                             *)
EXTENDS Exchange, TLC

Root    == <<"/", "w">>
InRoot  == <<"/", "w", "/", "f">>
Locked  == <<"/", "w", "/", "k">>
Sibling == <<"/", "w", "2">>
Outside == <<"/", "e">>

MCKind == (Root :> "dir") @@ (InRoot :> "file") @@ (Locked :> "locked")
            @@ (Sibling :> "file") @@ (Outside :> "file")
MCReal == [name \in {"f", "k", "dot", "sib", "link", "no"} |->
             CASE name = "f" -> InRoot [] name = "k" -> Locked [] name = "dot" -> Root
               [] name = "sib" -> Sibling [] name = "link" -> Outside [] name = "no" -> Absent]

Call(fn, status, n, name, good) ==
  [fn |-> fn, status |-> status, size |-> n, name |-> name, good |-> good]
Plain(fn, status, n) == Call(fn, status, n, "f", TRUE)

Calls ==
  {Plain("text", 200, n) : n \in {-1, 0, 2}}
    \union {Plain("error", 500, 1), Plain("error", 0, 1), Plain("chunked", 200, 2),
            Plain("chunked", 200, 0), Call("chunked", 200, 1, "f", FALSE),
            Plain("nobody", 500, 2), Plain("missing", 0, 0), Plain("welcome", 0, 0),
            Plain("refuse", 0, 0)}
    \union {Call("file", 200, 0, name, TRUE) : name \in DOMAIN MCReal}

R(head, ka, call) == [head |-> head, ka |-> ka, call |-> call]
First  == {R(head, TRUE, call) : head \in BOOLEAN, call \in Calls}
Second == {R(FALSE, FALSE, Plain("text", 200, 1)), R(TRUE, TRUE, Plain("missing", 0, 0)),
           R(FALSE, TRUE, Plain("chunked", 200, 1))}
Third  == {R(FALSE, FALSE, Plain("error", 404, 1))}

MCScripts == {<<r1, r2, r3>> : r1 \in First, r2 \in Second, r3 \in Third}
StallScripts == {<<R(FALSE, FALSE, Plain("text", 200, 2))>>}
=============================================================================
