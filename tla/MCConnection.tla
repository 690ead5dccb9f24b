---------------------------- MODULE MCConnection ----------------------------
(* Clients for the Connection runs.                                        *)
EXTENDS Connection

Req(sep, cl, pad, content, alive, fault, sendable) ==
  [sep |-> sep, cl |-> cl, pad |-> pad, body |-> content, ka |-> alive,
   fault |-> fault, sendable |-> sendable, eager |-> FALSE, fails |-> {}]
Eager(r) == [r EXCEPT !.eager = TRUE]

Get(alive)  == Req("E", -1, 0, <<>>, alive, "none", TRUE)
LfGet       == Req("L", -1, 3, <<>>, TRUE, "none", TRUE)
Post(alive) == Req("E", 2, 0, <<"b", "b">>, alive, "none", TRUE)
BigPost     == Req("E", 3, 1, <<"b", "b", "b">>, TRUE, "none", TRUE)
LfPost      == Req("L", 2, 0, <<"b", "b">>, TRUE, "none", TRUE)

Regular == {Get(TRUE), LfGet, Post(TRUE), BigPost, LfPost}

(* Any two regular requests, then one that ends the connection.            *)
RegularScripts ==
  {<<r, s, t>> : r \in Regular, s \in Regular, t \in {Get(FALSE), Post(FALSE)}}

TooLong   == Req("E", -1, 4, <<>>, TRUE, "none", TRUE)
TooBig    == Req("E", 5, 0, <<"b", "b", "b", "b", "b">>, TRUE, "none", TRUE)
Short     == Req("E", 3, 0, <<"b">>, TRUE, "none", TRUE)
Excess    == Req("E", 1, 0, <<"b", "b">>, TRUE, "none", TRUE)
NoAnswer  == Req("E", -1, 0, <<>>, TRUE, "none", FALSE)
Blank     == Req("E", 2, 0, <<"b", "E">>, TRUE, "none", TRUE)
LfBlank   == Req("L", 2, 0, <<"E", "L">>, TRUE, "none", TRUE)
Faulty    == {Req("E", 1, 0, <<"b">>, TRUE, f, TRUE) : f \in Faults \ {"none"}}

(* Every way to be refused, after a regular request and before another.    *)
RefusedScripts ==
  {<<r, s, Get(FALSE)>> :
     r \in {Get(TRUE), Post(TRUE)},
     s \in Faulty \union {TooLong, TooBig, Short, Excess, NoAnswer, Blank, LfBlank}}

(* Clients that may send everything at once.                               *)
PipelinedScripts ==
  {<<r, Eager(s), Eager(Get(FALSE))>> :
     r \in {Get(TRUE), LfGet, Post(TRUE)}, s \in {Get(TRUE), LfGet, NoAnswer, LfPost}}

(* The same while memory runs out and poll() fails.                        *)
Failing(r) == [r EXCEPT !.fails = {"poll", "memory"}]
AllScripts ==
  RegularScripts \union RefusedScripts
    \union {[s EXCEPT ![1] = Failing(@)] : s \in RefusedScripts \union PipelinedScripts}

TwoGets == {<<Get(TRUE), Eager(Get(FALSE))>>}
=============================================================================
