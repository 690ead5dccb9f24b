-------------------------- MODULE MCRequestExtras --------------------------
(* Requests for TLC.                                                       *)
EXTENDS RequestExtras

Plain(form, name, value) ==
  [form |-> form, name |-> name, value |-> value, pieces |-> <<>>]
Cookie(pieces) ==
  [form |-> "field", name |-> "Cookie", value |-> "", pieces |-> pieces]
P(name, value) == [name |-> name, value |-> value]

First == Plain("nocolon", "", "")      \* the request line
Other == Plain("field", "Accept", "any")
Alive == Plain("field", "Connection", "keep-alive")
Odd   == Plain("badname", "", "")
Huge  == Plain("long", "", "")
One   == Cookie(<<P(<<"a">>, <<"a">>), Nothing, P(<<"b">>, <<>>)>>)
Two   == Cookie(<<P(<<"a">>, <<"b">>)>>)
Empty == Cookie(<<>>)

Blocks ==
  {<<First>>, <<First, Alive, Odd, Other>>, <<First, One, Two>>, <<First, Two, Empty>>,
   <<First, Other, One, Alive>>, <<First, Other, Alive, Two, Odd>>,
   <<First, Other, Alive, Two, Other>>, <<First, Two, Huge>>, <<Huge>>}

Values ==
  {<<>>, <<"a">>, <<"a", "+">>, <<"%", "4", "0">>, <<"%", "4">>, <<"a", "%">>,
   <<"%", "0", "0">>, <<"a", "%", "g", "4">>, <<"%", "4", "4", "a", "%", "4", "0">>}
A == P(<<"a">>, <<"b">>)
Long7 == [k \in 1 .. 8 |-> "a"]

Queries ==
  {<<>>} \union {<<P(<<"a">>, v)>> : v \in Values}
         \union {<<P(v, <<"a">>), A>> : v \in Values}
         \union {<<A, Nothing, A>>, <<Nothing, Nothing, A, A>>, <<A, A, A, A>>,
                 <<A, P(<<"a">>, Long7)>>, <<P(Long7, <<>>)>>}

AllRequests ==
  {[lines |-> b, query |-> <<A>>] : b \in Blocks}
    \union {[lines |-> <<First, Two>>, query |-> q] : q \in Queries}
=============================================================================
