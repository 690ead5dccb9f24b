------------------------------ MODULE MCRouter ------------------------------
(* Patterns and paths for the Router runs.                                 *)
EXTENDS Router

(* Paths of up to three segments, empty ones too, some not rooted or with  *)
(* escapes.                                                                *)
Words == {<<>>, <<"a">>, <<"b">>}
Join(s) == <<"/">> \o s
OneSegment == {Join(s) : s \in Words}
TwoSegments == {<<"/", "a">> \o y : y \in OneSegment} \union {<<"/", "/", "a">>}
ThreeSegments == {<<"/", "a">> \o y : y \in {<<"/", "b", "/">>, <<"/", "a", "/", "a">>,
                                              <<"/", "/", "a">>}}
Escaped == {<<"/", "a", "/", "%2F">>, <<"/", "%zz">>}
AllPaths == OneSegment \union TwoSegments \union ThreeSegments \union Escaped
              \union {<<"*">>}

X == <<"/", ":", "x">>
Y == <<"/", ":", "y">>
A == <<"/", "a">>
Root == <<"/">>
Star == <<"/", "*">>

(* Words, parameters and a last wildcard in every place.                   *)
AllPatterns ==
  {<<"a">>, Root, X, A \o <<"/", ":">>, X \o A, A \o Star, X \o A \o Star, X \o Y \o Root}

OnePrefix == {A}
None == {}

ThreeParams == {X \o Y \o <<"/", ":", "z">>}
ThreeWords == {A \o A \o A}

(* The patterns are among those the routing theorems speak of.             *)
ASSUME PatternsAssumption ==
  /\ \A p \in Patterns : WellShaped(p) /\ ClearlyNamed(p)
  /\ \A p \in StaticPrefixes : WellShaped(p \o <<"/", "*">>)
=============================================================================
