---------------------------- MODULE MCJsonFormat ----------------------------
(* Calls of mnet_jsonf() for TLC, put together from parts: the text in the *)
(* format, the argument that goes with it, how wide it comes out, where it *)
(* is cut (-1: nowhere), whether the library allows it.                    *)
EXTENDS JsonFormat, SequencesExt

Dir(text, type, arg, wide, cut, legal) ==
  [text |-> text, type |-> type, arg |-> arg, wide |-> wide, cut |-> cut,
   legal |-> legal]
Char(c)      == Dir(<<c>>, "none", <<c>>, 0, -1, TRUE)
Bad(text)    == Dir(text, "none", <<>>, 0, -1, FALSE)
Str(s)       == Dir(<<"%", "s">>, "string", s, 0, -1, TRUE)
CutStr(d, s) == Dir(<<"%", ".", d, "s">>, "string", s, 0, Value[d], TRUE)
OneChar      == Dir(<<"%", "c">>, "char", <<"u">>, 0, -1, TRUE)

CallOf(parts) ==
  LET taken == SelectSeq(parts, LAMBDA d : d.type # "none")
  IN [format |-> FlattenSeq([n \in 1 .. Len(parts) |-> parts[n].text]),
      args   |-> [n \in 1 .. Len(taken) |->
                    [type |-> taken[n].type, text |-> taken[n].arg]],
      parts  |-> parts]

Plain    == {Char("x"), Dir(<<"%", "%">>, "none", <<"%">>, 0, -1, TRUE)}
Strings  == {<<>>, <<"a", "q">>, <<"u", "q", "u">>}
Unicode  == {<<"a", "b", "e">>, <<"a", "L", "C">>, <<"a", "a", "L", "C", "b">>,
             <<"L", "C", "q">>, <<"a", "L", "C", "C", "C">>, <<"C", "C", "C">>}
Texts    == {Str(s) : s \in Strings}
              \union {CutStr(d, s) : d \in {"0", "2"}, s \in Unicode}
              \union {OneChar, Dir(<<"%", ".", "s">>, "string", <<"a">>, 0, 0, TRUE)}
Numbers  == {Dir(<<"%", "d">>, "int", <<"1">>, 0, -1, TRUE),
             Dir(<<"%", "7", "d">>, "int", <<"1">>, 7, -1, TRUE),
             Dir(<<"%", "-", "-", "9", "d">>, "int", <<"1">>, 9, -1, TRUE),
             Dir(<<"%", "-", "-", "l", "9", "d">>, "int", <<"1">>, 9, -1, TRUE),
             Dir(<<"%", "-", "-", "-", ".", "2", "f">>, "float", <<"3">>, 2, -1, TRUE),
             Dir(<<"%", "l", "f">>, "float", <<"n", "a", "n">>, 0, -1, TRUE)}
Refusals == {Bad(<<"%", "n">>), Bad(<<"%", "*", "d">>), Bad(<<"%", "9", "d">>),
             Bad(<<"%", "2", "s">>), Bad(<<"%", "l", "c">>), Bad(<<"%", "-", "%">>)}
TooLong  == {Dir(<<"%", "-", "-", "-", "-", "-", "2", "d">>, "int", <<"1">>, 2, -1, TRUE)}
Overruns == {Dir(<<"%", "-", "-", "-", "2", "d">>, "int", <<"1">>, 2, -1, TRUE),
             Dir(<<"%", "-", "-", "-", "-", "2", "d">>, "int", <<"1">>, 2, -1, TRUE)}
AtTheEnd == {Bad(<<"%">>), Bad(<<"%", "2">>), Bad(<<"%", ".">>)}

Allowed == Plain \union Texts \union Numbers
AllCalls ==
  {CallOf(<<>>)}
    \union {CallOf(<<a, b>>) : a \in Allowed, b \in Allowed \union AtTheEnd}
    \union {CallOf(<<a, b, c>>) :
              a \in Plain \union {Str(<<"a">>)}, b \in Refusals \union TooLong \union Overruns,
              c \in Plain \union Numbers
                      \union {OneChar, Str(<<"q">>), CutStr("2", <<"q">>)}}

(* The calls are among those FormatRight is proved for.                    *)
ASSUME SpelledAssumption == \A c \in Calls : Spelled(c)
=============================================================================
