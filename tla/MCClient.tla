------------------------------ MODULE MCClient ------------------------------
(* URLs and responses for TLC.                                             *)
EXTENDS Client

Url(text, host, port, path) == [text |-> text, host |-> host, port |-> port, path |-> path]

(* The first four are the forms mnet_client.c:370-374 lists.               *)
MCUrls ==
  {Url(<<"https://", "h">>, <<"h">>, 443, <<>>),
   Url(<<"http://", "h", ":", "81", "/", "p">>, <<"h">>, 81, <<"/", "p">>),
   Url(<<"h">>, <<"h">>, 80, <<>>),
   Url(<<"h", ":", "81", "/", "p">>, <<"h">>, 81, <<"/", "p">>),
   Url(<<"https://", "h", "/", "p">>, <<"h">>, 443, <<"/", "p">>),
   Url(<<"h", ":", "81", "?", "p", ":">>, <<"h">>, 81, <<"?", "p", ":">>),
   Url(<<"h", "/", "p", "/", "p", "/", "p">>, <<"h">>, 80, <<"/", "p", "/", "p", "/", "p">>),
   Url(<<"h", "h", "h", "h", "/">>, <<"h", "h", "h", "h">>, 80, <<"/">>),
   Url(<<"h", ":", "65536", "/">>, <<"h">>, 0, <<"/">>),
   Url(<<"h", ":", "81", "x", "/">>, <<"h">>, 0, <<"/">>),
   Url(<<"h", ":", "/", "p">>, <<"h">>, 80, <<"/", "p">>),
   Url(<<"http://", ":", "81", "/">>, <<>>, 81, <<"/">>),
   Url(<<"h", ":", "81">>, <<"h">>, 81, <<>>),
   Url(<<>>, <<>>, 80, <<>>)}

Answer(code, tokens) == [status |-> code, tokens |-> tokens]
MCAnswers ==
  {Answer(200, <<"HTTP", "code", "h", "blank", "b", "c">>),
   Answer(404, <<"HTTP", "code", "blank", "b">>),
   Answer(200, <<"HTTP", "code", "blank">>),
   Answer(200, <<"b", "blank", "c", "blank", "b">>),
   Answer(200, <<"HTTP", "code", "blank", "b", "blank", "c", "d", "e", "f">>),
   Answer(200, <<"HTTP", "code", "h", "h", "h", "h", "blank", "b", "c", "d", "e">>),
   Answer(500, <<"HTTP", "code", "h">>),
   Answer(200, <<>>)}
=============================================================================
