---------------------------- MODULE MCHttpContext ----------------------------
(* Model-checking instance of HttpContext: the messages of the client.     *)
EXTENDS HttpContext

CONSTANT Bad

\* A message: its lines, each of one text, and its body.
Texts(lines) == [i \in DOMAIN lines |-> <<lines[i]>>]

Sent(lines, body) ==
    [lines |-> Texts(lines), body |-> body, bytes |-> Encoded(Texts(lines), body),
     request |-> [line |-> <<lines[1]>>, body |-> body]]

Wrong(lines, body) == [Sent(lines, body) EXCEPT !.request = Bad]

MCMessages ==
    { Sent(<<"get">>, <<>>),
      Sent(<<"get", "host", "cl0">>, <<>>),
      Sent(<<"get", "clneg">>, <<>>),
      Sent(<<"post", "cl1">>, <<"x">>),
      Sent(<<"post", "cl1", "cl2">>, <<CR, LF>>),    \* the last length counts
      Wrong(<<"bad">>, <<>>),
      Wrong(<<"get", "nocolon">>, <<>>),
      Wrong(<<"post", "clbad">>, <<"x">>) }
=============================================================================
