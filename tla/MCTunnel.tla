------------------------------ MODULE MCTunnel ------------------------------
(* Two sessions.  The first makes any of four requests, one of which has no *)
(* url, and its server sends one piece; the second is a tunnel whose ends   *)
(* only close.                                                              *)
EXTENDS Tunnel

MCRequests ==
  <<{<<"get", "keep-alive", "end">>, <<"connect", "end", "data">>, <<"post", "end">>, <<"short">>},
    {<<"connect">>}>>

MCResponses == <<{<<"data">>}, {<<>>}>>
=============================================================================
