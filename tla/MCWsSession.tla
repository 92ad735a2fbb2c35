------------------------------ MODULE MCWsSession ------------------------------
(* WsSession on a small instance: two operations of one connection. *)
EXTENDS WsSession

Plan == {<<"read", "read">>, <<"chat", "read">>, <<"watch", "cell">>}
===============================================================================
