---------------------------- MODULE MCAccessLog ----------------------------
(***************************************************************************)
(* Small instances of AccessLog: one Ingress, both servers.                *)
(***************************************************************************)
EXTENDS AccessLog

OneKey == {"k1"}
OneHost == {"h1"}
OneHostLists == {<<>>, <<"h1">>}
BothServers == <<"https", "http">>
=============================================================================
