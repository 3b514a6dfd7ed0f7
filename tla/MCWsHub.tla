------------------------------ MODULE MCWsHub ------------------------------
(* The instances of WsHub for TLC.                                         *)
EXTENDS WsHub
=============================================================================
