---------------------------- MODULE MCHandshake ----------------------------
(* Model-checking instance of Handshake: every kind of server, with and   *)
(* without SASL.                                                           *)
EXTENDS Handshake

MCServerKinds == {"legacy", "cap", "capsasl"}

====
