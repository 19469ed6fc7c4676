---------------------------- MODULE MCConnection ----------------------------
(* Uses of a connection that has certificates and several session SQLs.     *)
EXTENDS Connection
=============================================================================
