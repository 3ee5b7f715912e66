-------------------------- MODULE MCTcpConnection ---------------------------
(* TcpConnection on small instances; the configurations give the constants *)
(* their values.                                                           *)
EXTENDS TcpConnection
=============================================================================
