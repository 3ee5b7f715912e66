---------------------------- MODULE MCTcpServer ------------------------------
(* TcpServer on small instances: both connections at once, and one after   *)
(* the other for want of descriptors; the application's threads send, or   *)
(* shut down.                                                              *)
EXTENDS TcpServer

MCSetup(threads, fds, off, n) ==
    [threads |-> threads, fds |-> fds, off |-> {off}, calls |-> n]

MCSetups ==
    {MCSetup(0, 1, "send", 2), MCSetup(0, 1, "shutdown", 1),
     MCSetup(2, 2, "send", 0), MCSetup(1, 1, "send", 1),
     MCSetup(2, 1, "shutdown", 1)}
=============================================================================
