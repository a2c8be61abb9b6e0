---- MODULE MCTcpClient ----
(* TcpClient has no constants but its bound.                               *)
EXTENDS TcpClient
====
