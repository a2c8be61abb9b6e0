-------------------------- MODULE MCAsio110Client --------------------------
(* Asio110Client with a buffer of a few bytes.                             *)
EXTENDS Asio110Client

(* The lengths of the messages.                                            *)
Lengths == <<3, 1, 1>>
=============================================================================
