---- MODULE MCUdpClient ----
(* UdpClient with model values for the threads that call send().  They are *)
(* not symmetric here: the runs check liveness.                            *)
EXTENDS UdpClient
====
