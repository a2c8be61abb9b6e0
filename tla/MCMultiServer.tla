---- MODULE MCMultiServer ----
(* MultiServer has no constants but bounds and sizes.                      *)
EXTENDS MultiServer
====
