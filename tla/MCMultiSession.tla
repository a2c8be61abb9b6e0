---- MODULE MCMultiSession ----
(* MultiSession has no constants but bounds and sizes.                     *)
EXTENDS MultiSession
====
