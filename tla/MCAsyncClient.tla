---- MODULE MCAsyncClient ----
(* AsyncClient has no constants but its bound.                             *)
EXTENDS AsyncClient
====
