----------------------------- MODULE IoContext -----------------------------
(***************************************************************************)
(* asio::io_context as the clients of this repository use it (asio itself  *)
(* is not in the repository): one thread calls run(), which takes ready    *)
(* handlers first-in first-out and runs each to its end.  An asynchronous  *)
(* operation is outstanding in two forms: started and not finished (the    *)
(* component's "pending" set), or finished with an error code and waiting  *)
(* as a handler in "ready".                                                *)
(***************************************************************************)
EXTENDS Naturals, Sequences, SequencesExt

(* The error codes the handlers of the clients tell apart.                 *)
Codes == {"ok", "eof", "aborted", "failed"}

(* The handler of operation op, finished with error code ec.               *)
Done(op, ec) == [op |-> op, ec |-> ec, msg |-> 0]

(* A handler given to asio::post that carries message m.                   *)
Posted(m) == [op |-> "post", ec |-> "ok", msg |-> m]

(* Closing or cancelling an I/O object finishes its operations S with      *)
(* operation_aborted, in an order that the operating system chooses.       *)
Aborts(S) == {[i \in DOMAIN s |-> Done(s[i], "aborted")] : s \in SetToSeqs(S)}

(* The messages that the posted handlers of the queue q carry.             *)
Posts(q) == {h.msg : h \in {g \in ToSet(q) : g.op = "post"}}

(* Some handler of an operation in S waits in the queue q.                 *)
Queued(q, S) == \E i \in DOMAIN q : q[i].op \in S

(* At most one handler of an operation in S waits in the queue q.          *)
Single(q, S) ==
  \A i, j \in DOMAIN q : q[i].op \in S /\ q[j].op \in S => i = j

(* Some operation in S, and at most one of them, is outstanding: in the    *)
(* set p of started operations or as a handler in the queue q.             *)
Outstanding(p, q, S) == p \cap S # {} \/ Queued(q, S)

AtMostOne(p, q, S) ==
  /\ \A a, b \in p \cap S : a = b
  /\ Single(q, S)
  /\ ~(p \cap S # {} /\ Queued(q, S))
=============================================================================
