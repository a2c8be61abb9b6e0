--------------------------- MODULE ProtocolServer ---------------------------
(***************************************************************************)
(* Server and main() of asio-1.28_server_multi_protocol (test.cpp): the    *)
(* constructor starts the worker threads, each of which calls              *)
(* io_context_.run(), and only then the first accept.  A run() that finds  *)
(* no work outstanding stops the io_context and returns; a stopped         *)
(* io_context runs no handler any more, whoever calls run().               *)
(***************************************************************************)
EXTENDS Naturals

CONSTANT WorkerCount    \* worker_count

VARIABLES
  main,        \* where the main thread is in the constructor, then in main()
  created,     \* how many threads workers_ holds
  worker,      \* for each of them, where it is
  stopped,     \* whether io_context_ is stopped
  acceptor_,   \* "open" or "closed"
  accept,      \* the async_accept: "none", "pending", "accepted", "failed"
  sessions_,   \* how many sessions were stored
  client       \* a client: "away", "connected", "accepted", "served"

vars == <<main, created, worker, stopped, acceptor_, accept, sessions_, client>>

Workers == 1..WorkerCount

Init ==
  /\ main = "spawning"
  /\ created = 0
  /\ worker = [w \in Workers |-> "none"]
  /\ stopped = FALSE
  /\ acceptor_ = "open"
  /\ accept = "none"
  /\ sessions_ = 0
  /\ client = "away"

Running == main # "terminated"

-----------------------------------------------------------------------------
(* register_protocols(), and create() of the factory: nullptr for a name   *)
(* that is not registered.                                                 *)
Registered == {"line", "fixed-128", "fixed-256", "binary"}
create(name) == IF name \in Registered THEN name ELSE "nullptr"

(* The main thread.                                                        *)
Spawn ==
  /\ main = "spawning" /\ created < WorkerCount
  /\ created' = created + 1
  /\ worker' = [worker EXCEPT ![created + 1] = "starting"]
  /\ UNCHANGED <<main, stopped, acceptor_, accept, sessions_, client>>

do_accept == accept' = IF acceptor_ = "open" THEN "pending" ELSE "failed"

Constructed ==
  /\ main = "spawning" /\ created = WorkerCount
  /\ main' = "serving"
  /\ do_accept
  /\ UNCHANGED <<created, worker, stopped, acceptor_, sessions_, client>>

StopCloses ==
  /\ main = "serving"
  /\ main' = "closed"
  /\ acceptor_' = "closed"
  /\ accept' = IF accept = "pending" THEN "failed" ELSE accept
  /\ UNCHANGED <<created, worker, stopped, sessions_, client>>

StopStops ==
  /\ main = "closed"
  /\ main' = "joining"
  /\ stopped' = TRUE
  /\ UNCHANGED <<created, worker, acceptor_, accept, sessions_, client>>

StopJoins ==
  /\ main = "joining"
  /\ \A w \in Workers : worker[w] = "left"
  /\ main' = "joined"
  /\ UNCHANGED <<created, worker, stopped, acceptor_, accept, sessions_, client>>

-----------------------------------------------------------------------------
(* The workers.                                                            *)

(* Neither an accept nor its handler is outstanding.                       *)
NoWork ==
  accept = "none" /\ \A w \in Workers : worker[w] \notin {"accepted", "failed", "test", "again"}

(* run() begins: with nothing outstanding it stops the io_context.         *)
RunBegins(w) ==
  /\ Running /\ worker[w] = "starting"
  /\ stopped' = (stopped \/ NoWork)
  /\ worker' = [worker EXCEPT ![w] = IF stopped' THEN "left" ELSE "running"]
  /\ UNCHANGED <<main, created, acceptor_, accept, sessions_, client>>

(* The accept handler takes the finished accept, and runs on w.            *)
TakeAccept(w) ==
  /\ Running /\ worker[w] = "running" /\ ~stopped
  /\ accept \in {"accepted", "failed"}
  /\ worker' = [worker EXCEPT ![w] = accept]
  /\ accept' = "none"
  /\ UNCHANGED <<main, created, stopped, acceptor_, sessions_, client>>

(* The constructor of Session throws for a protocol that the factory does  *)
(* not know, and no worker catches it.                                     *)
CreateSession(w) ==
  /\ Running /\ worker[w] = "accepted"
  /\ IF create("detect") = "nullptr"
     THEN main' = "terminated" /\ UNCHANGED <<worker, sessions_, client>>
     ELSE /\ sessions_' = sessions_ + 1
          /\ client' = "served"
          /\ worker' = [worker EXCEPT ![w] = "test"]
          /\ UNCHANGED main
  /\ UNCHANGED <<created, stopped, acceptor_, accept>>

TestOpen(w) ==
  /\ Running /\ worker[w] \in {"failed", "test"}
  /\ worker' = [worker EXCEPT ![w] = IF acceptor_ = "open" THEN "again" ELSE "running"]
  /\ UNCHANGED <<main, created, stopped, acceptor_, accept, sessions_, client>>

(* stop() may have closed the acceptor since the test.                     *)
AcceptAgain(w) ==
  /\ Running /\ worker[w] = "again"
  /\ worker' = [worker EXCEPT ![w] = "running"]
  /\ do_accept
  /\ UNCHANGED <<main, created, stopped, acceptor_, sessions_, client>>

(* run() returns: stopped, or the accept loop has ended.                   *)
RunReturns(w) ==
  /\ Running /\ worker[w] = "running"
  /\ stopped \/ NoWork
  /\ worker' = [worker EXCEPT ![w] = "left"]
  /\ stopped' = TRUE
  /\ UNCHANGED <<main, created, acceptor_, accept, sessions_, client>>

Worker(w) ==
  \/ RunBegins(w) \/ TakeAccept(w) \/ CreateSession(w) \/ TestOpen(w)
  \/ AcceptAgain(w) \/ RunReturns(w)

-----------------------------------------------------------------------------
(* The client and the operating system.                                    *)

ClientConnects ==
  /\ Running /\ acceptor_ = "open" /\ client = "away"
  /\ client' = "connected"
  /\ UNCHANGED <<main, created, worker, stopped, acceptor_, accept, sessions_>>

OsAccepts ==
  /\ Running /\ accept = "pending" /\ client = "connected"
  /\ accept' = "accepted"
  /\ client' = "accepted"
  /\ UNCHANGED <<main, created, worker, stopped, acceptor_, sessions_>>

OsAcceptFails ==
  /\ Running /\ accept = "pending"
  /\ accept' = "failed"
  /\ UNCHANGED <<main, created, worker, stopped, acceptor_, sessions_, client>>

Next ==
  \/ Spawn \/ Constructed \/ StopCloses \/ StopStops \/ StopJoins
  \/ \E w \in Workers : Worker(w)
  \/ ClientConnects \/ OsAccepts \/ OsAcceptFails

Spec == Init /\ [][Next]_vars

(* Every thread is scheduled, and the operating system accepts, now and    *)
(* then without an error.                                                  *)
FairSpec ==
  /\ Spec
  /\ WF_vars(Spawn) /\ WF_vars(Constructed)
  /\ WF_vars(StopStops) /\ WF_vars(StopJoins)
  /\ \A w \in Workers : WF_vars(Worker(w))
  /\ SF_vars(OsAccepts)

-----------------------------------------------------------------------------
(* A client that connects gets a session, unless main() stops the server.  *)
ClientIsServed ==
  client = "connected" ~> client = "served" \/ main \in {"closed", "joining", "joined"}
=============================================================================
