---------------------------- MODULE MultiServer ----------------------------
(***************************************************************************)
(* Server and IOContextPool of asio-1.28_server_multi (test.cpp), with     *)
(* main(): the console thread calls stop() while server_thread is in       *)
(* run(), which first creates the threads of the pool and then runs        *)
(* main_io_ctx_.  Of the sessions the module keeps what concerns the pool: *)
(* the context each was given and what it posts there (MultiSession has    *)
(* the rest).                                                              *)
(***************************************************************************)
EXTENDS Integers, Sequences, Functions

CONSTANTS
  PoolSize,     \* pool_size
  MaxSessions,  \* bound: how many connections clients open
  MaxPosts      \* bound: how many handlers wait in one context

ASSUME PoolSizeAssumption == PoolSize \in Nat \ {0}
ASSUME BoundsAssumption == MaxSessions \in Nat /\ MaxPosts \in Nat \ {0}

VARIABLES
  next_index_,  \* the next context of the round
  sessions_,    \* the contexts of the sessions, in the order of creation
  acceptor,     \* acceptor_: "open" or "closed"
  accept,       \* the async_accept: pending, finished, or "none"
  stopped,      \* whether main_io_ctx_ was stopped
  guards,       \* the contexts whose work guard was not reset
  threads_,     \* how many threads threads_ holds: one each for 0..threads_-1
  worker,       \* for each context, its thread
  posted,       \* for each context, how many handlers wait in it
  runner,       \* where server_thread is
  target,       \* the context of the session whose read it handles
  console,      \* where the main thread is in stop() and after it
  joining,      \* how many threads the loop of IOContextPool::stop() joins
  joined        \* how many it has joined

vars == <<next_index_, sessions_, acceptor, accept, stopped, guards, threads_,
          worker, posted, runner, target, console, joining, joined>>

Contexts == 0..(PoolSize - 1)

(* server_thread creating the pool's threads, waiting in run(), in the     *)
(* handler of an accept or of a session's read, about to test is_open(),   *)
(* about to accept again, returned from run(), and left by an exception.   *)
RunnerStates == {"spawn", "run", "accepted", "failed", "reading", "test",
                 "again", "returned", "threw"}

(* The main thread before stop(), after each of its parts, joining the     *)
(* pool, after stop(), after the join of server_thread, and at the end of  *)
(* main(), where the destructor of a thread not joined terminates.         *)
(* "crashed": an exception left server_thread, and the process is gone.    *)
ConsoleStates == {"idle", "closed", "halted", "reset", "joining", "stopped",
                  "exiting", "exited", "terminated", "crashed"}

TypeOK ==
  /\ next_index_ \in Contexts
  /\ sessions_ \in Seq(Contexts)
  /\ acceptor \in {"open", "closed"}
  /\ accept \in {"pending", "accepted", "failed", "none"}
  /\ stopped \in BOOLEAN
  /\ guards \subseteq Contexts
  /\ threads_ \in 0..PoolSize
  /\ worker \in [Contexts -> {"none", "running", "exited"}]
  /\ posted \in [Contexts -> Nat]
  /\ runner \in RunnerStates
  /\ target \in Contexts
  /\ console \in ConsoleStates
  /\ joining \in 0..PoolSize
  /\ joined \in 0..joining

(* The constructors: the contexts and guards are there, and do_accept() in *)
(* the constructor of Server has started the first accept.                 *)
Init ==
  /\ next_index_ = 0
  /\ sessions_ = <<>>
  /\ acceptor = "open"
  /\ accept = "pending"
  /\ stopped = FALSE
  /\ guards = Contexts
  /\ threads_ = 0
  /\ worker = [c \in Contexts |-> "none"]
  /\ posted = [c \in Contexts |-> 0]
  /\ runner = "spawn"
  /\ target = 0
  /\ console = "idle"
  /\ joining = 0
  /\ joined = 0

-----------------------------------------------------------------------------
(* server_thread: run() and the handlers of main_io_ctx_.                  *)

(* One turn of the loop of IOContextPool::run().                           *)
Spawn ==
  /\ runner = "spawn"
  /\ worker' = [worker EXCEPT ![threads_] = "running"]
  /\ threads_' = threads_ + 1
  /\ runner' = IF threads_ + 1 = PoolSize THEN "run" ELSE "spawn"
  /\ UNCHANGED <<next_index_, sessions_, acceptor, accept, stopped, guards,
                 posted, target, console, joining, joined>>

TakeAccept ==
  /\ runner = "run" /\ ~stopped
  /\ accept \in {"accepted", "failed"}
  /\ runner' = accept
  /\ accept' = "none"
  /\ UNCHANGED <<next_index_, sessions_, acceptor, stopped, guards, threads_,
                 worker, posted, target, console, joining, joined>>

(* Mutant of get_next_io_context: the index is not wrapped.                *)
NeverWraps == next_index_' = next_index_ + 1

get_next_io_context == next_index_' = (next_index_ + 1) % PoolSize

(* The new session is given a context, and start() posts to it.            *)
CreateSession ==
  /\ runner = "accepted"
  /\ runner' = "test"
  /\ get_next_io_context
  /\ sessions_' = Append(sessions_, next_index_)
  /\ posted' = [posted EXCEPT ![next_index_] = @ + 1]
  /\ UNCHANGED <<acceptor, accept, stopped, guards, threads_, worker, target,
                 console, joining, joined>>

(* start() asks for remote_endpoint() first, which throws for a client     *)
(* that has reset its connection.  Nothing between the handler and the     *)
(* start of server_thread catches it: std::terminate(), at any time.       *)
StartThrows ==
  /\ runner = "accepted"
  /\ runner' = "threw"
  /\ console' = "crashed"
  /\ get_next_io_context
  /\ UNCHANGED <<sessions_, acceptor, accept, stopped, guards, threads_, worker,
                 posted, target, joining, joined>>

(* Mutant of AcceptFailed: a failed accept is the last.                    *)
AcceptsNoMore ==
  /\ runner = "failed"
  /\ runner' = "run"
  /\ UNCHANGED <<next_index_, sessions_, acceptor, accept, stopped, guards,
                 threads_, worker, posted, target, console, joining, joined>>

AcceptFailed ==
  /\ runner = "failed"
  /\ runner' = "test"
  /\ UNCHANGED <<next_index_, sessions_, acceptor, accept, stopped, guards,
                 threads_, worker, posted, target, console, joining, joined>>

TestOpen ==
  /\ runner = "test"
  /\ runner' = IF acceptor = "open" THEN "again" ELSE "run"
  /\ UNCHANGED <<next_index_, sessions_, acceptor, accept, stopped, guards,
                 threads_, worker, posted, target, console, joining, joined>>

(* An accept on an acceptor that was closed since the test fails.          *)
do_accept ==
  /\ runner = "again"
  /\ runner' = "run"
  /\ accept' = IF acceptor = "open" THEN "pending" ELSE "failed"
  /\ UNCHANGED <<next_index_, sessions_, acceptor, stopped, guards, threads_,
                 worker, posted, target, console, joining, joined>>

(* The handler of a read of some session, up to its safe_write().          *)
TakeRead ==
  /\ runner = "run" /\ ~stopped
  /\ \E c \in Range(sessions_) : posted[c] < MaxPosts /\ target' = c
  /\ runner' = "reading"
  /\ UNCHANGED <<next_index_, sessions_, acceptor, accept, stopped, guards,
                 threads_, worker, posted, console, joining, joined>>

SafeWrite ==
  /\ runner = "reading"
  /\ runner' = "run"
  /\ posted' = [posted EXCEPT ![target] = @ + 1]
  /\ UNCHANGED <<next_index_, sessions_, acceptor, accept, stopped, guards,
                 threads_, worker, target, console, joining, joined>>

(* run() returns when main_io_ctx_ is stopped, or out of work: with the    *)
(* accept loop ended, and the sessions, which the model leaves open.       *)
RunReturns ==
  /\ runner = "run"
  /\ stopped \/ accept = "none"
  /\ runner' = "returned"
  /\ UNCHANGED <<next_index_, sessions_, acceptor, accept, stopped, guards,
                 threads_, worker, posted, target, console, joining, joined>>

ServerThread ==
  \/ Spawn \/ TakeAccept \/ CreateSession \/ StartThrows \/ AcceptFailed
  \/ TestOpen \/ do_accept \/ TakeRead \/ SafeWrite \/ RunReturns

-----------------------------------------------------------------------------
(* The threads of the pool: each runs what is posted to its context, and   *)
(* ends when there is nothing and the guard is gone.                       *)

WorkerRuns(c) ==
  /\ console # "crashed"
  /\ worker[c] = "running" /\ posted[c] > 0
  /\ posted' = [posted EXCEPT ![c] = @ - 1]
  /\ UNCHANGED <<next_index_, sessions_, acceptor, accept, stopped, guards,
                 threads_, worker, runner, target, console, joining, joined>>

WorkerExits(c) ==
  /\ console # "crashed"
  /\ worker[c] = "running" /\ posted[c] = 0 /\ c \notin guards
  /\ worker' = [worker EXCEPT ![c] = "exited"]
  /\ UNCHANGED <<next_index_, sessions_, acceptor, accept, stopped, guards,
                 threads_, posted, runner, target, console, joining, joined>>

Worker(c) == WorkerRuns(c) \/ WorkerExits(c)

-----------------------------------------------------------------------------
(* The main thread: stop(), the join of server_thread, the end of main().  *)

StopAcceptor ==
  /\ console = "idle"
  /\ console' = "closed"
  /\ acceptor' = "closed"
  /\ accept' = IF accept = "pending" THEN "failed" ELSE accept
  /\ UNCHANGED <<next_index_, sessions_, stopped, guards, threads_, worker,
                 posted, runner, target, joining, joined>>

(* Mutant of StopMain: main_io_ctx_ goes on.                               *)
MainGoesOn ==
  /\ console = "closed"
  /\ console' = "halted"
  /\ UNCHANGED <<next_index_, sessions_, acceptor, accept, stopped, guards,
                 threads_, worker, posted, runner, target, joining, joined>>

StopMain ==
  /\ console = "closed"
  /\ console' = "halted"
  /\ stopped' = TRUE
  /\ UNCHANGED <<next_index_, sessions_, acceptor, accept, guards, threads_,
                 worker, posted, runner, target, joining, joined>>

(* Mutant of ResetGuards: only the first guard is reset.                   *)
ResetsFirst ==
  /\ console = "halted"
  /\ console' = "reset"
  /\ guards' = guards \ {0}
  /\ UNCHANGED <<next_index_, sessions_, acceptor, accept, stopped, threads_,
                 worker, posted, runner, target, joining, joined>>

ResetGuards ==
  /\ console = "halted"
  /\ console' = "reset"
  /\ guards' = {}
  /\ UNCHANGED <<next_index_, sessions_, acceptor, accept, stopped, threads_,
                 worker, posted, runner, target, joining, joined>>

(* The loop runs over the threads that threads_ holds when it begins.      *)
StartJoining ==
  /\ console = "reset"
  /\ console' = "joining"
  /\ joining' = threads_
  /\ UNCHANGED <<next_index_, sessions_, acceptor, accept, stopped, guards,
                 threads_, worker, posted, runner, target, joined>>

(* Mutant of StopReturns: the loop ends before the last thread.            *)
ReturnsEarly ==
  /\ console = "joining" /\ joined + 1 >= joining
  /\ console' = "stopped"
  /\ UNCHANGED <<next_index_, sessions_, acceptor, accept, stopped, guards,
                 threads_, worker, posted, runner, target, joining, joined>>

Join ==
  /\ console = "joining" /\ joined < joining
  /\ worker[joined] = "exited"
  /\ joined' = joined + 1
  /\ UNCHANGED <<next_index_, sessions_, acceptor, accept, stopped, guards,
                 threads_, worker, posted, runner, target, console, joining>>

StopReturns ==
  /\ console = "joining" /\ joined = joining
  /\ console' = "stopped"
  /\ UNCHANGED <<next_index_, sessions_, acceptor, accept, stopped, guards,
                 threads_, worker, posted, runner, target, joining, joined>>

JoinServerThread ==
  /\ console = "stopped" /\ runner = "returned"
  /\ console' = "exiting"
  /\ UNCHANGED <<next_index_, sessions_, acceptor, accept, stopped, guards,
                 threads_, worker, posted, runner, target, joining, joined>>

(* The destructor of Server destroys threads_: std::terminate() unless all *)
(* its threads were joined.                                                *)
DestroyServer ==
  /\ console = "exiting"
  /\ console' = IF joined = threads_ THEN "exited" ELSE "terminated"
  /\ UNCHANGED <<next_index_, sessions_, acceptor, accept, stopped, guards,
                 threads_, worker, posted, runner, target, joining, joined>>

StopSteps ==
  \/ StopMain \/ ResetGuards \/ StartJoining \/ Join \/ StopReturns
  \/ JoinServerThread \/ DestroyServer

-----------------------------------------------------------------------------
(* A client connects, or an accept fails.                                  *)
OsAccept ==
  /\ console # "crashed" /\ accept = "pending"
  /\ \/ Len(sessions_) < MaxSessions /\ accept' = "accepted"
     \/ accept' = "failed"
  /\ UNCHANGED <<next_index_, sessions_, acceptor, stopped, guards, threads_,
                 worker, posted, runner, target, console, joining, joined>>

Next ==
  \/ ServerThread \/ (\E c \in Contexts : Worker(c))
  \/ StopAcceptor \/ StopSteps \/ OsAccept

Spec == Init /\ [][Next]_vars

(* Every thread is scheduled; nobody has to call stop().                   *)
Fairness ==
  /\ WF_vars(ServerThread)
  /\ \A c \in Contexts : WF_vars(Worker(c))
  /\ WF_vars(StopSteps)

FairSpec == Spec /\ Fairness

-----------------------------------------------------------------------------
(* The server does not go deaf: while it lives and the acceptor is open an *)
(* accept is outstanding or the handler of one is on its way to the next.  *)
KeepsAccepting ==
  acceptor = "open" /\ console # "crashed" =>
    accept # "none" \/ runner \in {"accepted", "failed", "test", "again"}

(* When stop() has returned, at most one handler was posted that no thread *)
(* of the pool will run: by the handler of main_io_ctx_ that stop() met.   *)
LostAtMostOne ==
  console \in {"stopped", "exiting", "exited"} =>
    \A c, d \in Contexts : posted[c] > 0 /\ posted[d] > 0 => c = d /\ posted[c] = 1

(* Once the acceptor is closed stop() returns, and so does main(), whether *)
(* normally or not, unless start() of a last session throws.               *)
StopEnds == console = "closed" ~> console \in {"exited", "terminated", "crashed"}

(* A stop() that begins when run() has created all threads of the pool     *)
(* waits for all of them: main() does not end at a thread not joined, and  *)
(* it ends normally if no accepted client waited for its session, as only  *)
(* start() can then throw.                                                 *)
LateStopIsClean ==
  /\ console = "closed" /\ threads_ = PoolSize ~> console \in {"exited", "crashed"}
  /\ console = "closed" /\ threads_ = PoolSize
       /\ accept # "accepted" /\ runner # "accepted" ~> console = "exited"
=============================================================================
