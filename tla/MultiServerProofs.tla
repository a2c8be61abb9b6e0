------------------------- MODULE MultiServerProofs -------------------------
(***************************************************************************)
(* Proofs about MultiServer for every PoolSize and all bounds: its type    *)
(* invariant, that the server does not go deaf, that stop() loses at most  *)
(* one posted handler, and which of the ends of main() is reached when.    *)
(***************************************************************************)
EXTENDS MultiServer, TLAPS

(* The types, but for the Boolean variable.                                *)
Shape ==
  /\ next_index_ \in Contexts
  /\ sessions_ \in Seq(Contexts)
  /\ acceptor \in {"open", "closed"}
  /\ accept \in {"pending", "accepted", "failed", "none"}
  /\ guards \subseteq Contexts
  /\ threads_ \in 0..PoolSize
  /\ worker \in [Contexts -> {"none", "running", "exited"}]
  /\ posted \in [Contexts -> Nat]
  /\ runner \in RunnerStates
  /\ target \in Contexts
  /\ console \in ConsoleStates
  /\ joining \in 0..PoolSize
  /\ joined \in 0..joining

(* server_thread is about to post to the context of a session.             *)
Posting == runner \in {"accepted", "reading"}

(* A handler waits in a context whose thread has ended.                    *)
Stranded(c) == worker[c] = "exited" /\ posted[c] > 0

(* run() creates the threads in the order of the contexts, and all before  *)
(* the first handler runs.                                                 *)
Spawning ==
  /\ runner = "spawn" <=> threads_ < PoolSize
  /\ \A c \in Contexts : worker[c] = "none" <=> threads_ <= c
  /\ runner = "spawn" => sessions_ = <<>> /\ \A c \in Contexts : posted[c] = 0

(* How far stop() is: a thread of the pool ends only when its guard is     *)
(* gone, and then main_io_ctx_ takes no further handler.                   *)
Stopping ==
  /\ console \notin {"idle", "closed", "crashed"} => stopped
  /\ console = "crashed" <=> runner = "threw"
  /\ \A c \in Contexts : worker[c] = "exited" => c \notin guards
  /\ console \in {"idle", "closed", "halted"} => guards = Contexts
  /\ console \in {"idle", "closed", "halted", "reset"} => joining = 0

(* What was posted in vain, by the one handler that stop() met.            *)
OneStranded ==
  /\ \A c, d \in Contexts : Stranded(c) /\ Stranded(d) => c = d /\ posted[c] = 1
  /\ Posting => \A c \in Contexts : ~Stranded(c)

(* The threads that were joined have ended.  When the loop misses some,    *)
(* stop() came so early that no session is ever created.                   *)
Joining ==
  /\ \A c \in Contexts : c < joined => worker[c] = "exited"
  /\ console \in {"stopped", "exiting", "exited", "terminated"} => joined = joining
  /\ console \in {"exiting", "exited", "terminated"} => runner = "returned"
  /\ console = "terminated" => joining < PoolSize
  /\ console = "exited" => joining = PoolSize
  /\ console = "crashed" => joining \in {0, PoolSize}
  /\ console \in {"joining", "stopped", "exiting", "exited", "terminated"}
       /\ joining < PoolSize
     => /\ runner \in {"spawn", "run", "returned"} /\ sessions_ = <<>>
        /\ \A c \in Contexts : posted[c] = 0

IInv ==
  /\ stopped \in BOOLEAN
  /\ Shape /\ Spawning /\ Stopping /\ OneStranded /\ Joining /\ KeepsAccepting

-----------------------------------------------------------------------------
(* What is where in the round.                                             *)
LEMMA ContextFacts ==
  /\ Contexts \subseteq Nat /\ 0 \in Contexts
  /\ \A i \in 0..PoolSize : i < PoolSize => i \in Contexts
  /\ \A i \in Contexts : i < PoolSize
BY PoolSizeAssumption DEF Contexts

(* Every step keeps the types.                                             *)
LEMMA ShapeStep ==
  ASSUME Shape, Spawning, Stopping, [Next]_vars
  PROVE  Shape'
<1> USE ContextFacts, PoolSizeAssumption DEF Shape, RunnerStates, ConsoleStates
<1>1. CASE Spawn
  <2>1. threads_ \in Contexts /\ threads_ + 1 \in 0..PoolSize
    BY <1>1 DEF Spawn, Spawning
  <2> QED
    BY <1>1, <2>1 DEF Spawn
<1>2. CASE TakeAccept \/ AcceptFailed \/ TestOpen \/ do_accept \/ RunReturns
  BY <1>2 DEF TakeAccept, AcceptFailed, TestOpen, do_accept, RunReturns
<1>3. CASE CreateSession
  <2>1. next_index_' \in Contexts
    BY <1>3 DEF CreateSession, get_next_io_context, Contexts
  <2>2. posted' \in [Contexts -> Nat]
    BY <1>3 DEF CreateSession
  <2>3. sessions_' \in Seq(Contexts) /\ runner' \in RunnerStates
    BY <1>3 DEF CreateSession
  <2> QED
    BY <1>3, <2>1, <2>2, <2>3 DEF CreateSession
<1>4. CASE TakeRead
  <2>1. \A c \in Range(sessions_) : c \in Contexts
    BY DEF Range
  <2> QED
    BY <1>4, <2>1 DEF TakeRead
<1>5. CASE SafeWrite
  <2>1. posted' \in [Contexts -> Nat]
    BY <1>5 DEF SafeWrite
  <2> QED
    BY <1>5, <2>1 DEF SafeWrite
<1>6. ASSUME NEW c \in Contexts, Worker(c)
      PROVE  Shape'
  <2>1. CASE WorkerRuns(c)
    <3>1. posted' \in [Contexts -> Nat]
      <4>1. posted[c] - 1 \in Nat
        BY <2>1 DEF WorkerRuns
      <4> QED
        BY <2>1, <4>1 DEF WorkerRuns
    <3> QED
      BY <2>1, <3>1 DEF WorkerRuns
  <2>2. CASE WorkerExits(c)
    BY <2>2 DEF WorkerExits
  <2> QED
    BY <1>6, <2>1, <2>2 DEF Worker
<1>7. CASE StopAcceptor \/ StopMain \/ ResetGuards
  BY <1>7 DEF StopAcceptor, StopMain, ResetGuards
<1>8. CASE StartJoining
  <2>1. joined = 0 /\ joining' \in 0..PoolSize /\ 0 \in 0..joining'
    BY <1>8 DEF StartJoining, Stopping
  <2> QED
    BY <1>8, <2>1 DEF StartJoining
<1>9. CASE Join
  <2>1. joined + 1 \in 0..joining
    BY <1>9 DEF Join
  <2> QED
    BY <1>9, <2>1 DEF Join
<1>10. CASE StopReturns \/ JoinServerThread \/ DestroyServer
  BY <1>10 DEF StopReturns, JoinServerThread, DestroyServer
<1>11. CASE OsAccept
  BY <1>11 DEF OsAccept
<1>12. CASE UNCHANGED vars
  BY <1>12 DEF vars
<1>13. CASE StartThrows
  <2>1. next_index_' \in Contexts
    BY <1>13 DEF StartThrows, get_next_io_context, Contexts
  <2> QED
    BY <1>13, <2>1 DEF StartThrows
<1> QED
  BY <1>1, <1>2, <1>3, <1>4, <1>5, <1>6, <1>7, <1>8, <1>9, <1>10, <1>11, <1>12,
     <1>13 DEF Next, ServerThread, StopSteps

(* The threads of the pool are all there before a handler runs.            *)
LEMMA SpawningStep ==
  ASSUME Shape, Spawning, [Next]_vars
  PROVE  Spawning'
<1> USE ContextFacts, PoolSizeAssumption DEF Shape, Spawning
<1>1. CASE Spawn
  <2>1. /\ threads_ \in Contexts /\ threads_' = threads_ + 1
        /\ worker' = [worker EXCEPT ![threads_] = "running"]
        /\ UNCHANGED <<posted, sessions_>>
    BY <1>1 DEF Spawn
  <2>2. \A c \in Contexts : worker'[c] = "none" <=> threads_' <= c
    BY <2>1
  <2>3. runner' = "spawn" <=> threads_' < PoolSize
    BY <1>1, <2>1 DEF Spawn
  <2> QED
    BY <1>1, <2>1, <2>2, <2>3 DEF Spawn
<1>2. CASE runner # "spawn" /\ runner' # "spawn" /\ UNCHANGED <<threads_, worker>>
  BY <1>2
<1>3. CASE UNCHANGED <<runner, threads_, worker, posted, sessions_>>
  BY <1>3
<1>4. CASE TakeAccept \/ CreateSession \/ StartThrows \/ AcceptFailed \/ TestOpen
           \/ do_accept \/ TakeRead \/ SafeWrite \/ RunReturns
  <2>1. runner # "spawn" /\ runner' # "spawn" /\ UNCHANGED <<threads_, worker>>
    BY <1>4 DEF TakeAccept, CreateSession, StartThrows, AcceptFailed, TestOpen,
       do_accept, TakeRead, SafeWrite, RunReturns
  <2> QED
    BY <1>2, <2>1
<1>5. ASSUME NEW c \in Contexts, WorkerRuns(c)
      PROVE  Spawning'
  BY <1>5 DEF WorkerRuns
<1>6. ASSUME NEW c \in Contexts, WorkerExits(c)
      PROVE  Spawning'
  BY <1>6 DEF WorkerExits
<1>7. CASE StopAcceptor \/ StopSteps \/ OsAccept \/ UNCHANGED vars
  <2>1. UNCHANGED <<runner, threads_, worker, posted, sessions_>>
    BY <1>7 DEF StopAcceptor, StopSteps, StopMain, ResetGuards, StartJoining, Join,
       StopReturns, JoinServerThread, DestroyServer, OsAccept, vars
  <2> QED
    BY <1>3, <2>1
<1> QED
  BY <1>1, <1>4, <1>5, <1>6, <1>7 DEF Next, ServerThread, Worker

(* stop() takes its parts in order.                                        *)
LEMMA StoppingStep ==
  ASSUME Shape, Spawning, Stopping, [Next]_vars
  PROVE  Stopping'
<1>1. console' \notin {"idle", "closed", "crashed"} => stopped'
  <2>1. CASE StopMain
    <3>1. stopped' = TRUE
      BY <2>1 DEF StopMain
    <3> QED
      BY <3>1, Zenon
  <2>2. CASE StopAcceptor
    BY <2>2 DEF StopAcceptor
  <2>3. CASE ~StopMain /\ ~StopAcceptor /\ ~StartThrows
    <3>1. /\ stopped' = stopped
          /\ console' \notin {"idle", "closed", "crashed"}
               => console \notin {"idle", "closed", "crashed"}
      BY <2>3 DEF Next, ServerThread, Spawn, TakeAccept, CreateSession, AcceptFailed,
         TestOpen, do_accept, TakeRead, SafeWrite, RunReturns, Worker, WorkerRuns,
         WorkerExits, StopSteps, ResetGuards, StartJoining, Join, StopReturns,
         JoinServerThread, DestroyServer, OsAccept, vars
    <3> QED
      BY <3>1, Zenon DEF Stopping
  <2>4. CASE StartThrows
    BY <2>4 DEF StartThrows
  <2> QED
    BY <2>1, <2>2, <2>3, <2>4
<1> USE ContextFacts DEF Shape, Stopping
<1>2. CASE Spawn
  BY <1>1, <1>2 DEF Spawn
<1>3. ASSUME NEW c \in Contexts, WorkerExits(c)
      PROVE  Stopping'
  BY <1>1, <1>3 DEF WorkerExits
<1>4. ASSUME UNCHANGED <<worker, guards, joining, console>>,
             runner' = "threw" <=> runner = "threw"
      PROVE  Stopping'
  BY <1>1, <1>4
<1>5. CASE ServerThread /\ ~Spawn /\ ~StartThrows
  BY <1>4, <1>5 DEF ServerThread, TakeAccept, CreateSession, StartThrows, AcceptFailed,
     TestOpen, do_accept, TakeRead, SafeWrite, RunReturns
<1>6. CASE OsAccept \/ UNCHANGED vars
  BY <1>4, <1>6 DEF OsAccept, vars
<1>7. ASSUME NEW c \in Contexts, WorkerRuns(c)
      PROVE  Stopping'
  BY <1>4, <1>7 DEF WorkerRuns
<1>8. CASE StopAcceptor \/ StopSteps
  BY <1>1, <1>8 DEF StopAcceptor, StopSteps, StopMain, ResetGuards, StartJoining, Join,
     StopReturns, JoinServerThread, DestroyServer
<1>9. CASE StartThrows
  BY <1>1, <1>9 DEF StartThrows
<1> QED
  BY <1>2, <1>3, <1>5, <1>6, <1>7, <1>8, <1>9 DEF Next, Worker

(* As long as main_io_ctx_ is run and not stopped no thread of the pool    *)
(* has ended.                                                              *)
LEMMA NoneExited ==
  ASSUME Shape, Stopping, runner = "run", ~stopped
  PROVE  /\ console \in {"idle", "closed"}
         /\ \A c \in Contexts : worker[c] # "exited"
<1>1. console # "crashed"
  BY DEF Stopping
<1>2. console \in {"idle", "closed"}
  BY <1>1, Zenon DEF Stopping
<1> QED
  BY <1>2 DEF Stopping

(* At most one handler is stranded.                                        *)
LEMMA StrandedStep ==
  ASSUME Shape, Spawning, Stopping, OneStranded, [Next]_vars
  PROVE  OneStranded'
<1> USE ContextFacts DEF Shape, OneStranded, Stranded, Posting
<1>1. ASSUME UNCHANGED <<worker, posted>>, Posting' => Posting
      PROVE  OneStranded'
  BY <1>1
<1>2. CASE Spawn
  BY <1>2 DEF Spawn
<1>3. CASE TakeAccept \/ TakeRead
  <2>1. runner = "run" /\ ~stopped /\ UNCHANGED <<worker, posted>>
    BY <1>3 DEF TakeAccept, TakeRead
  <2>2. \A c \in Contexts : worker'[c] # "exited"
    BY <2>1, NoneExited
  <2> QED
    BY <2>2
<1>4. ASSUME NEW t \in Contexts, Posting, ~Posting', UNCHANGED worker,
             posted' = [posted EXCEPT ![t] = @ + 1]
      PROVE  OneStranded'
  <2>1. \A c \in Contexts : Stranded(c)' => c = t /\ posted'[c] = 1
    BY <1>4
  <2> QED
    BY <1>4, <2>1
<1>5. CASE CreateSession
  BY <1>4, <1>5 DEF CreateSession
<1>6. CASE SafeWrite
  BY <1>4, <1>6 DEF SafeWrite
<1>7. CASE StartThrows \/ AcceptFailed \/ TestOpen \/ do_accept \/ RunReturns
  BY <1>1, <1>7 DEF StartThrows, AcceptFailed, TestOpen, do_accept, RunReturns
<1>8. ASSUME NEW c \in Contexts, WorkerRuns(c)
      PROVE  OneStranded'
  <2>1. \A d \in Contexts : /\ Stranded(d)' <=> Stranded(d)
                            /\ Stranded(d) => posted'[d] = posted[d]
    BY <1>8 DEF WorkerRuns
  <2>2. runner' = runner
    BY <1>8 DEF WorkerRuns
  <2> QED
    BY <2>1, <2>2
<1>9. ASSUME NEW c \in Contexts, WorkerExits(c)
      PROVE  OneStranded'
  <2>1. \A d \in Contexts : /\ Stranded(d)' <=> Stranded(d)
                            /\ posted'[d] = posted[d]
    BY <1>9 DEF WorkerExits
  <2>2. runner' = runner
    BY <1>9 DEF WorkerExits
  <2> QED
    BY <2>1, <2>2
<1>10. CASE StopAcceptor \/ StopSteps \/ OsAccept \/ UNCHANGED vars
  BY <1>1, <1>10 DEF StopAcceptor, StopSteps, StopMain, ResetGuards, StartJoining, Join,
     StopReturns, JoinServerThread, DestroyServer, OsAccept, vars
<1> QED
  BY <1>2, <1>3, <1>5, <1>6, <1>7, <1>8, <1>9, <1>10 DEF Next, ServerThread, Worker

(* The loop of IOContextPool::stop() joins the threads that it found.      *)
LEMMA JoiningStep ==
  ASSUME Shape, Spawning, Stopping, Joining, [Next]_vars
  PROVE  Joining'
<1> USE ContextFacts, PoolSizeAssumption DEF Shape, Joining
<1>1. ASSUME UNCHANGED <<worker, posted, joined, joining, console, runner, sessions_>>
      PROVE  Joining'
  BY <1>1
<1>2. CASE Spawn
  <2>1. /\ threads_ \in Contexts /\ worker[threads_] = "none" /\ runner = "spawn"
        /\ worker' = [worker EXCEPT ![threads_] = "running"]
        /\ runner' \in {"spawn", "run"}
        /\ UNCHANGED <<posted, joined, joining, console, sessions_>>
    BY <1>2 DEF Spawn, Spawning
  <2>2. \A c \in Contexts : c < joined => worker'[c] = "exited"
    BY <2>1
  <2> QED
    BY <2>1, <2>2
<1>3. CASE TakeAccept \/ TakeRead
  <2>1. /\ runner = "run" /\ ~stopped
        /\ UNCHANGED <<worker, posted, joined, joining, console, sessions_>>
    BY <1>3 DEF TakeAccept, TakeRead
  <2>2. console \in {"idle", "closed"}
    BY <2>1, NoneExited
  <2> QED
    BY <2>1, <2>2
<1>4. CASE CreateSession \/ AcceptFailed \/ TestOpen \/ do_accept \/ SafeWrite
  <2>1. /\ runner \notin {"spawn", "run", "returned"}
        /\ UNCHANGED <<worker, joined, joining, console>>
    BY <1>4 DEF CreateSession, AcceptFailed, TestOpen, do_accept, SafeWrite
  <2> QED
    BY <2>1
<1>5. CASE RunReturns
  BY <1>5 DEF RunReturns
<1>6. ASSUME NEW c \in Contexts, WorkerRuns(c)
      PROVE  Joining'
  <2>1. /\ posted[c] # 0
        /\ UNCHANGED <<worker, joined, joining, console, runner, sessions_>>
    BY <1>6 DEF WorkerRuns
  <2> QED
    BY <2>1
<1>7. ASSUME NEW c \in Contexts, WorkerExits(c)
      PROVE  Joining'
  <2>1. /\ worker' = [worker EXCEPT ![c] = "exited"]
        /\ UNCHANGED <<posted, joined, joining, console, runner, sessions_>>
    BY <1>7 DEF WorkerExits
  <2>2. \A d \in Contexts : worker[d] = "exited" => worker'[d] = "exited"
    BY <2>1
  <2> QED
    BY <2>1, <2>2
<1>8. CASE StopAcceptor \/ StopMain \/ ResetGuards
  <2>1. /\ console' \in {"closed", "halted", "reset"}
        /\ UNCHANGED <<worker, joined>>
    BY <1>8 DEF StopAcceptor, StopMain, ResetGuards
  <2> QED
    BY <2>1
<1>9. CASE StartJoining
  <2>1. /\ joining' = threads_ /\ console' = "joining"
        /\ UNCHANGED <<worker, posted, joined, runner, sessions_>>
    BY <1>9 DEF StartJoining
  <2>2. threads_ < PoolSize => /\ runner = "spawn" /\ sessions_ = <<>>
                               /\ \A c \in Contexts : posted[c] = 0
    BY DEF Spawning
  <2> QED
    BY <2>1, <2>2
<1>10. CASE Join
  <2>1. /\ worker[joined] = "exited" /\ joined' = joined + 1 /\ console = "joining"
        /\ UNCHANGED <<worker, posted, joining, console, runner, sessions_>>
    BY <1>10 DEF Join
  <2>2. \A c \in Contexts : c < joined + 1 => c < joined \/ c = joined
    OBVIOUS
  <2>3. \A c \in Contexts : c < joined' => worker'[c] = "exited"
    BY <2>1, <2>2
  <2> QED
    BY <2>1, <2>3
<1>11. CASE StopReturns
  BY <1>11 DEF StopReturns
<1>12. CASE JoinServerThread
  BY <1>12 DEF JoinServerThread
<1>13. CASE DestroyServer
  <2>1. /\ console = "exiting" /\ console' \in {"exited", "terminated"}
        /\ console' = "terminated" <=> joined # threads_
        /\ UNCHANGED <<worker, posted, joined, joining, runner, sessions_>>
    BY <1>13 DEF DestroyServer
  <2>2. threads_ = PoolSize /\ joined = joining
    BY <2>1 DEF Spawning
  <2> QED
    BY <2>1, <2>2
<1>14. CASE OsAccept \/ UNCHANGED vars
  BY <1>1, <1>14 DEF OsAccept, vars
<1>15. CASE StartThrows
  <2>1. /\ runner = "accepted" /\ console' = "crashed"
        /\ UNCHANGED <<worker, joined, joining>>
    BY <1>15 DEF StartThrows
  <2>2. console # "crashed"
    BY <2>1 DEF Stopping
  <2>3. joining \in {0, PoolSize}
    BY <2>1, <2>2 DEF Stopping, ConsoleStates
  <2> QED
    BY <2>1, <2>3
<1> QED
  BY <1>2, <1>3, <1>4, <1>5, <1>6, <1>7, <1>8, <1>9, <1>10, <1>11, <1>12, <1>13, <1>14,
     <1>15 DEF Next, ServerThread, Worker, StopSteps

(* The accept loop does not end while the acceptor is open.                *)
LEMMA AcceptingStep ==
  ASSUME Shape, Stopping, KeepsAccepting, [Next]_vars
  PROVE  KeepsAccepting'
<1> USE DEF KeepsAccepting
<1>1. CASE ServerThread
  BY <1>1 DEF ServerThread, Spawn, TakeAccept, CreateSession, StartThrows, AcceptFailed,
     TestOpen, do_accept, TakeRead, SafeWrite, RunReturns
<1>2. CASE StopAcceptor
  BY <1>2 DEF StopAcceptor
<1>3. CASE OsAccept
  BY <1>3 DEF OsAccept
<1>4. CASE (\E c \in Contexts : Worker(c)) \/ StopSteps \/ UNCHANGED vars
  <2>1. /\ UNCHANGED <<acceptor, accept, runner>>
        /\ console = "crashed" => console' = "crashed"
    BY <1>4 DEF Worker, WorkerRuns, WorkerExits, StopSteps, StopMain, ResetGuards,
       StartJoining, Join, StopReturns, JoinServerThread, DestroyServer, vars
  <2> QED
    BY <2>1
<1> QED
  BY <1>1, <1>2, <1>3, <1>4 DEF Next

(* main_io_ctx_ is stopped or not.                                         *)
LEMMA BooleanStep ==
  ASSUME stopped \in BOOLEAN, [Next]_vars
  PROVE  stopped' \in BOOLEAN
<1>1. stopped' = TRUE \/ stopped' = stopped
  BY DEF Next, ServerThread, Spawn, TakeAccept, CreateSession, StartThrows, AcceptFailed,
     TestOpen, do_accept, TakeRead, SafeWrite, RunReturns, Worker, WorkerRuns, WorkerExits,
     StopAcceptor, StopSteps, StopMain, ResetGuards, StartJoining, Join, StopReturns,
     JoinServerThread, DestroyServer, OsAccept, vars
<1> QED
  BY <1>1, Zenon

(* Every behaviour of the server keeps the inductive invariant.            *)
THEOREM Invariance == Spec => []IInv
<1>1. Init => IInv
  <2> SUFFICES ASSUME Init
               PROVE  IInv
    OBVIOUS
  <2>1. stopped \in BOOLEAN
    BY Zenon DEF Init
  <2>2. Shape
    BY ContextFacts, PoolSizeAssumption DEF Init, Shape, RunnerStates, ConsoleStates
  <2>3. Spawning
    BY ContextFacts, PoolSizeAssumption DEF Init, Spawning
  <2>4. Stopping /\ OneStranded /\ Joining /\ KeepsAccepting
    BY ContextFacts DEF Init, Stopping, OneStranded, Stranded, Posting, Joining,
       KeepsAccepting
  <2> QED
    BY <2>1, <2>2, <2>3, <2>4 DEF IInv
<1>2. IInv /\ [Next]_vars => IInv'
  BY ShapeStep, SpawningStep, StoppingStep, StrandedStep, JoiningStep, AcceptingStep,
     BooleanStep DEF IInv
<1> QED
  BY <1>1, <1>2, PTL DEF Spec

(* Every variable keeps its type, and next_index_ stays inside the pool.   *)
THEOREM TypeCorrect == Spec => []TypeOK
<1>1. IInv => TypeOK
  BY DEF IInv, Shape, TypeOK
<1> QED
  BY <1>1, Invariance, PTL

(* While acceptor_ is open an async_accept is outstanding or its handler   *)
(* is on the way to the next do_accept(), whatever accepts fail, unless    *)
(* start() of a session threw and ended the process.                       *)
THEOREM KeepsAcceptingTheorem == Spec => []KeepsAccepting
<1>1. IInv => KeepsAccepting
  BY DEF IInv
<1> QED
  BY <1>1, Invariance, PTL

(* stop() loses at most the one handler that was posted by the handler of  *)
(* main_io_ctx_ that it met, for a pool of any size.                       *)
THEOREM LostAtMostOneTheorem == Spec => []LostAtMostOne
<1>1. IInv => LostAtMostOne
  <2> SUFFICES ASSUME IInv, console \in {"stopped", "exiting", "exited"},
                      NEW c \in Contexts, NEW d \in Contexts, posted[c] > 0, posted[d] > 0
               PROVE  c = d /\ posted[c] = 1
    BY DEF LostAtMostOne
  <2>1. joined = joining /\ joining \in 0..PoolSize /\ posted[c] # 0
    BY DEF IInv, Shape, Joining
  <2>2. joining = PoolSize
    BY <2>1, PoolSizeAssumption DEF IInv, Joining
  <2>3. c < joined /\ d < joined
    BY <2>1, <2>2, ContextFacts
  <2>4. worker[c] = "exited" /\ worker[d] = "exited"
    BY <2>3 DEF IInv, Joining
  <2> QED
    BY <2>4 DEF IInv, OneStranded, Stranded
<1> QED
  BY <1>1, Invariance, PTL

(* The three ends of the process.  main() ends normally when all threads   *)
(* of the pool were joined; at the destructor of a thread that was not     *)
(* joined only when stop() found fewer threads than run() creates, so      *)
(* early that no session was ever created; and when start() throws for a   *)
(* client that has reset its connection, stop() had not come to its joins  *)
(* or had found all threads, so that a stop() has one danger or the other. *)
HowItEnds ==
  /\ console = "exited" => joined = PoolSize
  /\ console = "terminated" => joining < PoolSize /\ sessions_ = <<>>
  /\ console = "crashed" => joining \in {0, PoolSize}

(* main() of the server ends as HowItEnds says, for a pool of any size.    *)
THEOREM HowItEndsTheorem == Spec => []HowItEnds
<1>1. IInv => HowItEnds
  BY DEF IInv, Joining, HowItEnds
<1> QED
  BY <1>1, Invariance, PTL
=============================================================================
