---------------------------- MODULE MultiSession ----------------------------
(***************************************************************************)
(* A Session of asio-1.28_server_multi (test.cpp) with the                 *)
(* StatisticsHandler that main() gives it.  Two threads serve it.  The     *)
(* socket was accepted by an acceptor of main_io_ctx_, so the completion   *)
(* handlers of its reads and writes run on the thread of that context;     *)
(* what the session posts to io_ctx_ runs on a thread of the pool.  Both   *)
(* use write_queue_, and every use of it is a step of its own.             *)
(***************************************************************************)
EXTENDS IoContext

CONSTANTS
  MaxRequests,   \* bound: how many requests the client sends
  Window,        \* how many requests the client sends ahead of the replies
  SizeMax        \* the largest size_t

ASSUME MaxRequestsAssumption == MaxRequests \in Nat
ASSUME WindowAssumption == Window \in Nat \ {0}
ASSUME SizeMaxAssumption == SizeMax \in Nat \ {0}

VARIABLES
  write_queue_,      \* deque of responses; do_write() writes its front
  active_sessions_,  \* StatisticsHandler's count, a size_t
  session_stats_,    \* whether session_stats_ has an entry for the session
  socket,            \* socket_: "open" or "closed"
  reads,             \* how many reads are started and not finished
  writes,            \* the responses of started async_writes, FIFO
  ready,             \* finished operations, handlers for the main thread
  posted,            \* lambdas for the pool thread: 0 is do_read(), else
                     \* the response that safe_write() posted
  main,              \* where the main thread is in a handler
  pool,              \* where the pool thread is in a lambda
  wip,               \* write_in_progress, the local of that lambda
  server             \* how far Server is in its life

(* History: only its own updates and the bounds read it.                   *)
VARIABLES
  client,            \* the peer: "up", or "gone"
  patient,           \* whether it sends a request only after the reply to
                     \* the last, and that takes longer to reach it than
                     \* the pool thread takes to leave the call that sent it
  requests,          \* how many requests were read: ids 1..requests
  wire,              \* the responses that were written completely
  closedCalls        \* how often on_session_closed was called

queue == <<write_queue_, wip>>
handler == <<active_sessions_, session_stats_, closedCalls>>
io == <<socket, reads, writes, ready, posted>>
threads == <<main, pool>>
peer == <<client, patient, requests, wire>>
vars == <<queue, handler, io, threads, server, peer>>

Ids == 1..MaxRequests
Undefined == "undefined"

MainStates == {"idle", "pop", "test", "kick", "clear", "close", Undefined}
PoolStates == {"idle", "test", "push", "kick", "sent", Undefined}

TypeOK ==
  /\ write_queue_ \in Seq(Ids)
  /\ active_sessions_ \in 0..SizeMax
  /\ session_stats_ \in BOOLEAN
  /\ socket \in {"open", "closed"}
  /\ reads \in 0..1
  /\ writes \in Seq(Ids)
  /\ ready \in Seq([op : {"recv", "send"}, ec : Codes, msg : {0}])
  /\ posted \in Seq(0..MaxRequests)
  /\ main \in MainStates
  /\ pool \in PoolStates
  /\ wip \in BOOLEAN
  /\ server \in {"accepting", "running", "stopped", "destroyed", "terminated"}
  /\ client \in {"up", "gone"}
  /\ patient \in BOOLEAN
  /\ requests \in 0..MaxRequests
  /\ wire \in Seq(Ids)
  /\ closedCalls \in Nat

Init ==
  /\ write_queue_ = <<>>
  /\ active_sessions_ = 0
  /\ session_stats_ = FALSE
  /\ socket = "open"
  /\ reads = 0
  /\ writes = <<>>
  /\ ready = <<>>
  /\ posted = <<>>
  /\ main = "idle"
  /\ pool = "idle"
  /\ wip = FALSE
  /\ server = "accepting"
  /\ client = "up"
  /\ patient \in BOOLEAN
  /\ requests = 0
  /\ wire = <<>>
  /\ closedCalls = 0

-----------------------------------------------------------------------------
(* The calls that the handlers share.                                      *)

on_session_created ==
  /\ active_sessions_' = active_sessions_ + 1
  /\ session_stats_' = TRUE
  /\ UNCHANGED closedCalls

(* operator[] in the message recreates the entry that erase() removes.     *)
on_session_closed ==
  /\ active_sessions_' = IF active_sessions_ = 0 THEN SizeMax
                                                 ELSE active_sessions_ - 1
  /\ session_stats_' = FALSE
  /\ closedCalls' = closedCalls + 1

(* operator[] creates the entry if there is none.                          *)
process ==
  /\ session_stats_' = TRUE
  /\ UNCHANGED <<active_sessions_, closedCalls>>

(* Starting an operation on a closed socket finishes it with an error.     *)
do_read(q) ==
  IF socket = "closed"
  THEN ready' = Append(q, Done("recv", "failed")) /\ UNCHANGED reads
  ELSE ready' = q /\ reads' = reads + 1

do_write ==
  IF socket = "closed"
  THEN ready' = Append(ready, Done("send", "failed")) /\ UNCHANGED writes
  ELSE writes' = Append(writes, Head(write_queue_)) /\ UNCHANGED ready

-----------------------------------------------------------------------------
(* The main thread: start(), called by the handler of the accept, and the  *)
(* completion handlers of the session's socket.                            *)

(* Mutant of start: the read loop is entered twice.                        *)
StartsTwice ==
  /\ server = "accepting"
  /\ server' = "running"
  /\ on_session_created
  /\ posted' = posted \o <<0, 0>>
  /\ UNCHANGED <<queue, socket, reads, writes, ready, threads, peer>>

start ==
  /\ server = "accepting"
  /\ server' = "running"
  /\ on_session_created
  /\ posted' = Append(posted, 0)
  /\ UNCHANGED <<queue, socket, reads, writes, ready, threads, peer>>

(* remote_endpoint() throws when the client has reset the connection, and  *)
(* nothing catches the exception on its way out of the thread.             *)
StartThrows ==
  /\ server = "accepting" /\ client = "gone"
  /\ server' = "terminated"
  /\ UNCHANGED <<queue, handler, io, threads, peer>>

Takes(op) ==
  /\ server = "running" /\ main = "idle" /\ pool # Undefined
  /\ ready # <<>> /\ Head(ready).op = op
  /\ UNCHANGED <<queue, server, client, patient, wire>>

(* Mutant of Received: the next read is not started.                       *)
ReadsOnce ==
  /\ Takes("recv")
  /\ Head(ready).ec = "ok"
  /\ requests' = requests + 1
  /\ process
  /\ posted' = Append(posted, requests + 1)
  /\ ready' = Tail(ready)
  /\ UNCHANGED <<socket, reads, writes, threads>>

Received ==
  /\ Takes("recv")
  /\ Head(ready).ec = "ok"
  /\ requests' = requests + 1
  /\ process
  /\ posted' = Append(posted, requests + 1)
  /\ do_read(Tail(ready))
  /\ UNCHANGED <<socket, writes, threads>>

(* The end of the stream and a failed read differ only in the reason.      *)
ReceiveFailed ==
  /\ Takes("recv")
  /\ Head(ready).ec # "ok"
  /\ ready' = Tail(ready)
  /\ on_session_closed
  /\ UNCHANGED <<socket, reads, writes, posted, threads, requests>>

Sent ==
  /\ Takes("send")
  /\ Head(ready).ec = "ok"
  /\ ready' = Tail(ready)
  /\ main' = "pop"
  /\ UNCHANGED <<socket, reads, writes, posted, pool, handler, requests>>

SendFailed ==
  /\ Takes("send")
  /\ Head(ready).ec # "ok"
  /\ ready' = Tail(ready)
  /\ on_session_closed
  /\ main' = "clear"
  /\ UNCHANGED <<socket, reads, writes, posted, pool, requests>>

(* Mutant of SentPops: the written response stays in the queue.            *)
KeepsFront ==
  /\ main = "pop" /\ pool # Undefined
  /\ main' = "test"
  /\ UNCHANGED <<queue, handler, io, pool, server, peer>>

(* pop_front() and front() on an empty deque are undefined: the model      *)
(* stops there and says nothing about what follows.                        *)
SentPops ==
  /\ main = "pop" /\ pool # Undefined
  /\ IF write_queue_ = <<>>
     THEN main' = Undefined /\ UNCHANGED write_queue_
     ELSE main' = "test" /\ write_queue_' = Tail(write_queue_)
  /\ UNCHANGED <<wip, handler, io, pool, server, peer>>

SentTests ==
  /\ main = "test" /\ pool # Undefined
  /\ main' = IF write_queue_ = <<>> THEN "idle" ELSE "kick"
  /\ UNCHANGED <<queue, handler, io, pool, server, peer>>

(* Only this thread removes from the queue: the front is still there.      *)
SentWritesNext ==
  /\ main = "kick" /\ pool # Undefined
  /\ main' = "idle"
  /\ do_write
  /\ UNCHANGED <<socket, reads, posted>>
  /\ UNCHANGED <<queue, handler, pool, server, peer>>

SendFailedClears ==
  /\ main = "clear" /\ pool # Undefined
  /\ main' = "close"
  /\ write_queue_' = <<>>
  /\ UNCHANGED <<wip, handler, io, pool, server, peer>>

(* socket_.close() aborts what is pending, a write that the pool thread    *)
(* has started on a cleared queue included.                                *)
SendFailedCloses ==
  /\ main = "close" /\ pool # Undefined
  /\ main' = "idle"
  /\ socket' = "closed"
  /\ ready' = ready
       \o [i \in 1..reads |-> Done("recv", "aborted")]
       \o [i \in DOMAIN writes |-> Done("send", "aborted")]
  /\ reads' = 0
  /\ writes' = <<>>
  /\ UNCHANGED <<queue, handler, posted, pool, server, peer>>

MainThread ==
  \/ start \/ StartThrows \/ Received \/ ReceiveFailed \/ Sent \/ SendFailed
  \/ SentPops \/ SentTests \/ SentWritesNext \/ SendFailedClears
  \/ SendFailedCloses

-----------------------------------------------------------------------------
(* The pool thread runs the lambdas that start() and safe_write() post.    *)

PoolReads ==
  /\ pool = "idle" /\ main # Undefined
  /\ posted # <<>> /\ Head(posted) = 0
  /\ posted' = Tail(posted)
  /\ do_read(ready)
  /\ UNCHANGED <<queue, handler, socket, writes, threads, server, peer>>

PoolTakes ==
  /\ pool = "idle" /\ main # Undefined
  /\ posted # <<>> /\ Head(posted) # 0
  /\ pool' = "test"
  /\ UNCHANGED <<queue, handler, io, main, server, peer>>

PoolTests ==
  /\ pool = "test" /\ main # Undefined
  /\ pool' = "push"
  /\ wip' = (write_queue_ # <<>>)
  /\ UNCHANGED <<write_queue_, handler, io, main, server, peer>>

(* Mutant of PoolPushes: the test of write_in_progress is inverted.        *)
WritesIfWriting ==
  /\ pool = "push" /\ main # Undefined
  /\ write_queue_' = Append(write_queue_, Head(posted))
  /\ posted' = Tail(posted)
  /\ pool' = IF wip THEN "kick" ELSE "idle"
  /\ UNCHANGED <<wip, handler, socket, reads, writes, ready, main, server,
                 peer>>

PoolPushes ==
  /\ pool = "push" /\ main # Undefined
  /\ write_queue_' = Append(write_queue_, Head(posted))
  /\ posted' = Tail(posted)
  /\ pool' = IF wip THEN "idle" ELSE "kick"
  /\ UNCHANGED <<wip, handler, socket, reads, writes, ready, main, server,
                 peer>>

(* async_write sends at once what the socket takes without blocking, on    *)
(* the thread that calls it, and queues its completion handler after that. *)
PoolWrites ==
  /\ pool = "kick" /\ main # Undefined
  /\ \/ /\ write_queue_ = <<>>
        /\ pool' = Undefined
        /\ UNCHANGED <<io, wire>>
     \/ /\ write_queue_ # <<>>
        /\ pool' = "idle"
        /\ do_write
        /\ UNCHANGED <<socket, reads, posted, wire>>
     \/ /\ write_queue_ # <<>> /\ socket = "open" /\ writes = <<>>
        /\ pool' = "sent"
        /\ wire' = Append(wire, Head(write_queue_))
        /\ UNCHANGED io
  /\ UNCHANGED <<queue, handler, main, server, client, patient, requests>>

PoolCompletes ==
  /\ pool = "sent" /\ main # Undefined
  /\ pool' = "idle"
  /\ ready' = Append(ready, Done("send", "ok"))
  /\ UNCHANGED <<queue, handler, socket, reads, writes, posted, main, server,
                 peer>>

PoolThread ==
  \/ PoolReads \/ PoolTakes \/ PoolTests \/ PoolPushes \/ PoolWrites
  \/ PoolCompletes

-----------------------------------------------------------------------------
(* Server::stop() stops main_io_ctx_, which starts no further handler, and *)
(* waits until the pool has run what was posted.  The destructor of Server *)
(* then drops sessions_ and the handlers left, the last to hold the        *)
(* session.                                                                *)

Stop ==
  /\ server = "running"
  /\ server' = "stopped"
  /\ UNCHANGED <<queue, handler, io, threads, peer>>

Destroy ==
  /\ server = "stopped" /\ main = "idle" /\ pool = "idle" /\ posted = <<>>
  /\ server' = "destroyed"
  /\ on_session_closed
  /\ UNCHANGED <<queue, io, threads, peer>>

-----------------------------------------------------------------------------
(* The client and the operating system.  A request is read in one piece.   *)

Alive == main # Undefined /\ pool # Undefined /\ server \notin {"destroyed", "terminated"}

(* There is one read at a time, so no request waits for the main thread    *)
(* when another is read.                                                   *)
OsReadData ==
  /\ Alive /\ client = "up" /\ reads = 1
  /\ requests < MaxRequests
  /\ requests < Len(wire) + Window
  /\ patient => requests = Len(wire) /\ pool # "sent"
  /\ reads' = 0
  /\ ready' = Append(ready, Done("recv", "ok"))
  /\ UNCHANGED <<queue, handler, socket, writes, posted, threads, server, peer>>

ClientLeaves ==
  /\ Alive /\ client = "up"
  /\ client' = "gone"
  /\ UNCHANGED <<queue, handler, io, threads, server, patient, requests, wire>>

OsReadFails ==
  /\ Alive /\ client = "gone" /\ reads = 1
  /\ reads' = 0
  /\ \E ec \in {"eof", "failed"} : ready' = Append(ready, Done("recv", ec))
  /\ UNCHANGED <<queue, handler, socket, writes, posted, threads, server, peer>>

OsWriteDone ==
  /\ Alive /\ writes # <<>>
  /\ writes' = Tail(writes)
  /\ wire' = Append(wire, Head(writes))
  /\ ready' = Append(ready, Done("send", "ok"))
  /\ UNCHANGED <<queue, handler, socket, reads, posted, threads, server, client,
                 patient, requests>>

OsWriteFails ==
  /\ Alive /\ client = "gone" /\ writes # <<>>
  /\ writes' = Tail(writes)
  /\ ready' = Append(ready, Done("send", "failed"))
  /\ UNCHANGED <<queue, handler, socket, reads, posted, threads, server, peer>>

Environment ==
  OsReadData \/ ClientLeaves \/ OsReadFails \/ OsWriteDone \/ OsWriteFails

Next == MainThread \/ PoolThread \/ Stop \/ Destroy \/ Environment

Spec == Init /\ [][Next]_vars

(* Both threads are scheduled, and the operating system ends writes and    *)
(* reports a client that is gone.                                          *)
Fairness ==
  /\ WF_vars(MainThread)
  /\ WF_vars(PoolThread)
  /\ WF_vars(OsWriteDone \/ OsWriteFails)
  /\ WF_vars(OsReadFails)

FairSpec == Spec /\ Fairness

-----------------------------------------------------------------------------
(* The next steps of both threads use write_queue_, and one changes it.    *)
Race ==
  /\ main \in {"pop", "test", "kick", "clear"}
  /\ pool \in {"test", "push", "kick"}
  /\ main \in {"pop", "clear"} \/ pool = "push"

(* The reads of the session that are outstanding in any form: posted,      *)
(* started, or finished and waiting for the main thread.                   *)
ReadsOutstanding ==
  ({"posted"} \X {i \in DOMAIN posted : posted[i] = 0})
    \cup ({"started"} \X (1..reads))
    \cup ({"finished"} \X {i \in DOMAIN ready : ready[i].op = "recv"})

(* A session_stats_ entry does not outlive the session: one that process() *)
(* creates again after a failed write is erased by the failure of the read *)
(* that process() is followed by.                                          *)
EntryIsTransient == session_stats_ => Cardinality(ReadsOutstanding) = 1

(* With a patient client, one that a reply reaches only after the pool     *)
(* thread has left the call that sent it, the two threads do not use       *)
(* write_queue_ at the same time, it gets one response to each request, in *)
(* order, and the buffer of the write under way is the front of the queue. *)
PatientInOrder ==
  patient =>
    /\ ~Race
    /\ \A i \in DOMAIN wire : wire[i] = i
    /\ writes # <<>> => write_queue_ = writes

Answered(n) == requests >= n ~>
  \/ n \in ToSet(wire) \/ client = "gone" \/ server # "running"
  \/ main = Undefined \/ pool = Undefined

(* Every request of a patient client, in the same sense, is answered,      *)
(* unless the client leaves or the server stops.                           *)
PatientIsAnswered == patient => \A n \in Ids : Answered(n)

(* Every request is answered, unless the client leaves or the server stops *)
(* or runs into undefined behaviour.                                       *)
RequestIsAnswered == \A n \in Ids : Answered(n)

(* The handler is told that the client has left.                           *)
LeaveIsReported ==
  client = "gone" /\ server = "running"
    ~> closedCalls > 0 \/ server # "running" \/ main = Undefined \/ pool = Undefined
=============================================================================
