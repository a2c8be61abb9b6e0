---------------------------- MODULE AsyncClient ----------------------------
(***************************************************************************)
(* The reconnecting client of asio-1.28_async_client (async_client.h,      *)
(* async_client.cpp).  One thread runs the io_context and every handler,   *)
(* and a handler is one step: application threads share only stop_ with    *)
(* it, and post the rest of send() and close().  A true stop_ means that   *)
(* the client goes on reconnecting.                                        *)
(***************************************************************************)
EXTENDS IoContext

CONSTANT MaxSends   \* bound: how many messages send() posts

ASSUME MaxSendsAssumption == MaxSends \in Nat

VARIABLES
  stop_,        \* atomic<bool>
  write_msgs_,  \* deque of messages; do_write() writes a copy of its front
  socket,       \* socket_, one of Sockets; is_open() unless "closed"
  pending,      \* started operations
  ready,        \* finished operations and posted handlers, FIFO
  caller,       \* how far the application is in open() and close()
  io            \* the thread t_ of test.cpp, in io_context.run()

(* History: only its own updates and the bound on posted read it.          *)
VARIABLES
  posted,       \* how many messages send() has posted: ids 1..posted
  writing,      \* the message that the last async_write was given
  wire,         \* the messages that were written completely
  failed        \* whether a write has failed

state == <<stop_, write_msgs_, socket, pending, ready, caller, io>>
history == <<posted, writing, wire, failed>>
vars == <<state, history>>

Ids == 1..MaxSends

(* A second read can be outstanding beside the first.                      *)
Reads == {"recv", "recv again"}
Ops == {"connect", "send", "timer"} \cup Reads
Sockets == {"closed", "opening", "refused", "connected", "broken"}
Handlers == [op : Ops \cup {"close"}, ec : Codes, msg : {0}]
              \cup [op : {"post"}, ec : {"ok"}, msg : Ids]

TypeOK ==
  /\ stop_ \in BOOLEAN
  /\ write_msgs_ \in Seq(Ids)
  /\ socket \in Sockets
  /\ pending \subseteq Ops
  /\ ready \in Seq(Handlers)
  /\ caller \in {"new", "open", "threw", "disarmed", "closed"}
  /\ io \in {"running", "returned", "none", "terminated"}
  /\ posted \in 0..MaxSends
  /\ writing \in 0..MaxSends
  /\ wire \in Seq(Ids)
  /\ failed \in BOOLEAN

Init ==
  /\ stop_ = FALSE
  /\ write_msgs_ = <<>>
  /\ socket = "closed"
  /\ pending = {}
  /\ ready = <<>>
  /\ caller = "new"
  /\ io = "running"
  /\ posted = 0
  /\ writing = 0
  /\ wire = <<>>
  /\ failed = FALSE

-----------------------------------------------------------------------------
(* The functions that the handlers share.  q is what is left of the queue  *)
(* of ready handlers when the calling handler has been taken from it.      *)

(* Starting an operation on a closed socket finishes it with an error.     *)
Start(op, q) ==
  IF socket = "closed"
  THEN ready' = Append(q, Done(op, "failed")) /\ UNCHANGED pending
  ELSE ready' = q /\ pending' = pending \cup {op}

do_read(q) == Start(IF "recv" \in pending THEN "recv again" ELSE "recv", q)

(* msgs is the queue after the change that the caller made to it.          *)
do_write(msgs, q) == Start("send", q) /\ writing' = Head(msgs)

(* Mutant of schedule_reconnect: stop_ is read as its name says.           *)
StopsWhenSet(ended, q) ==
  /\ \E aborted \in Aborts(ended) : ready' = q \o aborted
  /\ pending' = (pending \ ended) \cup IF stop_ THEN {} ELSE {"timer"}

(* schedule_reconnect() after a handler has ended the operations in ended. *)
(* A new timer_ replaces the old one, which aborts a wait still pending.   *)
schedule_reconnect(ended, q) ==
  LET replaced == IF stop_ THEN pending \cap {"timer"} ELSE {} IN
  /\ \E aborted \in Aborts(ended \cup replaced) : ready' = q \o aborted
  /\ pending' = (pending \ ended) \cup IF stop_ THEN {"timer"} ELSE {}

(* What a failed read or write does: invoke_disconnected(), then the       *)
(* socket is closed, which aborts its operations, then the timer is set.   *)
Drop(q) ==
  /\ socket' = "closed"
  /\ schedule_reconnect(pending \ {"timer"}, q)

-----------------------------------------------------------------------------
(* Calls of the application.                                               *)

(* connect() resolves the name on the calling thread, then starts the      *)
(* connect.                                                                *)
open ==
  /\ caller = "new"
  /\ caller' = "open"
  /\ stop_' = TRUE
  /\ socket' = "opening"
  /\ pending' = {"connect"}
  /\ UNCHANGED <<write_msgs_, ready, io, history>>

(* A resolve that fails throws out of open(); test.cpp catches the         *)
(* exception and does not come to create t_.                               *)
OpenThrows ==
  /\ caller = "new"
  /\ caller' = "threw"
  /\ stop_' = TRUE
  /\ io' = "none"
  /\ UNCHANGED <<write_msgs_, socket, pending, ready, history>>

send ==
  /\ caller # "new" /\ io # "terminated"
  /\ posted < MaxSends
  /\ posted' = posted + 1
  /\ ready' = Append(ready, Posted(posted + 1))
  /\ UNCHANGED <<stop_, write_msgs_, socket, pending, caller, io, writing, wire,
                 failed>>

(* Mutant of CloseDisarms: stop_ keeps its value.                          *)
StaysArmed ==
  /\ caller \in {"open", "threw"}
  /\ caller' = "disarmed"
  /\ UNCHANGED <<stop_, write_msgs_, socket, pending, ready, io, history>>

CloseDisarms ==
  /\ caller \in {"open", "threw"}
  /\ caller' = "disarmed"
  /\ stop_' = FALSE
  /\ UNCHANGED <<write_msgs_, socket, pending, ready, io, history>>

ClosePosts ==
  /\ caller = "disarmed"
  /\ caller' = "closed"
  /\ ready' = Append(ready, Done("close", "ok"))
  /\ UNCHANGED <<stop_, write_msgs_, socket, pending, io, history>>

close == io # "terminated" /\ (CloseDisarms \/ ClosePosts)

-----------------------------------------------------------------------------
(* Handlers, run by the thread in io_context.run().                        *)

Takes(op) ==
  /\ io = "running" /\ ready # <<>> /\ Head(ready).op = op
  /\ UNCHANGED <<stop_, caller, io, posted>>

(* asio reports an abort when it finds the socket closed after a connect.  *)
ConnectCode == IF socket = "closed" THEN "aborted" ELSE Head(ready).ec

Connected ==
  /\ Takes("connect")
  /\ ConnectCode = "ok"
  /\ do_read(Tail(ready))
  /\ UNCHANGED <<write_msgs_, socket, writing, wire, failed>>

(* The socket is left open, though not connected.                          *)
ConnectFailed ==
  /\ Takes("connect")
  /\ ConnectCode # "ok"
  /\ schedule_reconnect({}, Tail(ready))
  /\ UNCHANGED <<write_msgs_, socket, writing, wire, failed>>

(* The handler of the timer: the socket is closed, replaced and connected. *)
Reconnect ==
  /\ Takes("timer")
  /\ IF Head(ready).ec = "ok"
     THEN /\ \E aborted \in Aborts(pending \ {"timer"}) :
               ready' = Tail(ready) \o aborted
          /\ pending' = (pending \cap {"timer"}) \cup {"connect"}
          /\ socket' = "opening"
     ELSE ready' = Tail(ready) /\ UNCHANGED <<pending, socket>>
  /\ UNCHANGED <<write_msgs_, writing, wire, failed>>

(* A resolve that fails in the handler of the timer throws out of run(),   *)
(* and nothing catches the exception in the thread t_: std::terminate().   *)
ReconnectThrows ==
  /\ io = "running" /\ ready # <<>> /\ Head(ready) = Done("timer", "ok")
  /\ io' = "terminated"
  /\ UNCHANGED <<stop_, write_msgs_, socket, pending, ready, caller, history>>

Received ==
  /\ \E op \in Reads : Takes(op)
  /\ Head(ready).ec = "ok"
  /\ do_read(Tail(ready))
  /\ UNCHANGED <<write_msgs_, socket, writing, wire, failed>>

ReceiveFailed ==
  /\ \E op \in Reads : Takes(op)
  /\ Head(ready).ec # "ok"
  /\ Drop(Tail(ready))
  /\ UNCHANGED <<write_msgs_, writing, wire, failed>>

(* The handler that send() posts.                                          *)
Dropped ==
  /\ Takes("post")
  /\ socket = "closed"
  /\ ready' = Tail(ready)
  /\ UNCHANGED <<write_msgs_, socket, pending, writing, wire, failed>>

(* Mutant of Enqueue: every posted message starts a write.                 *)
WritesAtOnce ==
  /\ Takes("post")
  /\ socket # "closed"
  /\ write_msgs_' = Append(write_msgs_, Head(ready).msg)
  /\ do_write(write_msgs_', Tail(ready))
  /\ UNCHANGED <<socket, wire, failed>>

Enqueue ==
  /\ Takes("post")
  /\ socket # "closed"
  /\ write_msgs_' = Append(write_msgs_, Head(ready).msg)
  /\ IF write_msgs_ = <<>>
     THEN do_write(write_msgs_', Tail(ready))
     ELSE ready' = Tail(ready) /\ UNCHANGED <<pending, writing>>
  /\ UNCHANGED <<socket, wire, failed>>

(* Mutant of Sent: the rest of the queue waits for the next send().        *)
SentStops ==
  /\ Takes("send")
  /\ Head(ready).ec = "ok"
  /\ write_msgs_' = Tail(write_msgs_)
  /\ ready' = Tail(ready)
  /\ UNCHANGED <<pending, socket, writing, wire, failed>>

Sent ==
  /\ Takes("send")
  /\ Head(ready).ec = "ok"
  /\ write_msgs_' = Tail(write_msgs_)
  /\ IF Tail(write_msgs_) # <<>>
     THEN do_write(Tail(write_msgs_), Tail(ready))
     ELSE ready' = Tail(ready) /\ UNCHANGED <<pending, writing>>
  /\ UNCHANGED <<socket, wire, failed>>

(* Mutant of SendFailed: the message is given up, and later ones written.  *)
GivesUpMessage ==
  /\ Takes("send")
  /\ Head(ready).ec # "ok"
  /\ write_msgs_' = Tail(write_msgs_)
  /\ Drop(Tail(ready))
  /\ failed' = TRUE
  /\ UNCHANGED <<writing, wire>>

(* The message stays at the front of the queue, with no write under way.   *)
SendFailed ==
  /\ Takes("send")
  /\ Head(ready).ec # "ok"
  /\ Drop(Tail(ready))
  /\ failed' = TRUE
  /\ UNCHANGED <<write_msgs_, writing, wire>>

(* Mutant of Closed: the socket is shut down, and stays open.              *)
ShutsDown ==
  /\ Takes("close")
  /\ socket' = "shut down"
  /\ ready' = Tail(ready)
  /\ UNCHANGED <<pending, write_msgs_, writing, wire, failed>>

(* The handler that close() posts.                                         *)
Closed ==
  /\ Takes("close")
  /\ socket' = "closed"
  /\ \E aborted \in Aborts(pending \ {"timer"}) : ready' = Tail(ready) \o aborted
  /\ pending' = pending \cap {"timer"}
  /\ UNCHANGED <<write_msgs_, writing, wire, failed>>

(* run() returns when it is out of work, and the thread ends.              *)
RunReturns ==
  /\ io = "running" /\ caller # "new" /\ ready = <<>> /\ pending = {}
  /\ io' = "returned"
  /\ UNCHANGED <<stop_, write_msgs_, socket, pending, ready, caller, history>>

IoThread ==
  \/ Connected \/ ConnectFailed \/ Reconnect \/ ReconnectThrows
  \/ Received \/ ReceiveFailed
  \/ Dropped \/ Enqueue \/ Sent \/ SendFailed \/ Closed \/ RunReturns

-----------------------------------------------------------------------------
(* The operating system and the peer finish pending operations.            *)

Finish(op, ec, sock) ==
  /\ io # "terminated"
  /\ op \in pending
  /\ pending' = pending \ {op}
  /\ ready' = Append(ready, Done(op, ec))
  /\ socket' = sock
  /\ UNCHANGED <<stop_, write_msgs_, caller, io, posted, writing, failed>>

OsConnect ==
  /\ \/ Finish("connect", "ok", "connected")
     \/ Finish("connect", "failed", "refused")
  /\ UNCHANGED wire

OsReadData ==
  /\ socket = "connected"
  /\ \E op \in Reads : Finish(op, "ok", socket)
  /\ UNCHANGED wire

(* A read or a write waits for a connect that is in progress.              *)
OsReadFails ==
  /\ socket # "opening"
  /\ \E op \in Reads :
       IF socket = "refused" THEN Finish(op, "failed", socket)
       ELSE Finish(op, "eof", "broken") \/ Finish(op, "failed", "broken")
  /\ UNCHANGED wire

OsWriteDone ==
  /\ socket \in {"connected", "broken"}
  /\ Finish("send", "ok", socket)
  /\ wire' = Append(wire, writing)

OsWriteFails ==
  /\ socket # "opening"
  /\ Finish("send", "failed", IF socket = "refused" THEN socket ELSE "broken")
  /\ UNCHANGED wire

OsWrite == OsWriteDone \/ OsWriteFails

(* The timer expires at any time, also behind handlers that will replace   *)
(* it: its own handler is then ready, and no longer aborted.               *)
OsTimer == Finish("timer", "ok", socket) /\ UNCHANGED wire

Environment == OsConnect \/ OsReadData \/ OsReadFails \/ OsWrite \/ OsTimer

Next == open \/ OpenThrows \/ send \/ close \/ IoThread \/ Environment

Spec == Init /\ [][Next]_vars

(* The io thread keeps running handlers, the operating system finishes     *)
(* connects and writes, lets the timer expire and reports a connection     *)
(* that is broken, and a thread that entered close() goes on.              *)
Fairness ==
  /\ WF_vars(IoThread)
  /\ WF_vars(OsConnect)
  /\ WF_vars(OsWrite)
  /\ WF_vars(OsTimer)
  /\ WF_vars(socket = "broken" /\ OsReadFails)
  /\ WF_vars(io # "terminated" /\ ClosePosts)

FairSpec == Spec /\ Fairness

-----------------------------------------------------------------------------
Awaits(S) == Outstanding(pending, ready, S)

(* A timer that will reconnect: its wait is pending, or expired.           *)
Armed ==
  \/ "timer" \in pending
  \/ \E i \in DOMAIN ready : ready[i].op = "timer" /\ ready[i].ec = "ok"

(* What leads to the next connect: an operation other than a write, or the *)
(* handler of one, but for a timer that was replaced.                      *)
Leads(h) == h.op \in {"connect"} \cup Reads \/ (h.op = "timer" /\ h.ec = "ok")
Lives ==
  ({"started"} \X (pending \ {"send"}))
    \cup ({"finished"} \X {i \in DOMAIN ready : Leads(ready[i])})

(* While the application wants reconnection the client does not die: the   *)
(* failures of a read, a write and a connect that come together, in any    *)
(* order, leave something that leads to the next connect.  And it leads    *)
(* one life until a write fails.  The handler of a failed write that runs  *)
(* before that of a timer that has expired sets a second timer, which will *)
(* close the connection made by the first: two lives, and never three.     *)
OneLife ==
  /\ caller = "open" /\ io = "running" => Lives # {}
  /\ Cardinality(Lives) <= IF failed THEN 2 ELSE 1

(* The messages that may still reach the wire: those queued and those      *)
(* posted, without the front when it was written already.                  *)
InFlight == (ToSet(write_msgs_) \cup Posts(ready)) \ ToSet(wire)

Chan == INSTANCE Channel
          WITH accepted <- posted, waiting <- InFlight, delivered <- wire

(* Over all its connections the client is a channel: no message is written *)
(* twice or after a younger one, though a failed write leaves its message  *)
(* in the queue and a post meets a closed socket.                          *)
ImplementsChannel == Chan!Spec

(* The queue has messages and no writer exactly when a write has failed,   *)
(* on this connection or an earlier one: no other order of events leaves   *)
(* messages behind, and after the first failed write no connection ever    *)
(* writes again.                                                           *)
OnlyFailureStrands == failed <=> write_msgs_ # <<>> /\ ~Awaits({"send"})

(* A client that is not connected tries to connect, until close(), unless  *)
(* a resolve in the handler of the timer ends the process.                 *)
Reconnects ==
  caller = "open" /\ socket # "connected"
    ~> socket = "opening" \/ caller # "open" \/ io = "terminated"

(* After close() run() returns when no timer is armed at the moment that   *)
(* stop_ has been cleared: handlers that fail later set none.              *)
CloseEndsRunUnlessArmed ==
  caller = "disarmed" /\ ~Armed ~> io \in {"returned", "none"}

(* After close() run() returns or the process ends, so that the stop() of  *)
(* test.cpp, which joins the thread that called it, does not wait for      *)
(* ever.                                                                   *)
CloseEndsRun == caller = "closed" ~> io # "running"
=============================================================================
