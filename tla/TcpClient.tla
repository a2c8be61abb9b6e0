----------------------------- MODULE TcpClient -----------------------------
(***************************************************************************)
(* The reconnecting client of asio-1.28 (tcp_client.h, tcp_client.cpp).    *)
(* One thread runs the io_context and every handler; application threads   *)
(* call connect, send and close.  close() and send(), which run on an      *)
(* application thread, are one step for each of their statements that the  *)
(* handlers can observe.  A handler is one step, except that doReconnect() *)
(* acts on reconnect_ in a step after the one that read it.                *)
(***************************************************************************)
EXTENDS IoContext

CONSTANT MaxSends   \* bound: how many messages send() accepts

ASSUME MaxSendsAssumption == MaxSends \in Nat

VARIABLES
  reconnect_,     \* atomic<bool>
  is_connected_,  \* atomic<ConnectStatus>
  send_msgs_,     \* deque of messages; doSend() writes its front
  socket,         \* socket_, one of Sockets
  pending,        \* started operations: connect, recv, send, timer
  ready,          \* finished operations and posted handlers, FIFO
  caller,         \* how far the application is in connect(), close()
  sender,         \* how far an application thread is in send()
  io              \* the thread in io_context.run()

(* History: only its own updates and the bound on accepted read it.        *)
VARIABLES
  accepted,       \* how many messages send() has accepted: ids 1..accepted
  writing,        \* the message whose buffer the last async_write was given
  wire,           \* the messages that were written completely
  orphans,        \* the messages queued when the last connect succeeded
  overlap,        \* operations started while one of the kind was pending
  notified        \* the last status given to connect_cb_

state == <<reconnect_, is_connected_, send_msgs_, socket, pending, ready,
           caller, sender, io>>
history == <<accepted, writing, wire, orphans, overlap, notified>>
vars == <<state, history>>

Ids == 1..MaxSends
Ops == {"connect", "recv", "send", "timer"}
Status == {"ERR", "CONNECTING", "CONNECTED", "DISCONNECT"}
Sockets == {"closed", "opening", "refused", "connected", "broken"}
Handlers == [op : Ops, ec : Codes, msg : {0}]
              \cup [op : {"post"}, ec : {"ok"}, msg : Ids]

(* The statements of close(): before the first, after reconnect_ = false,  *)
(* after is_connected_ = DISCONNECT, after cancel(), and returned; or left *)
(* by the exception of cancel().                                           *)
CallerStates == {"new", "open", "disarmed", "marked", "cancelled", "closed",
                 "threw"}

TypeOK ==
  /\ reconnect_ \in BOOLEAN
  /\ is_connected_ \in Status \ {"ERR"}
  /\ send_msgs_ \in Seq(Ids)
  /\ socket \in Sockets
  /\ pending \subseteq Ops
  /\ ready \in Seq(Handlers)
  /\ caller \in CallerStates
  /\ sender \in {"idle", "checked"}
  /\ io \in {"running", "arming", "returned", "undefined"}
  /\ accepted \in 0..MaxSends
  /\ writing \in 0..MaxSends
  /\ wire \in Seq(Ids)
  /\ orphans \subseteq Ids
  /\ overlap \subseteq Ops
  /\ notified \in Status

Init ==
  /\ reconnect_ = FALSE
  /\ is_connected_ = "DISCONNECT"
  /\ send_msgs_ = <<>>
  /\ socket = "closed"
  /\ pending = {}
  /\ ready = <<>>
  /\ caller = "new"
  /\ sender = "idle"
  /\ io = "running"
  /\ accepted = 0
  /\ writing = 0
  /\ wire = <<>>
  /\ orphans = {}
  /\ overlap = {}
  /\ notified = "DISCONNECT"

-----------------------------------------------------------------------------
(* The functions that the handlers share.  q is what is left of the queue  *)
(* of ready handlers when the calling handler has been taken from it.      *)

(* Starting an operation on a closed socket finishes it with an error.     *)
Start(op, q) ==
  /\ overlap' = overlap \cup ({op} \cap pending)
  /\ IF socket = "closed"
     THEN ready' = Append(q, Done(op, "failed")) /\ UNCHANGED pending
     ELSE ready' = q /\ pending' = pending \cup {op}

(* Mutant of doConnectCb: the status is stored as it was given.            *)
StoresStatus(status) == is_connected_' = status /\ notified' = status

doConnectCb(status) ==
  /\ is_connected_' = IF status = "CONNECTED" THEN status ELSE "DISCONNECT"
  /\ notified' = status

doConnect(q) ==
  /\ is_connected_' = "CONNECTING"
  /\ socket' = "opening"
  /\ overlap' = overlap \cup ({"connect"} \cap pending)
  /\ pending' = pending \cup {"connect"}
  /\ ready' = q

(* doReconnect() up to its test of reconnect_.  socket_.close() aborts     *)
(* what is pending on the socket.  It is one step with clearSendMsgs():    *)
(* only this thread uses send_msgs_, so that a step of close() between the *)
(* two has the same outcome as before both.                                *)
doReconnect(q) ==
  /\ is_connected_' = "DISCONNECT"
  /\ send_msgs_' = <<>>
  /\ socket' = "closed"
  /\ \E aborted \in Aborts(pending \ {"timer"}) : ready' = q \o aborted
  /\ pending' = pending \cap {"timer"}
  /\ io' = IF reconnect_ THEN "arming" ELSE "running"

doRecv(q) == Start("recv", q)

(* msgs is the queue after the change that the caller made to it.          *)
doSend(msgs, q) ==
  /\ Start("send", q)
  /\ writing' = Head(msgs)

-----------------------------------------------------------------------------
(* Calls of the application.                                               *)

connect(reconnect) ==
  /\ caller = "new"
  /\ caller' = "open"
  /\ reconnect_' = reconnect
  /\ doConnect(ready)
  /\ UNCHANGED <<send_msgs_, sender, io, accepted, writing, wire, orphans,
                 notified>>

(* A call that finds the client not connected returns false and changes    *)
(* nothing.                                                                *)
SendChecks ==
  /\ io # "undefined"
  /\ sender = "idle"
  /\ is_connected_ = "CONNECTED"
  /\ accepted < MaxSends
  /\ sender' = "checked"
  /\ UNCHANGED <<reconnect_, is_connected_, send_msgs_, socket, pending,
                 ready, caller, io, history>>

SendPosts ==
  /\ io # "undefined"
  /\ sender = "checked"
  /\ sender' = "idle"
  /\ accepted' = accepted + 1
  /\ ready' = Append(ready, Posted(accepted + 1))
  /\ UNCHANGED <<reconnect_, is_connected_, send_msgs_, socket, pending,
                 caller, io, writing, wire, orphans, overlap, notified>>

send == SendChecks \/ SendPosts

(* Mutant of CloseDisarms: reconnect_ stays set.                           *)
StaysArmed ==
  /\ caller = "open"
  /\ caller' = "disarmed"
  /\ UNCHANGED <<reconnect_, is_connected_, send_msgs_, socket, pending, ready>>

CloseDisarms ==
  /\ caller = "open"
  /\ caller' = "disarmed"
  /\ reconnect_' = FALSE
  /\ UNCHANGED <<is_connected_, send_msgs_, socket, pending, ready>>

CloseMarks ==
  /\ caller = "disarmed"
  /\ caller' = "marked"
  /\ is_connected_' = "DISCONNECT"
  /\ UNCHANGED <<reconnect_, send_msgs_, socket, pending, ready>>

(* cancel() aborts the operations of an open socket, and throws            *)
(* bad_descriptor on a closed one.                                         *)
CloseCancels ==
  /\ caller = "marked"
  /\ socket # "closed"
  /\ caller' = "cancelled"
  /\ \E aborted \in Aborts(pending \ {"timer"}) : ready' = ready \o aborted
  /\ pending' = pending \cap {"timer"}
  /\ UNCHANGED <<reconnect_, is_connected_, send_msgs_, socket>>

CloseThrows ==
  /\ caller = "marked"
  /\ socket = "closed"
  /\ caller' = "threw"
  /\ UNCHANGED <<reconnect_, is_connected_, send_msgs_, socket, pending,
                 ready>>

CloseCloses ==
  /\ caller = "cancelled"
  /\ caller' = "closed"
  /\ socket' = "closed"
  /\ \E aborted \in Aborts(pending \ {"timer"}) : ready' = ready \o aborted
  /\ pending' = pending \cap {"timer"}
  /\ UNCHANGED <<reconnect_, is_connected_, send_msgs_>>

close ==
  /\ io # "undefined"
  /\ CloseDisarms \/ CloseMarks \/ CloseCancels \/ CloseThrows \/ CloseCloses
  /\ UNCHANGED <<sender, io, history>>

-----------------------------------------------------------------------------
(* Handlers, run by the thread in io_context.run().                        *)

Takes(op) == io = "running" /\ ready # <<>> /\ Head(ready).op = op

(* asio reports an abort when it finds the socket closed after a connect.  *)
ConnectCode == IF socket = "closed" THEN "aborted" ELSE Head(ready).ec

Connected ==
  /\ Takes("connect")
  /\ ConnectCode = "ok"
  /\ doConnectCb("CONNECTED")
  /\ doRecv(Tail(ready))
  /\ orphans' = ToSet(send_msgs_)
  /\ UNCHANGED <<reconnect_, send_msgs_, socket, caller, sender, io, accepted,
                 writing, wire>>

(* Mutant of ConnectFailed: only an established connection is retried.     *)
GivesUp ==
  /\ Takes("connect")
  /\ ConnectCode # "ok"
  /\ doConnectCb("ERR")
  /\ ready' = Tail(ready)
  /\ UNCHANGED <<reconnect_, send_msgs_, socket, pending, caller, sender, io,
                 accepted, writing, wire, orphans, overlap>>

ConnectFailed ==
  /\ Takes("connect")
  /\ ConnectCode # "ok"
  /\ doConnectCb("ERR")
  /\ doReconnect(Tail(ready))
  /\ UNCHANGED <<reconnect_, caller, sender, accepted, writing, wire, orphans,
                 overlap>>

(* The rest of doReconnect(): expires_after() would abort a wait that is   *)
(* still pending, and a new wait starts.                                   *)
ArmTimer ==
  /\ io = "arming"
  /\ io' = "running"
  /\ \E aborted \in Aborts(pending \cap {"timer"}) : ready' = ready \o aborted
  /\ pending' = pending \cup {"timer"}
  /\ overlap' = overlap \cup (pending \cap {"timer"})
  /\ UNCHANGED <<reconnect_, is_connected_, send_msgs_, socket, caller, sender,
                 accepted, writing, wire, orphans, notified>>

Reconnect ==
  /\ Takes("timer")
  /\ IF Head(ready).ec = "aborted"
     THEN /\ ready' = Tail(ready)
          /\ UNCHANGED <<is_connected_, socket, pending, overlap>>
     ELSE doConnect(Tail(ready))
  /\ UNCHANGED <<reconnect_, send_msgs_, caller, sender, io, accepted,
                 writing, wire, orphans, notified>>

Received ==
  /\ Takes("recv")
  /\ Head(ready).ec = "ok"
  /\ doRecv(Tail(ready))
  /\ UNCHANGED <<reconnect_, is_connected_, send_msgs_, socket, caller,
                 sender, io, accepted, writing, wire, orphans, notified>>

(* Mutant of ReceiveFailed: the loss is not reported.                      *)
SilentLoss ==
  /\ Takes("recv")
  /\ Head(ready).ec # "ok"
  /\ doReconnect(Tail(ready))
  /\ UNCHANGED <<reconnect_, caller, sender, history>>

ReceiveFailed ==
  /\ Takes("recv")
  /\ Head(ready).ec # "ok"
  /\ doConnectCb(IF Head(ready).ec = "eof" THEN "DISCONNECT" ELSE "ERR")
  /\ doReconnect(Tail(ready))
  /\ UNCHANGED <<reconnect_, caller, sender, accepted, writing, wire, orphans,
                 overlap>>

(* Mutant of Enqueue: every posted message starts a write.                 *)
WritesAtOnce ==
  /\ Takes("post")
  /\ send_msgs_' = Append(send_msgs_, Head(ready).msg)
  /\ doSend(send_msgs_', Tail(ready))
  /\ UNCHANGED <<reconnect_, is_connected_, socket, caller, sender, io,
                 accepted, wire, orphans, notified>>

(* The handler that send() posts.                                          *)
Enqueue ==
  /\ Takes("post")
  /\ send_msgs_' = Append(send_msgs_, Head(ready).msg)
  /\ IF send_msgs_ = <<>>
     THEN doSend(send_msgs_', Tail(ready))
     ELSE ready' = Tail(ready) /\ UNCHANGED <<pending, writing, overlap>>
  /\ UNCHANGED <<reconnect_, is_connected_, socket, caller, sender, io,
                 accepted, wire, orphans, notified>>

(* Mutant of Sent: the rest of the queue waits for the next send().        *)
SentStops ==
  /\ Takes("send")
  /\ Head(ready).ec = "ok"
  /\ send_msgs_ # <<>>
  /\ send_msgs_' = Tail(send_msgs_)
  /\ ready' = Tail(ready)
  /\ UNCHANGED <<reconnect_, is_connected_, socket, pending, caller, sender, io,
                 history>>

(* Mutant of Sent: the written message stays at the front.                 *)
SentKeepsFront ==
  /\ Takes("send")
  /\ Head(ready).ec = "ok"
  /\ send_msgs_ # <<>>
  /\ doSend(send_msgs_, Tail(ready))
  /\ UNCHANGED <<reconnect_, is_connected_, send_msgs_, socket, caller, sender,
                 io, accepted, wire, orphans, notified>>

Sent ==
  /\ Takes("send")
  /\ Head(ready).ec = "ok"
  /\ send_msgs_ # <<>>
  /\ send_msgs_' = Tail(send_msgs_)
  /\ IF Tail(send_msgs_) # <<>>
     THEN doSend(Tail(send_msgs_), Tail(ready))
     ELSE ready' = Tail(ready) /\ UNCHANGED <<pending, writing, overlap>>
  /\ UNCHANGED <<reconnect_, is_connected_, socket, caller, sender, io,
                 accepted, wire, orphans, notified>>

(* pop_front() on an empty deque is undefined: the process may crash or    *)
(* go on with a corrupted deque.  The model stops here and says nothing    *)
(* about what follows.                                                     *)
SentNothingQueued ==
  /\ Takes("send")
  /\ Head(ready).ec = "ok"
  /\ send_msgs_ = <<>>
  /\ io' = "undefined"
  /\ ready' = Tail(ready)
  /\ UNCHANGED <<reconnect_, is_connected_, send_msgs_, socket, pending,
                 caller, sender, history>>

(* Mutant of SendFailed: the call that the source has commented out.       *)
SendFailedReconnects ==
  /\ Takes("send")
  /\ Head(ready).ec # "ok"
  /\ doConnectCb("ERR")
  /\ doReconnect(Tail(ready))
  /\ UNCHANGED <<reconnect_, caller, sender, accepted, writing, wire, orphans,
                 overlap>>

SendFailed ==
  /\ Takes("send")
  /\ Head(ready).ec # "ok"
  /\ doConnectCb("ERR")
  /\ ready' = Tail(ready)
  /\ UNCHANGED <<reconnect_, send_msgs_, socket, pending, caller, sender, io,
                 accepted, writing, wire, orphans, overlap>>

(* run() returns when it is out of work, and the thread ends.              *)
RunReturns ==
  /\ io = "running"
  /\ caller # "new"
  /\ ready = <<>>
  /\ pending = {}
  /\ io' = "returned"
  /\ UNCHANGED <<reconnect_, is_connected_, send_msgs_, socket, pending,
                 ready, caller, sender, history>>

IoThread ==
  \/ Connected \/ ConnectFailed \/ ArmTimer \/ Reconnect
  \/ Received \/ ReceiveFailed
  \/ Enqueue \/ Sent \/ SentNothingQueued \/ SendFailed \/ RunReturns

-----------------------------------------------------------------------------
(* The operating system and the peer finish pending operations.            *)

Finish(op, ec, sock) ==
  /\ io # "undefined"
  /\ op \in pending
  /\ pending' = pending \ {op}
  /\ ready' = Append(ready, Done(op, ec))
  /\ socket' = sock
  /\ UNCHANGED <<reconnect_, is_connected_, send_msgs_, caller, sender, io,
                 accepted, writing, orphans, overlap, notified>>

OsConnect ==
  /\ \/ Finish("connect", "ok", "connected")
     \/ Finish("connect", "failed", "refused")
  /\ UNCHANGED wire

OsReadData ==
  /\ socket = "connected"
  /\ Finish("recv", "ok", socket)
  /\ UNCHANGED wire

OsReadFails ==
  /\ Finish("recv", "eof", "broken") \/ Finish("recv", "failed", "broken")
  /\ UNCHANGED wire

(* A write waits for a connect that is in progress.  One on a connection   *)
(* that broke may still have been taken by the peer.                       *)
OsWriteDone ==
  /\ socket \in {"connected", "broken"}
  /\ Finish("send", "ok", socket)
  /\ wire' = Append(wire, writing)

OsWriteFails ==
  /\ socket # "opening"
  /\ Finish("send", "failed", IF socket = "refused" THEN socket ELSE "broken")
  /\ UNCHANGED wire

OsWrite == OsWriteDone \/ OsWriteFails

OsTimer == Finish("timer", "ok", socket) /\ UNCHANGED wire

Environment == OsConnect \/ OsReadData \/ OsReadFails \/ OsWrite \/ OsTimer

Next ==
  \/ \E reconnect \in BOOLEAN : connect(reconnect)
  \/ send
  \/ close
  \/ IoThread
  \/ Environment

Spec == Init /\ [][Next]_vars

(* The io thread keeps running handlers; the operating system finishes     *)
(* connects and writes, lets the timer expire and reports a connection     *)
(* that is broken; a thread that entered close() goes on.  Data from the   *)
(* peer, a loss of the connection and the calls of the application may     *)
(* never come.                                                             *)
Fairness ==
  /\ WF_vars(IoThread)
  /\ WF_vars(OsConnect)
  /\ WF_vars(OsWrite)
  /\ WF_vars(OsTimer)
  /\ WF_vars(socket = "broken" /\ OsReadFails)
  /\ WF_vars(caller # "open" /\ close)

FairSpec == Spec /\ Fairness

-----------------------------------------------------------------------------
(* The operations that carry the life of a connection: connect, then the   *)
(* loop of reads, then the timer, then connect again.                      *)
Chain == {"connect", "recv", "timer"}

Awaits(S) == Outstanding(pending, ready, S)

(* The client never runs two lives at once: at most one operation of the   *)
(* chain is outstanding, whether pending or waiting as a handler.  So no   *)
(* second connect, no second read loop and no timer beside a live          *)
(* connection (doConnect, doReconnect, doRecv).                            *)
SingleChain ==
  /\ AtMostOne(pending, ready, Chain)
  /\ io = "arming" => ~Awaits(Chain)

(* While the application wants reconnection and has not called close(),    *)
(* the chain never dies: something that will lead to the next connect is   *)
(* always outstanding, whatever failed and in whatever order.              *)
ChainAlive ==
  caller = "open" /\ reconnect_ => Awaits(Chain) \/ io = "arming"

(* The client has exactly one life, from connect() to close().             *)
OneLife == SingleChain /\ ChainAlive

(* A client that tells send() it is connected has its read loop, the only  *)
(* place that notices the loss of the connection, outstanding.             *)
ConnectedIsWatched == is_connected_ = "CONNECTED" => Awaits({"recv"})

(* The buffer of a pending async_write is the front string of send_msgs_:  *)
(* it is still there and still the same message.  No operation is started  *)
(* while one of its kind is pending.                                       *)
WriteBufferAlive ==
  /\ "send" \in pending => send_msgs_ # <<>> /\ Head(send_msgs_) = writing
  /\ overlap = {}

(* The messages that may still reach the wire: those queued and those      *)
(* posted, without the front when it was written already.                  *)
InFlight == (ToSet(send_msgs_) \cup Posts(ready)) \ ToSet(wire)

Chan == INSTANCE Channel WITH waiting <- InFlight, delivered <- wire

(* Over all its connections the client is a channel: what reaches the wire *)
(* is in the order of the calls of send(), each message at most once, and  *)
(* a reconnect or a handler left over from an earlier connection only ever *)
(* loses messages.                                                         *)
ImplementsChannel == Chan!Spec

(* After close() has returned normally the client does not come back: the  *)
(* socket stays closed and no timer that would reconnect is outstanding.   *)
CloseIsFinal ==
  caller = "closed" => 
    socket = "closed" /\ ~Awaits({"timer"}) /\ io # "arming"

(* close() does not end by an exception: the application of test.cpp calls *)
(* it with no handler around it and goes on to join the io thread.         *)
CloseReturns == caller # "threw"

(* connect_cb_ is never told CONNECTED twice in a row: a loss is reported  *)
(* before the next connection is.                                          *)
LossReportedBetweenConnects ==
  [][Connected => notified # "CONNECTED"]_vars

(* A client that reconnects and is disconnected tries again, unless the    *)
(* application calls close() or the deque was corrupted.                   *)
DisconnectLeadsToConnect ==
  caller = "open" /\ reconnect_ /\ is_connected_ = "DISCONNECT"
    ~> \/ is_connected_ \in {"CONNECTING", "CONNECTED"}
       \/ caller # "open" \/ io = "undefined"

(* A message at the front that was queued on this connection is written,   *)
(* or the client finds out that the connection is lost.                    *)
FrontIsWritten ==
  \A m \in Ids :
    (/\ is_connected_ = "CONNECTED" /\ send_msgs_ # <<>>
     /\ Head(send_msgs_) = m /\ m \notin orphans)
      ~> m \in ToSet(wire) \/ is_connected_ # "CONNECTED" \/ io = "undefined"

(* After close() has returned normally, run() returns, so that a thread    *)
(* joining the io thread goes on.                                          *)
CloseEndsRun == caller = "closed" ~> io \in {"returned", "undefined"}
=============================================================================
