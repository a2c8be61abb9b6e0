--------------------------- MODULE Asio110Client ---------------------------
(***************************************************************************)
(* TcpClient and AsioTimer of asio-1.10 (tcp_client.cpp, asio_timer.cpp)   *)
(* on top of TcpConnection, as its test.cpp uses them: connect() and then  *)
(* run() on one thread, sendMessage() and closeClient() from another.      *)
(* Every failed connect replaces conn_; a connection that was established  *)
(* and lost is not replaced.  interval_ keeps its first value, so that     *)
(* the timer is never a cyclic one.                                        *)
(***************************************************************************)
EXTENDS TcpConnection

VARIABLES
  reconnect_,  \* atomic<bool>
  caller,      \* how far the application is in connect() and closeClient()
  posted       \* how many messages sendMessage() has posted: ids 1..posted

(* History: only its own updates read it.                                  *)
VARIABLES
  unresolved,  \* whether a resolve has failed
  cut          \* whether closeInService() has aborted a read

client == <<reconnect_, caller, posted, unresolved, cut>>
vars == <<connection, pending, ready, io, client>>

Ops == SocketOps \cup {"resolve", "timer"}
Handlers ==
  [op : Ops \cup {"receiveIn", "closeIn", "sending", "sendIn", "orphan"},
   ec : Codes, msg : Nat]

TypeOK ==
  /\ state_ \in {"CONNECTING", "CONNECTED", "DISCONNECTED"}
  /\ {receiving_, sending_, reconnect_, unresolved, cut} \subseteq BOOLEAN
  /\ IsBuffer(buf_in_) /\ IsBuffer(buf_out_)
  /\ socket \in Sockets
  /\ pending \subseteq Ops
  /\ ready \in Seq(Handlers)
  /\ io \in {"running", "returned", "thrown", Undefined}
  /\ writing \in Nat
  /\ given \in Seq(Byte) /\ wire \in Seq(Byte)
  /\ caller \in {"new", "open", "disarmed", "closed"}
  /\ posted \in 0..Len(Sizes)

(* What a new TcpConnection is.                                            *)
Fresh(state, receiving, sending, in, out, sock, w, g, wr) ==
  /\ state = "CONNECTING"
  /\ receiving = FALSE /\ sending = FALSE
  /\ in = NewBuffer /\ out = NewBuffer
  /\ sock = "closed"
  /\ w = 0 /\ g = <<>> /\ wr = <<>>

Init ==
  /\ Fresh(state_, receiving_, sending_, buf_in_, buf_out_, socket, writing,
           given, wire)
  /\ pending = {} /\ ready = <<>> /\ io = "running"
  /\ reconnect_ = FALSE /\ caller = "new" /\ posted = 0
  /\ unresolved = FALSE /\ cut = FALSE

-----------------------------------------------------------------------------
(* Calls of the application.                                               *)

(* connect() does what connectInter() does, with or without reconnect.     *)
connect ==
  /\ caller = "new"
  /\ caller' = "open"
  /\ reconnect_' \in BOOLEAN
  /\ pending' = {"resolve"}
  /\ UNCHANGED <<connection, ready, io, posted, unresolved, cut>>

(* (What is posted to a thread that has left run() stays in its queue.)    *)
sendMessage ==
  /\ caller # "new"
  /\ io = "running"
  /\ posted < Len(Sizes)
  /\ posted' = posted + 1
  /\ ready' = Append(ready, Carrying("sending", posted + 1))
  /\ UNCHANGED <<connection, pending, io, reconnect_, caller, unresolved, cut>>

CloseDisarms ==
  /\ caller = "open"
  /\ caller' = "disarmed"
  /\ reconnect_' = FALSE
  /\ UNCHANGED <<connection, pending, ready, io, posted, unresolved, cut>>

CloseForces ==
  /\ caller = "disarmed"
  /\ caller' = "closed"
  /\ ready' = Append(ready, Done("closeIn", "ok"))
  /\ UNCHANGED <<connection, pending, io, reconnect_, posted, unresolved, cut>>

closeClient == CloseDisarms \/ CloseForces

-----------------------------------------------------------------------------
(* Handlers of the client.                                                 *)

handleSending ==
  /\ Takes("sending", {"ok"})
  /\ ready' = Append(Tail(ready), Carrying("sendIn", Head(ready).msg))
  /\ UNCHANGED <<connection, pending, io, client>>

handleResolver ==
  /\ Takes("resolve", {"ok"})
  /\ ready' = Tail(ready)
  /\ socket' = "opening"
  /\ pending' = pending \cup {"connect"}
  /\ UNCHANGED <<state_, receiving_, sending_, buf_in_, buf_out_, io, writing,
                 given, wire, client>>

(* Nothing is done about a resolve that failed.                            *)
ResolveFailed ==
  /\ Takes("resolve", {"failed"})
  /\ ready' = Tail(ready)
  /\ unresolved' = TRUE
  /\ UNCHANGED <<connection, pending, io, reconnect_, caller, posted, cut>>

handleConnect ==
  /\ Takes("connect", {"ok"})
  /\ startReceive(Tail(ready))
  /\ state_' = "CONNECTED"
  /\ UNCHANGED <<sending_, buf_in_, buf_out_, socket, pending, io, writing, given,
                 wire, client>>

(* The handlers in q that are bound to a connection that conn_ has left.   *)
(* Its socket is open with no operation and it has no callbacks, so that   *)
(* they do nothing the client can see.                                     *)
Orphaned(q) ==
  [i \in DOMAIN q |-> IF q[i].op \in {"sendIn", "closeIn"}
                      THEN [q[i] EXCEPT !.op = "orphan"] ELSE q[i]]

(* Mutant of ConnectFailed: the timer is made and not started.             *)
TimerNotStarted ==
  /\ Takes("connect", {"failed", "aborted"})
  /\ Fresh(state_', receiving_', sending_', buf_in_', buf_out_', socket',
           writing', given', wire')
  /\ ready' = Orphaned(Tail(ready))
  /\ UNCHANGED <<pending, io, client>>

ConnectFailed ==
  /\ Takes("connect", {"failed", "aborted"})
  /\ Fresh(state_', receiving_', sending_', buf_in_', buf_out_', socket',
           writing', given', wire')
  /\ ready' = Orphaned(Tail(ready))
  /\ pending' = pending \cup IF reconnect_ THEN {"timer"} ELSE {}
  /\ UNCHANGED <<io, client>>

Orphan ==
  /\ Takes("orphan", {"ok"})
  /\ ready' = Tail(ready)
  /\ UNCHANGED <<connection, pending, io, client>>

(* The task of the timer is connectInter().                                *)
handleTimer ==
  /\ Takes("timer", {"ok"})
  /\ ready' = Tail(ready)
  /\ pending' = pending \cup {"resolve"}
  /\ UNCHANGED <<connection, io, client>>

(* Handlers of the connection.                                             *)
Close ==
  /\ closeInService
  /\ cut' = ("recv" \in pending)
  /\ UNCHANGED <<reconnect_, caller, posted, unresolved>>

Connection ==
  /\ \/ receiveInService \/ handleReceiveOk \/ handleReceiveEof \/ HandleError
     \/ sendInService \/ sendInServiceUnsafe \/ handleSendOk
     \/ closeInServiceThrows
  /\ UNCHANGED client

RunReturns ==
  /\ io = "running"
  /\ caller # "new"
  /\ pending = {} /\ ready = <<>>
  /\ io' = "returned"
  /\ UNCHANGED <<connection, pending, ready, client>>

IoThread ==
  \/ handleSending \/ handleResolver \/ ResolveFailed \/ handleConnect
  \/ ConnectFailed \/ Orphan \/ handleTimer \/ Close \/ Connection
  \/ RunReturns

-----------------------------------------------------------------------------
(* The operating system.                                                   *)

OsResolve ==
  /\ "resolve" \in pending
  /\ \E ec \in {"ok", "failed"} : Finish("resolve", Done("resolve", ec))
  /\ UNCHANGED <<connection, io, client>>

(* There is one endpoint.                                                  *)
OsConnect ==
  /\ "connect" \in pending
  /\ \/ socket' = "connected" /\ Finish("connect", Done("connect", "ok"))
     \/ socket' = "refused" /\ Finish("connect", Done("connect", "failed"))
  /\ UNCHANGED <<state_, receiving_, sending_, buf_in_, buf_out_, io, writing,
                 given, wire, client>>

OsTimer ==
  /\ "timer" \in pending
  /\ Finish("timer", Done("timer", "ok"))
  /\ UNCHANGED <<connection, io, client>>

OsEnds ==
  /\ OsReadFails \/ OsWriteDone \/ OsWriteFails
  /\ UNCHANGED client

OsMayDo ==
  /\ OsReadData \/ OsBreaks
  /\ UNCHANGED client

Next ==
  \/ connect \/ sendMessage \/ closeClient
  \/ IoThread
  \/ OsResolve \/ OsConnect \/ OsTimer \/ OsEnds \/ OsMayDo

Spec == Init /\ [][Next]_vars

(* The io thread runs, closeClient() goes on once it is entered, and the   *)
(* operating system ends resolves, connects, writes, waits and the reads   *)
(* of a broken connection.  Nobody has to send data or to call.            *)
FairSpec ==
  /\ Spec
  /\ WF_vars(IoThread) /\ WF_vars(CloseForces)
  /\ WF_vars(OsResolve) /\ WF_vars(OsConnect) /\ WF_vars(OsTimer)
  /\ WF_vars(OsReadFails /\ UNCHANGED client)
  /\ WF_vars((OsWriteDone \/ OsWriteFails) /\ UNCHANGED client)

-----------------------------------------------------------------------------
(* Properties.                                                             *)

(* Whatever is appended while a write is in flight, the bytes written are  *)
(* a prefix of those given to the connection, and what buf_out_ holds is   *)
(* the end of them, as long as no append was undefined: sendInService(),   *)
(* handleSend() and the index arithmetic of append() and                   *)
(* retrieveReadIndex() neither lose, repeat nor reorder.                   *)
OutputInOrder ==
  io # Undefined =>
    /\ IsPrefix(wire, given)
    /\ IsSuffix(Content(buf_out_), given)

(* A client that was asked to reconnect and has not connected yet makes    *)
(* another attempt, unless a resolve fails, which handleResolver() drops.  *)
RetriesUnlessUnresolved ==
  (caller = "open" /\ reconnect_ /\ state_ = "CONNECTING")
    ~> (socket = "opening" \/ caller # "open" \/ state_ # "CONNECTING"
          \/ unresolved)

(* The number of bytes of the first m messages.                            *)
Bytes(m) == FoldSeq(LAMBDA x, y : x + y, 0, SubSeq(Sizes, 1, m))

(* Once a write is under way, all that was given to the connection is      *)
(* written, or the connection ends: handleSend() goes on with the rest.    *)
(* (What was given before the connect waits for the next sendInService().) *)
WriterGoesOn ==
  \A m \in Ids :
    (sending_ /\ state_ = "CONNECTED" /\ Len(given) >= Bytes(m))
      ~> (Len(wire) >= Bytes(m) \/ state_ # "CONNECTED" \/ io # "running")

(* After a closeClient() that aborts a read, run() comes to its end: no    *)
(* handler starts another operation.  (One that meets a finished read, or  *)
(* a receiveInService() that is posted and has not run, leaves the socket  *)
(* reading, since it is never closed.)                                     *)
CloseEndsRunIfReading == cut ~> io # "running"
=============================================================================
