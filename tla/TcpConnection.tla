--------------------------- MODULE TcpConnection ---------------------------
(***************************************************************************)
(* TcpConnection of asio-1.10 (tcp_connection.h, tcp_connection.cpp), the  *)
(* socket and the two buffers of a client.  asio-1.28 has the same class.  *)
(* One thread runs the io_service, every handler is one step, and the      *)
(* public functions only post.  The variables are those of the connection  *)
(* that conn_ of the client points to.                                     *)
(***************************************************************************)
EXTENDS IoContext, ConnectionBuffer

CONSTANTS
  Sizes,    \* Sizes[m]: the length of message m, the m-th given to send
  MaxIn,    \* bound: buf_in_ of this size does not grow
  Short     \* bound: by how many bytes a read may fall short of the room

ASSUME SizesAssumption == Sizes \in Seq(Nat) /\ DOMAIN Sizes \subseteq Byte
ASSUME MaxInAssumption == MaxIn \in Nat

VARIABLES
  state_,      \* CONNECTING, CONNECTED or DISCONNECTED
  receiving_,  \* atomic<bool>: receiveInService() was posted
  sending_,    \* atomic<bool>: an async_write was started
  buf_in_,     \* what was read and the application has not taken
  buf_out_,    \* what was given and is not known to be written
  socket,      \* socket_, one of Sockets
  pending,     \* started operations of the connection and of its client
  ready,       \* finished operations and posted handlers, FIFO
  io,          \* the thread in io_service.run()
  writing      \* the bytes that the last async_write was given, from
               \* readPtr() on

(* History: only its own updates read it.                                  *)
VARIABLES
  given,       \* the bytes that were appended to buf_out_
  wire         \* the bytes that were written

connection == <<state_, receiving_, sending_, buf_in_, buf_out_, socket, writing,
                given, wire>>

Ids == DOMAIN Sizes
Sockets == {"closed", "opening", "refused", "connected", "broken"}
SocketOps == {"connect", "recv", "send"}
Undefined == "undefined"

(* The bytes of message m.                                                 *)
Data(m) == [i \in 1..Sizes[m] |-> m]

(* The handler of a read or a write that transferred n bytes, and one that *)
(* was posted with message m.                                              *)
Transferred(op, n) == [op |-> op, ec |-> "ok", msg |-> n]
Carrying(op, m) == [op |-> op, ec |-> "ok", msg |-> m]

(* The io thread takes a handler of op that finished with a code in ecs.   *)
Takes(op, ecs) ==
  /\ io = "running"
  /\ ready # <<>>
  /\ Head(ready).op = op
  /\ Head(ready).ec \in ecs

(* socket_.cancel() on an open socket.                                     *)
Cancel(q) ==
  /\ \E aborted \in Aborts(pending \cap SocketOps) : ready' = q \o aborted
  /\ pending' = pending \ SocketOps

-----------------------------------------------------------------------------
(* startReceive(), called with the queue q.                                *)
startReceive(q) ==
  /\ ready' = IF receiving_ THEN q ELSE Append(q, Done("receiveIn", "ok"))
  /\ receiving_' = TRUE

receiveInService ==
  /\ Takes("receiveIn", {"ok"})
  /\ ready' = Tail(ready)
  /\ pending' = pending \cup {"recv"}
  /\ UNCHANGED <<connection, io>>

(* A read: the receive callback takes the content, or leaves the last byte *)
(* of it, a message that is not complete, and the next read is started.    *)
handleReceiveOk ==
  /\ Takes("recv", {"ok"})
  /\ ready' = Tail(ready)
  /\ LET filled == retrieveWriteIndex(buf_in_, Head(ready).msg) IN
     IF Adjusts(filled) /\ Overlaps(filled)
     THEN io' = Undefined /\ UNCHANGED <<connection, pending>>
     ELSE LET adjusted == adjustInternal(filled) IN
          /\ \E left \in 0..1 :
               buf_in_' = retrieveReadIndex(adjusted,
                                            readableCount(adjusted) - left)
          /\ pending' = pending \cup {"recv"}
          /\ UNCHANGED <<state_, receiving_, sending_, buf_out_, socket, io,
                         writing, given, wire>>

(* The peer has closed: a write in flight goes on.                         *)
handleReceiveEof ==
  /\ Takes("recv", {"eof"})
  /\ ready' = Tail(ready)
  /\ state_' = "DISCONNECTED"
  /\ UNCHANGED <<receiving_, sending_, buf_in_, buf_out_, socket, pending, io,
                 writing, given, wire>>

(* A failed read or write.                                                 *)
HandleError ==
  /\ Takes("recv", {"failed", "aborted"}) \/ Takes("send", {"failed", "aborted"})
  /\ Cancel(Tail(ready))
  /\ state_' = "DISCONNECTED"
  /\ UNCHANGED <<receiving_, sending_, buf_in_, buf_out_, socket, io, writing,
                 given, wire>>

(* The append of a message that moves the bytes of a write in flight, or   *)
(* copies between ranges that overlap: undefined, and the model stops.     *)
Unsafe(m) ==
  \/ ~Fits(buf_out_, Sizes[m]) /\ "send" \in pending
  \/ AppendOverlaps(buf_out_, Sizes[m])

sendInServiceUnsafe ==
  /\ Takes("sendIn", {"ok"})
  /\ Unsafe(Head(ready).msg)
  /\ ready' = Tail(ready)
  /\ io' = Undefined
  /\ UNCHANGED <<connection, pending>>

(* The append and, if none is under way, a write of all there is.          *)
sendInService ==
  /\ Takes("sendIn", {"ok"})
  /\ ~Unsafe(Head(ready).msg)
  /\ ready' = Tail(ready)
  /\ buf_out_' = append(buf_out_, Data(Head(ready).msg))
  /\ given' = given \o Data(Head(ready).msg)
  /\ IF ~sending_ /\ state_ = "CONNECTED"
     THEN /\ pending' = pending \cup {"send"}
          /\ sending_' = TRUE
          /\ writing' = readableCount(buf_out_')
     ELSE UNCHANGED <<pending, sending_, writing>>
  /\ UNCHANGED <<state_, receiving_, buf_in_, socket, io, wire>>

(* Mutant of handleSendOk: what was sent stays in the buffer.              *)
SendsAgain ==
  /\ Takes("send", {"ok"})
  /\ ready' = Tail(ready)
  /\ IF readableCount(buf_out_) > 0 /\ state_ = "CONNECTED"
     THEN /\ pending' = pending \cup {"send"}
          /\ writing' = readableCount(buf_out_)
          /\ UNCHANGED sending_
     ELSE sending_' = FALSE /\ UNCHANGED <<pending, writing>>
  /\ UNCHANGED <<state_, receiving_, buf_in_, buf_out_, socket, io, given, wire>>

(* Mutant of handleSendOk: it leaves the rest to the next sendInService(). *)
SendsNoMore ==
  /\ Takes("send", {"ok"})
  /\ ready' = Tail(ready)
  /\ buf_out_' = retrieveReadIndex(buf_out_, Head(ready).msg)
  /\ UNCHANGED <<state_, receiving_, sending_, buf_in_, socket, pending, io,
                 writing, given, wire>>

(* A write has finished: what was appended meanwhile is written next.      *)
handleSendOk ==
  /\ Takes("send", {"ok"})
  /\ ready' = Tail(ready)
  /\ buf_out_' = retrieveReadIndex(buf_out_, Head(ready).msg)
  /\ IF readableCount(buf_out_') > 0 /\ state_ = "CONNECTED"
     THEN /\ pending' = pending \cup {"send"}
          /\ writing' = readableCount(buf_out_')
          /\ UNCHANGED sending_
     ELSE sending_' = FALSE /\ UNCHANGED <<pending, writing>>
  /\ UNCHANGED <<state_, receiving_, buf_in_, socket, io, given, wire>>

(* Mutant of closeInService: the operations are left to go on.             *)
ClosesSoftly ==
  /\ Takes("closeIn", {"ok"})
  /\ socket # "closed"
  /\ ready' = Tail(ready)
  /\ state_' = "DISCONNECTED"
  /\ UNCHANGED <<receiving_, sending_, buf_in_, buf_out_, socket, pending, io,
                 writing, given, wire>>

(* What forceClose() has posted.  The socket is cancelled, not closed.     *)
closeInService ==
  /\ Takes("closeIn", {"ok"})
  /\ socket # "closed"
  /\ Cancel(Tail(ready))
  /\ state_' = "DISCONNECTED"
  /\ UNCHANGED <<receiving_, sending_, buf_in_, buf_out_, socket, io, writing,
                 given, wire>>

(* cancel() of a socket that was never opened throws, out of run().        *)
closeInServiceThrows ==
  /\ Takes("closeIn", {"ok"})
  /\ socket = "closed"
  /\ ready' = Tail(ready)
  /\ io' = "thrown"
  /\ UNCHANGED <<connection, pending>>

-----------------------------------------------------------------------------
(* The operating system.                                                   *)

Finish(op, h) == ready' = Append(ready, h) /\ pending' = pending \ {op}

(* A read returns some of what there is room for.                          *)
OsReadData ==
  /\ "recv" \in pending
  /\ socket = "connected"
  /\ \E n \in 1..writableCount(buf_in_) :
       /\ writableCount(buf_in_) - n \in Short
       /\ n < writableCount(buf_in_) \/ buf_in_.size < MaxIn
       /\ Finish("recv", Transferred("recv", n))
  /\ UNCHANGED <<connection, io>>

OsBreaks ==
  /\ socket = "connected"
  /\ socket' = "broken"
  /\ UNCHANGED <<state_, receiving_, sending_, buf_in_, buf_out_, pending, ready,
                 io, writing, given, wire>>

OsReadFails ==
  /\ "recv" \in pending
  /\ socket = "broken"
  /\ \E ec \in {"eof", "failed"} : Finish("recv", Done("recv", ec))
  /\ UNCHANGED <<connection, io>>

(* A broken connection may still accept bytes.                             *)
OsWriteDone ==
  /\ "send" \in pending
  /\ Finish("send", Transferred("send", writing))
  /\ wire' = wire \o SubSeq(Content(buf_out_), 1, writing)
  /\ UNCHANGED <<state_, receiving_, sending_, buf_in_, buf_out_, socket, io,
                 writing, given>>

OsWriteFails ==
  /\ "send" \in pending
  /\ socket = "broken"
  /\ Finish("send", Done("send", "failed"))
  /\ UNCHANGED <<connection, io>>
=============================================================================
