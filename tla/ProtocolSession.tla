-------------------------- MODULE ProtocolSession --------------------------
(***************************************************************************)
(* A Session of asio-1.28_server_multi_protocol (test.cpp) with the        *)
(* EchoHandler of main().  All its handlers run on the worker threads of   *)
(* one io_context and nothing keeps two of them apart.  The handler of a   *)
(* read shares no data with the others and is one step.  The lambda of     *)
(* safe_write() and the handler of a write both use write_queue_, without  *)
(* a lock: each use of the queue is a step of its own, so that the uses of *)
(* two threads interleave.  A response is named by the number of the frame *)
(* it answers.                                                             *)
(***************************************************************************)
EXTENDS Framing, Functions

CONSTANTS
  Threads,     \* workers_
  MaxBytes,    \* bound: how many bytes the client sends
  MaxFrames    \* bound: it sends no more once so many frames were handled

ASSUME BoundsAssumption == MaxBytes \in Nat /\ MaxFrames \in Nat

VARIABLES
  protocol_,     \* the protocol; one that is registered
  session,       \* how far the session is
  read_buffer_,  \* the first read_pos_ bytes of read_buffer_
  reading,       \* whether the async_read_some is outstanding
  write_queue_,  \* deque of responses
  writing,       \* the responses of the async_writes, in the order of the calls
  ready,         \* handlers that wait for a thread, FIFO
  thread,        \* for each thread, where it is in a handler, and the response
  socket         \* socket_: "open" or "closed"

(* History and environment.                                                *)
VARIABLES
  client,        \* the peer: "there" or "left"
  received,      \* all bytes that were read
  handed,        \* the frames given to process_app_data(), in order
  written,       \* the responses that were written
  reported       \* whether on_session_closed() was called

reads == <<read_buffer_, reading, received, handed>>
writes == <<write_queue_, writing, written>>
vars == <<protocol_, session, reads, writes, ready, thread, socket, client, reported>>

Ids == 1..MaxBytes

(* The lambda that safe_write() posts for response m, the handler of a     *)
(* write that was done, and of one that failed.                            *)
Handler(op, m) == [op |-> op, msg |-> m]
Handlers == [op : {"post", "wrote", "failed"}, msg : Ids \cup {0}]

(* Where a thread is.  The lambda tests write_queue_, pushes its response  *)
(* as the first or behind others, and starts to write.  The handler of a   *)
(* write pops, looks whether there is more and starts to write; that of a  *)
(* failed one clears the queue and closes the socket.                      *)
Entry == [post |-> "test", wrote |-> "pop", failed |-> "clear"]
Positions == {"idle", "test", "first", "behind", "kick", "pop", "look", "clear", "close"}
Nothing == [at |-> "idle", msg |-> 0]

(* Constructed, start() done, reading; and the ends of the program: a call *)
(* outside the buffer, front() or pop_front() of an empty queue or a write *)
(* of a response that is gone, an exception that no worker catches.        *)
Live == session \in {"new", "posted", "open"}
SessionStates == {"new", "posted", "open", "overread", "undefined", "terminated"}

TypeOK ==
  /\ protocol_ \in Protocols
  /\ session \in SessionStates
  /\ read_buffer_ \in Seq(Bytes) /\ Len(read_buffer_) <= BufferSize
  /\ reading \in BOOLEAN
  /\ write_queue_ \in Seq(Ids)
  /\ writing \in Seq(Ids)
  /\ ready \in Seq(Handlers)
  /\ thread \in [Threads -> [at : Positions, msg : Ids \cup {0}]]
  /\ socket \in {"open", "closed"}
  /\ client \in {"there", "left"}
  /\ received \in Seq(Bytes)
  /\ handed \in Seq(Seq(Bytes))
  /\ written \subseteq Ids
  /\ reported \in BOOLEAN

Init ==
  /\ protocol_ \in Protocols
  /\ session = "new"
  /\ read_buffer_ = <<>>
  /\ reading = FALSE
  /\ write_queue_ = <<>>
  /\ writing = <<>>
  /\ ready = <<>>
  /\ thread = [t \in Threads |-> Nothing]
  /\ socket = "open"
  /\ client = "there"
  /\ received = <<>>
  /\ handed = <<>>
  /\ written = {}
  /\ reported = FALSE

(* Some worker can run the next handler.                                   *)
Idle == Live /\ \E t \in Threads : thread[t].at = "idle"

-----------------------------------------------------------------------------
(* start(): on_session_created() prints remote_endpoint(), which throws    *)
(* for a client that has reset the connection.                             *)
start ==
  /\ session = "new"
  /\ session' = "posted"
  /\ UNCHANGED <<protocol_, reads, writes, ready, thread, socket, client, reported>>

StartThrows ==
  /\ session = "new" /\ client = "left"
  /\ session' = "terminated"
  /\ UNCHANGED <<protocol_, reads, writes, ready, thread, socket, client, reported>>

do_read ==
  /\ session = "posted" /\ Idle
  /\ session' = "open"
  /\ reading' = TRUE
  /\ UNCHANGED <<protocol_, read_buffer_, received, handed, writes, ready, thread,
                 socket, client, reported>>

(* Mutant of Room: read_pos_ is not subtracted.                            *)
WholeBuffer == BufferSize

Room == BufferSize - Len(read_buffer_)

(* The handler of a read that brought some bytes: the frames are handed to *)
(* the EchoHandler, each response is posted, what was processed is moved   *)
(* out of the buffer, and the next read begins.                            *)
Handle(chunk) ==
  LET data == read_buffer_ \o chunk
      result == process_data(protocol_, data)
  IN  /\ reading /\ socket = "open" /\ Idle
      /\ received' = received \o chunk
      /\ handed' = handed \o result.frames
      /\ IF result.overread
         THEN session' = "overread" /\ UNCHANGED <<read_buffer_, ready>>
         ELSE /\ read_buffer_' = SubSeq(data, result.processed + 1, Len(data))
              /\ ready' = ready \o [k \in DOMAIN result.frames |->
                                      Handler("post", Len(handed) + k)]
              /\ UNCHANGED session
      /\ UNCHANGED <<protocol_, reading, writes, thread, socket, client, reported>>

Received ==
  /\ client = "there" /\ Len(handed) < MaxFrames
  /\ \E n \in 1..Room :
       /\ Len(received) + n <= MaxBytes
       /\ \E chunk \in [1..n -> Bytes] : Handle(chunk)

(* With no room left the read is of no bytes, and is done at once.         *)
ReceivedNothing == Room = 0 /\ Handle(<<>>)

(* Mutant of ReceiveFailed: the end of the stream is not reported.         *)
EndsSilently ==
  /\ reading /\ Idle
  /\ socket = "closed" \/ (client = "left" /\ Room > 0)
  /\ reading' = FALSE
  /\ UNCHANGED <<protocol_, session, read_buffer_, received, handed, writes, ready,
                 thread, socket, client, reported>>

(* The end of the stream or an error, which a read of no bytes does not    *)
(* see on an open socket.                                                  *)
ReceiveFailed ==
  /\ reading /\ Idle
  /\ socket = "closed" \/ (client = "left" /\ Room > 0)
  /\ reading' = FALSE
  /\ reported' = TRUE
  /\ UNCHANGED <<protocol_, session, read_buffer_, received, handed, writes, ready,
                 thread, socket, client>>

-----------------------------------------------------------------------------
(* The handlers that use write_queue_, on thread t.                        *)

Step(t, place, m) == thread' = [thread EXCEPT ![t] = [at |-> place, msg |-> m]]
Leave(t) == Step(t, "idle", 0)

Take(t) ==
  /\ Live /\ thread[t].at = "idle" /\ ready # <<>>
  /\ Step(t, Entry[Head(ready).op], Head(ready).msg)
  /\ ready' = Tail(ready)
  /\ UNCHANGED <<protocol_, session, reads, writes, socket, client, reported>>

(* write_in_progress.  prepare_send() comes before the test and touches    *)
(* nothing that is shared.                                                 *)
Tests(t) ==
  /\ Live /\ thread[t].at = "test"
  /\ Step(t, IF write_queue_ = <<>> THEN "first" ELSE "behind", thread[t].msg)
  /\ UNCHANGED <<protocol_, session, reads, writes, ready, socket, client, reported>>

Pushes(t) ==
  /\ Live /\ thread[t].at \in {"first", "behind"}
  /\ write_queue_' = Append(write_queue_, thread[t].msg)
  /\ Step(t, IF thread[t].at = "first" THEN "kick" ELSE "idle", 0)
  /\ UNCHANGED <<protocol_, session, reads, writing, written, ready, socket, client,
                 reported>>

start_writing(t) ==
  /\ Live /\ thread[t].at = "kick"
  /\ IF write_queue_ = <<>>
     THEN session' = "undefined" /\ UNCHANGED writing
     ELSE writing' = Append(writing, Head(write_queue_)) /\ UNCHANGED session
  /\ Leave(t)
  /\ UNCHANGED <<protocol_, reads, write_queue_, written, ready, socket, client, reported>>

WrotePops(t) ==
  /\ Live /\ thread[t].at = "pop"
  /\ IF write_queue_ = <<>>
     THEN session' = "undefined" /\ UNCHANGED write_queue_
     ELSE write_queue_' = Tail(write_queue_) /\ UNCHANGED session
  /\ Step(t, "look", 0)
  /\ UNCHANGED <<protocol_, reads, writing, written, ready, socket, client, reported>>

(* Mutant of WroteLooks: the rest of the queue is left where it is.        *)
WroteStops(t) ==
  /\ Live /\ thread[t].at = "look"
  /\ Leave(t)
  /\ UNCHANGED <<protocol_, session, reads, writes, ready, socket, client, reported>>

WroteLooks(t) ==
  /\ Live /\ thread[t].at = "look"
  /\ Step(t, IF write_queue_ = <<>> THEN "idle" ELSE "kick", 0)
  /\ UNCHANGED <<protocol_, session, reads, writes, ready, socket, client, reported>>

WriteFailed(t) ==
  /\ Live /\ thread[t].at = "clear"
  /\ reported' = TRUE
  /\ write_queue_' = <<>>
  /\ Step(t, "close", 0)
  /\ UNCHANGED <<protocol_, session, reads, writing, written, ready, socket, client>>

Closes(t) ==
  /\ Live /\ thread[t].at = "close"
  /\ socket' = "closed"
  /\ Leave(t)
  /\ UNCHANGED <<protocol_, session, reads, writes, ready, client, reported>>

Worker(t) ==
  \/ Take(t) \/ Tests(t) \/ Pushes(t) \/ start_writing(t) \/ WrotePops(t)
  \/ WroteLooks(t) \/ WriteFailed(t) \/ Closes(t)

-----------------------------------------------------------------------------
(* The operating system and the client.                                    *)

(* The oldest write is done.  It reads from the response in write_queue_.  *)
OsWriteDone ==
  /\ Live /\ writing # <<>> /\ socket = "open"
  /\ IF Head(writing) \in Range(write_queue_)
     THEN /\ written' = written \cup {Head(writing)}
          /\ writing' = Tail(writing)
          /\ ready' = Append(ready, Handler("wrote", 0))
          /\ UNCHANGED session
     ELSE session' = "undefined" /\ UNCHANGED <<written, writing, ready>>
  /\ UNCHANGED <<protocol_, reads, write_queue_, thread, socket, client, reported>>

OsWriteFails ==
  /\ Live /\ writing # <<>> /\ (socket = "closed" \/ client = "left")
  /\ writing' = Tail(writing)
  /\ ready' = Append(ready, Handler("failed", 0))
  /\ UNCHANGED <<protocol_, session, reads, write_queue_, written, thread, socket,
                 client, reported>>

ClientLeaves ==
  /\ Live /\ client = "there"
  /\ client' = "left"
  /\ UNCHANGED <<protocol_, session, reads, writes, ready, thread, socket, reported>>

Next ==
  \/ start \/ StartThrows \/ do_read \/ Received \/ ReceivedNothing \/ ReceiveFailed
  \/ \E t \in Threads : Worker(t)
  \/ OsWriteDone \/ OsWriteFails \/ ClientLeaves

Spec == Init /\ [][Next]_vars

(* The workers are scheduled, and the operating system ends writes and     *)
(* reports a client that has left.  The client need not send or leave.     *)
Fairness ==
  /\ WF_vars(start \/ StartThrows)
  /\ WF_vars(do_read)
  /\ WF_vars(ReceiveFailed)
  /\ \A t \in Threads : WF_vars(Worker(t))
  /\ WF_vars(OsWriteDone \/ OsWriteFails)

FairSpec == Spec /\ Fairness

-----------------------------------------------------------------------------
(* However the stream was cut into reads, the frames handed over and those *)
(* still in read_buffer_ are the frames of the whole stream, and what is   *)
(* left is the beginning of the next.  process_data() reads behind the     *)
(* buffer only for a length so close to 2^32 that 4 + payload_length       *)
(* wraps.                                                                  *)
SplitsTheStream ==
  LET all == Split(protocol_, received)
      rest == Split(protocol_, read_buffer_)
  IN  IF session = "overread"
      THEN protocol_ = "binary" /\ payload_length(all.cur) >= Width - Header
      ELSE all.frames = handed \o rest.frames /\ all.cur = rest.cur

(* read_buffer_ is full of a frame that does not fit in it.                *)
Full == Room = 0 /\ Split(protocol_, received).cur = read_buffer_

(* The EchoHandler is told that the client has left, unless the session is *)
(* then reading no bytes for ever because of a frame that is too long.     *)
LeaveIsReportedUnlessFull == client = "left" ~> reported \/ Full \/ ~Live

(* Thread t has used write_queue_ and is not done with it; and two threads *)
(* are so at the same time.                                                *)
Inside(t) == thread[t].at \in {"first", "behind", "kick", "look", "close"}
Meet == \E t, u \in Threads : t # u /\ Inside(t) /\ Inside(u)

(* As long as no two threads meet in write_queue_, the response to every   *)
(* frame that was handled is written, unless the client left, start()      *)
(* threw or process_data() read behind the buffer.                         *)
ResponseIsWritten ==
  []~Meet => \A n \in Ids :
    Len(handed) >= n ~> n \in written \/ client = "left"
                        \/ session \in {"overread", "terminated"}
=============================================================================
