------------------------ MODULE MultiSessionProofs ------------------------
(***************************************************************************)
(* Proofs about MultiSession for any number of requests: its type          *)
(* invariant, that an entry of session_stats_ goes with the read loop, and *)
(* that a client that waits for each reply gets the replies in order and   *)
(* never makes the two threads meet in write_queue_.                       *)
(***************************************************************************)
EXTENDS MultiSession, IoContextLemmas, SequenceTheorems

Handlers == [op : {"recv", "send"}, ec : Codes, msg : {0}]
RecvOk == Done("recv", "ok")
SendOk == Done("send", "ok")

(* The types, but for the Boolean variables.                               *)
Shape ==
  /\ write_queue_ \in Seq(Ids)
  /\ active_sessions_ \in 0..SizeMax
  /\ socket \in {"open", "closed"}
  /\ reads \in 0..1
  /\ writes \in Seq(Ids)
  /\ ready \in Seq(Handlers)
  /\ posted \in Seq(0..MaxRequests)
  /\ main \in MainStates
  /\ pool \in PoolStates
  /\ server \in {"accepting", "running", "stopped", "destroyed", "terminated"}
  /\ client \in {"up", "gone"}
  /\ requests \in 0..MaxRequests
  /\ wire \in Seq(Ids)
  /\ closedCalls \in Nat

Flags == session_stats_ \in BOOLEAN /\ wip \in BOOLEAN /\ patient \in BOOLEAN

(* Before start() nothing was done for the session.                        *)
Fresh ==
  server = "accepting" =>
    /\ posted = <<>> /\ ready = <<>> /\ reads = 0 /\ writes = <<>>
    /\ active_sessions_ = 0 /\ session_stats_ = FALSE
    /\ main = "idle" /\ pool = "idle" /\ requests = 0

(* The read loop: the lambda that enters it, a read, or its handler, one   *)
(* of them at most, and one while there is an entry in session_stats_.     *)
OneRead ==
  /\ \A i \in DOMAIN posted : posted[i] = 0 => posted = <<0>>
  /\ Single(ready, {"recv"})
  /\ posted = <<0>> => reads = 0
  /\ Queued(ready, {"recv"}) => reads = 0 /\ posted # <<0>>
  /\ session_stats_ => posted = <<0>> \/ reads = 1 \/ Queued(ready, {"recv"})
  /\ RecvOk \in ToSet(ready) => requests < MaxRequests

(* What a thread has seen of a queue that only it takes from.              *)
Seen ==
  /\ main = "kick" => write_queue_ # <<>>
  /\ pool \in {"test", "push"} => posted # <<>> /\ Head(posted) # 0

(* The phases of a request of a patient client.  The request was not read, *)
(* or its reply is known to be written.                                    *)
Between ==
  /\ requests = Len(wire)
  /\ write_queue_ = <<>> /\ writes = <<>> /\ posted \in {<<>>, <<0>>}
  /\ pool = "idle" /\ main \in {"idle", "test"} /\ ~Queued(ready, {"send"})

(* The request was read and no reply is on its way back.                   *)
Replying ==
  requests = Len(wire) + 1 /\ RecvOk \notin ToSet(ready)

Answering ==
  /\ Replying /\ write_queue_ = <<>> /\ writes = <<>> /\ posted = <<requests>>
  /\ pool \in {"idle", "test", "push"} /\ (pool = "push" => ~wip)
  /\ main = "idle" /\ ~Queued(ready, {"send"})

Writing ==
  /\ Replying /\ write_queue_ = <<requests>> /\ posted = <<>>
  /\ \/ pool = "kick" /\ writes = <<>>
     \/ pool = "idle" /\ writes = <<requests>>
  /\ main = "idle" /\ ~Queued(ready, {"send"})

(* The reply was written, and stays in the queue until its handler has     *)
(* removed it.                                                             *)
Written ==
  /\ requests = Len(wire)
  /\ write_queue_ = <<requests>> /\ writes = <<>> /\ posted = <<>>
  /\ \/ /\ pool = "sent" /\ main = "idle" /\ ~Queued(ready, {"send"})
        /\ RecvOk \notin ToSet(ready)
     \/ /\ pool = "idle" /\ main = "idle" /\ Queued(ready, {"send"})
        /\ \A h \in ToSet(ready) : h.op = "send" => h = SendOk
     \/ pool = "idle" /\ main = "pop" /\ ~Queued(ready, {"send"})

(* The write has failed, for a client that was gone.                       *)
Failing ==
  /\ Replying /\ client = "gone"
  /\ write_queue_ = <<requests>> /\ writes = <<>> /\ posted = <<>> /\ pool = "idle"
  /\ \/ main = "idle" /\ Queued(ready, {"send"}) /\ SendOk \notin ToSet(ready)
     \/ main = "clear" /\ ~Queued(ready, {"send"})

(* The reply was dropped, and the socket is closed or about to be.         *)
Lost ==
  /\ Replying /\ client = "gone"
  /\ write_queue_ = <<>> /\ writes = <<>> /\ posted = <<>>
  /\ pool = "idle" /\ main \in {"idle", "close"} /\ ~Queued(ready, {"send"})

(* No handler of a write stands behind a request.                          *)
ReplyFirst == {p \in Handlers \X Handlers : p[1] = RecvOk => p[2].op # "send"}

Turns ==
  /\ \A i \in DOMAIN wire : wire[i] = i
  /\ Single(ready, {"send"}) /\ Pairs(ready, ReplyFirst)
  /\ socket = "closed" => Lost
  /\ Between \/ Answering \/ Writing \/ Written \/ Failing \/ Lost

IInv == Flags /\ Shape /\ Fresh /\ OneRead /\ Seen /\ (patient => Turns)

-----------------------------------------------------------------------------
(* The handlers that are made.                                             *)
LEMMA Handles ==
  /\ \A op \in {"recv", "send"}, ec \in Codes :
       Done(op, ec) \in Handlers /\ Done(op, ec).op = op /\ Done(op, ec).ec = ec
  /\ {"ok", "eof", "aborted", "failed"} = Codes
  /\ \A h \in Handlers : h = Done(h.op, h.ec) /\ h.op \in {"recv", "send"}
BY DEF Handlers, Done, Codes

(* What the main thread finds in the first handler and leaves behind it.   *)
LEMMA Taking ==
  ASSUME Shape, ready # <<>>
  PROVE  /\ Head(ready) \in Handlers /\ Tail(ready) \in Seq(Handlers)
         /\ ToSet(ready) = {Head(ready)} \cup ToSet(Tail(ready))
         /\ Head(ready) \in ToSet(ready)
         /\ \A op : Queued(ready, {op}) <=> Queued(Tail(ready), {op}) \/ Head(ready).op = op
         /\ \A op : Single(ready, {op}) => Single(Tail(ready), {op})
         /\ \A op : Single(ready, {op}) /\ Head(ready).op = op => ~Queued(Tail(ready), {op})
         /\ Pairs(ready, ReplyFirst) => Pairs(Tail(ready), ReplyFirst)
<1>1. ready \in Seq(Handlers)
  BY DEF Shape
<1>2. ASSUME NEW op
      PROVE  /\ Queued(ready, {op}) <=> Queued(Tail(ready), {op}) \/ Head(ready).op = op
             /\ Single(ready, {op}) => Single(Tail(ready), {op})
             /\ Single(ready, {op}) /\ Head(ready).op = op => ~Queued(Tail(ready), {op})
  BY <1>1, TailFacts
<1>3. /\ Head(ready) \in Handlers /\ Tail(ready) \in Seq(Handlers)
      /\ ToSet(ready) = {Head(ready)} \cup ToSet(Tail(ready))
      /\ Pairs(ready, ReplyFirst) => Pairs(Tail(ready), ReplyFirst)
  BY <1>1, FrontFacts
<1> QED
  BY <1>2, <1>3

(* What a handler h that is added to the queue q changes.                  *)
LEMMA Adding ==
  ASSUME NEW q \in Seq(Handlers), NEW h \in Handlers
  PROVE  /\ Append(q, h) \in Seq(Handlers)
         /\ ToSet(Append(q, h)) = ToSet(q) \cup {h}
         /\ \A op : Queued(Append(q, h), {op}) <=> Queued(q, {op}) \/ h.op = op
         /\ \A op : Single(q, {op}) /\ (h.op # op \/ ~Queued(q, {op}))
                      => Single(Append(q, h), {op})
         /\ Pairs(q, ReplyFirst) /\ (RecvOk \notin ToSet(q) \/ h.op # "send")
              => Pairs(Append(q, h), ReplyFirst)
<1>1. ASSUME NEW op
      PROVE  /\ Queued(Append(q, h), {op}) <=> Queued(q, {op}) \/ h.op = op
             /\ Single(q, {op}) /\ (h.op # op \/ ~Queued(q, {op}))
                  => Single(Append(q, h), {op})
  BY AppendFacts
<1>2. ToSet(q) \subseteq Handlers
  BY DEF ToSet
<1>3. /\ Append(q, h) \in Seq(Handlers)
      /\ ToSet(Append(q, h)) = ToSet(q) \cup {h}
      /\ Pairs(q, ReplyFirst) /\ (\A g \in ToSet(q) : <<g, h>> \in ReplyFirst)
           => Pairs(Append(q, h), ReplyFirst)
  BY BackFacts
<1>4. RecvOk \notin ToSet(q) \/ h.op # "send" => \A g \in ToSet(q) : <<g, h>> \in ReplyFirst
  BY <1>2 DEF ReplyFirst
<1> QED
  BY <1>1, <1>3, <1>4

(* What close() adds: the aborted read, and an aborted handler for each    *)
(* write that was started.                                                 *)
AbortedReads == [i \in 1..reads |-> Done("recv", "aborted")]
AbortedWrites == [i \in DOMAIN writes |-> Done("send", "aborted")]

LEMMA Closing ==
  ASSUME Shape, SendFailedCloses
  PROVE  /\ ready' \in Seq(Handlers)
         /\ ToSet(ready') \subseteq ToSet(ready) \cup
              {Done("recv", "aborted"), Done("send", "aborted")}
         /\ Queued(ready', {"recv"}) <=> Queued(ready, {"recv"}) \/ reads = 1
         /\ Single(ready, {"recv"}) /\ ~(Queued(ready, {"recv"}) /\ reads = 1)
              => Single(ready', {"recv"})
         /\ writes = <<>> =>
              /\ Queued(ready', {"send"}) <=> Queued(ready, {"send"})
              /\ Single(ready, {"send"}) => Single(ready', {"send"})
              /\ Pairs(ready, ReplyFirst) => Pairs(ready', ReplyFirst)
<1> DEFINE a == AbortedReads  b == AbortedWrites
<1>1. ready \in Seq(Handlers) /\ reads \in 0..1 /\ writes \in Seq(Ids)
  BY DEF Shape
<1>2. ready' = (ready \o a) \o b
  BY DEF SendFailedCloses, AbortedReads, AbortedWrites
<1>3. /\ a \in Seq(Handlers) /\ ToSet(a) \subseteq {Done("recv", "aborted")}
      /\ DOMAIN a = 1..reads /\ \A i \in DOMAIN a : a[i].op = "recv"
  <2>1. Done("recv", "aborted") \in Handlers /\ Done("recv", "aborted").op = "recv"
    BY Handles
  <2>2. reads \in Nat /\ DOMAIN a = 1..reads /\ \A i \in 1..reads : a[i] = Done("recv", "aborted")
    BY <1>1 DEF AbortedReads
  <2>3. a \in Seq(Handlers)
    BY <1>1, <2>1 DEF AbortedReads
  <2> QED
    BY <2>1, <2>2, <2>3 DEF ToSet
<1>4. /\ b \in Seq(Handlers) /\ ToSet(b) \subseteq {Done("send", "aborted")}
      /\ DOMAIN b = DOMAIN writes /\ \A i \in DOMAIN b : b[i].op = "send"
  <2>1. Done("send", "aborted") \in Handlers /\ Done("send", "aborted").op = "send"
    BY Handles
  <2>2. DOMAIN b = DOMAIN writes /\ \A i \in DOMAIN writes : b[i] = Done("send", "aborted")
    BY DEF AbortedWrites
  <2>3. b \in Seq(Handlers)
    <3>1. DOMAIN writes = 1..Len(writes) /\ Len(writes) \in Nat
      BY <1>1
    <3> QED
      BY <2>1, <3>1 DEF AbortedWrites
  <2> QED
    BY <2>1, <2>2, <2>3 DEF ToSet
<1> HIDE DEF a, b
<1>5. /\ ready \o a \in Seq(Handlers) /\ ToSet(ready \o a) = ToSet(ready) \cup ToSet(a)
      /\ (ready \o a) \o b \in Seq(Handlers)
      /\ ToSet((ready \o a) \o b) = ToSet(ready \o a) \cup ToSet(b)
  BY <1>1, <1>3, <1>4, JoinFacts
<1>6. /\ ~Queued(a, {"send"}) /\ Single(a, {"send"}) /\ Single(a, {"recv"})
      /\ Queued(a, {"recv"}) <=> reads = 1
  BY <1>1, <1>3 DEF Queued, Single
<1>7. /\ ~Queued(b, {"recv"}) /\ Single(b, {"recv"})
      /\ writes = <<>> => ~Queued(b, {"send"}) /\ Single(b, {"send"})
  BY <1>1, <1>4 DEF Queued, Single
<1>8. ASSUME NEW S
      PROVE  /\ Queued(ready \o a, S) <=> Queued(ready, S) \/ Queued(a, S)
             /\ Single(ready, S) /\ Single(a, S) /\ ~(Queued(ready, S) /\ Queued(a, S))
                  => Single(ready \o a, S)
             /\ Queued((ready \o a) \o b, S) <=> Queued(ready \o a, S) \/ Queued(b, S)
             /\ Single(ready \o a, S) /\ Single(b, S) /\ ~(Queued(ready \o a, S) /\ Queued(b, S))
                  => Single((ready \o a) \o b, S)
  <2>1. PICK c \in Seq(Handlers) : c = ready \o a
    BY <1>5
  <2>2. /\ Queued(ready \o a, S) <=> Queued(ready, S) \/ Queued(a, S)
        /\ Single(ready, S) /\ Single(a, S) /\ ~(Queued(ready, S) /\ Queued(a, S))
             => Single(ready \o a, S)
    BY <1>1, <1>3, ConcatFacts
  <2>3. /\ Queued(c \o b, S) <=> Queued(c, S) \/ Queued(b, S)
        /\ Single(c, S) /\ Single(b, S) /\ ~(Queued(c, S) /\ Queued(b, S))
             => Single(c \o b, S)
    BY <1>4, <2>1, ConcatFacts
  <2> QED
    BY <2>1, <2>2, <2>3
<1>9. ASSUME writes = <<>>, Pairs(ready, ReplyFirst)
      PROVE  Pairs((ready \o a) \o b, ReplyFirst)
  <2>1. \A g \in Handlers, h \in ToSet(a) : <<g, h>> \in ReplyFirst
    <3>1. Done("recv", "aborted") \in Handlers /\ Done("recv", "aborted").op = "recv"
      BY Handles
    <3> QED
      BY <1>3, <3>1 DEF ReplyFirst
  <2>2. ToSet(b) = {}
    BY <1>4, <1>9 DEF ToSet
  <2>3. PICK c \in Seq(Handlers) : c = ready \o a
    BY <1>5
  <2>4. Pairs(c, ReplyFirst)
    BY <1>1, <1>3, <1>9, <2>1, <2>3, JoinFacts
  <2>5. Pairs(c \o b, ReplyFirst)
    BY <1>4, <2>2, <2>4, JoinFacts
  <2> QED
    BY <2>3, <2>5
<1>10. Pairs(ready, ReplyFirst) /\ writes = <<>> => Pairs(ready', ReplyFirst)
  BY <1>2, <1>9
<1>11. /\ Queued(ready', {"recv"}) <=> Queued(ready, {"recv"}) \/ reads = 1
       /\ Single(ready, {"recv"}) /\ ~(Queued(ready, {"recv"}) /\ reads = 1)
            => Single(ready', {"recv"})
  BY <1>2, <1>6, <1>7, <1>8
<1>12. writes = <<>> =>
         /\ Queued(ready', {"send"}) <=> Queued(ready, {"send"})
         /\ Single(ready, {"send"}) => Single(ready', {"send"})
  BY <1>2, <1>6, <1>7, <1>8
<1>13. /\ ready' \in Seq(Handlers)
       /\ ToSet(ready') \subseteq ToSet(ready) \cup
            {Done("recv", "aborted"), Done("send", "aborted")}
  BY <1>2, <1>3, <1>4, <1>5
<1> QED
  BY <1>10, <1>11, <1>12, <1>13

-----------------------------------------------------------------------------
(* do_read() and do_write(), on an open socket and on a closed one.        *)
LEMMA Reads ==
  ASSUME Shape, NEW q \in Seq(Handlers), do_read(q), reads = 0
  PROVE  /\ ready' \in Seq(Handlers) /\ reads' \in 0..1
         /\ \/ ready' = q /\ reads' = 1 /\ socket # "closed"
            \/ ready' = Append(q, Done("recv", "failed")) /\ reads' = 0 /\ socket = "closed"
<1>1. Done("recv", "failed") \in Handlers
  BY Handles
<1>2. Append(q, Done("recv", "failed")) \in Seq(Handlers)
  BY <1>1, Adding
<1>3. CASE socket = "closed"
  <2>1. ready' = Append(q, Done("recv", "failed")) /\ reads' = 0
    BY <1>3 DEF do_read
  <2> QED
    BY <1>2, <1>3, <2>1
<1>4. CASE socket # "closed"
  <2>1. ready' = q /\ reads' = 1
    BY <1>4 DEF do_read
  <2> QED
    BY <1>4, <2>1
<1> QED
  BY <1>3, <1>4

LEMMA Writes ==
  ASSUME Shape, do_write, write_queue_ # <<>>
  PROVE  /\ ready' \in Seq(Handlers) /\ writes' \in Seq(Ids)
         /\ \/ /\ ready' = ready /\ socket # "closed"
               /\ writes' = Append(writes, Head(write_queue_))
            \/ /\ ready' = Append(ready, Done("send", "failed")) /\ socket = "closed"
               /\ writes' = writes
<1>1. Done("send", "failed") \in Handlers
  BY Handles
<1>2. ready \in Seq(Handlers) /\ write_queue_ \in Seq(Ids) /\ writes \in Seq(Ids)
  BY DEF Shape
<1>3. Append(ready, Done("send", "failed")) \in Seq(Handlers)
  BY <1>1, <1>2, Adding
<1>4. Head(write_queue_) \in Ids
  BY <1>2
<1>5. CASE socket = "closed"
  <2>1. ready' = Append(ready, Done("send", "failed")) /\ writes' = writes
    BY <1>5 DEF do_write
  <2> QED
    BY <1>2, <1>3, <1>5, <2>1
<1>6. CASE socket # "closed"
  <2>1. writes' = Append(writes, Head(write_queue_)) /\ ready' = ready
    BY <1>6 DEF do_write
  <2> QED
    BY <1>2, <1>4, <1>6, <2>1
<1> QED
  BY <1>5, <1>6

(* The main thread takes a handler of a read, and there is no other.       *)
LEMMA TakesRead ==
  ASSUME Shape, OneRead, Takes("recv")
  PROVE  /\ ready # <<>> /\ Head(ready).op = "recv" /\ Tail(ready) \in Seq(Handlers)
         /\ reads = 0 /\ posted # <<0>> /\ ~Queued(Tail(ready), {"recv"})
         /\ \A i \in DOMAIN posted : posted[i] # 0
         /\ Head(ready).ec = "ok" => requests + 1 \in Ids
<1>1. ready # <<>> /\ Head(ready).op = "recv"
  BY DEF Takes
<1>2. /\ Tail(ready) \in Seq(Handlers) /\ Head(ready) \in Handlers
      /\ Head(ready) \in ToSet(ready)
      /\ Queued(ready, {"recv"}) /\ ~Queued(Tail(ready), {"recv"})
  BY <1>1, Taking DEF OneRead
<1>3. Head(ready).ec = "ok" => Head(ready) = RecvOk
  BY <1>1, <1>2, Handles DEF RecvOk
<1>4. Head(ready).ec = "ok" => requests + 1 \in Ids
  <2>1. MaxRequests \in Nat /\ requests \in 0..MaxRequests
    BY MaxRequestsAssumption DEF Shape
  <2> QED
    BY <1>2, <1>3, <2>1 DEF OneRead, Ids
<1> QED
  BY <1>1, <1>2, <1>4 DEF OneRead

(* The handler that is told of the session.                                *)
LEMMA Told ==
  ASSUME Shape, Fresh,
         \/ server = "accepting" /\ on_session_created
         \/ on_session_closed
         \/ process
         \/ UNCHANGED handler
  PROVE  active_sessions_' \in 0..SizeMax /\ closedCalls' \in Nat
BY SizeMaxAssumption DEF Shape, Fresh, on_session_created, on_session_closed, process, handler

LEMMA ShapeStep == Shape /\ Fresh /\ OneRead /\ Seen /\ [Next]_vars => Shape'
<1> SUFFICES ASSUME Shape, Fresh, OneRead, Seen, [Next]_vars
             PROVE  Shape'
  OBVIOUS
<1> DEFINE Rest == /\ write_queue_' \in Seq(Ids) /\ socket' \in {"open", "closed"}
                   /\ reads' \in 0..1 /\ writes' \in Seq(Ids)
                   /\ ready' \in Seq(Handlers) /\ posted' \in Seq(0..MaxRequests)
                   /\ main' \in MainStates /\ pool' \in PoolStates
                   /\ server' \in {"accepting", "running", "stopped", "destroyed", "terminated"}
                   /\ client' \in {"up", "gone"} /\ requests' \in 0..MaxRequests
                   /\ wire' \in Seq(Ids)
<1>0. active_sessions_' \in 0..SizeMax /\ closedCalls' \in Nat
  <2>1. \/ server = "accepting" /\ on_session_created
        \/ on_session_closed
        \/ process
        \/ UNCHANGED handler
    BY DEF Next, MainThread, PoolThread, Environment, vars, start, StartThrows, Received,
           ReceiveFailed, Sent, SendFailed, SentPops, SentTests, SentWritesNext,
           SendFailedClears, SendFailedCloses, PoolReads, PoolTakes,
           PoolTests, PoolPushes, PoolWrites,
           PoolCompletes, Stop, Destroy, OsReadData, ClientLeaves, OsReadFails,
           OsWriteDone, OsWriteFails
  <2> QED
    BY <2>1, Told
<1>00. SUFFICES Rest
  BY <1>0 DEF Shape
<1> USE DEF Shape
<1>1. CASE start
  <2>1. posted' \in Seq(0..MaxRequests)
    BY <1>1, MaxRequestsAssumption DEF start
  <2> QED
    BY <1>1, <2>1 DEF start, queue, threads, peer
<1>2. CASE StartThrows
  BY <1>2 DEF StartThrows, queue, io, threads, peer
<1>3. CASE Received
  <2>1. /\ Takes("recv") /\ Head(ready).ec = "ok" /\ requests' = requests + 1
        /\ posted' = Append(posted, requests + 1) /\ do_read(Tail(ready))
        /\ UNCHANGED <<write_queue_, socket, writes, main, pool, server, client, wire>>
    BY <1>3 DEF Received, Takes, threads, queue
  <2>2. reads = 0 /\ Tail(ready) \in Seq(Handlers) /\ requests + 1 \in Ids
    BY <2>1, TakesRead
  <2>3. ready' \in Seq(Handlers) /\ reads' \in 0..1
    BY <2>1, <2>2, Reads
  <2>4. requests' \in 0..MaxRequests /\ posted' \in Seq(0..MaxRequests)
    BY <2>1, <2>2, MaxRequestsAssumption DEF Ids
  <2> QED
    BY <2>1, <2>3, <2>4
<1>4. CASE ReceiveFailed
  <2>1. Takes("recv") /\ ready' = Tail(ready)
    BY <1>4 DEF ReceiveFailed
  <2>2. ready' \in Seq(Handlers)
    BY <2>1, TakesRead
  <2> QED
    BY <1>4, <2>2 DEF ReceiveFailed, Takes, queue, threads
<1>5. CASE Sent \/ SendFailed
  <2>1. ready # <<>> /\ ready' = Tail(ready) /\ main' \in MainStates
    BY <1>5 DEF Sent, SendFailed, Takes, MainStates
  <2>2. ready' \in Seq(Handlers)
    BY <2>1, Taking
  <2> QED
    BY <1>5, <2>1, <2>2 DEF Sent, SendFailed, Takes, queue
<1>6. CASE SentPops
  <2>1. main' \in MainStates
    BY <1>6 DEF SentPops, MainStates
  <2>2. \/ write_queue_' = write_queue_
        \/ write_queue_ # <<>> /\ write_queue_' = Tail(write_queue_)
    BY <1>6 DEF SentPops
  <2>3. write_queue_ # <<>> => Tail(write_queue_) \in Seq(Ids)
    OBVIOUS
  <2>4. write_queue_' \in Seq(Ids)
    BY <2>2, <2>3, Zenon
  <2> QED
    BY <1>6, <2>1, <2>4 DEF SentPops, io, peer
<1>7. CASE SentTests
  <2>1. main' \in MainStates
    BY <1>7 DEF SentTests, MainStates
  <2> QED
    BY <1>7, <2>1 DEF SentTests, queue, io, peer
<1>8. CASE SentWritesNext
  <2>1. do_write /\ write_queue_ # <<>> /\ main' = "idle"
    BY <1>8 DEF SentWritesNext, Seen
  <2>2. ready' \in Seq(Handlers) /\ writes' \in Seq(Ids)
    BY <2>1, Writes
  <2> QED
    BY <1>8, <2>1, <2>2 DEF SentWritesNext, MainStates, queue, peer
<1>9. CASE SendFailedCloses
  <2>1. ready' \in Seq(Handlers)
    BY <1>9, Closing
  <2> QED
    BY <1>9, <2>1 DEF SendFailedCloses, MainStates, queue, peer
<1>9a. CASE SendFailedClears
  BY <1>9a DEF SendFailedClears, MainStates, io, peer
<1>10. CASE PoolReads
  <2>1. posted # <<>> /\ Head(posted) = 0 /\ posted' = Tail(posted) /\ do_read(ready)
    BY <1>10 DEF PoolReads
  <2>2. reads = 0
    <3>1. 1 \in DOMAIN posted /\ posted[1] = 0
      BY <2>1
    <3> QED
      BY <3>1 DEF OneRead
  <2>3. ready' \in Seq(Handlers) /\ reads' \in 0..1
    BY <2>1, <2>2, Reads
  <2> QED
    BY <1>10, <2>1, <2>3 DEF PoolReads, queue, threads, peer
<1>11. CASE PoolTakes
  BY <1>11 DEF PoolTakes, PoolStates, queue, io, peer
<1>12. CASE PoolTests
  BY <1>12 DEF PoolTests, PoolStates, io, peer
<1>13. CASE PoolPushes
  <2>1. posted # <<>> /\ Head(posted) # 0 /\ posted' = Tail(posted)
    BY <1>13 DEF PoolPushes, Seen
  <2>2. Head(posted) \in Ids
    BY <2>1, MaxRequestsAssumption DEF Ids
  <2>3. pool' \in PoolStates
    BY <1>13 DEF PoolPushes, PoolStates
  <2> QED
    BY <1>13, <2>1, <2>2, <2>3 DEF PoolPushes, peer
<1>14. CASE PoolWrites
  <2>1. pool' \in PoolStates
    BY <1>14 DEF PoolWrites, PoolStates
  <2>2. ready' \in Seq(Handlers) /\ writes' \in Seq(Ids) /\ wire' \in Seq(Ids)
    <3>1. CASE write_queue_ # <<>> /\ do_write /\ UNCHANGED wire
      BY <3>1, Writes
    <3>2. CASE write_queue_ # <<>> /\ wire' = Append(wire, Head(write_queue_)) /\ UNCHANGED io
      BY <3>2 DEF io
    <3>3. CASE UNCHANGED <<io, wire>>
      BY <3>3 DEF io
    <3> QED
      BY <1>14, <3>1, <3>2, <3>3 DEF PoolWrites
  <2>3. UNCHANGED <<socket, reads, posted>>
    BY <1>14 DEF PoolWrites, io
  <2> QED
    BY <1>14, <2>1, <2>2, <2>3 DEF PoolWrites, queue
<1>15. CASE PoolCompletes
  <2>1. ready' \in Seq(Handlers)
    BY <1>15, Handles, Adding DEF PoolCompletes
  <2> QED
    BY <1>15, <2>1 DEF PoolCompletes, PoolStates, queue, peer
<1>16. CASE Stop \/ Destroy
  BY <1>16 DEF Stop, Destroy, queue, io, threads, peer
<1>17. CASE OsReadData \/ OsReadFails
  <2>1. \E ec \in Codes : ready' = Append(ready, Done("recv", ec))
    BY <1>17, Handles DEF OsReadData, OsReadFails
  <2>2. ready' \in Seq(Handlers)
    BY <2>1, Handles, Adding
  <2>3. reads' = 0
    BY <1>17 DEF OsReadData, OsReadFails
  <2> QED
    BY <1>17, <2>2, <2>3 DEF OsReadData, OsReadFails, queue, threads, peer
<1>18. CASE ClientLeaves
  BY <1>18 DEF ClientLeaves, queue, io, threads
<1>19. CASE OsWriteDone \/ OsWriteFails
  <2>1. \E ec \in Codes : ready' = Append(ready, Done("send", ec))
    BY <1>19, Handles DEF OsWriteDone, OsWriteFails
  <2>2. ready' \in Seq(Handlers)
    BY <2>1, Handles, Adding
  <2>3. /\ writes # <<>> /\ writes' = Tail(writes)
        /\ wire' = Append(wire, Head(writes)) \/ wire' = wire
    BY <1>19 DEF OsWriteDone, OsWriteFails, peer
  <2>4. Head(writes) \in Ids /\ Tail(writes) \in Seq(Ids)
    BY <2>3
  <2>5. Append(wire, Head(writes)) \in Seq(Ids)
    BY <2>4
  <2>6. writes' \in Seq(Ids) /\ wire' \in Seq(Ids)
    BY <2>3, <2>4, <2>5, Zenon
  <2> QED
    BY <1>19, <2>2, <2>6 DEF OsWriteDone, OsWriteFails, queue, threads, peer
<1>20. CASE UNCHANGED vars
  BY <1>20 DEF vars, queue, io, threads, peer
<1> QED
  BY <1>1, <1>2, <1>3, <1>4, <1>5, <1>6, <1>7, <1>8, <1>9, <1>9a, <1>10, <1>11, <1>12,
     <1>13, <1>14, <1>15, <1>16, <1>17, <1>18, <1>19, <1>20
     DEF Next, MainThread, PoolThread, Environment

(* Before start() the only step is that the client leaves.                 *)
LEMMA FreshStep == Shape /\ Fresh /\ Seen /\ [Next]_vars => Fresh'
<1> SUFFICES ASSUME Shape, Fresh, [Next]_vars, server' = "accepting"
             PROVE  /\ UNCHANGED <<posted, ready, reads, writes>> /\ server = "accepting"
                    /\ UNCHANGED <<active_sessions_, session_stats_, main, pool, requests>>
  BY DEF Fresh
<1>1. CASE server = "accepting"
  <2>1. /\ posted = <<>> /\ ready = <<>> /\ reads = 0 /\ writes = <<>>
        /\ main = "idle" /\ pool = "idle"
    BY <1>1 DEF Fresh
  <2>2. ClientLeaves \/ UNCHANGED vars
    BY <1>1, <2>1
       DEF Next, MainThread, PoolThread, Environment, start, StartThrows, Received,
           ReceiveFailed, Sent, SendFailed, Takes, SentPops, SentTests, SentWritesNext,
           SendFailedClears, SendFailedCloses, PoolReads, PoolTakes,
           PoolTests, PoolPushes, PoolWrites,
           PoolCompletes, Stop, Destroy, OsReadData, OsReadFails, OsWriteDone,
           OsWriteFails
  <2> QED
    BY <1>1, <2>2 DEF ClientLeaves, vars, queue, handler, io, threads, peer
<1>2. CASE server # "accepting"
  BY <1>2
     DEF Next, MainThread, PoolThread, Environment, start, StartThrows, Received, vars,
         ReceiveFailed, Sent, SendFailed, Takes, SentPops, SentTests, SentWritesNext,
         SendFailedClears, SendFailedCloses, PoolReads, PoolTakes,
         PoolTests, PoolPushes, PoolWrites,
         PoolCompletes, Stop, Destroy, OsReadData, OsReadFails, OsWriteDone,
         OsWriteFails, ClientLeaves
<1> QED
  BY <1>1, <1>2

LEMMA FlagsStep == Flags /\ [Next]_vars => Flags'
<1> SUFFICES ASSUME Flags, [Next]_vars
             PROVE  Flags'
  OBVIOUS
<1>1. session_stats_' \in {session_stats_, TRUE, FALSE}
  BY DEF Next, MainThread, PoolThread, Environment, start, StartThrows, Received, vars,
         ReceiveFailed, Sent, SendFailed, SentPops, SentTests, SentWritesNext,
         SendFailedClears, SendFailedCloses, PoolReads, PoolTakes,
         PoolTests, PoolPushes, PoolWrites,
         PoolCompletes, Stop, Destroy, OsReadData, OsReadFails, OsWriteDone,
         OsWriteFails, ClientLeaves, on_session_created, on_session_closed, process, handler
<1>2. wip' = wip \/ wip' = (write_queue_ # <<>>)
  BY DEF Next, MainThread, PoolThread, Environment, start, StartThrows, Received, vars,
         ReceiveFailed, Sent, SendFailed, Takes, SentPops, SentTests, SentWritesNext,
         SendFailedClears, SendFailedCloses, PoolReads, PoolTakes,
         PoolTests, PoolPushes, PoolWrites,
         PoolCompletes, Stop, Destroy, OsReadData, OsReadFails, OsWriteDone,
         OsWriteFails, ClientLeaves, queue
<1>3. patient' = patient
  BY DEF Next, MainThread, PoolThread, Environment, start, StartThrows, Received, vars,
         ReceiveFailed, Sent, SendFailed, Takes, SentPops, SentTests, SentWritesNext,
         SendFailedClears, SendFailedCloses, PoolReads, PoolTakes,
         PoolTests, PoolPushes, PoolWrites,
         PoolCompletes, Stop, Destroy, OsReadData, OsReadFails, OsWriteDone,
         OsWriteFails, ClientLeaves, peer
<1>4. session_stats_' \in BOOLEAN
  BY <1>1, Zenon DEF Flags
<1>5. wip' \in BOOLEAN
  BY <1>2, Zenon DEF Flags
<1> QED
  BY <1>3, <1>4, <1>5, Zenon DEF Flags

(* Each thread still finds what it saw: the other only adds to the queue.  *)
LEMMA SeenStep == Shape /\ Seen /\ [Next]_vars => Seen'
<1> SUFFICES ASSUME Shape, Seen, [Next]_vars
             PROVE  Seen'
  OBVIOUS
<1>1. main' = "kick" => write_queue_' # <<>>
  <2> SUFFICES ASSUME main' = "kick"
               PROVE  write_queue_' # <<>>
    OBVIOUS
  <2>1. CASE SentTests
    BY <2>1 DEF SentTests, queue
  <2>2. CASE PoolPushes
    <3>1. /\ write_queue_' = Append(write_queue_, Head(posted)) /\ write_queue_ \in Seq(Ids)
          /\ posted \in Seq(0..MaxRequests) /\ posted # <<>> /\ Head(posted) # 0
      BY <2>2 DEF PoolPushes, Shape, Seen
    <3>2. Head(posted) \in Ids
      BY <3>1, MaxRequestsAssumption DEF Ids
    <3> QED
      BY <3>1, <3>2, BackFacts
  <2>3. CASE ~SentTests /\ ~PoolPushes
    <3>1. main = "kick" /\ write_queue_' = write_queue_
      BY <2>3
         DEF Next, MainThread, PoolThread, Environment, start, StartThrows, Received, vars,
             ReceiveFailed, Sent, SendFailed, Takes, SentPops, SentWritesNext,
             SendFailedClears, SendFailedCloses, PoolReads, PoolTakes,
             PoolTests, PoolWrites,
             PoolCompletes, Stop, Destroy, OsReadData, OsReadFails, OsWriteDone,
             OsWriteFails, ClientLeaves, queue, threads, Undefined
    <3> QED
      BY <3>1 DEF Seen
  <2> QED
    BY <2>1, <2>2, <2>3
<1>2. pool' \in {"test", "push"} => posted' # <<>> /\ Head(posted') # 0
  <2> SUFFICES ASSUME pool' \in {"test", "push"}
               PROVE  posted' # <<>> /\ Head(posted') # 0
    OBVIOUS
  <2>1. CASE PoolTakes
    BY <2>1 DEF PoolTakes, io
  <2>2. CASE ~PoolTakes
    <3>1. /\ pool \in {"test", "push"}
          /\ \/ posted' = posted
             \/ posted' = Append(posted, 0)
             \/ posted' = Append(posted, requests + 1)
      BY <2>2
         DEF Next, MainThread, PoolThread, Environment, start, StartThrows, Received, vars,
             ReceiveFailed, Sent, SendFailed, Takes, SentPops, SentWritesNext, SentTests,
             SendFailedClears, SendFailedCloses, PoolReads, PoolTests,
             PoolPushes, PoolWrites,
             PoolCompletes, Stop, Destroy, OsReadData, OsReadFails, OsWriteDone,
             OsWriteFails, ClientLeaves, io, threads, Undefined
    <3>2. posted # <<>> /\ Head(posted) # 0 /\ posted \in Seq(0..MaxRequests)
      BY <3>1 DEF Seen, Shape
    <3>3. posted \in Seq(Nat) /\ 0 \in Nat /\ requests + 1 \in Nat
      BY <3>2, MaxRequestsAssumption DEF Shape
    <3>4. \A m \in Nat : Append(posted, m) # <<>> /\ Head(Append(posted, m)) = Head(posted)
      BY <3>2, <3>3, BackFacts
    <3> QED
      BY <3>1, <3>2, <3>3, <3>4
  <2> QED
    BY <2>1, <2>2
<1> QED
  BY <1>1, <1>2 DEF Seen

-----------------------------------------------------------------------------
(* The read loop.                                                          *)

LEMMA RequestIsQueued ==
  \A q : RecvOk \in ToSet(q) => Queued(q, {"recv"})
BY DEF RecvOk, Done, ToSet, Queued

(* A step that leaves the read loop alone.                                 *)
LEMMA AsideStep ==
  ASSUME OneRead, UNCHANGED <<posted, reads, requests>>,
         session_stats_' => session_stats_,
         Queued(ready', {"recv"}) <=> Queued(ready, {"recv"}),
         Single(ready', {"recv"}), RecvOk \in ToSet(ready') => RecvOk \in ToSet(ready)
  PROVE  OneRead'
BY DEF OneRead

(* The handlers of writes come and go beside it.                           *)
LEMMA SendsAside ==
  ASSUME Shape, OneRead, NEW ec \in Codes, ready' = Append(ready, Done("send", ec))
  PROVE  /\ Queued(ready', {"recv"}) <=> Queued(ready, {"recv"})
         /\ Single(ready', {"recv"})
         /\ RecvOk \in ToSet(ready') => RecvOk \in ToSet(ready)
<1>1. Done("send", ec) \in Handlers /\ Done("send", ec).op = "send" /\ RecvOk.op = "recv"
  BY Handles DEF RecvOk, Done
<1>2. ready \in Seq(Handlers)
  BY DEF Shape
<1>3. Done("send", ec) # RecvOk
  BY <1>1
<1>4. /\ Queued(ready', {"recv"}) <=> Queued(ready, {"recv"}) \/ Done("send", ec).op = "recv"
      /\ Single(ready, {"recv"}) /\ (Done("send", ec).op # "recv" \/ ~Queued(ready, {"recv"}))
           => Single(ready', {"recv"})
      /\ ToSet(ready') = ToSet(ready) \cup {Done("send", ec)}
  BY <1>1, <1>2, Adding
<1> QED
  BY <1>1, <1>3, <1>4 DEF OneRead

LEMMA OneReadStep == Shape /\ Fresh /\ Seen /\ OneRead /\ [Next]_vars => OneRead'
<1> SUFFICES ASSUME Shape, Fresh, Seen, OneRead, [Next]_vars
             PROVE  OneRead'
  OBVIOUS
<1>1. CASE start
  <2>1. posted' = <<0>> /\ reads' = 0 /\ ready' = <<>>
    BY <1>1 DEF start, Fresh
  <2>2. \A op : ~Queued(<<>>, {op}) /\ Single(<<>>, {op})
    BY DEF Queued, Single
  <2> QED
    BY <2>1, <2>2, EmptyFacts DEF OneRead
<1>2. CASE Received
  <2>1. /\ Takes("recv") /\ Head(ready).ec = "ok"
        /\ posted' = Append(posted, requests + 1) /\ do_read(Tail(ready))
    BY <1>2 DEF Received
  <2>2. /\ reads = 0 /\ Tail(ready) \in Seq(Handlers) /\ requests + 1 \in Ids
        /\ \A i \in DOMAIN posted : posted[i] # 0
        /\ ~Queued(Tail(ready), {"recv"}) /\ ready # <<>>
    BY <2>1, TakesRead
  <2>3. \A i \in DOMAIN posted' : posted'[i] # 0
    <3>1. posted \in Seq(0..MaxRequests) /\ requests + 1 \in 0..MaxRequests /\ requests + 1 # 0
      BY <2>2, MaxRequestsAssumption DEF Shape, Ids
    <3>2. ToSet(posted') = ToSet(posted) \cup {requests + 1}
      BY <2>1, <3>1, BackFacts
    <3>3. 0 \notin ToSet(posted')
      BY <2>2, <3>1, <3>2 DEF ToSet
    <3> QED
      BY <3>3 DEF ToSet
  <2>4. posted' # <<0>>
    BY <2>3
  <2>5. Single(Tail(ready), {"recv"}) /\ RecvOk \notin ToSet(Tail(ready))
    BY <2>2, Taking, RequestIsQueued DEF OneRead
  <2>6. CASE ready' = Tail(ready) /\ reads' = 1
    BY <2>2, <2>3, <2>4, <2>5, <2>6 DEF OneRead
  <2>7. CASE ready' = Append(Tail(ready), Done("recv", "failed")) /\ reads' = 0
    <3>1. /\ Done("recv", "failed") \in Handlers /\ Done("recv", "failed").op = "recv"
          /\ Done("recv", "failed") # RecvOk
      BY Handles DEF RecvOk, Done
    <3>2. /\ ToSet(ready') = ToSet(Tail(ready)) \cup {Done("recv", "failed")}
          /\ Queued(ready', {"recv"}) /\ Single(ready', {"recv"})
      BY <2>2, <2>5, <2>7, <3>1, Adding
    <3>3. RecvOk \notin ToSet(ready')
      BY <2>5, <3>1, <3>2
    <3> QED
      BY <2>3, <2>4, <2>7, <3>2, <3>3 DEF OneRead
  <2> QED
    BY <2>1, <2>2, <2>6, <2>7, Reads
<1>3. CASE ReceiveFailed
  <2>1. /\ Takes("recv") /\ ready' = Tail(ready) /\ UNCHANGED <<reads, posted, requests>>
        /\ session_stats_' = FALSE
    BY <1>3 DEF ReceiveFailed, on_session_closed
  <2>2. ready # <<>> /\ ~Queued(ready', {"recv"}) /\ Single(ready', {"recv"})
    BY <2>1, TakesRead, Taking DEF OneRead
  <2>3. RecvOk \notin ToSet(ready')
    BY <2>2, RequestIsQueued
  <2> QED
    BY <2>1, <2>2, <2>3 DEF OneRead
<1>4. CASE Sent \/ SendFailed
  <2>1. /\ ready # <<>> /\ ready' = Tail(ready) /\ Head(ready).op = "send"
        /\ UNCHANGED <<reads, posted, requests>>
        /\ session_stats_' => session_stats_
    BY <1>4 DEF Sent, SendFailed, Takes, on_session_closed, handler
  <2>2. /\ Queued(ready', {"recv"}) <=> Queued(ready, {"recv"})
        /\ Single(ready', {"recv"}) /\ (RecvOk \in ToSet(ready') => RecvOk \in ToSet(ready))
    BY <2>1, Taking DEF OneRead
  <2> QED
    BY <2>1, <2>2, AsideStep
<1>5. CASE SendFailedCloses
  <2>1. /\ reads' = 0 /\ UNCHANGED <<posted, requests, session_stats_>>
    BY <1>5 DEF SendFailedCloses, handler, peer
  <2>2. /\ Queued(ready', {"recv"}) <=> Queued(ready, {"recv"}) \/ reads = 1
        /\ Single(ready', {"recv"}) /\ (RecvOk \in ToSet(ready') => RecvOk \in ToSet(ready))
    <3>1. RecvOk # Done("recv", "aborted") /\ RecvOk # Done("send", "aborted")
      BY DEF RecvOk, Done
    <3> QED
      BY <1>5, <3>1, Closing DEF OneRead
  <2> QED
    BY <2>1, <2>2 DEF OneRead, Shape
<1>6. CASE SentWritesNext \/ (PoolWrites /\ do_write /\ write_queue_ # <<>>)
  <2>1. /\ do_write /\ write_queue_ # <<>>
        /\ UNCHANGED <<posted, reads, requests, session_stats_>>
    BY <1>6 DEF SentWritesNext, PoolWrites, Seen, handler, peer, io
  <2>2. CASE ready' = ready
    BY <2>1, <2>2 DEF OneRead
  <2>3. CASE ready' = Append(ready, Done("send", "failed"))
    BY <2>1, <2>3, SendsAside, AsideStep, Handles
  <2> QED
    BY <2>1, <2>2, <2>3, Writes
<1>7. CASE PoolReads
  <2>1. posted # <<>> /\ Head(posted) = 0 /\ posted' = Tail(posted) /\ do_read(ready)
    BY <1>7 DEF PoolReads
  <2>2. posted = <<0>> /\ posted' = <<>>
    <3>1. posted \in Seq(0..MaxRequests)
      BY DEF Shape
    <3>2. 1 \in DOMAIN posted /\ posted[1] = 0
      BY <2>1, <3>1
    <3>3. posted = <<0>>
      BY <3>2 DEF OneRead
    <3>4. Tail(<<0>>) = <<>>
      OBVIOUS
    <3> QED
      BY <2>1, <3>3, <3>4, Zenon
  <2>3. reads = 0 /\ ~Queued(ready, {"recv"}) /\ RecvOk \notin ToSet(ready) /\ ready \in Seq(Handlers)
    BY <2>2, RequestIsQueued DEF OneRead, Shape
  <2>4. CASE ready' = ready /\ reads' = 1
    BY <2>2, <2>3, <2>4 DEF OneRead
  <2>5. CASE ready' = Append(ready, Done("recv", "failed")) /\ reads' = 0
    <3>1. /\ Done("recv", "failed") \in Handlers /\ Done("recv", "failed").op = "recv"
          /\ Done("recv", "failed") # RecvOk
      BY Handles DEF RecvOk, Done
    <3>2. /\ ToSet(ready') = ToSet(ready) \cup {Done("recv", "failed")}
          /\ Queued(ready', {"recv"}) /\ Single(ready', {"recv"})
      BY <2>3, <2>5, <3>1, Adding DEF OneRead
    <3>3. RecvOk \notin ToSet(ready')
      BY <2>3, <3>1, <3>2
    <3> QED
      BY <2>2, <2>5, <3>2, <3>3 DEF OneRead
  <2> QED
    BY <2>1, <2>3, <2>4, <2>5, Reads
<1>8. CASE PoolPushes
  <2>1. /\ posted # <<>> /\ Head(posted) # 0 /\ posted' = Tail(posted)
        /\ UNCHANGED <<reads, ready, requests, session_stats_>>
    BY <1>8 DEF PoolPushes, Seen, handler, peer
  <2>2. /\ posted # <<0>> /\ posted \in Seq(0..MaxRequests)
        /\ \A i \in DOMAIN posted : posted[i] # 0
    BY <2>1 DEF OneRead, Shape
  <2>3. posted' # <<0>> /\ \A i \in DOMAIN posted' : posted'[i] # 0
    <3>1. \A i \in DOMAIN Tail(posted) : i + 1 \in DOMAIN posted /\ Tail(posted)[i] = posted[i + 1]
      BY <2>1, <2>2
    <3>2. \A i \in DOMAIN posted' : posted'[i] # 0
      BY <2>1, <2>2, <3>1
    <3> QED
      BY <3>2
  <2> QED
    BY <2>1, <2>2, <2>3 DEF OneRead
<1>9. CASE OsReadData \/ OsReadFails
  <2>1. /\ reads = 1 /\ reads' = 0 /\ UNCHANGED <<posted, requests, session_stats_>>
        /\ \E ec \in Codes : ready' = Append(ready, Done("recv", ec)) /\ (ec = "ok" => OsReadData)
    BY <1>9, Handles DEF OsReadData, OsReadFails, handler, peer
  <2>2. PICK ec \in Codes : ready' = Append(ready, Done("recv", ec)) /\ (ec = "ok" => OsReadData)
    BY <2>1
  <2>3. /\ Done("recv", ec) \in Handlers /\ Done("recv", ec).op = "recv"
        /\ Done("recv", ec) = RecvOk => ec = "ok"
    BY Handles DEF RecvOk
  <2>4. /\ ~Queued(ready, {"recv"}) /\ posted # <<0>> /\ ready \in Seq(Handlers)
        /\ RecvOk \notin ToSet(ready)
    BY <2>1, RequestIsQueued DEF OneRead, Shape
  <2>5. /\ Queued(ready', {"recv"}) /\ Single(ready', {"recv"})
        /\ ToSet(ready') = ToSet(ready) \cup {Done("recv", ec)}
    BY <2>2, <2>3, <2>4, Adding DEF OneRead
  <2>6. RecvOk \in ToSet(ready') => requests' < MaxRequests
    BY <2>1, <2>2, <2>3, <2>4, <2>5 DEF OsReadData
  <2> QED
    BY <2>1, <2>4, <2>5, <2>6 DEF OneRead
<1>10. CASE PoolCompletes \/ OsWriteDone \/ OsWriteFails
  <2>1. /\ UNCHANGED <<posted, reads, requests, session_stats_>>
        /\ \E ec \in Codes : ready' = Append(ready, Done("send", ec))
    BY <1>10, Handles DEF PoolCompletes, OsWriteDone, OsWriteFails, handler, peer
  <2> QED
    BY <2>1, SendsAside, AsideStep
<1>11. CASE Destroy
  <2>1. UNCHANGED <<posted, reads, requests, ready>> /\ session_stats_' = FALSE
    BY <1>11 DEF Destroy, on_session_closed, io, peer
  <2> QED
    BY <2>1 DEF OneRead
<1>12. CASE UNCHANGED <<posted, reads, requests, ready, session_stats_>>
  BY <1>12 DEF OneRead
<1> QED
  <2>1. \/ start \/ Received \/ ReceiveFailed \/ Sent \/ SendFailed \/ SendFailedCloses
        \/ SentWritesNext \/ (PoolWrites /\ do_write /\ write_queue_ # <<>>) \/ PoolReads
        \/ PoolPushes \/ OsReadData \/ OsReadFails \/ PoolCompletes \/ OsWriteDone
        \/ OsWriteFails \/ Destroy
        \/ UNCHANGED <<posted, reads, requests, ready, session_stats_>>
    BY DEF Next, MainThread, PoolThread, Environment, vars, StartThrows, SentPops, SentTests,
           SendFailedClears, PoolTakes, PoolTests, PoolWrites, Stop, ClientLeaves, queue, handler, io, peer
  <2> QED
    BY <2>1, <1>1, <1>2, <1>3, <1>4, <1>5, <1>6, <1>7, <1>8, <1>9, <1>10, <1>11, <1>12

-----------------------------------------------------------------------------
(* A patient client.  What a thread or the operating system finds tells    *)
(* the phase.                                                              *)
LEMMA Observed ==
  ASSUME Shape, Turns
  PROVE  /\ main # Undefined /\ pool # Undefined /\ main # "kick"
         /\ main = "pop" => Written
         /\ main = "test" => Between
         /\ main = "clear" => Failing
         /\ main = "close" => Lost
         /\ posted = <<0>> => Between
         /\ posted # <<>> => posted = <<0>> \/ Answering
         /\ pool \in {"test", "push"} => Answering
         /\ pool = "kick" => Writing
         /\ pool = "sent" => Written
         /\ writes # <<>> => Writing
         /\ Queued(ready, {"send"}) => Written \/ Failing
         /\ requests = Len(wire) => Between \/ Written
         /\ RecvOk \in ToSet(ready) => Between \/ Written
         /\ socket = "closed" => Lost
<1>1. Len(wire) \in Nat /\ requests \in Nat
  BY MaxRequestsAssumption DEF Shape
<1>2. requests = Len(wire) => ~Replying
  BY <1>1 DEF Replying
<1>3. requests = 0 => ~Replying
  BY <1>1 DEF Replying
<1>4. \A n : <<n>> # <<>> /\ (<<n>> = <<0>> => n = 0)
  OBVIOUS
<1>5. /\ main # Undefined /\ pool # Undefined /\ main # "kick"
      /\ main = "pop" => Written
      /\ main = "test" => Between
      /\ main = "clear" => Failing
      /\ main = "close" => Lost
      /\ pool \in {"test", "push"} => Answering
      /\ pool = "kick" => Writing
      /\ pool = "sent" => Written
  BY DEF Turns, Between, Answering, Writing, Written, Failing, Lost, Undefined
<1>6. /\ writes # <<>> => Writing
      /\ Queued(ready, {"send"}) => Written \/ Failing
      /\ socket = "closed" => Lost
  BY DEF Turns, Between, Answering, Writing, Written, Failing, Lost
<1>7. /\ requests = Len(wire) => Between \/ Written
      /\ RecvOk \in ToSet(ready) => Between \/ Written
  BY <1>2 DEF Turns, Answering, Writing, Failing, Lost, Replying
<1>8. /\ posted # <<>> => posted = <<0>> \/ Answering
      /\ Answering => posted # <<0>>
  BY <1>3, <1>4 DEF Turns, Between, Answering, Writing, Written, Failing, Lost
<1>9. posted = <<0>> => Between
  BY <1>4, <1>8 DEF Turns, Writing, Written, Failing, Lost
<1> QED
  BY <1>5, <1>6, <1>7, <1>8, <1>9

(* A step that leaves the replies alone, and puts nothing in the queue of  *)
(* handlers but a read that has failed.                                    *)
LEMMA RepliesAside ==
  ASSUME Turns,
         UNCHANGED <<wire, requests, write_queue_, writes, posted, pool, wip, main, socket>>,
         client' \in {client, "gone"},
         Queued(ready', {"send"}) <=> Queued(ready, {"send"}),
         Single(ready', {"send"}), Pairs(ready', ReplyFirst),
         \A h \in ToSet(ready') : h \in ToSet(ready) \/ (h.op = "recv" /\ h # RecvOk)
  PROVE  Turns'
<1>1. /\ RecvOk \in ToSet(ready') => RecvOk \in ToSet(ready)
      /\ SendOk \in ToSet(ready') => SendOk \in ToSet(ready)
      /\ (\A h \in ToSet(ready) : h.op = "send" => h = SendOk)
           => \A h \in ToSet(ready') : h.op = "send" => h = SendOk
  <2>1. SendOk.op = "send"
    BY DEF SendOk, Done
  <2> QED
    BY <2>1
<1>2. /\ Between => Between'
      /\ Answering => Answering'
      /\ Writing => Writing'
  BY <1>1 DEF Between, Answering, Writing, Replying
<1>3. Written => Written'
  BY <1>1 DEF Written
<1>4. (Failing => Failing') /\ (Lost => Lost')
  BY <1>1 DEF Failing, Lost, Replying
<1> QED
  BY <1>2, <1>3, <1>4 DEF Turns

(* The steps of the read loop.                                             *)
LEMMA TurnsRead ==
  ASSUME Shape, Fresh, OneRead, Turns, patient,
         start \/ Received \/ ReceiveFailed \/ PoolReads \/ OsReadData \/ OsReadFails
  PROVE  Turns'
<1>0. Len(wire) \in Nat /\ requests \in Nat /\ ready \in Seq(Handlers)
  BY MaxRequestsAssumption DEF Shape
<1>1. CASE start
  <2>1. /\ posted = <<>> /\ posted' = <<0>> /\ ready = <<>> /\ writes = <<>>
        /\ main = "idle" /\ pool = "idle" /\ requests = 0
        /\ UNCHANGED <<wire, requests, write_queue_, writes, pool, wip, main, socket, ready, client>>
    BY <1>1 DEF start, Fresh, queue, threads, peer
  <2>2. ~Queued(ready, {"send"}) /\ ~Replying
    BY <1>0, <2>1 DEF Queued, Replying
  <2>3. Between
    BY <2>1, <2>2 DEF Turns, Answering, Writing, Written, Failing, Lost
  <2>4. Between'
    BY <2>1, <2>3 DEF Between
  <2> QED
    BY <2>1, <2>2, <2>4 DEF Turns, Lost
<1>2. CASE Received
  <2>1. /\ Takes("recv") /\ Head(ready).ec = "ok" /\ do_read(Tail(ready))
        /\ requests' = requests + 1 /\ posted' = Append(posted, requests + 1)
        /\ main = "idle" /\ ready # <<>>
        /\ UNCHANGED <<write_queue_, wip, wire, writes, socket, main, pool, client>>
    BY <1>2 DEF Received, Takes, queue, threads
  <2>2. /\ Head(ready).op = "recv" /\ reads = 0 /\ posted # <<0>>
        /\ Tail(ready) \in Seq(Handlers) /\ ~Queued(Tail(ready), {"recv"})
    BY <2>1, TakesRead
  <2>3. /\ Head(ready) \in Handlers /\ Head(ready) \in ToSet(ready)
        /\ Queued(ready, {"send"}) => Queued(Tail(ready), {"send"})
        /\ Single(Tail(ready), {"send"}) /\ Pairs(Tail(ready), ReplyFirst)
    BY <2>1, <2>2, Taking DEF Turns
  <2>4. Head(ready) = RecvOk
    BY <2>1, <2>2, <2>3, Handles DEF RecvOk
  <2>5. ~Queued(ready, {"send"})
    <3>1. \A h \in ToSet(Tail(ready)) : <<RecvOk, h>> \in ReplyFirst
      BY <1>0, <2>1, <2>4, FrontFacts DEF Turns
    <3>2. \A h \in ToSet(Tail(ready)) : h.op # "send"
      BY <3>1 DEF ReplyFirst
    <3>3. ~Queued(Tail(ready), {"send"})
      BY <3>2 DEF Queued, ToSet
    <3> QED
      BY <2>3, <3>3
  <2>6. Between
    BY <2>1, <2>3, <2>4, <2>5, Observed DEF Written
  <2>7. /\ posted = <<>> /\ requests = Len(wire) /\ write_queue_ = <<>> /\ writes = <<>>
        /\ pool = "idle"
    BY <2>2, <2>6 DEF Between
  <2>8. socket # "closed"
    BY <1>0, <2>7, Observed DEF Lost, Replying
  <2>9. ready' = Tail(ready)
    BY <2>1, <2>2, <2>8, Reads
  <2>10. RecvOk \notin ToSet(ready') /\ ~Queued(ready', {"send"})
    BY <2>1, <2>2, <2>5, <2>9, Taking, RequestIsQueued
  <2>11. posted' = <<requests'>> /\ requests' = Len(wire') + 1
    BY <1>0, <2>1, <2>7
  <2>12. Answering'
    BY <2>1, <2>7, <2>10, <2>11 DEF Answering, Replying
  <2> QED
    BY <2>1, <2>3, <2>8, <2>9, <2>12 DEF Turns
<1>3. CASE ReceiveFailed
  <2>1. /\ ready # <<>> /\ ready' = Tail(ready) /\ Head(ready).op = "recv"
        /\ UNCHANGED <<wire, requests, write_queue_, writes, posted, pool, wip, main, socket, client>>
    BY <1>3 DEF ReceiveFailed, Takes, queue, threads
  <2>2. /\ Queued(ready', {"send"}) <=> Queued(ready, {"send"})
        /\ Single(ready', {"send"}) /\ Pairs(ready', ReplyFirst)
        /\ \A h \in ToSet(ready') : h \in ToSet(ready)
    BY <2>1, Taking DEF Turns
  <2> QED
    BY <2>1, <2>2, RepliesAside
<1>4. CASE PoolReads
  <2>1. /\ posted # <<>> /\ Head(posted) = 0 /\ posted' = Tail(posted) /\ do_read(ready)
        /\ UNCHANGED <<wire, requests, write_queue_, writes, pool, wip, main, socket, client>>
    BY <1>4 DEF PoolReads, queue, threads, peer
  <2>2. posted = <<0>>
    <3>1. 1 \in DOMAIN posted /\ posted[1] = 0
      BY <2>1 DEF Shape
    <3> QED
      BY <3>1 DEF OneRead
  <2>3. Between /\ posted' = <<>>
    <3>1. Tail(<<0>>) = <<>>
      OBVIOUS
    <3>2. posted' = <<>>
      BY <2>1, <2>2, <3>1, Zenon
    <3> QED
      BY <2>2, <3>2, Observed
  <2>4. socket # "closed" /\ reads = 0
    BY <1>0, <2>2, <2>3, Observed DEF Between, Lost, Replying, OneRead
  <2>5. ready' = ready
    BY <1>0, <2>1, <2>4, Reads
  <2>6. Between'
    BY <2>1, <2>3, <2>5 DEF Between
  <2> QED
    BY <2>1, <2>4, <2>5, <2>6 DEF Turns
<1>5. CASE OsReadData
  <2>1. /\ requests = Len(wire) /\ pool # "sent" /\ ready' = Append(ready, RecvOk)
        /\ UNCHANGED <<wire, requests, write_queue_, writes, posted, pool, wip, main, socket, client>>
    BY <1>5 DEF OsReadData, RecvOk, queue, threads, peer
  <2>2. RecvOk \in Handlers /\ RecvOk.op = "recv" /\ "recv" # "send"
    BY Handles DEF RecvOk
  <2>3. /\ Queued(ready', {"send"}) <=> Queued(ready, {"send"})
        /\ Single(ready', {"send"}) /\ Pairs(ready', ReplyFirst)
        /\ \A h \in ToSet(ready') : h.op = "send" => h \in ToSet(ready)
    <3>1. /\ Queued(ready', {"send"}) <=> Queued(ready, {"send"})
          /\ Single(ready', {"send"}) /\ Pairs(ready', ReplyFirst)
          /\ ToSet(ready') = ToSet(ready) \cup {RecvOk}
      BY <1>0, <2>1, <2>2, Adding DEF Turns
    <3> QED
      BY <2>2, <3>1
  <2>4. Between => Between'
    BY <2>1, <2>3 DEF Between
  <2>5. Written => Written'
    BY <2>1, <2>3 DEF Written
  <2>6. socket # "closed"
    BY <1>0, <2>1, Observed DEF Lost, Replying
  <2> QED
    BY <2>1, <2>3, <2>4, <2>5, <2>6, Observed DEF Turns
<1>6. CASE OsReadFails
  <2>1. PICK ec \in {"eof", "failed"} : ready' = Append(ready, Done("recv", ec))
    BY <1>6 DEF OsReadFails
  <2>2. /\ Done("recv", ec) \in Handlers /\ Done("recv", ec).op = "recv"
        /\ Done("recv", ec) # RecvOk /\ "recv" # "send"
    <3>1. ec \in Codes /\ ec # "ok"
      BY Handles
    <3> QED
      BY <3>1, Handles DEF RecvOk, Done
  <2>3. /\ Queued(ready', {"send"}) <=> Queued(ready, {"send"})
        /\ Single(ready', {"send"}) /\ Pairs(ready', ReplyFirst)
        /\ \A h \in ToSet(ready') : h \in ToSet(ready) \/ h = Done("recv", ec)
    BY <1>0, <2>1, <2>2, Adding DEF Turns
  <2>4. UNCHANGED <<wire, requests, write_queue_, writes, posted, pool, wip, main, socket, client>>
    BY <1>6 DEF OsReadFails, queue, threads, peer
  <2> QED
    BY <2>2, <2>3, <2>4, RepliesAside
<1> QED
  BY <1>1, <1>2, <1>3, <1>4, <1>5, <1>6

(* One more reply is written: the reply to the request that was read.      *)
LEMMA Replied ==
  ASSUME Shape, Turns, Replying, wire' = Append(wire, requests), requests' = requests
  PROVE  /\ \A i \in DOMAIN wire' : wire'[i] = i
         /\ requests' = Len(wire')
<1>1. wire \in Seq(Ids) /\ Len(wire) \in Nat /\ requests = Len(wire) + 1
  BY DEF Shape, Replying
<1>2. /\ Len(wire') = Len(wire) + 1 /\ DOMAIN wire' = 1..(Len(wire) + 1)
      /\ \A i \in 1..Len(wire) : wire'[i] = wire[i]
      /\ wire'[Len(wire) + 1] = requests
  BY <1>1
<1>3. \A i \in 1..Len(wire) : wire[i] = i
  BY <1>1 DEF Turns
<1> QED
  BY <1>1, <1>2, <1>3

(* A sequence of one element.                                              *)
LEMMA One ==
  ASSUME NEW n
  PROVE  /\ <<n>> # <<>> /\ Head(<<n>>) = n /\ Tail(<<n>>) = <<>>
         /\ Append(<<>>, n) = <<n>>
OBVIOUS

(* The steps of the main thread that handle a write.                       *)
LEMMA TurnsSent ==
  ASSUME Shape, OneRead, Turns,
         \/ Sent \/ SendFailed \/ SentPops \/ SentTests \/ SentWritesNext
         \/ SendFailedClears \/ SendFailedCloses
  PROVE  Turns'
<1>0. Len(wire) \in Nat /\ requests \in Nat /\ ready \in Seq(Handlers)
  BY MaxRequestsAssumption DEF Shape
<1>1. CASE Sent \/ SendFailed
  <2>1. /\ ready # <<>> /\ ready' = Tail(ready) /\ Head(ready).op = "send"
        /\ UNCHANGED <<wire, requests, write_queue_, writes, posted, pool, wip, socket, client>>
        /\ Head(ready).ec = "ok" => main' = "pop"
        /\ Head(ready).ec # "ok" => main' = "clear"
        /\ main = "idle"
    BY <1>1 DEF Sent, SendFailed, Takes, queue
  <2>2. /\ Queued(ready, {"send"}) /\ ~Queued(ready', {"send"})
        /\ Head(ready) \in Handlers /\ Head(ready) \in ToSet(ready)
        /\ Single(ready', {"send"}) /\ Pairs(ready', ReplyFirst)
        /\ RecvOk \in ToSet(ready') => RecvOk \in ToSet(ready)
    BY <2>1, Taking DEF Turns
  <2>3. Head(ready).ec = "ok" <=> Head(ready) = SendOk
    BY <2>1, <2>2, Handles DEF SendOk, Done
  <2>4. CASE Written
    <3>1. Head(ready) = SendOk /\ pool = "idle"
      BY <2>1, <2>2, <2>4 DEF Written
    <3>2. Written'
      BY <2>1, <2>2, <2>3, <2>4, <3>1 DEF Written
    <3>3. socket # "closed"
      BY <1>0, <2>4, Observed DEF Lost, Replying, Written
    <3> QED
      BY <2>1, <2>2, <3>2, <3>3 DEF Turns
  <2>5. CASE Failing
    <3>1. Head(ready) # SendOk
      BY <2>1, <2>2, <2>5 DEF Failing
    <3>2. Failing'
      BY <2>1, <2>2, <2>3, <2>5, <3>1 DEF Failing, Replying
    <3>3. socket # "closed"
      BY <2>2, Observed DEF Lost
    <3> QED
      BY <2>1, <2>2, <3>2, <3>3 DEF Turns
  <2> QED
    BY <2>2, <2>4, <2>5, Observed
<1>2. CASE SentPops
  <2>1. /\ main = "pop"
        /\ UNCHANGED <<wire, requests, ready, writes, posted, pool, wip, socket, client>>
        /\ write_queue_ # <<>> => main' = "test" /\ write_queue_' = Tail(write_queue_)
    BY <1>2 DEF SentPops, io, peer
  <2>2. Written
    BY <2>1, Observed
  <2>3. main' = "test" /\ write_queue_' = <<>>
    BY <2>1, <2>2, One DEF Written
  <2>4. socket # "closed"
    BY <1>0, <2>2, Observed DEF Lost, Replying, Written
  <2>5. Between'
    BY <2>1, <2>2, <2>3 DEF Written, Between
  <2> QED
    BY <2>1, <2>4, <2>5 DEF Turns
<1>3. CASE SentTests
  <2>1. /\ main = "test"
        /\ UNCHANGED <<wire, requests, ready, write_queue_, writes, posted, pool, wip, socket, client>>
        /\ write_queue_ = <<>> => main' = "idle"
    BY <1>3 DEF SentTests, io, peer, queue
  <2>2. Between
    BY <2>1, Observed
  <2>3. socket # "closed"
    BY <2>1, Observed DEF Lost
  <2>4. Between'
    BY <2>1, <2>2 DEF Between
  <2> QED
    BY <2>1, <2>3, <2>4 DEF Turns
<1>4. CASE SentWritesNext
  BY <1>4, Observed DEF SentWritesNext
<1>5. CASE SendFailedClears
  <2>1. /\ main = "clear" /\ main' = "close" /\ write_queue_' = <<>>
        /\ UNCHANGED <<wire, requests, ready, writes, posted, pool, wip, socket, client>>
    BY <1>5 DEF SendFailedClears, io, peer
  <2>2. Failing
    BY <2>1, Observed
  <2>3. Lost'
    BY <2>1, <2>2 DEF Failing, Lost, Replying
  <2> QED
    BY <2>1, <2>3 DEF Turns
<1>6. CASE SendFailedCloses
  <2>1. /\ main = "close" /\ main' = "idle" /\ writes' = <<>>
        /\ UNCHANGED <<wire, requests, write_queue_, posted, pool, wip, client>>
    BY <1>6 DEF SendFailedCloses, queue, peer
  <2>2. Lost
    BY <2>1, Observed
  <2>3. /\ Queued(ready', {"send"}) <=> Queued(ready, {"send"})
        /\ Single(ready', {"send"}) /\ Pairs(ready', ReplyFirst)
        /\ ToSet(ready') \subseteq ToSet(ready) \cup
             {Done("recv", "aborted"), Done("send", "aborted")}
    BY <1>6, <2>2, Closing DEF Lost, Turns
  <2>4. RecvOk \notin ToSet(ready')
    <3>1. RecvOk # Done("recv", "aborted") /\ RecvOk # Done("send", "aborted")
      BY DEF RecvOk, Done
    <3>2. RecvOk \notin ToSet(ready)
      BY <2>2 DEF Lost, Replying
    <3> QED
      BY <2>3, <3>1, <3>2
  <2>5. Lost'
    BY <2>1, <2>2, <2>3, <2>4 DEF Lost, Replying
  <2> QED
    BY <2>1, <2>3, <2>5 DEF Turns
<1> QED
  BY <1>1, <1>2, <1>3, <1>4, <1>5, <1>6

(* The steps that make and send a reply.                                   *)
LEMMA TurnsReply ==
  ASSUME Shape, Flags, OneRead, Seen, Turns,
         \/ PoolTakes \/ PoolTests \/ PoolPushes \/ PoolWrites \/ PoolCompletes
         \/ OsWriteDone \/ OsWriteFails
  PROVE  Turns'
<1>0. Len(wire) \in Nat /\ requests \in Nat /\ ready \in Seq(Handlers)
  BY MaxRequestsAssumption DEF Shape
<1>1. \A ec \in Codes : /\ Done("send", ec) \in Handlers /\ Done("send", ec).op = "send"
                        /\ Done("send", ec) # RecvOk /\ (ec # "ok" => Done("send", ec) # SendOk)
  BY Handles DEF Done, RecvOk, SendOk
<1>2. CASE PoolTakes
  <2>1. /\ posted # <<>> /\ Head(posted) # 0 /\ pool' = "test"
        /\ UNCHANGED <<wire, requests, ready, write_queue_, writes, posted, main, wip, socket, client>>
    BY <1>2 DEF PoolTakes, queue, io, peer
  <2>2. Answering
    <3>1. posted # <<0>>
      BY <2>1, One
    <3> QED
      BY <2>1, <3>1, Observed
  <2>3. Answering' /\ socket # "closed"
    BY <2>1, <2>2, Observed DEF Answering, Replying, Lost
  <2> QED
    BY <2>1, <2>3 DEF Turns
<1>3. CASE PoolTests
  <2>1. /\ pool = "test" /\ pool' = "push"
        /\ UNCHANGED <<wire, requests, ready, write_queue_, writes, posted, main, socket, client>>
    BY <1>3 DEF PoolTests, io, peer
  <2>2. Answering
    BY <2>1, Observed
  <2>3. wip' = FALSE
    BY <1>3, <2>2 DEF PoolTests, Answering
  <2>4. Answering' /\ socket # "closed"
    BY <2>1, <2>2, <2>3, Observed DEF Answering, Replying, Lost
  <2> QED
    BY <2>1, <2>4 DEF Turns
<1>4. CASE PoolPushes
  <2>1. /\ pool = "push" /\ posted' = Tail(posted)
        /\ write_queue_' = Append(write_queue_, Head(posted))
        /\ UNCHANGED <<wire, requests, ready, writes, main, socket, client>>
    BY <1>4 DEF PoolPushes, peer
  <2>2. Answering
    BY <2>1, Observed
  <2>3. pool' = "kick"
    BY <1>4, <2>1, <2>2 DEF PoolPushes, Answering
  <2>4. posted' = <<>> /\ write_queue_' = <<requests>>
    BY <2>1, <2>2, One DEF Answering
  <2>5. Writing' /\ socket # "closed"
    BY <2>1, <2>2, <2>3, <2>4, Observed DEF Answering, Writing, Replying, Lost
  <2> QED
    BY <2>1, <2>5 DEF Turns
<1>5. CASE PoolWrites
  <2>1. /\ pool = "kick"
        /\ UNCHANGED <<requests, write_queue_, posted, main, wip, socket, client>>
    BY <1>5 DEF PoolWrites, queue, io
  <2>2. /\ Writing /\ writes = <<>> /\ write_queue_ = <<requests>> /\ socket # "closed"
        /\ write_queue_ # <<>> /\ Head(write_queue_) = requests
    BY <2>1, One, Observed DEF Writing, Lost
  <2>3. CASE do_write /\ pool' = "idle" /\ wire' = wire
    <3>1. ready' = ready /\ writes' = <<requests>>
      BY <2>2, <2>3, Writes, One
    <3>2. Writing'
      BY <2>1, <2>2, <2>3, <3>1 DEF Writing, Replying
    <3> QED
      BY <2>1, <2>2, <2>3, <3>1, <3>2 DEF Turns
  <2>4. CASE pool' = "sent" /\ wire' = Append(wire, requests) /\ UNCHANGED io
    <3>1. UNCHANGED <<ready, writes>> /\ Replying
      BY <2>2, <2>4 DEF io, Writing
    <3>2. (\A i \in DOMAIN wire' : wire'[i] = i) /\ requests' = Len(wire')
      BY <2>1, <2>4, <3>1, Replied
    <3>3. Written'
      BY <2>1, <2>2, <2>4, <3>1, <3>2 DEF Written, Writing, Replying
    <3> QED
      BY <2>1, <2>2, <3>1, <3>2, <3>3 DEF Turns
  <2> QED
    BY <1>5, <2>2, <2>3, <2>4 DEF PoolWrites
<1>6. CASE PoolCompletes
  <2>1. /\ pool = "sent" /\ pool' = "idle" /\ ready' = Append(ready, SendOk)
        /\ UNCHANGED <<wire, requests, write_queue_, writes, posted, main, wip, socket, client>>
    BY <1>6 DEF PoolCompletes, SendOk, queue, peer
  <2>2. Written
    BY <2>1, Observed
  <2>3. /\ requests = Len(wire) /\ write_queue_ = <<requests>> /\ writes = <<>>
        /\ posted = <<>> /\ main = "idle" /\ ~Queued(ready, {"send"})
        /\ RecvOk \notin ToSet(ready)
    BY <2>1, <2>2 DEF Written
  <2>4. /\ Queued(ready', {"send"}) /\ Single(ready', {"send"}) /\ Pairs(ready', ReplyFirst)
        /\ ToSet(ready') = ToSet(ready) \cup {SendOk}
    <3>1. SendOk \in Handlers /\ SendOk.op = "send"
      BY Handles DEF SendOk
    <3> QED
      BY <1>0, <2>1, <2>3, <3>1, Adding DEF Turns
  <2>5. \A h \in ToSet(ready') : h.op = "send" => h = SendOk
    BY <2>3, <2>4 DEF Queued, ToSet
  <2>6. Written'
    BY <2>1, <2>3, <2>4, <2>5 DEF Written
  <2>7. socket # "closed"
    BY <2>1, Observed DEF Lost
  <2> QED
    BY <2>1, <2>4, <2>6, <2>7 DEF Turns
<1>7. CASE OsWriteDone \/ OsWriteFails
  <2>1. /\ writes # <<>> /\ writes' = Tail(writes)
        /\ UNCHANGED <<requests, write_queue_, posted, pool, main, wip, socket, client>>
    BY <1>7 DEF OsWriteDone, OsWriteFails, queue, threads, peer
  <2>2. Writing /\ socket # "closed"
    BY <2>1, Observed DEF Lost
  <2>3. /\ Replying /\ write_queue_ = <<requests>> /\ posted = <<>> /\ pool = "idle"
        /\ writes = <<requests>> /\ main = "idle" /\ ~Queued(ready, {"send"})
        /\ RecvOk \notin ToSet(ready)
    BY <2>1, <2>2 DEF Writing, Replying
  <2>4. writes' = <<>> /\ Head(writes) = requests
    BY <2>1, <2>3, One
  <2>5. ASSUME NEW ec \in Codes, ready' = Append(ready, Done("send", ec))
        PROVE  /\ Queued(ready', {"send"}) /\ Single(ready', {"send"}) /\ Pairs(ready', ReplyFirst)
               /\ ToSet(ready') = ToSet(ready) \cup {Done("send", ec)}
               /\ \A h \in ToSet(ready') : h.op = "send" => h = Done("send", ec)
               /\ RecvOk \notin ToSet(ready')
    <3>1. /\ Queued(ready', {"send"}) /\ Single(ready', {"send"}) /\ Pairs(ready', ReplyFirst)
          /\ ToSet(ready') = ToSet(ready) \cup {Done("send", ec)}
      BY <1>0, <1>1, <2>3, <2>5, Adding DEF Turns
    <3>2. \A h \in ToSet(ready') : h.op = "send" => h = Done("send", ec)
      BY <2>3, <3>1 DEF Queued, ToSet
    <3> QED
      BY <1>1, <2>3, <3>1, <3>2
  <2>6. CASE OsWriteDone
    <3>1. wire' = Append(wire, requests) /\ ready' = Append(ready, Done("send", "ok"))
      BY <2>4, <2>6 DEF OsWriteDone
    <3>2. (\A i \in DOMAIN wire' : wire'[i] = i) /\ requests' = Len(wire')
      BY <2>1, <2>3, <3>1, Replied
    <3>3. /\ Queued(ready', {"send"}) /\ Single(ready', {"send"}) /\ Pairs(ready', ReplyFirst)
          /\ \A h \in ToSet(ready') : h.op = "send" => h = SendOk
      BY <2>5, <3>1, Handles DEF SendOk
    <3>4. Written'
      BY <2>1, <2>3, <2>4, <3>2, <3>3 DEF Written
    <3> QED
      BY <2>1, <2>2, <3>2, <3>3, <3>4 DEF Turns
  <2>7. CASE OsWriteFails
    <3>1. wire' = wire /\ client = "gone" /\ ready' = Append(ready, Done("send", "failed"))
      BY <2>7 DEF OsWriteFails, peer
    <3>2. /\ Queued(ready', {"send"}) /\ Single(ready', {"send"}) /\ Pairs(ready', ReplyFirst)
          /\ \A h \in ToSet(ready') : h.op = "send" => h = Done("send", "failed")
          /\ RecvOk \notin ToSet(ready')
      BY <2>5, <3>1, Handles
    <3>3. SendOk \notin ToSet(ready')
      BY <1>1, <3>2, Handles DEF SendOk, Done
    <3>4. Failing'
      BY <2>1, <2>3, <2>4, <3>1, <3>2, <3>3 DEF Failing, Replying
    <3> QED
      BY <2>1, <2>2, <3>1, <3>2, <3>4 DEF Turns
  <2> QED
    BY <1>7, <2>6, <2>7
<1> QED
  BY <1>2, <1>3, <1>4, <1>5, <1>6, <1>7

(* Every step leads from a phase to a phase.                               *)
LEMMA TurnsStep ==
  ASSUME Flags, Shape, Fresh, OneRead, Seen, Turns, patient, [Next]_vars
  PROVE  Turns'
<1>1. CASE StartThrows \/ Stop \/ Destroy \/ ClientLeaves \/ UNCHANGED vars
  <2>1. /\ UNCHANGED <<wire, requests, write_queue_, writes, posted, pool, wip, main, socket, ready>>
        /\ client' \in {client, "gone"}
    BY <1>1 DEF StartThrows, Stop, Destroy, ClientLeaves, vars, queue, io, threads, peer
  <2>2. Single(ready, {"send"}) /\ Pairs(ready, ReplyFirst)
    BY DEF Turns
  <2> QED
    BY <2>1, <2>2, RepliesAside
<1> QED
  BY <1>1, TurnsRead, TurnsSent, TurnsReply DEF Next, MainThread, PoolThread, Environment

-----------------------------------------------------------------------------
LEMMA InvInit == Init => IInv
<1> SUFFICES ASSUME Init
             PROVE  IInv
  OBVIOUS
<1>1. Flags
  BY Zenon DEF Init, Flags
<1>2. Shape
  BY MaxRequestsAssumption, SizeMaxAssumption DEF Init, Shape, MainStates, PoolStates
<1>3. Fresh /\ Seen
  BY DEF Init, Fresh, Seen
<1>4. ~Queued(ready, {"recv"}) /\ ~Queued(ready, {"send"}) /\ RecvOk \notin ToSet(ready)
  BY DEF Init, Queued, ToSet
<1>5. /\ Single(ready, {"recv"}) /\ Single(ready, {"send"}) /\ Pairs(ready, ReplyFirst)
  BY DEF Init, Single, Pairs
<1>6. OneRead
  BY <1>4, <1>5 DEF Init, OneRead
<1>7. Between
  BY <1>4 DEF Init, Between
<1>8. Turns
  BY <1>5, <1>7 DEF Init, Turns
<1> QED
  BY <1>1, <1>2, <1>3, <1>6, <1>8 DEF IInv

LEMMA InvStep == IInv /\ [Next]_vars => IInv'
<1> SUFFICES ASSUME IInv, [Next]_vars
             PROVE  IInv'
  OBVIOUS
<1>1. Flags /\ Shape /\ Fresh /\ OneRead /\ Seen
  BY DEF IInv
<1>2. Flags' /\ Shape' /\ Fresh' /\ OneRead' /\ Seen'
  BY <1>1, FlagsStep, ShapeStep, FreshStep, OneReadStep, SeenStep
<1>3. patient' = patient
  BY DEF Next, MainThread, PoolThread, Environment, start, StartThrows, Received, vars,
         ReceiveFailed, Sent, SendFailed, Takes, SentPops, SentTests, SentWritesNext,
         SendFailedClears, SendFailedCloses, PoolReads, PoolTakes,
         PoolTests, PoolPushes, PoolWrites,
         PoolCompletes, Stop, Destroy, OsReadData, OsReadFails, OsWriteDone,
         OsWriteFails, ClientLeaves, peer
<1>4. patient => Turns
  BY DEF IInv
<1>5. patient' => Turns'
  BY <1>1, <1>3, <1>4, TurnsStep, Zenon
<1> QED
  BY <1>2, <1>5, Zenon DEF IInv

(* The session is in a phase of the read loop and, with a patient client,  *)
(* in a phase of a reply.                                                  *)
THEOREM Invariance == Spec => []IInv
BY InvInit, InvStep, PTL DEF Spec

(* Every variable keeps its type, whatever the client does: the counter    *)
(* active_sessions_ wraps and stays a size_t, and there is one read of the *)
(* socket at most.                                                         *)
THEOREM TypeCorrect == Spec => []TypeOK
<1>1. IInv => TypeOK
  <2> SUFFICES ASSUME Flags, Shape
               PROVE  TypeOK
    BY DEF IInv
  <2> QED
    BY Zenon DEF Flags, Shape, TypeOK, Handlers
<1> QED
  BY <1>1, Invariance, PTL

(* While session_stats_ has an entry for the session, the read loop holds  *)
(* the session in one form and no more: the read that will fail, and then  *)
(* erase the entry, is outstanding.                                        *)
THEOREM EntryIsTransientTheorem == Spec => []EntryIsTransient
<1>1. ASSUME Shape, OneRead, session_stats_
      PROVE  Cardinality(ReadsOutstanding) = 1
  <2> DEFINE P == {i \in DOMAIN posted : posted[i] = 0}
             R == {i \in DOMAIN ready : ready[i].op = "recv"}
  <2>1. ReadsOutstanding = ({"posted"} \X P) \cup ({"started"} \X (1..reads)) \cup ({"finished"} \X R)
    BY DEF ReadsOutstanding
  <2>2. \A i, j \in R : i = j
    BY <1>1 DEF OneRead, Single
  <2>3. Queued(ready, {"recv"}) <=> R # {}
    BY DEF Queued
  <2>4. posted = <<0>> => P = {1}
    OBVIOUS
  <2>5. posted # <<0>> => P = {}
    BY <1>1 DEF OneRead
  <2>6. reads = 0 \/ reads = 1
    BY <1>1 DEF Shape
  <2> HIDE DEF P, R
  <2>7. \E x : ReadsOutstanding = {x}
    <3>1. CASE posted = <<0>>
      <4>1. P = {1} /\ reads = 0 /\ R = {}
        BY <1>1, <2>3, <2>4, <3>1 DEF OneRead
      <4>2. 1..reads = {}
        BY <4>1
      <4>3. ReadsOutstanding = {<<"posted", 1>>}
        BY <2>1, <4>1, <4>2
      <4> QED
        BY <4>3
    <3>2. CASE reads = 1
      <4>1. P = {} /\ R = {}
        BY <1>1, <2>3, <2>5, <3>2 DEF OneRead
      <4>2. 1..reads = {1}
        BY <3>2
      <4>3. ReadsOutstanding = {<<"started", 1>>}
        BY <2>1, <4>1, <4>2
      <4> QED
        BY <4>3
    <3>3. CASE R # {}
      <4>1. P = {} /\ reads = 0
        BY <1>1, <2>3, <2>5, <3>3 DEF OneRead
      <4>2. 1..reads = {}
        BY <4>1
      <4>3. PICK i : R = {i}
        BY <2>2, <3>3
      <4>4. ReadsOutstanding = {<<"finished", i>>}
        BY <2>1, <4>1, <4>2, <4>3
      <4> QED
        BY <4>4
    <3> QED
      BY <1>1, <2>3, <3>1, <3>2, <3>3 DEF OneRead
  <2> QED
    BY <2>7, FS_Singleton
<1>2. IInv => EntryIsTransient
  BY <1>1, Zenon DEF IInv, EntryIsTransient
<1> QED
  BY <1>2, Invariance, PTL

(* A client that waits for each reply, and that each reply reaches only    *)
(* after the pool thread has left the call that sent it, never makes the   *)
(* two threads meet in write_queue_, although nothing in the code keeps    *)
(* them apart; it gets the replies in the order of its requests, and the   *)
(* buffer of a write that is under way is the only response in the queue.  *)
THEOREM PatientInOrderTheorem == Spec => []PatientInOrder
<1>1. ASSUME Turns
      PROVE  ~Race
  BY <1>1 DEF Turns, Race, Between, Answering, Writing, Written, Failing, Lost
<1>2. ASSUME Turns
      PROVE  /\ \A i \in DOMAIN wire : wire[i] = i
             /\ writes # <<>> => write_queue_ = writes
  BY <1>2 DEF Turns, Between, Answering, Writing, Written, Failing, Lost
<1>3. IInv => PatientInOrder
  BY <1>1, <1>2, Zenon DEF IInv, PatientInOrder
<1> QED
  BY <1>3, Invariance, PTL
=============================================================================
