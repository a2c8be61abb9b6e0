-------------------------- MODULE TcpClientProofs --------------------------
(***************************************************************************)
(* Proofs about TcpClient for every MaxSends: its type invariant, the      *)
(* invariants that say that the client runs one life at a time, never      *)
(* loses it while it should reconnect, notices every loss, and stays       *)
(* closed after close(), and that its queue of messages keeps the buffer   *)
(* of a write alive and implements Channel.                                *)
(***************************************************************************)
EXTENDS TcpClient, IoContextLemmas

(* No wait of the timer is ever aborted.                                   *)
Live == {h \in Handlers : h.op = "timer" => h.ec # "aborted"}

(* The types, with what they need to be inductive.  That reconnect_ is     *)
(* Boolean stands apart from the rest of TypeOK.                           *)
Shape ==
  /\ is_connected_ \in Status \ {"ERR"}
  /\ send_msgs_ \in Seq(Ids)
  /\ socket \in Sockets
  /\ pending \subseteq Ops
  /\ caller \in CallerStates
  /\ sender \in {"idle", "checked"}
  /\ io \in {"running", "arming", "returned", "undefined"}
  /\ accepted \in 0..MaxSends
  /\ writing \in 0..MaxSends
  /\ wire \in Seq(Ids)
  /\ orphans \subseteq Ids
  /\ overlap \subseteq Ops
  /\ notified \in Status
  /\ ready \in Seq(Live)
  /\ sender = "checked" => accepted < MaxSends
  /\ "send" \in pending => writing # 0

(* Before connect() nothing runs and nobody can send.                      *)
NewIsIdle ==
  caller = "new" => /\ pending = {} /\ ready = <<>> /\ io = "running"
                    /\ sender = "idle" /\ is_connected_ # "CONNECTED"

(* What was reported as connected has its read loop outstanding.           *)
NotifiedIsWatched == notified = "CONNECTED" => Awaits({"recv"})

(* While the client waits to reconnect, and after close(), the socket is   *)
(* closed; a closed socket has no operations.                              *)
TimerNeedsClosed ==
  /\ Awaits({"timer"}) \/ io = "arming" => socket = "closed"
  /\ socket = "closed" => pending \subseteq {"timer"}

(* From its first statement on close() keeps the client from rearming, and *)
(* once it has cancelled there is no timer left that would reconnect.      *)
CloseDisarmed ==
  /\ caller \notin {"new", "open"} => ~reconnect_
  /\ caller \in {"cancelled", "closed"} => ~Awaits({"timer"}) /\ io # "arming"
  /\ caller = "closed" => socket = "closed"

LifeCycle ==
  /\ NewIsIdle /\ SingleChain /\ ChainAlive
  /\ ConnectedIsWatched /\ NotifiedIsWatched
  /\ TimerNeedsClosed /\ CloseDisarmed


-----------------------------------------------------------------------------
(* What the shared functions of the handlers do to the operations that are *)
(* outstanding.                                                            *)

(* There are four kinds of operations.                                     *)
LEMMA OpsFinite == \A A \in SUBSET Ops : IsFiniteSet(A)
<1>1. IsFiniteSet(Ops)
  <2>1. IsFiniteSet({"connect"} \cup {"recv"} \cup {"send"} \cup {"timer"})
    BY FS_Singleton, FS_Union
  <2> QED
    BY <2>1 DEF Ops
<1> QED
  BY <1>1, FS_Subset

(* A finished operation makes a handler of the right type.                 *)
LEMMA DoneType ==
  /\ \A op \in Ops \ {"timer"}, ec \in Codes : Done(op, ec) \in Live
  /\ Done("timer", "ok") \in Live
BY DEF Done, Live, Handlers, Ops, Codes

(* The handler of op is taken from the queue.                              *)
LEMMA Taking ==
  ASSUME Shape, NEW op, Takes(op)
  PROVE  /\ io = "running" /\ ready # <<>>
         /\ Head(ready) \in Live /\ Head(ready).op = op
         /\ Tail(ready) \in Seq(Live)
         /\ \A S :
              /\ Awaits(S) <=> Outstanding(pending, Tail(ready), S) \/ op \in S
              /\ AtMostOne(pending, ready, S)
                   => AtMostOne(pending, Tail(ready), S)
              /\ AtMostOne(pending, ready, S) /\ op \in S
                   => ~Outstanding(pending, Tail(ready), S)
<1>1. ready \in Seq(Live) /\ ready # <<>> /\ io = "running" /\ Head(ready).op = op
  BY DEF Shape, Takes
<1>2. Head(ready) \in Live /\ Tail(ready) \in Seq(Live)
  BY <1>1
<1>3. ASSUME NEW S
      PROVE  /\ Awaits(S) <=> Outstanding(pending, Tail(ready), S) \/ op \in S
             /\ AtMostOne(pending, ready, S) => AtMostOne(pending, Tail(ready), S)
             /\ AtMostOne(pending, ready, S) /\ op \in S
                  => ~Outstanding(pending, Tail(ready), S)
  BY <1>1, TakeFacts DEF Awaits
<1> QED
  BY <1>1, <1>2, <1>3

(* doRecv() and doSend() start an operation.                               *)
LEMMA Starting ==
  ASSUME Shape, NEW q \in Seq(Live), NEW op \in {"recv", "send"}, Start(op, q)
  PROVE  /\ pending' \subseteq Ops /\ pending' \subseteq pending \cup {op}
         /\ overlap' \subseteq Ops
         /\ ready' \in Seq(Live)
         /\ socket = "closed" => pending' = pending
         /\ \A S :
              /\ Awaits(S)' <=> Outstanding(pending, q, S) \/ op \in S
              /\ AtMostOne(pending, q, S) /\ ~(op \in S /\ Outstanding(pending, q, S))
                   => AtMostOne(pending, ready, S)'
<1>1. pending \subseteq Ops /\ overlap \subseteq Ops /\ op \in Ops /\ op # "timer"
  BY DEF Shape, Ops
<1>2. overlap' \subseteq Ops
  BY <1>1 DEF Start
<1>3. CASE socket = "closed"
  <2>1. ready' = Append(q, Done(op, "failed")) /\ pending' = pending
    BY <1>3 DEF Start
  <2>2. Done(op, "failed") \in Live /\ Done(op, "failed").op = op
    BY <1>1, DoneType DEF Codes, Done
  <2>3. ASSUME NEW S
        PROVE  /\ ready' \in Seq(Live)
               /\ Awaits(S)' <=> Outstanding(pending, q, S) \/ op \in S
               /\ AtMostOne(pending, q, S) /\ ~(op \in S /\ Outstanding(pending, q, S))
                    => AtMostOne(pending, ready, S)'
    BY <2>1, <2>2, EnqueueFacts DEF Awaits
  <2> QED
    BY <1>1, <1>2, <2>1, <2>3
<1>4. CASE socket # "closed"
  <2>1. ready' = q /\ pending' = pending \cup {op}
    BY <1>4 DEF Start
  <2>2. ASSUME NEW S
        PROVE  /\ Awaits(S)' <=> Outstanding(pending, q, S) \/ op \in S
               /\ AtMostOne(pending, q, S) /\ ~(op \in S /\ Outstanding(pending, q, S))
                    => AtMostOne(pending, ready, S)'
    BY <2>1, AddFacts DEF Awaits
  <2> QED
    BY <1>1, <1>2, <1>4, <2>1, <2>2
<1> QED
  BY <1>3, <1>4

(* doReconnect() and close() abort what is pending on the socket.          *)
LEMMA AbortingIo ==
  ASSUME Shape, NEW q \in Seq(Live), NEW a \in Aborts(pending \ {"timer"}),
         ready' = q \o a, pending' = pending \cap {"timer"}
  PROVE  /\ ready' \in Seq(Live) /\ pending' \subseteq Ops
         /\ \A S : /\ Awaits(S)' <=> Outstanding(pending, q, S)
                   /\ AtMostOne(pending, q, S) => AtMostOne(pending, ready, S)'
<1> DEFINE A == pending \ {"timer"}
<1>1. pending \subseteq Ops /\ A \subseteq Ops \ {"timer"} /\ A \in SUBSET pending
  BY DEF Shape
<1>2. IsFiniteSet(A) /\ \A op \in A : Done(op, "aborted") \in Live
  BY <1>1, OpsFinite, DoneType DEF Codes
<1>3. pending' = pending \ A
  OBVIOUS
<1> HIDE DEF A
<1>4. ASSUME NEW S
      PROVE  /\ q \o a \in Seq(Live)
             /\ Outstanding(pending \ A, q \o a, S) <=> Outstanding(pending, q, S)
             /\ AtMostOne(pending, q, S) => AtMostOne(pending \ A, q \o a, S)
  BY <1>1, <1>2, AbortFacts DEF A
<1> QED
  BY <1>1, <1>3, <1>4 DEF Awaits

(* The operating system finishes a pending operation.                      *)
LEMMA Finishing ==
  ASSUME Shape, NEW op, NEW ec \in Codes, NEW sock, Finish(op, ec, sock),
         op = "timer" => ec = "ok"
  PROVE  /\ op \in pending /\ pending' = pending \ {op} /\ pending' \subseteq Ops
         /\ ready' \in Seq(Live)
         /\ \A S : /\ Awaits(S)' <=> Awaits(S)
                   /\ AtMostOne(pending, ready, S) => AtMostOne(pending, ready, S)'
<1>1. /\ op \in pending /\ pending' = pending \ {op} /\ pending \subseteq Ops
      /\ ready' = Append(ready, Done(op, ec)) /\ ready \in Seq(Live)
  BY DEF Shape, Finish
<1>2. Done(op, ec) \in Live
  BY <1>1, DoneType
<1>3. ASSUME NEW S
      PROVE  /\ ready' \in Seq(Live)
             /\ Awaits(S)' <=> Awaits(S)
             /\ AtMostOne(pending, ready, S) => AtMostOne(pending, ready, S)'
  BY <1>1, <1>2, FinishFacts DEF Awaits
<1> QED
  BY <1>1, <1>3

(* The timer is armed when nothing of the chain is outstanding, so that    *)
(* the new wait replaces none.                                             *)
LEMMA Arming ==
  ASSUME Shape, SingleChain, ArmTimer
  PROVE  /\ ready' \in Seq(Live) /\ pending' = pending \cup {"timer"}
         /\ overlap' = overlap /\ ~Awaits(Chain)
         /\ \A S : /\ Awaits(S)' <=> Awaits(S) \/ "timer" \in S
                   /\ AtMostOne(pending, ready, S) /\ ~("timer" \in S /\ Awaits(S))
                        => AtMostOne(pending, ready, S)'
<1>1. ~Awaits(Chain) /\ pending \cap {"timer"} = {}
  BY DEF ArmTimer, SingleChain, Awaits, Outstanding, Chain
<1>2. /\ pending' = pending \cup {"timer"} /\ overlap' = overlap
      /\ ready \in Seq(Live)
  BY <1>1 DEF ArmTimer, Shape
<1>3. PICK a \in Aborts({}) : ready' = ready \o a
  BY <1>1 DEF ArmTimer
<1>4. IsFiniteSet({}) /\ {} \in SUBSET pending /\ pending \ {} = pending
  BY FS_EmptySet
<1>5. ASSUME NEW S
      PROVE  /\ ready \o a \in Seq(Live)
             /\ Outstanding(pending, ready \o a, S) <=> Outstanding(pending, ready, S)
             /\ AtMostOne(pending, ready, S) => AtMostOne(pending, ready \o a, S)
  <2>1. /\ ready \o a \in Seq(Live)
        /\ Outstanding(pending \ {}, ready \o a, S) <=> Outstanding(pending, ready, S)
        /\ AtMostOne(pending, ready, S) => AtMostOne(pending \ {}, ready \o a, S)
    BY <1>2, <1>4, AbortFacts
  <2> QED
    BY <1>4, <2>1
<1>6. ASSUME NEW S
      PROVE  /\ Awaits(S)' <=> Awaits(S) \/ "timer" \in S
             /\ AtMostOne(pending, ready, S) /\ ~("timer" \in S /\ Awaits(S))
                  => AtMostOne(pending, ready, S)'
  BY <1>2, <1>3, <1>5, AddFacts DEF Awaits
<1> QED
  BY <1>1, <1>2, <1>3, <1>5, <1>6

-----------------------------------------------------------------------------
(* Types.                                                                  *)

(* The initial state has its types.                                        *)
LEMMA ShapeInit == Init => Shape
BY MaxSendsAssumption DEF Init, Shape, Status, Sockets, CallerStates

(* Every step keeps the types, one proof step per action; the lemmas above *)
(* give the types of the queue and of the pending set.                     *)
LEMMA ShapeStep == Shape /\ SingleChain /\ [Next]_vars => Shape'
<1> SUFFICES ASSUME Shape, SingleChain, [Next]_vars
             PROVE  Shape'
  OBVIOUS
<1> USE MaxSendsAssumption DEF Shape, Status, Sockets, CallerStates, Ids
<1>1. ASSUME NEW reconnect \in BOOLEAN, connect(reconnect)
      PROVE  Shape'
  BY <1>1 DEF connect, doConnect, Ops
<1>2. CASE SendChecks
  BY <1>2 DEF SendChecks, history
<1>3. CASE SendPosts
  <2>1. Posted(accepted + 1) \in Live
    BY <1>3 DEF SendPosts, Posted, Live, Handlers
  <2> QED
    BY <1>3, <2>1 DEF SendPosts
<1>4. CASE close
  <2>1. UNCHANGED <<sender, io, history>>
    BY <1>4 DEF close
  <2>2. CASE CloseDisarms
    BY <2>1, <2>2 DEF CloseDisarms, history
  <2>3. CASE CloseMarks
    BY <2>1, <2>3 DEF CloseMarks, history
  <2>4. CASE CloseThrows
    BY <2>1, <2>4 DEF CloseThrows, history
  <2>5. CASE CloseCancels
    <3>1. ready' \in Seq(Live) /\ pending' \subseteq Ops
      BY <2>5, AbortingIo DEF CloseCancels
    <3> QED
      BY <2>1, <2>5, <3>1 DEF CloseCancels, history
  <2>6. CASE CloseCloses
    <3>1. ready' \in Seq(Live) /\ pending' \subseteq Ops
      BY <2>6, AbortingIo DEF CloseCloses
    <3> QED
      BY <2>1, <2>6, <3>1 DEF CloseCloses, history
  <2> QED
    BY <1>4, <2>2, <2>3, <2>4, <2>5, <2>6 DEF close
<1>5. CASE Connected
  <2>1. Tail(ready) \in Seq(Live)
    BY <1>5, Taking DEF Connected
  <2>2. /\ pending' \subseteq Ops /\ pending' \subseteq pending \cup {"recv"}
        /\ overlap' \subseteq Ops /\ ready' \in Seq(Live)
    BY <1>5, <2>1, Starting DEF Connected, doRecv
  <2>3. ToSet(send_msgs_) \subseteq Ids
    BY DEF ToSet
  <2> QED
    BY <1>5, <2>2, <2>3 DEF Connected, doConnectCb
<1>6. CASE ConnectFailed \/ ReceiveFailed
  <2>1. Tail(ready) \in Seq(Live)
    BY <1>6, Taking DEF ConnectFailed, ReceiveFailed
  <2>2. doReconnect(Tail(ready))
    BY <1>6 DEF ConnectFailed, ReceiveFailed
  <2>3. ready' \in Seq(Live) /\ pending' \subseteq Ops /\ pending' = pending \cap {"timer"}
    BY <2>1, <2>2, AbortingIo DEF doReconnect
  <2>4. /\ UNCHANGED <<reconnect_, caller, sender, accepted, writing, wire,
                      orphans, overlap>>
        /\ notified' \in Status
    BY <1>6 DEF ConnectFailed, ReceiveFailed, doConnectCb
  <2> QED
    BY <2>2, <2>3, <2>4 DEF doReconnect
<1>7. CASE ArmTimer
  <2>1. ready' \in Seq(Live) /\ pending' = pending \cup {"timer"} /\ overlap' = overlap
    BY <1>7, Arming
  <2> QED
    BY <1>7, <2>1 DEF ArmTimer, Ops
<1>8. CASE Reconnect
  <2>1. Tail(ready) \in Seq(Live)
    BY <1>8, Taking DEF Reconnect
  <2>2. CASE Head(ready).ec = "aborted"
    <3>1. ready' = Tail(ready) /\ UNCHANGED <<is_connected_, socket, pending, overlap>>
      BY <1>8, <2>2 DEF Reconnect
    <3> QED
      BY <1>8, <2>1, <3>1 DEF Reconnect
  <2>3. CASE Head(ready).ec # "aborted"
    <3>1. /\ is_connected_' = "CONNECTING" /\ socket' = "opening"
          /\ ready' = Tail(ready) /\ pending' = pending \cup {"connect"}
          /\ overlap' = overlap \cup ({"connect"} \cap pending)
      BY <1>8, <2>3 DEF Reconnect, doConnect
    <3>2. pending' \subseteq Ops /\ overlap' \subseteq Ops
      BY <3>1 DEF Ops
    <3> QED
      BY <1>8, <2>1, <3>1, <3>2 DEF Reconnect
  <2> QED
    BY <2>2, <2>3
<1>9. CASE Received
  <2>1. Tail(ready) \in Seq(Live)
    BY <1>9, Taking DEF Received
  <2>2. /\ pending' \subseteq Ops /\ pending' \subseteq pending \cup {"recv"}
        /\ overlap' \subseteq Ops /\ ready' \in Seq(Live)
    BY <1>9, <2>1, Starting DEF Received, doRecv
  <2> QED
    BY <1>9, <2>2 DEF Received
<1>10. CASE Enqueue
  <2>1. Tail(ready) \in Seq(Live) /\ Head(ready).msg \in Ids
    <3>1. Tail(ready) \in Seq(Live) /\ Head(ready) \in Live /\ Head(ready).op = "post"
      BY <1>10, Taking DEF Enqueue
    <3> QED
      BY <3>1 DEF Live, Handlers, Ops
  <2>2. CASE send_msgs_ = <<>>
    <3>1. /\ pending' \subseteq Ops /\ overlap' \subseteq Ops /\ ready' \in Seq(Live)
      BY <1>10, <2>1, <2>2, Starting DEF Enqueue, doSend
    <3>2. writing' \in Ids /\ send_msgs_' \in Seq(Ids)
      BY <1>10, <2>1, <2>2 DEF Enqueue, doSend
    <3> QED
      BY <1>10, <3>1, <3>2 DEF Enqueue
  <2>3. CASE send_msgs_ # <<>>
    <3>1. ready' = Tail(ready) /\ UNCHANGED <<pending, writing, overlap>>
      BY <1>10, <2>3 DEF Enqueue
    <3>2. send_msgs_' \in Seq(Ids)
      BY <1>10, <2>1 DEF Enqueue
    <3> QED
      BY <1>10, <2>1, <3>1, <3>2 DEF Enqueue
  <2> QED
    BY <2>2, <2>3
<1>11. CASE Sent
  <2>1. Tail(ready) \in Seq(Live)
    BY <1>11, Taking DEF Sent
  <2>2. Tail(send_msgs_) \in Seq(Ids)
    BY <1>11 DEF Sent
  <2>3. CASE Tail(send_msgs_) # <<>>
    <3>1. /\ pending' \subseteq Ops /\ overlap' \subseteq Ops /\ ready' \in Seq(Live)
      BY <1>11, <2>1, <2>3, Starting DEF Sent, doSend
    <3>2. writing' \in Ids
      <4>1. writing' = Head(Tail(send_msgs_))
        BY <1>11, <2>3 DEF Sent, doSend
      <4>2. \A q \in Seq(Ids) : q # <<>> => Head(q) \in Ids
        OBVIOUS
      <4> QED
        BY <2>2, <2>3, <4>1, <4>2
    <3> QED
      BY <1>11, <2>2, <3>1, <3>2 DEF Sent
  <2>4. CASE Tail(send_msgs_) = <<>>
    <3>1. ready' = Tail(ready) /\ UNCHANGED <<pending, writing, overlap>>
      BY <1>11, <2>4 DEF Sent
    <3> QED
      BY <1>11, <2>1, <2>2, <3>1 DEF Sent
  <2> QED
    BY <2>3, <2>4
<1>12. CASE SentNothingQueued
  BY <1>12, Taking DEF SentNothingQueued, history
<1>13. CASE SendFailed
  BY <1>13, Taking DEF SendFailed, doConnectCb
<1>14. CASE RunReturns
  BY <1>14 DEF RunReturns, history
<1>15. ASSUME NEW op, NEW ec \in Codes, NEW sock \in Sockets, Finish(op, ec, sock),
              op = "timer" => ec = "ok", wire' \in Seq(Ids)
       PROVE  Shape'
  BY <1>15, Finishing DEF Finish
<1>16. CASE Environment
  <2>1. CASE OsConnect
    BY <1>15, <2>1 DEF OsConnect, Codes
  <2>2. CASE OsReadData
    BY <1>15, <2>2 DEF OsReadData, Codes
  <2>3. CASE OsReadFails
    BY <1>15, <2>3 DEF OsReadFails, Codes
  <2>4. CASE OsWriteDone
    <3>1. writing \in Ids
      BY <2>4 DEF OsWriteDone, Finish
    <3> QED
      BY <1>15, <2>4, <3>1 DEF OsWriteDone, Codes
  <2>5. CASE OsWriteFails
    BY <1>15, <2>5 DEF OsWriteFails, Codes
  <2>6. CASE OsTimer
    BY <1>15, <2>6 DEF OsTimer, Codes
  <2> QED
    BY <1>16, <2>1, <2>2, <2>3, <2>4, <2>5, <2>6 DEF Environment, OsWrite
<1>17. CASE UNCHANGED vars
  BY <1>17 DEF vars, state, history
<1> QED
  BY <1>1, <1>2, <1>3, <1>4, <1>5, <1>6, <1>7, <1>8, <1>9, <1>10, <1>11,
     <1>12, <1>13, <1>14, <1>16, <1>17 DEF Next, send, IoThread

-----------------------------------------------------------------------------
(* The life of the connection.                                             *)

(* What is outstanding in a part of the chain is outstanding in the chain. *)
LEMMA InChain ==
  \A p, q : Outstanding(p, q, {"timer"}) \/ Outstanding(p, q, {"recv"})
              => Outstanding(p, q, Chain)
BY DEF Outstanding, Queued, Chain

(* Nothing is outstanding before connect().                                *)
LEMMA LifeInit == Init => LifeCycle
<1>1. Init => ~Awaits(Chain) /\ ~Awaits({"timer"}) /\ ~Awaits({"recv"})
  BY DEF Init, Awaits, Outstanding, Queued
<1>2. Init => AtMostOne(pending, ready, Chain)
  BY DEF Init, AtMostOne, Single, Queued
<1> QED
  BY <1>1, <1>2 DEF Init, LifeCycle, NewIsIdle, SingleChain, ChainAlive,
     ConnectedIsWatched, NotifiedIsWatched, TimerNeedsClosed, CloseDisarmed

(* Every step keeps the life cycle, one proof step per action.             *)
LEMMA LifeStep == Shape /\ LifeCycle /\ [Next]_vars => LifeCycle'
<1> SUFFICES ASSUME Shape, LifeCycle, [Next]_vars
             PROVE  LifeCycle'
  OBVIOUS
<1> USE DEF LifeCycle, NewIsIdle, SingleChain, ChainAlive, ConnectedIsWatched,
            NotifiedIsWatched, TimerNeedsClosed, CloseDisarmed
<1>0. /\ "connect" \in Chain /\ "recv" \in Chain /\ "timer" \in Chain
      /\ "send" \notin Chain /\ "post" \notin Chain
  BY DEF Chain
<1>1. ASSUME NEW reconnect \in BOOLEAN, connect(reconnect)
      PROVE  LifeCycle'
  <2>1. /\ pending = {} /\ ready = <<>> /\ io = "running" /\ socket' = "opening"
        /\ pending' = {"connect"} /\ ready' = <<>> /\ caller' = "open"
        /\ is_connected_' = "CONNECTING" /\ UNCHANGED <<io, notified>>
    BY <1>1 DEF connect, doConnect
  <2>2. /\ Awaits(Chain)' /\ ~Awaits({"timer"})' /\ ~Awaits({"recv"})
        /\ AtMostOne(pending, ready, Chain)'
    BY <1>0, <2>1 DEF Awaits, Outstanding, AtMostOne, Queued, Single
  <2> QED
    BY <2>1, <2>2
<1>2. CASE SendChecks
  <2>1. UNCHANGED <<pending, ready>>
    BY <1>2 DEF SendChecks
  <2>2. /\ \A S : Awaits(S)' <=> Awaits(S)
        /\ AtMostOne(pending, ready, Chain)' <=> AtMostOne(pending, ready, Chain)
    BY <2>1 DEF Awaits
  <2> QED
    BY <1>2, <2>2 DEF SendChecks, history
<1>3. CASE SendPosts
  <2>1. /\ Posted(accepted + 1) \in Live /\ Posted(accepted + 1).op = "post"
        /\ ready \in Seq(Live) /\ pending' = pending
        /\ ready' = Append(ready, Posted(accepted + 1))
    BY <1>3, MaxSendsAssumption DEF SendPosts, Posted, Live, Handlers, Shape, Ids
  <2>2. ASSUME NEW S, "post" \notin S
        PROVE  /\ Awaits(S)' <=> Awaits(S)
               /\ AtMostOne(pending, ready, S) => AtMostOne(pending, ready, S)'
    BY <2>1, <2>2, EnqueueFacts DEF Awaits
  <2>3. /\ Awaits(Chain)' <=> Awaits(Chain)
        /\ Awaits({"timer"})' <=> Awaits({"timer"})
        /\ Awaits({"recv"})' <=> Awaits({"recv"})
        /\ AtMostOne(pending, ready, Chain) => AtMostOne(pending, ready, Chain)'
    BY <1>0, <2>2
  <2> QED
    BY <1>3, <2>3 DEF SendPosts
<1>4. CASE Connected
  <2>1. /\ io = "running" /\ Tail(ready) \in Seq(Live)
        /\ ~Outstanding(pending, Tail(ready), Chain)
        /\ AtMostOne(pending, Tail(ready), Chain)
    BY <1>0, <1>4, Taking DEF Connected
  <2>2. /\ ~Outstanding(pending, Tail(ready), {"timer"})
        /\ ~Outstanding(pending, Tail(ready), {"recv"})
    BY <2>1, InChain
  <2>3. /\ Awaits(Chain)' /\ Awaits({"recv"})' /\ ~Awaits({"timer"})'
        /\ AtMostOne(pending, ready, Chain)'
        /\ pending' \subseteq pending \cup {"recv"}
        /\ socket = "closed" => pending' = pending
    BY <1>0, <1>4, <2>1, <2>2, Starting DEF Connected, doRecv
  <2>4. caller # "new"
    BY <1>4 DEF Connected, Takes
  <2> QED
    BY <1>4, <2>1, <2>3, <2>4 DEF Connected
<1>5. CASE ConnectFailed \/ ReceiveFailed
  <2>1. PICK op \in {"connect", "recv"} : Takes(op)
    BY <1>5 DEF ConnectFailed, ReceiveFailed
  <2>2. /\ ready # <<>> /\ Tail(ready) \in Seq(Live)
        /\ ~Outstanding(pending, Tail(ready), Chain)
        /\ AtMostOne(pending, Tail(ready), Chain)
    BY <1>0, <2>1, Taking
  <2>3. doReconnect(Tail(ready))
    BY <1>5 DEF ConnectFailed, ReceiveFailed
  <2>4. /\ ~Awaits(Chain)' /\ AtMostOne(pending, ready, Chain)'
        /\ pending' = pending \cap {"timer"}
    BY <2>2, <2>3, AbortingIo DEF doReconnect
  <2>5. ~Awaits({"timer"})' /\ ~Awaits({"recv"})'
    BY <2>4, InChain DEF Awaits
  <2>6. /\ UNCHANGED <<reconnect_, caller>> /\ notified' # "CONNECTED"
    BY <1>5 DEF ConnectFailed, ReceiveFailed, doConnectCb
  <2> QED
    BY <2>2, <2>3, <2>4, <2>5, <2>6 DEF doReconnect
<1>6. CASE ArmTimer
  <2>1. /\ ~Awaits(Chain) /\ pending' = pending \cup {"timer"}
        /\ Awaits(Chain)' /\ Awaits({"timer"})'
        /\ Awaits({"recv"})' <=> Awaits({"recv"})
        /\ AtMostOne(pending, ready, Chain)'
    BY <1>0, <1>6, Arming
  <2> QED
    BY <1>6, <2>1 DEF ArmTimer
<1>7. CASE Reconnect
  <2>1. /\ io = "running" /\ ready # <<>> /\ Tail(ready) \in Seq(Live)
        /\ ~Outstanding(pending, Tail(ready), Chain)
        /\ AtMostOne(pending, Tail(ready), Chain)
        /\ Awaits({"timer"}) /\ Awaits(Chain)
    BY <1>0, <1>7, Taking DEF Reconnect
  <2>2. /\ ~Outstanding(pending, Tail(ready), {"timer"})
        /\ ~Outstanding(pending, Tail(ready), {"recv"})
    BY <2>1, InChain
  <2>3. Head(ready).ec # "aborted"
    BY <1>7, Taking DEF Reconnect, Live
  <2>4. /\ ready' = Tail(ready) /\ pending' = pending \cup {"connect"}
        /\ is_connected_' = "CONNECTING" /\ socket' = "opening"
        /\ UNCHANGED <<reconnect_, caller, io, notified>>
    BY <1>7, <2>3 DEF Reconnect, doConnect
  <2>5. /\ Awaits(Chain)' /\ ~Awaits({"timer"})' /\ ~Awaits({"recv"})'
        /\ AtMostOne(pending, ready, Chain)'
    <3>1. ASSUME NEW S
          PROVE  /\ Awaits(S)' <=> Outstanding(pending, Tail(ready), S) \/ "connect" \in S
                 /\ /\ AtMostOne(pending, Tail(ready), S)
                    /\ ~("connect" \in S /\ Outstanding(pending, Tail(ready), S))
                    => AtMostOne(pending, ready, S)'
      BY <2>4, AddFacts DEF Awaits
    <3> QED
      BY <1>0, <2>1, <2>2, <3>1
  <2>6. ~Awaits({"recv"})
    BY <1>0, <1>7, <2>2, Taking DEF Reconnect
  <2> QED
    BY <2>1, <2>4, <2>5, <2>6
<1>8. CASE Received
  <2>1. /\ io = "running" /\ ready # <<>> /\ Tail(ready) \in Seq(Live)
        /\ ~Outstanding(pending, Tail(ready), Chain)
        /\ AtMostOne(pending, Tail(ready), Chain)
    BY <1>0, <1>8, Taking DEF Received
  <2>2. ~Outstanding(pending, Tail(ready), {"timer"})
    BY <2>1, InChain
  <2>3. /\ Awaits(Chain)' /\ Awaits({"recv"})' /\ ~Awaits({"timer"})'
        /\ AtMostOne(pending, ready, Chain)'
        /\ pending' \subseteq pending \cup {"recv"}
        /\ socket = "closed" => pending' = pending
    BY <1>0, <1>8, <2>1, <2>2, Starting DEF Received, doRecv
  <2> QED
    BY <1>8, <2>1, <2>3 DEF Received
(* A step that changes no operation of the chain, and neither the calls of *)
(* the application nor the socket.                                         *)
<1>9. ASSUME \A S : "send" \notin S /\ "post" \notin S =>
               /\ Awaits(S)' <=> Awaits(S)
               /\ AtMostOne(pending, ready, S) => AtMostOne(pending, ready, S)',
             pending' \subseteq pending \cup {"send"},
             socket = "closed" => pending' = pending,
             UNCHANGED <<reconnect_, caller, socket>>,
             io' = io \/ (io = "running" /\ io' \in {"undefined", "returned"}),
             ready # <<>> \/ caller # "new",
             \/ UNCHANGED <<is_connected_, notified>>
             \/ is_connected_' # "CONNECTED" /\ notified' # "CONNECTED"
      PROVE  LifeCycle'
  <2>1. /\ Awaits(Chain)' <=> Awaits(Chain)
        /\ Awaits({"timer"})' <=> Awaits({"timer"})
        /\ Awaits({"recv"})' <=> Awaits({"recv"})
        /\ AtMostOne(pending, ready, Chain) => AtMostOne(pending, ready, Chain)'
    BY <1>0, <1>9
  <2>2. NewIsIdle' /\ SingleChain'
    BY <1>9, <2>1
  <2>3. ChainAlive'
    BY <1>9, <2>1
  <2>4. ConnectedIsWatched' /\ NotifiedIsWatched'
    BY <1>9, <2>1
  <2>5. TimerNeedsClosed'
    BY <1>9, <2>1
  <2>6. CloseDisarmed'
    BY <1>9, <2>1
  <2> QED
    BY <2>2, <2>3, <2>4, <2>5, <2>6
<1>10. ASSUME Takes("post") \/ Takes("send"),
              \/ Start("send", Tail(ready))
              \/ ready' = Tail(ready) /\ pending' = pending
       PROVE  /\ \A S : "send" \notin S /\ "post" \notin S =>
                     /\ Awaits(S)' <=> Awaits(S)
                     /\ AtMostOne(pending, ready, S) => AtMostOne(pending, ready, S)'
              /\ pending' \subseteq pending \cup {"send"}
              /\ socket = "closed" => pending' = pending
              /\ io = "running" /\ ready # <<>>
  <2>1. /\ io = "running" /\ ready # <<>> /\ Tail(ready) \in Seq(Live)
        /\ \A S : "send" \notin S /\ "post" \notin S =>
              /\ Awaits(S) <=> Outstanding(pending, Tail(ready), S)
              /\ AtMostOne(pending, ready, S) => AtMostOne(pending, Tail(ready), S)
    BY <1>10, Taking
  <2>2. CASE Start("send", Tail(ready))
    BY <2>1, <2>2, Starting
  <2>3. CASE ready' = Tail(ready) /\ pending' = pending
    BY <2>1, <2>3 DEF Awaits
  <2> QED
    BY <1>10, <2>2, <2>3
<1>11. CASE Enqueue
  <2>1. /\ Takes("post")
        /\ Start("send", Tail(ready)) \/ (ready' = Tail(ready) /\ pending' = pending)
        /\ UNCHANGED <<reconnect_, is_connected_, socket, caller, io, notified>>
    <3>1. send_msgs_ = <<>> => Start("send", Tail(ready))
      BY <1>11 DEF Enqueue, doSend
    <3>2. send_msgs_ # <<>> => ready' = Tail(ready) /\ pending' = pending
      BY <1>11 DEF Enqueue
    <3> QED
      BY <1>11, <3>1, <3>2 DEF Enqueue
  <2>2. /\ \A S : "send" \notin S /\ "post" \notin S =>
              /\ Awaits(S)' <=> Awaits(S)
              /\ AtMostOne(pending, ready, S) => AtMostOne(pending, ready, S)'
        /\ pending' \subseteq pending \cup {"send"}
        /\ socket = "closed" => pending' = pending
        /\ io = "running" /\ ready # <<>>
    BY <1>10, <2>1
  <2> QED
    BY <1>9, <2>1, <2>2
<1>12. CASE Sent
  <2>1. /\ Takes("send")
        /\ Start("send", Tail(ready)) \/ (ready' = Tail(ready) /\ pending' = pending)
        /\ UNCHANGED <<reconnect_, is_connected_, socket, caller, io, notified>>
    <3>1. Tail(send_msgs_) # <<>> => Start("send", Tail(ready))
      BY <1>12 DEF Sent, doSend
    <3>2. Tail(send_msgs_) = <<>> => ready' = Tail(ready) /\ pending' = pending
      BY <1>12 DEF Sent
    <3> QED
      BY <1>12, <3>1, <3>2 DEF Sent
  <2>2. /\ \A S : "send" \notin S /\ "post" \notin S =>
              /\ Awaits(S)' <=> Awaits(S)
              /\ AtMostOne(pending, ready, S) => AtMostOne(pending, ready, S)'
        /\ pending' \subseteq pending \cup {"send"}
        /\ socket = "closed" => pending' = pending
        /\ io = "running" /\ ready # <<>>
    BY <1>10, <2>1
  <2> QED
    BY <1>9, <2>1, <2>2
<1>13. CASE SentNothingQueued
  BY <1>9, <1>10, <1>13 DEF SentNothingQueued, history
<1>14. CASE SendFailed
  <2>1. /\ Takes("send")
        /\ ready' = Tail(ready) /\ pending' = pending
        /\ UNCHANGED <<reconnect_, socket, caller, io>>
        /\ is_connected_' # "CONNECTED" /\ notified' # "CONNECTED"
    BY <1>14 DEF SendFailed, doConnectCb
  <2>2. /\ \A S : "send" \notin S /\ "post" \notin S =>
              /\ Awaits(S)' <=> Awaits(S)
              /\ AtMostOne(pending, ready, S) => AtMostOne(pending, ready, S)'
        /\ pending' \subseteq pending \cup {"send"}
        /\ socket = "closed" => pending' = pending
        /\ io = "running" /\ ready # <<>>
    BY <1>10, <2>1
  <2> QED
    BY <1>9, <2>1, <2>2
<1>15. CASE RunReturns
  BY <1>9, <1>15 DEF RunReturns, history, Awaits
<1>16. CASE close
  <2>1. UNCHANGED <<sender, io, history>>
    BY <1>16 DEF close
  <2>2. CASE CloseDisarms \/ CloseMarks \/ CloseThrows
    <3>1. /\ UNCHANGED <<pending, ready, socket>>
          /\ caller \notin {"new", "cancelled"}
          /\ caller' \in {"disarmed", "marked", "threw"}
          /\ ~reconnect_'
          /\ is_connected_' = is_connected_ \/ is_connected_' # "CONNECTED"
      BY <2>2 DEF CloseDisarms, CloseMarks, CloseThrows
    <3>2. /\ \A S : Awaits(S)' <=> Awaits(S)
          /\ AtMostOne(pending, ready, Chain)' <=> AtMostOne(pending, ready, Chain)
      BY <3>1 DEF Awaits
    <3> QED
      BY <2>1, <3>1, <3>2 DEF history
  <2>3. CASE CloseCancels \/ CloseCloses
    <3>1. /\ UNCHANGED <<reconnect_, is_connected_>>
          /\ \/ /\ caller = "marked" /\ caller' = "cancelled"
                /\ socket # "closed" /\ socket' = socket
             \/ caller = "cancelled" /\ caller' = "closed" /\ socket' = "closed"
          /\ pending' = pending \cap {"timer"}
          /\ \E a \in Aborts(pending \ {"timer"}) : ready' = ready \o a
      BY <2>3 DEF CloseCancels, CloseCloses
    <3>2. /\ \A S : Awaits(S)' <=> Awaits(S)
          /\ AtMostOne(pending, ready, Chain) => AtMostOne(pending, ready, Chain)'
      BY <3>1, AbortingIo DEF Shape, Awaits
    <3> QED
      BY <2>1, <3>1, <3>2 DEF history
  <2> QED
    BY <1>16, <2>2, <2>3 DEF close
<1>17. ASSUME NEW op, NEW ec \in Codes, NEW sock, Finish(op, ec, sock),
              op = "timer" => ec = "ok" /\ sock = socket,
              socket # "closed" => sock # "closed"
       PROVE  LifeCycle'
  <2>1. /\ op \in pending /\ pending' = pending \ {op}
        /\ \A S : /\ Awaits(S)' <=> Awaits(S)
                  /\ AtMostOne(pending, ready, S) => AtMostOne(pending, ready, S)'
    BY <1>17, Finishing
  <2>2. op # "timer" => socket # "closed" /\ socket' # "closed"
    BY <1>17, <2>1 DEF Finish
  <2> QED
    BY <1>17, <2>1, <2>2 DEF Finish
<1>18. CASE Environment
  <2>1. CASE OsConnect
    BY <1>17, <2>1 DEF OsConnect, Codes
  <2>2. CASE OsReadData
    BY <1>17, <2>2 DEF OsReadData, Codes
  <2>3. CASE OsReadFails
    BY <1>17, <2>3 DEF OsReadFails, Codes
  <2>4. CASE OsWriteDone
    BY <1>17, <2>4 DEF OsWriteDone, Codes
  <2>5. CASE OsWriteFails
    BY <1>17, <2>5 DEF OsWriteFails, Codes
  <2>6. CASE OsTimer
    BY <1>17, <2>6 DEF OsTimer, Codes
  <2> QED
    BY <1>18, <2>1, <2>2, <2>3, <2>4, <2>5, <2>6 DEF Environment, OsWrite
<1>19. CASE UNCHANGED vars
  <2>1. /\ \A S : Awaits(S)' <=> Awaits(S)
        /\ AtMostOne(pending, ready, Chain)' <=> AtMostOne(pending, ready, Chain)
    BY <1>19 DEF vars, state, Awaits
  <2> QED
    BY <1>19, <2>1 DEF vars, state, history
<1> QED
  BY <1>1, <1>2, <1>3, <1>4, <1>5, <1>6, <1>7, <1>8, <1>11, <1>12, <1>13,
     <1>14, <1>15, <1>16, <1>18, <1>19 DEF Next, send, IoThread

-----------------------------------------------------------------------------
(* The queue of messages and the write of its front.                       *)

SendOk == Done("send", "ok")

(* The handlers that change the queue of messages, and the order in which  *)
(* they may wait: the posts in the order of send(), and a finished write   *)
(* neither behind another nor behind the timer.                            *)
Tracked == {h \in Live : h.op = "post" \/ h = SendOk}
Follows == {p \in Live \X Live :
              /\ p[1].op = "post" /\ p[2].op = "post" => p[1].msg < p[2].msg
              /\ p[2] = SendOk => p[1].op # "timer" /\ p[1] # SendOk}
Older == {p \in Ids \X Ids : p[1] < p[2]}

(* The numbers of messages: those written and those in the queue are older *)
(* than those posted, and those written are older than all that follow the *)
(* front, and than the front while it is being written.                    *)
InLine ==
  /\ Pairs(ready, Follows)
  /\ Pairs(send_msgs_, Older)
  /\ \A m \in ToSet(send_msgs_) \cup ToSet(wire) :
       m <= accepted /\ \A n \in Posts(ready) : m < n
  /\ \A n \in Posts(ready) : n <= accepted
  /\ \A m \in ToSet(wire), n \in ToSet(send_msgs_) :
       n # Head(send_msgs_) \/ "send" \in pending => m < n

(* A write is of the front, and no other write has finished whose handler  *)
(* would remove the front; on an open socket an empty queue has no write   *)
(* left over.                                                              *)
FrontIsSafe ==
  /\ "send" \in pending =>
       send_msgs_ # <<>> /\ Head(send_msgs_) = writing /\ SendOk \notin ToSet(ready)
  /\ socket # "closed" /\ send_msgs_ = <<>> => SendOk \notin ToSet(ready)
  /\ overlap = {}

Written == InLine /\ FrontIsSafe

(* What every step does that neither queues a message nor starts or        *)
(* finishes a write successfully.                                          *)
Quietly ==
  /\ Quieter(ready', ready, Follows, Tracked)
  /\ UNCHANGED <<accepted, writing, wire, overlap>>
  /\ \/ UNCHANGED send_msgs_
     \/ send_msgs_' = <<>> /\ socket' = "closed" /\ "send" \notin pending'
  /\ "send" \in pending' => "send" \in pending
  /\ socket = "closed" /\ socket' # "closed" => SendOk \notin ToSet(ready')

(* What the order of handlers means.                                       *)
LEMMA FollowsFacts ==
  /\ \A g \in Live, h \in Live \ Tracked : <<g, h>> \in Follows
  /\ \A g, h \in Live :
       <<g, h>> \in Follows <=>
         /\ g.op = "post" /\ h.op = "post" => g.msg < h.msg
         /\ h = SendOk => g.op # "timer" /\ g # SendOk
BY DEF Follows, Tracked

(* A finished operation is not tracked, unless it is a write.              *)
LEMMA UntrackedFacts ==
  /\ \A op \in Ops, ec \in Codes :
       Done(op, ec) \in Live /\ (op # "send" \/ ec # "ok") => Done(op, ec) \in Live \ Tracked
  /\ SendOk \in Live /\ SendOk.op = "send"
BY DoneType DEF Done, Ops, Codes, Tracked, SendOk

(* A handler is taken, and others are added that are not tracked.          *)
LEMMA Quietens ==
  ASSUME Shape, NEW q \in Seq(Live), Quieter(q, ready, Follows, Tracked)
  PROVE  /\ \A op \in {"recv", "send"} :
              Start(op, q) => Quieter(ready', ready, Follows, Tracked)
         /\ \A a \in Aborts(pending \ {"timer"}) :
              Quieter(q \o a, ready, Follows, Tracked)
         /\ \A h \in Live \ Tracked : Quieter(Append(q, h), ready, Follows, Tracked)
<1>1. /\ \A h \in Live \ Tracked : Quieter(Append(q, h), q, Follows, Tracked)
      /\ \A a \in Seq(Live) : ToSet(a) \cap Tracked = {}
           => Quieter(q \o a, q, Follows, Tracked)
  BY FollowsFacts, QuieterFacts
<1>2. ASSUME NEW h \in Live \ Tracked
      PROVE  Quieter(Append(q, h), ready, Follows, Tracked)
  BY <1>1, QuieterTwice
<1>3. ASSUME NEW op \in {"recv", "send"}, Start(op, q)
      PROVE  Quieter(ready', ready, Follows, Tracked)
  <2>1. Done(op, "failed") \in Live \ Tracked
    BY DoneType, UntrackedFacts DEF Ops, Codes
  <2>2. ready' = q \/ ready' = Append(q, Done(op, "failed"))
    BY <1>3 DEF Start
  <2> QED
    BY <1>2, <2>1, <2>2
<1>4. ASSUME NEW a \in Aborts(pending \ {"timer"})
      PROVE  Quieter(q \o a, ready, Follows, Tracked)
  <2> DEFINE A == pending \ {"timer"}
  <2>1. A \subseteq Ops \ {"timer"} /\ IsFiniteSet(A)
    BY OpsFinite DEF Shape
  <2>2. \A op \in A : Done(op, "aborted") \in Live /\ Done(op, "aborted") \notin Tracked
    BY <2>1, DoneType, UntrackedFacts DEF Codes
  <2> HIDE DEF A
  <2>3. a \in Seq(Live)
    BY <2>1, <2>2, AbortsFacts DEF A
  <2>4. ToSet(a) \cap Tracked = {}
    BY <2>2, AbortedMembers DEF A
  <2>5. Quieter(q \o a, q, Follows, Tracked)
    BY <1>1, <2>3, <2>4
  <2> QED
    BY <2>5, QuieterTwice
<1> QED
  BY <1>2, <1>3, <1>4

(* Taking the first handler is quiet.                                      *)
LEMMA QuietTake ==
  ASSUME Shape, ready # <<>>
  PROVE  Tail(ready) \in Seq(Live) /\ Quieter(Tail(ready), ready, Follows, Tracked)
<1>1. ready \in Seq(Live)
  BY DEF Shape
<1> QED
  BY <1>1, FollowsFacts, QuieterFacts, FrontFacts

(* Which steps are not quiet.                                              *)
LEMMA QuietSteps ==
  ASSUME Shape, LifeCycle, Written, [Next]_vars
  PROVE  Quietly \/ SendPosts \/ Enqueue \/ Sent \/ OsWriteDone
<1>0. /\ "connect" \in Chain /\ "recv" \in Chain /\ "timer" \in Chain
      /\ AtMostOne(pending, ready, Chain)
      /\ socket = "closed" => pending \subseteq {"timer"}
      /\ ready \in Seq(Live) /\ Quieter(ready, ready, Follows, Tracked)
  BY DEF Chain, LifeCycle, SingleChain, TimerNeedsClosed, Shape, Quieter
<1>1. ASSUME UNCHANGED <<ready, pending, socket, send_msgs_, accepted, writing,
                         wire, overlap>>
      PROVE  Quietly
  BY <1>0, <1>1 DEF Quietly
<1>2. ASSUME NEW reconnect \in BOOLEAN, connect(reconnect)
      PROVE  Quietly
  <2>1. /\ pending = {} /\ ready = <<>> /\ ready' = ready
        /\ pending' = {"connect"} /\ overlap' = overlap
        /\ UNCHANGED <<send_msgs_, accepted, writing, wire>>
    BY <1>2 DEF connect, doConnect, LifeCycle, NewIsIdle
  <2>2. SendOk \notin ToSet(ready')
    BY <2>1, EmptyFacts
  <2> QED
    BY <1>0, <2>1, <2>2 DEF Quietly
<1>3. CASE close
  <2>1. UNCHANGED <<accepted, writing, wire, overlap>>
    BY <1>3 DEF close, history
  <2>2. CASE CloseDisarms \/ CloseMarks \/ CloseThrows
    BY <1>1, <2>1, <2>2 DEF CloseDisarms, CloseMarks, CloseThrows
  <2>3. CASE CloseCancels \/ CloseCloses
    <3>1. /\ \E a \in Aborts(pending \ {"timer"}) : ready' = ready \o a
          /\ pending' = pending \cap {"timer"} /\ send_msgs_' = send_msgs_
          /\ socket' = socket \/ socket' = "closed"
      BY <2>3 DEF CloseCancels, CloseCloses
    <3>2. Quieter(ready', ready, Follows, Tracked)
      BY <1>0, <3>1, Quietens
    <3> QED
      BY <2>1, <3>1, <3>2 DEF Quietly
  <2> QED
    BY <1>3, <2>2, <2>3 DEF close
<1>4. CASE Connected \/ Received
  <2>1. PICK op \in {"connect", "recv"} : Takes(op)
    BY <1>4 DEF Connected, Received
  <2>2. ready # <<>> /\ ~Outstanding(pending, Tail(ready), Chain)
    BY <1>0, <2>1, Taking
  <2>3. /\ Start("recv", Tail(ready))
        /\ UNCHANGED <<send_msgs_, socket, accepted, writing, wire>>
    BY <1>4 DEF Connected, Received, doRecv
  <2>4. Quieter(ready', ready, Follows, Tracked)
    BY <2>2, <2>3, QuietTake, Quietens
  <2>5. "recv" \notin pending
    BY <1>0, <2>2 DEF Outstanding
  <2>6. overlap' = overlap /\ pending' \subseteq pending \cup {"recv"}
    BY <2>3, <2>5 DEF Start
  <2> QED
    BY <2>3, <2>4, <2>6 DEF Quietly
<1>5. CASE ConnectFailed \/ ReceiveFailed
  <2>1. ready # <<>> /\ doReconnect(Tail(ready)) /\ UNCHANGED <<accepted, writing, wire, overlap>>
    BY <1>5 DEF ConnectFailed, ReceiveFailed, Takes
  <2>2. /\ \E a \in Aborts(pending \ {"timer"}) : ready' = Tail(ready) \o a
        /\ pending' = pending \cap {"timer"} /\ send_msgs_' = <<>> /\ socket' = "closed"
    BY <2>1 DEF doReconnect
  <2>3. Quieter(ready', ready, Follows, Tracked)
    BY <2>1, <2>2, QuietTake, Quietens
  <2> QED
    BY <2>1, <2>2, <2>3 DEF Quietly
<1>6. CASE ArmTimer
  <2>1. /\ pending' = pending \cup {"timer"} /\ overlap' = overlap /\ ~Awaits(Chain)
        /\ UNCHANGED <<send_msgs_, socket, accepted, writing, wire>>
    BY <1>6, Arming DEF ArmTimer, LifeCycle
  <2>2. pending \cap {"timer"} = {}
    BY <1>0, <2>1 DEF Awaits, Outstanding
  <2>3. PICK a \in Aborts({}) : ready' = ready \o a
    BY <1>6, <2>2 DEF ArmTimer
  <2>4. ToSet(a) = {}
    BY AbortedMembers
  <2>5. a \in Seq(Live)
    BY AbortsFacts, FS_EmptySet
  <2>6. Quieter(ready', ready, Follows, Tracked)
    BY <1>0, <2>3, <2>4, <2>5, FollowsFacts, QuieterFacts
  <2> QED
    BY <2>1, <2>6 DEF Quietly
<1>7. CASE Reconnect
  <2>1. Head(ready) \in Live /\ Head(ready).op = "timer" /\ ready # <<>>
    BY <1>7, Taking DEF Reconnect
  <2>2. Head(ready).ec # "aborted"
    BY <2>1 DEF Live
  <2>3. /\ ready' = Tail(ready) /\ pending' = pending \cup {"connect"}
        /\ overlap' = overlap \cup ({"connect"} \cap pending)
        /\ UNCHANGED <<send_msgs_, accepted, writing, wire>>
    BY <1>7, <2>2 DEF Reconnect, doConnect
  <2>4. ~Outstanding(pending, Tail(ready), Chain)
    BY <1>0, <1>7, Taking DEF Reconnect
  <2>5. overlap' = overlap
    BY <1>0, <2>3, <2>4 DEF Outstanding
  <2>6. SendOk \notin ToSet(Tail(ready))
    <3>1. \A h \in ToSet(Tail(ready)) : <<Head(ready), h>> \in Follows
      BY <1>0, <2>1, FrontFacts DEF Written, InLine
    <3> QED
      BY <2>1, <3>1, FollowsFacts, UntrackedFacts
  <2> QED
    BY <2>1, <2>3, <2>5, <2>6, QuietTake DEF Quietly
<1>8. CASE SendFailed \/ SentNothingQueued
  <2>1. /\ ready # <<>> /\ ready' = Tail(ready)
        /\ UNCHANGED <<pending, socket, send_msgs_, accepted, writing, wire, overlap>>
    BY <1>8 DEF SendFailed, SentNothingQueued, Takes, history
  <2> QED
    BY <2>1, QuietTake DEF Quietly
<1>9. ASSUME NEW op, NEW ec \in Codes, NEW sock, Finish(op, ec, sock),
             op = "timer" => ec = "ok" /\ sock = socket, op # "send" \/ ec # "ok",
             UNCHANGED wire
      PROVE  Quietly
  <2>1. /\ op \in pending /\ pending' = pending \ {op} /\ socket' = sock
        /\ ready' = Append(ready, Done(op, ec))
        /\ UNCHANGED <<send_msgs_, accepted, writing, overlap>>
    BY <1>9 DEF Finish
  <2>2. op \in Ops
    BY <2>1 DEF Shape
  <2>3. Done(op, ec) \in Live \ Tracked
    BY <1>9, <2>2, DoneType, UntrackedFacts
  <2>4. Quieter(ready', ready, Follows, Tracked)
    BY <1>0, <2>1, <2>3, Quietens
  <2>5. socket = "closed" => socket' = "closed"
    BY <1>0, <1>9, <2>1
  <2> QED
    BY <1>9, <2>1, <2>4, <2>5 DEF Quietly
<1>10. CASE Environment
  <2>1. CASE OsConnect
    BY <1>9, <2>1 DEF OsConnect, Codes
  <2>2. CASE OsReadData
    BY <1>9, <2>2 DEF OsReadData, Codes
  <2>3. CASE OsReadFails
    BY <1>9, <2>3 DEF OsReadFails, Codes
  <2>4. CASE OsWriteFails
    BY <1>9, <2>4 DEF OsWriteFails, Codes
  <2>5. CASE OsTimer
    BY <1>9, <2>5 DEF OsTimer, Codes
  <2> QED
    BY <1>10, <2>1, <2>2, <2>3, <2>4, <2>5 DEF Environment, OsWrite
<1>11. CASE SendChecks \/ RunReturns \/ UNCHANGED vars
  BY <1>1, <1>11 DEF SendChecks, RunReturns, vars, state, history
<1> QED
  BY <1>2, <1>3, <1>4, <1>5, <1>6, <1>7, <1>8, <1>10, <1>11 DEF Next, send, IoThread

(* A quiet step only ever makes the messages fewer.                        *)
LEMMA QuietPosts == Quietly /\ Shape' => Posts(ready') \subseteq Posts(ready)
<1> SUFFICES ASSUME Quietly, Shape', NEW m \in Posts(ready')
             PROVE  m \in Posts(ready)
  OBVIOUS
<1>1. PICK g \in ToSet(ready') : g.op = "post" /\ g.msg = m
  BY PostsFacts
<1>2. g \in Tracked
  BY <1>1 DEF Shape, ToSet, Tracked
<1> QED
  BY <1>1, <1>2, PostsFacts DEF Quietly, Quieter

(* Ids are numbers, and the queues hold them.                              *)
LEMMA QueueTypes ==
  ASSUME Shape
  PROVE  /\ Ids \subseteq Nat /\ accepted \in Nat
         /\ ToSet(send_msgs_) \subseteq Ids /\ ToSet(wire) \subseteq Ids
         /\ ToSet(ready) \subseteq Live /\ Posts(ready) \subseteq Ids
         /\ \A m, n : <<m, n>> \in Older => m < n
<1>1. /\ Ids \subseteq Nat /\ accepted \in Nat
      /\ \A m, n : <<m, n>> \in Older => m < n
  BY MaxSendsAssumption DEF Shape, Ids, Older
<1>2. /\ ToSet(send_msgs_) \subseteq Ids /\ ToSet(wire) \subseteq Ids
      /\ ToSet(ready) \subseteq Live
  BY DEF Shape, ToSet
<1>3. \A h \in Live : h.op = "post" => h.msg \in Ids
  BY DEF Live, Handlers, Ops
<1> QED
  BY <1>1, <1>2, <1>3, PostsFacts

(* What SendPosts, Enqueue, Sent and OsWriteDone do to the messages.       *)
LEMMA SendPostsFacts ==
  ASSUME Shape, SendPosts
  PROVE  /\ Posted(accepted + 1) \in Live /\ Posted(accepted + 1) # SendOk
         /\ Posted(accepted + 1).op = "post"
         /\ Posted(accepted + 1).msg = accepted + 1
         /\ ready' = Append(ready, Posted(accepted + 1))
         /\ ToSet(ready') = ToSet(ready) \cup {Posted(accepted + 1)}
         /\ Posts(ready') = Posts(ready) \cup {accepted + 1}
<1>1. /\ Posted(accepted + 1).op = "post" /\ Posted(accepted + 1).msg = accepted + 1
      /\ Posted(accepted + 1) # SendOk
  BY UntrackedFacts DEF Posted
<1>2. Posted(accepted + 1) \in Live /\ ready' = Append(ready, Posted(accepted + 1))
  BY MaxSendsAssumption DEF SendPosts, Posted, Live, Handlers, Shape, Ids
<1>3. ToSet(ready') = ToSet(ready) \cup {Posted(accepted + 1)}
  BY <1>2, BackFacts DEF Shape
<1>4. ASSUME NEW m
      PROVE  m \in Posts(ready') <=> m \in Posts(ready) \/ m = accepted + 1
  BY <1>1, <1>3, PostsFacts
<1> QED
  BY <1>1, <1>2, <1>3, <1>4

(* The posted message moves to the end of the queue.                       *)
LEMMA EnqueueMoves ==
  ASSUME Shape, Written, Enqueue
  PROVE  LET m == Head(ready).msg IN
         /\ m \in Posts(ready) /\ m \in Ids
         /\ send_msgs_' = Append(send_msgs_, m)
         /\ ToSet(send_msgs_') = ToSet(send_msgs_) \cup {m}
         /\ Head(send_msgs_') = IF send_msgs_ = <<>> THEN m ELSE Head(send_msgs_)
         /\ send_msgs_' # <<>>
         /\ Quieter(ready', ready, Follows, Tracked)
         /\ \A n \in Posts(ready') : n \in Posts(ready) /\ m < n
         /\ UNCHANGED <<accepted, wire, socket>>
<1> DEFINE m == Head(ready).msg
<1>1. /\ ready # <<>> /\ Head(ready) \in Live /\ Head(ready).op = "post"
      /\ Tail(ready) \in Seq(Live) /\ ready \in Seq(Live) /\ send_msgs_ \in Seq(Ids)
  BY Taking DEF Enqueue, Shape
<1>2. m \in Posts(ready) /\ m \in Ids
  <2>1. Head(ready) \in ToSet(ready)
    BY <1>1, FrontFacts
  <2> QED
    BY <1>1, <2>1, PostsFacts, QueueTypes
<1>3. send_msgs_' = Append(send_msgs_, m) /\ UNCHANGED <<accepted, wire, socket>>
  BY DEF Enqueue
<1>4. /\ ToSet(send_msgs_') = ToSet(send_msgs_) \cup {m} /\ send_msgs_' # <<>>
      /\ Head(send_msgs_') = IF send_msgs_ = <<>> THEN m ELSE Head(send_msgs_)
  <2> HIDE DEF m
  <2>1. /\ ToSet(Append(send_msgs_, m)) = ToSet(send_msgs_) \cup {m}
        /\ Append(send_msgs_, m) # <<>>
        /\ Head(Append(send_msgs_, m)) = IF send_msgs_ = <<>> THEN m ELSE Head(send_msgs_)
    BY <1>1, <1>2, BackFacts
  <2> QED
    BY <1>3, <2>1
<1>5. ready' = Tail(ready) \/ Start("send", Tail(ready))
  <2>1. send_msgs_ = <<>> => Start("send", Tail(ready))
    BY DEF Enqueue, doSend
  <2>2. send_msgs_ # <<>> => ready' = Tail(ready)
    BY DEF Enqueue
  <2> QED
    BY <2>1, <2>2
<1>6. Quieter(ready', Tail(ready), Follows, Tracked)
  <2>1. CASE ready' = Tail(ready)
    BY <2>1 DEF Quieter
  <2>2. CASE Start("send", Tail(ready))
    <3>1. ready' = Tail(ready) \/ ready' = Append(Tail(ready), Done("send", "failed"))
      BY <2>2 DEF Start
    <3>2. Done("send", "failed") \in Live \ Tracked
      BY DoneType, UntrackedFacts DEF Ops, Codes
    <3>3. Quieter(Append(Tail(ready), Done("send", "failed")), Tail(ready), Follows, Tracked)
      BY <1>1, <3>2, FollowsFacts, QuieterFacts
    <3> QED
      BY <3>1, <3>3, <2>1
  <2> QED
    BY <1>5, <2>1, <2>2
<1>7. Quieter(ready', ready, Follows, Tracked)
  BY <1>1, <1>6, QuietTake, QuieterTwice
<1>8. ASSUME NEW n \in Posts(ready')
      PROVE  n \in Posts(ready) /\ m < n
  <2>1. PICK g \in ToSet(ready') : g.op = "post" /\ g.msg = n
    BY PostsFacts
  <2>2. g \in Tracked
    <3>1. ready' \in Seq(Live)
      BY <1>1, <1>5, Starting
    <3> QED
      BY <2>1, <3>1 DEF ToSet, Tracked
  <2>3. g \in ToSet(Tail(ready)) /\ g \in ToSet(ready)
    BY <1>6, <1>7, <2>2 DEF Quieter
  <2>4. <<Head(ready), g>> \in Follows /\ g \in Live
    BY <1>1, <2>2, <2>3, FrontFacts DEF Written, InLine, Tracked
  <2>5. m < n
    BY <1>1, <2>1, <2>4, FollowsFacts
  <2> QED
    BY <2>1, <2>3, <2>5, PostsFacts
<1> QED
  BY <1>2, <1>3, <1>4, <1>7, <1>8

(* The front is removed, once, and its successor is written.               *)
LEMMA SentRemoves ==
  ASSUME Shape, Written, Sent
  PROVE  /\ send_msgs_ # <<>> /\ send_msgs_ \in Seq(Ids)
         /\ send_msgs_' = Tail(send_msgs_)
         /\ "send" \notin pending
         /\ ToSet(send_msgs_') \subseteq ToSet(send_msgs_)
         /\ \A n \in ToSet(send_msgs_') : n # Head(send_msgs_)
         /\ Pairs(send_msgs_', Older)
         /\ Quieter(ready', ready, Follows, Tracked)
         /\ SendOk \notin ToSet(ready')
         /\ UNCHANGED <<accepted, wire, socket>>
<1>1. /\ ready # <<>> /\ Head(ready) \in Live /\ Head(ready).op = "send"
      /\ Tail(ready) \in Seq(Live) /\ ready \in Seq(Live)
      /\ send_msgs_ \in Seq(Ids) /\ send_msgs_ # <<>> /\ Head(ready).ec = "ok"
  BY Taking DEF Sent, Shape
<1>2. Head(ready) = SendOk /\ SendOk \in ToSet(ready)
  <2>1. Head(ready) = SendOk
    BY <1>1 DEF Live, Handlers, SendOk, Done
  <2> QED
    BY <1>1, <2>1, FrontFacts
<1>3. "send" \notin pending
  BY <1>2 DEF Written, FrontIsSafe
<1>4. /\ send_msgs_' = Tail(send_msgs_) /\ UNCHANGED <<accepted, wire, socket>>
      /\ ready' = Tail(ready) \/ Start("send", Tail(ready))
  <2>1. Tail(send_msgs_) # <<>> => Start("send", Tail(ready))
    BY DEF Sent, doSend
  <2>2. Tail(send_msgs_) = <<>> => ready' = Tail(ready)
    BY DEF Sent
  <2> QED
    BY <2>1, <2>2 DEF Sent
<1>5. /\ ToSet(send_msgs_') \subseteq ToSet(send_msgs_) /\ Pairs(send_msgs_', Older)
      /\ \A n \in ToSet(send_msgs_') : <<Head(send_msgs_), n>> \in Older
  BY <1>1, <1>4, FrontFacts DEF Written, InLine
<1>6. \A n \in ToSet(send_msgs_') : n # Head(send_msgs_)
  <2>1. Head(send_msgs_) \in Nat
    BY <1>1, QueueTypes, FrontFacts
  <2>2. \A n \in Nat : ~(n < n)
    OBVIOUS
  <2> QED
    BY <1>5, <2>1, <2>2, QueueTypes
<1>7. SendOk \notin ToSet(Tail(ready))
  <2>1. \A h \in ToSet(Tail(ready)) : <<Head(ready), h>> \in Follows
    BY <1>1, FrontFacts DEF Written, InLine
  <2> QED
    BY <1>1, <1>2, <2>1, FollowsFacts
<1>8. /\ Quieter(ready', ready, Follows, Tracked) /\ SendOk \notin ToSet(ready')
  <2>1. CASE ready' = Tail(ready)
    BY <1>1, <1>7, <2>1, QuietTake
  <2>2. CASE Start("send", Tail(ready))
    <3>1. Quieter(ready', ready, Follows, Tracked)
      BY <1>1, <2>2, QuietTake, Quietens
    <3>2. ready' = Tail(ready) \/ ready' = Append(Tail(ready), Done("send", "failed"))
      BY <2>2 DEF Start
    <3>3. Done("send", "failed") \in Live /\ Done("send", "failed") # SendOk
      BY DoneType DEF Ops, Codes, SendOk, Done
    <3>4. \A q \in Seq(Live), h \in Live : ToSet(Append(q, h)) = ToSet(q) \cup {h}
      BY BackFacts
    <3>5. \A h \in Live : ToSet(Append(Tail(ready), h)) = ToSet(Tail(ready)) \cup {h}
      BY <1>1, <3>4, Zenon
    <3>6. SendOk \notin ToSet(Append(Tail(ready), Done("send", "failed")))
      BY <1>7, <3>3, <3>5, Zenon
    <3> QED
      BY <1>7, <3>1, <3>2, <3>6
  <2> QED
    BY <1>4, <2>1, <2>2
<1> QED
  BY <1>1, <1>3, <1>4, <1>5, <1>6, <1>8

(* The front is written, which is older than all that wait.                *)
LEMMA OsWriteDoneFacts ==
  ASSUME Shape, Written, OsWriteDone
  PROVE  /\ "send" \in pending /\ pending' = pending \ {"send"}
         /\ socket # "closed" /\ UNCHANGED <<accepted, send_msgs_, socket, overlap>>
         /\ send_msgs_ # <<>> /\ writing = Head(send_msgs_)
         /\ writing \in ToSet(send_msgs_) /\ writing \in Ids
         /\ \A n \in ToSet(send_msgs_) : n = writing \/ writing < n
         /\ \A n \in Posts(ready) : writing < n
         /\ \A m \in ToSet(wire) : m < writing
         /\ ToSet(wire') = ToSet(wire) \cup {writing}
         /\ ready' = Append(ready, SendOk)
         /\ ToSet(ready') = ToSet(ready) \cup {SendOk}
         /\ Posts(ready') = Posts(ready)
<1>1. /\ "send" \in pending /\ pending' = pending \ {"send"} /\ socket # "closed"
      /\ UNCHANGED <<accepted, send_msgs_, socket, overlap>>
      /\ ready' = Append(ready, SendOk) /\ wire' = Append(wire, writing)
  BY DEF OsWriteDone, Finish, SendOk
<1>2. /\ send_msgs_ # <<>> /\ writing = Head(send_msgs_)
      /\ send_msgs_ \in Seq(Ids) /\ ready \in Seq(Live) /\ wire \in Seq(Ids)
  BY <1>1 DEF Written, FrontIsSafe, Shape
<1>3. /\ writing \in ToSet(send_msgs_) /\ writing \in Ids
      /\ \A n \in ToSet(send_msgs_) : n = writing \/ <<writing, n>> \in Older
  BY <1>2, FrontFacts DEF Written, InLine
<1>4. /\ \A n \in ToSet(send_msgs_) : n = writing \/ writing < n
      /\ \A n \in Posts(ready) : writing < n
      /\ \A m \in ToSet(wire) : m < writing
  BY <1>1, <1>3, QueueTypes DEF Written, InLine
<1>5. ToSet(wire') = ToSet(wire) \cup {writing}
  <2>1. ToSet(Append(wire, writing)) = ToSet(wire) \cup {writing}
    BY <1>2, <1>3, BackFacts
  <2> QED
    BY <1>1, <2>1
<1>6. ToSet(ready') = ToSet(ready) \cup {SendOk}
  <2>1. ToSet(Append(ready, SendOk)) = ToSet(ready) \cup {SendOk}
    BY <1>2, UntrackedFacts, BackFacts
  <2> QED
    BY <1>1, <2>1
<1>7. ASSUME NEW m
      PROVE  m \in Posts(ready') <=> m \in Posts(ready)
  BY <1>6, UntrackedFacts, PostsFacts
<1> QED
  BY <1>1, <1>2, <1>3, <1>4, <1>5, <1>6, <1>7

(* Every step keeps the order of the messages and the front.               *)
LEMMA WrittenStep ==
  ASSUME Shape, LifeCycle, Written, [Next]_vars, Shape'
  PROVE  Written'
<1>0. /\ Ids \subseteq Nat /\ accepted \in Nat
      /\ ToSet(send_msgs_) \subseteq Ids /\ ToSet(wire) \subseteq Ids
      /\ ToSet(ready) \subseteq Live /\ Posts(ready) \subseteq Ids
      /\ \A m, n : <<m, n>> \in Older => m < n
  BY QueueTypes
<1> USE DEF Written, InLine, FrontIsSafe
<1>1. CASE Quietly
  <2>1. Posts(ready') \subseteq Posts(ready)
    BY <1>1, QuietPosts
  <2>2. /\ Pairs(ready', Follows)
        /\ SendOk \in ToSet(ready') => SendOk \in ToSet(ready)
    BY <1>1, UntrackedFacts DEF Quietly, Quieter, Tracked
  <2>3. CASE UNCHANGED send_msgs_
    <3>1. UNCHANGED <<accepted, writing, wire, overlap, send_msgs_>>
      BY <1>1, <2>3 DEF Quietly
    <3>2. InLine'
      BY <1>1, <2>1, <2>2, <3>1 DEF Quietly
    <3>3. FrontIsSafe'
      BY <1>1, <2>2, <3>1 DEF Quietly
    <3> QED
      BY <3>2, <3>3
  <2>4. CASE send_msgs_' = <<>> /\ socket' = "closed" /\ "send" \notin pending'
    <3>1. UNCHANGED <<accepted, writing, wire, overlap>>
      BY <1>1 DEF Quietly
    <3>2. ToSet(send_msgs_') = {} /\ Pairs(send_msgs_', Older)
      BY <2>4, EmptyFacts
    <3>3. InLine'
      BY <1>1, <2>1, <2>2, <2>4, <3>1, <3>2
    <3>4. FrontIsSafe'
      BY <2>4, <3>1
    <3> QED
      BY <3>3, <3>4
  <2> QED
    BY <1>1, <2>3, <2>4 DEF Quietly
<1>2. CASE SendPosts
  <2>1. /\ Posted(accepted + 1) \in Live /\ Posted(accepted + 1) # SendOk
        /\ Posted(accepted + 1).op = "post" /\ Posted(accepted + 1).msg = accepted + 1
        /\ ready' = Append(ready, Posted(accepted + 1))
        /\ ToSet(ready') = ToSet(ready) \cup {Posted(accepted + 1)}
        /\ Posts(ready') = Posts(ready) \cup {accepted + 1}
    BY <1>2, SendPostsFacts
  <2>2. /\ accepted' = accepted + 1
        /\ UNCHANGED <<send_msgs_, socket, pending, writing, wire, overlap>>
    BY <1>2 DEF SendPosts
  <2>3. \A m \in Nat : m <= accepted => m <= accepted + 1 /\ m < accepted + 1
    BY <1>0
  <2>4. ASSUME NEW g \in ToSet(ready)
        PROVE  <<g, Posted(accepted + 1)>> \in Follows
    <3>1. g.op = "post" => g.msg < accepted + 1
      BY <1>0, <2>3, PostsFacts
    <3> QED
      BY <1>0, <2>1, <3>1, FollowsFacts
  <2>5. Pairs(ready', Follows)
    <3>1. ready \in Seq(Live)
      BY DEF Shape
    <3>2. Pairs(Append(ready, Posted(accepted + 1)), Follows)
      BY <2>1, <2>4, <3>1, BackFacts
    <3> QED
      BY <2>1, <3>2
  <2>6. /\ \A n \in Posts(ready') : n <= accepted + 1
        /\ \A m \in ToSet(send_msgs_) \cup ToSet(wire) :
             m <= accepted + 1 /\ \A n \in Posts(ready') : m < n
    <3>1. ASSUME NEW n \in Posts(ready')
          PROVE  n <= accepted + 1
      <4>1. CASE n \in Posts(ready)
        <5>1. n \in Nat /\ n <= accepted
          BY <1>0, <4>1
        <5> QED
          BY <2>3, <5>1
      <4>2. CASE n = accepted + 1
        BY <1>0, <4>2
      <4> QED
        BY <2>1, <4>1, <4>2
    <3>2. ASSUME NEW m \in ToSet(send_msgs_) \cup ToSet(wire)
          PROVE  m \in Nat /\ m <= accepted /\ \A n \in Posts(ready) : m < n
      BY <1>0
    <3>3. ASSUME NEW m \in ToSet(send_msgs_) \cup ToSet(wire), NEW n \in Posts(ready')
          PROVE  m < n
      BY <2>1, <2>3, <3>2
    <3> QED
      BY <2>3, <3>1, <3>2, <3>3
  <2>7. InLine'
    BY <2>2, <2>5, <2>6
  <2>8. FrontIsSafe'
    BY <2>1, <2>2
  <2> QED
    BY <2>7, <2>8
<1>3. CASE Enqueue
  <2> DEFINE m == Head(ready).msg
  <2>1. /\ m \in Posts(ready) /\ m \in Ids
        /\ send_msgs_' = Append(send_msgs_, m)
        /\ ToSet(send_msgs_') = ToSet(send_msgs_) \cup {m}
        /\ Head(send_msgs_') = IF send_msgs_ = <<>> THEN m ELSE Head(send_msgs_)
        /\ send_msgs_' # <<>>
        /\ Quieter(ready', ready, Follows, Tracked)
        /\ \A n \in Posts(ready') : n \in Posts(ready) /\ m < n
        /\ UNCHANGED <<accepted, wire, socket>>
    BY <1>3, EnqueueMoves
  <2> HIDE DEF m
  <2>2. /\ Pairs(ready', Follows)
        /\ SendOk \in ToSet(ready') => SendOk \in ToSet(ready)
    BY <2>1, UntrackedFacts DEF Quieter, Tracked
  <2>3. Pairs(send_msgs_', Older)
    <3>1. \A k \in ToSet(send_msgs_) : <<k, m>> \in Older
      BY <1>0, <2>1 DEF Older
    <3>2. Pairs(Append(send_msgs_, m), Older)
      BY <2>1, <3>1, BackFacts DEF Shape
    <3> QED
      BY <2>1, <3>2
  <2>4. /\ \A k \in ToSet(send_msgs_') \cup ToSet(wire) :
             k <= accepted /\ \A n \in Posts(ready') : k < n
        /\ \A k \in ToSet(wire) : k < m
    BY <1>0, <2>1
  <2>5. CASE send_msgs_ = <<>>
    <3>1. Start("send", Tail(ready)) /\ writing' = m
      BY <1>3, <2>1, <2>5 DEF Enqueue, doSend
    <3>2. "send" \notin pending /\ overlap' = overlap
      BY <2>5, <3>1 DEF Start
    <3>3. ToSet(send_msgs_') = {m}
      BY <2>1, <2>5, EmptyFacts
    <3>4. InLine'
      BY <2>1, <2>2, <2>3, <2>4, <3>3
    <3>5. "send" \in pending' => SendOk \notin ToSet(ready')
      BY <2>2, <2>5, <3>1, <3>2 DEF Start
    <3>6. FrontIsSafe'
      BY <2>1, <2>5, <3>1, <3>2, <3>5
    <3> QED
      BY <3>4, <3>6
  <2>6. CASE send_msgs_ # <<>>
    <3>1. UNCHANGED <<pending, writing, overlap>>
      BY <1>3, <2>6 DEF Enqueue
    <3>2. \A k \in ToSet(wire), n \in ToSet(send_msgs_') :
            n # Head(send_msgs_') \/ "send" \in pending' => k < n
      BY <2>1, <2>4, <2>6, <3>1
    <3>3. InLine'
      BY <2>1, <2>2, <2>3, <2>4, <3>2
    <3>4. FrontIsSafe'
      BY <2>1, <2>2, <2>6, <3>1
    <3> QED
      BY <3>3, <3>4
  <2> QED
    BY <2>5, <2>6
<1>4. CASE Sent
  <2>1. /\ send_msgs_ # <<>> /\ send_msgs_' = Tail(send_msgs_) /\ "send" \notin pending
        /\ ToSet(send_msgs_') \subseteq ToSet(send_msgs_)
        /\ \A n \in ToSet(send_msgs_') : n # Head(send_msgs_)
        /\ Pairs(send_msgs_', Older)
        /\ Quieter(ready', ready, Follows, Tracked) /\ SendOk \notin ToSet(ready')
        /\ UNCHANGED <<accepted, wire, socket>>
    BY <1>4, SentRemoves
  <2>2. ASSUME NEW n \in Posts(ready')
        PROVE  n \in Posts(ready)
    <3>1. PICK g \in ToSet(ready') : g.op = "post" /\ g.msg = n
      BY PostsFacts
    <3>2. g \in Tracked
      BY <3>1 DEF Shape, ToSet, Tracked
    <3> QED
      BY <2>1, <3>1, <3>2, PostsFacts DEF Quieter
  <2>3. InLine'
    BY <2>1, <2>2 DEF Quieter
  <2>4. CASE Tail(send_msgs_) # <<>>
    <3>1. Start("send", Tail(ready)) /\ writing' = Head(send_msgs_')
      BY <1>4, <2>1, <2>4 DEF Sent, doSend
    <3>2. overlap' = overlap
      BY <2>1, <3>1 DEF Start
    <3> QED
      BY <2>1, <2>3, <2>4, <3>1, <3>2
  <2>5. CASE Tail(send_msgs_) = <<>>
    <3>1. UNCHANGED <<pending, writing, overlap>>
      BY <1>4, <2>5 DEF Sent
    <3> QED
      BY <2>1, <2>3, <3>1
  <2> QED
    BY <2>4, <2>5
<1>5. CASE OsWriteDone
  <2>1. /\ "send" \in pending /\ pending' = pending \ {"send"}
        /\ socket # "closed" /\ UNCHANGED <<accepted, send_msgs_, socket, overlap>>
        /\ send_msgs_ # <<>> /\ writing = Head(send_msgs_)
        /\ writing \in ToSet(send_msgs_) /\ writing \in Ids
        /\ \A n \in ToSet(send_msgs_) : n = writing \/ writing < n
        /\ \A n \in Posts(ready) : writing < n
        /\ \A m \in ToSet(wire) : m < writing
        /\ ToSet(wire') = ToSet(wire) \cup {writing}
        /\ ready' = Append(ready, SendOk)
        /\ ToSet(ready') = ToSet(ready) \cup {SendOk}
        /\ Posts(ready') = Posts(ready)
    BY <1>5, OsWriteDoneFacts
  <2>2. ASSUME NEW g \in ToSet(ready)
        PROVE  <<g, SendOk>> \in Follows
    <3>1. g # SendOk /\ g \in Live
      BY <1>0, <2>1
    <3>2. g.op # "timer"
      <4>1. g.op = "timer" => Awaits({"timer"})
        BY DEF ToSet, Awaits, Outstanding, Queued
      <4> QED
        BY <2>1, <4>1 DEF LifeCycle, TimerNeedsClosed
    <3> QED
      BY <3>1, <3>2, FollowsFacts, UntrackedFacts
  <2>3. Pairs(ready', Follows)
    <3>1. Pairs(Append(ready, SendOk), Follows)
      BY <2>2, UntrackedFacts, BackFacts DEF Shape
    <3> QED
      BY <2>1, <3>1
  <2>4. /\ \A k \in ToSet(wire') : k <= accepted /\ \A n \in Posts(ready) : k < n
        /\ \A k \in ToSet(wire'), n \in ToSet(send_msgs_) : n # Head(send_msgs_) => k < n
    BY <2>1
  <2>5. InLine'
    BY <2>1, <2>3, <2>4
  <2>6. FrontIsSafe'
    BY <2>1
  <2> QED
    BY <2>5, <2>6
<1> QED
  BY <1>1, <1>2, <1>3, <1>4, <1>5, QuietSteps

(* Every step accepts a message, delivers the oldest, loses some, or is    *)
(* not seen by the channel.                                                *)
LEMMA Simulation ==
  ASSUME Shape, LifeCycle, Written, [Next]_vars, Shape'
  PROVE  Chan!Next
<1>0. /\ Ids \subseteq Nat /\ accepted \in Nat
      /\ ToSet(send_msgs_) \subseteq Ids /\ ToSet(wire) \subseteq Ids
      /\ ToSet(ready) \subseteq Live /\ Posts(ready) \subseteq Ids
  BY QueueTypes
<1>1. ASSUME ToSet(send_msgs_') \cup Posts(ready') \subseteq ToSet(send_msgs_) \cup Posts(ready),
             UNCHANGED <<accepted, wire>>
      PROVE  Chan!Lose
  BY <1>1 DEF Chan!Lose, InFlight
<1>2. CASE Quietly
  <2>1. ToSet(send_msgs_') \subseteq ToSet(send_msgs_)
    BY <1>2, EmptyFacts DEF Quietly
  <2> QED
    BY <1>1, <1>2, <2>1, QuietPosts DEF Quietly, Chan!Next
<1>3. CASE SendPosts
  <2>1. /\ accepted' = accepted + 1 /\ UNCHANGED <<send_msgs_, wire>>
        /\ Posts(ready') = Posts(ready) \cup {accepted + 1}
    BY <1>3, SendPostsFacts DEF SendPosts
  <2>2. accepted + 1 \notin ToSet(wire)
    BY <1>0 DEF Written, InLine
  <2> QED
    BY <2>1, <2>2 DEF Chan!Next, Chan!Accept, InFlight
<1>4. CASE Enqueue
  <2>1. /\ Head(ready).msg \in Posts(ready)
        /\ ToSet(send_msgs_') = ToSet(send_msgs_) \cup {Head(ready).msg}
        /\ \A n \in Posts(ready') : n \in Posts(ready)
        /\ UNCHANGED <<accepted, wire>>
    BY <1>4, EnqueueMoves
  <2> QED
    BY <1>1, <2>1 DEF Chan!Next
<1>5. CASE Sent
  <2>1. /\ ToSet(send_msgs_') \subseteq ToSet(send_msgs_)
        /\ Quieter(ready', ready, Follows, Tracked)
        /\ UNCHANGED <<accepted, wire>>
    BY <1>5, SentRemoves
  <2>2. ASSUME NEW n \in Posts(ready')
        PROVE  n \in Posts(ready)
    <3>1. PICK g \in ToSet(ready') : g.op = "post" /\ g.msg = n
      BY PostsFacts
    <3>2. g \in Tracked
      BY <3>1 DEF Shape, ToSet, Tracked
    <3> QED
      BY <2>1, <3>1, <3>2, PostsFacts DEF Quieter
  <2> QED
    BY <1>1, <2>1, <2>2 DEF Chan!Next
<1>6. CASE OsWriteDone
  <2>1. /\ UNCHANGED <<accepted, send_msgs_>> /\ wire' = Append(wire, writing)
        /\ writing \in ToSet(send_msgs_) /\ writing \in Ids
        /\ \A n \in ToSet(send_msgs_) : n = writing \/ writing < n
        /\ \A n \in Posts(ready) : writing < n
        /\ \A m \in ToSet(wire) : m < writing
        /\ ToSet(wire') = ToSet(wire) \cup {writing}
        /\ Posts(ready') = Posts(ready)
    BY <1>6, OsWriteDoneFacts DEF OsWriteDone
  <2>2. writing \in InFlight
    BY <1>0, <2>1 DEF InFlight
  <2>3. \A k \in InFlight : writing <= k
    BY <1>0, <2>1 DEF InFlight
  <2>4. InFlight' = InFlight \ {writing}
    BY <2>1 DEF InFlight
  <2> QED
    BY <2>1, <2>2, <2>3, <2>4 DEF Chan!Next, Chan!Deliver
<1> QED
  BY <1>2, <1>3, <1>4, <1>5, <1>6, QuietSteps

-----------------------------------------------------------------------------
(* reconnect_ is Boolean: only connect() and close() assign it.            *)
LEMMA BooleanStep == reconnect_ \in BOOLEAN /\ [Next]_vars => reconnect_' \in BOOLEAN
<1> SUFFICES ASSUME reconnect_ \in BOOLEAN, [Next]_vars
             PROVE  reconnect_' \in BOOLEAN
  OBVIOUS
<1>1. ASSUME NEW reconnect \in BOOLEAN, connect(reconnect)
      PROVE  reconnect_' \in BOOLEAN
  BY <1>1 DEF connect
<1>2. CASE CloseDisarms
  <2>1. reconnect_' = FALSE
    BY <1>2 DEF CloseDisarms
  <2> QED
    BY <2>1, Zenon
<1>3. CASE UNCHANGED reconnect_
  BY <1>3
<1>4. CASE send \/ IoThread \/ Environment \/ UNCHANGED vars
  <2>1. UNCHANGED reconnect_
    BY <1>4 DEF send, SendChecks, SendPosts, IoThread, Connected, ConnectFailed,
       ArmTimer, Reconnect, Received, ReceiveFailed, Enqueue, Sent,
       SentNothingQueued, SendFailed, RunReturns, Environment, OsConnect,
       OsReadData, OsReadFails, OsWrite, OsWriteDone, OsWriteFails, OsTimer,
       Finish, vars, state
  <2> QED
    BY <1>3, <2>1
<1>5. CASE close
  BY <1>2, <1>3, <1>5 DEF close, CloseMarks, CloseCancels, CloseThrows, CloseCloses
<1> QED
  BY <1>1, <1>4, <1>5 DEF Next

(* The inductive invariant: the types, the life of the connection, and the *)
(* queue of messages.                                                      *)
IInv == reconnect_ \in BOOLEAN /\ Shape /\ LifeCycle /\ Written

(* Nothing is queued at first.                                             *)
LEMMA WrittenInit == Init => Written
<1> SUFFICES ASSUME Init
             PROVE  Written
  OBVIOUS
<1>1. /\ ready = <<>> /\ send_msgs_ = <<>> /\ wire = <<>> /\ pending = {} /\ overlap = {}
  BY DEF Init
<1>2. Posts(ready) = {} /\ ToSet(ready) = {} /\ ToSet(send_msgs_) = {} /\ ToSet(wire) = {}
  BY <1>1, EmptyFacts, PostsFacts
<1>3. InLine
  BY <1>1, <1>2, EmptyFacts DEF InLine
<1>4. FrontIsSafe
  BY <1>1, <1>2 DEF FrontIsSafe
<1> QED
  BY <1>3, <1>4 DEF Written

(* Every behaviour of the client keeps the inductive invariant.            *)
THEOREM Invariance == Spec => []IInv
<1>1. Init => IInv
  <2>1. Init => reconnect_ \in BOOLEAN
    <3>1. Init => reconnect_ = FALSE
      BY DEF Init
    <3> QED
      BY <3>1, Zenon
  <2> QED
    BY <2>1, ShapeInit, LifeInit, WrittenInit DEF IInv
<1>2. IInv /\ [Next]_vars => IInv'
  <2> SUFFICES ASSUME IInv, [Next]_vars
               PROVE  IInv'
    OBVIOUS
  <2>1. Shape'
    BY ShapeStep DEF IInv, LifeCycle
  <2>2. LifeCycle'
    BY LifeStep DEF IInv
  <2>3. reconnect_' \in BOOLEAN
    BY BooleanStep DEF IInv
  <2>4. Written'
    BY <2>1, WrittenStep DEF IInv
  <2> QED
    BY <2>1, <2>2, <2>3, <2>4 DEF IInv
<1> QED
  BY <1>1, <1>2, PTL DEF Spec

(* Every variable keeps its type in every behaviour of the client.         *)
THEOREM TypeCorrect == Spec => []TypeOK
<1>1. IInv => TypeOK
  <2> SUFFICES ASSUME IInv
               PROVE  TypeOK
    OBVIOUS
  <2>1. \A q \in Seq(Live) : q \in Seq(Handlers)
    BY DEF Live
  <2>2. ready \in Seq(Handlers)
    BY <2>1 DEF IInv, Shape
  <2> QED
    BY <2>2 DEF IInv, Shape, TypeOK
<1> QED
  BY <1>1, Invariance, PTL

(* doConnect(), doRecv() and doReconnect() never run two lives at once.    *)
THEOREM SingleChainTheorem == Spec => []SingleChain
<1>1. IInv => SingleChain
  BY DEF IInv, LifeCycle
<1> QED
  BY <1>1, Invariance, PTL

(* No order of failures makes a reconnecting client lose its life: there   *)
(* is always a connect, a read or a timer that leads to the next connect.  *)
THEOREM ChainAliveTheorem == Spec => []ChainAlive
<1>1. IInv => ChainAlive
  BY DEF IInv, LifeCycle
<1> QED
  BY <1>1, Invariance, PTL

(* The client has exactly one life, for any number of messages.            *)
THEOREM OneLifeTheorem == Spec => []OneLife
<1>1. SingleChain /\ ChainAlive => OneLife
  BY DEF OneLife
<1> QED
  BY <1>1, SingleChainTheorem, ChainAliveTheorem, PTL

(* When send() accepts messages the loss of the connection will be read.   *)
THEOREM ConnectedIsWatchedTheorem == Spec => []ConnectedIsWatched
<1>1. IInv => ConnectedIsWatched
  BY DEF IInv, LifeCycle
<1> QED
  BY <1>1, Invariance, PTL

(* A close() that returned normally is final.                              *)
THEOREM CloseIsFinalTheorem == Spec => []CloseIsFinal
<1>1. IInv => CloseIsFinal
  BY DEF IInv, LifeCycle, CloseDisarmed, CloseIsFinal
<1> QED
  BY <1>1, Invariance, PTL

(* connect_cb_ hears of a loss between two connections: a connect that     *)
(* succeeds finds no read outstanding, and a report of a connection that   *)
(* was not followed by one of a loss has its read outstanding.             *)
THEOREM LossReportedTheorem == Spec => LossReportedBetweenConnects
<1>1. IInv /\ [Next]_vars => [Connected => notified # "CONNECTED"]_vars
  <2> SUFFICES ASSUME IInv, Connected, notified = "CONNECTED"
               PROVE  FALSE
    OBVIOUS
  <2>1. Shape /\ AtMostOne(pending, ready, Chain) /\ Awaits({"recv"})
    BY DEF IInv, LifeCycle, SingleChain, NotifiedIsWatched
  <2>2. Takes("connect") /\ "connect" \in Chain
    BY DEF Connected, Chain
  <2>3. Outstanding(pending, Tail(ready), {"recv"})
    BY <2>1, <2>2, Taking
  <2>4. ~Outstanding(pending, Tail(ready), Chain)
    BY <2>1, <2>2, Taking
  <2> QED
    BY <2>3, <2>4, InChain
<1> QED
  BY <1>1, Invariance, PTL DEF Spec, LossReportedBetweenConnects

(* The string that async_write() reads stays at the front of send_msgs_    *)
(* until the write has finished, though a handler of an earlier connection *)
(* may remove a message: such a handler runs only while no write is under  *)
(* way.  And no operation is started twice.                                *)
THEOREM WriteBufferAliveTheorem == Spec => []WriteBufferAlive
<1>1. IInv => WriteBufferAlive
  BY DEF IInv, Written, FrontIsSafe, WriteBufferAlive
<1> QED
  BY <1>1, Invariance, PTL

(* The client implements the channel: over all reconnects, send(), the     *)
(* handlers and the writes deliver in order and lose only whole messages.  *)
THEOREM ImplementsChannelTheorem == Spec => ImplementsChannel
<1>1. Init => Chan!Init
  <2> SUFFICES ASSUME Init
               PROVE  Chan!Init
    OBVIOUS
  <2>1. accepted = 0 /\ ready = <<>> /\ send_msgs_ = <<>> /\ wire = <<>>
    BY DEF Init
  <2>2. Posts(ready) = {} /\ ToSet(send_msgs_) = {}
    BY <2>1, EmptyFacts, PostsFacts
  <2> QED
    BY <2>1, <2>2 DEF Chan!Init, InFlight
<1>2. IInv /\ [Next]_vars => [Chan!Next]_(Chan!chan)
  <2>1. IInv /\ [Next]_vars => Shape'
    BY ShapeStep DEF IInv, LifeCycle
  <2> QED
    BY <2>1, Simulation DEF IInv
<1> QED
  BY <1>1, <1>2, Invariance, PTL DEF Spec, ImplementsChannel, Chan!Spec

(* So the peers get the messages in the order of the calls of send(), each *)
(* at most once, and none that was not accepted.                           *)
THEOREM InOrderTheorem == Spec => []Chan!InOrderAtMostOnce
<1> DEFINE Order == Ordered(accepted, InFlight, wire)
<1>1. Chan!Init => Order
  BY DEF Chan!Init, Ordered
<1>2. Order /\ [Chan!Next]_(Chan!chan) => Order'
  <2> SUFFICES ASSUME Order, [Chan!Next]_(Chan!chan)
               PROVE  Order'
    OBVIOUS
  <2>1. CASE Chan!Accept
    BY <2>1, AcceptOrdered DEF Chan!Accept
  <2>2. CASE \E m \in InFlight : Chan!Deliver(m)
    BY <2>2, DeliverOrdered DEF Chan!Deliver
  <2>3. CASE Chan!Lose
    BY <2>3, LoseOrdered DEF Chan!Lose
  <2>4. CASE UNCHANGED Chan!chan
    BY <2>4 DEF Chan!chan
  <2> QED
    BY <2>1, <2>2, <2>3, <2>4 DEF Chan!Next
<1>3. Order => Chan!InOrderAtMostOnce
  BY DEF Ordered, Chan!InOrderAtMostOnce, Chan!Increasing
<1> QED
  BY <1>1, <1>2, <1>3, ImplementsChannelTheorem, PTL DEF ImplementsChannel, Chan!Spec
=============================================================================
