------------------------- MODULE AsyncClientProofs -------------------------
(***************************************************************************)
(* Proofs about AsyncClient for every MaxSends: its type invariant, that   *)
(* it does not die until close() and has one life until a write fails,     *)
(* that exactly the failed writes leave messages behind, and that it       *)
(* implements Channel.                                                     *)
(***************************************************************************)
EXTENDS AsyncClient, IoContextLemmas

(* The types, but for the Boolean variables, with the type of the message  *)
(* that is being written.                                                  *)
Shape ==
  /\ write_msgs_ \in Seq(Ids)
  /\ socket \in Sockets
  /\ pending \subseteq Ops
  /\ ready \in Seq(Handlers)
  /\ caller \in {"new", "open", "threw", "disarmed", "closed"}
  /\ io \in {"running", "returned", "none", "terminated"}
  /\ posted \in 0..MaxSends
  /\ writing \in 0..MaxSends
  /\ wire \in Seq(Ids)
  /\ "send" \in pending => writing \in Ids

(* How many lives there are when the operations p are pending and the      *)
(* handlers q are ready.                                                   *)
Lead == {h \in Handlers : Leads(h)}
Own(p) == Cardinality(p \ {"send"})
Waiting(q) == Cardinality(Places(q, Lead))
Count(p, q) == Own(p) + Waiting(q)

(* Before open() nothing runs, and until close() the client reconnects.    *)
Callers ==
  /\ caller = "new" => pending = {} /\ ready = <<>> /\ io = "running"
  /\ caller = "open" => stop_

(* One life at least until close(), and at most one until a write fails.   *)
Alive == caller = "open" /\ io = "running" => Count(pending, ready) # 0
Bound == Count(pending, ready) <= 2 /\ (failed \/ Count(pending, ready) <= 1)

LifeCycle == Callers /\ Alive /\ Bound

(* At most one write is outstanding, that of the front.                    *)
OneWriter ==
  /\ AtMostOne(pending, ready, {"send"})
  /\ Awaits({"send"}) => write_msgs_ # <<>> /\ Head(write_msgs_) = writing
  /\ OnlyFailureStrands

(* The posts wait in the order of send().                                  *)
Tracked == {h \in Handlers : h.op = "post"}
Follows == {p \in Handlers \X Handlers :
              p[1].op = "post" /\ p[2].op = "post" => p[1].msg < p[2].msg}
Older == {p \in Ids \X Ids : p[1] < p[2]}

(* The numbers of messages: those written and those in the queue are older *)
(* than those posted, and those written are older than all that follow the *)
(* front, and than the front while it is being written.                    *)
InLine ==
  /\ Pairs(ready, Follows)
  /\ Pairs(write_msgs_, Older)
  /\ \A m \in ToSet(write_msgs_) \cup ToSet(wire) :
       m <= posted /\ \A n \in Posts(ready) : m < n
  /\ \A n \in Posts(ready) : n <= posted
  /\ \A m \in ToSet(wire), n \in ToSet(write_msgs_) :
       n # Head(write_msgs_) \/ "send" \in pending => m < n

IInv ==
  /\ stop_ \in BOOLEAN /\ failed \in BOOLEAN
  /\ Shape /\ LifeCycle /\ OneWriter /\ InLine

(* The queue r has no post that q has not, and keeps their order.          *)
Quiet(r, q) == Quieter(r, q, Follows, Tracked)

-----------------------------------------------------------------------------
(* What the shared functions of the handlers do.                           *)

(* There are five operations.                                              *)
LEMMA OpsFinite == \A A \in SUBSET Ops : IsFiniteSet(A)
<1>1. IsFiniteSet(Ops)
  <2>1. IsFiniteSet({"connect"} \cup {"recv"} \cup {"recv again"} \cup {"send"} \cup {"timer"})
    BY FS_Singleton, FS_Union
  <2> QED
    BY <2>1 DEF Ops, Reads
<1> QED
  BY <1>1, FS_Subset

(* A finished operation makes a handler, which is no post, and which leads *)
(* on unless it is that of a write, of close() or of a replaced timer.     *)
LEMMA DoneType ==
  \A op \in Ops \cup {"close"}, ec \in Codes :
    /\ Done(op, ec) \in Handlers /\ Done(op, ec).op = op
    /\ Done(op, ec).op # "post" /\ Done(op, ec) \notin Tracked
    /\ Done(op, ec) \in Lead <=>
         op \notin {"send", "close"} /\ (op = "timer" => ec = "ok")
BY DEF Done, Handlers, Ops, Reads, Codes, Tracked, Lead, Leads

(* What the order of handlers means.                                       *)
LEMMA FollowsFacts ==
  /\ \A g \in Handlers, h \in Handlers \ Tracked : <<g, h>> \in Follows
  /\ \A g, h \in Handlers : <<g, h>> \in Follows <=>
                              (g.op = "post" /\ h.op = "post" => g.msg < h.msg)
BY DEF Follows, Tracked

(* A queue is quieter when a handler is taken, or others are added.        *)
LEMMA QuietFacts ==
  ASSUME NEW q \in Seq(Handlers)
  PROVE  /\ Quiet(q, q)
         /\ q # <<>> => Quiet(Tail(q), q)
         /\ \A h \in Handlers : h \notin Tracked => Quiet(Append(q, h), q)
         /\ \A a \in Seq(Handlers) : ToSet(a) \cap Tracked = {} => Quiet(q \o a, q)
<1>1. /\ q # <<>> => Quieter(Tail(q), q, Follows, Tracked)
      /\ \A h \in Handlers \ Tracked : Quieter(Append(q, h), q, Follows, Tracked)
      /\ \A a \in Seq(Handlers) :
           ToSet(a) \cap Tracked = {} => Quieter(q \o a, q, Follows, Tracked)
  BY FollowsFacts, QuieterFacts
<1>2. Quiet(q, q)
  BY DEF Quiet, Quieter
<1> QED
  BY <1>1, <1>2 DEF Quiet

(* Of two changes that make a queue quieter the whole does.                *)
LEMMA QuietTwice ==
  ASSUME NEW p, NEW q, NEW r, Quiet(q, p), Quiet(r, q)
  PROVE  Quiet(r, p)
BY QuieterTwice DEF Quiet

(* The handler of op is taken from the queue.                              *)
LEMMA Taking ==
  ASSUME Shape, NEW op, Takes(op)
  PROVE  /\ io = "running" /\ ready # <<>> /\ UNCHANGED <<stop_, caller, io, posted>>
         /\ Head(ready) \in Handlers /\ Head(ready).op = op
         /\ Tail(ready) \in Seq(Handlers) /\ Quiet(Tail(ready), ready)
         /\ \A S :
              /\ Awaits(S) <=> Outstanding(pending, Tail(ready), S) \/ op \in S
              /\ AtMostOne(pending, ready, S)
                   => AtMostOne(pending, Tail(ready), S)
              /\ AtMostOne(pending, ready, S) /\ op \in S
                   => ~Outstanding(pending, Tail(ready), S)
<1>1. /\ ready \in Seq(Handlers) /\ ready # <<>> /\ io = "running" /\ Head(ready).op = op
      /\ UNCHANGED <<stop_, caller, io, posted>>
  BY DEF Shape, Takes
<1>2. Head(ready) \in Handlers /\ Tail(ready) \in Seq(Handlers)
  BY <1>1, FrontFacts
<1>3. ASSUME NEW S
      PROVE  /\ Awaits(S) <=> Outstanding(pending, Tail(ready), S) \/ op \in S
             /\ AtMostOne(pending, ready, S) => AtMostOne(pending, Tail(ready), S)
             /\ AtMostOne(pending, ready, S) /\ op \in S
                  => ~Outstanding(pending, Tail(ready), S)
  BY <1>1, TakeFacts DEF Awaits
<1> QED
  BY <1>1, <1>2, <1>3, QuietFacts

(* do_read() and do_write() start an operation.                            *)
LEMMA Starting ==
  ASSUME Shape, NEW q \in Seq(Handlers), NEW op \in Reads \cup {"send"}, Start(op, q)
  PROVE  /\ pending' \subseteq Ops /\ pending' \subseteq pending \cup {op}
         /\ pending \subseteq pending'
         /\ ready' \in Seq(Handlers) /\ Quiet(ready', q)
         /\ socket = "closed" => pending' = pending
         /\ \A S :
              /\ Awaits(S)' <=> Outstanding(pending, q, S) \/ op \in S
              /\ AtMostOne(pending, q, S) /\ ~(op \in S /\ Outstanding(pending, q, S))
                   => AtMostOne(pending, ready, S)'
<1>1. pending \subseteq Ops /\ op \in Ops /\ op # "timer"
  BY DEF Shape, Ops, Reads
<1>2. CASE socket = "closed"
  <2>1. ready' = Append(q, Done(op, "failed")) /\ pending' = pending
    BY <1>2 DEF Start
  <2>2. /\ Done(op, "failed") \in Handlers /\ Done(op, "failed").op = op
        /\ Done(op, "failed") \notin Tracked
    BY <1>1, DoneType DEF Codes
  <2>3. ASSUME NEW S
        PROVE  /\ ready' \in Seq(Handlers)
               /\ Awaits(S)' <=> Outstanding(pending, q, S) \/ op \in S
               /\ AtMostOne(pending, q, S) /\ ~(op \in S /\ Outstanding(pending, q, S))
                    => AtMostOne(pending, ready, S)'
    BY <2>1, <2>2, EnqueueFacts DEF Awaits
  <2>4. Quiet(ready', q)
    BY <2>1, <2>2, QuietFacts
  <2> QED
    BY <1>1, <2>1, <2>3, <2>4
<1>3. CASE socket # "closed"
  <2>1. ready' = q /\ pending' = pending \cup {op}
    BY <1>3 DEF Start
  <2>2. ASSUME NEW S
        PROVE  /\ Awaits(S)' <=> Outstanding(pending, q, S) \/ op \in S
               /\ AtMostOne(pending, q, S) /\ ~(op \in S /\ Outstanding(pending, q, S))
                    => AtMostOne(pending, ready, S)'
    BY <2>1, AddFacts DEF Awaits
  <2> QED
    BY <1>1, <1>3, <2>1, <2>2, QuietFacts
<1> QED
  BY <1>2, <1>3

(* Operations A are aborted.                                               *)
LEMMA Aborting ==
  ASSUME Shape, NEW q \in Seq(Handlers), NEW A \in SUBSET pending, NEW a \in Aborts(A)
  PROVE  /\ q \o a \in Seq(Handlers) /\ Quiet(q \o a, q)
         /\ \A S : /\ Outstanding(pending \ A, q \o a, S) <=> Outstanding(pending, q, S)
                   /\ AtMostOne(pending, q, S) => AtMostOne(pending \ A, q \o a, S)
<1>1. A \subseteq Ops /\ IsFiniteSet(A)
  BY OpsFinite DEF Shape
<1>2. \A op \in A : /\ Done(op, "aborted") \in Handlers
                    /\ Done(op, "aborted") \notin Tracked
  BY <1>1, DoneType DEF Codes
<1>3. ASSUME NEW S
      PROVE  /\ q \o a \in Seq(Handlers)
             /\ Outstanding(pending \ A, q \o a, S) <=> Outstanding(pending, q, S)
             /\ AtMostOne(pending, q, S) => AtMostOne(pending \ A, q \o a, S)
  BY <1>1, <1>2, AbortFacts
<1>4. a \in Seq(Handlers)
  BY <1>1, <1>2, AbortsFacts
<1>5. ToSet(a) \cap Tracked = {}
  BY <1>2, AbortedMembers
<1> QED
  BY <1>3, <1>4, <1>5, QuietFacts

(* schedule_reconnect() sets a timer while stop_ is set, in the place of   *)
(* the one that was pending.                                               *)
LEMMA Scheduling ==
  ASSUME Shape, NEW q \in Seq(Handlers), NEW ended \in SUBSET (pending \ {"timer"}),
         schedule_reconnect(ended, q)
  PROVE  /\ ready' \in Seq(Handlers) /\ Quiet(ready', q)
         /\ pending' = (pending \ ended) \cup IF stop_ THEN {"timer"} ELSE {}
         /\ pending' \subseteq Ops
         /\ \A S : "timer" \notin S =>
              /\ Awaits(S)' <=> Outstanding(pending, q, S)
              /\ AtMostOne(pending, q, S) => AtMostOne(pending, ready, S)'
<1> DEFINE A == ended \cup IF stop_ THEN pending \cap {"timer"} ELSE {}
<1>1. A \in SUBSET pending /\ pending \subseteq Ops
  BY DEF Shape
<1>2. pending' = (pending \ ended) \cup IF stop_ THEN {"timer"} ELSE {}
  BY DEF schedule_reconnect
<1>3. PICK a \in Aborts(A) : ready' = q \o a
  BY DEF schedule_reconnect
<1>4. pending' = pending \ A \/ pending' = (pending \ A) \cup {"timer"}
  BY <1>2
<1> HIDE DEF A
<1>5. /\ q \o a \in Seq(Handlers) /\ Quiet(q \o a, q)
      /\ \A S : /\ Outstanding(pending \ A, q \o a, S) <=> Outstanding(pending, q, S)
                /\ AtMostOne(pending, q, S) => AtMostOne(pending \ A, q \o a, S)
  BY <1>1, Aborting
<1>6. ASSUME NEW S, "timer" \notin S
      PROVE  /\ Awaits(S)' <=> Outstanding(pending, q, S)
             /\ AtMostOne(pending, q, S) => AtMostOne(pending, ready, S)'
  <2>1. CASE pending' = pending \ A
    BY <1>3, <1>5, <2>1 DEF Awaits
  <2>2. CASE pending' = (pending \ A) \cup {"timer"}
    <3>1. /\ Outstanding((pending \ A) \cup {"timer"}, q \o a, S)
               <=> Outstanding(pending \ A, q \o a, S)
          /\ AtMostOne(pending \ A, q \o a, S)
               => AtMostOne((pending \ A) \cup {"timer"}, q \o a, S)
      BY <1>6, AddFacts
    <3> QED
      BY <1>3, <1>5, <2>2, <3>1 DEF Awaits
  <2> QED
    BY <1>4, <2>1, <2>2
<1>7. pending' \subseteq Ops
  BY <1>1, <1>4 DEF Ops, Reads
<1> QED
  BY <1>2, <1>3, <1>5, <1>6, <1>7

(* The operating system finishes a pending operation.                      *)
LEMMA Finishing ==
  ASSUME Shape, NEW op, NEW ec \in Codes, NEW sock, Finish(op, ec, sock)
  PROVE  /\ op \in pending /\ pending' = pending \ {op} /\ pending' \subseteq Ops
         /\ ready' \in Seq(Handlers)
         /\ Quieter(ready', ready, Follows, Tracked)
         /\ \A S : /\ Awaits(S)' <=> Awaits(S)
                   /\ AtMostOne(pending, ready, S) => AtMostOne(pending, ready, S)'
<1>1. /\ op \in pending /\ pending' = pending \ {op} /\ pending \subseteq Ops
      /\ ready' = Append(ready, Done(op, ec)) /\ ready \in Seq(Handlers)
  BY DEF Shape, Finish
<1>2. Done(op, ec) \in Handlers /\ Done(op, ec) \notin Tracked
  BY <1>1, DoneType
<1>3. ASSUME NEW S
      PROVE  /\ ready' \in Seq(Handlers)
             /\ Awaits(S)' <=> Awaits(S)
             /\ AtMostOne(pending, ready, S) => AtMostOne(pending, ready, S)'
  BY <1>1, <1>2, FinishFacts DEF Awaits
<1>4. Quieter(ready', ready, Follows, Tracked)
  BY <1>1, <1>2, FollowsFacts, QuieterFacts
<1> QED
  BY <1>1, <1>3, <1>4

-----------------------------------------------------------------------------
(* Types.                                                                  *)

(* Every step keeps the types.  A finished write finds its message in the  *)
(* queue, because of OneWriter.                                            *)
LEMMA ShapeStep == Shape /\ OneWriter /\ [Next]_vars => Shape'
<1> SUFFICES ASSUME Shape, OneWriter, [Next]_vars
             PROVE  Shape'
  OBVIOUS
<1> USE MaxSendsAssumption DEF Shape, Sockets, Ids
<1>1. CASE open
  BY <1>1 DEF open, Ops, history
<1>2. CASE OpenThrows
  BY <1>2 DEF OpenThrows, history
<1>3. CASE send
  <2>1. Posted(posted + 1) \in Handlers
    BY <1>3 DEF send, Posted, Handlers
  <2> QED
    BY <1>3, <2>1 DEF send
<1>4. CASE CloseDisarms
  BY <1>4 DEF CloseDisarms, history
<1>5. CASE ClosePosts
  <2>1. Done("close", "ok") \in Handlers
    BY DoneType DEF Codes
  <2> QED
    BY <1>5, <2>1 DEF ClosePosts, history
<1>6. CASE Connected \/ Received
  <2>1. PICK op : Takes(op)
    BY <1>6 DEF Connected, Received
  <2>2. Tail(ready) \in Seq(Handlers) /\ UNCHANGED <<caller, io, posted>>
    BY <2>1, Taking
  <2>3. UNCHANGED <<write_msgs_, socket, writing, wire>>
    BY <1>6 DEF Connected, Received
  <2>4. PICK r \in Reads : Start(r, Tail(ready))
    BY <1>6 DEF Connected, Received, do_read, Reads
  <2>5. /\ pending' \subseteq Ops /\ pending' \subseteq pending \cup {r}
        /\ ready' \in Seq(Handlers)
    BY <2>2, <2>4, Starting
  <2> QED
    BY <2>2, <2>3, <2>4, <2>5 DEF Reads
<1>7. CASE ConnectFailed \/ ReceiveFailed \/ SendFailed
  <2>1. PICK op : Takes(op)
    BY <1>7 DEF ConnectFailed, ReceiveFailed, SendFailed
  <2>2. Tail(ready) \in Seq(Handlers) /\ UNCHANGED <<caller, io, posted>>
    BY <2>1, Taking
  <2>3. /\ \E ended \in SUBSET (pending \ {"timer"}) :
             schedule_reconnect(ended, Tail(ready))
        /\ socket' = socket \/ socket' = "closed"
        /\ UNCHANGED <<write_msgs_, writing, wire>>
    BY <1>7 DEF ConnectFailed, ReceiveFailed, SendFailed, Drop
  <2>4. ASSUME NEW ended \in SUBSET (pending \ {"timer"}),
               schedule_reconnect(ended, Tail(ready))
        PROVE  /\ pending' = (pending \ ended) \cup IF stop_ THEN {"timer"} ELSE {}
               /\ ready' \in Seq(Handlers) /\ pending' \subseteq Ops
    BY <2>2, <2>4, Scheduling
  <2>5. /\ ready' \in Seq(Handlers) /\ pending' \subseteq Ops
        /\ "send" \in pending' => "send" \in pending
    BY <2>3, <2>4
  <2> QED
    BY <2>2, <2>3, <2>5
<1>8. CASE Reconnect
  <2>1. Tail(ready) \in Seq(Handlers) /\ UNCHANGED <<caller, io, posted>>
    BY <1>8, Taking DEF Reconnect
  <2>2. CASE Head(ready).ec = "ok"
    <3>1. PICK a \in Aborts(pending \ {"timer"}) : ready' = Tail(ready) \o a
      BY <1>8, <2>2 DEF Reconnect
    <3>2. ready' \in Seq(Handlers)
      <4>1. pending \ {"timer"} \in SUBSET pending
        OBVIOUS
      <4> QED
        BY <2>1, <3>1, <4>1, Aborting
    <3>3. pending' = (pending \cap {"timer"}) \cup {"connect"} /\ socket' = "opening"
      BY <1>8, <2>2 DEF Reconnect
    <3>4. pending' \subseteq Ops /\ "send" \notin pending'
      BY <3>3 DEF Ops
    <3> QED
      BY <1>8, <2>1, <3>2, <3>3, <3>4 DEF Reconnect
  <2>3. CASE Head(ready).ec # "ok"
    <3>1. ready' = Tail(ready) /\ UNCHANGED <<pending, socket>>
      BY <1>8, <2>3 DEF Reconnect
    <3> QED
      BY <1>8, <2>1, <3>1 DEF Reconnect
  <2> QED
    BY <2>2, <2>3
<1>9. CASE ReconnectThrows \/ RunReturns
  BY <1>9 DEF ReconnectThrows, RunReturns, history
<1>10. CASE Dropped
  BY <1>10, Taking DEF Dropped
<1>11. CASE Enqueue
  <2>1. /\ Tail(ready) \in Seq(Handlers) /\ UNCHANGED <<caller, io, posted>>
        /\ Head(ready).msg \in Ids
    <3>1. Head(ready) \in Handlers /\ Head(ready).op = "post"
      BY <1>11, Taking DEF Enqueue
    <3> QED
      BY <1>11, <3>1, Taking DEF Enqueue, Handlers, Ops, Reads
  <2>2. write_msgs_' \in Seq(Ids) /\ UNCHANGED <<socket, wire>>
    BY <1>11, <2>1 DEF Enqueue
  <2>3. CASE write_msgs_ = <<>>
    <3>1. Start("send", Tail(ready)) /\ writing' = Head(write_msgs_')
      BY <1>11, <2>3 DEF Enqueue, do_write
    <3>2. writing' \in Ids
      BY <1>11, <2>1, <2>3, <3>1 DEF Enqueue
    <3>3. pending' \subseteq Ops /\ ready' \in Seq(Handlers)
      BY <2>1, <3>1, Starting
    <3> QED
      BY <2>1, <2>2, <3>2, <3>3
  <2>4. CASE write_msgs_ # <<>>
    <3>1. ready' = Tail(ready) /\ UNCHANGED <<pending, writing>>
      BY <1>11, <2>4 DEF Enqueue
    <3> QED
      BY <2>1, <2>2, <3>1
  <2> QED
    BY <2>3, <2>4
<1>12. CASE Sent
  <2>1. /\ Tail(ready) \in Seq(Handlers) /\ UNCHANGED <<caller, io, posted>>
        /\ write_msgs_ # <<>>
    BY <1>12, Taking DEF Sent, OneWriter
  <2>2. Tail(write_msgs_) \in Seq(Ids) /\ write_msgs_' = Tail(write_msgs_)
    BY <1>12, <2>1 DEF Sent
  <2>3. UNCHANGED <<socket, wire>>
    BY <1>12 DEF Sent
  <2>4. CASE Tail(write_msgs_) # <<>>
    <3>1. Start("send", Tail(ready)) /\ writing' = Head(Tail(write_msgs_))
      BY <1>12, <2>4 DEF Sent, do_write
    <3>2. \A q \in Seq(Ids) : q # <<>> => Head(q) \in Ids
      OBVIOUS
    <3>3. writing' \in Ids
      BY <2>2, <2>4, <3>1, <3>2
    <3>4. pending' \subseteq Ops /\ ready' \in Seq(Handlers)
      BY <2>1, <3>1, Starting
    <3> QED
      BY <2>1, <2>2, <2>3, <3>3, <3>4
  <2>5. CASE Tail(write_msgs_) = <<>>
    <3>1. ready' = Tail(ready) /\ UNCHANGED <<pending, writing>>
      BY <1>12, <2>5 DEF Sent
    <3> QED
      BY <2>1, <2>2, <2>3, <3>1
  <2> QED
    BY <2>4, <2>5
<1>13. CASE Closed
  <2>1. Tail(ready) \in Seq(Handlers) /\ UNCHANGED <<caller, io, posted>>
    BY <1>13, Taking DEF Closed
  <2>2. /\ \E a \in Aborts(pending \ {"timer"}) : ready' = Tail(ready) \o a
        /\ pending' = pending \cap {"timer"} /\ socket' = "closed"
        /\ UNCHANGED <<write_msgs_, writing, wire>>
    BY <1>13 DEF Closed
  <2>3. ready' \in Seq(Handlers)
    <3>1. pending \ {"timer"} \in SUBSET pending
      OBVIOUS
    <3> QED
      BY <2>1, <2>2, <3>1, Aborting
  <2> QED
    BY <2>1, <2>2, <2>3
<1>14. ASSUME NEW op, NEW ec \in Codes, NEW sock \in Sockets, Finish(op, ec, sock),
              wire' \in Seq(Ids)
       PROVE  Shape'
  <2>1. /\ UNCHANGED <<write_msgs_, caller, io, posted, writing>> /\ socket' = sock
    BY <1>14 DEF Finish
  <2>2. /\ pending' = pending \ {op} /\ pending' \subseteq Ops
        /\ ready' \in Seq(Handlers)
    BY <1>14, Finishing
  <2> QED
    BY <1>14, <2>1, <2>2
<1>15. CASE Environment
  <2>1. CASE OsConnect
    BY <1>14, <2>1 DEF OsConnect, Codes
  <2>2. CASE OsReadData
    BY <1>14, <2>2 DEF OsReadData, Codes
  <2>3. CASE OsReadFails
    BY <1>14, <2>3 DEF OsReadFails, Codes
  <2>4. CASE OsWriteDone
    <3>1. writing \in Ids
      BY <2>4 DEF OsWriteDone, Finish
    <3>2. wire' \in Seq(Ids) /\ Finish("send", "ok", socket)
      BY <2>4, <3>1 DEF OsWriteDone
    <3> QED
      BY <1>14, <3>2 DEF Codes
  <2>5. CASE OsWriteFails
    BY <1>14, <2>5 DEF OsWriteFails, Codes
  <2>6. CASE OsTimer
    BY <1>14, <2>6 DEF OsTimer, Codes
  <2> QED
    BY <1>15, <2>1, <2>2, <2>3, <2>4, <2>5, <2>6 DEF Environment, OsWrite
<1>16. CASE UNCHANGED vars
  BY <1>16 DEF vars, state, history
<1> QED
  BY <1>1, <1>2, <1>3, <1>4, <1>5, <1>6, <1>7, <1>8, <1>9, <1>10, <1>11, <1>12,
     <1>13, <1>15, <1>16 DEF Next, close, IoThread

-----------------------------------------------------------------------------
(* The life of the connection.                                             *)

(* Every step keeps what is known of the application: after open() has set *)
(* stop_ only close() clears it.                                           *)
LEMMA CallersStep ==
  ASSUME Callers, [Next]_vars
  PROVE  Callers'
<1>1. CASE open \/ OpenThrows
  <2>1. caller' # "new" /\ stop_' = TRUE
    BY <1>1 DEF open, OpenThrows
  <2> QED
    BY <2>1, Zenon DEF Callers
<1>2. CASE close
  <2>1. caller' # "new" /\ caller' # "open"
    BY <1>2 DEF close, CloseDisarms, ClosePosts
  <2> QED
    BY <2>1 DEF Callers
<1>3. CASE send \/ IoThread \/ Environment
  <2>1. caller' = caller /\ stop_' = stop_ /\ caller # "new"
    BY <1>3 DEF Callers, send, IoThread, Takes, Connected, ConnectFailed, Reconnect,
       ReconnectThrows, Received, ReceiveFailed, Dropped, Enqueue, Sent, SendFailed,
       Closed, RunReturns, Environment, Finish, OsConnect, OsReadData, OsReadFails,
       OsWrite, OsWriteDone, OsWriteFails, OsTimer
  <2> QED
    BY <2>1, Zenon DEF Callers
<1>4. CASE UNCHANGED vars
  <2>1. UNCHANGED <<stop_, caller, pending, ready, io>>
    BY <1>4 DEF vars, state
  <2> QED
    BY <2>1, Zenon DEF Callers
<1> QED
  BY <1>1, <1>2, <1>3, <1>4 DEF Next

(* Counting the lives: those of pending operations.                        *)
LEMMA OwnFacts ==
  /\ Own({}) = 0
  /\ \A r \in SUBSET Ops :
       /\ IsFiniteSet(r \ {"send"}) /\ Own(r) \in Nat
       /\ \A op \in Ops \ r : Own(r \cup {op}) = Own(r) + IF op = "send" THEN 0 ELSE 1
<1>1. Own({}) = 0
  <2>1. {} \ {"send"} = {}
    OBVIOUS
  <2> QED
    BY <2>1, FS_EmptySet, Zenon DEF Own
<1>2. ASSUME NEW r \in SUBSET Ops
      PROVE  IsFiniteSet(r \ {"send"}) /\ Own(r) \in Nat
  <2>1. r \ {"send"} \in SUBSET Ops
    OBVIOUS
  <2> QED
    BY <2>1, OpsFinite, FS_CardinalityType DEF Own
<1>3. ASSUME NEW r \in SUBSET Ops, NEW op \in Ops \ r
      PROVE  Own(r \cup {op}) = Own(r) + IF op = "send" THEN 0 ELSE 1
  <2>1. CASE op = "send"
    <3>1. (r \cup {op}) \ {"send"} = r \ {"send"}
      BY <2>1
    <3>2. Own(r \cup {op}) = Own(r)
      BY <3>1, Zenon DEF Own
    <3> QED
      BY <1>2, <2>1, <3>2
  <2>2. CASE op # "send"
    <3> DEFINE s == r \ {"send"}
    <3>1. (r \cup {op}) \ {"send"} = s \cup {op} /\ op \notin s
      BY <2>2
    <3>2. IsFiniteSet(s)
      BY <1>2
    <3> HIDE DEF s
    <3>3. Cardinality(s \cup {op}) = Cardinality(s) + 1
      BY <3>1, <3>2, FS_AddElement
    <3>4. Own(r \cup {op}) = Cardinality(s \cup {op}) /\ Own(r) = Cardinality(s)
      BY <3>1, Zenon DEF Own, s
    <3> QED
      BY <2>2, <3>3, <3>4
  <2> QED
    BY <2>1, <2>2
<1> QED
  BY <1>1, <1>2, <1>3

(* Those of handlers.                                                      *)
LEMMA WaitingFacts ==
  ASSUME NEW q \in Seq(Handlers)
  PROVE  /\ Waiting(q) \in Nat /\ Waiting(<<>>) = 0
         /\ q # <<>> => /\ Waiting(Tail(q)) \in Nat
                        /\ Waiting(q) =
                             Waiting(Tail(q)) + IF Head(q) \in Lead THEN 1 ELSE 0
         /\ \A h \in Handlers :
              Waiting(Append(q, h)) = Waiting(q) + IF h \in Lead THEN 1 ELSE 0
<1>1. Waiting(q) \in Nat /\ Waiting(<<>>) = 0
  BY PlacesFinite, PlacesOne, Zenon DEF Waiting
<1>2. ASSUME q # <<>>
      PROVE  /\ Waiting(Tail(q)) \in Nat
             /\ Waiting(q) = Waiting(Tail(q)) + IF Head(q) \in Lead THEN 1 ELSE 0
  <2>1. Tail(q) \in Seq(Handlers)
    BY <1>2
  <2>2. Cardinality(Places(Tail(q), Lead)) \in Nat
    BY <2>1, PlacesFinite
  <2>3. Cardinality(Places(q, Lead)) =
          Cardinality(Places(Tail(q), Lead)) + IF Head(q) \in Lead THEN 1 ELSE 0
    BY <1>2, PlacesFacts
  <2> QED
    BY <2>2, <2>3, Zenon DEF Waiting
<1>3. \A h \in Handlers :
        Waiting(Append(q, h)) = Waiting(q) + IF h \in Lead THEN 1 ELSE 0
  <2>1. \A h \in Handlers : Cardinality(Places(Append(q, h), Lead)) =
          Cardinality(Places(q, Lead)) + IF h \in Lead THEN 1 ELSE 0
    BY PlacesFacts
  <2> QED
    BY <2>1, Zenon DEF Waiting
<1> QED
  BY <1>1, <1>2, <1>3

(* A handler is taken or added, or an operation is started or ends.        *)
LEMMA CountFacts ==
  ASSUME NEW p \in SUBSET Ops, NEW q \in Seq(Handlers)
  PROVE  /\ Count(p, q) \in Nat /\ Count({}, <<>>) = 0
         /\ q # <<>> =>
              Count(p, q) = Count(p, Tail(q)) + IF Head(q) \in Lead THEN 1 ELSE 0
         /\ \A h \in Handlers :
              Count(p, Append(q, h)) = Count(p, q) + IF h \in Lead THEN 1 ELSE 0
         /\ \A op \in Ops \ p :
              Count(p \cup {op}, q) = Count(p, q) + IF op = "send" THEN 0 ELSE 1
         /\ \A op \in p :
              Count(p, q) = Count(p \ {op}, q) + IF op = "send" THEN 0 ELSE 1
<1>1. Own(p) \in Nat /\ Own({}) = 0 /\ Waiting(q) \in Nat /\ Waiting(<<>>) = 0
  BY OwnFacts, WaitingFacts
<1>2. ASSUME NEW op \in Ops \ p
      PROVE  Count(p \cup {op}, q) = Count(p, q) + IF op = "send" THEN 0 ELSE 1
  <2>1. Own(p \cup {op}) = Own(p) + IF op = "send" THEN 0 ELSE 1
    BY OwnFacts
  <2> QED
    BY <1>1, <2>1 DEF Count
<1>3. ASSUME NEW op \in p
      PROVE  Count(p, q) = Count(p \ {op}, q) + IF op = "send" THEN 0 ELSE 1
  <2> DEFINE r == p \ {op}
  <2>1. r \in SUBSET Ops /\ op \in Ops \ r /\ p = r \cup {op}
    OBVIOUS
  <2> HIDE DEF r
  <2>2. Own(r \cup {op}) = Own(r) + (IF op = "send" THEN 0 ELSE 1) /\ Own(r) \in Nat
    BY <2>1, OwnFacts
  <2>3. Own(p) = Own(r \cup {op})
    BY <2>1, Zenon
  <2>4. Count(p, q) = Count(r, q) + IF op = "send" THEN 0 ELSE 1
    BY <1>1, <2>2, <2>3 DEF Count
  <2> QED
    BY <2>4 DEF r
<1>4. ASSUME q # <<>>
      PROVE  Count(p, q) = Count(p, Tail(q)) + IF Head(q) \in Lead THEN 1 ELSE 0
  <2>1. /\ Waiting(Tail(q)) \in Nat
        /\ Waiting(q) = Waiting(Tail(q)) + IF Head(q) \in Lead THEN 1 ELSE 0
    BY <1>4, WaitingFacts
  <2> QED
    BY <1>1, <2>1 DEF Count
<1>5. ASSUME NEW h \in Handlers
      PROVE  Count(p, Append(q, h)) = Count(p, q) + IF h \in Lead THEN 1 ELSE 0
  <2>1. Waiting(Append(q, h)) = Waiting(q) + IF h \in Lead THEN 1 ELSE 0
    BY WaitingFacts
  <2> QED
    BY <1>1, <2>1 DEF Count
<1>6. Count(p, q) \in Nat /\ Count({}, <<>>) = 0
  BY <1>1 DEF Count
<1> QED
  BY <1>2, <1>3, <1>4, <1>5, <1>6

(* The parts of CountFacts about an operation or a handler that is added.  *)
LEMMA CountJoin ==
  ASSUME NEW p \in SUBSET Ops, NEW q \in Seq(Handlers), NEW op \in Ops \ p
  PROVE  Count(p \cup {op}, q) = Count(p, q) + IF op = "send" THEN 0 ELSE 1
BY CountFacts

LEMMA CountAppend ==
  ASSUME NEW p \in SUBSET Ops, NEW q \in Seq(Handlers), NEW h \in Handlers
  PROVE  Count(p, Append(q, h)) = Count(p, q) + IF h \in Lead THEN 1 ELSE 0
BY CountFacts

(* An aborted operation goes on to lead, but for a timer.                  *)
LEMMA CountAbort ==
  ASSUME NEW p \in SUBSET Ops, NEW q \in Seq(Handlers), NEW A \in SUBSET p,
         NEW a \in Aborts(A)
  PROVE  Count(p, q) = Count(p \ A, q \o a) + IF "timer" \in A THEN 1 ELSE 0
<1> DEFINE P == p \ {"send"}
           B == A \ {"send"}
           K == {op \in A : Done(op, "aborted") \in Lead}
           r == (p \ A) \ {"send"}
<1>1. IsFiniteSet(A) /\ \A op \in A : Done(op, "aborted") \in Handlers
  <2>1. A \in SUBSET Ops
    OBVIOUS
  <2> QED
    BY <2>1, OpsFinite, DoneType DEF Codes
<1>2. a \in Seq(Handlers)
  BY <1>1, AbortsFacts
<1>3. Waiting(q) \in Nat /\ Waiting(q \o a) = Waiting(q) + Cardinality(K)
  <2>1. Cardinality(Places(q \o a, Lead)) =
          Cardinality(Places(q, Lead)) + Cardinality(Places(a, Lead))
    BY <1>2, PlacesJoin
  <2>2. Cardinality(Places(a, Lead)) = Cardinality(K)
    BY <1>1, PlacesAborts
  <2>3. Waiting(q) \in Nat
    BY WaitingFacts
  <2> HIDE DEF K
  <2> QED
    BY <2>1, <2>2, <2>3, Zenon DEF Waiting
<1>4. \A op \in A : Done(op, "aborted") \in Lead <=> op # "send" /\ op # "timer"
  <2> TAKE op \in A
  <2>1. op \in Ops \cup {"close"} /\ "aborted" \in Codes /\ op # "close"
    BY DEF Codes, Ops, Reads
  <2>2. Done(op, "aborted") \in Lead <=>
          op \notin {"send", "close"} /\ (op = "timer" => "aborted" = "ok")
    BY <2>1, DoneType
  <2> QED
    BY <2>1, <2>2
<1>5. /\ K = B \ {"timer"} /\ P = r \cup B /\ r \cap B = {}
      /\ "timer" \in B <=> "timer" \in A
      /\ "timer" \notin B => K = B
  BY <1>4
<1>6. IsFiniteSet(r) /\ IsFiniteSet(B) /\ IsFiniteSet(K)
  <2>1. r \in SUBSET Ops /\ B \in SUBSET Ops /\ K \in SUBSET Ops
    OBVIOUS
  <2> QED
    BY <2>1, OpsFinite
<1> HIDE DEF P, B, K, r
<1>7. /\ Cardinality(r) \in Nat /\ Cardinality(B) \in Nat /\ Cardinality(K) \in Nat
  BY <1>6, FS_CardinalityType
<1>8. Cardinality(P) = Cardinality(r) + Cardinality(B)
  <2>1. Cardinality(r \cup B) =
          Cardinality(r) + Cardinality(B) - Cardinality(r \cap B)
    BY <1>6, FS_Union
  <2>2. Cardinality(r \cap B) = 0
    BY <1>5, FS_EmptySet
  <2> QED
    BY <1>5, <1>7, <2>1, <2>2
<1>9. Cardinality(B) = Cardinality(K) + IF "timer" \in A THEN 1 ELSE 0
  <2>1. CASE "timer" \in A
    <3>1. Cardinality(B \ {"timer"}) = Cardinality(B) - 1
      BY <1>5, <1>6, <2>1, FS_RemoveElement
    <3> QED
      BY <1>5, <1>7, <2>1, <3>1
  <2>2. CASE "timer" \notin A
    <3>1. Cardinality(B) = Cardinality(K)
      BY <1>5, <2>2, Zenon
    <3> QED
      BY <1>7, <2>2, <3>1
  <2> QED
    BY <2>1, <2>2
<1>10. /\ Count(p, q) = Cardinality(P) + Waiting(q)
       /\ Count(p \ A, q \o a) = Cardinality(r) + Waiting(q \o a)
  BY Zenon DEF Count, Own, P, r
<1> QED
  BY <1>3, <1>7, <1>8, <1>9, <1>10

(* schedule_reconnect() adds at most one life, and leaves one while stop_  *)
(* is set.                                                                 *)
LEMMA CountSchedule ==
  ASSUME Shape, NEW q \in Seq(Handlers), NEW ended \in SUBSET (pending \ {"timer"}),
         schedule_reconnect(ended, q)
  PROVE  /\ Count(pending', ready') <= Count(pending, q) + 1
         /\ stop_ => Count(pending', ready') # 0
<1> DEFINE A == ended \cup IF stop_ THEN pending \cap {"timer"} ELSE {}
<1>1. /\ A \in SUBSET pending /\ pending \in SUBSET Ops /\ pending \ A \in SUBSET Ops
      /\ "timer" \in Ops
  BY DEF Shape, Ops
<1>2. PICK a \in Aborts(A) : ready' = q \o a
  BY DEF schedule_reconnect
<1>3. /\ pending' = (pending \ ended) \cup IF stop_ THEN {"timer"} ELSE {}
      /\ ready' \in Seq(Handlers) /\ pending' \in SUBSET Ops
  BY Scheduling
<1>4. CASE stop_
  <2>1. pending' = (pending \ A) \cup {"timer"} /\ "timer" \notin pending \ A
    BY <1>3, <1>4
  <2> HIDE DEF A
  <2>2. Count(pending, q) = Count(pending \ A, ready') + IF "timer" \in A THEN 1 ELSE 0
    BY <1>1, <1>2, CountAbort
  <2>3. Count(pending \ A, ready') \in Nat
    BY <1>1, <1>3, CountFacts
  <2>4. Count(pending', ready') =
          Count(pending \ A, ready') + IF "timer" = "send" THEN 0 ELSE 1
    <3>1. /\ "timer" \in Ops \ (pending \ A) /\ pending \ A \in SUBSET Ops
          /\ ready' \in Seq(Handlers)
      BY <1>1, <1>3, <2>1
    <3>2. Count((pending \ A) \cup {"timer"}, ready') =
            Count(pending \ A, ready') + IF "timer" = "send" THEN 0 ELSE 1
      BY <3>1, CountJoin, Zenon
    <3> QED
      BY <2>1, <3>2, Zenon
  <2> QED
    BY <2>2, <2>3, <2>4
<1>5. CASE ~stop_
  <2>1. pending' = pending \ A /\ "timer" \notin A
    BY <1>3, <1>5
  <2> HIDE DEF A
  <2>2. Count(pending, q) = Count(pending', ready')
    <3>1. Count(pending, q) = Count(pending \ A, q \o a) + 0
      BY <1>1, <1>2, <2>1, CountAbort
    <3>2. Count(pending', ready') \in Nat
      BY <1>3, CountFacts
    <3> QED
      BY <1>2, <2>1, <3>1, <3>2
  <2>3. Count(pending', ready') \in Nat
    BY <1>3, CountFacts
  <2> QED
    BY <1>5, <2>2, <2>3
<1> QED
  BY <1>4, <1>5

(* do_read() adds at most one life, and leaves one; do_write() none.       *)
LEMMA CountStart ==
  ASSUME Shape, NEW q \in Seq(Handlers), NEW op \in Reads \cup {"send"}, Start(op, q)
  PROVE  /\ op = "send" => Count(pending', ready') = Count(pending, q)
         /\ op # "send" => /\ Count(pending', ready') <= Count(pending, q) + 1
                           /\ Count(pending', ready') # 0
<1>1. /\ pending \in SUBSET Ops /\ op \in Ops /\ op # "timer"
      /\ Done(op, "failed") \in Handlers
      /\ Done(op, "failed") \in Lead <=> op # "send"
  <2>1. op \in Ops /\ "failed" \in Codes /\ op # "timer"
    BY DEF Ops, Reads, Codes
  <2> QED
    BY <2>1, DoneType DEF Shape, Reads
<1>2. Count(pending, q) \in Nat
  BY <1>1, CountFacts
<1>3. CASE socket = "closed"
  <2>1. ready' = Append(q, Done(op, "failed")) /\ pending' = pending
    BY <1>3 DEF Start
  <2>2. Count(pending', ready') =
          Count(pending, q) + IF Done(op, "failed") \in Lead THEN 1 ELSE 0
    BY <1>1, <2>1, CountFacts
  <2> QED
    BY <1>1, <1>2, <2>2
<1>4. CASE socket # "closed"
  <2>1. ready' = q /\ pending' = pending \cup {op}
    BY <1>4 DEF Start
  <2>2. CASE op \in pending
    <3>1. pending' = pending
      BY <2>1, <2>2
    <3>2. /\ Count(pending, q) = Count(pending \ {op}, q) + IF op = "send" THEN 0 ELSE 1
          /\ Count(pending \ {op}, q) \in Nat
      <4>1. pending \ {op} \in SUBSET Ops
        BY <1>1
      <4> QED
        BY <1>1, <2>2, <4>1, CountFacts
    <3>3. Count(pending', ready') = Count(pending, q)
      BY <2>1, <3>1, Zenon
    <3> QED
      BY <1>2, <3>2, <3>3
  <2>3. CASE op \notin pending
    <3>1. op \in Ops \ pending
      BY <1>1, <2>3
    <3>2. Count(pending', ready') = Count(pending, q) + IF op = "send" THEN 0 ELSE 1
      BY <1>1, <2>1, <3>1, CountFacts, Zenon
    <3> QED
      BY <1>2, <3>2
  <2> QED
    BY <2>2, <2>3
<1> QED
  BY <1>3, <1>4

(* A handler that is taken leads on, or leaves the lives as they are.      *)
LEMMA CountTake ==
  ASSUME Shape, NEW op, Takes(op)
  PROVE  /\ Count(pending, ready) \in Nat /\ Count(pending, Tail(ready)) \in Nat
         /\ op \in {"connect"} \cup Reads =>
              Count(pending, ready) = Count(pending, Tail(ready)) + 1
         /\ op \in {"post", "send", "close"} =>
              Count(pending, ready) = Count(pending, Tail(ready))
         /\ op = "timer" => Count(pending, ready) =
              Count(pending, Tail(ready)) + IF Head(ready).ec = "ok" THEN 1 ELSE 0
<1>1. /\ pending \in SUBSET Ops /\ ready \in Seq(Handlers) /\ ready # <<>>
      /\ Head(ready) \in Handlers /\ Head(ready).op = op /\ Tail(ready) \in Seq(Handlers)
  BY Taking DEF Shape
<1>2. /\ Count(pending, ready) \in Nat /\ Count(pending, Tail(ready)) \in Nat
      /\ Count(pending, ready) =
           Count(pending, Tail(ready)) + IF Head(ready) \in Lead THEN 1 ELSE 0
  BY <1>1, CountFacts
<1>3. Head(ready) \in Lead <=>
        op \in {"connect"} \cup Reads \/ (op = "timer" /\ Head(ready).ec = "ok")
  BY <1>1 DEF Lead, Leads
<1>4. /\ op \in {"connect"} \cup Reads => Head(ready) \in Lead
      /\ op \in {"post", "send", "close"} => Head(ready) \notin Lead
      /\ op = "timer" => (Head(ready) \in Lead <=> Head(ready).ec = "ok")
  BY <1>3 DEF Reads
<1> QED
  BY <1>2, <1>4

(* Every step leaves a life while there must be one, and adds none unless  *)
(* a write fails, which it does once.                                      *)
LEMMA LifeStep ==
  ASSUME Shape, Shape', LifeCycle, OneWriter, [Next]_vars
  PROVE  Alive' /\ Bound'
<1> DEFINE n == Count(pending, ready)
           m == Count(pending', ready')
<1>0. /\ n \in Nat /\ m \in Nat /\ n <= 2 /\ pending \in SUBSET Ops
      /\ ready \in Seq(Handlers) /\ pending' \in SUBSET Ops /\ ready' \in Seq(Handlers)
      /\ caller = "open" /\ io = "running" => n # 0
  <2>1. /\ pending \in SUBSET Ops /\ ready \in Seq(Handlers)
        /\ pending' \in SUBSET Ops /\ ready' \in Seq(Handlers)
    BY DEF Shape
  <2> QED
    BY <2>1, CountFacts DEF LifeCycle, Bound, Alive
<1>00. failed \/ n <= 1
  BY DEF LifeCycle, Bound
<1> HIDE DEF n, m
<1>1. ASSUME m <= n, failed' = failed
      PROVE  Bound'
  <2>1. m <= 2 /\ (n <= 1 => m <= 1)
    BY <1>0, <1>1
  <2> QED
    BY <1>00, <1>1, <2>1, Zenon DEF Bound, m
<1>2. ASSUME m = n, UNCHANGED failed,
             caller' = "open" /\ io' = "running" => caller = "open" /\ io = "running"
      PROVE  Alive' /\ Bound'
  BY <1>0, <1>1, <1>2 DEF Alive, m
<1>3. CASE open
  <2>1. /\ pending' = {} \cup {"connect"} /\ ready' = <<>> /\ pending = {} /\ ready = <<>>
    BY <1>3 DEF open, LifeCycle, Callers
  <2>2. Count({} \cup {"connect"}, <<>>) = Count({}, <<>>) + 1 /\ Count({}, <<>>) = 0
    <3>1. {} \in SUBSET Ops /\ <<>> \in Seq(Handlers) /\ "connect" \in Ops \ {}
      BY DEF Ops
    <3> QED
      BY <3>1, CountFacts
  <2>3. m = 1
    BY <2>1, <2>2 DEF m
  <2> QED
    BY <2>3 DEF Alive, Bound, m
<1>4. CASE OpenThrows \/ CloseDisarms \/ ReconnectThrows \/ RunReturns \/ UNCHANGED vars
  <2>1. /\ UNCHANGED <<pending, ready, failed>>
        /\ caller' = "open" /\ io' = "running" => caller = "open" /\ io = "running"
    BY <1>4 DEF OpenThrows, CloseDisarms, ReconnectThrows, RunReturns, vars, state, history
  <2> QED
    BY <1>2, <2>1 DEF m, n
<1>5. CASE send \/ ClosePosts
  <2>1. PICK h \in Handlers : h \notin Lead /\ ready' = Append(ready, h)
    <3>1. CASE send
      <4>1. Posted(posted + 1) \in Handlers
        BY <3>1, MaxSendsAssumption DEF send, Posted, Handlers, Ids, Shape
      <4>2. Posted(posted + 1).op = "post"
        BY DEF Posted
      <4>3. Posted(posted + 1) \notin Lead
        BY <4>2 DEF Lead, Leads, Reads
      <4> QED
        BY <3>1, <4>1, <4>3 DEF send
    <3>2. CASE ClosePosts
      <4>1. Done("close", "ok") \in Handlers /\ Done("close", "ok") \notin Lead
        BY DoneType DEF Codes
      <4> QED
        BY <3>2, <4>1 DEF ClosePosts
    <3> QED
      BY <1>5, <3>1, <3>2
  <2>2. /\ UNCHANGED <<pending, io, failed>> /\ (caller' = "open" => caller = "open")
    BY <1>5 DEF send, ClosePosts, history
  <2>3. m = n
    <3>1. /\ pending \in SUBSET Ops /\ ready \in Seq(Handlers)
          /\ Count(pending, ready) \in Nat
      BY <1>0 DEF Shape, n
    <3>2. Count(pending, Append(ready, h)) = Count(pending, ready)
      BY <2>1, <3>1, CountAppend
    <3> QED
      BY <2>1, <2>2, <3>2, Zenon DEF m, n
  <2> QED
    BY <1>2, <2>2, <2>3
<1>6. CASE Connected \/ Received
  <2>1. PICK op \in {"connect"} \cup Reads : Takes(op)
    BY <1>6 DEF Connected, Received
  <2>2. PICK r \in Reads : r # "send" /\ Start(r, Tail(ready))
    BY <1>6 DEF Connected, Received, do_read, Reads
  <2>3. /\ Tail(ready) \in Seq(Handlers)
        /\ Count(pending, Tail(ready)) \in Nat /\ n = Count(pending, Tail(ready)) + 1
    BY <2>1, Taking, CountTake DEF n
  <2>4. m <= Count(pending, Tail(ready)) + 1 /\ m # 0
    <3>1. r \in Reads \cup {"send"}
      OBVIOUS
    <3> QED
      BY <2>2, <2>3, <3>1, CountStart, Zenon DEF m
  <2>5. m <= n /\ failed' = failed
    BY <1>0, <1>6, <2>3, <2>4 DEF Connected, Received
  <2> QED
    BY <1>1, <2>4, <2>5 DEF Alive, m
<1>7. ASSUME NEW op, Takes(op), NEW ended \in SUBSET (pending \ {"timer"}),
             schedule_reconnect(ended, Tail(ready))
      PROVE  m <= Count(pending, Tail(ready)) + 1 /\ Alive'
  <2>1. Tail(ready) \in Seq(Handlers) /\ UNCHANGED <<caller, io>>
    BY <1>7, Taking
  <2>2. m <= Count(pending, Tail(ready)) + 1 /\ (stop_ => m # 0)
    BY <1>7, <2>1, CountSchedule DEF m
  <2>3. caller = "open" => stop_
    BY DEF LifeCycle, Callers
  <2> QED
    BY <2>1, <2>2, <2>3 DEF Alive, m
<1>8. CASE ConnectFailed \/ ReceiveFailed
  <2>1. PICK op \in {"connect"} \cup Reads : Takes(op)
    BY <1>8 DEF ConnectFailed, ReceiveFailed
  <2>2. \E ended \in SUBSET (pending \ {"timer"}) : schedule_reconnect(ended, Tail(ready))
    BY <1>8 DEF ConnectFailed, ReceiveFailed, Drop
  <2>3. m <= Count(pending, Tail(ready)) + 1 /\ Alive'
    BY <1>7, <2>1, <2>2
  <2>4. n = Count(pending, Tail(ready)) + 1 /\ failed' = failed
    BY <1>8, <2>1, CountTake DEF ConnectFailed, ReceiveFailed, n
  <2> QED
    BY <1>1, <2>3, <2>4
<1>9. CASE SendFailed
  <2>1. Takes("send") /\ failed' = TRUE
    BY <1>9 DEF SendFailed
  <2>2. \E ended \in SUBSET (pending \ {"timer"}) : schedule_reconnect(ended, Tail(ready))
    BY <1>9 DEF SendFailed, Drop
  <2>3. m <= Count(pending, Tail(ready)) + 1 /\ Alive'
    BY <1>7, <2>1, <2>2
  <2>4. n = Count(pending, Tail(ready)) /\ Awaits({"send"})
    BY <2>1, Taking, CountTake DEF n
  <2>5. n <= 1
    BY <1>00, <2>4, Zenon DEF OneWriter, OnlyFailureStrands
  <2>6. m <= 2
    BY <1>0, <2>3, <2>4, <2>5
  <2>7. Bound'
    BY <2>1, <2>6, Zenon DEF Bound, m
  <2> QED
    BY <2>3, <2>7
<1>10. CASE Reconnect
  <2>1. /\ Takes("timer") /\ UNCHANGED <<caller, io, failed>>
        /\ Tail(ready) \in Seq(Handlers) /\ Count(pending, Tail(ready)) \in Nat
        /\ n = Count(pending, Tail(ready)) + IF Head(ready).ec = "ok" THEN 1 ELSE 0
    BY <1>10, Taking, CountTake DEF Reconnect, n
  <2>2. CASE Head(ready).ec = "ok"
    <3> DEFINE A == pending \ {"timer"}
    <3>1. PICK a \in Aborts(A) : ready' = Tail(ready) \o a
      BY <1>10, <2>2 DEF Reconnect
    <3>2. /\ A \in SUBSET pending /\ pending' = (pending \ A) \cup {"connect"}
          /\ "timer" \notin A /\ "connect" \in Ops \ (pending \ A)
          /\ pending \ A \in SUBSET Ops
      BY <1>0, <1>10, <2>2 DEF Reconnect, Ops
    <3> HIDE DEF A
    <3>3. Count(pending, Tail(ready)) =
            Count(pending \ A, ready') + IF "timer" \in A THEN 1 ELSE 0
      <4> DEFINE t == Tail(ready)
      <4>1. /\ pending \in SUBSET Ops /\ t \in Seq(Handlers)
            /\ A \in SUBSET pending /\ a \in Aborts(A) /\ ready' = t \o a
        BY <1>0, <2>1, <3>1, <3>2
      <4> HIDE DEF t
      <4>2. Count(pending, t) = Count(pending \ A, ready') + IF "timer" \in A THEN 1 ELSE 0
        BY <4>1, CountAbort
      <4> QED
        BY <4>2 DEF t
    <3>4. /\ m = Count(pending \ A, ready') + IF "connect" = "send" THEN 0 ELSE 1
          /\ Count(pending \ A, ready') \in Nat
      <4>1. /\ Count((pending \ A) \cup {"connect"}, ready') =
                 Count(pending \ A, ready') + IF "connect" = "send" THEN 0 ELSE 1
            /\ Count(pending \ A, ready') \in Nat
        <5>1. /\ pending \ A \in SUBSET Ops /\ ready' \in Seq(Handlers)
              /\ "connect" \in Ops \ (pending \ A)
          BY <1>0, <3>2
        <5> QED
          BY <5>1, CountFacts, Zenon
      <4> QED
        BY <3>2, <4>1, Zenon DEF m
    <3>5. m = n
      BY <2>1, <2>2, <3>2, <3>3, <3>4
    <3> QED
      BY <1>2, <2>1, <3>5
  <2>3. CASE Head(ready).ec # "ok"
    <3>1. ready' = Tail(ready) /\ pending' = pending
      BY <1>10, <2>3 DEF Reconnect
    <3>2. m = n
      BY <2>1, <2>3, <3>1 DEF m
    <3> QED
      BY <1>2, <2>1, <3>2
  <2> QED
    BY <2>2, <2>3
<1>11. CASE Dropped \/ Enqueue \/ Sent
  <2>1. PICK op \in {"post", "send", "close"} : Takes(op)
    BY <1>11 DEF Dropped, Enqueue, Sent
  <2>2. /\ UNCHANGED <<caller, io>> /\ Tail(ready) \in Seq(Handlers)
        /\ n = Count(pending, Tail(ready))
    BY <2>1, Taking, CountTake DEF n
  <2>3. UNCHANGED failed
    BY <1>11 DEF Dropped, Enqueue, Sent
  <2>4. CASE ready' = Tail(ready) /\ pending' = pending
    BY <1>2, <2>2, <2>3, <2>4 DEF m
  <2>5. CASE Start("send", Tail(ready))
    <3>1. m = n
      BY <2>2, <2>5, CountStart DEF m
    <3> QED
      BY <1>2, <2>2, <2>3, <3>1
  <2>6. \/ ready' = Tail(ready) /\ pending' = pending
        \/ Start("send", Tail(ready))
    <3>1. CASE Dropped
      BY <3>1 DEF Dropped
    <3>2. CASE Enqueue
      BY <3>2 DEF Enqueue, do_write
    <3>3. CASE Sent
      BY <3>3 DEF Sent, do_write
    <3> QED
      BY <1>11, <3>1, <3>2, <3>3
  <2> QED
    BY <2>4, <2>5, <2>6
<1>12. CASE Closed
  <2>1. /\ UNCHANGED <<caller, io, failed>> /\ Tail(ready) \in Seq(Handlers)
        /\ n = Count(pending, Tail(ready))
    BY <1>12, Taking, CountTake DEF Closed, n
  <2> DEFINE A == pending \ {"timer"}
  <2>2. PICK a \in Aborts(A) : ready' = Tail(ready) \o a
    BY <1>12 DEF Closed
  <2>3. A \in SUBSET pending /\ pending' = pending \ A /\ "timer" \notin A
    BY <1>12 DEF Closed
  <2> HIDE DEF A
  <2>4. Count(pending, Tail(ready)) = m + IF "timer" \in A THEN 1 ELSE 0
    <3> DEFINE t == Tail(ready)
    <3>1. /\ pending \in SUBSET Ops /\ t \in Seq(Handlers)
          /\ A \in SUBSET pending /\ a \in Aborts(A) /\ ready' = t \o a
      BY <1>0, <2>1, <2>2, <2>3
    <3> HIDE DEF t
    <3>2. Count(pending, t) = Count(pending \ A, ready') + IF "timer" \in A THEN 1 ELSE 0
      BY <3>1, CountAbort
    <3> QED
      BY <2>3, <3>2, Zenon DEF m, t
  <2>5. m = n
    BY <1>0, <2>1, <2>3, <2>4
  <2> QED
    BY <1>2, <2>1, <2>5
<1>13. ASSUME NEW op, NEW ec \in Codes, op # "timer" \/ ec = "ok", NEW sock,
              Finish(op, ec, sock)
       PROVE  Alive' /\ Bound'
  <2>1. /\ op \in pending /\ pending' = pending \ {op}
        /\ ready' = Append(ready, Done(op, ec)) /\ UNCHANGED <<caller, io, failed>>
    BY <1>13 DEF Finish
  <2>2. Done(op, ec) \in Handlers /\ (Done(op, ec) \in Lead <=> op # "send")
    <3>1. op \in Ops
      BY <1>0, <2>1
    <3> QED
      BY <1>13, <3>1, DoneType DEF Ops, Reads
  <2>3. n = Count(pending', ready) + IF op = "send" THEN 0 ELSE 1
    <3>1. Count(pending, ready) =
            Count(pending \ {op}, ready) + IF op = "send" THEN 0 ELSE 1
      <4>1. pending \in SUBSET Ops /\ ready \in Seq(Handlers) /\ op \in pending
        BY <1>0, <2>1
      <4> QED
        BY <4>1, CountFacts, Zenon
    <3> QED
      BY <2>1, <3>1, Zenon DEF n
  <2>4. /\ m = Count(pending', ready) + IF Done(op, ec) \in Lead THEN 1 ELSE 0
        /\ Count(pending', ready) \in Nat
    BY <1>0, <2>1, <2>2, CountFacts DEF m
  <2>5. m = n
    BY <2>2, <2>3, <2>4
  <2> QED
    BY <1>2, <2>1, <2>5
<1>14. CASE Environment
  BY <1>13, <1>14 DEF Environment, OsConnect, OsReadData, OsReadFails, OsWrite,
     OsWriteDone, OsWriteFails, OsTimer, Codes, Reads
<1> QED
  BY <1>3, <1>4, <1>5, <1>6, <1>8, <1>9, <1>10, <1>11, <1>12, <1>14
     DEF Next, close, IoThread

-----------------------------------------------------------------------------
(* The messages.                                                           *)

(* A step that posts no message, and starts no write.                      *)
Idle ==
  /\ Quieter(ready', ready, Follows, Tracked)
  /\ "send" \in pending' => "send" \in pending
  /\ UNCHANGED <<posted, write_msgs_, wire>>

(* An idle step that leaves the outstanding write as it is.                *)
Quietly ==
  /\ Idle
  /\ Awaits({"send"})' <=> Awaits({"send"})
  /\ AtMostOne(pending, ready, {"send"}) => AtMostOne(pending, ready, {"send"})'
  /\ UNCHANGED <<writing, failed>>

(* Most steps are quiet.                                                   *)
LEMMA QuietSteps ==
  ASSUME Shape, LifeCycle, [Next]_vars
  PROVE  \/ Quietly \/ send \/ Enqueue \/ Sent \/ OsWriteDone
         \/ SendFailed /\ Idle
<1>1. CASE open
  <2>1. ready = <<>> /\ ready' = <<>> /\ pending = {} /\ pending' = {"connect"}
    BY <1>1 DEF open, LifeCycle, Callers
  <2>2. /\ AtMostOne({"connect"}, <<>>, {"send"})
        /\ ~Outstanding({"connect"}, <<>>, {"send"}) /\ ~Outstanding({}, <<>>, {"send"})
    BY DEF AtMostOne, Outstanding, Single, Queued
  <2>3. UNCHANGED <<posted, write_msgs_, wire, writing, failed>>
    BY <1>1 DEF open, history
  <2> QED
    BY <2>1, <2>2, <2>3 DEF Quietly, Idle, Quieter, Awaits
<1>2. CASE OpenThrows \/ CloseDisarms \/ ReconnectThrows \/ RunReturns \/ UNCHANGED vars
  <2>1. UNCHANGED <<pending, ready, posted, write_msgs_, wire, writing, failed>>
    BY <1>2 DEF OpenThrows, CloseDisarms, ReconnectThrows, RunReturns, vars, state, history
  <2> QED
    BY <2>1 DEF Quietly, Idle, Quieter, Awaits
<1>3. CASE ClosePosts
  <2>1. /\ ready' = Append(ready, Done("close", "ok")) /\ ready \in Seq(Handlers)
        /\ UNCHANGED <<pending, posted, write_msgs_, wire, writing, failed>>
    BY <1>3 DEF ClosePosts, history, Shape
  <2>2. /\ Done("close", "ok") \in Handlers \ Tracked /\ Done("close", "ok").op = "close"
    BY DoneType DEF Codes
  <2>3. Quieter(ready', ready, Follows, Tracked)
    BY <2>1, <2>2, FollowsFacts, QuieterFacts
  <2>4. /\ Awaits({"send"})' <=> Awaits({"send"})
        /\ AtMostOne(pending, ready, {"send"}) => AtMostOne(pending, ready, {"send"})'
    BY <2>1, <2>2, EnqueueFacts DEF Awaits
  <2> QED
    BY <2>1, <2>3, <2>4 DEF Quietly, Idle
<1>4. CASE Connected \/ Received
  <2>1. PICK op \in {"connect"} \cup Reads : Takes(op)
    BY <1>4 DEF Connected, Received
  <2>2. /\ \E r \in Reads : Start(r, Tail(ready))
        /\ UNCHANGED <<write_msgs_, writing, wire, failed>>
    BY <1>4 DEF Connected, Received, do_read, Reads
  <2>3. /\ Tail(ready) \in Seq(Handlers) /\ Quiet(Tail(ready), ready) /\ posted' = posted
        /\ Awaits({"send"}) <=> Outstanding(pending, Tail(ready), {"send"})
        /\ AtMostOne(pending, ready, {"send"}) => AtMostOne(pending, Tail(ready), {"send"})
    <3>1. op \notin {"send"}
      BY DEF Reads
    <3> QED
      BY <2>1, <3>1, Taking
  <2>4. PICK r \in Reads : r # "send" /\ Start(r, Tail(ready))
    BY <2>2 DEF Reads
  <2>5. pending' \subseteq pending \cup {r} /\ Quiet(ready', Tail(ready))
    BY <2>3, <2>4, Starting
  <2>6. /\ Awaits({"send"})' <=> Outstanding(pending, Tail(ready), {"send"})
        /\ AtMostOne(pending, Tail(ready), {"send"}) => AtMostOne(pending, ready, {"send"})'
    BY <2>3, <2>4, Starting
  <2>7. Quiet(ready', ready)
    BY <2>3, <2>5, QuietTwice
  <2> QED
    BY <2>2, <2>3, <2>4, <2>5, <2>6, <2>7 DEF Quietly, Idle, Quiet
<1>5. ASSUME NEW op, Takes(op), NEW ended \in SUBSET (pending \ {"timer"}),
             schedule_reconnect(ended, Tail(ready)), UNCHANGED <<write_msgs_, wire>>
      PROVE  /\ Idle
             /\ op # "send" /\ UNCHANGED <<writing, failed>> => Quietly
  <2>1. /\ Tail(ready) \in Seq(Handlers) /\ Quiet(Tail(ready), ready) /\ posted' = posted
        /\ op # "send" =>
             /\ Awaits({"send"}) <=> Outstanding(pending, Tail(ready), {"send"})
             /\ AtMostOne(pending, ready, {"send"}) => AtMostOne(pending, Tail(ready), {"send"})
    BY <1>5, Taking
  <2>2. /\ pending' = (pending \ ended) \cup IF stop_ THEN {"timer"} ELSE {}
        /\ Quiet(ready', Tail(ready))
    BY <1>5, <2>1, Scheduling
  <2>3. "timer" \notin {"send"}
    OBVIOUS
  <2>4. /\ Awaits({"send"})' <=> Outstanding(pending, Tail(ready), {"send"})
        /\ AtMostOne(pending, Tail(ready), {"send"}) => AtMostOne(pending, ready, {"send"})'
    BY <1>5, <2>1, <2>3, Scheduling
  <2>5. Quiet(ready', ready)
    BY <2>1, <2>2, QuietTwice
  <2>6. Idle
    BY <1>5, <2>1, <2>2, <2>5 DEF Idle, Quiet
  <2> QED
    BY <2>1, <2>4, <2>6 DEF Quietly
<1>6. CASE ConnectFailed
  <2>1. /\ Takes("connect") /\ schedule_reconnect({}, Tail(ready))
        /\ UNCHANGED <<write_msgs_, wire, writing, failed>>
    BY <1>6 DEF ConnectFailed
  <2> QED
    BY <1>5, <2>1
<1>7. CASE ReceiveFailed \/ SendFailed
  <2> DEFINE ended == pending \ {"timer"}
  <2>1. /\ ended \in SUBSET (pending \ {"timer"})
        /\ schedule_reconnect(ended, Tail(ready)) /\ UNCHANGED <<write_msgs_, wire>>
    BY <1>7 DEF ReceiveFailed, SendFailed, Drop
  <2> HIDE DEF ended
  <2>2. CASE ReceiveFailed
    <3>1. (\E op : Takes(op) /\ op # "send") /\ UNCHANGED <<writing, failed>>
      BY <2>2 DEF ReceiveFailed, Reads
    <3> QED
      BY <1>5, <2>1, <3>1
  <2>3. CASE SendFailed
    <3>1. Takes("send")
      BY <2>3 DEF SendFailed
    <3> QED
      BY <1>5, <2>1, <2>3, <3>1
  <2> QED
    BY <1>7, <2>2, <2>3
<1>8. ASSUME NEW op, Takes(op), op # "send",
             NEW A \in SUBSET pending, NEW a \in Aborts(A), ready' = Tail(ready) \o a,
             pending' \in {pending \ A, (pending \ A) \cup {"connect"}},
             UNCHANGED <<write_msgs_, wire, writing, failed>>
      PROVE  Quietly
  <2>1. /\ Tail(ready) \in Seq(Handlers) /\ Quiet(Tail(ready), ready) /\ posted' = posted
        /\ Awaits({"send"}) <=> Outstanding(pending, Tail(ready), {"send"})
        /\ AtMostOne(pending, ready, {"send"}) => AtMostOne(pending, Tail(ready), {"send"})
    BY <1>8, Taking
  <2>2. /\ Quiet(Tail(ready) \o a, Tail(ready))
        /\ Outstanding(pending \ A, Tail(ready) \o a, {"send"})
             <=> Outstanding(pending, Tail(ready), {"send"})
        /\ AtMostOne(pending, Tail(ready), {"send"})
             => AtMostOne(pending \ A, Tail(ready) \o a, {"send"})
    BY <1>8, <2>1, Aborting
  <2>3. "connect" \notin {"send"}
    OBVIOUS
  <2>4. /\ Awaits({"send"})' <=> Outstanding(pending \ A, Tail(ready) \o a, {"send"})
        /\ AtMostOne(pending \ A, Tail(ready) \o a, {"send"})
             => AtMostOne(pending, ready, {"send"})'
    <3>1. CASE pending' = pending \ A
      BY <1>8, <3>1 DEF Awaits
    <3>2. CASE pending' = (pending \ A) \cup {"connect"}
      <4>1. /\ Outstanding((pending \ A) \cup {"connect"}, Tail(ready) \o a, {"send"})
                 <=> Outstanding(pending \ A, Tail(ready) \o a, {"send"})
            /\ AtMostOne(pending \ A, Tail(ready) \o a, {"send"})
                 => AtMostOne((pending \ A) \cup {"connect"}, Tail(ready) \o a, {"send"})
        BY <2>3, AddFacts
      <4> QED
        BY <1>8, <3>2, <4>1 DEF Awaits
    <3> QED
      BY <1>8, <3>1, <3>2
  <2>5. Quiet(ready', ready)
    BY <1>8, <2>1, <2>2, QuietTwice
  <2>6. Idle
    BY <1>8, <2>1, <2>5 DEF Idle, Quiet
  <2> QED
    BY <1>8, <2>1, <2>2, <2>4, <2>6 DEF Quietly
<1>9. ASSUME NEW op, Takes(op), op # "send", ready' = Tail(ready),
             UNCHANGED <<pending, write_msgs_, wire, writing, failed>>
      PROVE  Quietly
  <2>1. /\ Quiet(Tail(ready), ready) /\ posted' = posted
        /\ Awaits({"send"}) <=> Outstanding(pending, Tail(ready), {"send"})
        /\ AtMostOne(pending, ready, {"send"}) => AtMostOne(pending, Tail(ready), {"send"})
    BY <1>9, Taking
  <2> QED
    BY <1>9, <2>1 DEF Quietly, Idle, Quiet, Awaits
<1>10. CASE Reconnect
  <2>1. Takes("timer") /\ UNCHANGED <<write_msgs_, wire, writing, failed>>
    BY <1>10 DEF Reconnect
  <2>2. CASE Head(ready).ec = "ok"
    <3> DEFINE A == pending \ {"timer"}
    <3>1. PICK a \in Aborts(A) : ready' = Tail(ready) \o a
      BY <1>10, <2>2 DEF Reconnect
    <3>2. A \in SUBSET pending /\ pending' = (pending \ A) \cup {"connect"}
      BY <1>10, <2>2 DEF Reconnect
    <3> HIDE DEF A
    <3> QED
      BY <1>8, <2>1, <3>1, <3>2
  <2>3. CASE Head(ready).ec # "ok"
    <3>1. ready' = Tail(ready) /\ pending' = pending
      BY <1>10, <2>3 DEF Reconnect
    <3> QED
      BY <1>9, <2>1, <3>1
  <2> QED
    BY <2>2, <2>3
<1>11. CASE Dropped
  BY <1>9, <1>11 DEF Dropped
<1>12. CASE Closed
  <2> DEFINE A == pending \ {"timer"}
  <2>1. PICK a \in Aborts(A) : ready' = Tail(ready) \o a
    BY <1>12 DEF Closed
  <2>2. A \in SUBSET pending /\ pending' = pending \ A
    BY <1>12 DEF Closed
  <2>3. Takes("close") /\ UNCHANGED <<write_msgs_, wire, writing, failed>>
    BY <1>12 DEF Closed
  <2> HIDE DEF A
  <2> QED
    BY <1>8, <2>1, <2>2, <2>3
<1>13. ASSUME NEW op, NEW ec \in Codes, NEW sock, Finish(op, ec, sock), UNCHANGED wire
       PROVE  Quietly
  <2>1. /\ pending' = pending \ {op} /\ Quieter(ready', ready, Follows, Tracked)
        /\ Awaits({"send"})' <=> Awaits({"send"})
        /\ AtMostOne(pending, ready, {"send"}) => AtMostOne(pending, ready, {"send"})'
    BY <1>13, Finishing
  <2>2. UNCHANGED <<write_msgs_, posted, writing, failed>>
    BY <1>13 DEF Finish
  <2> QED
    BY <1>13, <2>1, <2>2 DEF Quietly, Idle
<1>14. CASE OsConnect \/ OsReadData \/ OsReadFails \/ OsWriteFails \/ OsTimer
  BY <1>13, <1>14 DEF OsConnect, OsReadData, OsReadFails, OsWriteFails, OsTimer, Codes
<1> QED
  BY <1>1, <1>2, <1>3, <1>4, <1>6, <1>7, <1>10, <1>11, <1>12, <1>14
     DEF Next, close, IoThread, Environment, OsWrite

(* Every step keeps at most one write, that of the front, and a writer for *)
(* the queue until a write fails.                                          *)
LEMMA WriterStep ==
  ASSUME Shape, LifeCycle, OneWriter, [Next]_vars
  PROVE  OneWriter'
<1>0. /\ AtMostOne(pending, ready, {"send"})
      /\ Awaits({"send"}) => write_msgs_ # <<>> /\ Head(write_msgs_) = writing
      /\ ready \in Seq(Handlers) /\ write_msgs_ \in Seq(Ids)
  BY DEF OneWriter, Shape
<1>00. Awaits({"send"}) \/ write_msgs_ = <<>> => ~failed
  BY Zenon DEF OneWriter, OnlyFailureStrands
<1>1. CASE Quietly
  <2>1. /\ AtMostOne(pending, ready, {"send"})' /\ (Awaits({"send"})' <=> Awaits({"send"}))
        /\ UNCHANGED <<write_msgs_, writing, failed>>
    BY <1>0, <1>1 DEF Quietly, Idle
  <2>2. OnlyFailureStrands'
    BY <2>1, Zenon DEF OneWriter, OnlyFailureStrands
  <2> QED
    BY <1>0, <2>1, <2>2 DEF OneWriter
<1>2. CASE send
  <2>1. /\ ready' = Append(ready, Posted(posted + 1))
        /\ UNCHANGED <<write_msgs_, writing, failed, pending>>
    BY <1>2 DEF send
  <2>2. Posted(posted + 1) \in Handlers /\ Posted(posted + 1).op \notin {"send"}
    BY <1>2, MaxSendsAssumption DEF send, Posted, Handlers, Ids, Shape
  <2>3. (Awaits({"send"})' <=> Awaits({"send"})) /\ AtMostOne(pending, ready, {"send"})'
    BY <1>0, <2>1, <2>2, EnqueueFacts DEF Awaits
  <2>4. OnlyFailureStrands'
    BY <2>1, <2>3, Zenon DEF OneWriter, OnlyFailureStrands
  <2> QED
    BY <1>0, <2>1, <2>3, <2>4 DEF OneWriter
<1>3. CASE Enqueue
  <2>1. /\ Tail(ready) \in Seq(Handlers) /\ AtMostOne(pending, Tail(ready), {"send"})
        /\ Awaits({"send"}) <=> Outstanding(pending, Tail(ready), {"send"})
        /\ Head(ready) \in Handlers /\ Head(ready).op = "post"
    BY <1>0, <1>3, Taking DEF Enqueue
  <2>2. Head(ready).msg \in Ids
    BY <2>1 DEF Handlers, Ops, Reads
  <2>3. /\ write_msgs_' = Append(write_msgs_, Head(ready).msg) /\ write_msgs_' # <<>>
        /\ write_msgs_ # <<>> => Head(write_msgs_') = Head(write_msgs_)
    BY <1>0, <1>3, <2>2 DEF Enqueue
  <2>4. CASE write_msgs_ = <<>>
    <3>1. Start("send", Tail(ready)) /\ writing' = Head(write_msgs_')
      BY <1>3, <2>4 DEF Enqueue, do_write
    <3>2. "send" \in Reads \cup {"send"}
      OBVIOUS
    <3>3. Awaits({"send"})' /\ AtMostOne(pending, ready, {"send"})'
      BY <1>0, <2>1, <2>4, <3>1, <3>2, Starting
    <3>4. failed' = failed
      BY <1>3 DEF Enqueue
    <3>5. OnlyFailureStrands'
      BY <1>00, <2>4, <3>3, <3>4, Zenon DEF OnlyFailureStrands
    <3> QED
      BY <2>3, <3>1, <3>3, <3>5 DEF OneWriter
  <2>5. CASE write_msgs_ # <<>>
    <3>1. ready' = Tail(ready) /\ UNCHANGED <<pending, writing, failed>>
      BY <1>3, <2>5 DEF Enqueue
    <3>2. (Awaits({"send"})' <=> Awaits({"send"})) /\ AtMostOne(pending, ready, {"send"})'
      BY <2>1, <3>1 DEF Awaits
    <3>3. OnlyFailureStrands'
      BY <2>3, <2>5, <3>1, <3>2, Zenon DEF OneWriter, OnlyFailureStrands
    <3> QED
      BY <1>0, <2>3, <3>1, <3>2, <3>3 DEF OneWriter
  <2> QED
    BY <2>4, <2>5
<1>4. CASE Sent
  <2>1. /\ Tail(ready) \in Seq(Handlers) /\ AtMostOne(pending, Tail(ready), {"send"})
        /\ ~Outstanding(pending, Tail(ready), {"send"}) /\ Awaits({"send"})
    BY <1>0, <1>4, Taking DEF Sent
  <2>2. write_msgs_' = Tail(write_msgs_) /\ failed' = failed
    BY <1>4 DEF Sent
  <2>3. CASE Tail(write_msgs_) # <<>>
    <3>1. Start("send", Tail(ready)) /\ writing' = Head(write_msgs_')
      BY <1>4, <2>2, <2>3 DEF Sent, do_write
    <3>2. "send" \in Reads \cup {"send"}
      OBVIOUS
    <3>3. Awaits({"send"})' /\ AtMostOne(pending, ready, {"send"})'
      BY <2>1, <3>1, <3>2, Starting
    <3>4. OnlyFailureStrands'
      BY <1>00, <2>1, <2>2, <3>3, Zenon DEF OnlyFailureStrands
    <3> QED
      BY <2>2, <2>3, <3>1, <3>3, <3>4 DEF OneWriter
  <2>4. CASE Tail(write_msgs_) = <<>>
    <3>1. ready' = Tail(ready) /\ pending' = pending
      BY <1>4, <2>4 DEF Sent
    <3>2. OnlyFailureStrands'
      BY <1>00, <2>1, <2>2, <2>4, Zenon DEF OnlyFailureStrands
    <3> QED
      BY <2>1, <2>2, <3>1, <3>2 DEF OneWriter, Awaits
  <2> QED
    BY <2>3, <2>4
<1>5. CASE SendFailed
  <2>1. /\ Tail(ready) \in Seq(Handlers) /\ AtMostOne(pending, Tail(ready), {"send"})
        /\ ~Outstanding(pending, Tail(ready), {"send"}) /\ Awaits({"send"})
    BY <1>0, <1>5, Taking DEF SendFailed
  <2> DEFINE ended == pending \ {"timer"}
  <2>2. /\ ended \in SUBSET (pending \ {"timer"})
        /\ schedule_reconnect(ended, Tail(ready)) /\ failed' = TRUE
        /\ write_msgs_' = write_msgs_
    BY <1>5 DEF SendFailed, Drop
  <2> HIDE DEF ended
  <2>3. "timer" \notin {"send"}
    OBVIOUS
  <2>4. ~Awaits({"send"})' /\ AtMostOne(pending, ready, {"send"})'
    BY <2>1, <2>2, <2>3, Scheduling
  <2>5. OnlyFailureStrands'
    BY <1>0, <2>1, <2>2, <2>4, Zenon DEF OnlyFailureStrands
  <2> QED
    BY <2>4, <2>5 DEF OneWriter
<1>6. CASE OsWriteDone
  <2>1. Finish("send", "ok", socket) /\ "ok" \in Codes
    BY <1>6 DEF OsWriteDone, Codes
  <2>2. (Awaits({"send"})' <=> Awaits({"send"})) /\ AtMostOne(pending, ready, {"send"})'
    BY <1>0, <2>1, Finishing
  <2>3. UNCHANGED <<write_msgs_, writing, failed>>
    BY <2>1 DEF Finish
  <2>4. OnlyFailureStrands'
    BY <2>2, <2>3, Zenon DEF OneWriter, OnlyFailureStrands
  <2> QED
    BY <1>0, <2>2, <2>3, <2>4 DEF OneWriter
<1> QED
  BY <1>1, <1>2, <1>3, <1>4, <1>5, <1>6, QuietSteps

(* Where the numbers of messages are.                                      *)
LEMMA QueueTypes ==
  ASSUME Shape
  PROVE  /\ Ids \subseteq Nat /\ posted \in Nat
         /\ ToSet(write_msgs_) \subseteq Ids /\ ToSet(wire) \subseteq Ids
         /\ ToSet(ready) \subseteq Handlers /\ Posts(ready) \subseteq Ids
         /\ \A m, n : <<m, n>> \in Older => m < n
<1>1. Ids \subseteq Nat /\ posted \in Nat /\ \A m, n : <<m, n>> \in Older => m < n
  BY MaxSendsAssumption DEF Shape, Ids, Older
<1>2. /\ ToSet(write_msgs_) \subseteq Ids /\ ToSet(wire) \subseteq Ids
      /\ ToSet(ready) \subseteq Handlers
  BY DEF Shape, ToSet
<1>3. \A h \in Handlers : h.op = "post" => h.msg \in Ids
  BY DEF Handlers, Ops, Reads
<1> QED
  BY <1>1, <1>2, <1>3, PostsFacts

(* A queue that is quieter holds no new post.                              *)
LEMMA QuietPosts ==
  ASSUME NEW q, NEW r \in Seq(Handlers), Quieter(r, q, Follows, Tracked)
  PROVE  Posts(r) \subseteq Posts(q)
<1> SUFFICES ASSUME NEW m \in Posts(r)
             PROVE  m \in Posts(q)
  OBVIOUS
<1>1. PICK g \in ToSet(r) : g.op = "post" /\ g.msg = m
  BY PostsFacts
<1>2. g \in Tracked
  BY <1>1 DEF ToSet, Tracked
<1> QED
  BY <1>1, <1>2, PostsFacts DEF Quieter

(* What send, Enqueue, Sent and OsWriteDone do to the messages.            *)
LEMMA SendFacts ==
  ASSUME Shape, send
  PROVE  /\ Posted(posted + 1) \in Handlers
         /\ Posted(posted + 1).op = "post" /\ Posted(posted + 1).msg = posted + 1
         /\ ready' = Append(ready, Posted(posted + 1))
         /\ Posts(ready') = Posts(ready) \cup {posted + 1}
         /\ posted' = posted + 1 /\ UNCHANGED <<write_msgs_, pending, wire>>
<1>1. Posted(posted + 1).op = "post" /\ Posted(posted + 1).msg = posted + 1
  BY DEF Posted
<1>2. /\ Posted(posted + 1) \in Handlers /\ ready' = Append(ready, Posted(posted + 1))
      /\ posted' = posted + 1 /\ UNCHANGED <<write_msgs_, pending, wire>>
  BY MaxSendsAssumption DEF send, Posted, Handlers, Shape, Ids
<1>3. ToSet(ready') = ToSet(ready) \cup {Posted(posted + 1)}
  <2>1. ToSet(Append(ready, Posted(posted + 1))) = ToSet(ready) \cup {Posted(posted + 1)}
    BY <1>2, BackFacts DEF Shape
  <2> QED
    BY <1>2, <2>1
<1>4. ASSUME NEW m
      PROVE  m \in Posts(ready') <=> m \in Posts(ready) \/ m = posted + 1
  BY <1>1, <1>3, PostsFacts
<1> QED
  BY <1>1, <1>2, <1>4

(* The posted message moves to the end of the queue.                       *)
LEMMA EnqueueMoves ==
  ASSUME Shape, InLine, Enqueue, Shape'
  PROVE  LET m == Head(ready).msg IN
         /\ m \in Posts(ready) /\ m \in Ids
         /\ write_msgs_' = Append(write_msgs_, m)
         /\ ToSet(write_msgs_') = ToSet(write_msgs_) \cup {m}
         /\ Head(write_msgs_') = IF write_msgs_ = <<>> THEN m ELSE Head(write_msgs_)
         /\ Quieter(ready', ready, Follows, Tracked)
         /\ \A n \in Posts(ready') : n \in Posts(ready) /\ m < n
         /\ UNCHANGED <<posted, wire>>
         /\ write_msgs_ # <<>> => pending' = pending
<1> DEFINE m == Head(ready).msg
<1>1. /\ ready # <<>> /\ Head(ready) \in Handlers /\ Head(ready).op = "post"
      /\ Tail(ready) \in Seq(Handlers) /\ ready \in Seq(Handlers)
      /\ write_msgs_ \in Seq(Ids) /\ Quiet(Tail(ready), ready) /\ posted' = posted
  BY Taking DEF Enqueue, Shape
<1>2. m \in Posts(ready) /\ m \in Ids
  <2>1. Head(ready) \in ToSet(ready)
    BY <1>1, FrontFacts
  <2> QED
    BY <1>1, <2>1, PostsFacts, QueueTypes
<1>3. /\ write_msgs_' = Append(write_msgs_, m) /\ UNCHANGED wire
      /\ write_msgs_ # <<>> => pending' = pending
  BY DEF Enqueue
<1>4. /\ ToSet(write_msgs_') = ToSet(write_msgs_) \cup {m}
      /\ Head(write_msgs_') = IF write_msgs_ = <<>> THEN m ELSE Head(write_msgs_)
  <2> HIDE DEF m
  <2>1. /\ ToSet(Append(write_msgs_, m)) = ToSet(write_msgs_) \cup {m}
        /\ Head(Append(write_msgs_, m)) = IF write_msgs_ = <<>> THEN m ELSE Head(write_msgs_)
    BY <1>1, <1>2, BackFacts
  <2> QED
    BY <1>3, <2>1
<1>5. Quiet(ready', Tail(ready))
  <2>1. CASE write_msgs_ = <<>>
    <3>1. Start("send", Tail(ready)) /\ "send" \in Reads \cup {"send"}
      BY <2>1 DEF Enqueue, do_write
    <3> QED
      BY <1>1, <3>1, Starting
  <2>2. CASE write_msgs_ # <<>>
    BY <1>1, <2>2, QuietFacts DEF Enqueue
  <2> QED
    BY <2>1, <2>2
<1>6. Quieter(ready', ready, Follows, Tracked)
  BY <1>1, <1>5, QuietTwice DEF Quiet
<1>7. ASSUME NEW n \in Posts(ready')
      PROVE  n \in Posts(ready) /\ m < n
  <2>1. n \in Posts(Tail(ready)) /\ n \in Posts(ready)
    BY <1>5, <1>6, QuietPosts DEF Quiet, Shape
  <2>2. PICK g \in ToSet(Tail(ready)) : g.op = "post" /\ g.msg = n
    BY <2>1, PostsFacts
  <2>3. <<Head(ready), g>> \in Follows /\ g \in Handlers
    BY <1>1, <2>2, FrontFacts, QueueTypes DEF InLine
  <2> QED
    BY <1>1, <2>1, <2>2, <2>3, FollowsFacts
<1> QED
  BY <1>1, <1>2, <1>3, <1>4, <1>6, <1>7

(* The front is removed, and its successor is written.                     *)
LEMMA SentRemoves ==
  ASSUME Shape, OneWriter, InLine, Sent
  PROVE  /\ ToSet(write_msgs_') \subseteq ToSet(write_msgs_)
         /\ \A n \in ToSet(write_msgs_') : n # Head(write_msgs_)
         /\ Pairs(write_msgs_', Older)
         /\ Quieter(ready', ready, Follows, Tracked)
         /\ UNCHANGED <<posted, wire>>
<1>1. /\ Tail(ready) \in Seq(Handlers) /\ Quiet(Tail(ready), ready) /\ posted' = posted
      /\ Awaits({"send"})
  BY Taking DEF Sent
<1>2. write_msgs_ \in Seq(Ids) /\ write_msgs_ # <<>>
  BY <1>1 DEF OneWriter, Shape
<1>3. write_msgs_' = Tail(write_msgs_) /\ UNCHANGED wire
  BY DEF Sent
<1>4. /\ Head(write_msgs_) \in Ids
      /\ ToSet(write_msgs_') \subseteq ToSet(write_msgs_) /\ Pairs(write_msgs_', Older)
      /\ \A n \in ToSet(write_msgs_') : <<Head(write_msgs_), n>> \in Older
  BY <1>2, <1>3, FrontFacts DEF InLine
<1>5. \A n \in ToSet(write_msgs_') : n # Head(write_msgs_)
  <2>1. Head(write_msgs_) \in Nat
    BY <1>4, QueueTypes
  <2>2. \A n \in Nat : ~(n < n)
    OBVIOUS
  <2> QED
    BY <1>4, <2>1, <2>2, QueueTypes
<1>6. Quiet(ready', Tail(ready))
  <2>1. CASE Tail(write_msgs_) # <<>>
    <3>1. Start("send", Tail(ready)) /\ "send" \in Reads \cup {"send"}
      BY <2>1 DEF Sent, do_write
    <3> QED
      BY <1>1, <3>1, Starting
  <2>2. CASE Tail(write_msgs_) = <<>>
    BY <1>1, <2>2, QuietFacts DEF Sent
  <2> QED
    BY <2>1, <2>2
<1>7. Quieter(ready', ready, Follows, Tracked)
  BY <1>1, <1>6, QuietTwice DEF Quiet
<1> QED
  BY <1>1, <1>3, <1>4, <1>5, <1>7

(* The front is written, which is older than all that wait.                *)
LEMMA OsWriteDoneFacts ==
  ASSUME Shape, OneWriter, InLine, OsWriteDone, Shape'
  PROVE  /\ "send" \notin pending' /\ UNCHANGED <<posted, write_msgs_>>
         /\ write_msgs_ # <<>> /\ writing = Head(write_msgs_)
         /\ writing \in ToSet(write_msgs_) /\ writing \in Ids
         /\ \A n \in ToSet(write_msgs_) : n = writing \/ writing < n
         /\ \A n \in Posts(ready) : writing < n
         /\ \A m \in ToSet(wire) : m < writing
         /\ wire' = Append(wire, writing)
         /\ ToSet(wire') = ToSet(wire) \cup {writing}
         /\ Quieter(ready', ready, Follows, Tracked)
         /\ Posts(ready') = Posts(ready)
<1>1. /\ Finish("send", "ok", socket) /\ "ok" \in Codes
      /\ wire' = Append(wire, writing) /\ UNCHANGED <<posted, write_msgs_>>
  BY DEF OsWriteDone, Finish, Codes
<1>2. /\ "send" \in pending /\ pending' = pending \ {"send"}
      /\ Quieter(ready', ready, Follows, Tracked)
  BY <1>1, Finishing
<1>3. Awaits({"send"})
  BY <1>2 DEF Awaits, Outstanding
<1>4. /\ write_msgs_ # <<>> /\ writing = Head(write_msgs_)
      /\ write_msgs_ \in Seq(Ids) /\ ready \in Seq(Handlers) /\ wire \in Seq(Ids)
  BY <1>3 DEF OneWriter, Shape
<1>5. /\ writing \in ToSet(write_msgs_) /\ writing \in Ids
      /\ \A n \in ToSet(write_msgs_) : n = writing \/ <<writing, n>> \in Older
  BY <1>4, FrontFacts DEF InLine
<1>6. /\ \A n \in ToSet(write_msgs_) : n = writing \/ writing < n
      /\ \A n \in Posts(ready) : writing < n
      /\ \A m \in ToSet(wire) : m < writing
  BY <1>2, <1>5, QueueTypes DEF InLine
<1>7. ToSet(wire') = ToSet(wire) \cup {writing}
  <2>1. ToSet(Append(wire, writing)) = ToSet(wire) \cup {writing}
    BY <1>4, <1>5, BackFacts
  <2> QED
    BY <1>1, <2>1
<1>8. ASSUME NEW m
      PROVE  m \in Posts(ready') <=> m \in Posts(ready)
  <2>1. ready' = Append(ready, Done("send", "ok"))
    BY <1>1 DEF Finish
  <2>2. Done("send", "ok") \in Handlers /\ Done("send", "ok").op # "post"
    BY DoneType DEF Ops, Codes
  <2>3. ToSet(Append(ready, Done("send", "ok"))) = ToSet(ready) \cup {Done("send", "ok")}
    BY <1>4, <2>2, BackFacts
  <2> QED
    BY <2>1, <2>2, <2>3, PostsFacts
<1> QED
  BY <1>1, <1>2, <1>4, <1>5, <1>6, <1>7, <1>8

(* Every step keeps the order of the messages.                             *)
LEMMA InLineStep ==
  ASSUME Shape, LifeCycle, OneWriter, InLine, [Next]_vars, Shape'
  PROVE  InLine'
<1>0. /\ Ids \subseteq Nat /\ posted \in Nat
      /\ ToSet(write_msgs_) \subseteq Ids /\ ToSet(wire) \subseteq Ids
      /\ ToSet(ready) \subseteq Handlers /\ Posts(ready) \subseteq Ids
      /\ \A m, n : <<m, n>> \in Older => m < n
      /\ ready \in Seq(Handlers) /\ ready' \in Seq(Handlers)
  BY QueueTypes DEF Shape
<1> USE DEF InLine
<1>1. CASE Idle
  <2>1. /\ Posts(ready') \subseteq Posts(ready) /\ Pairs(ready', Follows)
        /\ UNCHANGED <<posted, write_msgs_, wire>>
    BY <1>0, <1>1, QuietPosts DEF Idle, Quieter
  <2> QED
    BY <1>1, <2>1 DEF Idle
<1>2. CASE send
  <2>1. /\ Posted(posted + 1) \in Handlers
        /\ Posted(posted + 1).op = "post" /\ Posted(posted + 1).msg = posted + 1
        /\ ready' = Append(ready, Posted(posted + 1))
        /\ Posts(ready') = Posts(ready) \cup {posted + 1}
        /\ posted' = posted + 1 /\ UNCHANGED <<write_msgs_, pending, wire>>
    BY <1>2, SendFacts
  <2>2. \A m \in Nat : m <= posted => m <= posted + 1 /\ m < posted + 1
    BY <1>0
  <2>3. ASSUME NEW g \in ToSet(ready)
        PROVE  <<g, Posted(posted + 1)>> \in Follows
    <3>1. g.op = "post" => g.msg < posted + 1
      BY <1>0, <2>2, PostsFacts
    <3> QED
      BY <1>0, <2>1, <3>1, FollowsFacts
  <2>4. Pairs(ready', Follows)
    <3>1. Pairs(Append(ready, Posted(posted + 1)), Follows)
      BY <1>0, <2>1, <2>3, BackFacts
    <3> QED
      BY <2>1, <3>1
  <2>5. ASSUME NEW n \in Posts(ready')
        PROVE  n <= posted + 1
    <3>1. CASE n \in Posts(ready)
      <4>1. n \in Nat /\ n <= posted
        BY <1>0, <3>1
      <4> QED
        BY <2>2, <4>1
    <3>2. CASE n = posted + 1
      BY <1>0, <3>2
    <3> QED
      BY <2>1, <3>1, <3>2
  <2>6. ASSUME NEW m \in ToSet(write_msgs_) \cup ToSet(wire)
        PROVE  m \in Nat /\ m <= posted /\ \A n \in Posts(ready) : m < n
    BY <1>0
  <2>7. ASSUME NEW m \in ToSet(write_msgs_) \cup ToSet(wire)
        PROVE  m <= posted + 1 /\ \A n \in Posts(ready') : m < n
    BY <2>1, <2>2, <2>6
  <2> QED
    BY <2>1, <2>4, <2>5, <2>7
<1>3. CASE Enqueue
  <2> DEFINE m == Head(ready).msg
  <2>1. /\ m \in Posts(ready) /\ m \in Ids
        /\ write_msgs_' = Append(write_msgs_, m)
        /\ ToSet(write_msgs_') = ToSet(write_msgs_) \cup {m}
        /\ Head(write_msgs_') = IF write_msgs_ = <<>> THEN m ELSE Head(write_msgs_)
        /\ Quieter(ready', ready, Follows, Tracked)
        /\ \A n \in Posts(ready') : n \in Posts(ready) /\ m < n
        /\ UNCHANGED <<posted, wire>>
        /\ write_msgs_ # <<>> => pending' = pending
    BY <1>3, EnqueueMoves
  <2> HIDE DEF m
  <2>2. Pairs(ready', Follows)
    BY <2>1 DEF Quieter
  <2>3. Pairs(write_msgs_', Older)
    <3>1. \A k \in ToSet(write_msgs_) : <<k, m>> \in Older
      BY <1>0, <2>1 DEF Older
    <3>2. Pairs(Append(write_msgs_, m), Older)
      BY <2>1, <3>1, BackFacts DEF Shape
    <3> QED
      BY <2>1, <3>2
  <2>4. /\ \A k \in ToSet(write_msgs_') \cup ToSet(wire) :
             k <= posted /\ \A n \in Posts(ready') : k < n
        /\ \A k \in ToSet(wire) : k < m
    BY <1>0, <2>1
  <2>5. \A k \in ToSet(wire), n \in ToSet(write_msgs_') :
          n # Head(write_msgs_') \/ "send" \in pending' => k < n
    <3>1. CASE write_msgs_ = <<>>
      <4>1. ToSet(write_msgs_') = {m}
        BY <2>1, <3>1, EmptyFacts
      <4> QED
        BY <2>4, <4>1
    <3>2. CASE write_msgs_ # <<>>
      BY <2>1, <2>4, <3>2
    <3> QED
      BY <3>1, <3>2
  <2> QED
    BY <2>1, <2>2, <2>3, <2>4, <2>5
<1>4. CASE Sent
  <2>1. /\ ToSet(write_msgs_') \subseteq ToSet(write_msgs_)
        /\ \A n \in ToSet(write_msgs_') : n # Head(write_msgs_)
        /\ Pairs(write_msgs_', Older)
        /\ Quieter(ready', ready, Follows, Tracked)
        /\ UNCHANGED <<posted, wire>>
    BY <1>4, SentRemoves
  <2>2. Posts(ready') \subseteq Posts(ready) /\ Pairs(ready', Follows)
    BY <1>0, <2>1, QuietPosts DEF Quieter
  <2> QED
    BY <2>1, <2>2
<1>5. CASE OsWriteDone
  <2>1. /\ "send" \notin pending' /\ UNCHANGED <<posted, write_msgs_>>
        /\ writing = Head(write_msgs_) /\ writing \in ToSet(write_msgs_)
        /\ \A n \in ToSet(write_msgs_) : n = writing \/ writing < n
        /\ \A n \in Posts(ready) : writing < n
        /\ ToSet(wire') = ToSet(wire) \cup {writing}
        /\ Quieter(ready', ready, Follows, Tracked)
        /\ Posts(ready') = Posts(ready)
    BY <1>5, OsWriteDoneFacts
  <2>2. /\ \A k \in ToSet(wire') : k <= posted /\ \A n \in Posts(ready) : k < n
        /\ \A k \in ToSet(wire'), n \in ToSet(write_msgs_) : n # Head(write_msgs_) => k < n
    BY <2>1
  <2> QED
    BY <2>1, <2>2 DEF Quieter
<1> QED
  BY <1>1, <1>2, <1>3, <1>4, <1>5, QuietSteps DEF Quietly

(* Every step accepts a message, delivers the oldest, loses some, or is    *)
(* not seen by the channel.                                                *)
LEMMA Simulation ==
  ASSUME Shape, LifeCycle, OneWriter, InLine, [Next]_vars, Shape'
  PROVE  Chan!Next
<1>0. /\ Ids \subseteq Nat /\ posted \in Nat
      /\ ToSet(write_msgs_) \subseteq Ids /\ ToSet(wire) \subseteq Ids
      /\ Posts(ready) \subseteq Ids /\ ready' \in Seq(Handlers)
  BY QueueTypes DEF Shape
<1>1. ASSUME ToSet(write_msgs_') \cup Posts(ready') \subseteq ToSet(write_msgs_) \cup Posts(ready),
             UNCHANGED <<posted, wire>>
      PROVE  Chan!Lose
  BY <1>1 DEF Chan!Lose, InFlight
<1>2. CASE Idle
  <2>1. Posts(ready') \subseteq Posts(ready) /\ UNCHANGED <<posted, write_msgs_, wire>>
    BY <1>0, <1>2, QuietPosts DEF Idle
  <2> QED
    BY <1>1, <2>1 DEF Chan!Next
<1>3. CASE send
  <2>1. /\ posted' = posted + 1 /\ UNCHANGED <<write_msgs_, wire>>
        /\ Posts(ready') = Posts(ready) \cup {posted + 1}
    BY <1>3, SendFacts
  <2>2. posted + 1 \notin ToSet(wire)
    BY <1>0 DEF InLine
  <2> QED
    BY <2>1, <2>2 DEF Chan!Next, Chan!Accept, InFlight
<1>4. CASE Enqueue
  <2>1. /\ Head(ready).msg \in Posts(ready)
        /\ ToSet(write_msgs_') = ToSet(write_msgs_) \cup {Head(ready).msg}
        /\ \A n \in Posts(ready') : n \in Posts(ready)
        /\ UNCHANGED <<posted, wire>>
    BY <1>4, EnqueueMoves
  <2> QED
    BY <1>1, <2>1 DEF Chan!Next
<1>5. CASE Sent
  <2>1. /\ ToSet(write_msgs_') \subseteq ToSet(write_msgs_)
        /\ Quieter(ready', ready, Follows, Tracked) /\ UNCHANGED <<posted, wire>>
    BY <1>5, SentRemoves
  <2>2. Posts(ready') \subseteq Posts(ready)
    BY <1>0, <2>1, QuietPosts
  <2> QED
    BY <1>1, <2>1, <2>2 DEF Chan!Next
<1>6. CASE OsWriteDone
  <2>1. /\ UNCHANGED <<posted, write_msgs_>> /\ wire' = Append(wire, writing)
        /\ writing \in ToSet(write_msgs_) /\ writing \in Ids
        /\ \A n \in ToSet(write_msgs_) : n = writing \/ writing < n
        /\ \A n \in Posts(ready) : writing < n
        /\ \A m \in ToSet(wire) : m < writing
        /\ ToSet(wire') = ToSet(wire) \cup {writing}
        /\ Posts(ready') = Posts(ready)
    BY <1>6, OsWriteDoneFacts
  <2>2. writing \in InFlight
    BY <1>0, <2>1 DEF InFlight
  <2>3. \A k \in InFlight : writing <= k
    BY <1>0, <2>1 DEF InFlight
  <2>4. InFlight' = InFlight \ {writing}
    BY <2>1 DEF InFlight
  <2> QED
    BY <2>1, <2>2, <2>3, <2>4 DEF Chan!Next, Chan!Deliver
<1> QED
  BY <1>2, <1>3, <1>4, <1>5, <1>6, QuietSteps DEF Quietly

-----------------------------------------------------------------------------
(* stop_ and failed are Boolean: they are assigned Boolean constants only. *)
LEMMA BooleanStep ==
  ASSUME stop_ \in BOOLEAN, failed \in BOOLEAN, [Next]_vars
  PROVE  stop_' \in BOOLEAN /\ failed' \in BOOLEAN
<1>1. \/ stop_' = TRUE \/ stop_' = FALSE \/ stop_' = stop_
  BY DEF Next, open, OpenThrows, send, close, CloseDisarms, ClosePosts, IoThread, Takes,
     Connected, ConnectFailed, Reconnect, ReconnectThrows, Received, ReceiveFailed,
     Dropped, Enqueue, Sent, SendFailed, Closed, RunReturns, Environment, Finish,
     OsConnect, OsReadData, OsReadFails, OsWrite, OsWriteDone, OsWriteFails, OsTimer,
     vars, state
<1>2. failed' = TRUE \/ failed' = failed
  BY DEF Next, open, OpenThrows, send, close, CloseDisarms, ClosePosts, IoThread, Takes,
     Connected, ConnectFailed, Reconnect, ReconnectThrows, Received, ReceiveFailed,
     Dropped, Enqueue, Sent, SendFailed, Closed, RunReturns, Environment, Finish,
     OsConnect, OsReadData, OsReadFails, OsWrite, OsWriteDone, OsWriteFails, OsTimer,
     vars, history
<1> QED
  BY <1>1, <1>2, Zenon

(* Nothing is started or queued at first.                                  *)
LEMMA InvInit == Init => IInv
<1> SUFFICES ASSUME Init
             PROVE  IInv
  OBVIOUS
<1>1. /\ ready = <<>> /\ write_msgs_ = <<>> /\ wire = <<>> /\ pending = {}
      /\ caller = "new" /\ io = "running" /\ socket = "closed"
      /\ posted = 0 /\ writing = 0
  BY DEF Init
<1>2. stop_ \in BOOLEAN /\ failed \in BOOLEAN
  BY Zenon DEF Init
<1>3. Shape
  BY <1>1, MaxSendsAssumption DEF Shape, Sockets
<1>4. /\ Posts(ready) = {} /\ ToSet(ready) = {} /\ ToSet(write_msgs_) = {}
      /\ ToSet(wire) = {}
  BY <1>1, EmptyFacts, PostsFacts
<1>5. \A S : AtMostOne(pending, ready, S) /\ ~Awaits(S)
  BY <1>1 DEF AtMostOne, Awaits, Outstanding, Single, Queued
<1>6. LifeCycle
  <2>1. Count({}, <<>>) = 0
    <3>1. Own({}) = 0 /\ Waiting(<<>>) = 0
      BY <1>1, <1>3, OwnFacts, WaitingFacts DEF Shape
    <3> QED
      BY <3>1 DEF Count
  <2>2. Bound
    BY <1>1, <2>1 DEF Bound
  <2> QED
    BY <1>1, <2>2 DEF LifeCycle, Callers, Alive
<1>7. OneWriter
  <2>1. OnlyFailureStrands
    BY <1>1, Zenon DEF Init, OnlyFailureStrands
  <2> QED
    BY <1>5, <2>1 DEF OneWriter
<1>8. InLine
  BY <1>1, <1>4, EmptyFacts DEF InLine
<1> QED
  BY <1>2, <1>3, <1>6, <1>7, <1>8 DEF IInv

(* Every behaviour of the client keeps the inductive invariant.            *)
THEOREM Invariance == Spec => []IInv
<1>1. IInv /\ [Next]_vars => IInv'
  <2> SUFFICES ASSUME IInv, [Next]_vars
               PROVE  IInv'
    OBVIOUS
  <2>1. Shape'
    BY ShapeStep DEF IInv
  <2>2. LifeCycle'
    BY <2>1, CallersStep, LifeStep DEF IInv, LifeCycle
  <2>3. OneWriter'
    BY WriterStep DEF IInv
  <2>4. InLine'
    BY <2>1, InLineStep DEF IInv
  <2>5. stop_' \in BOOLEAN /\ failed' \in BOOLEAN
    BY BooleanStep DEF IInv
  <2> QED
    BY <2>1, <2>2, <2>3, <2>4, <2>5 DEF IInv
<1> QED
  BY <1>1, InvInit, PTL DEF Spec

(* Every variable keeps its type in every behaviour of the client.         *)
THEOREM TypeCorrect == Spec => []TypeOK
<1>1. IInv => TypeOK
  BY DEF IInv, Shape, TypeOK
<1> QED
  BY <1>1, Invariance, PTL

(* From open() to close() the client does not die, whatever fails and in   *)
(* whatever order: something always leads to the next connect.  Until a    *)
(* write fails it is one thing, and then at most two, the second being the *)
(* timer that the failed write has set beside one that had expired.        *)
THEOREM OneLifeTheorem == Spec => []OneLife
<1>1. IInv => OneLife
  <2> SUFFICES ASSUME IInv
               PROVE  OneLife
    OBVIOUS
  <2> DEFINE P == pending \ {"send"}
             Q == Places(ready, Lead)
             S == {"started"} \X P
             F == {"finished"} \X Q
  <2>1. ready \in Seq(Handlers) /\ pending \in SUBSET Ops
    BY DEF IInv, Shape
  <2>2. {i \in DOMAIN ready : Leads(ready[i])} = Q
    <3>1. \A i \in DOMAIN ready : ready[i] \in Handlers
      BY <2>1
    <3> QED
      BY <3>1 DEF Places, Lead
  <2>3. Lives = S \cup F
    BY <2>2 DEF Lives
  <2>4. IsFiniteSet(P) /\ IsFiniteSet(Q) /\ Cardinality(P) \in Nat /\ Cardinality(Q) \in Nat
    <3>1. P \in SUBSET Ops
      BY <2>1
    <3> QED
      BY <2>1, <3>1, OpsFinite, FS_CardinalityType, PlacesFinite
  <2>5. S \cap F = {}
    OBVIOUS
  <2> HIDE DEF P, Q
  <2>6. ASSUME NEW x, NEW Z, IsFiniteSet(Z), Cardinality(Z) \in Nat
        PROVE  IsFiniteSet({x} \X Z) /\ Cardinality({x} \X Z) = Cardinality(Z)
    <3>1. IsFiniteSet({x}) /\ Cardinality({x}) = 1
      BY FS_Singleton
    <3> DEFINE Y == {x}
    <3>2. IsFiniteSet(Y) /\ Cardinality(Y) = 1
      BY <3>1
    <3> HIDE DEF Y
    <3>3. IsFiniteSet(Y \X Z) /\ Cardinality(Y \X Z) = Cardinality(Y) * Cardinality(Z)
      BY <2>6, <3>2, FS_Product
    <3>4. IsFiniteSet(Y \X Z) /\ Cardinality(Y \X Z) = Cardinality(Z)
      BY <2>6, <3>2, <3>3
    <3> QED
      BY <3>4 DEF Y
  <2>7. IsFiniteSet(S) /\ Cardinality(S) = Cardinality(P)
    BY <2>4, <2>6
  <2>8. IsFiniteSet(F) /\ Cardinality(F) = Cardinality(Q)
    BY <2>4, <2>6
  <2> HIDE DEF S, F
  <2>9. Cardinality(S \cup F) = Cardinality(S) + Cardinality(F) - Cardinality(S \cap F)
    BY <2>7, <2>8, FS_Union
  <2>10. Cardinality(S \cap F) = 0
    BY <2>5, FS_EmptySet
  <2>11. Cardinality(Lives) = Count(pending, ready) /\ Count(pending, ready) \in Nat
    <3>1. Own(pending) = Cardinality(P) /\ Waiting(ready) = Cardinality(Q)
      BY Zenon DEF Own, Waiting, P, Q
    <3>2. Cardinality(Lives) = Cardinality(S \cup F)
      BY <2>3, Zenon
    <3> QED
      BY <2>4, <2>7, <2>8, <2>9, <2>10, <3>1, <3>2 DEF Count
  <2>12. caller = "open" /\ io = "running" => Lives # {}
    BY <2>11, FS_EmptySet DEF IInv, LifeCycle, Alive
  <2>13. Cardinality(Lives) <= IF failed THEN 2 ELSE 1
    BY <2>11 DEF IInv, LifeCycle, Bound
  <2> QED
    BY <2>12, <2>13 DEF OneLife
<1> QED
  BY <1>1, Invariance, PTL

(* Messages are left in write_msgs_ without a writer exactly when a write  *)
(* has failed, on this connection or an earlier one: neither a post that   *)
(* meets a busy queue nor a reconnect does it, and no reconnect mends it.  *)
THEOREM OnlyFailureStrandsTheorem == Spec => []OnlyFailureStrands
<1>1. IInv => OnlyFailureStrands
  BY DEF IInv, OneWriter
<1> QED
  BY <1>1, Invariance, PTL

(* The client implements the channel, over all its connections.            *)
THEOREM ImplementsChannelTheorem == Spec => ImplementsChannel
<1>1. Init => Chan!Init
  <2> SUFFICES ASSUME Init
               PROVE  Chan!Init
    OBVIOUS
  <2>1. posted = 0 /\ ready = <<>> /\ write_msgs_ = <<>> /\ wire = <<>>
    BY DEF Init
  <2>2. Posts(ready) = {} /\ ToSet(write_msgs_) = {}
    BY <2>1, EmptyFacts, PostsFacts
  <2> QED
    BY <2>1, <2>2 DEF Chan!Init, InFlight
<1>2. IInv /\ [Next]_vars => [Chan!Next]_(Chan!chan)
  <2>1. IInv /\ [Next]_vars => Shape'
    BY ShapeStep DEF IInv
  <2> QED
    BY <2>1, Simulation DEF IInv
<1> QED
  BY <1>1, <1>2, Invariance, PTL DEF Spec, ImplementsChannel, Chan!Spec

(* So the peers get the messages in the order of the calls of send(), each *)
(* at most once, and none that was not posted.                             *)
THEOREM InOrderTheorem == Spec => []Chan!InOrderAtMostOnce
<1> DEFINE Order == Ordered(posted, InFlight, wire)
<1>1. Chan!Init => Order
  BY DEF Chan!Init, Ordered
<1>2. Order /\ [Chan!Next]_(Chan!chan) => Order'
  <2> SUFFICES ASSUME Order, [Chan!Next]_(Chan!chan)
               PROVE  Order'
    OBVIOUS
  <2>1. CASE Chan!Accept
    BY <2>1, AcceptOrdered DEF Chan!Accept
  <2>2. CASE \E m \in InFlight : Chan!Deliver(m)
    BY <2>2, DeliverOrdered DEF Chan!Deliver
  <2>3. CASE Chan!Lose
    BY <2>3, LoseOrdered DEF Chan!Lose
  <2>4. CASE UNCHANGED Chan!chan
    BY <2>4 DEF Chan!chan
  <2> QED
    BY <2>1, <2>2, <2>3, <2>4 DEF Chan!Next
<1>3. Order => Chan!InOrderAtMostOnce
  BY DEF Ordered, Chan!InOrderAtMostOnce, Chan!Increasing
<1> QED
  BY <1>1, <1>2, <1>3, ImplementsChannelTheorem, PTL DEF ImplementsChannel, Chan!Spec
=============================================================================
