------------------------ MODULE Asio110ClientProofs ------------------------
(***************************************************************************)
(* Proofs about Asio110Client for every buf_size and all messages: its     *)
(* type invariant, that it has one chain of connects and reads and one     *)
(* write at a time, and that it writes the bytes it is given, in order;    *)
(* and first about the ConnectionBuffer that it keeps them in.             *)
(***************************************************************************)
EXTENDS Asio110Client, IoContextLemmas, SequenceTheorems

-----------------------------------------------------------------------------
(* ConnectionBuffer is a FIFO queue of bytes, for every buf_size, every    *)
(* buffer and every length: append() adds at the end, retrieveReadIndex()  *)
(* removes at the front, and adjustInternal() and retrieveWriteIndex()     *)
(* leave room for the next read.  Where memcpy would be undefined, that    *)
(* is where Overlaps holds, the theorems are about a copy that works.      *)

(* The steps by which append() grows the vector exceed the data.           *)
LEMMA GrowthExceeds ==
  ASSUME NEW n \in Nat
  PROVE  /\ BufSize * (n \div BufSize + 1) \in Nat
         /\ BufSize * (n \div BufSize + 1) > n
  BY BufSizeAssumption

(* The content is a sequence of bytes.                                     *)
LEMMA ContentIsSeq ==
  ASSUME NEW b, IsBuffer(b)
  PROVE  /\ readableCount(b) \in Nat
         /\ Content(b) \in Seq(Byte)
         /\ Len(Content(b)) = readableCount(b)
  <1>1. readableCount(b) \in Nat
    BY DEF readableCount, IsBuffer
  <1>2. ASSUME NEW i \in 1..readableCount(b)
        PROVE  b.cells[b.read_index_ + i - 1] \in Byte
    <2>1. b.read_index_ + i - 1 \in 0..b.size-1
      BY DEF readableCount, IsBuffer
    <2> QED BY <2>1 DEF IsBuffer
  <1> DEFINE n == readableCount(b)
             e(i) == b.cells[b.read_index_ + i - 1]
  <1>3. [i \in 1..n |-> e(i)] \in [1..n -> Byte]
    BY <1>2
  <1>4. Content(b) \in [1..n -> Byte]
    BY <1>3 DEF Content
  <1> HIDE DEF n
  <1> QED BY <1>1, <1>4 DEF n

(* Put writes data behind the content, when there is room for it.          *)
LEMMA PutAppends ==
  ASSUME NEW b, IsBuffer(b), NEW data \in Seq(Byte),
         b.write_index_ + Len(data) < b.size
  PROVE  /\ IsBuffer(Put(b, data))
         /\ Content(Put(b, data)) = Content(b) \o data
  <1> DEFINE p == Put(b, data)
  <1>1. /\ p.size = b.size /\ p.read_index_ = b.read_index_
        /\ p.write_index_ = b.write_index_ + Len(data)
        /\ p.cells = [i \in 0..b.size-1 |->
                        IF i \in b.write_index_..b.write_index_ + Len(data) - 1
                        THEN data[i - b.write_index_ + 1] ELSE b.cells[i]]
        /\ p = Buffer(p.size, p.cells, p.read_index_, p.write_index_)
    BY DEF Put, Buffer
  <1> HIDE DEF p
  <1>2. Len(data) \in Nat
    OBVIOUS
  <1>3. p.cells \in [0..p.size-1 -> Byte]
    <2> SUFFICES ASSUME NEW i \in 0..b.size-1 PROVE p.cells[i] \in Byte
      BY <1>1
    <2>1. CASE i \in b.write_index_..b.write_index_ + Len(data) - 1
      <3>1. i - b.write_index_ + 1 \in 1..Len(data)
        BY <2>1, <1>2 DEF IsBuffer
      <3> QED BY <1>1, <2>1, <3>1
    <2>2. CASE i \notin b.write_index_..b.write_index_ + Len(data) - 1
      BY <1>1, <2>2 DEF IsBuffer
    <2> QED BY <2>1, <2>2
  <1>4. IsBuffer(p)
    BY <1>1, <1>2, <1>3 DEF IsBuffer
  <1>5. Content(p) = Content(b) \o data
    <2>1. Content(b) \in Seq(Byte) /\ Len(Content(b)) = readableCount(b)
      BY ContentIsSeq
    <2>2. Content(p) \in Seq(Byte) /\ Len(Content(p)) = readableCount(p)
      BY <1>4, ContentIsSeq
    <2>3. readableCount(p) = readableCount(b) + Len(data)
      BY <1>1, <1>2 DEF readableCount, IsBuffer
    <2>4. ASSUME NEW i \in 1..readableCount(p)
          PROVE  Content(p)[i] = (Content(b) \o data)[i]
      <3>1. Content(p)[i] = p.cells[b.read_index_ + i - 1]
        BY <1>1 DEF Content
      <3>2. CASE i <= readableCount(b)
        <4>1. b.read_index_ + i - 1 \in 0..b.write_index_-1
          BY <3>2 DEF readableCount, IsBuffer
        <4>2. p.cells[b.read_index_ + i - 1] = b.cells[b.read_index_ + i - 1]
          BY <1>1, <1>2, <4>1 DEF IsBuffer
        <4>3. i \in 1..readableCount(b)
          BY <3>2, <2>3 DEF readableCount, IsBuffer
        <4>4. Content(b)[i] = b.cells[b.read_index_ + i - 1]
          BY <4>3 DEF Content
        <4>5. (Content(b) \o data)[i] = Content(b)[i]
          BY <4>3, <2>1, <1>2
        <4> QED BY <3>1, <4>2, <4>4, <4>5
      <3>3. CASE ~(i <= readableCount(b))
        <4> DEFINE k == b.read_index_ + i - 1
        <4>1. /\ k \in b.write_index_..b.write_index_ + Len(data) - 1
              /\ k \in 0..b.size-1
              /\ k - b.write_index_ + 1 = i - readableCount(b)
          <5>1. /\ b.read_index_ \in Nat /\ b.write_index_ \in Nat /\ b.size \in Nat
                /\ readableCount(b) = b.write_index_ - b.read_index_
            BY DEF readableCount, IsBuffer
          <5>2. i > readableCount(b) /\ i <= readableCount(b) + Len(data) /\ Len(data) \in Nat
            BY <3>3, <2>3, <1>2, <5>1
          <5>3. b.write_index_ + Len(data) <= b.size
            BY <1>2 DEF IsBuffer
          <5>4. i \in Nat /\ b.read_index_ <= b.write_index_
            BY <2>3, <5>1 DEF IsBuffer
          <5> DEFINE r == b.read_index_  w == b.write_index_  n == Len(data)
                     s == b.size
          <5>5. /\ r \in Nat /\ w \in Nat /\ n \in Nat /\ s \in Nat /\ r <= w
                /\ i \in Nat /\ i > w - r /\ i <= w - r + n /\ w + n <= s
            BY <5>1, <5>2, <5>3, <5>4
          <5> HIDE DEF r, w, n, s
          <5>6. /\ r + i - 1 \in w..w + n - 1 /\ r + i - 1 \in 0..s-1
                /\ r + i - 1 - w + 1 = i - (w - r)
            BY <5>5
          <5> QED
            BY <5>1, <5>6 DEF r, w, n, s
        <4>2. p.cells[k] = data[i - readableCount(b)]
          BY <1>1, <4>1
        <4>3. (Content(b) \o data)[i] = data[i - readableCount(b)]
          BY <3>3, <2>1, <2>3, <1>2
        <4> QED BY <3>1, <4>2, <4>3
      <3> QED BY <3>2, <3>3
    <2>5. /\ Content(b) \o data \in Seq(Byte)
          /\ Len(Content(b) \o data) = readableCount(p)
      BY <2>1, <2>3
    <2> QED BY <2>2, <2>4, <2>5
  <1> QED BY <1>4, <1>5 DEF p

(* Moving the content to the start of the vector does not change it.       *)
LEMMA CompactKeeps ==
  ASSUME NEW b, IsBuffer(b)
  PROVE  /\ IsBuffer(Compact(b))
         /\ Content(Compact(b)) = Content(b)
         /\ Compact(b).size = b.size
         /\ Compact(b).write_index_ = readableCount(b)
  <1> DEFINE c == Compact(b)
  <1>1. /\ c.size = b.size /\ c.read_index_ = 0
        /\ c.write_index_ = readableCount(b)
        /\ c.cells = [i \in 0..b.size-1 |->
                        IF i < readableCount(b) THEN b.cells[b.read_index_ + i]
                        ELSE b.cells[i]]
        /\ c = Buffer(c.size, c.cells, c.read_index_, c.write_index_)
    BY DEF Compact, Buffer
  <1> HIDE DEF c
  <1>2. c.cells \in [0..c.size-1 -> Byte]
    <2> SUFFICES ASSUME NEW i \in 0..b.size-1 PROVE c.cells[i] \in Byte
      BY <1>1
    <2>1. b.cells[i] \in Byte
      BY DEF IsBuffer
    <2>2. CASE i < readableCount(b)
      <3>1. b.read_index_ + i \in 0..b.size-1
        BY <2>2 DEF readableCount, IsBuffer
      <3>2. b.cells[b.read_index_ + i] \in Byte
        BY <3>1 DEF IsBuffer
      <3> QED BY <1>1, <2>2, <3>2
    <2> QED BY <1>1, <2>1, <2>2
  <1>3. IsBuffer(c)
    BY <1>1, <1>2 DEF IsBuffer, readableCount
  <1>4. readableCount(c) = readableCount(b) /\ readableCount(b) \in Nat
    BY <1>1 DEF readableCount, IsBuffer
  <1>5. ASSUME NEW i \in 1..readableCount(b)
        PROVE  c.cells[c.read_index_ + i - 1] = b.cells[b.read_index_ + i - 1]
    <2>1. i - 1 \in 0..b.size-1 /\ i - 1 < readableCount(b)
      BY <1>4 DEF readableCount, IsBuffer
    <2>2. c.cells[i - 1] = b.cells[b.read_index_ + (i - 1)]
      BY <1>1, <2>1
    <2>3. /\ c.read_index_ + i - 1 = i - 1
          /\ b.read_index_ + (i - 1) = b.read_index_ + i - 1
      BY <1>1 DEF IsBuffer
    <2> QED BY <2>2, <2>3
  <1>6. Content(c) = Content(b)
    BY <1>4, <1>5 DEF Content
  <1> QED BY <1>1, <1>3, <1>6 DEF c

(* A vector that grows keeps its content.                                  *)
LEMMA ResizeKeeps ==
  ASSUME NEW b, IsBuffer(b), NEW n \in Nat, n >= b.size
  PROVE  /\ IsBuffer(Resize(b, n))
         /\ Content(Resize(b, n)) = Content(b)
         /\ Resize(b, n).size = n
         /\ Resize(b, n).write_index_ = b.write_index_
  <1> DEFINE z == Resize(b, n)
  <1>1. /\ z.size = n /\ z.read_index_ = b.read_index_
        /\ z.write_index_ = b.write_index_
        /\ z.cells = [i \in 0..n-1 |-> IF i < b.size THEN b.cells[i] ELSE 0]
        /\ z = Buffer(z.size, z.cells, z.read_index_, z.write_index_)
    BY DEF Resize, Buffer
  <1> HIDE DEF z
  <1>2. z.cells \in [0..z.size-1 -> Byte]
    <2> SUFFICES ASSUME NEW i \in 0..n-1 PROVE z.cells[i] \in Byte
      BY <1>1
    <2>1. CASE i < b.size
      <3>1. i \in 0..b.size-1
        BY <2>1 DEF IsBuffer
      <3>2. b.cells[i] \in Byte
        BY <3>1 DEF IsBuffer
      <3> QED BY <1>1, <2>1, <3>2
    <2>2. CASE ~(i < b.size)
      BY <1>1, <2>2, ByteAssumption
    <2> QED BY <2>1, <2>2
  <1>3. IsBuffer(z)
    BY <1>1, <1>2 DEF IsBuffer
  <1>4. readableCount(z) = readableCount(b)
    BY <1>1 DEF readableCount
  <1>5. ASSUME NEW i \in 1..readableCount(b)
        PROVE  z.cells[z.read_index_ + i - 1] = b.cells[b.read_index_ + i - 1]
    BY <1>1 DEF readableCount, IsBuffer
  <1>6. Content(z) = Content(b)
    BY <1>4, <1>5 DEF Content
  <1> QED BY <1>1, <1>3, <1>6 DEF z

-----------------------------------------------------------------------------
(* append(), whichever of its three cases applies, adds the data at the    *)
(* end of the content and stays inside the vector.                         *)
THEOREM AppendIsFifo ==
  ASSUME NEW b, IsBuffer(b), NEW data \in Seq(Byte)
  PROVE  /\ IsBuffer(append(b, data))
         /\ Content(append(b, data)) = Content(b) \o data
  <1> DEFINE n == Len(data)
             grown == Resize(b, b.size + BufSize * (n \div BufSize + 1))
  <1>1. n \in Nat
    OBVIOUS
  <1>2. CASE Fits(b, n)
    <2>1. b.write_index_ + Len(data) < b.size
      BY <1>2, <1>1 DEF Fits, writableCount, IsBuffer
    <2>2. append(b, data) = Put(b, data)
      BY <1>2 DEF append
    <2> QED BY <2>1, <2>2, PutAppends
  <1>3. CASE ~Fits(b, n) /\ FitsCompacted(b, n)
    <2>1. readableCount(b) + Len(data) < b.size
      BY <1>3, <1>1 DEF FitsCompacted, writableCount, readableCount, IsBuffer
    <2>2. Compact(b).write_index_ + Len(data) < Compact(b).size
      BY <2>1, CompactKeeps
    <2>3. append(b, data) = Put(Compact(b), data)
      BY <1>3 DEF append
    <2> QED BY <2>2, <2>3, CompactKeeps, PutAppends
  <1>4. CASE ~Fits(b, n) /\ ~FitsCompacted(b, n)
    <2> DEFINE g == BufSize * (n \div BufSize + 1)
    <2>1. g \in Nat /\ g > n
      BY <1>1, GrowthExceeds
    <2>2. append(b, data) = Put(Resize(b, b.size + g), data)
      BY <1>4 DEF append
    <2> HIDE DEF g
    <2>3. b.size + g \in Nat /\ b.size + g >= b.size
      BY <2>1 DEF IsBuffer
    <2>4. /\ IsBuffer(Resize(b, b.size + g))
          /\ Content(Resize(b, b.size + g)) = Content(b)
          /\ Resize(b, b.size + g).size = b.size + g
          /\ Resize(b, b.size + g).write_index_ = b.write_index_
      BY <2>3, ResizeKeeps
    <2>5. Resize(b, b.size + g).write_index_ + Len(data)
            < Resize(b, b.size + g).size
      BY <2>1, <2>4, <1>1 DEF IsBuffer
    <2> QED BY <2>2, <2>4, <2>5, PutAppends
  <1> QED BY <1>2, <1>3, <1>4

(* retrieveReadIndex() of bytes that are there removes them at the front,  *)
(* also when it empties the buffer and sets both indices back.             *)
THEOREM RetrieveReadIsFifo ==
  ASSUME NEW b, IsBuffer(b), NEW n \in 0..readableCount(b)
  PROVE  /\ IsBuffer(retrieveReadIndex(b, n))
         /\ Content(retrieveReadIndex(b, n))
              = SubSeq(Content(b), n + 1, Len(Content(b)))
  <1> DEFINE t == retrieveReadIndex(b, n)
             empty == b.read_index_ + n >= b.write_index_
  <1>1. /\ t.size = b.size /\ t.cells = b.cells
        /\ t.read_index_ = IF empty THEN 0 ELSE b.read_index_ + n
        /\ t.write_index_ = IF empty THEN 0 ELSE b.write_index_
        /\ t = Buffer(t.size, t.cells, t.read_index_, t.write_index_)
    BY DEF retrieveReadIndex, Buffer
  <1> HIDE DEF t
  <1>2. readableCount(b) \in Nat /\ n \in Nat
    BY DEF readableCount, IsBuffer
  <1>3. IsBuffer(t)
    BY <1>1, <1>2 DEF IsBuffer
  <1>4. Content(b) \in Seq(Byte) /\ Len(Content(b)) = readableCount(b)
    BY ContentIsSeq
  <1>5. readableCount(t) = readableCount(b) - n
    BY <1>1, <1>2 DEF readableCount, IsBuffer
  <1>6. Content(t) \in Seq(Byte) /\ Len(Content(t)) = readableCount(t)
    BY <1>3, ContentIsSeq
  <1>7. ASSUME NEW i \in 1..readableCount(t)
        PROVE  Content(t)[i] = Content(b)[n + i]
    <2>1. ~empty /\ n + i \in 1..readableCount(b)
      BY <1>1, <1>2, <1>5 DEF readableCount, IsBuffer
    <2>2. Content(t)[i] = b.cells[b.read_index_ + n + i - 1]
      BY <1>1, <2>1 DEF Content
    <2>3. Content(b)[n + i] = b.cells[b.read_index_ + (n + i) - 1]
      BY <2>1 DEF Content
    <2>4. b.read_index_ + (n + i) - 1 = b.read_index_ + n + i - 1
      BY <1>2 DEF IsBuffer
    <2> QED BY <2>2, <2>3, <2>4
  <1> DEFINE s == SubSeq(Content(b), n + 1, Len(Content(b)))
  <1>8. /\ s \in Seq(Byte) /\ Len(s) = readableCount(t)
        /\ \A i \in 1..readableCount(t) : s[i] = Content(b)[n + i]
    BY <1>2, <1>4, <1>5
  <1>9. Content(t) = s
    BY <1>6, <1>7, <1>8
  <1> QED BY <1>3, <1>9 DEF t

(* After retrieveWriteIndex() of bytes that fitted, the content is still   *)
(* inside the vector and there is room for at least one byte, so that the  *)
(* next async_read_some() does not have an empty buffer.                   *)
THEOREM RetrieveWriteLeavesRoom ==
  ASSUME NEW b, IsBuffer(b), NEW n \in 0..writableCount(b)
  PROVE  /\ IsBuffer(retrieveWriteIndex(b, n))
         /\ writableCount(retrieveWriteIndex(b, n)) > 0
         /\ readableCount(retrieveWriteIndex(b, n)) = readableCount(b) + n
  <1>1. n \in Nat /\ b.write_index_ + n <= b.size
    BY DEF writableCount, IsBuffer
  <1>2. CASE b.write_index_ + n < b.size
    <2> DEFINE t == Buffer(b.size, b.cells, b.read_index_, b.write_index_ + n)
    <2>1. retrieveWriteIndex(b, n) = t
      BY <1>1, <1>2 DEF retrieveWriteIndex, IsBuffer
    <2>2. /\ t.size = b.size /\ t.cells = b.cells
          /\ t.read_index_ = b.read_index_
          /\ t.write_index_ = b.write_index_ + n
          /\ t = Buffer(t.size, t.cells, t.read_index_, t.write_index_)
      BY DEF Buffer
    <2> HIDE DEF t
    <2>3. /\ IsBuffer(t) /\ writableCount(t) > 0
          /\ readableCount(t) = readableCount(b) + n
      BY <2>2, <1>1, <1>2 DEF IsBuffer, writableCount, readableCount
    <2> QED BY <2>1, <2>3
  <1>3. CASE b.write_index_ + n = b.size
    <2> DEFINE t == 
                 Resize(Buffer(b.size, b.cells, b.read_index_, b.size), 2 * b.size)
    <2>1. retrieveWriteIndex(b, n) = t
      BY <1>1, <1>3 DEF retrieveWriteIndex, IsBuffer
    <2>2. /\ t.size = 2 * b.size /\ t.read_index_ = b.read_index_
          /\ t.write_index_ = b.size
          /\ t.cells = [i \in 0..2 * b.size - 1 |->
                          IF i < b.size THEN b.cells[i] ELSE 0]
          /\ t = Buffer(t.size, t.cells, t.read_index_, t.write_index_)
      BY DEF Buffer, Resize
    <2> HIDE DEF t
    <2>3. t.cells \in [0..t.size - 1 -> Byte]
      BY <2>2, ByteAssumption DEF IsBuffer
    <2>4. /\ t.size \in Nat \ {0} /\ t.write_index_ < t.size
          /\ t.read_index_ \in Nat /\ t.write_index_ \in Nat
          /\ t.read_index_ <= t.write_index_
          /\ t.size - t.write_index_ > 0
      BY <2>2 DEF IsBuffer
    <2>5. t.write_index_ - t.read_index_ = b.write_index_ - b.read_index_ + n
      BY <2>2, <1>1, <1>3 DEF IsBuffer
    <2>6. IsBuffer(t)
      BY <2>2, <2>3, <2>4 DEF IsBuffer
    <2> QED BY <2>1, <2>4, <2>5, <2>6 DEF writableCount, readableCount
  <1> QED BY <1>1, <1>2, <1>3 DEF IsBuffer

(* adjustInternal() keeps the content, and the room to write.              *)
THEOREM AdjustKeeps ==
  ASSUME NEW b, IsBuffer(b)
  PROVE  /\ IsBuffer(adjustInternal(b))
         /\ Content(adjustInternal(b)) = Content(b)
  BY CompactKeeps DEF adjustInternal

-----------------------------------------------------------------------------
(* The handlers of send() and sendInService() carry a message.             *)
Good == {h \in Handlers : h.op \in {"sending", "sendIn"} => h.msg \in Ids}

(* The types, but for the Boolean variables.                               *)
Shape ==
  /\ state_ \in {"CONNECTING", "CONNECTED", "DISCONNECTED"}
  /\ IsBuffer(buf_in_) /\ IsBuffer(buf_out_)
  /\ socket \in Sockets
  /\ pending \subseteq Ops
  /\ ready \in Seq(Good)
  /\ io \in {"running", "returned", "thrown", Undefined}
  /\ writing \in Nat
  /\ given \in Seq(Byte) /\ wire \in Seq(Byte)
  /\ caller \in {"new", "open", "disarmed", "closed"}
  /\ posted \in 0..Len(Sizes)

Awaits(S) == Outstanding(pending, ready, S)

(* The operations that lead to a connection, and those and its reads, of   *)
(* which one follows the other.                                            *)
Connecting == {"resolve", "connect", "timer"}
Chain == Connecting \cup {"receiveIn", "recv"}

OneChain ==
  /\ AtMostOne(pending, ready, Chain)
  /\ caller = "new" => pending = {} /\ ready = <<>> /\ state_ = "CONNECTING"

(* A write is under way only beside a connection, and only when sending_   *)
(* says so.                                                                *)
OneWrite ==
  /\ AtMostOne(pending, ready, {"send"})
  /\ Awaits({"send"}) => sending_
  /\ Awaits(Connecting) => ~Awaits({"send"}) /\ state_ # "CONNECTED"

(* The finished reads and writes whose handlers have not run.              *)
Transfers(q) == {h \in ToSet(q) : h.op \in {"recv", "send"} /\ h.ec = "ok"}

(* A read has filled no more than the room that buf_in_ had.               *)
Reading ==
  \A h \in Transfers(ready) : h.op = "recv" => h.msg \in 1..writableCount(buf_in_)

(* The bytes p were written and removed from buf_out_, and the first k of  *)
(* its content were written and wait for handleSend() to remove them.      *)
Streaming(p, k) ==
  /\ given = p \o Content(buf_out_)
  /\ wire = p \o SubSeq(Content(buf_out_), 1, k)
  /\ \A h \in Transfers(ready) : h.op = "send" => h.msg = k
  /\ k # 0 => \E h \in Transfers(ready) : h.op = "send"

InOrder ==
  /\ "send" \in pending => writing <= readableCount(buf_out_)
  /\ \E p \in Seq(Byte), k \in 0..readableCount(buf_out_) : Streaming(p, k)

(* The flags are Boolean.                                                  *)
Flags ==
  /\ receiving_ \in BOOLEAN /\ sending_ \in BOOLEAN /\ reconnect_ \in BOOLEAN
  /\ unresolved \in BOOLEAN /\ cut \in BOOLEAN

IInv ==
  /\ Flags /\ Shape /\ OneChain /\ OneWrite /\ Reading /\ InOrder

-----------------------------------------------------------------------------
(* Prefixes and suffixes.                                                  *)

(* A sequence is its first k elements followed by the others.              *)
LEMMA SliceFacts ==
  ASSUME NEW S, NEW s \in Seq(S), NEW k \in 0..Len(s)
  PROVE  /\ SubSeq(s, 1, k) \in Seq(S) /\ SubSeq(s, k + 1, Len(s)) \in Seq(S)
         /\ Len(SubSeq(s, 1, k)) = k
         /\ SubSeq(s, 1, k) \o SubSeq(s, k + 1, Len(s)) = s
         /\ SubSeq(s, 1, 0) = <<>>
<1>1. Len(s) \in Nat /\ k \in Nat /\ \A i \in 1..Len(s) : s[i] \in S
  OBVIOUS
<1>2. SubSeq(s, 1, k) \in Seq(S) /\ Len(SubSeq(s, 1, k)) = k
  <2>1. \A i \in 1..k : s[i] \in S
    BY <1>1
  <2> QED
    BY <1>1, <2>1, SubSeqProperties
<1>3. SubSeq(s, k + 1, Len(s)) \in Seq(S)
  <2>1. \A i \in (k + 1)..Len(s) : s[i] \in S
    BY <1>1
  <2> QED
    BY <1>1, <2>1, SubSeqProperties
<1>4. SubSeq(s, 1, k) \o SubSeq(s, k + 1, Len(s)) = SubSeq(s, 1, Len(s))
  <2>1. 1 \in 1..(Len(s) + 1) /\ k \in (1 - 1)..Len(s) /\ Len(s) \in k..Len(s)
    BY <1>1
  <2> QED
    BY <2>1, ConcatAdjacentSubSeq
<1>5. SubSeq(s, 1, Len(s)) = s
  BY SubSeqFull
<1>6. SubSeq(s, 1, 0) = <<>>
  BY SubSeqEmpty
<1> QED
  BY <1>2, <1>3, <1>4, <1>5, <1>6

(* Concatenation under a name of its own, which keeps the provers from     *)
(* regrouping it at every turn.                                            *)
Then(s, t) == s \o t

(* Concatenation is associative, element by element.                       *)
LEMMA Regroup ==
  \A S : \A p, x, y \in Seq(S) : Then(Then(p, x), y) = Then(p, Then(x, y))
<1> SUFFICES ASSUME NEW S, NEW p \in Seq(S), NEW x \in Seq(S), NEW y \in Seq(S)
             PROVE  (p \o x) \o y = p \o (x \o y)
  BY DEF Then
<1>1. PICK a \in Seq(S) : a = p \o x
  BY ConcatProperties
<1>2. PICK b \in Seq(S) : b = x \o y
  BY ConcatProperties
<1>3. PICK l \in Seq(S) : l = a \o y
  BY ConcatProperties
<1>4. PICK r \in Seq(S) : r = p \o b
  BY ConcatProperties
<1>5. PICK m \in Nat, n \in Nat, o \in Nat : m = Len(p) /\ n = Len(x) /\ o = Len(y)
  BY LenProperties
<1>6. /\ Len(a) = m + n
      /\ \A i \in 1..(m + n) : a[i] = IF i <= m THEN p[i] ELSE x[i - m]
  BY <1>1, <1>5, ConcatProperties
<1>7. /\ Len(b) = n + o
      /\ \A i \in 1..(n + o) : b[i] = IF i <= n THEN x[i] ELSE y[i - n]
  BY <1>2, <1>5, ConcatProperties
<1>8. /\ Len(l) = (m + n) + o
      /\ \A i \in 1..((m + n) + o) :
           l[i] = IF i <= m + n THEN a[i] ELSE y[i - (m + n)]
  <2>1. /\ Len(l) = Len(a) + Len(y)
        /\ \A i \in 1..(Len(a) + Len(y)) :
             l[i] = IF i <= Len(a) THEN a[i] ELSE y[i - Len(a)]
    BY <1>3, ConcatProperties
  <2> QED
    BY <1>5, <1>6, <2>1, Zenon
<1>9. /\ Len(r) = m + (n + o)
      /\ \A i \in 1..(m + (n + o)) :
           r[i] = IF i <= m THEN p[i] ELSE b[i - m]
  <2>1. /\ Len(r) = Len(p) + Len(b)
        /\ \A i \in 1..(Len(p) + Len(b)) :
             r[i] = IF i <= Len(p) THEN p[i] ELSE b[i - Len(p)]
    BY <1>4, ConcatProperties
  <2> QED
    BY <1>5, <1>7, <2>1, Zenon
<1>10. Len(l) = Len(r)
  BY <1>8, <1>9
<1>11. ASSUME NEW i \in 1..((m + n) + o)
       PROVE  l[i] = r[i]
  <2>1. CASE i <= m
    <3>1. i \in 1..(m + n) /\ i <= m + n /\ i \in 1..(m + (n + o))
      BY <2>1
    <3>2. l[i] = a[i] /\ a[i] = p[i] /\ r[i] = p[i]
      BY <1>6, <1>7, <1>8, <1>9, <2>1, <3>1
    <3> QED
      BY <3>2
  <2>2. CASE ~(i <= m) /\ i <= m + n
    <3>1. /\ i \in 1..(m + n) /\ i \in 1..(m + (n + o))
          /\ i - m \in 1..(n + o) /\ i - m <= n
      BY <2>2
    <3>2. l[i] = a[i] /\ a[i] = x[i - m] /\ r[i] = b[i - m]
      BY <1>6, <1>7, <1>8, <1>9, <2>2, <3>1
    <3>3. b[i - m] = x[i - m]
      BY <1>6, <1>7, <1>8, <1>9, <3>1
    <3> QED
      BY <3>2, <3>3
  <2>3. CASE ~(i <= m + n)
    <3>1. /\ ~(i <= m) /\ i \in 1..(m + (n + o))
          /\ i - m \in 1..(n + o) /\ ~(i - m <= n)
          /\ (i - m) - n = i - (m + n)
      BY <2>3
    <3>2. l[i] = y[i - (m + n)] /\ r[i] = b[i - m]
      BY <1>6, <1>7, <1>8, <1>9, <2>3, <3>1
    <3>3. b[i - m] = y[(i - m) - n]
      BY <1>6, <1>7, <1>8, <1>9, <3>1
    <3> QED
      BY <3>1, <3>2, <3>3
  <2> QED
    BY <2>1, <2>2, <2>3

<1>12. l = r
  BY <1>8, <1>10, <1>11, SeqEqual
<1> QED
  BY <1>1, <1>2, <1>3, <1>4, <1>12

(* The same behind another sequence.                                       *)
LEMMA SliceBehind ==
  ASSUME NEW S, NEW p \in Seq(S), NEW s \in Seq(S), NEW k \in 0..Len(s)
  PROVE  (p \o SubSeq(s, 1, k)) \o SubSeq(s, k + 1, Len(s)) = p \o s
<1>1. /\ SubSeq(s, 1, k) \in Seq(S) /\ SubSeq(s, k + 1, Len(s)) \in Seq(S)
      /\ SubSeq(s, 1, k) \o SubSeq(s, k + 1, Len(s)) = s
  BY SliceFacts
<1>2. PICK x \in Seq(S) : x = SubSeq(s, 1, k)
  BY <1>1
<1>3. PICK y \in Seq(S) : y = SubSeq(s, k + 1, Len(s))
  BY <1>1
<1>4. Then(Then(p, x), y) = Then(p, Then(x, y))
  BY Regroup
<1>5. x \o y = s
  BY <1>1, <1>2, <1>3
<1> QED
  BY <1>2, <1>3, <1>4, <1>5 DEF Then

(* What is added behind a sequence leaves its first k elements.            *)
LEMMA SliceOfConcat ==
  ASSUME NEW S, NEW s \in Seq(S), NEW t \in Seq(S), NEW k \in 0..Len(s)
  PROVE  SubSeq(s \o t, 1, k) = SubSeq(s, 1, k)
<1>1. CASE k = 0
  BY <1>1, SubSeqEmpty
<1>2. CASE k # 0
  <2>1. 1 \in 1..Len(s) /\ k \in 1..Len(s)
    BY <1>2
  <2> QED
    BY <2>1, SubSeqOfConcat1
<1> QED
  BY <1>1, <1>2

(* The elements of a sequence from its end to its front.                   *)
LEMMA ReverseFacts ==
  ASSUME NEW S, NEW s \in Seq(S)
  PROVE  /\ Reverse(s) \in Seq(S) /\ Len(Reverse(s)) = Len(s)
         /\ \A i \in 1..Len(s) : Reverse(s)[i] = s[Len(s) - i + 1]
<1> DEFINE r == Reverse(s)
<1>1. Len(s) \in Nat /\ \A i \in 1..Len(s) : s[Len(s) - i + 1] \in S
  OBVIOUS
<1>2. r = [i \in 1..Len(s) |-> s[Len(s) - i + 1]]
  BY DEF Reverse
<1>3. r \in [1..Len(s) -> S]
  BY <1>1, <1>2
<1> HIDE DEF r
<1>4. r \in Seq(S) /\ Len(r) = Len(s)
  BY <1>1, <1>3
<1> QED
  BY <1>2, <1>4 DEF r

(* A sequence is a prefix, and the rest a suffix, of the two together.     *)
LEMMA PrefixFacts ==
  ASSUME NEW S, NEW s \in Seq(S), NEW t \in Seq(S)
  PROVE  IsPrefix(s, s \o t) /\ IsSuffix(t, s \o t)
<1> DEFINE c == s \o t
<1>1. /\ c \in Seq(S) /\ Len(c) = Len(s) + Len(t) /\ Len(s) \in Nat /\ Len(t) \in Nat
      /\ \A i \in 1..(Len(s) + Len(t)) :
           c[i] = IF i <= Len(s) THEN s[i] ELSE t[i - Len(s)]
  BY ConcatProperties
<1>2. SubSeq(c, 1, Len(s)) = SubSeq(s, 1, Len(s))
  BY <1>1, SliceOfConcat
<1> HIDE DEF c
<1>3. IsPrefix(s, c)
  BY <1>1, <1>2 DEF IsPrefix
<1> DEFINE rt == Reverse(t)
           rc == Reverse(c)
<1>4. /\ rt \in Seq(S) /\ Len(rt) = Len(t)
      /\ \A i \in 1..Len(t) : rt[i] = t[Len(t) - i + 1]
  BY ReverseFacts
<1>5. /\ rc \in Seq(S) /\ Len(rc) = Len(c)
      /\ \A i \in 1..Len(c) : rc[i] = c[Len(c) - i + 1]
  BY <1>1, ReverseFacts
<1> HIDE DEF rt, rc
<1>6. \A i \in 1..Len(t) : rc[i] = rt[i]
  <2> TAKE i \in 1..Len(t)
  <2>1. /\ i \in 1..Len(c) /\ Len(c) - i + 1 \in 1..(Len(s) + Len(t))
        /\ ~(Len(c) - i + 1 <= Len(s)) /\ Len(c) - i + 1 - Len(s) = Len(t) - i + 1
    BY <1>1
  <2>2. c[Len(c) - i + 1] = t[Len(t) - i + 1]
    BY <1>1, <2>1
  <2> QED
    BY <1>4, <1>5, <2>1, <2>2
<1>7. SubSeq(rt, 1, Len(t)) = SubSeq(rc, 1, Len(t))
  <2>1. Len(t) <= Len(c) /\ Len(c) \in Nat
    BY <1>1
  <2> DEFINE x == SubSeq(rt, 1, Len(t))
             y == SubSeq(rc, 1, Len(t))
  <2>2. /\ \A i \in 1..Len(t) : rt[i] \in S
        /\ \A i \in 1..Len(t) : rc[i] \in S
    BY <1>4, <1>5, <2>1, ElementOfSeq
  <2>3. /\ x \in Seq(S) /\ Len(x) = Len(t) /\ \A i \in 1..Len(t) : x[i] = rt[i]
        /\ y \in Seq(S) /\ Len(y) = Len(t) /\ \A i \in 1..Len(t) : y[i] = rc[i]
    BY <1>1, <2>2, SubSeqProperties
  <2> HIDE DEF x, y
  <2>4. x = y
    BY <1>6, <2>3, SeqEqual
  <2> QED
    BY <2>4 DEF x, y
<1>8. IsPrefix(rt, rc)
  BY <1>1, <1>4, <1>5, <1>7 DEF IsPrefix
<1> QED
  BY <1>3, <1>8 DEF IsSuffix, rt, rc, c

-----------------------------------------------------------------------------
(* What the shared parts of the actions do to the operations that are      *)
(* outstanding.                                                            *)

(* There are five kinds of operations.                                     *)
LEMMA OpsFinite == \A A \in SUBSET Ops : IsFiniteSet(A)
<1>1. IsFiniteSet({"connect"} \cup {"recv"} \cup {"send"} \cup {"resolve"} \cup {"timer"})
  BY FS_Singleton, FS_Union
<1>2. Ops = {"connect"} \cup {"recv"} \cup {"send"} \cup {"resolve"} \cup {"timer"}
  BY DEF Ops, SocketOps
<1> QED
  BY <1>1, <1>2, FS_Subset

(* The handlers that are put into the queue.                               *)
LEMMA HandlerTypes ==
  /\ \A op \in Ops \cup {"receiveIn", "closeIn"}, ec \in Codes :
       Done(op, ec) \in Good /\ Done(op, ec).op = op /\ Done(op, ec).ec = ec
  /\ \A op \in {"recv", "send"}, n \in Nat :
       /\ Transferred(op, n) \in Good /\ Transferred(op, n).op = op
       /\ Transferred(op, n).ec = "ok" /\ Transferred(op, n).msg = n
  /\ \A op \in {"sending", "sendIn"}, m \in Ids :
       /\ Carrying(op, m) \in Good /\ Carrying(op, m).op = op
<1>1. Ids \subseteq Nat
  BY SizesAssumption DEF Ids
<1> QED
  BY <1>1 DEF Done, Transferred, Carrying, Good, Handlers, Ops, SocketOps, Codes

(* Whether a handler is that of a finished transfer.                       *)
LEMMA TransfersOfOne ==
  ASSUME NEW h
  PROVE  /\ h.op \in {"recv", "send"} /\ h.ec = "ok" => Transfers(<<h>>) = {h}
         /\ h.op \notin {"recv", "send"} \/ h.ec # "ok" => Transfers(<<h>>) = {}
<1>1. ToSet(<<h>>) = {h}
  BY DEF ToSet
<1> QED
  BY <1>1 DEF Transfers

(* The finished transfers in a queue from which the first handler is       *)
(* taken, and to which handlers are added.                                 *)
LEMMA TransfersOfTail ==
  ASSUME NEW q \in Seq(Good), q # <<>>
  PROVE  Transfers(q) = Transfers(Tail(q)) \cup Transfers(<<Head(q)>>)
<1>1. ToSet(q) = {Head(q)} \cup ToSet(Tail(q))
  BY FrontFacts
<1>2. ToSet(<<Head(q)>>) = {Head(q)}
  BY DEF ToSet
<1> QED
  BY <1>1, <1>2 DEF Transfers

LEMMA TransfersOfAppend ==
  ASSUME NEW q \in Seq(Good), NEW h \in Good
  PROVE  Transfers(Append(q, h)) = Transfers(q) \cup Transfers(<<h>>)
<1>1. ToSet(Append(q, h)) = ToSet(q) \cup {h}
  BY BackFacts
<1>2. ToSet(<<h>>) = {h}
  BY DEF ToSet
<1> QED
  BY <1>1, <1>2 DEF Transfers

LEMMA TransfersOfConcat ==
  ASSUME NEW q \in Seq(Good), NEW a \in Seq(Good)
  PROVE  Transfers(q \o a) = Transfers(q) \cup Transfers(a)
<1>1. ToSet(q \o a) = ToSet(q) \cup ToSet(a)
  BY JoinFacts
<1> QED
  BY <1>1 DEF Transfers

(* The handler of op is taken from the queue.                              *)
LEMMA Taking ==
  ASSUME Shape, NEW op, NEW ecs, Takes(op, ecs)
  PROVE  /\ io = "running" /\ ready # <<>>
         /\ Head(ready) \in Good /\ Head(ready).op = op /\ Head(ready).ec \in ecs
         /\ Tail(ready) \in Seq(Good)
         /\ Transfers(ready) = Transfers(Tail(ready)) \cup Transfers(<<Head(ready)>>)
         /\ op \notin {"recv", "send"} \/ "ok" \notin ecs
              => Transfers(Tail(ready)) = Transfers(ready)
         /\ \A S :
              /\ Awaits(S) <=> Outstanding(pending, Tail(ready), S) \/ op \in S
              /\ AtMostOne(pending, ready, S) => AtMostOne(pending, Tail(ready), S)
              /\ AtMostOne(pending, ready, S) /\ op \in S
                   => ~Outstanding(pending, Tail(ready), S)
<1>1. /\ ready \in Seq(Good) /\ ready # <<>> /\ io = "running"
      /\ Head(ready).op = op /\ Head(ready).ec \in ecs
  BY DEF Shape, Takes
<1>2. Head(ready) \in Good /\ Tail(ready) \in Seq(Good)
  BY <1>1, FrontFacts
<1>3. ASSUME NEW S
      PROVE  /\ Awaits(S) <=> Outstanding(pending, Tail(ready), S) \/ op \in S
             /\ AtMostOne(pending, ready, S) => AtMostOne(pending, Tail(ready), S)
             /\ AtMostOne(pending, ready, S) /\ op \in S
                  => ~Outstanding(pending, Tail(ready), S)
  BY <1>1, TakeFacts DEF Awaits
<1>4. Transfers(ready) = Transfers(Tail(ready)) \cup Transfers(<<Head(ready)>>)
  BY <1>1, TransfersOfTail
<1>5. op \notin {"recv", "send"} \/ "ok" \notin ecs
        => Transfers(<<Head(ready)>>) = {}
  BY <1>1, TransfersOfOne
<1> QED
  BY <1>1, <1>2, <1>3, <1>4, <1>5

(* A handler is posted.                                                    *)
LEMMA Posting ==
  ASSUME NEW q \in Seq(Good), NEW h \in Good
  PROVE  /\ Append(q, h) \in Seq(Good)
         /\ Transfers(Append(q, h)) = Transfers(q) \cup Transfers(<<h>>)
         /\ h.op \notin {"recv", "send"} => Transfers(Append(q, h)) = Transfers(q)
         /\ \A p, S :
              /\ Outstanding(p, Append(q, h), S) <=> Outstanding(p, q, S) \/ h.op \in S
              /\ AtMostOne(p, q, S) /\ ~(h.op \in S /\ Outstanding(p, q, S))
                   => AtMostOne(p, Append(q, h), S)
<1>1. ASSUME NEW p, NEW S
      PROVE  /\ Append(q, h) \in Seq(Good)
             /\ Outstanding(p, Append(q, h), S) <=> Outstanding(p, q, S) \/ h.op \in S
             /\ AtMostOne(p, q, S) /\ ~(h.op \in S /\ Outstanding(p, q, S))
                  => AtMostOne(p, Append(q, h), S)
  BY EnqueueFacts
<1>2. Transfers(Append(q, h)) = Transfers(q) \cup Transfers(<<h>>)
  BY TransfersOfAppend
<1>3. h.op \notin {"recv", "send"} => Transfers(<<h>>) = {}
  BY TransfersOfOne
<1> QED
  BY <1>1, <1>2, <1>3

(* cancel() aborts what is pending on the socket.                          *)
LEMMA Cancelling ==
  ASSUME Shape, NEW q \in Seq(Good), Cancel(q)
  PROVE  /\ ready' \in Seq(Good) /\ pending' \subseteq Ops
         /\ pending' \subseteq pending /\ "send" \notin pending'
         /\ Transfers(ready') = Transfers(q)
         /\ \A S : /\ Awaits(S)' <=> Outstanding(pending, q, S)
                   /\ AtMostOne(pending, q, S) => AtMostOne(pending, ready, S)'
<1> DEFINE A == pending \cap SocketOps
<1>1. /\ pending \subseteq Ops /\ pending' = pending \ A /\ "send" \notin pending'
      /\ A \in SUBSET pending /\ A \subseteq Ops
  BY DEF Shape, Cancel, SocketOps
<1>2. PICK a \in Aborts(A) : ready' = q \o a
  BY DEF Cancel
<1> HIDE DEF A
<1>3. IsFiniteSet(A) /\ \A op \in A : Done(op, "aborted") \in Good
  BY <1>1, OpsFinite, HandlerTypes DEF Codes
<1>4. ASSUME NEW S
      PROVE  /\ q \o a \in Seq(Good)
             /\ Outstanding(pending \ A, q \o a, S) <=> Outstanding(pending, q, S)
             /\ AtMostOne(pending, q, S) => AtMostOne(pending \ A, q \o a, S)
  BY <1>1, <1>3, AbortFacts
<1>5. a \in Seq(Good)
  BY <1>3, AbortsFacts
<1>6. Transfers(a) = {}
  <2>1. \A h \in ToSet(a) : h.ec = "aborted"
    BY AbortedMembers DEF Done
  <2> QED
    BY <2>1 DEF Transfers
<1>7. Transfers(q \o a) = Transfers(q)
  <2>1. Transfers(q \o a) = Transfers(q) \cup Transfers(a)
    BY <1>5, TransfersOfConcat
  <2> QED
    BY <1>6, <2>1
<1> QED
  BY <1>1, <1>2, <1>4, <1>7 DEF Awaits

(* The operating system finishes a pending operation.                      *)
LEMMA Finishing ==
  ASSUME Shape, NEW op \in pending, NEW h \in Good, h.op = op, Finish(op, h)
  PROVE  /\ ready' \in Seq(Good) /\ pending' \subseteq Ops
         /\ pending' \subseteq pending /\ op \notin pending'
         /\ Transfers(ready') = Transfers(ready) \cup Transfers(<<h>>)
         /\ h.ec # "ok" \/ op \notin {"recv", "send"}
              => Transfers(ready') = Transfers(ready)
         /\ \A S : /\ Awaits(S)' <=> Awaits(S)
                   /\ AtMostOne(pending, ready, S) => AtMostOne(pending, ready, S)'
<1>1. /\ ready' = Append(ready, h) /\ pending' = pending \ {op}
      /\ ready \in Seq(Good) /\ pending \subseteq Ops
  BY DEF Finish, Shape
<1>2. ASSUME NEW S
      PROVE  /\ Append(ready, h) \in Seq(Good)
             /\ Queued(Append(ready, h), S) <=> Queued(ready, S) \/ op \in S
             /\ Single(ready, S) /\ (op \notin S \/ ~Queued(ready, S))
                  => Single(Append(ready, h), S)
  BY <1>1, AppendFacts
<1>3. ASSUME NEW S
      PROVE  Awaits(S)' <=> Awaits(S)
  BY <1>1, <1>2 DEF Awaits, Outstanding
<1>4. ASSUME NEW S, AtMostOne(pending, ready, S)
      PROVE  AtMostOne(pending, ready, S)'
  BY <1>1, <1>2, <1>4 DEF AtMostOne
<1>5. /\ Transfers(Append(ready, h)) = Transfers(ready) \cup Transfers(<<h>>)
      /\ h.ec # "ok" \/ op \notin {"recv", "send"} => Transfers(<<h>>) = {}
  BY <1>1, TransfersOfAppend, TransfersOfOne
<1> QED
  BY <1>1, <1>2, <1>3, <1>4, <1>5

(* The handlers that a failed connect leaves to the old connection.        *)
LEMMA Orphaning ==
  ASSUME NEW q \in Seq(Good), NEW S, S \cap {"sendIn", "closeIn", "orphan"} = {}
  PROVE  /\ Orphaned(q) \in Seq(Good)
         /\ Queued(Orphaned(q), S) <=> Queued(q, S)
         /\ Single(q, S) => Single(Orphaned(q), S)
         /\ Transfers(Orphaned(q)) \subseteq Transfers(q)
<1> DEFINE r == Orphaned(q)
<1>1. /\ DOMAIN r = DOMAIN q
      /\ \A i \in DOMAIN q :
           r[i] = IF q[i].op \in {"sendIn", "closeIn"} THEN [q[i] EXCEPT !.op = "orphan"]
                  ELSE q[i]
  BY DEF Orphaned
<1>2. DOMAIN q = 1..Len(q) /\ Len(q) \in Nat /\ \A i \in DOMAIN q : q[i] \in Good
  OBVIOUS
<1>3. ASSUME NEW i \in DOMAIN q
      PROVE  /\ r[i] \in Good
             /\ r[i].op \in S <=> q[i].op \in S
             /\ r[i] = q[i] \/ r[i].op = "orphan"
  <2>1. CASE q[i].op \in {"sendIn", "closeIn"}
    BY <1>1, <1>2, <2>1 DEF Good, Handlers
  <2>2. CASE q[i].op \notin {"sendIn", "closeIn"}
    BY <1>1, <1>2, <2>2
  <2> QED
    BY <2>1, <2>2
<1>4. r \in Seq(Good)
  <2>1. r = [i \in DOMAIN q |-> r[i]]
    BY DEF Orphaned
  <2> HIDE DEF r
  <2>2. \A i \in DOMAIN q : r[i] \in Good
    BY <1>3
  <2>3. r \in [DOMAIN q -> Good]
    BY <2>1, <2>2
  <2> QED
    BY <1>2, <2>3
<1> HIDE DEF r
<1>5. Queued(r, S) <=> Queued(q, S)
  BY <1>1, <1>3 DEF Queued
<1>6. Single(q, S) => Single(r, S)
  BY <1>1, <1>3 DEF Single
<1>7. Transfers(r) \subseteq Transfers(q)
  <2> SUFFICES ASSUME NEW h \in Transfers(r)
               PROVE  h \in Transfers(q)
    OBVIOUS
  <2>1. h \in ToSet(r) /\ h.op # "orphan" /\ h.op \in {"recv", "send"} /\ h.ec = "ok"
    BY DEF Transfers
  <2>2. PICK i \in DOMAIN r : h = r[i]
    BY <2>1 DEF ToSet
  <2>3. i \in DOMAIN q /\ h = q[i]
    BY <1>1, <1>3, <2>1, <2>2
  <2> QED
    BY <2>1, <2>3 DEF Transfers, ToSet
<1> QED
  BY <1>4, <1>5, <1>6, <1>7 DEF r

(* What is outstanding of a part of the chain is outstanding of the chain. *)
LEMMA InChain ==
  \A p, q : Outstanding(p, q, Connecting) => Outstanding(p, q, Chain)
BY DEF Outstanding, Queued, Chain

-----------------------------------------------------------------------------
(* The operations that are outstanding.                                    *)

(* A step that starts neither a write nor a chain.                         *)
Aside ==
  /\ ready' \in Seq(Good) /\ pending' \subseteq Ops
  /\ AtMostOne(pending, ready, Chain)' /\ AtMostOne(pending, ready, {"send"})'
  /\ Awaits({"send"})' => Awaits({"send"})
  /\ Awaits(Connecting)' => Awaits(Connecting)
  /\ sending_' = sending_
  /\ state_' = state_ \/ state_' = "DISCONNECTED"
  /\ caller' # "new" \/ UNCHANGED <<caller, pending, ready, state_>>

(* A step that finishes no transfer and handles none.                      *)
Quietly ==
  /\ Transfers(ready') = Transfers(ready)
  /\ "send" \in pending' => "send" \in pending
  /\ UNCHANGED <<buf_in_, buf_out_, writing, given, wire>>

(* Such a step keeps the chain and the write.                              *)
LEMMA AsideStep ==
  ASSUME OneChain, OneWrite, Aside
  PROVE  OneChain' /\ OneWrite'
<1>1. AtMostOne(pending, ready, Chain)' /\ AtMostOne(pending, ready, {"send"})'
  BY DEF Aside
<1>2. caller' = "new" => pending' = {} /\ ready' = <<>> /\ state_' = "CONNECTING"
  BY DEF Aside, OneChain
<1>3. Awaits({"send"})' => sending_'
  BY Zenon DEF Aside, OneWrite
<1>4. Awaits(Connecting)' => ~Awaits({"send"})' /\ state_' # "CONNECTED"
  BY DEF Aside, OneWrite
<1> QED
  BY <1>1, <1>2, <1>3, <1>4 DEF OneChain, OneWrite

(* What the cases of the next lemma have in common.                        *)
Calm ==
  /\ sending_' = sending_
  /\ state_' = state_ \/ state_' = "DISCONNECTED"
  /\ caller' = caller

(* A handler is taken, which may start an operation of the same chain.     *)
LEMMA TakeAside ==
  ASSUME Shape, OneChain, OneWrite, Calm, NEW op, NEW ecs, Takes(op, ecs),
         ready' = Tail(ready),
         pending' = pending \/
           \E new \in Ops \cap Chain :
             /\ pending' = pending \cup {new}
             /\ op \in Chain
             /\ new \in Connecting => op \in Connecting
  PROVE  Aside
<1>1. /\ ready # <<>> /\ Tail(ready) \in Seq(Good)
      /\ \A S :
           /\ Awaits(S) <=> Outstanding(pending, Tail(ready), S) \/ op \in S
           /\ AtMostOne(pending, ready, S) => AtMostOne(pending, Tail(ready), S)
           /\ AtMostOne(pending, ready, S) /\ op \in S
                => ~Outstanding(pending, Tail(ready), S)
  BY Taking
<1>2. /\ AtMostOne(pending, ready, Chain) /\ AtMostOne(pending, ready, {"send"})
      /\ caller # "new" /\ pending \subseteq Ops
  BY <1>1 DEF OneChain, OneWrite, Shape
<1>3. CASE pending' = pending
  BY <1>1, <1>2, <1>3 DEF Aside, Calm, Awaits
<1>4. ASSUME NEW new \in Ops \cap Chain, pending' = pending \cup {new},
             op \in Chain, new \in Connecting => op \in Connecting
      PROVE  Aside
  <2>1. \A S : /\ Outstanding(pending \cup {new}, Tail(ready), S)
                    <=> Outstanding(pending, Tail(ready), S) \/ new \in S
               /\ AtMostOne(pending, Tail(ready), S)
                    /\ ~(new \in S /\ Outstanding(pending, Tail(ready), S))
                    => AtMostOne(pending \cup {new}, Tail(ready), S)
    BY AddFacts
  <2>2. new # "send" /\ pending' \subseteq Ops
    BY <1>2, <1>4 DEF Chain, Connecting
  <2>3. /\ AtMostOne(pending, ready, Chain)' /\ AtMostOne(pending, ready, {"send"})'
    BY <1>1, <1>2, <1>4, <2>1, <2>2
  <2>4. /\ Awaits({"send"})' => Awaits({"send"})
        /\ Awaits(Connecting)' => Awaits(Connecting)
    BY <1>1, <1>4, <2>1, <2>2 DEF Awaits
  <2> QED
    BY <1>1, <1>2, <2>2, <2>3, <2>4 DEF Aside, Calm
<1> QED
  BY <1>3, <1>4

(* A handler is posted that belongs to no chain.                           *)
LEMMA PostAside ==
  ASSUME Shape, OneChain, OneWrite, NEW h \in Good, h.op \notin Chain \cup {"send"},
         ready' = Append(ready, h), pending' = pending,
         sending_' = sending_, state_' = state_, caller' # "new"
  PROVE  Aside /\ Transfers(ready') = Transfers(ready)
<1>1. /\ AtMostOne(pending, ready, Chain) /\ AtMostOne(pending, ready, {"send"})
      /\ ready \in Seq(Good) /\ pending \subseteq Ops
  BY DEF OneChain, OneWrite, Shape
<1>2. /\ Append(ready, h) \in Seq(Good)
      /\ h.op \notin {"recv", "send"} => Transfers(Append(ready, h)) = Transfers(ready)
      /\ \A S :
           /\ Outstanding(pending, Append(ready, h), S) <=> Awaits(S) \/ h.op \in S
           /\ AtMostOne(pending, ready, S) /\ ~(h.op \in S /\ Awaits(S))
                => AtMostOne(pending, Append(ready, h), S)
  BY <1>1, Posting DEF Awaits
<1>3. h.op \notin {"recv", "send"} /\ h.op \notin Connecting
  BY DEF Chain
<1> QED
  BY <1>1, <1>2, <1>3 DEF Aside, Awaits

(* A handler is taken that cancels the operations on the socket.           *)
LEMMA CancelAside ==
  ASSUME Shape, OneChain, OneWrite, Calm, NEW op, NEW ecs, Takes(op, ecs),
         Cancel(Tail(ready))
  PROVE  /\ Aside
         /\ Transfers(ready') = Transfers(Tail(ready))
         /\ "send" \in pending' => "send" \in pending
<1>1. /\ ready # <<>> /\ Tail(ready) \in Seq(Good)
      /\ \A S :
           /\ Awaits(S) <=> Outstanding(pending, Tail(ready), S) \/ op \in S
           /\ AtMostOne(pending, ready, S) => AtMostOne(pending, Tail(ready), S)
  BY Taking
<1>2. /\ AtMostOne(pending, ready, Chain) /\ AtMostOne(pending, ready, {"send"})
      /\ caller # "new"
  BY <1>1 DEF OneChain, OneWrite
<1>3. /\ ready' \in Seq(Good) /\ pending' \subseteq Ops /\ pending' \subseteq pending
      /\ Transfers(ready') = Transfers(Tail(ready))
      /\ \A S : /\ Awaits(S)' <=> Outstanding(pending, Tail(ready), S)
                /\ AtMostOne(pending, Tail(ready), S) => AtMostOne(pending, ready, S)'
  BY <1>1, Cancelling
<1> QED
  BY <1>1, <1>2, <1>3 DEF Aside, Calm

(* The operating system finishes an operation.                             *)
LEMMA FinishAside ==
  ASSUME Shape, OneChain, OneWrite, Calm, NEW op \in pending, NEW h \in Good, h.op = op,
         Finish(op, h)
  PROVE  /\ Aside
         /\ Transfers(ready') = Transfers(ready) \cup Transfers(<<h>>)
         /\ h.ec # "ok" \/ op \notin {"recv", "send"}
              => Transfers(ready') = Transfers(ready)
         /\ "send" \in pending' => "send" \in pending
<1>1. /\ AtMostOne(pending, ready, Chain) /\ AtMostOne(pending, ready, {"send"})
      /\ caller # "new"
  BY DEF OneChain, OneWrite
<1>2. /\ ready' \in Seq(Good) /\ pending' \subseteq Ops
      /\ pending' \subseteq pending /\ op \notin pending'
      /\ Transfers(ready') = Transfers(ready) \cup Transfers(<<h>>)
      /\ h.ec # "ok" \/ op \notin {"recv", "send"}
           => Transfers(ready') = Transfers(ready)
      /\ \A S : /\ Awaits(S)' <=> Awaits(S)
                /\ AtMostOne(pending, ready, S) => AtMostOne(pending, ready, S)'
  BY Finishing
<1> QED
  BY <1>1, <1>2 DEF Aside, Calm

(* The steps that start a write or a chain, and those that transfer.       *)
Starts ==
  \/ connect \/ handleConnect \/ ConnectFailed
  \/ (sendInService \/ handleSendOk) /\ UNCHANGED client
Moves == (handleReceiveOk \/ OsReadData \/ OsWriteDone) /\ UNCHANGED client

(* Every other step is quiet.                                              *)
LEMMA Steps ==
  ASSUME Shape, OneChain, OneWrite, [Next]_vars
  PROVE  (Aside /\ Quietly) \/ (Aside /\ Moves) \/ Starts
<1>1. CASE sendMessage
  <2>1. /\ Carrying("sending", posted + 1) \in Good
        /\ Carrying("sending", posted + 1).op \notin Chain \cup {"send"}
    <3>1. posted + 1 \in Ids
      BY <1>1, SizesAssumption DEF sendMessage, Shape, Ids
    <3> QED
      BY <3>1, HandlerTypes DEF Chain, Connecting
  <2>2. /\ ready' = Append(ready, Carrying("sending", posted + 1)) /\ pending' = pending
        /\ caller' # "new" /\ UNCHANGED connection
    BY <1>1 DEF sendMessage
  <2> QED
    BY <2>1, <2>2, PostAside DEF Quietly, connection
<1>2. CASE CloseForces
  <2>1. /\ Done("closeIn", "ok") \in Good
        /\ Done("closeIn", "ok").op \notin Chain \cup {"send"}
    BY HandlerTypes DEF Chain, Connecting, Codes
  <2>2. /\ ready' = Append(ready, Done("closeIn", "ok")) /\ pending' = pending
        /\ caller' # "new" /\ UNCHANGED connection
    BY <1>2 DEF CloseForces
  <2> QED
    BY <2>1, <2>2, PostAside DEF Quietly, connection
<1>3. CASE CloseDisarms \/ RunReturns \/ (OsBreaks /\ UNCHANGED client) \/ UNCHANGED vars
  <2>1. /\ UNCHANGED <<pending, ready, sending_, state_, buf_in_, buf_out_, writing,
                       given, wire>>
        /\ caller' # "new" \/ caller' = caller
    BY <1>3 DEF CloseDisarms, RunReturns, OsBreaks, vars, client, connection
  <2>2. AtMostOne(pending, ready, Chain)' /\ AtMostOne(pending, ready, {"send"})'
    BY <2>1 DEF OneChain, OneWrite
  <2>3. \A S : Awaits(S)' <=> Awaits(S)
    BY <2>1 DEF Awaits
  <2>4. ready' \in Seq(Good) /\ pending' \subseteq Ops
    BY <2>1 DEF Shape
  <2>5. Aside
    BY <2>1, <2>2, <2>3, <2>4 DEF Aside
  <2> QED
    BY <2>1, <2>5 DEF Quietly
<1>4. CASE handleSending
  <2>1. /\ Takes("sending", {"ok"}) /\ pending' = pending
        /\ ready' = Append(Tail(ready), Carrying("sendIn", Head(ready).msg))
        /\ UNCHANGED <<connection, client>>
    BY <1>4 DEF handleSending
  <2> DEFINE h == Carrying("sendIn", Head(ready).msg)
  <2>2. /\ ready # <<>> /\ Head(ready) \in Good /\ Head(ready).op = "sending"
        /\ Tail(ready) \in Seq(Good) /\ Transfers(Tail(ready)) = Transfers(ready)
        /\ \A S :
             /\ Awaits(S) <=> Outstanding(pending, Tail(ready), S) \/ "sending" \in S
             /\ AtMostOne(pending, ready, S) => AtMostOne(pending, Tail(ready), S)
    BY <2>1, Taking
  <2>3. h \in Good /\ h.op = "sendIn"
    BY <2>2, HandlerTypes DEF Good
  <2> HIDE DEF h
  <2>4. /\ Append(Tail(ready), h) \in Seq(Good)
        /\ Transfers(Append(Tail(ready), h)) = Transfers(Tail(ready))
        /\ \A S :
             /\ Outstanding(pending, Append(Tail(ready), h), S)
                  <=> Outstanding(pending, Tail(ready), S) \/ h.op \in S
             /\ AtMostOne(pending, Tail(ready), S)
                  /\ ~(h.op \in S /\ Outstanding(pending, Tail(ready), S))
                  => AtMostOne(pending, Append(Tail(ready), h), S)
    BY <2>2, <2>3, Posting
  <2>5. h.op \notin Chain /\ h.op \notin Connecting /\ h.op \notin {"send"}
    BY <2>3 DEF Chain, Connecting
  <2>6. /\ AtMostOne(pending, ready, Chain) /\ AtMostOne(pending, ready, {"send"})
        /\ caller # "new" /\ pending \subseteq Ops
    BY <2>2 DEF OneChain, OneWrite, Shape
  <2>7. ready' = Append(Tail(ready), h)
    BY <2>1 DEF h
  <2>8. AtMostOne(pending, ready, Chain)' /\ AtMostOne(pending, ready, {"send"})'
    BY <2>1, <2>2, <2>4, <2>5, <2>6, <2>7
  <2>9. /\ Awaits({"send"})' => Awaits({"send"})
        /\ Awaits(Connecting)' => Awaits(Connecting)
    BY <2>1, <2>2, <2>4, <2>5, <2>7 DEF Awaits
  <2>10. Aside
    BY <2>1, <2>4, <2>6, <2>7, <2>8, <2>9 DEF Aside, connection, client
  <2> QED
    BY <2>1, <2>2, <2>4, <2>7, <2>10 DEF Quietly, connection
<1>5. CASE handleResolver
  <2>1. /\ Takes("resolve", {"ok"}) /\ ready' = Tail(ready)
        /\ pending' = pending \cup {"connect"} /\ Calm
        /\ UNCHANGED <<buf_in_, buf_out_, writing, given, wire>>
    BY <1>5 DEF handleResolver, client, Calm
  <2>2. "connect" \in Ops \cap Chain /\ "resolve" \in Connecting /\ "resolve" \in Chain
    BY DEF Ops, SocketOps, Chain, Connecting
  <2>3. Aside
    BY <2>1, <2>2, TakeAside
  <2>4. Transfers(Tail(ready)) = Transfers(ready)
    BY <2>1, Taking
  <2> QED
    BY <2>1, <2>3, <2>4 DEF Quietly
<1>6. CASE handleTimer
  <2>1. /\ Takes("timer", {"ok"}) /\ ready' = Tail(ready)
        /\ pending' = pending \cup {"resolve"} /\ Calm
        /\ UNCHANGED <<buf_in_, buf_out_, writing, given, wire>>
    BY <1>6 DEF handleTimer, client, connection, Calm
  <2>2. "resolve" \in Ops \cap Chain /\ "timer" \in Connecting /\ "timer" \in Chain
    BY DEF Ops, Chain, Connecting
  <2>3. Aside
    BY <2>1, <2>2, TakeAside
  <2>4. Transfers(Tail(ready)) = Transfers(ready)
    BY <2>1, Taking
  <2> QED
    BY <2>1, <2>3, <2>4 DEF Quietly
<1>7. CASE receiveInService /\ UNCHANGED client
  <2>1. /\ Takes("receiveIn", {"ok"}) /\ ready' = Tail(ready)
        /\ pending' = pending \cup {"recv"} /\ Calm
        /\ UNCHANGED <<buf_in_, buf_out_, writing, given, wire>>
    BY <1>7 DEF receiveInService, client, connection, Calm
  <2>2. "recv" \in Ops \cap Chain /\ "receiveIn" \in Chain /\ "recv" \notin Connecting
    BY DEF Ops, SocketOps, Chain, Connecting
  <2>3. Aside
    BY <2>1, <2>2, TakeAside
  <2>4. Transfers(Tail(ready)) = Transfers(ready)
    BY <2>1, Taking
  <2> QED
    BY <2>1, <2>3, <2>4 DEF Quietly
<1>8. CASE \/ ResolveFailed \/ Orphan
           \/ /\ handleReceiveEof \/ sendInServiceUnsafe \/ closeInServiceThrows
              /\ UNCHANGED client
  <2>1. PICK op, ecs : /\ Takes(op, ecs)
                       /\ op \notin {"recv", "send"} \/ "ok" \notin ecs
    <3>1. \/ Takes("resolve", {"failed"}) \/ Takes("orphan", {"ok"})
          \/ Takes("recv", {"eof"}) \/ Takes("sendIn", {"ok"}) \/ Takes("closeIn", {"ok"})
      BY <1>8 DEF ResolveFailed, Orphan, handleReceiveEof, sendInServiceUnsafe,
         closeInServiceThrows
    <3>2. /\ "ok" \notin {"eof"} /\ \A op \in {"resolve", "orphan", "sendIn", "closeIn"} :
                                   op \notin {"recv", "send"}
      OBVIOUS
    <3> QED
      BY <3>1, <3>2, Zenon
  <2>2. /\ ready' = Tail(ready) /\ pending' = pending /\ Calm
        /\ UNCHANGED <<buf_in_, buf_out_, writing, given, wire>>
    BY <1>8 DEF ResolveFailed, Orphan, handleReceiveEof, sendInServiceUnsafe,
       closeInServiceThrows, client, connection, Calm
  <2>3. Aside
    BY <2>1, <2>2, TakeAside
  <2>4. Transfers(Tail(ready)) = Transfers(ready)
    BY <2>1, Taking
  <2> QED
    BY <2>2, <2>3, <2>4 DEF Quietly
<1>9. CASE Close \/ (HandleError /\ UNCHANGED client)
  <2>1. PICK op, ecs : /\ Takes(op, ecs)
                       /\ op \notin {"recv", "send"} \/ "ok" \notin ecs
    <3>1. \/ Takes("closeIn", {"ok"}) \/ Takes("recv", {"failed", "aborted"})
          \/ Takes("send", {"failed", "aborted"})
      BY <1>9 DEF Close, closeInService, HandleError
    <3>2. "closeIn" \notin {"recv", "send"} /\ "ok" \notin {"failed", "aborted"}
      OBVIOUS
    <3> QED
      BY <3>1, <3>2, Zenon
  <2>2. /\ Cancel(Tail(ready)) /\ Calm
        /\ UNCHANGED <<buf_in_, buf_out_, writing, given, wire>>
    BY <1>9 DEF Close, closeInService, HandleError, client, Calm
  <2>3. /\ Aside /\ Transfers(ready') = Transfers(Tail(ready))
        /\ "send" \in pending' => "send" \in pending
    BY <2>1, <2>2, CancelAside
  <2>4. Transfers(Tail(ready)) = Transfers(ready)
    BY <2>1, Taking
  <2> QED
    BY <2>2, <2>3, <2>4 DEF Quietly
<1>10. CASE \/ OsResolve \/ OsConnect \/ OsTimer
            \/ (OsReadFails \/ OsWriteFails) /\ UNCHANGED client
  <2>1. PICK op \in pending, ec \in Codes :
          /\ Finish(op, Done(op, ec))
          /\ ec # "ok" \/ op \notin {"recv", "send"}
    BY <1>10 DEF OsResolve, OsConnect, OsTimer, OsReadFails, OsWriteFails, Codes
  <2>2. Calm /\ UNCHANGED <<buf_in_, buf_out_, writing, given, wire>>
    BY <1>10 DEF OsResolve, OsConnect, OsTimer, OsReadFails, OsWriteFails, client,
       connection, Calm
  <2>3. Done(op, ec) \in Good /\ Done(op, ec).op = op /\ Done(op, ec).ec = ec
    BY HandlerTypes DEF Shape
  <2>4. /\ Aside /\ Transfers(ready') = Transfers(ready)
        /\ "send" \in pending' => "send" \in pending
    BY <2>1, <2>2, <2>3, FinishAside
  <2> QED
    BY <2>2, <2>4 DEF Quietly
<1>11. CASE handleReceiveOk /\ UNCHANGED client
  <2>1. /\ Takes("recv", {"ok"}) /\ ready' = Tail(ready) /\ Calm
        /\ pending' = pending \/ pending' = pending \cup {"recv"}
    BY <1>11 DEF handleReceiveOk, connection, client, Calm
  <2>2. "recv" \in Ops \cap Chain /\ "recv" \notin Connecting
    BY DEF Ops, SocketOps, Chain, Connecting
  <2>3. Aside
    BY <2>1, <2>2, TakeAside
  <2> QED
    BY <1>11, <2>3 DEF Moves
<1>12. CASE OsReadData /\ UNCHANGED client
  <2>1. "recv" \in pending /\ Calm
    BY <1>12 DEF OsReadData, client, connection, Calm
  <2>2. PICK n \in Nat : Finish("recv", Transferred("recv", n))
    <3>1. PICK n \in 1..writableCount(buf_in_) :
            Finish("recv", Transferred("recv", n))
      BY <1>12 DEF OsReadData
    <3>2. writableCount(buf_in_) \in Nat \ {0}
      <4>1. /\ buf_in_.size \in Nat /\ buf_in_.write_index_ \in Nat
            /\ buf_in_.write_index_ < buf_in_.size
        BY DEF Shape, IsBuffer
      <4> QED
        BY <4>1 DEF writableCount
    <3>3. n \in Nat
      BY <3>2
    <3> QED
      BY <3>1, <3>3
  <2>3. Transferred("recv", n) \in Good /\ Transferred("recv", n).op = "recv"
    BY HandlerTypes
  <2>4. Aside
    BY <2>1, <2>2, <2>3, FinishAside
  <2> QED
    BY <1>12, <2>4 DEF Moves
<1>13. CASE OsWriteDone /\ UNCHANGED client
  <2>1. /\ "send" \in pending /\ Finish("send", Transferred("send", writing)) /\ Calm
    BY <1>13 DEF OsWriteDone, client, Calm
  <2>2. /\ Transferred("send", writing) \in Good /\ Transferred("send", writing).op = "send"
    BY HandlerTypes DEF Shape
  <2>3. Aside
    BY <2>1, <2>2, FinishAside
  <2> QED
    BY <1>13, <2>3 DEF Moves
<1>14. CASE \/ connect \/ handleConnect \/ ConnectFailed
            \/ (sendInService \/ handleSendOk) /\ UNCHANGED client
  BY <1>14 DEF Starts
<1> QED
  BY <1>1, <1>2, <1>3, <1>4, <1>5, <1>6, <1>7, <1>8, <1>9, <1>10, <1>11, <1>12, <1>13,
     <1>14
     DEF Next, closeClient, IoThread, Connection, OsEnds, OsMayDo

(* No write is under way beside a connect.                                 *)
LEMMA StartsStep ==
  ASSUME Shape, OneChain, OneWrite, Starts
  PROVE  /\ ready' \in Seq(Good) /\ pending' \subseteq Ops
         /\ OneChain' /\ OneWrite'
<1>1. /\ AtMostOne(pending, ready, Chain) /\ AtMostOne(pending, ready, {"send"})
      /\ pending \subseteq Ops
  BY DEF OneChain, OneWrite, Shape
<1>2. CASE connect
  <2>1. /\ pending' = {"resolve"} /\ ready' = <<>> /\ state_' = "CONNECTING"
        /\ caller' = "open"
    BY <1>2 DEF connect, connection, OneChain
  <2>2. \A S : AtMostOne({"resolve"}, <<>>, S)
    BY DEF AtMostOne, Queued, Single
  <2>3. ~Awaits({"send"})'
    BY <2>1 DEF Awaits, Outstanding, Queued
  <2> QED
    BY <2>1, <2>2, <2>3 DEF OneChain, OneWrite, Ops
<1>3. CASE handleConnect
  <2>1. /\ Takes("connect", {"ok"}) /\ pending' = pending /\ sending_' = sending_
        /\ caller' = caller
        /\ ready' = Tail(ready) \/ ready' = Append(Tail(ready), Done("receiveIn", "ok"))
    BY <1>3 DEF handleConnect, startReceive, client
  <2> DEFINE h == Done("receiveIn", "ok")
  <2>2. h \in Good /\ h.op = "receiveIn"
    BY HandlerTypes DEF Codes
  <2>3. "connect" \in Chain /\ "receiveIn" \notin Connecting /\ "receiveIn" \notin {"send"}
    BY DEF Chain, Connecting
  <2>4. /\ ready # <<>> /\ Tail(ready) \in Seq(Good)
        /\ ~Outstanding(pending, Tail(ready), Chain)
        /\ AtMostOne(pending, Tail(ready), Chain)
        /\ AtMostOne(pending, Tail(ready), {"send"})
        /\ Awaits({"send"}) <=> Outstanding(pending, Tail(ready), {"send"})
    BY <1>1, <2>1, <2>3, Taking
  <2>5. ~Outstanding(pending, Tail(ready), Connecting)
    BY <2>4, InChain
  <2> HIDE DEF h
  <2>6. /\ Append(Tail(ready), h) \in Seq(Good)
        /\ \A S :
             /\ Outstanding(pending, Append(Tail(ready), h), S)
                  <=> Outstanding(pending, Tail(ready), S) \/ h.op \in S
             /\ AtMostOne(pending, Tail(ready), S)
                  /\ ~(h.op \in S /\ Outstanding(pending, Tail(ready), S))
                  => AtMostOne(pending, Append(Tail(ready), h), S)
    BY <2>2, <2>4, Posting
  <2>7. ready' = Tail(ready) \/ ready' = Append(Tail(ready), h)
    BY <2>1 DEF h
  <2>8. /\ ready' \in Seq(Good)
        /\ AtMostOne(pending, ready, Chain)' /\ AtMostOne(pending, ready, {"send"})'
        /\ ~Awaits(Connecting)'
        /\ Awaits({"send"})' <=> Awaits({"send"})
    BY <2>1, <2>2, <2>3, <2>4, <2>5, <2>6, <2>7 DEF Awaits
  <2>9. caller' # "new"
    BY <2>1, <2>4 DEF OneChain
  <2>10. Awaits({"send"})' => sending_'
    BY <2>1, <2>8, Zenon DEF OneWrite
  <2> QED
    BY <1>1, <2>1, <2>8, <2>9, <2>10 DEF OneChain, OneWrite
<1>4. CASE ConnectFailed
  <2>1. /\ Takes("connect", {"failed", "aborted"}) /\ ready' = Orphaned(Tail(ready))
        /\ pending' = pending \/ pending' = pending \cup {"timer"}
        /\ caller' = caller /\ state_' = "CONNECTING"
    BY <1>4 DEF ConnectFailed, Fresh, client
  <2>2. "connect" \in Chain /\ "connect" \in Connecting /\ "timer" \notin {"send"}
    BY DEF Chain, Connecting
  <2>3. /\ ready # <<>> /\ Tail(ready) \in Seq(Good)
        /\ ~Outstanding(pending, Tail(ready), Chain)
        /\ AtMostOne(pending, Tail(ready), Chain)
        /\ AtMostOne(pending, Tail(ready), {"send"})
        /\ Awaits(Connecting)
        /\ Awaits({"send"}) <=> Outstanding(pending, Tail(ready), {"send"})
    BY <1>1, <2>1, <2>2, Taking
  <2>4. ~Outstanding(pending, Tail(ready), {"send"})
    BY <2>3 DEF OneWrite
  <2>5. ASSUME NEW S \in {Chain, {"send"}}
        PROVE  /\ Orphaned(Tail(ready)) \in Seq(Good)
               /\ AtMostOne(pending, Orphaned(Tail(ready)), S)
               /\ ~Outstanding(pending, Orphaned(Tail(ready)), S)
    <3>1. S \cap {"sendIn", "closeIn", "orphan"} = {}
      BY DEF Chain, Connecting
    <3>2. /\ Orphaned(Tail(ready)) \in Seq(Good)
          /\ Queued(Orphaned(Tail(ready)), S) <=> Queued(Tail(ready), S)
          /\ Single(Tail(ready), S) => Single(Orphaned(Tail(ready)), S)
      BY <2>3, <3>1, Orphaning
    <3> QED
      BY <2>3, <2>4, <3>2 DEF AtMostOne, Outstanding
  <2>6. /\ AtMostOne(pending, ready, Chain)' /\ AtMostOne(pending, ready, {"send"})'
        /\ ~Awaits({"send"})' /\ ready' \in Seq(Good)
    <3>1. CASE pending' = pending
      BY <2>1, <2>5, <3>1 DEF Awaits
    <3>2. CASE pending' = pending \cup {"timer"}
      <4>1. \A q, S :
              /\ Outstanding(pending \cup {"timer"}, q, S)
                   <=> Outstanding(pending, q, S) \/ "timer" \in S
              /\ AtMostOne(pending, q, S) /\ ~("timer" \in S /\ Outstanding(pending, q, S))
                   => AtMostOne(pending \cup {"timer"}, q, S)
        BY AddFacts
      <4> QED
        BY <2>1, <2>2, <2>5, <3>2, <4>1 DEF Awaits
    <3> QED
      BY <2>1, <3>1, <3>2
  <2>7. caller' # "new" /\ pending' \subseteq Ops
    BY <1>1, <2>1, <2>3 DEF OneChain, Ops
  <2> QED
    BY <2>1, <2>6, <2>7 DEF OneChain, OneWrite
<1>5. CASE sendInService /\ UNCHANGED client
  <2>1. /\ Takes("sendIn", {"ok"}) /\ ready' = Tail(ready)
        /\ state_' = state_ /\ caller' = caller
    BY <1>5 DEF sendInService, client
  <2>2. "sendIn" \notin Chain /\ "sendIn" \notin Connecting /\ "sendIn" \notin {"send"}
    BY DEF Chain, Connecting
  <2>3. /\ ready # <<>> /\ Tail(ready) \in Seq(Good)
        /\ AtMostOne(pending, Tail(ready), Chain)
        /\ AtMostOne(pending, Tail(ready), {"send"})
        /\ Awaits({"send"}) <=> Outstanding(pending, Tail(ready), {"send"})
        /\ Awaits(Connecting) <=> Outstanding(pending, Tail(ready), Connecting)
    BY <1>1, <2>1, <2>2, Taking
  <2>4. caller' # "new"
    BY <2>1, <2>3 DEF OneChain
  <2>5. CASE ~sending_ /\ state_ = "CONNECTED"
    <3>1. pending' = pending \cup {"send"} /\ sending_'
      BY <1>5, <2>5 DEF sendInService
    <3>2. ~Awaits({"send"}) /\ ~Awaits(Connecting)
      BY <2>5, Zenon DEF OneWrite
    <3>3. "send" \notin Chain /\ "send" \notin Connecting /\ "send" \in Ops
      BY DEF Chain, Connecting, Ops, SocketOps
    <3>4. \A S : /\ Outstanding(pending \cup {"send"}, Tail(ready), S)
                      <=> Outstanding(pending, Tail(ready), S) \/ "send" \in S
                 /\ AtMostOne(pending, Tail(ready), S)
                      /\ ~("send" \in S /\ Outstanding(pending, Tail(ready), S))
                      => AtMostOne(pending \cup {"send"}, Tail(ready), S)
      BY AddFacts
    <3>5. /\ AtMostOne(pending, ready, Chain)' /\ AtMostOne(pending, ready, {"send"})'
          /\ ~Awaits(Connecting)' /\ pending' \subseteq Ops
      BY <1>1, <2>1, <2>3, <3>1, <3>2, <3>3, <3>4 DEF Awaits
    <3> QED
      BY <2>1, <2>3, <2>4, <3>1, <3>5 DEF OneChain, OneWrite
  <2>6. CASE sending_ \/ state_ # "CONNECTED"
    <3>1. pending' = pending /\ sending_' = sending_
      BY <1>5, <2>6 DEF sendInService
    <3>2. /\ AtMostOne(pending, ready, Chain)' /\ AtMostOne(pending, ready, {"send"})'
          /\ Awaits(Connecting)' <=> Awaits(Connecting)
          /\ Awaits({"send"})' <=> Awaits({"send"})
      BY <2>1, <2>3, <3>1 DEF Awaits
    <3>3. Awaits({"send"})' => sending_'
      BY <3>1, <3>2, Zenon DEF OneWrite
    <3>4. Awaits(Connecting)' => ~Awaits({"send"})' /\ state_' # "CONNECTED"
      BY <2>1, <3>2 DEF OneWrite
    <3> QED
      BY <1>1, <2>1, <2>3, <2>4, <3>1, <3>2, <3>3, <3>4 DEF OneChain, OneWrite
  <2> QED
    BY <2>5, <2>6
<1>6. CASE handleSendOk /\ UNCHANGED client
  <2>1. /\ Takes("send", {"ok"}) /\ ready' = Tail(ready)
        /\ state_' = state_ /\ caller' = caller
    BY <1>6 DEF handleSendOk, client
  <2>2. "send" \notin Chain /\ "send" \notin Connecting /\ "send" \in Ops
    BY DEF Chain, Connecting, Ops, SocketOps
  <2>3. /\ ready # <<>> /\ Tail(ready) \in Seq(Good)
        /\ AtMostOne(pending, Tail(ready), Chain)
        /\ AtMostOne(pending, Tail(ready), {"send"})
        /\ Awaits({"send"}) /\ ~Outstanding(pending, Tail(ready), {"send"})
        /\ Awaits(Connecting) <=> Outstanding(pending, Tail(ready), Connecting)
    BY <1>1, <2>1, <2>2, Taking
  <2>4. caller' # "new"
    BY <2>1, <2>3 DEF OneChain
  <2>5. sending_ /\ ~Awaits(Connecting)
    BY <2>3, Zenon DEF OneWrite
  <2>6. CASE pending' = pending \cup {"send"} /\ sending_' = sending_
    <3>1. \A S : /\ Outstanding(pending \cup {"send"}, Tail(ready), S)
                      <=> Outstanding(pending, Tail(ready), S) \/ "send" \in S
                 /\ AtMostOne(pending, Tail(ready), S)
                      /\ ~("send" \in S /\ Outstanding(pending, Tail(ready), S))
                      => AtMostOne(pending \cup {"send"}, Tail(ready), S)
      BY AddFacts
    <3>2. /\ AtMostOne(pending, ready, Chain)' /\ AtMostOne(pending, ready, {"send"})'
          /\ ~Awaits(Connecting)' /\ pending' \subseteq Ops
      BY <1>1, <2>1, <2>2, <2>3, <2>5, <2>6, <3>1 DEF Awaits
    <3>3. sending_'
      BY <2>5, <2>6, Zenon
    <3> QED
      BY <2>1, <2>3, <2>4, <3>2, <3>3 DEF OneChain, OneWrite
  <2>7. CASE pending' = pending
    <3>1. /\ AtMostOne(pending, ready, Chain)' /\ AtMostOne(pending, ready, {"send"})'
          /\ ~Awaits(Connecting)' /\ ~Awaits({"send"})' /\ pending' \subseteq Ops
      BY <1>1, <2>1, <2>3, <2>5, <2>7 DEF Awaits
    <3> QED
      BY <2>1, <2>3, <2>4, <3>1 DEF OneChain, OneWrite
  <2>8. \/ pending' = pending \cup {"send"} /\ sending_' = sending_
        \/ pending' = pending
    BY <1>6 DEF handleSendOk
  <2> QED
    BY <2>6, <2>7, <2>8
<1> QED
  BY <1>2, <1>3, <1>4, <1>5, <1>6 DEF Starts

(* Every step keeps the types of the queue, the chain and the write.       *)
LEMMA OperationsStep ==
  ASSUME Shape, OneChain, OneWrite, [Next]_vars
  PROVE  /\ ready' \in Seq(Good) /\ pending' \subseteq Ops
         /\ OneChain' /\ OneWrite'
<1>1. CASE Aside
  BY <1>1, AsideStep DEF Aside
<1> QED
  BY <1>1, Steps, StartsStep

-----------------------------------------------------------------------------
(* The bytes.                                                              *)

(* What a step that reads and writes nothing leaves as it is.              *)
Bytewise ==
  /\ IsBuffer(buf_in_) /\ IsBuffer(buf_out_)
  /\ writing \in Nat /\ given \in Seq(Byte) /\ wire \in Seq(Byte)
  /\ Reading /\ InOrder

LEMMA QuietBytes ==
  ASSUME Bytewise, Quietly
  PROVE  Bytewise'
<1>1. /\ UNCHANGED <<buf_in_, buf_out_, writing, given, wire>>
      /\ Transfers(ready') = Transfers(ready)
      /\ "send" \in pending' => "send" \in pending
  BY DEF Quietly
<1>2. Reading'
  BY <1>1 DEF Bytewise, Reading
<1>3. \A p, k : Streaming(p, k) => Streaming(p, k)'
  BY <1>1 DEF Streaming
<1>4. InOrder'
  BY <1>1, <1>3 DEF Bytewise, InOrder
<1> QED
  BY <1>1, <1>2, <1>4 DEF Bytewise

(* A transfer whose handler waits is outstanding.                          *)
LEMMA TransferIsQueued ==
  ASSUME NEW p, NEW q, NEW S, ~Outstanding(p, q, S)
  PROVE  \A h \in Transfers(q) : h.op \notin S
BY DEF Transfers, ToSet, Outstanding, Queued

(* The bytes of a message.                                                 *)
LEMMA DataType ==
  ASSUME NEW m \in Ids
  PROVE  Data(m) \in Seq(Byte)
<1>1. Sizes[m] \in Nat /\ m \in Byte
  BY SizesAssumption DEF Ids
<1> DEFINE n == Sizes[m]
<1> HIDE DEF n
<1>2. [i \in 1..n |-> m] \in [1..n -> Byte]
  BY <1>1
<1>3. [i \in 1..n |-> m] \in Seq(Byte)
  BY <1>1, <1>2 DEF n
<1> QED
  BY <1>3 DEF Data, n

(* A new buffer is empty.                                                  *)
LEMMA NewBufferFacts == IsBuffer(NewBuffer) /\ Content(NewBuffer) = <<>>
                          /\ readableCount(NewBuffer) = 0
<1>1. /\ NewBuffer.size = BufSize /\ NewBuffer.read_index_ = 0
      /\ NewBuffer.write_index_ = 0
      /\ NewBuffer.cells = [i \in 0..BufSize-1 |-> 0]
      /\ NewBuffer = Buffer(NewBuffer.size, NewBuffer.cells, NewBuffer.read_index_,
                            NewBuffer.write_index_)
  BY DEF NewBuffer, Buffer
<1>2. IsBuffer(NewBuffer)
  BY <1>1, BufSizeAssumption, ByteAssumption DEF IsBuffer
<1>3. readableCount(NewBuffer) = 0
  BY <1>1 DEF readableCount
<1>4. Content(NewBuffer) \in Seq(Byte) /\ Len(Content(NewBuffer)) = 0
  BY <1>2, <1>3, ContentIsSeq
<1> QED
  BY <1>2, <1>3, <1>4, EmptySeq

(* The connect that was tried is the beginning of a connection.            *)
LEMMA ConnectsQuietly ==
  ASSUME Shape, OneChain, connect \/ handleConnect
  PROVE  Quietly
<1>1. CASE connect
  BY <1>1 DEF connect, connection, Quietly
<1>2. CASE handleConnect
  <2> DEFINE h == Done("receiveIn", "ok")
  <2>1. /\ Takes("connect", {"ok"}) /\ pending' = pending
        /\ UNCHANGED <<buf_in_, buf_out_, writing, given, wire>>
        /\ ready' = Tail(ready) \/ ready' = Append(Tail(ready), h)
    BY <1>2 DEF handleConnect, startReceive
  <2>2. Tail(ready) \in Seq(Good) /\ Transfers(Tail(ready)) = Transfers(ready)
    BY <2>1, Taking
  <2>3. h \in Good /\ h.op \notin {"recv", "send"}
    BY HandlerTypes DEF Codes
  <2> HIDE DEF h
  <2>4. Transfers(Append(Tail(ready), h)) = Transfers(Tail(ready))
    BY <2>2, <2>3, Posting
  <2> QED
    BY <2>1, <2>2, <2>4 DEF Quietly
<1> QED
  BY <1>1, <1>2

(* A new connection has no bytes.                                          *)
LEMMA FreshBytes ==
  ASSUME Shape, OneChain, OneWrite, ConnectFailed
  PROVE  Bytewise'
<1>1. /\ Takes("connect", {"failed", "aborted"}) /\ ready' = Orphaned(Tail(ready))
      /\ pending' \subseteq pending \cup {"timer"}
      /\ buf_in_' = NewBuffer /\ buf_out_' = NewBuffer
      /\ writing' = 0 /\ given' = <<>> /\ wire' = <<>>
  BY DEF ConnectFailed, Fresh
<1>2. "connect" \in Chain /\ "connect" \in Connecting /\ "recv" \in Chain
  BY DEF Chain, Connecting
<1>3. /\ Tail(ready) \in Seq(Good) /\ Awaits(Connecting)
      /\ ~Outstanding(pending, Tail(ready), Chain)
      /\ Awaits({"send"}) <=> Outstanding(pending, Tail(ready), {"send"})
  BY <1>1, <1>2, Taking DEF OneChain
<1>4. ~Outstanding(pending, Tail(ready), {"send"})
  BY <1>3 DEF OneWrite
<1>5. Transfers(Tail(ready)) = {}
  BY <1>2, <1>3, <1>4, TransferIsQueued DEF Transfers
<1>6. Transfers(ready') = {}
  <2>1. {} \cap {"sendIn", "closeIn", "orphan"} = {}
    OBVIOUS
  <2>2. Transfers(Orphaned(Tail(ready))) \subseteq Transfers(Tail(ready))
    BY <1>3, <2>1, Orphaning
  <2> QED
    BY <1>1, <1>5, <2>2
<1>7. "send" \notin pending'
  BY <1>1, <1>4 DEF Outstanding
<1>8. /\ IsBuffer(buf_in_') /\ IsBuffer(buf_out_') /\ Content(buf_out_') = <<>>
      /\ readableCount(buf_out_') = 0
  BY <1>1, NewBufferFacts
<1>9. <<>> \in Seq(Byte) /\ <<>> \o <<>> = <<>> /\ SubSeq(<<>>, 1, 0) = <<>>
  BY EmptySeq, ConcatEmptySeq, SubSeqEmpty
<1>10. Streaming(<<>>, 0)'
  BY <1>1, <1>6, <1>8, <1>9 DEF Streaming
<1>11. InOrder'
  <2>1. 0 \in 0..readableCount(buf_out_')
    BY <1>8
  <2> QED
    BY <1>7, <1>9, <1>10, <2>1, Zenon DEF InOrder
<1> QED
  BY <1>1, <1>6, <1>8, <1>9, <1>11 DEF Bytewise, Reading

(* A read fills the room of buf_in_, and its handler makes room again.     *)
LEMMA ReceiveBytes ==
  ASSUME Shape, OneChain, Bytewise, handleReceiveOk
  PROVE  Bytewise'
<1> DEFINE n == Head(ready).msg
           filled == retrieveWriteIndex(buf_in_, n)
           adjusted == adjustInternal(filled)
<1>1. /\ Takes("recv", {"ok"}) /\ ready' = Tail(ready)
      /\ UNCHANGED <<buf_out_, writing, given, wire>>
      /\ "send" \in pending' => "send" \in pending
      /\ \/ buf_in_' = buf_in_
         \/ \E left \in 0..1 :
              buf_in_' = retrieveReadIndex(adjusted, readableCount(adjusted) - left)
  BY DEF handleReceiveOk, connection
<1>2. "recv" \in Chain
  BY DEF Chain
<1>3. /\ Head(ready).op = "recv" /\ Head(ready).ec \in {"ok"} /\ Head(ready) \in Good
      /\ Transfers(ready) = Transfers(Tail(ready)) \cup Transfers(<<Head(ready)>>)
      /\ ~Outstanding(pending, Tail(ready), Chain)
  BY <1>1, <1>2, Taking DEF OneChain
<1>4. Transfers(ready) = Transfers(Tail(ready)) \cup {Head(ready)}
  BY <1>3, TransfersOfOne
<1>5. \A h \in Transfers(Tail(ready)) : h.op # "recv"
  BY <1>2, <1>3, TransferIsQueued
<1>6. Reading'
  BY <1>1, <1>5 DEF Reading
<1>7. IsBuffer(buf_in_')
  <2>1. IsBuffer(buf_in_) /\ n \in 1..writableCount(buf_in_)
    BY <1>3, <1>4 DEF Bytewise, Reading
  <2>2. n \in 0..writableCount(buf_in_) /\ n \in Nat /\ n > 0
    BY <2>1 DEF IsBuffer, writableCount
  <2>3. IsBuffer(filled) /\ readableCount(filled) = readableCount(buf_in_) + n
    BY <2>1, <2>2, RetrieveWriteLeavesRoom
  <2> HIDE DEF n, filled
  <2>4. IsBuffer(adjusted) /\ Content(adjusted) = Content(filled)
    BY <2>3, AdjustKeeps
  <2> HIDE DEF adjusted
  <2>5. /\ readableCount(adjusted) = readableCount(filled)
        /\ readableCount(buf_in_) \in Nat /\ readableCount(adjusted) \in Nat
    BY <2>1, <2>3, <2>4, ContentIsSeq
  <2>6. \A left \in 0..1 :
          readableCount(adjusted) - left \in 0..readableCount(adjusted)
    BY <2>2, <2>3, <2>5
  <2>7. \A left \in 0..1 :
          IsBuffer(retrieveReadIndex(adjusted, readableCount(adjusted) - left))
    BY <2>4, <2>6, RetrieveReadIsFifo
  <2> QED
    BY <1>1, <2>1, <2>7
<1>8. ASSUME NEW p, NEW k, Streaming(p, k)
      PROVE  Streaming(p, k)'
  <2>1. /\ \A h \in Transfers(ready') : h.op = "send" => h.msg = k
        /\ k # 0 => \E h \in Transfers(ready') : h.op = "send"
    BY <1>1, <1>3, <1>4, <1>8 DEF Streaming
  <2> QED
    BY <1>1, <1>8, <2>1 DEF Streaming
<1>9. InOrder'
  BY <1>1, <1>8 DEF Bytewise, InOrder
<1> QED
  BY <1>1, <1>6, <1>7, <1>9 DEF Bytewise

(* A read finishes with bytes for the room that there is.                  *)
LEMMA ReadBytes ==
  ASSUME Shape, Bytewise, OsReadData
  PROVE  Bytewise'
<1>1. /\ "recv" \in pending
      /\ UNCHANGED <<buf_in_, buf_out_, writing, given, wire>>
  BY DEF OsReadData, connection
<1>2. PICK n \in 1..writableCount(buf_in_) :
        Finish("recv", Transferred("recv", n))
  BY DEF OsReadData
<1>3. n \in Nat /\ n \in 1..writableCount(buf_in_)
  BY DEF Bytewise, IsBuffer, writableCount
<1> DEFINE h == Transferred("recv", n)
<1>4. h \in Good /\ h.op = "recv" /\ h.ec = "ok" /\ h.msg = n
  BY <1>3, HandlerTypes
<1>5. Finish("recv", h)
  BY <1>2
<1> HIDE DEF h
<1>6. /\ Transfers(ready') = Transfers(ready) \cup Transfers(<<h>>)
      /\ pending' \subseteq pending
  BY <1>1, <1>4, <1>5, Finishing
<1>7. Transfers(<<h>>) = {h}
  BY <1>4, TransfersOfOne
<1>8. Reading'
  BY <1>1, <1>3, <1>4, <1>6, <1>7 DEF Bytewise, Reading
<1>9. ASSUME NEW p, NEW k, Streaming(p, k)
      PROVE  Streaming(p, k)'
  <2>1. /\ \A g \in Transfers(ready') : g.op = "send" => g.msg = k
        /\ k # 0 => \E g \in Transfers(ready') : g.op = "send"
    BY <1>4, <1>6, <1>7, <1>9 DEF Streaming
  <2> QED
    BY <1>1, <1>9, <2>1 DEF Streaming
<1>10. InOrder'
  BY <1>1, <1>6, <1>9 DEF Bytewise, InOrder
<1> QED
  BY <1>1, <1>8, <1>10 DEF Bytewise

(* The bytes that a write was given are the next of the stream.            *)
LEMMA WriteBytes ==
  ASSUME Shape, OneWrite, Bytewise, OsWriteDone
  PROVE  Bytewise'
<1> DEFINE h == Transferred("send", writing)
           c == Content(buf_out_)
<1>1. /\ "send" \in pending /\ Finish("send", h)
      /\ wire' = wire \o SubSeq(c, 1, writing)
      /\ UNCHANGED <<buf_in_, buf_out_, writing, given>>
  BY DEF OsWriteDone
<1>2. /\ c \in Seq(Byte) /\ Len(c) = readableCount(buf_out_)
      /\ writing \in 0..Len(c) /\ readableCount(buf_out_) \in Nat
  BY <1>1, ContentIsSeq DEF Bytewise, InOrder
<1>3. h \in Good /\ h.op = "send" /\ h.ec = "ok" /\ h.msg = writing
  BY HandlerTypes DEF Bytewise
<1> HIDE DEF h, c
<1>4. /\ Transfers(ready') = Transfers(ready) \cup Transfers(<<h>>)
      /\ "send" \notin pending'
  BY <1>1, <1>3, Finishing
<1>5. Transfers(<<h>>) = {h}
  BY <1>3, TransfersOfOne
<1>6. \A g \in Transfers(ready) : g.op # "send"
  <2>1. ~Queued(ready, {"send"})
    BY <1>1 DEF OneWrite, AtMostOne
  <2>2. ~Outstanding({}, ready, {"send"})
    BY <2>1 DEF Outstanding
  <2> QED
    BY <2>2, TransferIsQueued
<1>7. PICK p \in Seq(Byte), k \in 0..readableCount(buf_out_) : Streaming(p, k)
  BY DEF Bytewise, InOrder
<1>8. k = 0 /\ given = p \o c /\ wire = p \o SubSeq(c, 1, k)
  BY <1>6, <1>7 DEF Streaming, c
<1>9. SubSeq(c, 1, 0) = <<>> /\ SubSeq(c, 1, writing) \in Seq(Byte)
  BY <1>2, SliceFacts
<1>10. wire = p
  BY <1>8, <1>9, ConcatEmptySeq
<1>11. PICK w \in 0..readableCount(buf_out_) : w = writing
  BY <1>2
<1>12. InOrder'
  <2>1. \A g \in Transfers(ready') : g.op = "send" => g.msg = w
    BY <1>3, <1>4, <1>5, <1>6, <1>11
  <2>2. \E g \in Transfers(ready') : g.op = "send"
    BY <1>3, <1>4, <1>5
  <2>3. given' = p \o Content(buf_out_') /\ wire' = p \o SubSeq(Content(buf_out_'), 1, w)
    BY <1>1, <1>8, <1>10, <1>11 DEF c
  <2>4. Streaming(p, w)'
    BY <2>1, <2>2, <2>3 DEF Streaming
  <2>5. w \in 0..readableCount(buf_out_')
    BY <1>1
  <2> QED
    BY <1>4, <2>4, <2>5, Zenon DEF InOrder
<1>13. Reading'
  BY <1>1, <1>3, <1>4, <1>5 DEF Bytewise, Reading
<1>14. wire' \in Seq(Byte)
  BY <1>1, <1>9, <1>10, ConcatProperties
<1> QED
  BY <1>1, <1>12, <1>13, <1>14 DEF Bytewise

(* A message is appended behind all that waits.                            *)
LEMMA AppendBytes ==
  ASSUME Shape, Bytewise, sendInService
  PROVE  Bytewise'
<1> DEFINE d == Data(Head(ready).msg)
           c == Content(buf_out_)
<1>1. /\ Takes("sendIn", {"ok"}) /\ ready' = Tail(ready)
      /\ buf_out_' = append(buf_out_, d) /\ given' = given \o d
      /\ UNCHANGED <<buf_in_, wire>>
      /\ \/ writing' = readableCount(buf_out_')
         \/ writing' = writing /\ pending' = pending
  BY DEF sendInService
<1>2. /\ Head(ready) \in Good /\ Head(ready).op = "sendIn"
      /\ Transfers(Tail(ready)) = Transfers(ready)
  BY <1>1, Taking
<1>3. d \in Seq(Byte)
  BY <1>2, DataType DEF Good
<1>4. IsBuffer(buf_out_) /\ c \in Seq(Byte) /\ Len(c) = readableCount(buf_out_)
  BY ContentIsSeq DEF Bytewise
<1> HIDE DEF d, c
<1>5. IsBuffer(buf_out_') /\ Content(buf_out_') = c \o d
  BY <1>1, <1>3, <1>4, AppendIsFifo DEF c
<1>6. /\ readableCount(buf_out_') \in Nat /\ readableCount(buf_out_) \in Nat
      /\ readableCount(buf_out_) <= readableCount(buf_out_')
  <2>1. /\ readableCount(buf_out_') \in Nat
        /\ Len(Content(buf_out_')) = readableCount(buf_out_')
    BY <1>5, ContentIsSeq
  <2>2. Len(c \o d) = Len(c) + Len(d)
    BY <1>3, <1>4, ConcatProperties
  <2>3. Len(c) \in Nat /\ Len(d) \in Nat
    BY <1>3, <1>4, LenProperties
  <2> QED
    BY <1>4, <1>5, <2>1, <2>2, <2>3
<1>7. PICK p \in Seq(Byte), k \in 0..readableCount(buf_out_) : Streaming(p, k)
  BY DEF Bytewise, InOrder
<1>8. given = p \o c /\ wire = p \o SubSeq(c, 1, k)
  BY <1>7 DEF Streaming, c
<1>9. Streaming(p, k)'
  <2>1. given' = p \o (c \o d)
    <3>1. Then(Then(p, c), d) = Then(p, Then(c, d))
      BY <1>3, <1>4, Regroup
    <3>2. given' = (p \o c) \o d
      BY <1>1, <1>8
    <3> QED
      BY <3>1, <3>2 DEF Then
  <2>2. wire' = p \o SubSeq(c \o d, 1, k)
    <3>1. SubSeq(c \o d, 1, k) = SubSeq(c, 1, k)
      BY <1>3, <1>4, SliceOfConcat
    <3> QED
      BY <1>1, <1>8, <3>1
  <2>3. /\ \A h \in Transfers(ready') : h.op = "send" => h.msg = k
        /\ k # 0 => \E h \in Transfers(ready') : h.op = "send"
    BY <1>1, <1>2, <1>7 DEF Streaming
  <2> QED
    BY <1>5, <2>1, <2>2, <2>3 DEF Streaming
<1>10. InOrder'
  <2>1. k \in 0..readableCount(buf_out_')
    BY <1>6
  <2>2. "send" \in pending' => writing' <= readableCount(buf_out_')
    BY <1>1, <1>6 DEF Bytewise, InOrder
  <2> QED
    BY <1>9, <2>1, <2>2, Zenon DEF InOrder
<1>11. Reading'
  BY <1>1, <1>2 DEF Bytewise, Reading
<1>12. given' \in Seq(Byte)
  BY <1>1, <1>3, ConcatProperties DEF Bytewise
<1>13. writing' \in Nat
  BY <1>1, <1>6 DEF Bytewise
<1> QED
  BY <1>1, <1>5, <1>10, <1>11, <1>12, <1>13 DEF Bytewise

(* The bytes that were written are removed from the front.                 *)
LEMMA RemoveBytes ==
  ASSUME Shape, OneWrite, Bytewise, handleSendOk
  PROVE  Bytewise'
<1> DEFINE c == Content(buf_out_)
<1>1. /\ Takes("send", {"ok"}) /\ ready' = Tail(ready)
      /\ buf_out_' = retrieveReadIndex(buf_out_, Head(ready).msg)
      /\ UNCHANGED <<buf_in_, given, wire>>
      /\ \/ writing' = readableCount(buf_out_')
         \/ writing' = writing /\ pending' = pending
  BY DEF handleSendOk
<1>2. "send" \in {"send"}
  OBVIOUS
<1>3. /\ Head(ready).op = "send" /\ Head(ready).ec \in {"ok"}
      /\ Transfers(ready) = Transfers(Tail(ready)) \cup Transfers(<<Head(ready)>>)
      /\ ~Outstanding(pending, Tail(ready), {"send"})
  BY <1>1, <1>2, Taking DEF OneWrite
<1>4. Transfers(ready) = Transfers(Tail(ready)) \cup {Head(ready)}
  BY <1>3, TransfersOfOne
<1>5. \A h \in Transfers(Tail(ready)) : h.op # "send"
  BY <1>3, TransferIsQueued
<1>6. "send" \notin pending
  BY <1>3 DEF Outstanding
<1>7. PICK p \in Seq(Byte), k \in 0..readableCount(buf_out_) : Streaming(p, k)
  BY DEF Bytewise, InOrder
<1>8. /\ Head(ready).msg = k /\ given = p \o c /\ wire = p \o SubSeq(c, 1, k)
  BY <1>3, <1>4, <1>7 DEF Streaming
<1>9. IsBuffer(buf_out_) /\ c \in Seq(Byte) /\ Len(c) = readableCount(buf_out_)
  BY ContentIsSeq DEF Bytewise
<1>10. IsBuffer(buf_out_') /\ Content(buf_out_') = SubSeq(c, k + 1, Len(c))
  BY <1>1, <1>8, <1>9, RetrieveReadIsFifo
<1> HIDE DEF c
<1>11. readableCount(buf_out_') \in Nat
  BY <1>10, ContentIsSeq
<1>12. /\ SubSeq(c, 1, k) \in Seq(Byte) /\ SubSeq(c, k + 1, Len(c)) \in Seq(Byte)
       /\ SubSeq(c, 1, k) \o SubSeq(c, k + 1, Len(c)) = c
  BY <1>9, SliceFacts
<1>13. given = wire \o SubSeq(c, k + 1, Len(c))
  <2>1. (p \o SubSeq(c, 1, k)) \o SubSeq(c, k + 1, Len(c)) = p \o c
    BY <1>9, SliceBehind
  <2> QED
    BY <1>8, <2>1
<1>14. PICK s \in Seq(Byte) : s = wire
  BY DEF Bytewise
<1>15. Streaming(s, 0)'
  <2>1. given' = s \o Content(buf_out_')
    BY <1>1, <1>10, <1>13, <1>14
  <2>2. wire' = s \o SubSeq(Content(buf_out_'), 1, 0)
    BY <1>1, <1>14, SubSeqEmpty, ConcatEmptySeq
  <2>3. \A h \in Transfers(ready') : h.op = "send" => h.msg = 0
    BY <1>1, <1>5
  <2> QED
    BY <2>1, <2>2, <2>3 DEF Streaming
<1>16. InOrder'
  <2>1. 0 \in 0..readableCount(buf_out_')
    BY <1>11
  <2>2. "send" \in pending' => writing' <= readableCount(buf_out_')
    BY <1>1, <1>6, <1>11
  <2> QED
    BY <1>15, <2>1, <2>2, Zenon DEF InOrder
<1>17. Reading'
  BY <1>1, <1>4 DEF Bytewise, Reading
<1>18. writing' \in Nat
  BY <1>1, <1>11 DEF Bytewise
<1> QED
  BY <1>1, <1>10, <1>16, <1>17, <1>18 DEF Bytewise

(* Every step keeps the bytes in order.                                    *)
LEMMA BytesStep ==
  ASSUME Shape, OneChain, OneWrite, Bytewise, [Next]_vars
  PROVE  Bytewise'
<1>1. CASE Quietly \/ connect \/ handleConnect
  BY <1>1, QuietBytes, ConnectsQuietly
<1>2. CASE Moves
  BY <1>2, ReceiveBytes, ReadBytes, WriteBytes DEF Moves
<1>3. CASE ConnectFailed \/ sendInService \/ handleSendOk
  BY <1>3, FreshBytes, AppendBytes, RemoveBytes
<1> QED
  BY <1>1, <1>2, <1>3, Steps DEF Starts

-----------------------------------------------------------------------------
(* Types.                                                                  *)

(* Every step keeps the types that no other lemma is about.                *)
LEMMA ShapeStep ==
  ASSUME Shape, [Next]_vars
  PROVE  /\ state_' \in {"CONNECTING", "CONNECTED", "DISCONNECTED"}
         /\ socket' \in Sockets
         /\ io' \in {"running", "returned", "thrown", Undefined}
         /\ caller' \in {"new", "open", "disarmed", "closed"}
         /\ posted' \in 0..Len(Sizes)
<1> USE DEF Shape, Sockets, connection, client
<1>1. CASE connect \/ sendMessage \/ closeClient
  <2>1. Len(Sizes) \in Nat
    BY SizesAssumption
  <2> QED
    BY <1>1, <2>1 DEF connect, sendMessage, closeClient, CloseDisarms, CloseForces
<1>2. CASE \/ handleSending \/ handleResolver \/ ResolveFailed \/ handleConnect \/ Orphan
           \/ handleTimer \/ RunReturns
  BY <1>2 DEF handleSending, handleResolver, ResolveFailed, handleConnect, Orphan,
     handleTimer, RunReturns
<1>3. CASE ConnectFailed
  BY <1>3 DEF ConnectFailed, Fresh
<1>4. CASE Close
  BY <1>4 DEF Close, closeInService
<1>5. CASE /\ receiveInService \/ handleReceiveEof \/ HandleError \/ sendInServiceUnsafe
              \/ closeInServiceThrows
           /\ UNCHANGED client
  BY <1>5 DEF receiveInService, handleReceiveEof, HandleError, sendInServiceUnsafe,
     closeInServiceThrows
<1>6. CASE (handleReceiveOk \/ sendInService \/ handleSendOk) /\ UNCHANGED client
  BY <1>6 DEF handleReceiveOk, sendInService, handleSendOk
<1>7. CASE OsResolve \/ OsConnect \/ OsTimer
  BY <1>7 DEF OsResolve, OsConnect, OsTimer
<1>8. CASE OsEnds \/ OsMayDo
  BY <1>8 DEF OsEnds, OsMayDo, OsReadFails, OsWriteDone, OsWriteFails, OsReadData, OsBreaks
<1>9. CASE UNCHANGED vars
  BY <1>9 DEF vars
<1> QED
  BY <1>1, <1>2, <1>3, <1>4, <1>5, <1>6, <1>7, <1>8, <1>9 DEF Next, IoThread, Connection

(* The flags stay Boolean.                                                 *)
LEMMA FlagsStep == Flags /\ [Next]_vars => Flags'
<1> SUFFICES ASSUME Flags, [Next]_vars
             PROVE  Flags'
  OBVIOUS
<1> USE DEF Flags, connection, client
<1>1. CASE connect \/ sendMessage \/ closeClient
  BY <1>1, Zenon DEF connect, sendMessage, closeClient, CloseDisarms, CloseForces
<1>2. CASE handleSending \/ handleResolver \/ Orphan \/ handleTimer \/ RunReturns
  BY <1>2, Zenon DEF handleSending, handleResolver, Orphan, handleTimer, RunReturns
<1>3. CASE ResolveFailed
  BY <1>3, Zenon DEF ResolveFailed
<1>4. CASE handleConnect
  BY <1>4, Zenon DEF handleConnect, startReceive
<1>5. CASE ConnectFailed
  BY <1>5, Zenon DEF ConnectFailed, Fresh
<1>6. CASE Close
  <2>1. cut' \in BOOLEAN
    BY <1>6 DEF Close
  <2> QED
    BY <1>6, <2>1, Zenon DEF Close, closeInService
<1>7. CASE /\ receiveInService \/ handleReceiveEof \/ HandleError \/ sendInServiceUnsafe
              \/ closeInServiceThrows
           /\ UNCHANGED client
  BY <1>7, Zenon DEF receiveInService, handleReceiveEof, HandleError, sendInServiceUnsafe,
     closeInServiceThrows
<1>8. CASE handleReceiveOk /\ UNCHANGED client
  BY <1>8, Zenon DEF handleReceiveOk
<1>9. CASE sendInService /\ UNCHANGED client
  BY <1>9, Zenon DEF sendInService
<1>10. CASE handleSendOk /\ UNCHANGED client
  BY <1>10, Zenon DEF handleSendOk
<1>11. CASE OsResolve \/ OsConnect \/ OsTimer
  BY <1>11, Zenon DEF OsResolve, OsConnect, OsTimer
<1>12. CASE OsEnds \/ OsMayDo
  BY <1>12, Zenon DEF OsEnds, OsMayDo, OsReadFails, OsWriteDone, OsWriteFails, OsReadData,
     OsBreaks
<1>13. CASE UNCHANGED vars
  BY <1>13, Zenon DEF vars
<1> QED
  BY <1>1, <1>2, <1>3, <1>4, <1>5, <1>6, <1>7, <1>8, <1>9, <1>10, <1>11, <1>12, <1>13
     DEF Next, IoThread, Connection

-----------------------------------------------------------------------------
(* The initial state is that of a client that has not been used.           *)
LEMMA InvInit == Init => IInv
<1> SUFFICES ASSUME Init
             PROVE  IInv
  OBVIOUS
<1>1. /\ pending = {} /\ ready = <<>> /\ buf_in_ = NewBuffer /\ buf_out_ = NewBuffer
      /\ writing = 0 /\ given = <<>> /\ wire = <<>> /\ state_ = "CONNECTING"
      /\ socket = "closed" /\ io = "running" /\ caller = "new" /\ posted = 0
  BY DEF Init, Fresh
<1>2. Flags
  BY DEF Init, Fresh, Flags
<1>3. IsBuffer(NewBuffer) /\ Content(NewBuffer) = <<>> /\ readableCount(NewBuffer) = 0
  BY NewBufferFacts
<1>4. <<>> \in Seq(Byte) /\ <<>> \o <<>> = <<>> /\ SubSeq(<<>>, 1, 0) = <<>>
  BY EmptySeq, ConcatEmptySeq, SubSeqEmpty
<1>5. Shape
  <2>1. Len(Sizes) \in Nat
    BY SizesAssumption
  <2> QED
    BY <1>1, <1>3, <1>4, <2>1 DEF Shape, Sockets
<1>6. (\A S : AtMostOne(pending, ready, S)) /\ (\A S : ~Awaits(S))
  BY <1>1 DEF AtMostOne, Awaits, Outstanding, Queued, Single
<1>7. OneChain /\ OneWrite
  BY <1>1, <1>6 DEF OneChain, OneWrite
<1>8. Transfers(ready) = {}
  BY <1>1 DEF Transfers, ToSet
<1>9. Streaming(<<>>, 0)
  BY <1>1, <1>3, <1>4, <1>8 DEF Streaming
<1>10. InOrder
  <2>1. 0 \in 0..readableCount(buf_out_) /\ "send" \notin pending
    BY <1>1, <1>3
  <2> QED
    BY <1>4, <1>9, <2>1, Zenon DEF InOrder
<1> QED
  BY <1>2, <1>5, <1>7, <1>8, <1>10 DEF IInv, Reading

(* Every behaviour of the client keeps the inductive invariant.            *)
THEOREM Invariance == Spec => []IInv
<1>1. IInv /\ [Next]_vars => IInv'
  <2> SUFFICES ASSUME IInv, [Next]_vars
               PROVE  IInv'
    OBVIOUS
  <2>1. Flags'
    BY FlagsStep DEF IInv
  <2>2. Shape /\ OneChain /\ OneWrite /\ Bytewise
    BY DEF IInv, Bytewise, Shape
  <2>3. ready' \in Seq(Good) /\ pending' \subseteq Ops /\ OneChain' /\ OneWrite'
    BY <2>2, OperationsStep
  <2>4. Bytewise'
    BY <2>2, BytesStep
  <2>5. Shape'
    BY <2>2, <2>3, <2>4, ShapeStep DEF Shape, Bytewise
  <2> QED
    BY <2>1, <2>3, <2>4, <2>5 DEF IInv, Bytewise
<1> QED
  BY <1>1, InvInit, PTL DEF Spec

(* Every variable keeps its type, the two buffers included: whatever is    *)
(* read, appended and removed, the indices stay in order and inside the    *)
(* vector, and there is room for the next read.                            *)
THEOREM TypeCorrect == Spec => []TypeOK
<1>1. IInv => TypeOK
  <2> SUFFICES ASSUME IInv
               PROVE  TypeOK
    OBVIOUS
  <2>1. Good \subseteq Handlers
    BY DEF Good
  <2>2. ready \in Seq(Handlers)
    BY <2>1 DEF IInv, Shape
  <2>3. {receiving_, sending_, reconnect_, unresolved, cut} \subseteq BOOLEAN
    BY Zenon DEF IInv, Flags
  <2> QED
    BY <2>2, <2>3 DEF IInv, Shape, TypeOK
<1> QED
  BY <1>1, Invariance, PTL

(* Whatever is appended while a write is under way, and however the buffer *)
(* moves its content, the bytes written are the first of those given, and  *)
(* what is left in buf_out_ is the end of them.                            *)
THEOREM OutputInOrderTheorem == Spec => []OutputInOrder
<1>1. IInv => OutputInOrder
  <2> SUFFICES ASSUME IInv
               PROVE  IsPrefix(wire, given) /\ IsSuffix(Content(buf_out_), given)
    BY DEF OutputInOrder
  <2> DEFINE c == Content(buf_out_)
  <2>1. PICK p \in Seq(Byte), k \in 0..readableCount(buf_out_) : Streaming(p, k)
    BY DEF IInv, InOrder
  <2>2. c \in Seq(Byte) /\ Len(c) = readableCount(buf_out_)
    BY ContentIsSeq DEF IInv, Shape
  <2>3. given = p \o c /\ wire = p \o SubSeq(c, 1, k)
    BY <2>1 DEF Streaming
  <2> HIDE DEF c
  <2>4. IsSuffix(c, given)
    BY <2>2, <2>3, PrefixFacts
  <2>5. (p \o SubSeq(c, 1, k)) \o SubSeq(c, k + 1, Len(c)) = p \o c
    BY <2>2, SliceBehind
  <2>6. wire \in Seq(Byte) /\ SubSeq(c, k + 1, Len(c)) \in Seq(Byte)
    BY <2>2, SliceFacts DEF IInv, Shape
  <2>7. given = wire \o SubSeq(c, k + 1, Len(c))
    BY <2>3, <2>5
  <2>8. IsPrefix(wire, given)
    BY <2>6, <2>7, PrefixFacts
  <2> QED
    BY <2>4, <2>8 DEF c
<1> QED
  BY <1>1, Invariance, PTL

(* However connects fail, calls come and handlers are left over, the       *)
(* client has at most one of resolve, connect, timer and read under way,   *)
(* and at most one write, never beside an attempt to connect.              *)
OneOperation ==
  /\ AtMostOne(pending, ready, Chain) /\ AtMostOne(pending, ready, {"send"})
  /\ Awaits(Connecting) => ~Awaits({"send"})

(* The client has one connection at a time and one write on it.            *)
THEOREM OneOperationTheorem == Spec => []OneOperation
<1>1. IInv => OneOperation
  BY DEF IInv, OneChain, OneWrite, OneOperation
<1> QED
  BY <1>1, Invariance, PTL
=============================================================================
