-------------------------- MODULE ConnectionBuffer --------------------------
(***************************************************************************)
(* The buffer of asio-1.10 (connection_buffer.h, connection_buffer.cpp;    *)
(* asio-1.28 has the same two files): a vector of bytes with two indices.  *)
(* What is between read_index_ and write_index_ is its content.  A buffer  *)
(* is a record, and a member function an operator that returns the buffer  *)
(* after the call.  The uint32_t indices are far below their limit, which  *)
(* the memory of the process keeps a vector from.                          *)
(***************************************************************************)
EXTENDS Naturals, Sequences

CONSTANT
  BufSize,   \* buf_size, the size of a new buffer
  Byte       \* the values of a byte

ASSUME BufSizeAssumption == BufSize \in Nat \ {0}
ASSUME ByteAssumption == 0 \in Byte

(* The vector of n bytes, read_index_ r and write_index_ w.                *)
Buffer(n, cells, r, w) ==
  [size |-> n, cells |-> cells, read_index_ |-> r, write_index_ |-> w]

(* What every call keeps true: the indices are in order, and there is room *)
(* to write at least one byte.                                             *)
IsBuffer(b) ==
  /\ b = Buffer(b.size, b.cells, b.read_index_, b.write_index_)
  /\ b.size \in Nat \ {0}
  /\ b.cells \in [0..b.size-1 -> Byte]
  /\ b.read_index_ \in Nat
  /\ b.write_index_ \in Nat
  /\ b.read_index_ <= b.write_index_
  /\ b.write_index_ < b.size

(* A new buffer, with the zeros that the vector begins with.               *)
NewBuffer == Buffer(BufSize, [i \in 0..BufSize-1 |-> 0], 0, 0)

writableCount(b) == b.size - b.write_index_

readableCount(b) == b.write_index_ - b.read_index_

(* The bytes from readPtr() on.                                            *)
Content(b) ==
  [i \in 1..readableCount(b) |-> b.cells[b.read_index_ + i - 1]]

-----------------------------------------------------------------------------
(* memcpy of data to writePtr(), and the new write_index_.                 *)
Put(b, data) ==
  Buffer(b.size,
         [i \in 0..b.size-1 |->
            IF i \in b.write_index_..b.write_index_ + Len(data) - 1
            THEN data[i - b.write_index_ + 1] ELSE b.cells[i]],
         b.read_index_, b.write_index_ + Len(data))

(* memcpy of the content to the start of the vector, and the new indices.  *)
(* It is defined when the two ranges do not overlap.                       *)
Compact(b) ==
  Buffer(b.size,
         [i \in 0..b.size-1 |-> IF i < readableCount(b)
                               THEN b.cells[b.read_index_ + i] ELSE b.cells[i]],
         0, readableCount(b))

Overlaps(b) == readableCount(b) > b.read_index_

(* resize() to n bytes: the vector moves, and what is new in it is zero.   *)
Resize(b, n) ==
  Buffer(n, [i \in 0..n-1 |-> IF i < b.size THEN b.cells[i] ELSE 0],
         b.read_index_, b.write_index_)

-----------------------------------------------------------------------------
(* The three cases of append().                                            *)
Fits(b, n) == writableCount(b) > n

FitsCompacted(b, n) == b.read_index_ > writableCount(b) + n

(* Mutant of append: the vector grows by the whole buf_size in data.       *)
GrowsTooLittle(b, data) ==
  LET n == Len(data) IN
  IF Fits(b, n) THEN Put(b, data)
  ELSE IF FitsCompacted(b, n) THEN Put(Compact(b), data)
  ELSE Put(Resize(b, b.size + BufSize * (n \div BufSize)), data)

append(b, data) ==
  LET n == Len(data) IN
  IF Fits(b, n) THEN Put(b, data)
  ELSE IF FitsCompacted(b, n) THEN Put(Compact(b), data)
  ELSE Put(Resize(b, b.size + BufSize * (n \div BufSize + 1)), data)

(* append() copies between ranges that overlap.                            *)
AppendOverlaps(b, n) == ~Fits(b, n) /\ FitsCompacted(b, n) /\ Overlaps(b)

retrieveReadIndex(b, n) ==
  LET r == b.read_index_ + n
      empty == r >= b.write_index_
  IN  Buffer(b.size, b.cells, IF empty THEN 0 ELSE r,
             IF empty THEN 0 ELSE b.write_index_)

(* The caller has put n bytes at writePtr().                               *)
retrieveWriteIndex(b, n) ==
  LET w == b.write_index_ + n IN
  IF w >= b.size
  THEN Resize(Buffer(b.size, b.cells, b.read_index_, b.size), 2 * b.size)
  ELSE Buffer(b.size, b.cells, b.read_index_, w)

(* The condition under which adjustInternal() moves the content.           *)
Adjusts(b) == b.read_index_ >= writableCount(b)

adjustInternal(b) == IF Adjusts(b) THEN Compact(b) ELSE b
=============================================================================
