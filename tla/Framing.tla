------------------------------ MODULE Framing ------------------------------
(***************************************************************************)
(* process_data() of the line, fixed-length and binary protocols of        *)
(* asio-1.28_server_multi_protocol (test.cpp) as operators on the bytes in *)
(* read_buffer_, and the splitting of a whole stream that they are to      *)
(* agree with.  The sizes are scaled down by the constants; in the code a  *)
(* byte has 256 values, and the header of the binary protocol 4 bytes.     *)
(***************************************************************************)
EXTENDS Naturals, Sequences, SequencesExt

CONSTANTS
  Base,        \* how many values a byte has
  Header,      \* how many bytes hold payload_length, a uint32_t
  FrameSize,   \* frame_size_
  BufferSize   \* READ_BUFFER_SIZE

ASSUME SizesAssumption ==
  /\ Base \in Nat \ {0, 1} /\ Header \in Nat \ {0}
  /\ BufferSize \in Nat /\ FrameSize \in 1..BufferSize /\ Header < BufferSize

Bytes == 0..(Base - 1)
LF == 0
CR == 1
Width == Base ^ Header    \* 2^32: the sums of payload_length are modulo this
ASSUME WidthAssumption == Width \in Nat /\ BufferSize < Width

Protocols == {"line", "fixed", "binary"}

(* What a call of process_data() returns, the frames it handed over in     *)
(* order, and whether it read behind the bytes it was given.               *)
Result(processed, frames, overread) ==
  [processed |-> processed, frames |-> frames, overread |-> overread]
NeedsMore == Result(0, <<>>, FALSE)

-----------------------------------------------------------------------------
(* The line from place start to the LF in place i, without the CR before   *)
(* that.                                                                   *)
Line(data, start, i) ==
  SubSeq(data, start, IF i > 1 /\ data[i - 1] = CR THEN i - 2 ELSE i - 1)

(* The loop at byte i, from the lines before it.                           *)
LineByte(data, before, i) ==
  IF data[i] # LF THEN before
  ELSE Result(i, Append(before.frames, Line(data, before.processed + 1, i)), FALSE)

(* All the lines that are complete after the first i bytes.                *)
LineLoop(data) ==
  LET loop[i \in 0..Len(data)] ==
        IF i = 0 THEN NeedsMore ELSE LineByte(data, loop[i - 1], i)
  IN  loop

(* Mutant of line_process_data: the LF itself is not consumed.             *)
LeavesLF(data) ==
  LET result == LineLoop(data)[Len(data)]
  IN  IF result.processed = 0 THEN result
      ELSE [result EXCEPT !.processed = @ - 1]

line_process_data(data) == LineLoop(data)[Len(data)]

(* One frame at a time.                                                    *)
fixed_process_data(data) ==
  IF Len(data) < FrameSize THEN NeedsMore
  ELSE Result(FrameSize, <<SubSeq(data, 1, FrameSize)>>, FALSE)

(* Big endian.                                                             *)
Number(bytes) ==
  LET upto[k \in 0..Len(bytes)] == IF k = 0 THEN 0 ELSE upto[k - 1] * Base + bytes[k]
  IN  upto

payload_length(data) == Number(SubSeq(data, 1, Header))[Header]

(* One frame at a time.  The sum of the sizes wraps: for the largest       *)
(* lengths the test passes and the payload reaches behind the buffer.      *)
binary_process_data(data) ==
  LET n == payload_length(data)
      total == (Header + n) % Width
  IN  IF Len(data) < Header \/ Len(data) < total THEN NeedsMore
      ELSE IF Len(data) < Header + n THEN Result(total, <<>>, TRUE)
      ELSE Result(total, <<SubSeq(data, Header + 1, Header + n)>>, FALSE)

process_data(protocol, data) ==
  CASE protocol = "line" -> line_process_data(data)
    [] protocol = "fixed" -> fixed_process_data(data)
    [] protocol = "binary" -> binary_process_data(data)

-----------------------------------------------------------------------------
(* The reference: a stream is split byte by byte, with no buffer and with  *)
(* unbounded numbers.  cur holds the bytes of the frame that is not yet    *)
(* complete.                                                               *)
Complete(protocol, cur) ==
  CASE protocol = "line" -> Last(cur) = LF
    [] protocol = "fixed" -> Len(cur) = FrameSize
    [] protocol = "binary" -> Len(cur) >= Header /\ Len(cur) = Header + payload_length(cur)

Content(protocol, cur) ==
  CASE protocol = "line" ->
         LET line == Front(cur)
         IN  IF line # <<>> /\ Last(line) = CR THEN Front(line) ELSE line
    [] protocol = "fixed" -> cur
    [] protocol = "binary" -> SubSeq(cur, Header + 1, Len(cur))

AddByte(protocol, acc, byte) ==
  LET cur == Append(acc.cur, byte)
  IN  IF Complete(protocol, cur)
      THEN [frames |-> Append(acc.frames, Content(protocol, cur)), cur |-> <<>>]
      ELSE [frames |-> acc.frames, cur |-> cur]

(* What the first n bytes of the stream are split into.                    *)
SplitAt(protocol, stream) ==
  LET at[n \in 0..Len(stream)] ==
        IF n = 0 THEN [frames |-> <<>>, cur |-> <<>>]
        ELSE AddByte(protocol, at[n - 1], stream[n])
  IN  at

Split(protocol, stream) == SplitAt(protocol, stream)[Len(stream)]
=============================================================================
