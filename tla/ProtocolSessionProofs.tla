----------------------- MODULE ProtocolSessionProofs -----------------------
(***************************************************************************)
(* Proofs about Framing and ProtocolSession for every size of a byte, a    *)
(* header, a frame and the buffer: whatever the client sends and however   *)
(* the reads cut it, process_data() hands over the frames of the stream.   *)
(***************************************************************************)
EXTENDS ProtocolSession, IoContextLemmas, SequenceTheorems, WellFoundedInduction

-----------------------------------------------------------------------------
(* Induction, and functions defined by recursion, over a set and a         *)
(* function in place of an operator.                                       *)

LEMMA Least ==
  ASSUME NEW T \in SUBSET Nat, T # {}
  PROVE  \E m \in T : \A n \in T : m <= n
<1>1. IsWellFoundedOn(OpToRel(<, Nat), Nat)
  BY NatLessThanWellFounded
<1>2. PICK m \in T : \A n \in T : ~(<<n, m>> \in OpToRel(<, Nat))
  BY <1>1, WFMin
<1>3. \A n \in T : ~(n < m)
  BY <1>2 DEF OpToRel
<1> QED
  BY <1>3

(* A set that holds 0 and with each number up to L the next.               *)
LEMMA Induction ==
  ASSUME NEW L \in Nat, NEW T, 0 \in T, \A n \in 0..(L - 1) : n \in T => n + 1 \in T
  PROVE  0..L \subseteq T
<1> SUFFICES ASSUME (0..L) \ T # {}
             PROVE  FALSE
  OBVIOUS
<1>1. PICK m \in (0..L) \ T : \A n \in (0..L) \ T : m <= n
  <2>1. (0..L) \ T \in SUBSET Nat
    OBVIOUS
  <2> QED
    BY <2>1, Least
<1>2. m # 0 /\ m - 1 \in 0..(L - 1) /\ m - 1 < m /\ m = (m - 1) + 1
  BY <1>1
<1>3. m - 1 \in T
  BY <1>1, <1>2
<1> QED
  BY <1>1, <1>2, <1>3

(* The functions on 0..L that start with e and go on with step.            *)
Runs(L, S, e, step) ==
  {f \in [0..L -> S] : f[0] = e /\ \A n \in 1..L : f[n] = step[n][f[n - 1]]}

(* There is one.                                                           *)
LEMMA Recursion ==
  ASSUME NEW L \in Nat, NEW S, NEW e \in S, NEW step \in [1..L -> [S -> S]]
  PROVE  Runs(L, S, e, step) # {}
<1> USE DEF Runs
<1> DEFINE T == {m \in 0..L : Runs(m, S, e, step) # {}}
<1>1. 0 \in T
  <2>1. [n \in 0..0 |-> e] \in Runs(0, S, e, step)
    OBVIOUS
  <2> QED
    BY <2>1
<1>2. ASSUME NEW m \in 0..(L - 1), m \in T
      PROVE  m + 1 \in T
  <2>1. PICK f \in Runs(m, S, e, step) : TRUE
    BY <1>2
  <2> DEFINE g == [n \in 0..(m + 1) |-> IF n = m + 1 THEN step[m + 1][f[m]] ELSE f[n]]
  <2>2. m \in Nat /\ m + 1 \in 1..L /\ f \in [0..m -> S] /\ f[m] \in S
    BY <2>1
  <2>3. step[m + 1][f[m]] \in S
    BY <2>2
  <2>4. g \in [0..(m + 1) -> S] /\ g[0] = e
    BY <2>1, <2>2, <2>3
  <2>5. ASSUME NEW n \in 1..(m + 1)
        PROVE  g[n] = step[n][g[n - 1]]
    <3>1. CASE n = m + 1
      <4>1. n - 1 = m /\ m # m + 1 /\ m \in 0..(m + 1) /\ n \in 0..(m + 1)
        BY <2>2, <3>1
      <4>2. g[n] = step[m + 1][f[m]] /\ g[n - 1] = f[m]
        BY <3>1, <4>1
      <4> QED
        BY <3>1, <4>2
    <3>2. CASE n \in 1..m
      <4>1. n \in 0..(m + 1) /\ n - 1 \in 0..(m + 1) /\ n # m + 1 /\ n - 1 # m + 1
        BY <2>2, <3>2
      <4>2. g[n] = f[n] /\ g[n - 1] = f[n - 1]
        BY <4>1
      <4> QED
        BY <2>1, <3>2, <4>2
    <3> QED
      BY <2>2, <3>1, <3>2
  <2> HIDE DEF g
  <2>6. g \in Runs(m + 1, S, e, step)
    BY <2>4, <2>5
  <2> QED
    BY <2>2, <2>6
<1> HIDE DEF T
<1>3. L \in T
  <2>1. \A m \in 0..(L - 1) : m \in T => m + 1 \in T
    BY <1>2
  <2>2. 0..L \subseteq T
    BY <1>1, <2>1, Induction
  <2> QED
    BY <2>2
<1> QED
  BY <1>3 DEF T

-----------------------------------------------------------------------------
(* The splitting of a stream byte by byte.                                 *)

Frames == Seq(Seq(Bytes))
Splits == [frames : Frames, cur : Seq(Bytes)]

(* The place in a part of a sequence.                                      *)
LEMMA Part ==
  ASSUME NEW s \in Seq(Bytes), NEW a \in 1..(Len(s) + 1), NEW b \in (a - 1)..Len(s)
  PROVE  /\ SubSeq(s, a, b) \in Seq(Bytes)
         /\ Len(SubSeq(s, a, b)) = b - a + 1
         /\ \A i \in 1..(b - a + 1) : SubSeq(s, a, b)[i] = s[a + i - 1]
<1>1. Len(s) \in Nat /\ a \in Int /\ b \in Int
  OBVIOUS
<1>2. \A i \in a..b : s[i] \in Bytes
  BY <1>1
<1>3. /\ SubSeq(s, a, b) \in Seq(Bytes)
      /\ Len(SubSeq(s, a, b)) = IF a <= b THEN b - a + 1 ELSE 0
      /\ \A i \in 1..(b - a + 1) : SubSeq(s, a, b)[i] = s[a + i - 1]
  BY <1>1, <1>2, SubSeqProperties
<1> QED
  BY <1>1, <1>3

LEMMA PartGrows ==
  ASSUME NEW s \in Seq(Bytes), NEW a \in 1..Len(s), NEW b \in (a - 1)..(Len(s) - 1)
  PROVE  Append(SubSeq(s, a, b), s[b + 1]) = SubSeq(s, a, b + 1)
<1> DEFINE x == SubSeq(s, a, b)  y == SubSeq(s, a, b + 1)  n == b - a + 1
<1>1. /\ Len(s) \in Nat /\ n \in Nat /\ b + 1 \in 1..Len(s) /\ (b + 1) - a + 1 = n + 1
      /\ a \in 1..(Len(s) + 1) /\ b \in (a - 1)..Len(s) /\ b + 1 \in (a - 1)..Len(s)
      /\ a + (n + 1) - 1 = b + 1
  OBVIOUS
<1>2. x \in Seq(Bytes) /\ Len(x) = n /\ \A i \in 1..n : x[i] = s[a + i - 1]
  BY <1>1, Part
<1>3. y \in Seq(Bytes) /\ Len(y) = n + 1 /\ \A i \in 1..(n + 1) : y[i] = s[a + i - 1]
  BY <1>1, Part
<1>4. s[b + 1] \in Bytes
  BY <1>1
<1> HIDE DEF x, y, n
<1>5. /\ Append(x, s[b + 1]) \in Seq(Bytes) /\ Len(Append(x, s[b + 1])) = n + 1
      /\ \A i \in 1..(n + 1) : Append(x, s[b + 1])[i] = s[a + i - 1]
  <2>1. /\ Append(x, s[b + 1]) \in Seq(Bytes) /\ Len(Append(x, s[b + 1])) = n + 1
        /\ \A i \in 1..n : Append(x, s[b + 1])[i] = x[i]
        /\ Append(x, s[b + 1])[n + 1] = s[b + 1]
    BY <1>1, <1>2, <1>4
  <2> QED
    BY <1>1, <1>2, <2>1
<1>6. Append(x, s[b + 1]) = y
  BY <1>3, <1>5, SeqEqual
<1> QED
  BY <1>6 DEF x, y

LEMMA PartOfPart ==
  ASSUME NEW s \in Seq(Bytes), NEW a \in 1..(Len(s) + 1), NEW b \in (a - 1)..Len(s),
         NEW c \in 1..(b - a + 2), NEW d \in (c - 1)..(b - a + 1)
  PROVE  SubSeq(SubSeq(s, a, b), c, d) = SubSeq(s, a + c - 1, a + d - 1)
<1> DEFINE x == SubSeq(s, a, b)  y == SubSeq(x, c, d)  z == SubSeq(s, a + c - 1, a + d - 1)
           n == d - c + 1
<1>1. /\ Len(s) \in Nat /\ n \in Nat /\ a + c - 1 \in 1..(Len(s) + 1)
      /\ a + d - 1 \in ((a + c - 1) - 1)..Len(s) /\ (a + d - 1) - (a + c - 1) + 1 = n
      /\ c \in 1..((b - a + 1) + 1) /\ c \in Nat
  OBVIOUS
<1>2. x \in Seq(Bytes) /\ Len(x) = b - a + 1 /\ \A i \in 1..(b - a + 1) : x[i] = s[a + i - 1]
  BY Part
<1>3. z \in Seq(Bytes) /\ Len(z) = n /\ \A i \in 1..n : z[i] = s[(a + c - 1) + i - 1]
  BY <1>1, Part
<1> HIDE DEF x
<1>4. y \in Seq(Bytes) /\ Len(y) = n /\ \A i \in 1..n : y[i] = x[c + i - 1]
  BY <1>1, <1>2, Part
<1>5. ASSUME NEW i \in 1..n
      PROVE  y[i] = z[i]
  <2>1. c + i - 1 \in 1..(b - a + 1) /\ (a + c - 1) + i - 1 = a + (c + i - 1) - 1
    BY <1>1
  <2> HIDE DEF y, z, n
  <2> QED
    BY <1>2, <1>3, <1>4, <2>1
<1> HIDE DEF y, z, n
<1>6. y = z
  BY <1>3, <1>4, <1>5, SeqEqual
<1> QED
  BY <1>6 DEF x, y, z

(* The content of a frame is a sequence of bytes.                          *)
LEMMA ContentType ==
  ASSUME NEW p \in Protocols, NEW cur \in Seq(Bytes), cur # <<>>, Complete(p, cur)
  PROVE  Content(p, cur) \in Seq(Bytes)
<1>1. Len(cur) \in Nat \ {0} /\ 1 \in 1..(Len(cur) + 1)
  OBVIOUS
<1>2. CASE p = "line"
  <2>1. Front(cur) \in Seq(Bytes)
    BY <1>1, Part DEF Front
  <2>2. Front(cur) # <<>> => Front(Front(cur)) \in Seq(Bytes)
    <3>1. ASSUME NEW s \in Seq(Bytes), s # <<>>
          PROVE  Front(s) \in Seq(Bytes)
      <4>1. Len(s) \in Nat \ {0}
        BY <3>1
      <4>2. 1 \in 1..(Len(s) + 1) /\ Len(s) - 1 \in 0..Len(s)
        BY <4>1
      <4> QED
        BY <4>2, Part DEF Front
    <3> QED
      BY <2>1, <3>1
  <2> QED
    BY <1>2, <2>1, <2>2 DEF Content
<1>3. CASE p = "fixed"
  BY <1>3 DEF Content
<1>4. CASE p = "binary"
  <2>1. Header \in Nat /\ Header <= Len(cur)
    BY <1>4, SizesAssumption DEF Complete
  <2>2. Header + 1 \in 1..(Len(cur) + 1) /\ Len(cur) \in Header..Len(cur)
    BY <1>1, <2>1
  <2>3. SubSeq(cur, Header + 1, Len(cur)) \in Seq(Bytes)
    BY <2>1, <2>2, Part
  <2> QED
    BY <1>4, <2>3 DEF Content
<1> QED
  BY <1>2, <1>3, <1>4 DEF Protocols

LEMMA AddByteType ==
  ASSUME NEW p \in Protocols, NEW acc \in Splits, NEW byte \in Bytes
  PROVE  AddByte(p, acc, byte) \in Splits
<1> DEFINE cur == Append(acc.cur, byte)
<1>1. cur \in Seq(Bytes) /\ cur # <<>> /\ acc.frames \in Frames
  BY DEF Splits
<1>2. AddByte(p, acc, byte) = IF Complete(p, cur)
        THEN [frames |-> Append(acc.frames, Content(p, cur)), cur |-> <<>>]
        ELSE [frames |-> acc.frames, cur |-> cur]
  BY DEF AddByte
<1> HIDE DEF cur
<1>3. CASE Complete(p, cur)
  <2>1. Content(p, cur) \in Seq(Bytes)
    BY <1>1, <1>3, ContentType
  <2>2. Append(acc.frames, Content(p, cur)) \in Frames
    BY <1>1, <2>1 DEF Frames
  <2> QED
    BY <1>2, <1>3, <2>2 DEF Splits
<1>4. CASE ~Complete(p, cur)
  BY <1>1, <1>2, <1>4 DEF Splits
<1> QED
  BY <1>3, <1>4

Start == [frames |-> <<>>, cur |-> <<>>]

(* SplitAt() is the function that its recursion describes.                 *)
LEMMA SplitAtDef ==
  ASSUME NEW p \in Protocols, NEW s \in Seq(Bytes)
  PROVE  /\ SplitAt(p, s) \in [0..Len(s) -> Splits]
         /\ SplitAt(p, s)[0] = Start
         /\ \A n \in 1..Len(s) : SplitAt(p, s)[n] = AddByte(p, SplitAt(p, s)[n - 1], s[n])
<1> DEFINE L == Len(s)
           G(f) == [n \in 0..L |-> IF n = 0 THEN Start ELSE AddByte(p, f[n - 1], s[n])]
           step == [n \in 1..L |-> [x \in Splits |-> AddByte(p, x, s[n])]]
<1>1. L \in Nat /\ \A n \in 1..L : s[n] \in Bytes
  OBVIOUS
<1>2. SplitAt(p, s) = CHOOSE f : f = G(f)
  BY DEF SplitAt, Start
<1> HIDE DEF L
<1>3. step \in [1..L -> [Splits -> Splits]]
  BY <1>1, AddByteType
<1>4. Start \in Splits
  BY DEF Start, Splits, Frames
<1>5. PICK f \in [0..L -> Splits] : f[0] = Start /\ \A n \in 1..L : f[n] = step[n][f[n - 1]]
  <2> HIDE DEF step
  <2>1. Runs(L, Splits, Start, step) # {}
    BY <1>1, <1>3, <1>4, Recursion
  <2> QED
    BY <2>1 DEF Runs
<1>6. \A n \in 1..L : f[n] = AddByte(p, f[n - 1], s[n])
  <2> TAKE n \in 1..L
  <2>1. n - 1 \in 0..L /\ f[n - 1] \in Splits
    BY <1>1
  <2>2. step[n][f[n - 1]] = AddByte(p, f[n - 1], s[n])
    BY <2>1
  <2> QED
    BY <1>5, <2>2
<1>7. f = G(f)
  <2>1. ASSUME NEW n \in 0..L
        PROVE  f[n] = IF n = 0 THEN Start ELSE AddByte(p, f[n - 1], s[n])
    BY <1>1, <1>5, <1>6
  <2> QED
    BY <2>1
<1> DEFINE a == SplitAt(p, s)
<1>8. a = G(a)
  BY <1>2, <1>7
<1> HIDE DEF a
<1>9. a[0] = Start /\ \A n \in 1..L : a[n] = AddByte(p, a[n - 1], s[n])
  BY <1>1, <1>8
<1>10. 0..L \subseteq {n \in 0..L : a[n] \in Splits}
  <2> DEFINE T == {n \in 0..L : a[n] \in Splits}
  <2>1. 0 \in T
    BY <1>1, <1>4, <1>9
  <2>2. ASSUME NEW n \in 0..(L - 1), n \in T
        PROVE  n + 1 \in T
    <3>1. n + 1 \in 1..L /\ (n + 1) - 1 = n /\ n + 1 \in 0..L
      BY <1>1
    <3>2. a[n + 1] = AddByte(p, a[n], s[n + 1])
      BY <1>9, <3>1
    <3> QED
      BY <1>1, <2>2, <3>1, <3>2, AddByteType
  <2> HIDE DEF T
  <2> QED
    BY <1>1, <2>1, <2>2, Induction DEF T
<1>11. a \in [0..L -> Splits]
  BY <1>8, <1>10
<1> QED
  BY <1>9, <1>11 DEF a, L

-----------------------------------------------------------------------------
(* The loop of the line protocol and the number in a header are the        *)
(* functions that their recursions describe.                               *)

LineResults == [processed : Nat, frames : Frames, overread : {FALSE}]

LEMMA LineType ==
  ASSUME NEW data \in Seq(Bytes), NEW from \in Nat \ {0}, NEW i \in 1..Len(data)
  PROVE  Line(data, from, i) \in Seq(Bytes)
<1>1. Len(data) \in Nat /\ \A k \in 1..Len(data) : data[k] \in Bytes
  OBVIOUS
<1>2. ASSUME NEW b \in 0..Len(data)
      PROVE  SubSeq(data, from, b) \in Seq(Bytes)
  <2>1. from \in Int /\ b \in Int /\ \A k \in from..b : data[k] \in Bytes
    BY <1>1
  <2> QED
    BY <2>1, SubSeqProperties
<1>3. i - 1 \in 0..Len(data) /\ (i > 1 => i - 2 \in 0..Len(data))
  BY <1>1
<1> QED
  BY <1>2, <1>3 DEF Line

LEMMA LineByteType ==
  ASSUME NEW data \in Seq(Bytes), NEW x \in LineResults, NEW i \in 1..Len(data)
  PROVE  LineByte(data, x, i) \in LineResults
<1>1. x.processed \in Nat /\ x.frames \in Frames /\ i \in Nat
  BY DEF LineResults
<1>2. x.processed + 1 \in Nat \ {0}
  BY <1>1
<1>3. Append(x.frames, Line(data, x.processed + 1, i)) \in Frames
  BY <1>1, <1>2, LineType DEF Frames
<1> QED
  BY <1>1, <1>3 DEF LineByte, Result, LineResults

LEMMA LineLoopDef ==
  ASSUME NEW s \in Seq(Bytes)
  PROVE  /\ LineLoop(s) \in [0..Len(s) -> LineResults]
         /\ LineLoop(s)[0] = NeedsMore
         /\ \A n \in 1..Len(s) : LineLoop(s)[n] = LineByte(s, LineLoop(s)[n - 1], n)
<1> DEFINE L == Len(s)
           G(f) == [n \in 0..L |-> IF n = 0 THEN NeedsMore ELSE LineByte(s, f[n - 1], n)]
           step == [n \in 1..L |-> [x \in LineResults |-> LineByte(s, x, n)]]
<1>1. L \in Nat
  OBVIOUS
<1>2. LineLoop(s) = CHOOSE f : f = G(f)
  BY DEF LineLoop
<1>3. step \in [1..L -> [LineResults -> LineResults]]
  BY LineByteType
<1> HIDE DEF L
<1>4. NeedsMore \in LineResults
  BY DEF NeedsMore, Result, LineResults, Frames
<1>5. PICK f \in [0..L -> LineResults] :
        f[0] = NeedsMore /\ \A n \in 1..L : f[n] = step[n][f[n - 1]]
  <2> HIDE DEF step
  <2>1. Runs(L, LineResults, NeedsMore, step) # {}
    BY <1>1, <1>3, <1>4, Recursion
  <2> QED
    BY <2>1 DEF Runs
<1>6. \A n \in 1..L : f[n] = LineByte(s, f[n - 1], n)
  <2> TAKE n \in 1..L
  <2>1. n - 1 \in 0..L /\ f[n - 1] \in LineResults
    BY <1>1
  <2>2. step[n][f[n - 1]] = LineByte(s, f[n - 1], n)
    BY <2>1
  <2> QED
    BY <1>5, <2>2
<1>7. f = G(f)
  <2>1. ASSUME NEW n \in 0..L
        PROVE  f[n] = IF n = 0 THEN NeedsMore ELSE LineByte(s, f[n - 1], n)
    BY <1>1, <1>5, <1>6
  <2> QED
    BY <2>1
<1> DEFINE a == LineLoop(s)
<1>8. a = G(a)
  BY <1>2, <1>7
<1> HIDE DEF a
<1>9. a[0] = NeedsMore /\ \A n \in 1..L : a[n] = LineByte(s, a[n - 1], n)
  BY <1>1, <1>8
<1>10. 0..L \subseteq {n \in 0..L : a[n] \in LineResults}
  <2> DEFINE T == {n \in 0..L : a[n] \in LineResults}
  <2>1. 0 \in T
    BY <1>1, <1>4, <1>9
  <2>2. ASSUME NEW n \in 0..(L - 1), n \in T
        PROVE  n + 1 \in T
    <3>1. n + 1 \in 1..L /\ (n + 1) - 1 = n /\ n + 1 \in 0..L /\ n + 1 \in 1..Len(s)
      BY <1>1 DEF L
    <3>2. a[n + 1] = LineByte(s, a[n], n + 1)
      BY <1>9, <3>1
    <3> QED
      BY <2>2, <3>1, <3>2, LineByteType
  <2> HIDE DEF T
  <2> QED
    BY <1>1, <2>1, <2>2, Induction DEF T
<1>11. a \in [0..L -> LineResults]
  BY <1>8, <1>10
<1> QED
  BY <1>9, <1>11 DEF a, L

LEMMA NumberDef ==
  ASSUME NEW s \in Seq(Bytes)
  PROVE  Number(s) \in [0..Len(s) -> Nat]
<1> DEFINE L == Len(s)
           Next1(x, n) == x * Base + s[n]
           G(f) == [n \in 0..L |-> IF n = 0 THEN 0 ELSE Next1(f[n - 1], n)]
           step == [n \in 1..L |-> [x \in Nat |-> Next1(x, n)]]
<1>1. L \in Nat /\ \A n \in 1..L : s[n] \in Nat
  BY SizesAssumption DEF Bytes
<1>2. Number(s) = CHOOSE f : f = G(f)
  BY DEF Number
<1> HIDE DEF L
<1>3. \A n \in 1..L, x \in Nat : Next1(x, n) \in Nat
  BY <1>1, SizesAssumption
<1> HIDE DEF Next1
<1>4. step \in [1..L -> [Nat -> Nat]]
  BY <1>3
<1>5. PICK f \in [0..L -> Nat] : f[0] = 0 /\ \A n \in 1..L : f[n] = step[n][f[n - 1]]
  <2> HIDE DEF step
  <2>1. Runs(L, Nat, 0, step) # {}
    BY <1>1, <1>4, Recursion
  <2> QED
    BY <2>1 DEF Runs
<1>6. \A n \in 1..L : f[n] = Next1(f[n - 1], n)
  <2> TAKE n \in 1..L
  <2>1. n - 1 \in 0..L /\ f[n - 1] \in Nat
    BY <1>1
  <2>2. step[n][f[n - 1]] = Next1(f[n - 1], n)
    BY <2>1
  <2> QED
    BY <1>5, <2>2
<1>7. f = G(f)
  <2>1. ASSUME NEW n \in 0..L
        PROVE  f[n] = IF n = 0 THEN 0 ELSE Next1(f[n - 1], n)
    BY <1>1, <1>5, <1>6
  <2> QED
    BY <2>1
<1> DEFINE a == Number(s)
<1>8. a = G(a)
  BY <1>2, <1>7
<1> HIDE DEF a
<1>9. a[0] = 0 /\ \A n \in 1..L : a[n] = Next1(a[n - 1], n)
  BY <1>1, <1>8
<1>10. 0..L \subseteq {n \in 0..L : a[n] \in Nat}
  <2> DEFINE T == {n \in 0..L : a[n] \in Nat}
  <2>1. 0 \in T
    BY <1>1, <1>9
  <2>2. ASSUME NEW n \in 0..(L - 1), n \in T
        PROVE  n + 1 \in T
    <3>1. n + 1 \in 1..L /\ (n + 1) - 1 = n /\ n + 1 \in 0..L
      BY <1>1
    <3>2. a[n + 1] = Next1(a[n], n + 1)
      BY <1>9, <3>1
    <3> QED
      BY <1>3, <2>2, <3>1, <3>2
  <2> HIDE DEF T
  <2> QED
    BY <1>1, <2>1, <2>2, Induction DEF T
<1>11. a \in [0..L -> Nat]
  BY <1>8, <1>10
<1> QED
  BY <1>11 DEF a, L

(* The length is that of the first bytes.                                  *)
LEMMA LengthFacts ==
  ASSUME NEW data \in Seq(Bytes), Header <= Len(data)
  PROVE  /\ payload_length(data) \in Nat
         /\ \A k \in Header..Len(data) :
              payload_length(SubSeq(data, 1, k)) = payload_length(data)
<1>1. Header \in Nat \ {0} /\ Len(data) \in Nat
  BY SizesAssumption
<1>2. SubSeq(data, 1, Header) \in Seq(Bytes) /\ Len(SubSeq(data, 1, Header)) = Header
  BY <1>1, Part
<1>3. payload_length(data) \in Nat
  BY <1>1, <1>2, NumberDef DEF payload_length
<1>4. ASSUME NEW k \in Header..Len(data)
      PROVE  SubSeq(SubSeq(data, 1, k), 1, Header) = SubSeq(data, 1, Header)
  <2> DEFINE s == SubSeq(data, 1, k)  t == SubSeq(data, 1, Header)
  <2>1. s \in Seq(Bytes) /\ Len(s) = k /\ \A i \in 1..k : s[i] = data[i]
    BY <1>1, Part
  <2>2. t \in Seq(Bytes) /\ Len(t) = Header /\ \A i \in 1..Header : t[i] = data[i]
    BY <1>1, Part
  <2> HIDE DEF s, t
  <2>3. /\ SubSeq(s, 1, Header) \in Seq(Bytes) /\ Len(SubSeq(s, 1, Header)) = Header
        /\ \A i \in 1..Header : SubSeq(s, 1, Header)[i] = s[i]
    BY <1>1, <2>1, Part
  <2>4. SubSeq(s, 1, Header) = t
    BY <1>1, <2>1, <2>2, <2>3, SeqEqual
  <2> QED
    BY <2>4 DEF s, t
<1> QED
  BY <1>3, <1>4 DEF payload_length

-----------------------------------------------------------------------------
(* The splitting goes on from where it is: what came before matters only   *)
(* through the bytes of the frame that is not complete.                    *)

After(h, acc) == [frames |-> h \o acc.frames, cur |-> acc.cur]

LEMMA FramesJoin ==
  ASSUME NEW g \in Frames, NEW h \in Frames, NEW f \in Frames
  PROVE  g \o (h \o f) = (g \o h) \o f
<1> DEFINE S == Seq(Bytes)  a == h \o f  b == g \o h  c == g \o a  d == b \o f
<1>1. g \in Seq(S) /\ h \in Seq(S) /\ f \in Seq(S)
  BY DEF Frames
<1>2. Len(g) \in Nat /\ Len(h) \in Nat /\ Len(f) \in Nat
  BY <1>1
<1> HIDE DEF S
<1>3. /\ a \in Seq(S) /\ Len(a) = Len(h) + Len(f)
      /\ \A i \in 1..(Len(h) + Len(f)) : a[i] = IF i <= Len(h) THEN h[i] ELSE f[i - Len(h)]
  BY <1>1, ConcatProperties
<1>4. /\ b \in Seq(S) /\ Len(b) = Len(g) + Len(h)
      /\ \A i \in 1..(Len(g) + Len(h)) : b[i] = IF i <= Len(g) THEN g[i] ELSE h[i - Len(g)]
  BY <1>1, ConcatProperties
<1> HIDE DEF a, b
<1>5. /\ c \in Seq(S) /\ Len(c) = Len(g) + Len(a)
      /\ \A i \in 1..(Len(g) + Len(a)) : c[i] = IF i <= Len(g) THEN g[i] ELSE a[i - Len(g)]
  <2>1. g \in Seq(S) /\ a \in Seq(S)
    BY <1>1, <1>3
  <2> QED
    BY ONLY <2>1, ConcatProperties
<1>6. /\ d \in Seq(S) /\ Len(d) = Len(b) + Len(f)
      /\ \A i \in 1..(Len(b) + Len(f)) : d[i] = IF i <= Len(b) THEN b[i] ELSE f[i - Len(b)]
  <2>1. b \in Seq(S) /\ f \in Seq(S)
    BY <1>1, <1>4
  <2> QED
    BY ONLY <2>1, ConcatProperties
<1> HIDE DEF c, d
<1>7. ASSUME NEW i \in 1..Len(c)
      PROVE  c[i] = d[i]
  <2>1. i \in 1..(Len(g) + Len(a)) /\ i \in 1..(Len(b) + Len(f)) /\ i \in Nat
    BY <1>2, <1>3, <1>4, <1>5
  <2>2. CASE i <= Len(g)
    <3>1. i <= Len(b) /\ i \in 1..(Len(g) + Len(h))
      BY <1>2, <1>4, <2>1, <2>2
    <3> QED
      BY <1>4, <1>5, <1>6, <2>1, <2>2, <3>1
  <2>3. CASE i > Len(g) /\ i <= Len(b)
    <3>1. /\ ~(i <= Len(g)) /\ i \in 1..(Len(g) + Len(h)) /\ i - Len(g) <= Len(h)
          /\ i - Len(g) \in 1..(Len(h) + Len(f))
      BY <1>2, <1>4, <2>1, <2>3
    <3>2. c[i] = a[i - Len(g)] /\ a[i - Len(g)] = h[i - Len(g)]
      BY <1>3, <1>5, <2>1, <3>1
    <3>3. d[i] = b[i] /\ b[i] = h[i - Len(g)]
      BY <1>4, <1>6, <2>1, <2>3, <3>1
    <3> QED
      BY <3>2, <3>3
  <2>4. CASE i > Len(b)
    <3>1. /\ ~(i <= Len(g)) /\ ~(i <= Len(b)) /\ ~(i - Len(g) <= Len(h))
          /\ i - Len(g) \in 1..(Len(h) + Len(f)) /\ (i - Len(g)) - Len(h) = i - Len(b)
      BY <1>2, <1>3, <1>4, <2>1, <2>4
    <3>2. c[i] = a[i - Len(g)] /\ a[i - Len(g)] = f[(i - Len(g)) - Len(h)]
      BY <1>3, <1>5, <2>1, <3>1
    <3>3. d[i] = f[i - Len(b)]
      BY <1>6, <2>1, <3>1
    <3> QED
      BY <3>1, <3>2, <3>3
  <2> QED
    BY <1>2, <1>4, <2>1, <2>2, <2>3, <2>4
<1>8. Len(c) = Len(d)
  BY <1>2, <1>3, <1>4, <1>5, <1>6
<1>9. c = d
  BY <1>5, <1>6, <1>7, <1>8, SeqEqual
<1> QED
  BY <1>9 DEF a, b, c, d

LEMMA AfterFacts ==
  ASSUME NEW h \in Frames, NEW acc \in Splits
  PROVE  /\ After(h, acc) \in Splits
         /\ After(h, acc).frames = h \o acc.frames /\ After(h, acc).cur = acc.cur
         /\ After(<<>>, acc) = acc
         /\ \A g \in Frames : After(g, After(h, acc)) = After(g \o h, acc)
<1>1. acc.frames \in Frames /\ acc.cur \in Seq(Bytes) /\ acc = [frames |-> acc.frames, cur |-> acc.cur]
  BY DEF Splits
<1>2. h \o acc.frames \in Frames
  BY <1>1 DEF Frames
<1>3. After(h, acc).frames = h \o acc.frames /\ After(h, acc).cur = acc.cur
  BY DEF After
<1>4. <<>> \o acc.frames = acc.frames
  BY <1>1, ConcatEmptySeq DEF Frames
<1>5. \A g \in Frames : g \o (h \o acc.frames) = (g \o h) \o acc.frames
  BY <1>1, FramesJoin
<1>6. After(<<>>, acc) = acc
  BY <1>1, <1>4 DEF After
<1>7. \A g \in Frames : After(g, After(h, acc)) = After(g \o h, acc)
  BY <1>3, <1>5 DEF After
<1>8. After(h, acc) \in Splits
  BY <1>1, <1>2 DEF After, Splits
<1> QED
  BY <1>3, <1>6, <1>7, <1>8

(* An element at the end of the second of two sequences.                   *)
LEMMA AppendBehind ==
  ASSUME NEW h \in Frames, NEW f \in Frames, NEW e \in Seq(Bytes)
  PROVE  h \o Append(f, e) = Append(h \o f, e)
<1> DEFINE S == Seq(Bytes)
<1>0. h \in Seq(S) /\ f \in Seq(S) /\ e \in S
  BY DEF Frames
<1> HIDE DEF S
<1> DEFINE a == h \o Append(f, e)  b == Append(h \o f, e)
<1>1. /\ Append(f, e) \in Seq(S) /\ Len(Append(f, e)) = Len(f) + 1
      /\ \A i \in 1..Len(f) : Append(f, e)[i] = f[i]
      /\ Append(f, e)[Len(f) + 1] = e
  BY <1>0
<1>2. h \o f \in Seq(S) /\ Len(h \o f) = Len(h) + Len(f) /\ Len(h) \in Nat /\ Len(f) \in Nat
  BY <1>0, ConcatProperties
<1>3. /\ a \in Seq(S) /\ Len(a) = Len(h) + Len(f) + 1
      /\ \A i \in 1..(Len(h) + Len(f) + 1) :
           a[i] = IF i <= Len(h) THEN h[i] ELSE Append(f, e)[i - Len(h)]
  BY <1>0, <1>1, <1>2, ConcatProperties
<1>4. /\ b \in Seq(S) /\ Len(b) = Len(h) + Len(f) + 1
      /\ \A i \in 1..(Len(h) + Len(f)) : b[i] = (h \o f)[i]
      /\ b[Len(h) + Len(f) + 1] = e
  BY <1>0, <1>2
<1>5. \A i \in 1..(Len(h) + Len(f)) : (h \o f)[i] = IF i <= Len(h) THEN h[i] ELSE f[i - Len(h)]
  BY <1>0, <1>2, ConcatProperties
<1> HIDE DEF a, b
<1>6. ASSUME NEW i \in 1..Len(a)
      PROVE  a[i] = b[i]
  <2>1. CASE i <= Len(h)
    <3>1. i \in 1..(Len(h) + Len(f)) /\ i \in 1..(Len(h) + Len(f) + 1)
      BY <1>2, <1>3, <2>1
    <3> QED
      BY <1>3, <1>4, <1>5, <2>1, <3>1
  <2>2. CASE i > Len(h) /\ i <= Len(h) + Len(f)
    <3>1. i - Len(h) \in 1..Len(f) /\ i \in 1..(Len(h) + Len(f)) /\ ~(i <= Len(h))
      BY <1>2, <1>3, <2>2
    <3> QED
      BY <1>1, <1>3, <1>4, <1>5, <3>1
  <2>3. CASE i = Len(h) + Len(f) + 1
    <3>1. i - Len(h) = Len(f) + 1 /\ ~(i <= Len(h))
      BY <1>2, <2>3
    <3> QED
      BY <1>1, <1>3, <1>4, <2>3, <3>1
  <2>4. i \in Nat /\ i <= Len(h) + Len(f) + 1
    BY <1>2, <1>3
  <2> QED
    BY <1>2, <2>1, <2>2, <2>3, <2>4
<1>7. a = b
  BY <1>3, <1>4, <1>6, SeqEqual
<1> QED
  BY <1>7 DEF a, b

LEMMA AddByteAfter ==
  ASSUME NEW p \in Protocols, NEW h \in Frames, NEW acc \in Splits, NEW byte \in Bytes
  PROVE  AddByte(p, After(h, acc), byte) = After(h, AddByte(p, acc, byte))
<1> DEFINE cur == Append(acc.cur, byte)
<1>1. acc.frames \in Frames /\ cur \in Seq(Bytes) /\ cur # <<>>
  BY DEF Splits
<1>2. After(h, acc).frames = h \o acc.frames /\ After(h, acc).cur = acc.cur
  BY DEF After
<1>3. /\ AddByte(p, acc, byte) = IF Complete(p, cur)
           THEN [frames |-> Append(acc.frames, Content(p, cur)), cur |-> <<>>]
           ELSE [frames |-> acc.frames, cur |-> cur]
      /\ AddByte(p, After(h, acc), byte) = IF Complete(p, cur)
           THEN [frames |-> Append(h \o acc.frames, Content(p, cur)), cur |-> <<>>]
           ELSE [frames |-> h \o acc.frames, cur |-> cur]
  BY <1>2 DEF AddByte
<1> HIDE DEF cur
<1>4. CASE Complete(p, cur)
  <2>1. Content(p, cur) \in Seq(Bytes)
    BY <1>1, <1>4, ContentType
  <2>2. h \o Append(acc.frames, Content(p, cur)) = Append(h \o acc.frames, Content(p, cur))
    BY <1>1, <2>1, AppendBehind
  <2>3. AddByte(p, acc, byte) = [frames |-> Append(acc.frames, Content(p, cur)), cur |-> <<>>]
    BY <1>3, <1>4
  <2>4. AddByte(p, After(h, acc), byte) =
          [frames |-> Append(h \o acc.frames, Content(p, cur)), cur |-> <<>>]
    BY <1>3, <1>4
  <2>5. After(h, AddByte(p, acc, byte)) =
          [frames |-> h \o Append(acc.frames, Content(p, cur)), cur |-> <<>>]
    BY <2>3 DEF After
  <2> QED
    BY <2>2, <2>4, <2>5, Zenon
<1>5. CASE ~Complete(p, cur)
  BY <1>3, <1>5 DEF After
<1> QED
  BY <1>4, <1>5

(* The same bytes: s behind a and t behind b, up to the place c of s.      *)
Same(s, a, c, t, b) == \A k \in 1..(c - a) : s[a + k] = t[b + k]

(* Two streams that go on with the same bytes, the first with the frames   *)
(* h ahead of the second.                                                  *)
LEMMA Along ==
  ASSUME NEW p \in Protocols, NEW s \in Seq(Bytes), NEW t \in Seq(Bytes), NEW h \in Frames,
         NEW a \in Nat, NEW b \in Nat, NEW c \in a..Len(s), NEW d \in b..Len(t),
         c - a = d - b, Same(s, a, c, t, b),
         SplitAt(p, s)[a] = After(h, SplitAt(p, t)[b])
  PROVE  SplitAt(p, s)[c] = After(h, SplitAt(p, t)[d])
<1> DEFINE F == SplitAt(p, s)
           G == SplitAt(p, t)
           m == c - a
           T == {k \in 0..m : F[a + k] = After(h, G[b + k])}
<1>1. Len(s) \in Nat /\ Len(t) \in Nat /\ \A n \in 1..Len(t) : t[n] \in Bytes
  OBVIOUS
<1>2. \A n \in 1..Len(s) : F[n] = AddByte(p, F[n - 1], s[n])
  BY SplitAtDef
<1>3. G \in [0..Len(t) -> Splits] /\ \A n \in 1..Len(t) : G[n] = AddByte(p, G[n - 1], t[n])
  BY SplitAtDef
<1>4. F[a] = After(h, G[b])
  OBVIOUS
<1>5. m \in Nat /\ a + m = c /\ b + m = d /\ a + m <= Len(s) /\ b + m <= Len(t)
  BY <1>1
<1>6. \A k \in 1..m : s[a + k] = t[b + k]
  BY DEF Same
<1> HIDE DEF F, G, m
<1>7. 0 \in T
  BY <1>4, <1>5
<1>8. ASSUME NEW k \in 0..(m - 1), k \in T
      PROVE  k + 1 \in T
  <2>1. /\ a + (k + 1) \in 1..Len(s) /\ (a + (k + 1)) - 1 = a + k
        /\ b + (k + 1) \in 1..Len(t) /\ (b + (k + 1)) - 1 = b + k
        /\ b + k \in 0..Len(t) /\ k + 1 \in 1..m /\ k + 1 \in 0..m
    BY <1>1, <1>5
  <2>2. F[a + (k + 1)] = AddByte(p, F[a + k], s[a + (k + 1)])
    BY <1>2, <2>1
  <2>3. G[b + (k + 1)] = AddByte(p, G[b + k], t[b + (k + 1)])
    BY <1>3, <2>1
  <2>4. F[a + k] = After(h, G[b + k])
    BY <1>8
  <2>5. s[a + (k + 1)] = t[b + (k + 1)]
    BY <1>6, <2>1
  <2>6. G[b + k] \in Splits /\ t[b + (k + 1)] \in Bytes
    BY <1>1, <1>3, <2>1
  <2>7. AddByte(p, After(h, G[b + k]), t[b + (k + 1)]) = After(h, AddByte(p, G[b + k], t[b + (k + 1)]))
    BY <2>6, AddByteAfter
  <2>8. F[a + (k + 1)] = After(h, G[b + (k + 1)])
    BY <2>2, <2>3, <2>4, <2>5, <2>7, Zenon
  <2> QED
    BY <2>1, <2>8
<1> HIDE DEF T
<1>9. 0..m \subseteq T
  BY <1>5, <1>7, <1>8, Induction
<1>10. m \in T
  BY <1>5, <1>9
<1>11. F[a + m] = After(h, G[b + m])
  BY <1>10 DEF T
<1> QED
  BY <1>5, <1>11 DEF F, G

(* The splitting of the beginning of a stream.                             *)
LEMMA SplitBegins ==
  ASSUME NEW p \in Protocols, NEW s \in Seq(Bytes), NEW c \in Seq(Bytes)
  PROVE  SplitAt(p, s \o c)[Len(s)] = Split(p, s)
<1> DEFINE t == s \o c
<1>1. t \in Seq(Bytes) /\ Len(t) = Len(s) + Len(c) /\ \A k \in 1..Len(s) : t[k] = s[k]
  BY ConcatProperties
<1>2. Len(s) \in Nat /\ Len(c) \in Nat
  OBVIOUS
<1> HIDE DEF t
<1>3. SplitAt(p, t)[0] = Start
  BY <1>1, SplitAtDef
<1>4. SplitAt(p, s)[0] = Start /\ SplitAt(p, s) \in [0..Len(s) -> Splits]
  BY SplitAtDef
<1>5. SplitAt(p, s)[0] \in Splits /\ SplitAt(p, s)[Len(s)] \in Splits
  BY <1>2, <1>4
<1>6. <<>> \in Frames
  BY DEF Frames
<1>7. SplitAt(p, t)[0] = After(<<>>, SplitAt(p, s)[0])
  <2>1. After(<<>>, SplitAt(p, s)[0]) = SplitAt(p, s)[0]
    BY <1>5, <1>6, AfterFacts
  <2> QED
    BY <1>3, <1>4, <2>1
<1>8. /\ 0 \in Nat /\ Len(s) \in 0..Len(t) /\ Len(s) \in 0..Len(s)
      /\ Len(s) - 0 = Len(s) - 0 /\ Same(t, 0, Len(s), s, 0)
  BY <1>1, <1>2 DEF Same
<1>9. SplitAt(p, t)[Len(s)] = After(<<>>, SplitAt(p, s)[Len(s)])
  <2> DEFINE a == 0  d == Len(s)  h == <<>>
  <2>1. /\ a \in Nat /\ d \in a..Len(t) /\ d \in a..Len(s) /\ d - a = d - a
        /\ Same(t, a, d, s, a) /\ h \in Frames /\ t \in Seq(Bytes)
        /\ SplitAt(p, t)[a] = After(h, SplitAt(p, s)[a])
    BY <1>1, <1>6, <1>7, <1>8
  <2> HIDE DEF a, d, h
  <2>2. SplitAt(p, t)[d] = After(h, SplitAt(p, s)[d])
    BY <2>1, Along
  <2> QED
    BY <2>2 DEF d, h
<1>10. After(<<>>, SplitAt(p, s)[Len(s)]) = SplitAt(p, s)[Len(s)]
  BY <1>5, <1>6, AfterFacts
<1> QED
  BY <1>9, <1>10 DEF Split, t

(* A stream and a part that lags behind it by the frames h go on with the  *)
(* same bytes.                                                             *)
LEMMA SplitGoesOn ==
  ASSUME NEW p \in Protocols, NEW s \in Seq(Bytes), NEW t \in Seq(Bytes), NEW c \in Seq(Bytes),
         NEW h \in Frames, Split(p, s) = After(h, Split(p, t))
  PROVE  Split(p, s \o c) = After(h, Split(p, t \o c))
<1> DEFINE u == s \o c  v == t \o c
<1>1. /\ u \in Seq(Bytes) /\ Len(u) = Len(s) + Len(c)
      /\ \A k \in 1..Len(c) : u[Len(s) + k] = c[k]
  BY ConcatProperties
<1>2. /\ v \in Seq(Bytes) /\ Len(v) = Len(t) + Len(c)
      /\ \A k \in 1..Len(c) : v[Len(t) + k] = c[k]
  BY ConcatProperties
<1>3. SplitAt(p, u)[Len(s)] = After(h, SplitAt(p, v)[Len(t)])
  <2>1. SplitAt(p, u)[Len(s)] = Split(p, s) /\ SplitAt(p, v)[Len(t)] = Split(p, t)
    BY SplitBegins
  <2> HIDE DEF u, v
  <2> QED
    BY <2>1
<1>4. Len(s) \in Nat /\ Len(t) \in Nat /\ Len(c) \in Nat
  OBVIOUS
<1> HIDE DEF u, v
<1>5. /\ Len(u) \in Len(s)..Len(u) /\ Len(v) \in Len(t)..Len(v)
      /\ Len(u) - Len(s) = Len(v) - Len(t) /\ Len(u) - Len(s) = Len(c)
  BY <1>1, <1>2, <1>4
<1>6. Same(u, Len(s), Len(u), v, Len(t))
  BY <1>1, <1>2, <1>5 DEF Same
<1>7. SplitAt(p, u)[Len(u)] = After(h, SplitAt(p, v)[Len(v)])
  BY <1>1, <1>2, <1>3, <1>4, <1>5, <1>6, Along
<1> QED
  BY <1>7 DEF Split, u, v

(* The frames h are complete with the first n bytes.                       *)
LEMMA SplitDrops ==
  ASSUME NEW p \in Protocols, NEW s \in Seq(Bytes), NEW n \in 0..Len(s), NEW h \in Frames,
         SplitAt(p, s)[n] = [frames |-> h, cur |-> <<>>]
  PROVE  Split(p, s) = After(h, Split(p, SubSeq(s, n + 1, Len(s))))
<1> DEFINE t == SubSeq(s, n + 1, Len(s))
<1>1. /\ Len(s) \in Nat /\ n \in Nat /\ n + 1 \in 1..(Len(s) + 1)
      /\ Len(s) \in ((n + 1) - 1)..Len(s) /\ Len(s) - (n + 1) + 1 = Len(s) - n
  OBVIOUS
<1>2. /\ t \in Seq(Bytes) /\ Len(t) = Len(s) - n
      /\ \A i \in 1..(Len(s) - n) : t[i] = s[(n + 1) + i - 1]
  BY <1>1, Part
<1> HIDE DEF t
<1>3. SplitAt(p, s)[n] = After(h, SplitAt(p, t)[0])
  <2>1. SplitAt(p, t)[0] = Start
    BY <1>2, SplitAtDef
  <2>2. h \o <<>> = h
    BY ConcatEmptySeq DEF Frames
  <2> QED
    BY <2>1, <2>2 DEF After, Start
<1>4. /\ 0 \in Nat /\ Len(t) \in 0..Len(t) /\ Len(s) \in n..Len(s)
      /\ Len(s) - n = Len(t) - 0
  BY <1>1, <1>2
<1>5. Same(s, n, Len(s), t, 0)
  <2>1. \A k \in 1..(Len(s) - n) : (n + 1) + k - 1 = n + k /\ 0 + k = k
    BY <1>1
  <2> QED
    BY <1>2, <2>1 DEF Same
<1>6. SplitAt(p, s)[Len(s)] = After(h, SplitAt(p, t)[Len(t)])
  <2>1. /\ p \in Protocols /\ s \in Seq(Bytes) /\ h \in Frames /\ n \in Nat
        /\ t \in Seq(Bytes)
    BY <1>1, <1>2
  <2> QED
    <3> DEFINE a == n  b == 0  c == Len(s)  d == Len(t)
    <3>1. /\ a \in Nat /\ b \in Nat /\ c \in a..Len(s) /\ d \in b..Len(t)
          /\ c - a = d - b /\ Same(s, a, c, t, b)
          /\ SplitAt(p, s)[a] = After(h, SplitAt(p, t)[b])
      BY <1>3, <1>4, <1>5, <2>1
    <3> HIDE DEF a, b, c, d
    <3>2. SplitAt(p, s)[c] = After(h, SplitAt(p, t)[d])
      BY ONLY <2>1, <3>1, Along
    <3> QED
      BY <3>2 DEF c, d
<1> QED
  BY <1>6 DEF Split, t

(* As long as no frame is complete the splitting only collects bytes.      *)
LEMMA Collects ==
  ASSUME NEW p \in Protocols, NEW s \in Seq(Bytes), NEW m \in 0..Len(s),
         \A k \in 1..m : ~Complete(p, SubSeq(s, 1, k))
  PROVE  SplitAt(p, s)[m] = [frames |-> <<>>, cur |-> SubSeq(s, 1, m)]
<1> DEFINE F == SplitAt(p, s)
           T == {k \in 0..m : F[k] = [frames |-> <<>>, cur |-> SubSeq(s, 1, k)]}
<1>1. Len(s) \in Nat /\ m \in Nat
  OBVIOUS
<1>2. F[0] = Start /\ \A n \in 1..Len(s) : F[n] = AddByte(p, F[n - 1], s[n])
  BY SplitAtDef
<1> HIDE DEF F
<1>3. 0 \in T
  <2>1. SubSeq(s, 1, 0) = <<>>
    BY SubSeqEmpty
  <2> QED
    BY <1>1, <1>2, <2>1 DEF Start
<1>4. ASSUME NEW k \in 0..(m - 1), k \in T
      PROVE  k + 1 \in T
  <2>1. k + 1 \in 1..m /\ k + 1 \in 1..Len(s) /\ (k + 1) - 1 = k /\ k + 1 \in 0..m
    BY <1>1
  <2>2. F[k + 1] = AddByte(p, F[k], s[k + 1])
    BY <1>2, <2>1
  <2>3. F[k].frames = <<>> /\ F[k].cur = SubSeq(s, 1, k)
    BY <1>4
  <2>4. Append(SubSeq(s, 1, k), s[k + 1]) = SubSeq(s, 1, k + 1)
    BY <1>1, <2>1, PartGrows
  <2>5. ~Complete(p, SubSeq(s, 1, k + 1))
    BY <2>1
  <2>6. F[k + 1] = [frames |-> <<>>, cur |-> SubSeq(s, 1, k + 1)]
    BY <2>2, <2>3, <2>4, <2>5 DEF AddByte
  <2> QED
    BY <2>1, <2>6
<1> HIDE DEF T
<1>5. 0..m \subseteq T
  BY <1>1, <1>3, <1>4, Induction
<1>6. m \in T
  BY <1>1, <1>5
<1> QED
  BY <1>6 DEF T, F

(* The first frame is complete with the byte in place n.                   *)
LEMMA FirstFrame ==
  ASSUME NEW p \in Protocols, NEW s \in Seq(Bytes), NEW n \in 1..Len(s),
         \A k \in 1..(n - 1) : ~Complete(p, SubSeq(s, 1, k)), Complete(p, SubSeq(s, 1, n))
  PROVE  SplitAt(p, s)[n] = [frames |-> <<Content(p, SubSeq(s, 1, n))>>, cur |-> <<>>]
<1>1. /\ Len(s) \in Nat /\ n - 1 \in 0..Len(s) /\ (n - 1) + 1 = n
      /\ 1 \in 1..Len(s) /\ n - 1 \in (1 - 1)..(Len(s) - 1)
  OBVIOUS
<1>2. SplitAt(p, s)[n - 1] = [frames |-> <<>>, cur |-> SubSeq(s, 1, n - 1)]
  BY <1>1, Collects
<1>3. SplitAt(p, s)[n] = AddByte(p, SplitAt(p, s)[n - 1], s[n])
  BY SplitAtDef
<1>4. Append(SubSeq(s, 1, n - 1), s[n]) = SubSeq(s, 1, n)
  <2>1. Append(SubSeq(s, 1, n - 1), s[(n - 1) + 1]) = SubSeq(s, 1, (n - 1) + 1)
    BY <1>1, PartGrows
  <2> QED
    BY <1>1, <2>1
<1>5. SplitAt(p, s)[n - 1].cur = SubSeq(s, 1, n - 1) /\ SplitAt(p, s)[n - 1].frames = <<>>
  BY <1>2
<1>6. AddByte(p, SplitAt(p, s)[n - 1], s[n])
        = [frames |-> Append(<<>>, Content(p, SubSeq(s, 1, n))), cur |-> <<>>]
  BY <1>4, <1>5 DEF AddByte
<1>7. Append(<<>>, Content(p, SubSeq(s, 1, n))) = <<Content(p, SubSeq(s, 1, n))>>
  OBVIOUS
<1> QED
  BY <1>3, <1>6, <1>7, Zenon

-----------------------------------------------------------------------------
(* What process_data() gives back are the first frames of its data, and    *)
(* the bytes up to the end of the last of them.                            *)
Right(p, data, r) ==
  /\ r.processed \in 0..Len(data) /\ r.frames \in Frames /\ Len(r.frames) <= r.processed
  /\ SplitAt(p, data)[r.processed] = [frames |-> r.frames, cur |-> <<>>]

LEMMA NeedsMoreRight ==
  ASSUME NEW p \in Protocols, NEW data \in Seq(Bytes)
  PROVE  Right(p, data, NeedsMore) /\ NeedsMore.overread = FALSE
<1>1. NeedsMore.processed = 0 /\ NeedsMore.frames = <<>> /\ NeedsMore.overread = FALSE
  BY DEF NeedsMore, Result
<1>2. SplitAt(p, data)[0] = [frames |-> <<>>, cur |-> <<>>]
  BY SplitAtDef DEF Start
<1>3. Len(data) \in Nat /\ 0 \in 0..Len(data) /\ <<>> \in Frames /\ Len(<<>>) <= 0
  BY DEF Frames
<1> QED
  BY <1>1, <1>2, <1>3 DEF Right

LEMMA OneFrameRight ==
  ASSUME NEW p \in Protocols, NEW s \in Seq(Bytes), NEW n \in 1..Len(s), NEW f \in Seq(Bytes),
         SplitAt(p, s)[n] = [frames |-> <<f>>, cur |-> <<>>]
  PROVE  Right(p, s, Result(n, <<f>>, FALSE)) /\ Result(n, <<f>>, FALSE).overread = FALSE
<1> DEFINE r == Result(n, <<f>>, FALSE)
<1>1. r.processed = n /\ r.frames = <<f>> /\ r.overread = FALSE
  BY DEF Result
<1>2. <<f>> \in Frames /\ Len(<<f>>) = 1 /\ n \in 0..Len(s) /\ 1 <= n
  BY DEF Frames
<1> HIDE DEF r
<1>3. Right(p, s, r)
  BY <1>1, <1>2 DEF Right
<1> QED
  BY <1>1, <1>3 DEF r

LEMMA FixedRight ==
  ASSUME NEW data \in Seq(Bytes)
  PROVE  /\ Right("fixed", data, fixed_process_data(data))
         /\ fixed_process_data(data).overread = FALSE
<1>1. "fixed" \in Protocols /\ FrameSize \in Nat \ {0} /\ Len(data) \in Nat
  BY SizesAssumption DEF Protocols
<1>2. CASE Len(data) < FrameSize
  <2>1. fixed_process_data(data) = NeedsMore
    BY <1>2 DEF fixed_process_data
  <2> QED
    BY <1>1, <2>1, NeedsMoreRight
<1>3. CASE ~(Len(data) < FrameSize)
  <2> DEFINE f == SubSeq(data, 1, FrameSize)
  <2>1. FrameSize \in 1..Len(data) /\ f \in Seq(Bytes) /\ Len(f) = FrameSize
    BY <1>1, <1>3, Part
  <2>2. \A k \in 1..(FrameSize - 1) : ~Complete("fixed", SubSeq(data, 1, k))
    <3> TAKE k \in 1..(FrameSize - 1)
    <3>1. Len(SubSeq(data, 1, k)) = k /\ k # FrameSize
      BY <1>1, <2>1, Part
    <3> QED
      BY <3>1 DEF Complete
  <2>3. Complete("fixed", f) /\ Content("fixed", f) = f
    BY <2>1 DEF Complete, Content
  <2>4. SplitAt("fixed", data)[FrameSize] = [frames |-> <<f>>, cur |-> <<>>]
    BY <1>1, <2>1, <2>2, <2>3, FirstFrame
  <2>5. fixed_process_data(data) = Result(FrameSize, <<f>>, FALSE)
    BY <1>3 DEF fixed_process_data
  <2> HIDE DEF f
  <2> QED
    BY <1>1, <2>1, <2>4, <2>5, OneFrameRight
<1> QED
  BY <1>2, <1>3

(* A number below Width is itself.                                         *)
LEMMA Fits ==
  ASSUME NEW n \in Nat, n < Width
  PROVE  n % Width = n
BY WidthAssumption

(* Where the frame of the binary protocol ends.                            *)
LEMMA BinaryIncomplete ==
  ASSUME NEW data \in Seq(Bytes), Header <= Len(data), NEW m \in 0..Len(data),
         m < Header + payload_length(data)
  PROVE  \A k \in 1..m : ~Complete("binary", SubSeq(data, 1, k))
<1>1. Header \in Nat \ {0} /\ Len(data) \in Nat /\ payload_length(data) \in Nat
  BY SizesAssumption, LengthFacts
<1> SUFFICES ASSUME NEW k \in 1..m, Complete("binary", SubSeq(data, 1, k))
             PROVE  FALSE
  OBVIOUS
<1>2. Len(SubSeq(data, 1, k)) = k /\ k \in Nat /\ k < Header + payload_length(data)
  BY <1>1, Part
<1>3. k >= Header /\ k = Header + payload_length(SubSeq(data, 1, k))
  BY <1>2 DEF Complete
<1>4. k \in Header..Len(data)
  BY <1>1, <1>2, <1>3
<1>5. payload_length(SubSeq(data, 1, k)) = payload_length(data)
  BY <1>4, LengthFacts
<1> QED
  BY <1>1, <1>2, <1>3, <1>5

(* A result that reads behind the data: no frame in them is complete, and  *)
(* the length is one whose sum wraps.                                      *)
Wraps(p, data) ==
  /\ p = "binary" /\ payload_length(data) >= Width - Header
  /\ Split(p, data) = [frames |-> <<>>, cur |-> data]

LEMMA BinaryRight ==
  ASSUME NEW data \in Seq(Bytes), Len(data) <= BufferSize
  PROVE  LET r == binary_process_data(data)
         IN  \/ Right("binary", data, r) /\ r.overread = FALSE
             \/ Wraps("binary", data) /\ r.overread = TRUE /\ r.frames = <<>>
<1> DEFINE n == payload_length(data)
           total == (Header + n) % Width
           r == binary_process_data(data)
<1>1. "binary" \in Protocols /\ Header \in Nat \ {0} /\ Len(data) \in Nat
  BY SizesAssumption DEF Protocols
<1>2. /\ Width \in Nat /\ BufferSize \in Nat /\ BufferSize < Width
  BY WidthAssumption, SizesAssumption
<1>3. r = IF Len(data) < Header \/ Len(data) < total THEN NeedsMore
          ELSE IF Len(data) < Header + n THEN Result(total, <<>>, TRUE)
          ELSE Result(total, <<SubSeq(data, Header + 1, Header + n)>>, FALSE)
  BY DEF binary_process_data
<1>4. CASE Len(data) < Header \/ Len(data) < total
  <2>1. r = NeedsMore
    BY <1>3, <1>4
  <2> HIDE DEF r
  <2>2. Right("binary", data, r) /\ r.overread = FALSE
    BY <1>1, <2>1, NeedsMoreRight
  <2> QED
    BY <2>2 DEF r
<1>5. CASE Header <= Len(data) /\ ~(Len(data) < total) /\ Len(data) < Header + n
  <2>1. n \in Nat /\ Len(data) \in 0..Len(data) /\ Header + n \in Nat
    BY <1>1, <1>5, LengthFacts
  <2>2. r = Result(total, <<>>, TRUE)
    <3> HIDE DEF r, total, n
    <3>1. ~(Len(data) < Header)
      BY <1>1, <1>5
    <3> QED
      BY <1>3, <1>5, <3>1
  <2>3. r.overread = TRUE /\ r.frames = <<>>
    BY <2>2 DEF Result
  <2>4. n >= Width - Header
    <3>1. ~(Header + n < Width)
      <4>1. ASSUME Header + n < Width
            PROVE  FALSE
        <5>1. total = Header + n
          BY <2>1, <4>1, Fits
        <5> QED
          BY <1>5, <5>1
      <4> QED
        BY <4>1
    <3> QED
      BY <1>1, <1>2, <2>1, <3>1
  <2>5. SplitAt("binary", data)[Len(data)] = [frames |-> <<>>, cur |-> SubSeq(data, 1, Len(data))]
    <3>1. \A k \in 1..Len(data) : ~Complete("binary", SubSeq(data, 1, k))
      BY <1>5, <2>1, BinaryIncomplete
    <3> QED
      BY <1>1, <2>1, <3>1, Collects
  <2>6. SubSeq(data, 1, Len(data)) = data
    BY SubSeqFull
  <2>7. Wraps("binary", data)
    BY <2>4, <2>5, <2>6 DEF Wraps, Split
  <2> HIDE DEF r
  <2> QED
    BY <2>3, <2>7 DEF r
<1>6. CASE Header <= Len(data) /\ ~(Len(data) < total) /\ ~(Len(data) < Header + n)
  <2> DEFINE m == Header + n
             g == SubSeq(data, 1, m)
             f == SubSeq(data, Header + 1, m)
  <2>1. n \in Nat /\ m \in Nat \ {0} /\ m \in 1..Len(data) /\ m \in Header..Len(data)
    BY <1>1, <1>6, LengthFacts
  <2>2. total = m
    <3>1. m \in Nat /\ m < Width
      BY <1>1, <1>2, <2>1
    <3> QED
      BY <3>1, Fits
  <2>3. r = Result(m, <<f>>, FALSE)
    <3>1. r = Result(total, <<f>>, FALSE)
      <4> HIDE DEF r, total, n
      <4>1. ~(Len(data) < Header)
        BY <1>1, <1>6
      <4> QED
        BY <1>3, <1>6, <4>1
    <3> QED
      BY <2>2, <3>1, Zenon
  <2>4. g \in Seq(Bytes) /\ Len(g) = m /\ payload_length(g) = n
    <3>1. 1 \in 1..(Len(data) + 1) /\ m \in (1 - 1)..Len(data) /\ m - 1 + 1 = m
      BY <1>1, <2>1
    <3>2. g \in Seq(Bytes) /\ Len(g) = m
      BY <2>1, <3>1, Part
    <3>3. payload_length(g) = n
      BY <1>6, <2>1, LengthFacts
    <3> QED
      BY <3>2, <3>3
  <2>5. Content("binary", g) = f
    <3>1. Content("binary", g) = SubSeq(g, Header + 1, Len(g))
      BY DEF Content
    <3>2. SubSeq(g, Header + 1, m) = f
      <4>1. /\ 1 \in 1..(Len(data) + 1) /\ m \in (1 - 1)..Len(data)
            /\ Header + 1 \in 1..(m - 1 + 2) /\ m \in ((Header + 1) - 1)..(m - 1 + 1)
            /\ 1 + (Header + 1) - 1 = Header + 1 /\ 1 + m - 1 = m
        BY <1>1, <2>1
      <4>2. SubSeq(g, Header + 1, m) = SubSeq(data, 1 + (Header + 1) - 1, 1 + m - 1)
        <5> HIDE DEF m
        <5> QED
          BY <4>1, PartOfPart
      <4> QED
        BY <4>1, <4>2
    <3> QED
      BY <2>4, <3>1, <3>2
  <2>6. Complete("binary", g)
    BY <1>1, <2>1, <2>4 DEF Complete
  <2>7. \A k \in 1..(m - 1) : ~Complete("binary", SubSeq(data, 1, k))
    <3>1. m - 1 \in 0..Len(data) /\ m - 1 < Header + payload_length(data)
      BY <1>1, <2>1
    <3> QED
      BY <1>6, <3>1, BinaryIncomplete
  <2>8. f \in Seq(Bytes)
    <3>1. Header + 1 \in 1..(Len(data) + 1) /\ m \in ((Header + 1) - 1)..Len(data)
      BY <1>1, <2>1
    <3> HIDE DEF m
    <3> QED
      BY <3>1, Part
  <2> HIDE DEF m, r
  <2>9. SplitAt("binary", data)[m] = [frames |-> <<Content("binary", g)>>, cur |-> <<>>]
    BY <1>1, <2>1, <2>6, <2>7, FirstFrame
  <2> HIDE DEF f, g
  <2>10. SplitAt("binary", data)[m] = [frames |-> <<f>>, cur |-> <<>>]
    BY <2>5, <2>9, Zenon
  <2>11. Right("binary", data, r) /\ r.overread = FALSE
    BY <1>1, <2>1, <2>3, <2>8, <2>10, OneFrameRight
  <2> QED
    BY <2>11 DEF r
<1>7. Header <= Len(data) \/ Len(data) < Header
  BY <1>1
<1> HIDE DEF n, total, r
<1> QED
  BY <1>4, <1>5, <1>6, <1>7, Zenon DEF r

(* A line without its LF and the CR before that is what the loop cuts out. *)
LEMMA LineContent ==
  ASSUME NEW data \in Seq(Bytes), NEW i \in 1..Len(data), NEW q \in 0..(i - 1),
         q = 0 \/ data[q] = LF
  PROVE  Content("line", SubSeq(data, q + 1, i)) = Line(data, q + 1, i)
<1> DEFINE cur == SubSeq(data, q + 1, i)
           line == SubSeq(data, q + 1, i - 1)
<1>1. Len(data) \in Nat /\ i \in Nat /\ q \in Nat /\ i - q \in Nat \ {0}
  OBVIOUS
<1>2. /\ q + 1 \in 1..(Len(data) + 1) /\ i \in ((q + 1) - 1)..Len(data)
      /\ i - 1 \in ((q + 1) - 1)..Len(data) /\ i - (q + 1) + 1 = i - q
      /\ (i - 1) - (q + 1) + 1 = i - q - 1
  BY <1>1
<1>3. cur \in Seq(Bytes) /\ Len(cur) = i - q
  BY <1>2, Part
<1>4. /\ line \in Seq(Bytes) /\ Len(line) = i - q - 1
      /\ \A k \in 1..(i - q - 1) : line[k] = data[(q + 1) + k - 1]
  BY <1>2, Part
<1>5. Front(cur) = line
  <2>1. Front(cur) = SubSeq(cur, 1, i - q - 1)
    <3> HIDE DEF cur
    <3> QED
      BY <1>3 DEF Front
  <2>2. /\ 1 \in 1..(i - (q + 1) + 2) /\ i - q - 1 \in (1 - 1)..(i - (q + 1) + 1)
        /\ (q + 1) + 1 - 1 = q + 1 /\ (q + 1) + (i - q - 1) - 1 = i - 1
    BY <1>1
  <2>3. SubSeq(cur, 1, i - q - 1) = SubSeq(data, (q + 1) + 1 - 1, (q + 1) + (i - q - 1) - 1)
    BY <1>2, <2>2, PartOfPart
  <2> QED
    BY <2>1, <2>2, <2>3
<1> HIDE DEF cur
<1>6. Content("line", cur) = IF line # <<>> /\ Last(line) = CR THEN Front(line) ELSE line
  BY <1>5 DEF Content
<1>7. Line(data, q + 1, i) = IF i > 1 /\ data[i - 1] = CR THEN SubSeq(data, q + 1, i - 2) ELSE line
  BY DEF Line
<1>8. CASE i - q - 1 = 0
  <2>1. line = <<>>
    <3> HIDE DEF line
    <3> QED
      BY <1>4, <1>8
  <2>2. ~(i > 1 /\ data[i - 1] = CR)
    <3>1. i - 1 = q
      BY <1>1, <1>8
    <3>2. LF # CR
      BY DEF LF, CR
    <3> QED
      BY <1>1, <3>1, <3>2
  <2> HIDE DEF line
  <2> QED
    BY <1>6, <1>7, <2>1, <2>2 DEF cur
<1>9. CASE i - q - 1 > 0
  <2>1. i > 1 /\ i - q - 1 \in 1..(i - q - 1) /\ (q + 1) + (i - q - 1) - 1 = i - 1
    BY <1>1, <1>9
  <2>2. line # <<>> /\ Last(line) = data[i - 1]
    <3> HIDE DEF line
    <3>1. Last(line) = line[i - q - 1]
      BY <1>4 DEF Last
    <3>2. line[i - q - 1] = data[(q + 1) + (i - q - 1) - 1]
      BY <1>4, <2>1
    <3>3. line # <<>>
      BY <1>4, <1>9
    <3> QED
      BY <2>1, <3>1, <3>2, <3>3
  <2>3. Front(line) = SubSeq(data, q + 1, i - 2)
    <3>1. Front(line) = SubSeq(line, 1, i - q - 2)
      <4>1. (i - q - 1) - 1 = i - q - 2
        BY <1>1
      <4> HIDE DEF line
      <4> QED
        BY <1>4, <4>1 DEF Front
    <3>2. /\ 1 \in 1..((i - 1) - (q + 1) + 2) /\ i - q - 2 \in (1 - 1)..((i - 1) - (q + 1) + 1)
          /\ (q + 1) + 1 - 1 = q + 1 /\ (q + 1) + (i - q - 2) - 1 = i - 2
      BY <1>1, <1>9
    <3>3. SubSeq(line, 1, i - q - 2) = SubSeq(data, (q + 1) + 1 - 1, (q + 1) + (i - q - 2) - 1)
      BY <1>2, <3>2, PartOfPart
    <3> QED
      BY <3>1, <3>2, <3>3
  <2> HIDE DEF line
  <2> QED
    BY <1>6, <1>7, <2>1, <2>2, <2>3 DEF cur
<1> QED
  BY <1>1, <1>8, <1>9

(* The loop after i bytes with the lines in x: the splitting has the same  *)
(* frames, and the bytes since the last LF.                                *)
LineAt(data, x, i) ==
  /\ x.processed \in 0..i /\ (x.processed = 0 \/ data[x.processed] = LF)
  /\ x.frames \in Frames /\ Len(x.frames) <= x.processed
  /\ x.overread = FALSE
  /\ SplitAt("line", data)[x.processed] = [frames |-> x.frames, cur |-> <<>>]
  /\ SplitAt("line", data)[i]
       = [frames |-> x.frames, cur |-> SubSeq(data, x.processed + 1, i)]

LEMMA LineStep ==
  ASSUME NEW data \in Seq(Bytes), NEW i \in 1..Len(data), NEW x, LineAt(data, x, i - 1)
  PROVE  LineAt(data, LineByte(data, x, i), i)
<1> DEFINE F == SplitAt("line", data)
           q == x.processed
           cur == SubSeq(data, q + 1, i)
           y == LineByte(data, x, i)
<1>1. Len(data) \in Nat /\ i \in Nat \ {0} /\ "line" \in Protocols /\ q \in 0..(i - 1)
  BY DEF LineAt, Protocols
<1>2. (q = 0 \/ data[q] = LF) /\ x.frames \in Frames /\ Len(x.frames) <= q /\ x.overread = FALSE
  BY DEF LineAt
<1>3. F[i] = AddByte("line", F[i - 1], data[i])
  BY <1>1, SplitAtDef
<1>4. /\ F[q] = [frames |-> x.frames, cur |-> <<>>]
      /\ F[i - 1] = [frames |-> x.frames, cur |-> SubSeq(data, q + 1, i - 1)]
  BY DEF LineAt
<1> HIDE DEF F, q
<1>5. Append(SubSeq(data, q + 1, i - 1), data[i]) = cur
  <2>1. /\ q + 1 \in 1..Len(data) /\ i - 1 \in ((q + 1) - 1)..(Len(data) - 1)
        /\ (i - 1) + 1 = i
    BY <1>1
  <2>2. Append(SubSeq(data, q + 1, i - 1), data[(i - 1) + 1]) = SubSeq(data, q + 1, (i - 1) + 1)
    BY <2>1, PartGrows
  <2> QED
    BY <2>1, <2>2
<1>6. F[i] = IF Complete("line", cur)
             THEN [frames |-> Append(x.frames, Content("line", cur)), cur |-> <<>>]
             ELSE [frames |-> x.frames, cur |-> cur]
  <2>1. F[i - 1].frames = x.frames /\ F[i - 1].cur = SubSeq(data, q + 1, i - 1)
    <3> DEFINE z == F[i - 1]  c == SubSeq(data, q + 1, i - 1)
    <3>1. z = [frames |-> x.frames, cur |-> c]
      BY <1>4
    <3> HIDE DEF z, c
    <3>2. z.frames = x.frames /\ z.cur = c
      BY ONLY <3>1
    <3> QED
      BY <3>2 DEF z, c
  <2> HIDE DEF cur
  <2> QED
    BY <1>3, <1>5, <2>1 DEF AddByte
<1>7. Complete("line", cur) <=> data[i] = LF
  <2>1. /\ q + 1 \in 1..(Len(data) + 1) /\ i \in ((q + 1) - 1)..Len(data)
        /\ i - (q + 1) + 1 = i - q /\ i - q \in 1..(i - q) /\ (q + 1) + (i - q) - 1 = i
    BY <1>1
  <2>2. /\ cur \in Seq(Bytes) /\ Len(cur) = i - q
        /\ \A k \in 1..(i - q) : cur[k] = data[(q + 1) + k - 1]
    BY <2>1, Part
  <2> HIDE DEF cur
  <2>3. Last(cur) = data[i]
    BY <2>1, <2>2 DEF Last
  <2> QED
    BY <2>3 DEF Complete
<1>8. y = IF data[i] # LF THEN x
          ELSE Result(i, Append(x.frames, Line(data, q + 1, i)), FALSE)
  BY DEF LineByte, q
<1>9. CASE data[i] # LF
  <2>1. y = x
    BY <1>8, <1>9
  <2>2. F[i] = [frames |-> x.frames, cur |-> cur]
    BY <1>6, <1>7, <1>9
  <2>3. q \in 0..i
    BY <1>1
  <2>4. LineAt(data, x, i)
    BY <1>2, <1>4, <2>2, <2>3 DEF LineAt, q, F
  <2> QED
    BY <2>1, <2>4
<1>10. CASE data[i] = LF
  <2> DEFINE f == Append(x.frames, Line(data, q + 1, i))
  <2>1. y.processed = i /\ y.frames = f /\ y.overread = FALSE
    BY <1>8, <1>10 DEF Result
  <2>2. f \in Frames /\ Len(f) = Len(x.frames) + 1 /\ Len(f) <= i
    <3>1. q + 1 \in Nat \ {0}
      BY <1>1
    <3>2. Line(data, q + 1, i) \in Seq(Bytes)
      BY <3>1, LineType
    <3>3. f \in Frames /\ Len(f) = Len(x.frames) + 1 /\ Len(x.frames) \in Nat
      BY <1>2, <3>2 DEF Frames
    <3> QED
      BY <1>1, <1>2, <3>3
  <2>3. Content("line", cur) = Line(data, q + 1, i)
    BY <1>1, <1>2, LineContent
  <2>4. F[i] = [frames |-> f, cur |-> <<>>]
    <3>1. F[i] = [frames |-> Append(x.frames, Content("line", cur)), cur |-> <<>>]
      BY <1>6, <1>7, <1>10
    <3> QED
      BY <2>3, <3>1, Zenon
  <2>5. SubSeq(data, i + 1, i) = <<>>
    BY <1>1, SubSeqEmpty
  <2> HIDE DEF y, f
  <2>6. LineAt(data, y, i)
    BY <1>1, <1>10, <2>1, <2>2, <2>4, <2>5 DEF LineAt, F
  <2> QED
    BY <2>6 DEF y
<1> QED
  BY <1>9, <1>10

LEMMA LineRight ==
  ASSUME NEW data \in Seq(Bytes)
  PROVE  /\ Right("line", data, line_process_data(data))
         /\ line_process_data(data).overread = FALSE
<1> DEFINE L == Len(data)
           loop == LineLoop(data)
           T == {i \in 0..L : LineAt(data, loop[i], i)}
<1>1. L \in Nat /\ "line" \in Protocols
  BY DEF Protocols
<1>2. loop[0] = NeedsMore /\ \A i \in 1..L : loop[i] = LineByte(data, loop[i - 1], i)
  BY LineLoopDef
<1>3. line_process_data(data) = loop[L]
  BY DEF line_process_data
<1> HIDE DEF L, loop
<1>4. 0 \in T
  <2>1. NeedsMore.processed = 0 /\ NeedsMore.frames = <<>> /\ NeedsMore.overread = FALSE
    BY DEF NeedsMore, Result
  <2>2. SplitAt("line", data)[0] = [frames |-> <<>>, cur |-> <<>>]
    BY <1>1, SplitAtDef DEF Start
  <2>3. SubSeq(data, 0 + 1, 0) = <<>> /\ <<>> \in Frames /\ Len(<<>>) <= 0 /\ 0 \in 0..0
    BY SubSeqEmpty DEF Frames
  <2>4. LineAt(data, NeedsMore, 0)
    BY <2>1, <2>2, <2>3 DEF LineAt
  <2> QED
    BY <1>1, <1>2, <2>4
<1>5. ASSUME NEW i \in 0..(L - 1), i \in T
      PROVE  i + 1 \in T
  <2>1. i + 1 \in 1..Len(data) /\ (i + 1) - 1 = i /\ i + 1 \in 1..L /\ i + 1 \in 0..L
    BY <1>1 DEF L
  <2>2. loop[i + 1] = LineByte(data, loop[i], i + 1)
    BY <1>2, <2>1
  <2>3. LineAt(data, loop[i], (i + 1) - 1)
    BY <1>5, <2>1
  <2>4. LineAt(data, LineByte(data, loop[i], i + 1), i + 1)
    BY <2>1, <2>3, LineStep
  <2> QED
    BY <2>1, <2>2, <2>4
<1> HIDE DEF T
<1>6. L \in T
  <2>1. 0..L \subseteq T
    BY <1>1, <1>4, <1>5, Induction
  <2> QED
    BY <1>1, <2>1
<1>7. LineAt(data, loop[L], L)
  BY <1>6 DEF T
<1>8. Right("line", data, loop[L]) /\ loop[L].overread = FALSE
  BY <1>7 DEF LineAt, Right, L
<1> QED
  BY <1>3, <1>8

(* For every protocol and every content of read_buffer_, process_data()    *)
(* hands over the first frames that the splitting byte by byte finds and   *)
(* returns where the last of them ends; or it reads behind the buffer, and *)
(* then for a binary length whose sum with the header wraps.               *)
THEOREM ProcessDataRight ==
  ASSUME NEW p \in Protocols, NEW data \in Seq(Bytes), Len(data) <= BufferSize
  PROVE  LET r == process_data(p, data)
         IN  \/ Right(p, data, r) /\ r.overread = FALSE
             \/ Wraps(p, data) /\ r.overread = TRUE /\ r.frames = <<>>
<1>1. CASE p = "line"
  <2>1. process_data(p, data) = line_process_data(data)
    BY <1>1 DEF process_data
  <2> QED
    BY <1>1, <2>1, LineRight
<1>2. CASE p = "fixed"
  <2>1. process_data(p, data) = fixed_process_data(data)
    BY <1>2 DEF process_data
  <2> QED
    BY <1>2, <2>1, FixedRight
<1>3. CASE p = "binary"
  <2>1. process_data(p, data) = binary_process_data(data)
    BY <1>3 DEF process_data
  <2> QED
    BY <1>3, <2>1, BinaryRight
<1> QED
  BY <1>1, <1>2, <1>3 DEF Protocols

-----------------------------------------------------------------------------
(* The session.  The inductive invariant has two parts, and a third one as *)
(* long as no two threads meet in write_queue_.                            *)

(* Every response that a lambda carries has its number.                    *)
Carried == {h \in Handlers : h.op = "post" => h.msg \in Ids}
Carrying == {"test", "first", "behind"}

Flags ==
  /\ protocol_ \in Protocols
  /\ session \in SessionStates
  /\ reading \in BOOLEAN
  /\ write_queue_ \in Seq(Ids)
  /\ writing \in Seq(Ids)
  /\ ready \in Seq(Carried)
  /\ thread \in [Threads -> [at : Positions, msg : Ids \cup {0}]]
  /\ \A t \in Threads : thread[t].at \in Carrying => thread[t].msg \in Ids
  /\ socket \in {"open", "closed"}
  /\ client \in {"there", "left"}
  /\ written \subseteq Ids
  /\ reported \in BOOLEAN

(* The stream is split as read_buffer_ is, behind the frames handed over,  *)
(* and each of these took at least a byte.                                 *)
Stream ==
  /\ read_buffer_ \in Seq(Bytes) /\ Len(read_buffer_) <= BufferSize
  /\ received \in Seq(Bytes) /\ Len(received) <= MaxBytes
  /\ handed \in Frames /\ Len(handed) <= Len(received)
  /\ session = "overread" =>
       protocol_ = "binary" /\ payload_length(Split(protocol_, received).cur) >= Width - Header
  /\ session # "overread" =>
       /\ Split(protocol_, received) = After(handed, Split(protocol_, read_buffer_))
       /\ Len(handed) + Len(read_buffer_) <= Len(received)

IInv == Flags /\ Stream

(* A write has ended and its handler waits; thread t runs such a handler,  *)
(* or is about to start a write; and there is nothing of the kind.         *)
Ending == {"wrote", "failed"}
Writer(t) == thread[t].at \in {"kick", "pop", "look", "clear"}
NoWrite ==
  writing = <<>> /\ ~Queued(ready, Ending) /\ \A t \in Threads : ~Writer(t)

(* At most one response is on its way: in an async_write, with its handler *)
(* in the queue, or with a thread that runs that.  It is at the front of   *)
(* write_queue_ until it is popped, and when there is none write_queue_ is *)
(* empty.  A thread in the lambda still finds what its test has found.     *)
OneWrite ==
  /\ Single(ready, Ending)
  /\ \A t, u \in Threads : Writer(t) /\ Writer(u) => t = u
  /\ Queued(ready, Ending) =>
       write_queue_ # <<>> /\ \A t \in Threads : ~Writer(t)
  /\ writing # <<>> =>
       /\ write_queue_ # <<>> /\ writing = <<Head(write_queue_)>>
       /\ ~Queued(ready, Ending) /\ \A t \in Threads : ~Writer(t)
  /\ NoWrite => write_queue_ = <<>>
  /\ \A t \in Threads :
       /\ thread[t].at \in {"behind", "kick", "pop", "clear"} => write_queue_ # <<>>
       /\ thread[t].at \in {"first", "close"} => NoWrite

LEMMA SplitType ==
  ASSUME NEW p \in Protocols, NEW s \in Seq(Bytes)
  PROVE  Split(p, s) \in Splits
<1>1. Len(s) \in 0..Len(s) /\ SplitAt(p, s) \in [0..Len(s) -> Splits]
  BY SplitAtDef
<1> QED
  BY <1>1 DEF Split

(* A step that reads nothing.                                              *)
LEMMA StreamKept ==
  ASSUME Stream, UNCHANGED <<protocol_, reads>>, session # "overread", session' # "overread"
  PROVE  Stream'
<1>1. /\ protocol_' = protocol_ /\ read_buffer_' = read_buffer_ /\ received' = received
      /\ handed' = handed
  BY DEF reads
<1> QED
  BY <1>1 DEF Stream

(* The handler of a read: how the stream goes on.                          *)
LEMMA HandleStream ==
  ASSUME Flags, Stream, NEW chunk \in Seq(Bytes), Handle(chunk), Len(chunk) <= Room,
         Len(received) + Len(chunk) <= MaxBytes
  PROVE  Stream'
<1> DEFINE data == read_buffer_ \o chunk
           r == process_data(protocol_, data)
<1>1. protocol_ \in Protocols /\ session # "overread" /\ Live
  BY DEF Flags, Handle, Idle, Live
<1>2. /\ read_buffer_ \in Seq(Bytes) /\ received \in Seq(Bytes) /\ handed \in Frames
      /\ Split(protocol_, received) = After(handed, Split(protocol_, read_buffer_))
      /\ Len(handed) + Len(read_buffer_) <= Len(received)
  BY <1>1 DEF Stream
<1>3. /\ received' = received \o chunk /\ handed' = handed \o r.frames
      /\ protocol_' = protocol_
      /\ IF r.overread THEN session' = "overread" /\ read_buffer_' = read_buffer_
         ELSE read_buffer_' = SubSeq(data, r.processed + 1, Len(data)) /\ session' = session
  BY DEF Handle
<1>4. /\ data \in Seq(Bytes) /\ Len(data) = Len(read_buffer_) + Len(chunk)
      /\ received \o chunk \in Seq(Bytes)
      /\ Len(received \o chunk) = Len(received) + Len(chunk)
  BY <1>2, ConcatProperties
<1>5. /\ Len(read_buffer_) \in Nat /\ Len(chunk) \in Nat /\ Len(received) \in Nat
      /\ Len(handed) \in Nat /\ BufferSize \in Nat /\ Len(read_buffer_) <= BufferSize
  BY <1>2, SizesAssumption DEF Frames, Stream
<1>6. Len(data) <= BufferSize
  BY <1>4, <1>5 DEF Room
<1>7. Split(protocol_, received') = After(handed, Split(protocol_, data))
  BY <1>1, <1>2, <1>3, SplitGoesOn
<1>8. received' \in Seq(Bytes) /\ Len(received') = Len(received) + Len(chunk) /\ Len(received') <= MaxBytes
  BY <1>3, <1>4
<1> HIDE DEF data
<1>9. \/ Right(protocol_, data, r) /\ r.overread = FALSE
      \/ Wraps(protocol_, data) /\ r.overread = TRUE /\ r.frames = <<>>
  BY <1>1, <1>4, <1>6, ProcessDataRight
<1> HIDE DEF r
<1>10. CASE Right(protocol_, data, r) /\ r.overread = FALSE
  <2> DEFINE n == r.processed  f == r.frames  rest == SubSeq(data, n + 1, Len(data))
  <2>1. /\ n \in 0..Len(data) /\ f \in Frames /\ Len(f) <= n
        /\ SplitAt(protocol_, data)[n] = [frames |-> f, cur |-> <<>>]
    BY <1>10 DEF Right
  <2>2. read_buffer_' = rest /\ session' = session /\ handed' = handed \o f
    BY <1>3, <1>10
  <2> HIDE DEF n, f
  <2>3. rest \in Seq(Bytes) /\ Len(rest) = Len(data) - n
    <3>1. /\ Len(data) \in Nat /\ n + 1 \in 1..(Len(data) + 1)
          /\ Len(data) \in ((n + 1) - 1)..Len(data) /\ Len(data) - (n + 1) + 1 = Len(data) - n
      BY <1>4, <2>1
    <3> QED
      BY <1>4, <3>1, Part
  <2>4. Split(protocol_, data) = After(f, Split(protocol_, rest))
    BY <1>1, <1>4, <2>1, SplitDrops
  <2> HIDE DEF rest
  <2>5. handed \o f \in Frames /\ Len(handed \o f) = Len(handed) + Len(f) /\ Len(f) \in Nat
    BY <1>2, <2>1, ConcatProperties DEF Frames
  <2>6. After(handed, After(f, Split(protocol_, rest))) = After(handed \o f, Split(protocol_, rest))
    <3>1. Split(protocol_, rest) \in Splits
      BY <1>1, <2>3, SplitType
    <3> QED
      BY <1>2, <2>1, <3>1, AfterFacts
  <2>7. Split(protocol_, received') = After(handed', Split(protocol_, read_buffer_'))
    BY <1>7, <2>2, <2>4, <2>6, Zenon
  <2>8. /\ Len(handed') + Len(read_buffer_') <= Len(received')
        /\ Len(handed') <= Len(received') /\ Len(read_buffer_') <= BufferSize
    <3>1. Len(handed') = Len(handed) + Len(f) /\ Len(read_buffer_') = Len(data) - n
      BY <2>2, <2>3, <2>5
    <3>2. n \in Nat /\ n <= Len(data) /\ Len(data) \in Nat
      BY <1>4, <2>1
    <3> QED
      BY <1>2, <1>4, <1>5, <1>6, <1>8, <2>1, <2>5, <3>1, <3>2
  <2>9. read_buffer_' \in Seq(Bytes) /\ handed' \in Frames /\ session' # "overread"
    BY <1>1, <2>2, <2>3, <2>5
  <2> QED
    BY <1>3, <1>8, <2>7, <2>8, <2>9 DEF Stream
<1>11. CASE Wraps(protocol_, data) /\ r.overread = TRUE /\ r.frames = <<>>
  <2>1. handed' = handed /\ read_buffer_' = read_buffer_ /\ session' = "overread"
    <3>1. handed \o <<>> = handed
      BY <1>2, ConcatEmptySeq DEF Frames
    <3> QED
      BY <1>3, <1>11, <3>1
  <2>2. After(handed, Split(protocol_, data)).cur = data
    BY <1>11 DEF Wraps, After
  <2>3. protocol_' = "binary" /\ payload_length(Split(protocol_', received').cur) >= Width - Header
    <3>1. Split(protocol_', received').cur = data
      BY <1>3, <1>7, <2>2
    <3> QED
      BY <1>3, <1>11, <3>1 DEF Wraps
  <2>4. Len(handed') <= Len(received') /\ Len(read_buffer_') <= BufferSize
    BY <1>2, <1>5, <1>8, <2>1
  <2> QED
    BY <1>2, <1>8, <2>1, <2>3, <2>4 DEF Stream
<1> QED
  BY <1>9, <1>10, <1>11

(* The posts of the responses are behind what waits already.               *)
LEMMA HandlePosts ==
  ASSUME Flags, Stream, NEW chunk \in Seq(Bytes), Handle(chunk), Len(chunk) <= Room, Stream'
  PROVE  /\ ready' \in Seq(Carried)
         /\ Queued(ready', Ending) <=> Queued(ready, Ending)
         /\ Single(ready, Ending) => Single(ready', Ending)
<1> DEFINE data == read_buffer_ \o chunk
           frames == process_data(protocol_, data).frames
           posts == [k \in DOMAIN frames |-> Handler("post", Len(handed) + k)]
<1>1. (ready' = ready \/ ready' = ready \o posts) /\ handed' = handed \o frames
  BY DEF Handle
<1>2. ready \in Seq(Carried) /\ protocol_ \in Protocols
  BY DEF Flags
<1>3. /\ handed \in Frames /\ handed' \in Frames
      /\ Len(handed') <= Len(received') /\ Len(received') <= MaxBytes
      /\ received' \in Seq(Bytes) /\ read_buffer_ \in Seq(Bytes) /\ Len(read_buffer_) <= BufferSize
  BY DEF Stream
<1>4. /\ Len(handed) \in Nat /\ Len(handed') \in Nat /\ Len(received') \in Nat /\ MaxBytes \in Nat
      /\ Len(read_buffer_) \in Nat /\ Len(chunk) \in Nat /\ BufferSize \in Nat
  BY <1>3, BoundsAssumption, SizesAssumption DEF Frames
<1>5. frames \in Frames
  <2>1. data \in Seq(Bytes) /\ Len(data) = Len(read_buffer_) + Len(chunk)
    BY <1>3, ConcatProperties
  <2>2. Len(data) <= BufferSize
    BY <1>3, <1>4, <2>1 DEF Room
  <2> HIDE DEF data
  <2>3. frames \in Frames \/ frames = <<>>
    <3> DEFINE r == process_data(protocol_, data)
    <3>1. \/ Right(protocol_, data, r) /\ r.overread = FALSE
          \/ Wraps(protocol_, data) /\ r.overread = TRUE /\ r.frames = <<>>
      BY <1>2, <2>1, <2>2, ProcessDataRight
    <3> HIDE DEF r
    <3>2. r.frames \in Frames \/ r.frames = <<>>
      BY <3>1 DEF Right
    <3> QED
      BY <3>2 DEF r
  <2>4. <<>> \in Frames
    BY DEF Frames
  <2> QED
    BY <2>3, <2>4
<1> HIDE DEF frames
<1>6. /\ Len(frames) \in Nat /\ DOMAIN frames = 1..Len(frames)
      /\ Len(handed') = Len(handed) + Len(frames)
  BY <1>1, <1>3, <1>5, ConcatProperties DEF Frames
<1>7. \A k \in 1..Len(frames) : Handler("post", Len(handed) + k) \in Carried
  <2> TAKE k \in 1..Len(frames)
  <2>1. Len(handed) + k \in Ids
    BY <1>3, <1>4, <1>6 DEF Ids
  <2> QED
    BY <2>1 DEF Handler, Carried, Handlers
<1>8. posts \in Seq(Carried) /\ ~Queued(posts, Ending) /\ Single(posts, Ending)
  <2>1. posts = [k \in 1..Len(frames) |-> Handler("post", Len(handed) + k)]
    BY <1>6
  <2>2. posts \in Seq(Carried)
    BY <1>6, <1>7, <2>1
  <2>3. DOMAIN posts = 1..Len(frames) /\ \A k \in 1..Len(frames) : posts[k].op \notin Ending
    BY <2>1 DEF Handler, Ending
  <2> HIDE DEF posts
  <2> QED
    BY <2>2, <2>3 DEF Queued, Single
<1> HIDE DEF posts
<1>9. /\ ready \o posts \in Seq(Carried)
      /\ Queued(ready \o posts, Ending) <=> Queued(ready, Ending)
      /\ Single(ready, Ending) => Single(ready \o posts, Ending)
  BY <1>2, <1>8, ConcatFacts
<1>10. CASE ready' = ready
  BY <1>2, <1>10
<1>11. CASE ready' = ready \o posts
  BY <1>9, <1>11, Zenon
<1> QED
  BY <1>1, <1>10, <1>11

LEMMA ReadStep ==
  ASSUME IInv, Received \/ ReceivedNothing
  PROVE  /\ IInv'
         /\ Queued(ready', Ending) <=> Queued(ready, Ending)
         /\ Single(ready, Ending) => Single(ready', Ending)
         /\ UNCHANGED <<write_queue_, writing, thread>>
         /\ session' \in {"overread", session}
<1>1. Flags /\ Stream
  BY DEF IInv
<1>2. PICK chunk \in Seq(Bytes) :
        Handle(chunk) /\ Len(chunk) <= Room /\ Len(received) + Len(chunk) <= MaxBytes
  <2>1. CASE Received
    <3>1. PICK n \in 1..Room : /\ Len(received) + n <= MaxBytes
                               /\ \E chunk \in [1..n -> Bytes] : Handle(chunk)
      BY <2>1 DEF Received
    <3>2. PICK chunk \in [1..n -> Bytes] : Handle(chunk)
      BY <3>1
    <3>3. n \in Nat /\ n <= Room
      <4>1. Room \in Int
        <5>1. Len(read_buffer_) \in Nat /\ BufferSize \in Nat
          BY <1>1, SizesAssumption DEF Stream
        <5> QED
          BY <5>1 DEF Room
      <4> QED
        BY <4>1
    <3>4. chunk \in Seq(Bytes) /\ Len(chunk) = n
      BY <3>3
    <3> QED
      BY <3>1, <3>2, <3>3, <3>4
  <2>2. CASE ReceivedNothing
    <3>1. Handle(<<>>) /\ Room = 0
      BY <2>2 DEF ReceivedNothing
    <3>2. <<>> \in Seq(Bytes) /\ Len(<<>>) = 0 /\ Len(received) + 0 <= MaxBytes
      <4>1. Len(received) \in Nat /\ Len(received) <= MaxBytes
        BY <1>1 DEF Stream
      <4> QED
        BY <4>1
    <3>3. Len(<<>>) <= Room /\ Len(received) + Len(<<>>) <= MaxBytes
      BY <3>1, <3>2
    <3> WITNESS <<>> \in Seq(Bytes)
    <3> QED
      BY <3>1, <3>3, Zenon
  <2> QED
    BY <2>1, <2>2
<1>3. Stream'
  BY <1>1, <1>2, HandleStream
<1>4. /\ ready' \in Seq(Carried)
      /\ Queued(ready', Ending) <=> Queued(ready, Ending)
      /\ Single(ready, Ending) => Single(ready', Ending)
  BY <1>1, <1>2, <1>3, HandlePosts
<1>5. /\ UNCHANGED <<protocol_, reading, write_queue_, writing, written, thread, socket, client, reported>>
      /\ session' \in {"overread", session}
  BY <1>2 DEF Handle, writes
<1>6. Flags'
  <2>1. session' \in SessionStates
    BY <1>1, <1>5 DEF Flags, SessionStates
  <2> QED
    BY <1>1, <1>4, <1>5, <2>1 DEF Flags
<1> QED
  BY <1>3, <1>4, <1>5, <1>6 DEF IInv

(* The steps that leave the queues and the threads alone.                  *)
LEMMA QuietStep ==
  ASSUME IInv, start \/ StartThrows \/ do_read \/ ReceiveFailed \/ ClientLeaves
  PROVE  /\ IInv'
         /\ UNCHANGED <<write_queue_, writing, ready, thread>>
         /\ session' \in {session, "posted", "terminated", "open"}
<1>1. Flags /\ Stream
  BY DEF IInv
<1>2. /\ UNCHANGED <<protocol_, read_buffer_, received, handed, write_queue_, writing, written,
                     ready, thread, socket>>
      /\ session # "overread" /\ session' \in {session, "posted", "terminated", "open"}
  BY DEF start, StartThrows, do_read, ReceiveFailed, ClientLeaves, reads, writes, Idle, Live
<1>3. session' # "overread" /\ session' \in SessionStates
  BY <1>1, <1>2 DEF SessionStates, Flags
<1>4. reading' \in BOOLEAN
  <2>1. reading' \in {reading, TRUE, FALSE}
    BY DEF start, StartThrows, do_read, ReceiveFailed, ClientLeaves, reads
  <2> QED
    BY <1>1, <2>1 DEF Flags
<1>5. reported' \in BOOLEAN
  <2>1. reported' \in {reported, TRUE}
    BY DEF start, StartThrows, do_read, ReceiveFailed, ClientLeaves
  <2> QED
    BY <1>1, <2>1 DEF Flags
<1>6. client' \in {"there", "left"}
  BY <1>1 DEF start, StartThrows, do_read, ReceiveFailed, ClientLeaves, Flags
<1>7. Flags'
  BY <1>1, <1>2, <1>3, <1>4, <1>5, <1>6 DEF Flags
<1>8. Stream'
  BY <1>1, <1>2, <1>3 DEF Stream
<1> QED
  BY <1>2, <1>7, <1>8 DEF IInv

(* A thread goes on to the next place.                                     *)
LEMMA StepFacts ==
  ASSUME Flags, NEW t \in Threads, NEW place \in Positions, NEW m \in Ids \cup {0},
         place \in Carrying => m \in Ids, Step(t, place, m)
  PROVE  /\ thread' \in [Threads -> [at : Positions, msg : Ids \cup {0}]]
         /\ \A u \in Threads : thread'[u].at \in Carrying => thread'[u].msg \in Ids
         /\ thread'[t].at = place
         /\ \A u \in Threads : u # t => thread'[u] = thread[u]
<1>1. /\ thread \in [Threads -> [at : Positions, msg : Ids \cup {0}]]
      /\ \A u \in Threads : thread[u].at \in Carrying => thread[u].msg \in Ids
  BY DEF Flags
<1>2. thread' = [thread EXCEPT ![t] = [at |-> place, msg |-> m]]
  BY DEF Step
<1>3. /\ thread'[t] = [at |-> place, msg |-> m]
      /\ \A u \in Threads : u # t => thread'[u] = thread[u]
      /\ thread' \in [Threads -> [at : Positions, msg : Ids \cup {0}]]
  BY <1>1, <1>2
<1>4. \A u \in Threads : thread'[u].at \in Carrying => thread'[u].msg \in Ids
  BY <1>1, <1>3
<1> QED
  BY <1>3, <1>4

(* A thread takes the first handler.                                       *)
LEMMA TakeStep ==
  ASSUME IInv, NEW t \in Threads, Take(t)
  PROVE  /\ IInv'
         /\ thread[t].at = "idle" /\ \A u \in Threads : u # t => thread'[u] = thread[u]
         /\ UNCHANGED <<session, write_queue_, writing>>
         /\ Queued(ready', Ending) => Queued(ready, Ending)
         /\ Single(ready, Ending) => Single(ready', Ending)
         /\ \/ /\ thread'[t].at = "test"
               /\ Queued(ready, Ending) => Queued(ready', Ending)
            \/ /\ thread'[t].at \in {"pop", "clear"}
               /\ Queued(ready, Ending)
               /\ Single(ready, Ending) => ~Queued(ready', Ending)
<1>1. Flags /\ Stream
  BY DEF IInv
<1> DEFINE h == Head(ready)
<1>2. /\ session # "overread" /\ ready # <<>> /\ thread[t].at = "idle"
      /\ Step(t, Entry[h.op], h.msg)
      /\ ready' = Tail(ready)
      /\ UNCHANGED <<protocol_, session, reads, write_queue_, writing, written, socket, client, reported>>
  BY DEF Take, Live, writes
<1>3. ready \in Seq(Carried)
  BY <1>1 DEF Flags
<1>4. /\ h \in Carried /\ ready' \in Seq(Carried)
      /\ Queued(ready', Ending) => Queued(ready, Ending)
      /\ Queued(ready, Ending) => Queued(ready', Ending) \/ h.op \in Ending
      /\ h.op \in Ending => Queued(ready, Ending)
      /\ Single(ready, Ending) => Single(ready', Ending)
      /\ Single(ready, Ending) /\ h.op \in Ending => ~Queued(ready', Ending)
  BY <1>2, <1>3, TailFacts
<1> HIDE DEF h
<1>5. /\ h.op \in {"post"} \cup Ending /\ h.msg \in Ids \cup {0} /\ (h.op = "post" => h.msg \in Ids)
  BY <1>4 DEF Carried, Handlers, Ending
<1>6. /\ h.op = "post" => Entry[h.op] = "test"
      /\ h.op \in Ending => Entry[h.op] \in {"pop", "clear"}
  BY <1>5 DEF Entry, Ending
<1> DEFINE place == Entry[h.op]
<1>7. place \in Positions /\ (place \in Carrying => h.msg \in Ids)
  BY <1>5, <1>6 DEF Positions, Carrying
<1>8. Step(t, place, h.msg)
  BY <1>2
<1> HIDE DEF place
<1>9. /\ thread' \in [Threads -> [at : Positions, msg : Ids \cup {0}]]
      /\ \A u \in Threads : thread'[u].at \in Carrying => thread'[u].msg \in Ids
      /\ thread'[t].at = place
      /\ \A u \in Threads : u # t => thread'[u] = thread[u]
  BY <1>1, <1>5, <1>7, <1>8, StepFacts
<1>10. Flags'
  BY <1>1, <1>2, <1>4, <1>9 DEF Flags, reads
<1>11. Stream'
  BY <1>1, <1>2, StreamKept
<1>12. \/ thread'[t].at = "test" /\ h.op \notin Ending
       \/ thread'[t].at \in {"pop", "clear"} /\ h.op \in Ending
  BY <1>5, <1>6, <1>9 DEF place, Ending
<1> QED
  BY <1>2, <1>4, <1>9, <1>10, <1>11, <1>12 DEF IInv

(* A thread in a handler: what it does to write_queue_ and where it goes.  *)
Uses(t) ==
  Tests(t) \/ Pushes(t) \/ start_writing(t) \/ WrotePops(t) \/ WroteLooks(t)
  \/ WriteFailed(t) \/ Closes(t)

LEMMA UseStep ==
  ASSUME IInv, NEW t \in Threads, Uses(t)
  PROVE  /\ IInv'
         /\ ready' = ready /\ \A u \in Threads : u # t => thread'[u] = thread[u]
         /\ Tests(t) => thread'[t].at = IF write_queue_ = <<>> THEN "first" ELSE "behind"
         /\ Pushes(t) => thread'[t].at = IF thread[t].at = "first" THEN "kick" ELSE "idle"
         /\ start_writing(t) \/ Closes(t) => thread'[t].at = "idle"
         /\ WrotePops(t) => thread'[t].at = "look"
         /\ WroteLooks(t) => thread'[t].at = IF write_queue_ = <<>> THEN "idle" ELSE "kick"
         /\ WriteFailed(t) => thread'[t].at = "close"
<1>1. Flags /\ Stream
  BY DEF IInv
<1>2. /\ session # "overread" /\ session' \in {session, "undefined"} /\ thread[t].at \in Positions
      /\ UNCHANGED <<protocol_, reads, written, ready, client>>
      /\ socket' \in {socket, "closed"}
  BY <1>1 DEF Uses, Tests, Pushes, start_writing, WrotePops, WroteLooks, WriteFailed, Closes, Live,
     writes, Positions
<1>3. write_queue_' \in Seq(Ids) /\ writing' \in Seq(Ids)
  <2>1. write_queue_ \in Seq(Ids) /\ writing \in Seq(Ids)
    BY <1>1 DEF Flags
  <2>2. CASE Pushes(t)
    <3>1. thread[t].msg \in Ids
      BY <1>1, <2>2 DEF Pushes, Flags, Carrying
    <3> QED
      BY <2>1, <2>2, <3>1 DEF Pushes
  <2>3. CASE start_writing(t)
    <3>1. write_queue_ # <<>> => Head(write_queue_) \in Ids
      BY <2>1
    <3> QED
      BY <2>1, <2>3, <3>1 DEF start_writing
  <2>4. CASE WrotePops(t)
    BY <2>1, <2>4 DEF WrotePops
  <2>5. CASE Tests(t) \/ WroteLooks(t) \/ Closes(t)
    <3>1. UNCHANGED <<write_queue_, writing>>
      BY <2>5 DEF Tests, WroteLooks, Closes, writes
    <3> QED
      BY <2>1, <3>1
  <2>6. CASE WriteFailed(t)
    BY <2>1, <2>6 DEF WriteFailed
  <2> QED
    BY <2>2, <2>3, <2>4, <2>5, <2>6 DEF Uses
<1>4. reported' \in BOOLEAN
  <2>1. reported' \in {reported, TRUE}
    BY DEF Uses, Tests, Pushes, start_writing, WrotePops, WroteLooks, WriteFailed, Closes
  <2> QED
    BY <1>1, <2>1 DEF Flags
<1> DEFINE Goes(place, m) ==
      /\ place \in Positions /\ m \in Ids \cup {0} /\ (place \in Carrying => m \in Ids)
      /\ Step(t, place, m)
<1>5. Tests(t) => Goes(IF write_queue_ = <<>> THEN "first" ELSE "behind", thread[t].msg)
  BY <1>1 DEF Tests, Flags, Carrying, Positions
<1>6. Pushes(t) => Goes(IF thread[t].at = "first" THEN "kick" ELSE "idle", 0)
  BY DEF Pushes, Carrying, Positions
<1>7. start_writing(t) \/ Closes(t) => Goes("idle", 0)
  BY DEF start_writing, Closes, Leave, Carrying, Positions
<1>8. WrotePops(t) => Goes("look", 0)
  BY DEF WrotePops, Carrying, Positions
<1>9. WroteLooks(t) => Goes(IF write_queue_ = <<>> THEN "idle" ELSE "kick", 0)
  BY DEF WroteLooks, Carrying, Positions
<1>10. WriteFailed(t) => Goes("close", 0)
  BY DEF WriteFailed, Carrying, Positions
<1>11. ASSUME NEW place, NEW m, Goes(place, m)
       PROVE  /\ thread' \in [Threads -> [at : Positions, msg : Ids \cup {0}]]
              /\ \A u \in Threads : thread'[u].at \in Carrying => thread'[u].msg \in Ids
              /\ thread'[t].at = place
              /\ \A u \in Threads : u # t => thread'[u] = thread[u]
  BY <1>1, <1>11, StepFacts
<1>12. /\ Tests(t) => thread'[t].at = IF write_queue_ = <<>> THEN "first" ELSE "behind"
       /\ Pushes(t) => thread'[t].at = IF thread[t].at = "first" THEN "kick" ELSE "idle"
       /\ start_writing(t) \/ Closes(t) => thread'[t].at = "idle"
       /\ WrotePops(t) => thread'[t].at = "look"
       /\ WroteLooks(t) => thread'[t].at = IF write_queue_ = <<>> THEN "idle" ELSE "kick"
       /\ WriteFailed(t) => thread'[t].at = "close"
  <2> HIDE DEF Goes
  <2> QED
    BY <1>5, <1>6, <1>7, <1>8, <1>9, <1>10, <1>11
<1>13. \E place, m : Goes(place, m)
  <2> HIDE DEF Goes
  <2> QED
    BY <1>5, <1>6, <1>7, <1>8, <1>9, <1>10 DEF Uses
<1>14. /\ thread' \in [Threads -> [at : Positions, msg : Ids \cup {0}]]
       /\ \A u \in Threads : thread'[u].at \in Carrying => thread'[u].msg \in Ids
       /\ \A u \in Threads : u # t => thread'[u] = thread[u]
  <2> HIDE DEF Goes
  <2> QED
    BY <1>11, <1>13
<1>15. Flags'
  <2>1. session' \in SessionStates /\ socket' \in {"open", "closed"}
    BY <1>1, <1>2 DEF Flags, SessionStates
  <2> QED
    BY <1>1, <1>2, <1>3, <1>4, <1>14, <2>1 DEF Flags, reads
<1>16. Stream'
  <2>1. session' # "overread"
    BY <1>2
  <2> QED
    BY <1>1, <1>2, <2>1, StreamKept
<1> QED
  BY <1>2, <1>12, <1>14, <1>15, <1>16 DEF IInv

(* A write of the operating system ends.                                   *)
LEMMA OsStep ==
  ASSUME IInv, OsWriteDone \/ OsWriteFails
  PROVE  /\ IInv'
         /\ writing # <<>> /\ UNCHANGED <<write_queue_, thread>>
         /\ Head(writing) \in Range(write_queue_) \/ OsWriteFails =>
              /\ session' = session /\ writing' = Tail(writing) /\ Queued(ready', Ending)
              /\ Single(ready, Ending) /\ ~Queued(ready, Ending) => Single(ready', Ending)
<1>1. Flags /\ Stream
  BY DEF IInv
<1>2. /\ session # "overread" /\ session' \in {session, "undefined"} /\ writing # <<>>
      /\ UNCHANGED <<protocol_, reads, write_queue_, thread, socket, client, reported>>
  BY DEF OsWriteDone, OsWriteFails, Live
<1>3. \/ UNCHANGED <<written, writing, ready>>
      \/ /\ written' \in {written, written \cup {Head(writing)}} /\ writing' = Tail(writing)
         /\ \E op \in Ending : ready' = Append(ready, Handler(op, 0))
  BY DEF OsWriteDone, OsWriteFails, Ending
<1>4. writing \in Seq(Ids) /\ ready \in Seq(Carried) /\ written \subseteq Ids
  BY <1>1 DEF Flags
<1>5. \A op \in Ending : Handler(op, 0) \in Carried /\ Handler(op, 0).op \in Ending
  BY DEF Handler, Carried, Handlers, Ending
<1>6. written' \subseteq Ids /\ writing' \in Seq(Ids)
  <2>1. Head(writing) \in Ids /\ Tail(writing) \in Seq(Ids)
    BY <1>2, <1>4
  <2> QED
    BY <1>3, <1>4, <2>1
<1>7. ready' \in Seq(Carried)
  <2>1. CASE ready' = ready
    BY <1>4, <2>1
  <2>2. CASE \E op \in Ending : ready' = Append(ready, Handler(op, 0))
    <3>1. PICK op \in Ending : ready' = Append(ready, Handler(op, 0))
      BY <2>2
    <3>2. Handler(op, 0) \in Carried
      BY <1>5
    <3> HIDE DEF Carried, Handler
    <3> QED
      BY <1>4, <3>1, <3>2
  <2> QED
    BY <1>3, <2>1, <2>2
<1>8. Flags'
  <2>1. session' \in SessionStates
    BY <1>1, <1>2 DEF Flags, SessionStates
  <2> QED
    BY <1>1, <1>2, <1>6, <1>7, <2>1 DEF Flags, reads
<1>9. Stream'
  <2>1. session' # "overread"
    BY <1>2
  <2> QED
    BY <1>1, <1>2, <2>1, StreamKept
<1>10. ASSUME Head(writing) \in Range(write_queue_) \/ OsWriteFails
       PROVE  /\ session' = session /\ writing' = Tail(writing) /\ Queued(ready', Ending)
              /\ Single(ready, Ending) /\ ~Queued(ready, Ending) => Single(ready', Ending)
  <2>1. /\ session' = session /\ writing' = Tail(writing)
        /\ \E op \in Ending : ready' = Append(ready, Handler(op, 0))
    BY <1>10 DEF OsWriteDone, OsWriteFails, Ending
  <2>2. PICK op \in Ending : ready' = Append(ready, Handler(op, 0))
    BY <2>1
  <2> QED
    BY <1>4, <1>5, <2>1, <2>2, AppendFacts
<1> QED
  BY <1>2, <1>8, <1>9, <1>10 DEF IInv

-----------------------------------------------------------------------------
LEMMA InitInvariant == Init => IInv
<1> SUFFICES ASSUME Init
             PROVE  IInv
  OBVIOUS
<1>1. Flags
  <2>1. /\ Nothing \in [at : Positions, msg : Ids \cup {0}]
        /\ Nothing.at = "idle" /\ "idle" \notin Carrying
    BY DEF Nothing, Positions, Carrying
  <2>2. thread \in [Threads -> [at : Positions, msg : Ids \cup {0}]]
    BY <2>1 DEF Init
  <2>3. \A t \in Threads : thread[t].at \notin Carrying
    BY <2>1 DEF Init
  <2>4. reading \in BOOLEAN /\ reported \in BOOLEAN
    BY Zenon DEF Init
  <2>5. /\ ready \in Seq(Carried) /\ write_queue_ \in Seq(Ids) /\ writing \in Seq(Ids)
        /\ written \subseteq Ids
    BY DEF Init
  <2>6. protocol_ \in Protocols /\ session \in SessionStates
    BY DEF Init, SessionStates
  <2>7. socket \in {"open", "closed"} /\ client \in {"there", "left"}
    BY DEF Init
  <2> QED
    BY <2>2, <2>3, <2>4, <2>5, <2>6, <2>7 DEF Flags
<1>2. Stream
  <2>1. protocol_ \in Protocols /\ <<>> \in Seq(Bytes) /\ Len(<<>>) = 0 /\ <<>> \in Frames
    BY DEF Init, Frames
  <2>2. Split(protocol_, <<>>) = After(<<>>, Split(protocol_, <<>>))
    BY <2>1, SplitType, AfterFacts
  <2>3. 0 <= BufferSize /\ 0 <= MaxBytes
    BY SizesAssumption, BoundsAssumption
  <2> QED
    BY <2>1, <2>2, <2>3 DEF Init, Stream
<1> QED
  BY <1>1, <1>2 DEF IInv

LEMMA NextInvariant == IInv /\ [Next]_vars => IInv'
<1> SUFFICES ASSUME IInv, [Next]_vars
             PROVE  IInv'
  OBVIOUS
<1>1. CASE start \/ StartThrows \/ do_read \/ ReceiveFailed \/ ClientLeaves
  BY <1>1, QuietStep
<1>2. CASE Received \/ ReceivedNothing
  BY <1>2, ReadStep
<1>3. CASE \E t \in Threads : Worker(t)
  <2>1. PICK t \in Threads : Take(t) \/ Uses(t)
    BY <1>3 DEF Worker, Uses
  <2> QED
    BY <2>1, TakeStep, UseStep
<1>4. CASE OsWriteDone \/ OsWriteFails
  BY <1>4, OsStep
<1>5. CASE UNCHANGED vars
  BY <1>5 DEF vars, reads, writes, IInv, Flags, Stream
<1> QED
  BY <1>1, <1>2, <1>3, <1>4, <1>5 DEF Next

(* In every session the stream is split as its buffer is behind the frames *)
(* handed over, whatever the threads do to write_queue_.                   *)
THEOREM Invariance == Spec => []IInv
BY InitInvariant, NextInvariant, PTL DEF Spec

(* Every variable keeps its type: read_buffer_ is not overrun, and no      *)
(* response without a number is written, whoever meets in write_queue_.    *)
THEOREM TypeCorrect == Spec => []TypeOK
<1>1. IInv => TypeOK
  <2> SUFFICES ASSUME IInv
               PROVE  TypeOK
    OBVIOUS
  <2>1. Flags /\ Stream
    BY DEF IInv
  <2>2. ready \in Seq(Handlers)
    <3>1. ready \in Seq(Carried)
      BY <2>1 DEF Flags
    <3>2. Carried \subseteq Handlers
      BY DEF Carried
    <3> QED
      BY <3>1, <3>2
  <2>3. handed \in Seq(Seq(Bytes))
    BY <2>1 DEF Stream, Frames
  <2> QED
    BY <2>1, <2>2, <2>3 DEF Flags, Stream, TypeOK
<1> QED
  BY <1>1, Invariance, PTL

(* Whatever bytes the client sends and however the reads cut them, the     *)
(* frames that process_data() handed over and those still in read_buffer_  *)
(* are the frames of the whole stream; only a binary length that wraps     *)
(* makes it read behind the buffer.                                        *)
THEOREM SplitsTheStreamTheorem == Spec => []SplitsTheStream
<1>1. IInv => SplitsTheStream
  <2> SUFFICES ASSUME IInv
               PROVE  SplitsTheStream
    OBVIOUS
  <2>1. Stream
    BY DEF IInv
  <2>2. session # "overread" =>
          /\ Split(protocol_, received).frames = handed \o Split(protocol_, read_buffer_).frames
          /\ Split(protocol_, received).cur = Split(protocol_, read_buffer_).cur
    BY <2>1 DEF Stream, After
  <2> QED
    BY <2>1, <2>2 DEF Stream, SplitsTheStream
<1> QED
  BY <1>1, Invariance, PTL

-----------------------------------------------------------------------------
(* The write chain, as long as no two threads meet in write_queue_.        *)

(* What is defined: no front() or pop_front() of an empty queue, and no    *)
(* write of a response that is gone.                                       *)
Defined == session # "undefined"

(* A step that moves no thread, and neither starts nor ends a write.       *)
LEMMA OneWriteKept ==
  ASSUME OneWrite, UNCHANGED <<write_queue_, writing>>,
         Queued(ready', Ending) <=> Queued(ready, Ending), Single(ready', Ending),
         \A u \in Threads : thread'[u].at = thread[u].at
  PROVE  OneWrite'
<1>1. \A u \in Threads : Writer(u)' <=> Writer(u)
  BY DEF Writer
<1>2. NoWrite' <=> NoWrite
  BY <1>1 DEF NoWrite
<1> QED
  BY <1>1, <1>2 DEF OneWrite

LEMMA TakeKeeps ==
  ASSUME IInv, OneWrite, Defined, NEW t \in Threads, Take(t)
  PROVE  OneWrite' /\ Defined'
<1>1. /\ thread[t].at = "idle" /\ \A u \in Threads : u # t => thread'[u] = thread[u]
      /\ UNCHANGED <<session, write_queue_, writing>>
      /\ Queued(ready', Ending) => Queued(ready, Ending)
      /\ Single(ready, Ending) => Single(ready', Ending)
      /\ \/ /\ thread'[t].at = "test"
            /\ Queued(ready, Ending) => Queued(ready', Ending)
         \/ /\ thread'[t].at \in {"pop", "clear"}
            /\ Queued(ready, Ending)
            /\ Single(ready, Ending) => ~Queued(ready', Ending)
  BY TakeStep
<1>2. ~Writer(t) /\ \A u \in Threads : u # t => (Writer(u)' <=> Writer(u))
  BY <1>1 DEF Writer
<1>3. CASE thread'[t].at = "test" /\ (Queued(ready, Ending) => Queued(ready', Ending))
  <2>1. \A u \in Threads : Writer(u)' <=> Writer(u)
    BY <1>2, <1>3 DEF Writer
  <2>2. NoWrite' <=> NoWrite
    BY <1>1, <1>3, <2>1 DEF NoWrite
  <2> QED
    BY <1>1, <1>3, <2>1, <2>2 DEF OneWrite, Defined
<1>4. CASE /\ thread'[t].at \in {"pop", "clear"} /\ Queued(ready, Ending)
           /\ Single(ready, Ending) => ~Queued(ready', Ending)
  <2>1. /\ write_queue_ # <<>> /\ writing = <<>> /\ ~Queued(ready', Ending)
        /\ Single(ready', Ending) /\ (\A u \in Threads : ~Writer(u)) /\ ~NoWrite
    BY <1>1, <1>4 DEF OneWrite, NoWrite
  <2>2. Writer(t)' /\ \A u \in Threads : Writer(u)' => u = t
    BY <1>2, <1>4, <2>1 DEF Writer
  <2>3. ~NoWrite'
    BY <2>2 DEF NoWrite
  <2>4. \A u \in Threads : thread'[u].at \notin {"first", "close"}
    BY <1>1, <1>4, <2>1 DEF OneWrite
  <2> QED
    BY <1>1, <2>1, <2>2, <2>3, <2>4 DEF OneWrite, Defined
<1> QED
  BY <1>1, <1>3, <1>4

(* A thread that is inside the queue is alone there.                       *)
LEMMA Alone ==
  ASSUME NEW t \in Threads
  PROVE  /\ ~Meet /\ Inside(t) => \A u \in Threads : u # t => ~Inside(u)
         /\ ~Meet' /\ Inside(t)' => \A u \in Threads : u # t => ~Inside(u)'
BY DEF Meet

LEMMA UseKeeps ==
  ASSUME IInv, OneWrite, Defined, ~Meet, ~Meet', NEW t \in Threads, Uses(t)
  PROVE  OneWrite' /\ Defined'
<1>1. ready' = ready /\ \A u \in Threads : u # t => thread'[u] = thread[u]
  BY UseStep
<1>2. \A u \in Threads : u # t => /\ Writer(u)' <=> Writer(u)
                                  /\ Inside(u)' <=> Inside(u)
  BY <1>1 DEF Writer, Inside
<1>3. write_queue_ \in Seq(Ids) /\ writing \in Seq(Ids)
  BY DEF IInv, Flags
<1>4. CASE Tests(t)
  <2>1. /\ thread[t].at = "test" /\ UNCHANGED <<session, write_queue_, writing>>
        /\ thread'[t].at = IF write_queue_ = <<>> THEN "first" ELSE "behind"
    BY <1>4, UseStep DEF Tests, writes
  <2>2. ~Writer(t) /\ ~Writer(t)' /\ Inside(t)'
    BY <2>1 DEF Writer, Inside
  <2>3. \A u \in Threads : Writer(u)' <=> Writer(u)
    BY <1>2, <2>2
  <2>4. NoWrite' <=> NoWrite
    BY <1>1, <2>1, <2>3 DEF NoWrite
  <2>5. \A u \in Threads : u # t => ~Inside(u)
    BY <1>2, <2>2, Alone
  <2>6. write_queue_ = <<>> => NoWrite
    BY <2>2, <2>5 DEF OneWrite, NoWrite, Writer, Inside
  <2> QED
    BY <1>1, <2>1, <2>3, <2>4, <2>6 DEF OneWrite, Defined
<1>5. CASE Pushes(t)
  <2>1. /\ thread[t].at \in {"first", "behind"} /\ UNCHANGED <<session, writing>>
        /\ write_queue_' = Append(write_queue_, thread[t].msg)
        /\ thread'[t].at = IF thread[t].at = "first" THEN "kick" ELSE "idle"
    BY <1>5, UseStep DEF Pushes
  <2>2. /\ write_queue_' # <<>>
        /\ write_queue_ # <<>> => Head(write_queue_') = Head(write_queue_)
    <3>1. thread[t].msg \in Ids
      BY <2>1 DEF IInv, Flags, Carrying
    <3> QED
      BY <1>3, <2>1, <3>1
  <2>3. \A u \in Threads : u # t => ~Inside(u) /\ ~Inside(u)'
    BY <1>2, <2>1, Alone DEF Inside
  <2>4. CASE thread[t].at = "first"
    <3>1. NoWrite /\ thread'[t].at = "kick"
      BY <2>1, <2>4 DEF OneWrite
    <3>2. Writer(t)' /\ \A u \in Threads : Writer(u)' => u = t
      BY <1>2, <3>1 DEF Writer, NoWrite
    <3>3. \A u \in Threads : thread'[u].at \notin {"first", "close"}
      BY <2>3, <3>1 DEF Inside
    <3> QED
      BY <1>1, <2>1, <2>2, <3>1, <3>2, <3>3 DEF OneWrite, NoWrite, Defined
  <2>5. CASE thread[t].at = "behind"
    <3>1. write_queue_ # <<>> /\ thread'[t].at = "idle"
      BY <2>1, <2>5 DEF OneWrite
    <3>2. \A u \in Threads : Writer(u)' <=> Writer(u)
      BY <1>2, <2>5, <3>1 DEF Writer
    <3>3. ~NoWrite /\ ~NoWrite'
      BY <1>1, <2>1, <3>1, <3>2 DEF OneWrite, NoWrite
    <3>4. \A u \in Threads : thread'[u].at \notin {"first", "close"}
      BY <2>3, <3>1 DEF Inside
    <3> QED
      BY <1>1, <2>1, <2>2, <3>1, <3>2, <3>3, <3>4 DEF OneWrite, Defined
  <2> QED
    BY <2>1, <2>4, <2>5
<1>6. CASE start_writing(t)
  <2>1. thread[t].at = "kick" /\ thread'[t].at = "idle" /\ write_queue_' = write_queue_
    BY <1>6, UseStep DEF start_writing
  <2>2. /\ Writer(t) /\ write_queue_ # <<>> /\ writing = <<>> /\ ~Queued(ready, Ending)
        /\ \A u \in Threads : Writer(u) => u = t
    BY <2>1 DEF OneWrite, Writer
  <2>3. session' = session /\ writing' = <<Head(write_queue_)>>
    BY <1>6, <2>2 DEF start_writing
  <2>4. \A u \in Threads : ~Writer(u)'
    BY <1>2, <2>1, <2>2 DEF Writer
  <2>5. \A u \in Threads : thread'[u].at \notin {"first", "close"}
    BY <1>1, <2>1, <2>2 DEF OneWrite, NoWrite
  <2>6. writing' # <<>> /\ ~NoWrite'
    BY <2>3 DEF NoWrite
  <2> QED
    BY <1>1, <2>1, <2>2, <2>3, <2>4, <2>5, <2>6 DEF OneWrite, Defined
<1>7. CASE WrotePops(t)
  <2>1. thread[t].at = "pop" /\ thread'[t].at = "look" /\ writing' = writing
    BY <1>7, UseStep DEF WrotePops
  <2>2. /\ write_queue_ # <<>> /\ writing = <<>> /\ ~Queued(ready, Ending)
        /\ \A u \in Threads : Writer(u) => u = t
    BY <2>1 DEF OneWrite, Writer
  <2>3. session' = session
    BY <1>7, <2>2 DEF WrotePops
  <2>4. Writer(t)' /\ \A u \in Threads : Writer(u)' => u = t
    BY <1>2, <2>1, <2>2 DEF Writer
  <2>5. \A u \in Threads : u # t => ~Inside(u)' /\ thread'[u].at \notin {"kick", "pop", "clear"}
    BY <2>1, <2>4, Alone DEF Inside, Writer
  <2>6. \A u \in Threads :
          thread'[u].at \notin {"first", "close", "behind", "kick", "pop", "clear"}
    BY <2>1, <2>5 DEF Inside
  <2>7. ~NoWrite'
    BY <2>4 DEF NoWrite
  <2> QED
    BY <1>1, <2>1, <2>2, <2>3, <2>4, <2>6, <2>7 DEF OneWrite, Defined
<1>8. CASE WroteLooks(t)
  <2>1. /\ thread[t].at = "look" /\ UNCHANGED <<session, write_queue_, writing>>
        /\ thread'[t].at = IF write_queue_ = <<>> THEN "idle" ELSE "kick"
    BY <1>8, UseStep DEF WroteLooks, writes
  <2>2. /\ writing = <<>> /\ ~Queued(ready, Ending)
        /\ \A u \in Threads : Writer(u) => u = t
    BY <2>1 DEF OneWrite, Writer
  <2>3. \A u \in Threads : u # t => ~Inside(u)' /\ ~Writer(u)'
    BY <1>2, <2>1, <2>2, Alone DEF Inside
  <2>4. \A u \in Threads : /\ u # t => thread'[u].at \notin {"first", "close", "behind",
                                                           "kick", "pop", "clear"}
                           /\ thread'[u].at \notin {"first", "close"}
    BY <2>1, <2>3 DEF Inside, Writer
  <2>5. CASE write_queue_ = <<>>
    <3>1. thread'[t].at = "idle" /\ \A u \in Threads : ~Writer(u)'
      BY <2>1, <2>3, <2>5 DEF Writer
    <3> QED
      BY <1>1, <2>1, <2>2, <2>4, <2>5, <3>1 DEF OneWrite, Defined
  <2>6. CASE write_queue_ # <<>>
    <3>1. thread'[t].at = "kick" /\ Writer(t)' /\ \A u \in Threads : Writer(u)' => u = t
      BY <2>1, <2>3, <2>6 DEF Writer
    <3>2. ~NoWrite'
      BY <3>1 DEF NoWrite
    <3> QED
      BY <1>1, <2>1, <2>2, <2>4, <2>6, <3>1, <3>2 DEF OneWrite, Defined
  <2> QED
    BY <2>5, <2>6
<1>9. CASE WriteFailed(t)
  <2>1. /\ thread[t].at = "clear" /\ thread'[t].at = "close" /\ write_queue_' = <<>>
        /\ UNCHANGED <<session, writing>>
    BY <1>9, UseStep DEF WriteFailed
  <2>2. /\ writing = <<>> /\ ~Queued(ready, Ending)
        /\ \A u \in Threads : Writer(u) => u = t
    BY <2>1 DEF OneWrite, Writer
  <2>3. \A u \in Threads : ~Writer(u)'
    BY <1>2, <2>1, <2>2 DEF Writer
  <2>4. NoWrite'
    BY <1>1, <2>1, <2>2, <2>3 DEF NoWrite
  <2>5. \A u \in Threads : thread'[u].at \notin {"behind", "kick", "pop", "clear"}
    <3>1. \A u \in Threads : u # t => ~Inside(u)'
      BY <2>1, Alone DEF Inside
    <3> QED
      BY <2>1, <2>3, <3>1 DEF Inside, Writer
  <2> QED
    BY <1>1, <2>1, <2>2, <2>3, <2>4, <2>5 DEF OneWrite, Defined
<1>10. CASE Closes(t)
  <2>1. /\ thread[t].at = "close" /\ thread'[t].at = "idle"
        /\ UNCHANGED <<session, write_queue_, writing>>
    BY <1>10, UseStep DEF Closes, writes
  <2>2. \A u \in Threads : Writer(u)' <=> Writer(u)
    BY <1>2, <2>1 DEF Writer
  <2>3. NoWrite' <=> NoWrite
    BY <1>1, <2>1, <2>2 DEF NoWrite
  <2> QED
    BY <1>1, <2>1, <2>2, <2>3 DEF OneWrite, Defined
<1> QED
  BY <1>4, <1>5, <1>6, <1>7, <1>8, <1>9, <1>10 DEF Uses

LEMMA OsKeeps ==
  ASSUME IInv, OneWrite, Defined, OsWriteDone \/ OsWriteFails
  PROVE  OneWrite' /\ Defined'
<1>1. writing # <<>> /\ UNCHANGED <<write_queue_, thread>>
  BY OsStep
<1>2. /\ write_queue_ # <<>> /\ writing = <<Head(write_queue_)>> /\ Single(ready, Ending)
      /\ ~Queued(ready, Ending) /\ \A u \in Threads : ~Writer(u)
  BY <1>1 DEF OneWrite
<1>3. Head(writing) \in Range(write_queue_) /\ Tail(writing) = <<>>
  <2>1. write_queue_ \in Seq(Ids)
    BY DEF IInv, Flags
  <2>2. 1 \in DOMAIN write_queue_ /\ Head(write_queue_) = write_queue_[1]
    BY <1>2, <2>1
  <2>3. Head(writing) = write_queue_[1] /\ Tail(writing) = <<>>
    BY <1>2, <2>1, <2>2
  <2> QED
    BY <2>2, <2>3 DEF Range
<1>4. /\ session' = session /\ writing' = <<>> /\ Queued(ready', Ending)
      /\ Single(ready', Ending)
  BY <1>2, <1>3, OsStep
<1>5. (\A u \in Threads : ~Writer(u)') /\ ~NoWrite' /\ ~NoWrite
  BY <1>1, <1>2, <1>4 DEF Writer, NoWrite
<1>6. \A u \in Threads : thread'[u].at \notin {"first", "close"}
  BY <1>1, <1>5 DEF OneWrite
<1> QED
  BY <1>1, <1>2, <1>4, <1>5, <1>6 DEF OneWrite, Defined

LEMMA NextKeeps ==
  ASSUME IInv, OneWrite, Defined, ~Meet, ~Meet', [Next]_vars
  PROVE  OneWrite' /\ Defined'
<1>1. CASE start \/ StartThrows \/ do_read \/ ReceiveFailed \/ ClientLeaves
  <2>1. UNCHANGED <<write_queue_, writing, ready, thread>> /\ Defined'
    BY <1>1, QuietStep DEF Defined
  <2> QED
    BY <2>1, OneWriteKept DEF OneWrite
<1>2. CASE Received \/ ReceivedNothing
  <2>1. /\ UNCHANGED <<write_queue_, writing, thread>> /\ Defined'
        /\ Queued(ready', Ending) <=> Queued(ready, Ending)
        /\ Single(ready', Ending)
    BY <1>2, ReadStep DEF Defined, OneWrite
  <2> QED
    BY <2>1, OneWriteKept
<1>3. CASE \E t \in Threads : Worker(t)
  <2>1. PICK t \in Threads : Take(t) \/ Uses(t)
    BY <1>3 DEF Worker, Uses
  <2> QED
    BY <2>1, TakeKeeps, UseKeeps
<1>4. CASE OsWriteDone \/ OsWriteFails
  BY <1>4, OsKeeps
<1>5. CASE UNCHANGED vars
  <2>1. UNCHANGED <<write_queue_, writing, ready, thread, session>>
    BY <1>5 DEF vars, writes
  <2> QED
    BY <2>1, OneWriteKept DEF OneWrite, Defined
<1> QED
  BY <1>1, <1>2, <1>3, <1>4, <1>5 DEF Next

(* As long as no two threads are inside write_queue_ at the same time, at  *)
(* most one response is being written, it is at the front of the queue     *)
(* until then, nothing waits without a write, and no use of the queue is   *)
(* undefined: a worker pops and writes only what is there.  (A behaviour   *)
(* up to the first meeting, and then stuttering, is one without meeting.)  *)
THEOREM OneWriteTheorem == Spec /\ []~Meet => [](OneWrite /\ Defined)
<1> DEFINE Chain == OneWrite /\ Defined
<1>1. Init => Chain
  <2> SUFFICES ASSUME Init
               PROVE  Chain
    OBVIOUS
  <2>1. \A t \in Threads : thread[t].at = "idle"
    BY DEF Init, Nothing
  <2>2. ~Queued(<<>>, Ending) /\ Single(<<>>, Ending)
    BY DEF Queued, Single
  <2> QED
    BY <2>1, <2>2 DEF Init, OneWrite, NoWrite, Writer, Defined
<1>2. IInv /\ Chain /\ ~Meet /\ (~Meet)' /\ [Next]_vars => Chain'
  BY NextKeeps
<1> HIDE DEF Chain
<1>3. Spec /\ []~Meet => []Chain
  BY <1>1, <1>2, Invariance, PTL DEF Spec
<1> QED
  BY <1>3 DEF Chain
=============================================================================
