-------------------------- MODULE IoContextLemmas --------------------------
(***************************************************************************)
(* What the operations on a queue of ready handlers do to the predicates   *)
(* Queued, Single, Outstanding and AtMostOne, and to the number of         *)
(* handlers of a kind, for any set of handlers, and why a channel that     *)
(* delivers the oldest message first delivers in order.                    *)
(***************************************************************************)
EXTENDS IoContext, FiniteSetTheorems, TLAPS

(* run() takes the first handler: the rest holds the same operations, but  *)
(* for the one taken.                                                      *)
LEMMA TailFacts ==
  ASSUME NEW H, NEW q \in Seq(H), q # <<>>, NEW S
  PROVE  /\ Head(q) \in H
         /\ Tail(q) \in Seq(H)
         /\ Queued(Tail(q), S) => Queued(q, S)
         /\ Queued(q, S) => Queued(Tail(q), S) \/ Head(q).op \in S
         /\ Head(q).op \in S => Queued(q, S)
         /\ Single(q, S) => Single(Tail(q), S)
         /\ Single(q, S) /\ Head(q).op \in S => ~Queued(Tail(q), S)
<1>1. /\ Head(q) = q[1] /\ Len(q) \in Nat \ {0} /\ Tail(q) \in Seq(H)
      /\ Len(Tail(q)) = Len(q) - 1
      /\ \A i \in 1..(Len(q) - 1) : Tail(q)[i] = q[i + 1]
  OBVIOUS
<1>2. DOMAIN q = 1..Len(q) /\ DOMAIN Tail(q) = 1..(Len(q) - 1)
  BY <1>1
<1>3. \A i \in DOMAIN Tail(q) : i + 1 \in DOMAIN q /\ Tail(q)[i] = q[i + 1]
  BY <1>1, <1>2
<1>4. \A i \in DOMAIN q : i = 1 \/ (i - 1 \in DOMAIN Tail(q) /\ Tail(q)[i - 1] = q[i])
  BY <1>1, <1>2
<1>5. 1 \in DOMAIN q /\ Head(q) \in H
  BY <1>1, <1>2
<1>6. Queued(Tail(q), S) => Queued(q, S)
  BY <1>3 DEF Queued
<1>7. Queued(q, S) => Queued(Tail(q), S) \/ Head(q).op \in S
  BY <1>1, <1>4 DEF Queued
<1>8. Head(q).op \in S => Queued(q, S)
  BY <1>1, <1>5 DEF Queued
<1>9. Single(q, S) => Single(Tail(q), S)
  BY <1>2, <1>3 DEF Single
<1>10. Single(q, S) /\ Head(q).op \in S => ~Queued(Tail(q), S)
  BY <1>1, <1>2, <1>3, <1>5 DEF Single, Queued
<1> QED
  BY <1>1, <1>5, <1>6, <1>7, <1>8, <1>9, <1>10

(* A handler is added at the end of the queue.                             *)
LEMMA AppendFacts ==
  ASSUME NEW H, NEW q \in Seq(H), NEW h \in H, NEW S
  PROVE  /\ Append(q, h) \in Seq(H)
         /\ Queued(Append(q, h), S) <=> Queued(q, S) \/ h.op \in S
         /\ Single(q, S) /\ (h.op \notin S \/ ~Queued(q, S))
              => Single(Append(q, h), S)
<1>1. /\ Append(q, h) \in Seq(H)
      /\ DOMAIN q = 1..Len(q) /\ Len(q) \in Nat
      /\ DOMAIN Append(q, h) = 1..(Len(q) + 1)
      /\ \A i \in 1..Len(q) : Append(q, h)[i] = q[i]
      /\ Append(q, h)[Len(q) + 1] = h
  OBVIOUS
<1>2. Queued(Append(q, h), S) <=> Queued(q, S) \/ h.op \in S
  BY <1>1 DEF Queued
<1>3. Single(q, S) /\ (h.op \notin S \/ ~Queued(q, S)) => Single(Append(q, h), S)
  BY <1>1 DEF Single, Queued
<1> QED
  BY <1>1, <1>2, <1>3

(* Handlers a that were aborted together are added at the end.             *)
LEMMA ConcatFacts ==
  ASSUME NEW H, NEW q \in Seq(H), NEW a \in Seq(H), NEW S
  PROVE  /\ q \o a \in Seq(H)
         /\ Queued(q \o a, S) <=> Queued(q, S) \/ Queued(a, S)
         /\ Single(q, S) /\ Single(a, S) /\ ~(Queued(q, S) /\ Queued(a, S))
              => Single(q \o a, S)
<1> DEFINE c == q \o a
<1>1. /\ c \in Seq(H)
      /\ DOMAIN q = 1..Len(q) /\ Len(q) \in Nat
      /\ DOMAIN a = 1..Len(a) /\ Len(a) \in Nat
      /\ DOMAIN c = 1..(Len(q) + Len(a))
      /\ \A i \in 1..(Len(q) + Len(a)) :
           c[i] = IF i <= Len(q) THEN q[i] ELSE a[i - Len(q)]
  OBVIOUS
<1> HIDE DEF c
<1>2. \A i \in DOMAIN c : \/ i \in DOMAIN q /\ c[i] = q[i]
                          \/ i - Len(q) \in DOMAIN a /\ c[i] = a[i - Len(q)]
  BY <1>1
<1>3. \A i \in DOMAIN q : i \in DOMAIN c /\ c[i] = q[i]
  BY <1>1
<1>4. \A i \in DOMAIN a : i + Len(q) \in DOMAIN c /\ c[i + Len(q)] = a[i]
  BY <1>1
<1>5. Queued(c, S) <=> Queued(q, S) \/ Queued(a, S)
  BY <1>2, <1>3, <1>4 DEF Queued
<1>6. Single(q, S) /\ Single(a, S) /\ ~(Queued(q, S) /\ Queued(a, S)) => Single(c, S)
  <2> SUFFICES ASSUME Single(q, S), Single(a, S), ~(Queued(q, S) /\ Queued(a, S)),
                      NEW i \in DOMAIN c, NEW j \in DOMAIN c,
                      c[i].op \in S, c[j].op \in S
               PROVE  i = j
    BY DEF Single
  <2>1. CASE Queued(q, S)
    <3>1. i \in DOMAIN q /\ c[i] = q[i] /\ j \in DOMAIN q /\ c[j] = q[j]
      BY <1>2, <2>1 DEF Queued
    <3> QED
      BY <3>1 DEF Single
  <2>2. CASE ~Queued(q, S)
    <3>1. /\ i - Len(q) \in DOMAIN a /\ c[i] = a[i - Len(q)]
          /\ j - Len(q) \in DOMAIN a /\ c[j] = a[j - Len(q)]
      BY <1>2, <2>2 DEF Queued
    <3>2. i - Len(q) = j - Len(q)
      BY <3>1 DEF Single
    <3> QED
      BY <1>1, <3>2
  <2> QED
    BY <2>1, <2>2
<1> QED
  BY <1>1, <1>5, <1>6 DEF c

(* Closing an I/O object makes one aborted handler of each operation that  *)
(* was pending on it, and nothing else.                                    *)
LEMMA AbortsFacts ==
  ASSUME NEW H, NEW P, IsFiniteSet(P), \A op \in P : Done(op, "aborted") \in H,
         NEW a \in Aborts(P), NEW S
  PROVE  /\ a \in Seq(H)
         /\ Queued(a, S) <=> P \cap S # {}
         /\ (\A x, y \in P \cap S : x = y) => Single(a, S)
<1>1. PICK s \in SetToSeqs(P) : a = [i \in DOMAIN s |-> Done(s[i], "aborted")]
  BY DEF Aborts
<1> DEFINE n == Cardinality(P)
<1>2. n \in Nat
  BY FS_CardinalityType
<1>3. s \in [1..n -> P] /\ \A i, j \in 1..n : i # j => s[i] # s[j]
  BY DEF SetToSeqs
<1>4. s \in Injection(1..n, P)
  BY <1>3 DEF Injection, IsInjective
<1>5. IsFiniteSet(1..n) /\ Cardinality(1..n) = n
  BY <1>2, FS_Interval
<1>6. s \in Surjection(1..n, P)
  BY <1>4, <1>5, FS_Injection
<1>7. \A op \in P : \E i \in 1..n : s[i] = op
  BY <1>6 DEF Surjection
<1> HIDE DEF n
<1>8. DOMAIN a = 1..n /\ \A i \in 1..n : a[i] = Done(s[i], "aborted") /\ a[i].op = s[i]
  BY <1>1, <1>3 DEF Done
<1>9. a \in Seq(H)
  <2>1. a = [i \in 1..n |-> Done(s[i], "aborted")]
    BY <1>1, <1>3
  <2>2. \A i \in 1..n : Done(s[i], "aborted") \in H
    BY <1>3
  <2> QED
    BY <1>2, <2>1, <2>2
<1>10. Queued(a, S) <=> P \cap S # {}
  BY <1>3, <1>7, <1>8 DEF Queued
<1>11. (\A x, y \in P \cap S : x = y) => Single(a, S)
  BY <1>3, <1>8 DEF Single
<1> QED
  BY <1>9, <1>10, <1>11

-----------------------------------------------------------------------------
(* The same for an operation that is outstanding in either form.           *)

(* run() takes the handler of one operation.                               *)
LEMMA TakeFacts ==
  ASSUME NEW H, NEW q \in Seq(H), q # <<>>, NEW p, NEW S
  PROVE  /\ Tail(q) \in Seq(H)
         /\ AtMostOne(p, q, S) => AtMostOne(p, Tail(q), S)
         /\ AtMostOne(p, q, S) /\ Head(q).op \in S
              => ~Outstanding(p, Tail(q), S)
         /\ Outstanding(p, Tail(q), S) => Outstanding(p, q, S)
         /\ Outstanding(p, q, S) /\ Head(q).op \notin S
              => Outstanding(p, Tail(q), S)
         /\ Head(q).op \in S => Outstanding(p, q, S)
BY TailFacts DEF Outstanding, AtMostOne

(* An operation is started.                                                *)
LEMMA AddFacts ==
  ASSUME NEW p, NEW q, NEW op, NEW S
  PROVE  /\ Outstanding(p \cup {op}, q, S) <=> Outstanding(p, q, S) \/ op \in S
         /\ AtMostOne(p, q, S) /\ ~(op \in S /\ Outstanding(p, q, S))
              => AtMostOne(p \cup {op}, q, S)
BY DEF Outstanding, AtMostOne

(* An operation is finished as soon as it is started, or a handler posted. *)
LEMMA EnqueueFacts ==
  ASSUME NEW H, NEW q \in Seq(H), NEW h \in H, NEW p, NEW S
  PROVE  /\ Append(q, h) \in Seq(H)
         /\ Outstanding(p, Append(q, h), S) <=> Outstanding(p, q, S) \/ h.op \in S
         /\ AtMostOne(p, q, S) /\ ~(h.op \in S /\ Outstanding(p, q, S))
              => AtMostOne(p, Append(q, h), S)
BY AppendFacts DEF Outstanding, AtMostOne

(* A pending operation finishes.                                           *)
LEMMA FinishFacts ==
  ASSUME NEW H, NEW q \in Seq(H), NEW p, NEW op \in p, NEW ec, NEW S,
         Done(op, ec) \in H
  PROVE  /\ Append(q, Done(op, ec)) \in Seq(H)
         /\ Outstanding(p \ {op}, Append(q, Done(op, ec)), S)
              <=> Outstanding(p, q, S)
         /\ AtMostOne(p, q, S)
              => AtMostOne(p \ {op}, Append(q, Done(op, ec)), S)
<1>1. Done(op, ec).op = op
  BY DEF Done
<1>2. /\ Append(q, Done(op, ec)) \in Seq(H)
      /\ Queued(Append(q, Done(op, ec)), S) <=> Queued(q, S) \/ op \in S
      /\ Single(q, S) /\ (op \notin S \/ ~Queued(q, S))
           => Single(Append(q, Done(op, ec)), S)
  BY <1>1, AppendFacts
<1> QED
  BY <1>2 DEF Outstanding, AtMostOne

(* The operations of p that are in A are aborted.                          *)
LEMMA AbortFacts ==
  ASSUME NEW H, NEW q \in Seq(H), NEW p, NEW A \in SUBSET p, IsFiniteSet(A),
         \A op \in A : Done(op, "aborted") \in H,
         NEW a \in Aborts(A), NEW S
  PROVE  /\ q \o a \in Seq(H)
         /\ Outstanding(p \ A, q \o a, S) <=> Outstanding(p, q, S)
         /\ AtMostOne(p, q, S) => AtMostOne(p \ A, q \o a, S)
<1>1. /\ a \in Seq(H)
      /\ Queued(a, S) <=> A \cap S # {}
      /\ (\A x, y \in A \cap S : x = y) => Single(a, S)
  BY AbortsFacts
<1>2. /\ q \o a \in Seq(H)
      /\ Queued(q \o a, S) <=> Queued(q, S) \/ Queued(a, S)
      /\ Single(q, S) /\ Single(a, S) /\ ~(Queued(q, S) /\ Queued(a, S))
           => Single(q \o a, S)
  BY <1>1, ConcatFacts
<1>3. Outstanding(p \ A, q \o a, S) <=> Outstanding(p, q, S)
  BY <1>1, <1>2 DEF Outstanding
<1>4. AtMostOne(p, q, S) => AtMostOne(p \ A, q \o a, S)
  BY <1>1, <1>2 DEF AtMostOne
<1> QED
  BY <1>2, <1>3, <1>4

-----------------------------------------------------------------------------
(* The members of a queue, and the order they stand in.                    *)

(* Of two members of the queue q the one in front is related by R to the   *)
(* one behind it.                                                          *)
Pairs(q, R) == \A i, j \in DOMAIN q : i < j => <<q[i], q[j]>> \in R

(* The first member is taken.                                              *)
LEMMA FrontFacts ==
  ASSUME NEW H, NEW q \in Seq(H), q # <<>>
  PROVE  /\ Head(q) \in H /\ Tail(q) \in Seq(H)
         /\ ToSet(q) = {Head(q)} \cup ToSet(Tail(q))
         /\ \A R : Pairs(q, R) =>
              Pairs(Tail(q), R) /\ \A h \in ToSet(Tail(q)) : <<Head(q), h>> \in R
<1> DEFINE t == Tail(q)
<1>1. /\ Head(q) = q[1] /\ Len(q) \in Nat \ {0} /\ t \in Seq(H)
      /\ DOMAIN q = 1..Len(q) /\ DOMAIN t = 1..(Len(q) - 1)
      /\ \A i \in 1..(Len(q) - 1) : t[i] = q[i + 1]
  OBVIOUS
<1> HIDE DEF t
<1>2. \A i \in DOMAIN t : i + 1 \in DOMAIN q /\ 1 < i + 1 /\ t[i] = q[i + 1]
  BY <1>1
<1>3. \A i \in DOMAIN q : i = 1 \/ (i - 1 \in DOMAIN t /\ t[i - 1] = q[i])
  BY <1>1
<1>4. 1 \in DOMAIN q /\ Head(q) \in H
  BY <1>1
<1>5. ToSet(q) = {Head(q)} \cup ToSet(t)
  <2>1. ASSUME NEW h \in ToSet(q)
        PROVE  h \in {Head(q)} \cup ToSet(t)
    <3>1. PICK i \in DOMAIN q : h = q[i]
      BY <2>1 DEF ToSet
    <3> QED
      BY <1>1, <1>3, <3>1 DEF ToSet
  <2>2. ASSUME NEW h \in ToSet(t)
        PROVE  h \in ToSet(q)
    <3>1. PICK i \in DOMAIN t : h = t[i]
      BY <2>2 DEF ToSet
    <3> QED
      BY <1>2, <3>1 DEF ToSet
  <2>3. Head(q) \in ToSet(q)
    BY <1>1, <1>4 DEF ToSet
  <2> QED
    BY <2>1, <2>2, <2>3
<1>6. ASSUME NEW R, Pairs(q, R)
      PROVE  Pairs(t, R) /\ \A h \in ToSet(t) : <<Head(q), h>> \in R
  <2>1. ASSUME NEW i \in DOMAIN t, NEW j \in DOMAIN t, i < j
        PROVE  <<t[i], t[j]>> \in R
    <3>1. i + 1 < j + 1
      BY <1>1, <2>1
    <3> QED
      BY <1>2, <1>6, <3>1 DEF Pairs
  <2>2. ASSUME NEW h \in ToSet(t)
        PROVE  <<Head(q), h>> \in R
    <3>1. PICK i \in DOMAIN t : h = t[i]
      BY <2>2 DEF ToSet
    <3> QED
      BY <1>1, <1>2, <1>4, <1>6, <3>1 DEF Pairs
  <2> QED
    BY <2>1, <2>2 DEF Pairs
<1> QED
  BY <1>1, <1>4, <1>5, <1>6 DEF t

(* A member is added at the end.                                           *)
LEMMA BackFacts ==
  ASSUME NEW H, NEW q \in Seq(H), NEW h \in H
  PROVE  /\ Append(q, h) \in Seq(H) /\ Append(q, h) # <<>>
         /\ Head(Append(q, h)) = IF q = <<>> THEN h ELSE Head(q)
         /\ ToSet(Append(q, h)) = ToSet(q) \cup {h}
         /\ \A R : Pairs(q, R) /\ (\A g \in ToSet(q) : <<g, h>> \in R)
              => Pairs(Append(q, h), R)
<1> DEFINE b == Append(q, h)
<1>1. /\ b \in Seq(H) /\ b # <<>> /\ Len(q) \in Nat
      /\ DOMAIN q = 1..Len(q) /\ DOMAIN b = 1..(Len(q) + 1)
      /\ \A i \in 1..Len(q) : b[i] = q[i]
      /\ b[Len(q) + 1] = h
  OBVIOUS
<1>2. Head(b) = IF q = <<>> THEN h ELSE Head(q)
  OBVIOUS
<1> HIDE DEF b
<1>3. /\ \A i \in DOMAIN b : (i \in DOMAIN q /\ b[i] = q[i]) \/ (i = Len(q) + 1 /\ b[i] = h)
      /\ \A i \in DOMAIN q : i \in DOMAIN b /\ b[i] = q[i]
      /\ Len(q) + 1 \in DOMAIN b
  BY <1>1
<1>4. ToSet(b) = ToSet(q) \cup {h}
  <2>1. ASSUME NEW g \in ToSet(b)
        PROVE  g \in ToSet(q) \cup {h}
    <3>1. PICK i \in DOMAIN b : g = b[i]
      BY <2>1 DEF ToSet
    <3> QED
      BY <1>3, <3>1 DEF ToSet
  <2>2. ASSUME NEW g \in ToSet(q)
        PROVE  g \in ToSet(b)
    <3>1. PICK i \in DOMAIN q : g = q[i]
      BY <2>2 DEF ToSet
    <3> QED
      BY <1>3, <3>1 DEF ToSet
  <2>3. h \in ToSet(b)
    BY <1>1, <1>3 DEF ToSet
  <2> QED
    BY <2>1, <2>2, <2>3
<1>5. ASSUME NEW R, Pairs(q, R), \A g \in ToSet(q) : <<g, h>> \in R,
             NEW i \in DOMAIN b, NEW j \in DOMAIN b, i < j
      PROVE  <<b[i], b[j]>> \in R
  <2>1. i \in DOMAIN q /\ b[i] = q[i] /\ q[i] \in ToSet(q)
    <3>1. i \in DOMAIN q /\ b[i] = q[i]
      BY <1>1, <1>5
    <3> QED
      BY <3>1 DEF ToSet
  <2>2. CASE j \in DOMAIN q /\ b[j] = q[j]
    BY <1>5, <2>1, <2>2 DEF Pairs
  <2>3. CASE b[j] = h
    BY <1>5, <2>1, <2>3
  <2> QED
    BY <1>3, <2>2, <2>3
<1>6. \A R : Pairs(q, R) /\ (\A g \in ToSet(q) : <<g, h>> \in R) => Pairs(b, R)
  BY <1>5 DEF Pairs
<1> QED
  BY <1>1, <1>2, <1>4, <1>6 DEF b

(* Members are added that any member may stand in front of.                *)
LEMMA JoinFacts ==
  ASSUME NEW H, NEW q \in Seq(H), NEW a \in Seq(H)
  PROVE  /\ q \o a \in Seq(H)
         /\ ToSet(q \o a) = ToSet(q) \cup ToSet(a)
         /\ \A R : Pairs(q, R) /\ (\A g \in H, h \in ToSet(a) : <<g, h>> \in R)
              => Pairs(q \o a, R)
<1> DEFINE c == q \o a
<1>1. /\ c \in Seq(H)
      /\ DOMAIN q = 1..Len(q) /\ Len(q) \in Nat
      /\ DOMAIN a = 1..Len(a) /\ Len(a) \in Nat
      /\ DOMAIN c = 1..(Len(q) + Len(a))
      /\ \A i \in 1..(Len(q) + Len(a)) :
           c[i] = IF i <= Len(q) THEN q[i] ELSE a[i - Len(q)]
      /\ \A i \in DOMAIN c : c[i] \in H
  OBVIOUS
<1> HIDE DEF c
<1>2. \A i \in DOMAIN c : \/ i \in DOMAIN q /\ c[i] = q[i]
                          \/ i - Len(q) \in DOMAIN a /\ c[i] = a[i - Len(q)]
  BY <1>1
<1>3. \A i \in DOMAIN q : i \in DOMAIN c /\ c[i] = q[i]
  BY <1>1
<1>4. \A i \in DOMAIN a : i + Len(q) \in DOMAIN c /\ c[i + Len(q)] = a[i]
  BY <1>1
<1>5. ToSet(c) = ToSet(q) \cup ToSet(a)
  <2>1. ASSUME NEW g \in ToSet(c)
        PROVE  g \in ToSet(q) \cup ToSet(a)
    <3>1. PICK i \in DOMAIN c : g = c[i]
      BY <2>1 DEF ToSet
    <3> QED
      BY <1>2, <3>1 DEF ToSet
  <2>2. ASSUME NEW g \in ToSet(q)
        PROVE  g \in ToSet(c)
    <3>1. PICK i \in DOMAIN q : g = q[i]
      BY <2>2 DEF ToSet
    <3> QED
      BY <1>3, <3>1 DEF ToSet
  <2>3. ASSUME NEW g \in ToSet(a)
        PROVE  g \in ToSet(c)
    <3>1. PICK i \in DOMAIN a : g = a[i]
      BY <2>3 DEF ToSet
    <3> QED
      BY <1>4, <3>1 DEF ToSet
  <2> QED
    BY <2>1, <2>2, <2>3
<1>6. ASSUME NEW R, Pairs(q, R), \A g \in H, h \in ToSet(a) : <<g, h>> \in R,
             NEW i \in DOMAIN c, NEW j \in DOMAIN c, i < j
      PROVE  <<c[i], c[j]>> \in R
  <2>1. CASE j \in DOMAIN q
    <3>1. i \in DOMAIN q /\ c[i] = q[i] /\ c[j] = q[j]
      BY <1>1, <1>6, <2>1
    <3> QED
      BY <1>6, <2>1, <3>1 DEF Pairs
  <2>2. CASE j \notin DOMAIN q
    <3>1. c[i] \in H /\ c[j] \in ToSet(a)
      BY <1>1, <1>2, <2>2 DEF ToSet
    <3> QED
      BY <1>6, <3>1
  <2> QED
    BY <2>1, <2>2
<1>7. \A R : Pairs(q, R) /\ (\A g \in H, h \in ToSet(a) : <<g, h>> \in R)
             => Pairs(c, R)
  BY <1>6 DEF Pairs
<1> QED
  BY <1>1, <1>5, <1>7 DEF c

(* An empty queue has no members.                                          *)
LEMMA EmptyFacts == ToSet(<<>>) = {} /\ \A R : Pairs(<<>>, R)
BY DEF ToSet, Pairs

(* Every aborted handler is that of an operation that was pending.         *)
LEMMA AbortedMembers ==
  ASSUME NEW P, NEW a \in Aborts(P), NEW h \in ToSet(a)
  PROVE  \E op \in P : h = Done(op, "aborted")
<1>1. PICK s \in SetToSeqs(P) : a = [i \in DOMAIN s |-> Done(s[i], "aborted")]
  BY DEF Aborts
<1>2. s \in [1..Cardinality(P) -> P]
  BY DEF SetToSeqs
<1>3. PICK i \in DOMAIN s : h = Done(s[i], "aborted")
  BY <1>1 DEF ToSet
<1> QED
  BY <1>2, <1>3

(* A message is posted when a handler in the queue carries it.             *)
LEMMA PostsFacts ==
  ASSUME NEW q, NEW m
  PROVE  m \in Posts(q) <=> \E g \in ToSet(q) : g.op = "post" /\ g.msg = m
BY DEF Posts

(* The queue r came from q without a new handler that is in T, and in the  *)
(* order R if q was.                                                       *)
Quieter(r, q, R, T) ==
  (Pairs(q, R) => Pairs(r, R)) /\ ToSet(r) \cap T \subseteq ToSet(q)

(* When R only restricts what stands in front of the handlers of T, a      *)
(* queue in which a handler is taken, or others are added, is quieter.     *)
LEMMA QuieterFacts ==
  ASSUME NEW H, NEW R, NEW T, \A g \in H, h \in H \ T : <<g, h>> \in R,
         NEW q \in Seq(H)
  PROVE  /\ q # <<>> => Quieter(Tail(q), q, R, T)
         /\ \A h \in H \ T : Quieter(Append(q, h), q, R, T)
         /\ \A a \in Seq(H) : ToSet(a) \cap T = {} => Quieter(q \o a, q, R, T)
<1>1. q # <<>> => Quieter(Tail(q), q, R, T)
  BY FrontFacts DEF Quieter
<1>2. \A g \in ToSet(q) : g \in H
  BY DEF ToSet
<1>3. ASSUME NEW h \in H \ T
      PROVE  Quieter(Append(q, h), q, R, T)
  <2>1. \A g \in ToSet(q) : <<g, h>> \in R
    BY <1>2
  <2> QED
    BY <2>1, BackFacts DEF Quieter
<1>4. ASSUME NEW a \in Seq(H), ToSet(a) \cap T = {}
      PROVE  Quieter(q \o a, q, R, T)
  <2>1. \A h \in ToSet(a) : h \in H \ T
    BY <1>4 DEF ToSet
  <2>2. \A g \in H, h \in ToSet(a) : <<g, h>> \in R
    BY <2>1
  <2> QED
    BY <1>4, <2>2, JoinFacts DEF Quieter
<1> QED
  BY <1>1, <1>3, <1>4

(* Of two changes that make a queue quieter the whole does.                *)
LEMMA QuieterTwice ==
  ASSUME NEW R, NEW T, NEW p, NEW q, NEW r,
         Quieter(q, p, R, T), Quieter(r, q, R, T)
  PROVE  Quieter(r, p, R, T)
BY DEF Quieter

-----------------------------------------------------------------------------
(* How many handlers of a kind wait in a queue.                            *)

(* The places of the queue q where a handler of L waits.                   *)
Places(q, L) == {i \in DOMAIN q : q[i] \in L}

(* A queue has a finite number of places.                                  *)
LEMMA PlacesFinite ==
  ASSUME NEW H, NEW q \in Seq(H), NEW L
  PROVE  IsFiniteSet(Places(q, L)) /\ Cardinality(Places(q, L)) \in Nat
<1>1. DOMAIN q = 1..Len(q) /\ Len(q) \in Nat
  OBVIOUS
<1>2. IsFiniteSet(1..Len(q)) /\ Places(q, L) \subseteq 1..Len(q)
  BY <1>1, FS_Interval DEF Places
<1> QED
  BY <1>2, FS_Subset, FS_CardinalityType

(* Two queues are joined.                                                  *)
LEMMA PlacesJoin ==
  ASSUME NEW H, NEW q \in Seq(H), NEW a \in Seq(H), NEW L
  PROVE  Cardinality(Places(q \o a, L)) =
           Cardinality(Places(q, L)) + Cardinality(Places(a, L))
<1> DEFINE c == q \o a
           n == Len(q)
           B == {i \in DOMAIN c : i > n /\ c[i] \in L}
           f == [i \in Places(a, L) |-> i + n]
<1>1. /\ c \in Seq(H) /\ n \in Nat /\ Len(a) \in Nat
      /\ DOMAIN q = 1..n /\ DOMAIN a = 1..Len(a)
      /\ DOMAIN c = 1..(n + Len(a))
      /\ \A i \in 1..(n + Len(a)) : c[i] = IF i <= n THEN q[i] ELSE a[i - n]
  OBVIOUS
<1> HIDE DEF c, n
<1>2. Places(c, L) = Places(q, L) \cup B /\ Places(q, L) \cap B = {}
  BY <1>1 DEF Places
<1>3. /\ \A i \in Places(a, L) : i \in Nat /\ f[i] = i + n /\ f[i] \in B
      /\ \A i \in B : i - n \in Places(a, L) /\ f[i - n] = i
  BY <1>1 DEF Places
<1>4. f \in [Places(a, L) -> B] /\ \A i, j \in Places(a, L) : f[i] = f[j] => i = j
  BY <1>1, <1>3
<1>5. f \in Bijection(Places(a, L), B)
  BY <1>3, <1>4 DEF Bijection, Injection, IsInjective, Surjection
<1> HIDE DEF f, B
<1>6. IsFiniteSet(B) /\ Cardinality(B) = Cardinality(Places(a, L))
  BY <1>5, PlacesFinite, FS_Bijection DEF ExistsBijection
<1>7. IsFiniteSet(Places(q, L)) /\ IsFiniteSet(Places(a, L))
  BY PlacesFinite
<1>8. Cardinality(Places(q, L) \cup B)
        = Cardinality(Places(q, L)) + Cardinality(B) - Cardinality(Places(q, L) \cap B)
  BY <1>6, <1>7, FS_Union
<1>9. Cardinality(Places(q, L)) \in Nat /\ Cardinality(Places(a, L)) \in Nat
  BY PlacesFinite
<1>10. Cardinality(Places(q, L) \cap B) = 0
  BY <1>2, FS_EmptySet
<1> QED
  BY <1>2, <1>6, <1>8, <1>9, <1>10 DEF c

(* A queue of one handler, and no handler.                                 *)
LEMMA PlacesOne ==
  ASSUME NEW h, NEW L
  PROVE  /\ Cardinality(Places(<<h>>, L)) = IF h \in L THEN 1 ELSE 0
         /\ Cardinality(Places(<<>>, L)) = 0
<1>1. /\ Places(<<h>>, L) = IF h \in L THEN {1} ELSE {}
      /\ Places(<<>>, L) = {}
  BY DEF Places
<1> QED
  BY <1>1, FS_Singleton, FS_EmptySet

(* A handler is taken from the queue, or added to it.                      *)
LEMMA PlacesFacts ==
  ASSUME NEW H, NEW q \in Seq(H), NEW L
  PROVE  /\ q # <<>> => Cardinality(Places(q, L)) =
              Cardinality(Places(Tail(q), L)) + IF Head(q) \in L THEN 1 ELSE 0
         /\ \A h \in H : Cardinality(Places(Append(q, h), L)) =
              Cardinality(Places(q, L)) + IF h \in L THEN 1 ELSE 0
<1>1. ASSUME q # <<>>
      PROVE  Cardinality(Places(q, L)) =
               Cardinality(Places(Tail(q), L)) + IF Head(q) \in L THEN 1 ELSE 0
  <2> DEFINE t == Tail(q)
             u == <<Head(q)>>
             c == u \o t
  <2>1. t \in Seq(H) /\ u \in Seq(H) /\ q = c
    BY <1>1
  <2>2. Cardinality(Places(u, L)) = IF Head(q) \in L THEN 1 ELSE 0
    BY PlacesOne
  <2> HIDE DEF t, u
  <2>3. Cardinality(Places(c, L)) = Cardinality(Places(u, L)) + Cardinality(Places(t, L))
    BY <2>1, PlacesJoin
  <2>4. Cardinality(Places(t, L)) \in Nat
    BY <2>1, PlacesFinite
  <2> HIDE DEF c
  <2>5. Cardinality(Places(q, L)) =
          Cardinality(Places(t, L)) + IF Head(q) \in L THEN 1 ELSE 0
    <3>1. Cardinality(Places(q, L)) = Cardinality(Places(c, L))
      BY <2>1
    <3> QED
      BY <2>2, <2>3, <2>4, <3>1
  <2> QED
    BY <2>5 DEF t
<1>2. ASSUME NEW h \in H
      PROVE  Cardinality(Places(Append(q, h), L)) =
               Cardinality(Places(q, L)) + IF h \in L THEN 1 ELSE 0
  <2>1. <<h>> \in Seq(H) /\ Append(q, h) = q \o <<h>>
    OBVIOUS
  <2>2. Cardinality(Places(q \o <<h>>, L)) =
          Cardinality(Places(q, L)) + Cardinality(Places(<<h>>, L))
    BY <2>1, PlacesJoin
  <2> QED
    BY <2>1, <2>2, PlacesOne
<1> QED
  BY <1>1, <1>2

(* The aborted handlers: one of each operation.                            *)
LEMMA PlacesAborts ==
  ASSUME NEW P, IsFiniteSet(P), NEW a \in Aborts(P), NEW L
  PROVE  Cardinality(Places(a, L)) = Cardinality({op \in P : Done(op, "aborted") \in L})
<1>1. PICK s \in SetToSeqs(P) : a = [i \in DOMAIN s |-> Done(s[i], "aborted")]
  BY DEF Aborts
<1> DEFINE n == Cardinality(P)
           K == {op \in P : Done(op, "aborted") \in L}
           f == [i \in Places(a, L) |-> s[i]]
<1>2. n \in Nat
  BY FS_CardinalityType
<1>3. s \in [1..n -> P] /\ \A i, j \in 1..n : i # j => s[i] # s[j]
  BY DEF SetToSeqs
<1>4. s \in Injection(1..n, P)
  BY <1>3 DEF Injection, IsInjective
<1>5. IsFiniteSet(1..n) /\ Cardinality(1..n) = n
  BY <1>2, FS_Interval
<1>6. s \in Surjection(1..n, P)
  BY <1>4, <1>5, FS_Injection
<1>7. \A op \in P : \E i \in 1..n : s[i] = op
  BY <1>6 DEF Surjection
<1> HIDE DEF n
<1>8. DOMAIN a = 1..n /\ \A i \in 1..n : a[i] = Done(s[i], "aborted")
  BY <1>1, <1>3
<1>9. Places(a, L) = {i \in 1..n : Done(s[i], "aborted") \in L}
  BY <1>8 DEF Places
<1>10. f \in [Places(a, L) -> K] /\ \A i, j \in Places(a, L) : f[i] = f[j] => i = j
  BY <1>3, <1>9
<1>11. \A op \in K : \E i \in Places(a, L) : f[i] = op
  BY <1>7, <1>9
<1>12. f \in Bijection(Places(a, L), K)
  BY <1>10, <1>11 DEF Bijection, Injection, IsInjective, Surjection
<1>13. IsFiniteSet(Places(a, L))
  BY <1>5, <1>9, FS_Subset
<1> HIDE DEF f, K
<1>14. Cardinality(Places(a, L)) = Cardinality(K)
  BY <1>12, <1>13, FS_Bijection DEF ExistsBijection
<1> QED
  BY <1>14 DEF K

-----------------------------------------------------------------------------
(* A channel that delivers the oldest of the messages that wait: of the    *)
(* messages 1..a that were accepted, those in w wait, and those in d were  *)
(* delivered, in the order of acceptance and before all that wait.         *)
Ordered(a, w, d) ==
  /\ a \in Nat /\ w \subseteq 1..a
  /\ d \in Seq(Nat)
  /\ \A i, j \in DOMAIN d : i < j => d[i] < d[j]
  /\ \A i \in DOMAIN d : d[i] \in 1..a
  /\ \A i \in DOMAIN d, m \in w : d[i] < m

(* The next message is accepted.                                           *)
LEMMA AcceptOrdered ==
  ASSUME NEW a, NEW w, NEW d, Ordered(a, w, d)
  PROVE  Ordered(a + 1, w \cup {a + 1}, d)
<1>1. /\ a \in Nat /\ a + 1 \in Nat /\ 1..a \subseteq 1..(a + 1) /\ a + 1 \in 1..(a + 1)
      /\ \A k \in 1..a : k < a + 1
  BY DEF Ordered
<1> DEFINE b == a + 1
<1>2. b \in Nat /\ 1..a \subseteq 1..b /\ b \in 1..b /\ \A k \in 1..a : k < b
  BY <1>1
<1> HIDE DEF b
<1>3. Ordered(b, w \cup {b}, d)
  BY <1>2 DEF Ordered
<1> QED
  BY <1>3 DEF b

(* Some that wait are lost.                                                *)
LEMMA LoseOrdered ==
  ASSUME NEW a, NEW w, NEW d, Ordered(a, w, d), NEW v, v \subseteq w
  PROVE  Ordered(a, v, d)
BY DEF Ordered

(* The oldest is delivered.                                                *)
LEMMA DeliverOrdered ==
  ASSUME NEW a, NEW w, NEW d, Ordered(a, w, d), NEW m \in w, \A k \in w : m <= k
  PROVE  Ordered(a, w \ {m}, Append(d, m))
<1> DEFINE e == Append(d, m)
<1>1. /\ a \in Nat /\ d \in Seq(Nat) /\ m \in Nat /\ m \in 1..a
      /\ \A i \in DOMAIN d : d[i] < m
  BY DEF Ordered
<1>2. /\ e \in Seq(Nat) /\ DOMAIN d = 1..Len(d) /\ Len(d) \in Nat /\ DOMAIN e = 1..(Len(d) + 1)
      /\ \A i \in 1..Len(d) : e[i] = d[i]
      /\ e[Len(d) + 1] = m
  BY <1>1
<1> HIDE DEF e
<1>3. \A i \in DOMAIN e : (i \in DOMAIN d /\ e[i] = d[i]) \/ (i = Len(d) + 1 /\ e[i] = m)
  <2> TAKE i \in DOMAIN e
  <2>1. i \in 1..Len(d) \/ i = Len(d) + 1
    BY <1>2
  <2> QED
    BY <1>2, <2>1
<1>4. ASSUME NEW i \in DOMAIN e, NEW j \in DOMAIN e, i < j
      PROVE  e[i] < e[j]
  <2>1. i \in DOMAIN d /\ e[i] = d[i]
    <3>1. i # Len(d) + 1
      BY <1>2, <1>4
    <3> QED
      BY <1>3, <3>1
  <2>2. CASE j \in DOMAIN d /\ e[j] = d[j]
    BY <1>4, <2>1, <2>2 DEF Ordered
  <2>3. CASE e[j] = m
    BY <1>1, <2>1, <2>3
  <2> QED
    BY <1>3, <2>2, <2>3
<1>5. \A i \in DOMAIN e : e[i] \in 1..a
  BY <1>1, <1>3 DEF Ordered
<1>6. ASSUME NEW i \in DOMAIN e, NEW k \in w \ {m}
      PROVE  e[i] < k
  <2>1. k \in w /\ k \in Nat /\ m < k
    BY <1>1 DEF Ordered
  <2> QED
    BY <1>3, <2>1 DEF Ordered
<1>7. w \ {m} \subseteq 1..a
  BY DEF Ordered
<1>8. Ordered(a, w \ {m}, e)
  BY <1>1, <1>2, <1>4, <1>5, <1>6, <1>7 DEF Ordered
<1> QED
  BY <1>8 DEF e
=============================================================================
