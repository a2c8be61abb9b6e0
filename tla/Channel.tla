------------------------------ MODULE Channel ------------------------------
(***************************************************************************)
(* What the clients of this repository promise about the messages given to *)
(* them: they are delivered in the order in which they were accepted, and  *)
(* some may be lost.  A message is the number of its acceptance, so that   *)
(* the messages under way need no order of their own.  A message is never  *)
(* delivered twice, nor after a younger one, nor without having been       *)
(* accepted.                                                               *)
(***************************************************************************)
EXTENDS Naturals, Sequences

VARIABLES
  accepted,    \* how many messages were accepted: 1..accepted
  waiting,     \* the messages that may still be delivered
  delivered    \* the messages that were delivered

chan == <<accepted, waiting, delivered>>

Init == accepted = 0 /\ waiting = {} /\ delivered = <<>>

Accept ==
  /\ accepted' = accepted + 1
  /\ waiting' = waiting \cup {accepted + 1}
  /\ UNCHANGED delivered

(* The oldest message is delivered.                                        *)
Deliver(m) ==
  /\ \A k \in waiting : m <= k
  /\ waiting' = waiting \ {m}
  /\ delivered' = Append(delivered, m)
  /\ UNCHANGED accepted

Lose ==
  /\ waiting' \in SUBSET waiting
  /\ UNCHANGED <<accepted, delivered>>

Next == Accept \/ (\E m \in waiting : Deliver(m)) \/ Lose

Spec == Init /\ [][Next]_chan

-----------------------------------------------------------------------------
Increasing(s) == \A i, j \in DOMAIN s : i < j => s[i] < s[j]

(* Every queue of the repository that messages go through (send_msgs_,     *)
(* write_msgs_, msg_queue_) is to deliver in the order of the calls of     *)
(* send(), each message at most once, and none that was not accepted.      *)
InOrderAtMostOnce ==
  /\ Increasing(delivered)
  /\ \A i \in DOMAIN delivered : delivered[i] \in 1..accepted
=============================================================================
