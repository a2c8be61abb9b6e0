----------------------------- MODULE UdpClient -----------------------------
(***************************************************************************)
(* The UDP client of udp-asio-1.28 (udp_client.hpp): send() queues a       *)
(* message under mtx_, one worker thread takes messages and sends each     *)
(* through a socket of its own, stop() clears run_, which is an atomic     *)
(* that mtx_ does not protect, notifies and joins the worker.              *)
(***************************************************************************)
EXTENDS Naturals, Sequences

CONSTANTS
  Senders,    \* application threads that call send()
  MaxSends    \* bound: how many messages are queued over all

ASSUME MaxSendsAssumption == MaxSends \in Nat
ASSUME SendersAssumption == "worker" \notin Senders /\ "free" \notin Senders

VARIABLES
  run_,        \* atomic<bool>
  mtx_,        \* who holds the mutex, or "free"
  msg_queue_,  \* queue of messages [id, empty]
  worker,      \* where the worker thread is
  hand,        \* msg, the message that the worker has taken; id 0 is none
  caller       \* how far the application is in start() and stop()

(* History: only its own updates and the bound read it.                    *)
VARIABLES
  queued,      \* how many messages were queued: ids 1..queued
  sent,        \* the ids that async_send_to delivered to the network
  late         \* how many messages were taken after run_ was cleared

vars == <<run_, mtx_, msg_queue_, worker, hand, caller, queued, sent, late>>

Messages == [id : 1..MaxSends, empty : BOOLEAN]
None == [id |-> 0, empty |-> TRUE]

(* The worker before it is started, before it locks mtx_, evaluating the   *)
(* predicate of wait(), having found it false but not yet in the wait set, *)
(* in the wait set, woken and about to lock again, at the test of run_     *)
(* after wait(), at the queue, outside the lock with a message, ended.     *)
WorkerStates == {"none", "lock", "test", "block", "waiting", "woken", "awake",
                 "take", "deliver", "done"}
Holding == {"test", "block", "awake", "take"}

TypeOK ==
  /\ run_ \in BOOLEAN
  /\ mtx_ \in Senders \cup {"worker", "free"}
  /\ mtx_ = "worker" <=> worker \in Holding
  /\ msg_queue_ \in Seq(Messages)
  /\ worker \in WorkerStates
  /\ hand \in Messages \cup {None}
  /\ caller \in {"new", "started", "cleared", "notified", "joined"}
  /\ queued \in 0..MaxSends
  /\ sent \in Seq(1..MaxSends)
  /\ late \in Nat

Init ==
  /\ run_ = FALSE
  /\ mtx_ = "free"
  /\ msg_queue_ = <<>>
  /\ worker = "none"
  /\ hand = None
  /\ caller = "new"
  /\ queued = 0
  /\ sent = <<>>
  /\ late = 0

-----------------------------------------------------------------------------
(* Calls of the application.                                               *)

start ==
  /\ caller = "new"
  /\ caller' = "started"
  /\ run_' = TRUE
  /\ worker' = "lock"
  /\ UNCHANGED <<mtx_, msg_queue_, hand, queued, sent, late>>

StopClears ==
  /\ caller = "started"
  /\ caller' = "cleared"
  /\ run_' = FALSE
  /\ UNCHANGED <<mtx_, msg_queue_, worker, hand, queued, sent, late>>

(* notify_one() and notify_all() are the same for one waiting thread.      *)
Notify == worker' = IF worker = "waiting" THEN "woken" ELSE worker

StopNotifies ==
  /\ caller = "cleared"
  /\ caller' = "notified"
  /\ Notify
  /\ UNCHANGED <<run_, mtx_, msg_queue_, hand, queued, sent, late>>

StopJoins ==
  /\ caller = "notified"
  /\ worker = "done"
  /\ caller' = "joined"
  /\ UNCHANGED <<run_, mtx_, msg_queue_, worker, hand, queued, sent, late>>

stop == StopClears \/ StopNotifies \/ StopJoins

SendLocks(s) ==
  /\ mtx_ = "free"
  /\ queued < MaxSends
  /\ mtx_' = s
  /\ UNCHANGED <<run_, msg_queue_, worker, hand, caller, queued, sent, late>>

(* Mutant of SendQueues: the worker is not notified.                       *)
SendForgetsNotify(s) ==
  /\ mtx_ = s
  /\ mtx_' = "free"
  /\ queued' = queued + 1
  /\ \E empty \in BOOLEAN :
       msg_queue_' = Append(msg_queue_, [id |-> queued + 1, empty |-> empty])
  /\ UNCHANGED <<run_, worker, hand, caller, sent, late>>

(* The queue, the notification and the unlock at the end of the scope.     *)
SendQueues(s) ==
  /\ mtx_ = s
  /\ mtx_' = "free"
  /\ queued' = queued + 1
  /\ \E empty \in BOOLEAN :
       msg_queue_' = Append(msg_queue_, [id |-> queued + 1, empty |-> empty])
  /\ Notify
  /\ UNCHANGED <<run_, hand, caller, sent, late>>

send(s) == SendLocks(s) \/ SendQueues(s)

-----------------------------------------------------------------------------
(* The worker thread.                                                      *)

(* At the top of the loop msg is a new, empty string.                      *)
WorkerLocks ==
  /\ worker \in {"lock", "woken"}
  /\ mtx_ = "free"
  /\ mtx_' = "worker"
  /\ worker' = "test"
  /\ hand' = None
  /\ UNCHANGED <<run_, msg_queue_, caller, queued, sent, late>>

WorkerTests ==
  /\ worker = "test"
  /\ worker' = IF msg_queue_ # <<>> \/ ~run_ THEN "awake" ELSE "block"
  /\ UNCHANGED <<run_, mtx_, msg_queue_, hand, caller, queued, sent, late>>

(* wait() unlocks and enters the wait set in one step.                     *)
WorkerBlocks ==
  /\ worker = "block"
  /\ worker' = "waiting"
  /\ mtx_' = "free"
  /\ UNCHANGED <<run_, msg_queue_, hand, caller, queued, sent, late>>

SpuriousWakeup ==
  /\ worker = "waiting"
  /\ worker' = "woken"
  /\ UNCHANGED <<run_, mtx_, msg_queue_, hand, caller, queued, sent, late>>

(* Mutant of WorkerAwakes: run_ is not tested again after wait().          *)
AwakesBlindly ==
  /\ worker = "awake"
  /\ worker' = "take"
  /\ UNCHANGED <<run_, mtx_, msg_queue_, hand, caller, queued, sent, late>>

(* Mutant of WorkerAwakes: the loop is left with mtx_ locked.              *)
BreaksLocked ==
  /\ worker = "awake"
  /\ worker' = IF run_ THEN "take" ELSE "done"
  /\ UNCHANGED <<run_, mtx_, msg_queue_, hand, caller, queued, sent, late>>

(* The break leaves the scope of the lock, which unlocks mtx_.             *)
WorkerAwakes ==
  /\ worker = "awake"
  /\ worker' = IF run_ THEN "take" ELSE "done"
  /\ mtx_' = IF run_ THEN mtx_ ELSE "free"
  /\ UNCHANGED <<run_, msg_queue_, hand, caller, queued, sent, late>>

(* Mutant of WorkerTakes: the front is read but not removed.               *)
TakesCopy ==
  /\ worker = "take"
  /\ worker' = "deliver"
  /\ mtx_' = "free"
  /\ hand' = IF msg_queue_ # <<>> THEN Head(msg_queue_) ELSE hand
  /\ late' = late + IF run_ THEN 0 ELSE 1
  /\ UNCHANGED <<run_, msg_queue_, caller, queued, sent>>

WorkerTakes ==
  /\ worker = "take"
  /\ worker' = "deliver"
  /\ mtx_' = "free"
  /\ IF msg_queue_ # <<>>
     THEN /\ hand' = Head(msg_queue_)
          /\ msg_queue_' = Tail(msg_queue_)
          /\ late' = late + IF run_ THEN 0 ELSE 1
     ELSE UNCHANGED <<hand, msg_queue_, late>>
  /\ UNCHANGED <<run_, caller, queued, sent>>

(* An empty message is skipped.  Any other goes to async_send_to on a new  *)
(* socket and io_context; an error code or an exception is only printed.   *)
WorkerDelivers ==
  /\ worker = "deliver"
  /\ worker' = "lock"
  /\ \/ ~hand.empty /\ sent' = Append(sent, hand.id)
     \/ UNCHANGED sent
  /\ UNCHANGED <<run_, mtx_, msg_queue_, hand, caller, queued, late>>

Worker ==
  \/ WorkerLocks \/ WorkerTests \/ WorkerBlocks \/ WorkerAwakes
  \/ WorkerTakes \/ WorkerDelivers

Next == start \/ stop \/ (\E s \in Senders : send(s)) \/ Worker \/ SpuriousWakeup

Spec == Init /\ [][Next]_vars

(* The threads are scheduled: the worker goes on, a thread inside stop()   *)
(* or send() goes on.  No thread has to call start, send or stop, and a    *)
(* spurious wakeup may never happen.                                       *)
Fairness ==
  /\ WF_vars(Worker)
  /\ WF_vars(StopNotifies)
  /\ WF_vars(StopJoins)
  /\ \A s \in Senders : WF_vars(SendQueues(s))

FairSpec == Spec /\ Fairness

-----------------------------------------------------------------------------
(* send() is never missed: the worker does not stay in the wait set, nor   *)
(* go into it, while a message is queued.                                  *)
NoLostWakeup == worker \in {"block", "waiting"} => msg_queue_ = <<>>

(* The message that the worker is about to deliver, and those in the       *)
(* queue.                                                                  *)
InHand == IF worker = "deliver" /\ hand # None THEN {hand.id} ELSE {}
Waiting == InHand \cup {msg_queue_[i].id : i \in DOMAIN msg_queue_}

Chan == INSTANCE Channel
          WITH accepted <- queued, waiting <- Waiting, delivered <- sent

(* send() and the worker make a channel that delivers in order and at most *)
(* once: what is lost is empty or failed in async_send_to.                 *)
ImplementsChannel == Chan!Spec

(* After stop() has cleared run_ the worker takes at most the message that *)
(* it was about to take; the rest of the queue is left unsent.             *)
AtMostOneAfterStop == late <= 1

(* A queued message is taken, unless the application stops the client or   *)
(* never starts it.                                                        *)
QueuedIsTaken ==
  \A n \in 1..MaxSends :
    caller = "started" /\ (\E i \in DOMAIN msg_queue_ : msg_queue_[i].id = n)
      ~> caller # "started" \/ \A i \in DOMAIN msg_queue_ : msg_queue_[i].id # n

(* stop() returns when the worker was not between its test of the          *)
(* predicate and the wait set at the moment run_ was cleared.              *)
StopReturnsUnlessBlocking ==
  caller = "cleared" /\ worker # "block" ~> caller = "joined"

(* stop() returns, as main() of test.cpp expects of its last call.         *)
StopReturns == caller = "cleared" ~> caller = "joined"
=============================================================================
