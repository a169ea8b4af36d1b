---------------------------- MODULE BlockingQueue ---------------------------
(***************************************************************************)
(* common_src/queue.h: Queue<T>, one mutex and the conditions is_not_full  *)
(* and is_not_empty.  A call holds the mutex from its entry to its return  *)
(* or its wait, so a call that does not wait is one action, and one that   *)
(* waits is one action before and one after.                               *)
(***************************************************************************)
EXTENDS Naturals, Sequences

CONSTANTS
  Threads,   \* any of them may push, pop and close
  Items,     \* what they push
  MaxSize,   \* max_size
  MaxItems   \* bound of the model: how many items are ever pushed

ASSUME QueueAssumption == MaxSize \in Nat \ {0} /\ MaxItems \in Nat

VARIABLES
  q, closed,
  thread,    \* of each thread: what its last call is doing, or how it ended
  pushing,   \* of each thread inside push: its argument
  accepted,  \* history: every item push has accepted, in order
  taken      \* history: every item pop has returned, in order

qVars == <<q, closed, accepted, taken>>
vars == <<qVars, thread, pushing>>

(* returned, threw: outside.  notFull, notEmpty: asleep on that condition. *)
(* push, pop: notified, and about to test the condition again.             *)
ThreadStates == {"returned", "threw", "notFull", "notEmpty", "push", "pop"}

QueueInit ==
  /\ q = <<>> /\ closed = FALSE
  /\ thread = [t \in Threads |-> "returned"]
  /\ pushing \in [Threads -> Items]
  /\ accepted = <<>> /\ taken = <<>>

Outside(t) == thread[t] \in {"returned", "threw"}

(* The states after is_not_empty.notify_all() and after is_not_full's.     *)
NotEmptyNotified == [t \in Threads |-> IF thread[t] = "notEmpty" THEN "pop" ELSE thread[t]]
NotFullNotified == [t \in Threads |-> IF thread[t] = "notFull" THEN "push" ELSE thread[t]]

Ended(states, t, how) == thread' = [states EXCEPT ![t] = how]

-----------------------------------------------------------------------------
(* The last lines of push and try_push.                                    *)
Enqueue(t, v) ==
  /\ Len(accepted) < MaxItems
  /\ q' = Append(q, v)
  /\ accepted' = Append(accepted, v)
  /\ Ended(IF q = <<>> THEN NotEmptyNotified ELSE thread, t, "returned")
  /\ UNCHANGED <<closed, taken>>

(* The loop of push, which does not look at closed again.                  *)
PushOrWait(t, v) ==
  \/ Len(q) # MaxSize /\ Enqueue(t, v)
  \/ Len(q) = MaxSize /\ Ended(thread, t, "notFull") /\ UNCHANGED qVars

Push(t, v) ==
  /\ Outside(t) /\ ~closed
  /\ pushing' = [pushing EXCEPT ![t] = v]
  /\ PushOrWait(t, v)

PushAgain(t) ==
  /\ thread[t] = "push"
  /\ PushOrWait(t, pushing[t])
  /\ UNCHANGED pushing

(* A variant that does not ask whether there is room.                      *)
TryPushAlways(t, v) == Outside(t) /\ ~closed /\ Enqueue(t, v) /\ UNCHANGED pushing

TryPush(t, v) ==
  /\ Outside(t) /\ ~closed
  /\ \/ Len(q) # MaxSize /\ Enqueue(t, v)
     \/ Len(q) = MaxSize /\ Ended(thread, t, "returned") /\ UNCHANGED qVars
  /\ UNCHANGED pushing

-----------------------------------------------------------------------------
(* A variant that notifies is_not_full only when it empties the queue.     *)
DequeueNotifyingLate(t) ==
  /\ q' = Tail(q)
  /\ taken' = Append(taken, Head(q))
  /\ Ended(IF Len(q) = 1 THEN NotFullNotified ELSE thread, t, "returned")
  /\ UNCHANGED <<closed, accepted>>

(* A variant that takes the newest item.                                   *)
DequeueNewest(t) ==
  /\ q' = SubSeq(q, 1, Len(q) - 1)
  /\ taken' = Append(taken, q[Len(q)])
  /\ Ended(IF Len(q) = MaxSize THEN NotFullNotified ELSE thread, t, "returned")
  /\ UNCHANGED <<closed, accepted>>

(* The last lines of pop and try_pop.                                      *)
Dequeue(t) ==
  /\ q' = Tail(q)
  /\ taken' = Append(taken, Head(q))
  /\ Ended(IF Len(q) = MaxSize THEN NotFullNotified ELSE thread, t, "returned")
  /\ UNCHANGED <<closed, accepted>>

(* The loop of pop, which looks at closed only when there is nothing left. *)
PopOrWait(t) ==
  \/ q # <<>> /\ Dequeue(t)
  \/ q = <<>> /\ closed /\ Ended(thread, t, "threw") /\ UNCHANGED qVars
  \/ q = <<>> /\ ~closed /\ Ended(thread, t, "notEmpty") /\ UNCHANGED qVars

Pop(t) == Outside(t) /\ PopOrWait(t) /\ UNCHANGED pushing

PopAgain(t) == thread[t] = "pop" /\ PopOrWait(t) /\ UNCHANGED pushing

TryPop(t) ==
  /\ Outside(t)
  /\ \/ q # <<>> /\ Dequeue(t)
     \/ q = <<>> /\ closed /\ Ended(thread, t, "threw") /\ UNCHANGED qVars
     \/ q = <<>> /\ ~closed /\ Ended(thread, t, "returned") /\ UNCHANGED qVars
  /\ UNCHANGED pushing

-----------------------------------------------------------------------------
(* A variant that leaves the consumers asleep.                             *)
CloseSilently(t) ==
  /\ Outside(t) /\ ~closed
  /\ closed' = TRUE
  /\ Ended(thread, t, "returned")
  /\ UNCHANGED <<q, pushing, accepted, taken>>

(* close notifies is_not_empty only.                                       *)
Close(t) ==
  /\ Outside(t) /\ ~closed
  /\ closed' = TRUE
  /\ Ended(NotEmptyNotified, t, "returned")
  /\ UNCHANGED <<q, pushing, accepted, taken>>

(* push, try_push and close on a closed queue.                             *)
Throw(t) ==
  /\ Outside(t) /\ closed
  /\ Ended(thread, t, "threw")
  /\ UNCHANGED <<qVars, pushing>>

(* A condition variable may wake without a notification.                   *)
SpuriousWakeup(t) ==
  /\ \/ thread[t] = "notEmpty" /\ Ended(thread, t, "pop")
     \/ thread[t] = "notFull" /\ Ended(thread, t, "push")
  /\ UNCHANGED <<qVars, pushing>>

-----------------------------------------------------------------------------
Next ==
  \E t \in Threads :
    \/ \E v \in Items : Push(t, v) \/ TryPush(t, v)
    \/ PushAgain(t) \/ Pop(t) \/ PopAgain(t) \/ TryPop(t)
    \/ Close(t) \/ Throw(t) \/ SpuriousWakeup(t)

Spec == QueueInit /\ [][Next]_vars

(* A notified thread gets the mutex and tests its condition again.         *)
FairSpec == Spec /\ \A t \in Threads : WF_vars(PushAgain(t)) /\ WF_vars(PopAgain(t))

-----------------------------------------------------------------------------
TypeOK ==
  /\ q \in Seq(Items) /\ Len(q) <= MaxSize
  /\ closed \in BOOLEAN
  /\ thread \in [Threads -> ThreadStates]
  /\ pushing \in [Threads -> Items]
  /\ accepted \in Seq(Items) /\ taken \in Seq(Items)

(* Nobody sleeps through the event it waits for: who is asleep on          *)
(* is_not_empty has neither an item to take nor a close to be told of, and *)
(* who is asleep on is_not_full has no room, though push and pop notify    *)
(* only at the two edges of the queue and close only one condition.        *)
NobodyOversleeps ==
  \A t \in Threads :
    /\ thread[t] = "notEmpty" => q = <<>> /\ ~closed
    /\ thread[t] = "notFull" => Len(q) = MaxSize

(* Whatever threads push, pop, wait and close, the queue returns what it   *)
(* accepted, each item once and in that order, what is left included.      *)
FirstInFirstOut == accepted = taken \o q

(* A thread that is waiting for an item when the queue is closed returns,  *)
(* with an item or with ClosedQueue: this is how Sender::stop and          *)
(* GameLoop::stop free the thread that reads.                              *)
CloseFreesConsumers ==
  \A t \in Threads : closed /\ thread[t] \in {"notEmpty", "pop"} ~> Outside(t)

(* queue.h:24: "On a closed queue, any method will raise ClosedQueue": no  *)
(* call takes or adds an item any more.                                    *)
ClosedForGood == [][closed => UNCHANGED q]_vars
=============================================================================
