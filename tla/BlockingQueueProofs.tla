------------------------- MODULE BlockingQueueProofs ------------------------
(***************************************************************************)
(* The safety of BlockingQueue for any number of threads, any items and    *)
(* any capacity.                                                           *)
(***************************************************************************)
EXTENDS BlockingQueue, SequenceTheorems, TLAPS

(* Every step that changes the queue adds an item at its end while there   *)
(* is room, takes the first one, or closes it; the rest leave it alone.    *)
Adds(t, v) == Len(q) # MaxSize /\ v \in Items /\ Enqueue(t, v)
Takes(t) == q # <<>> /\ Dequeue(t)
Sleeps(t) ==
  /\ \/ Len(q) = MaxSize /\ Ended(thread, t, "notFull")
     \/ q = <<>> /\ ~closed /\ Ended(thread, t, "notEmpty")
  /\ UNCHANGED qVars
Wakes(t) ==
  /\ \E how \in {"returned", "threw", "push", "pop"} : Ended(thread, t, how)
  /\ UNCHANGED qVars
Closes(t) == closed' = TRUE /\ Ended(NotEmptyNotified, t, "returned") /\ UNCHANGED <<q, accepted, taken>>

(* The five kinds of step, for a queue whose variables have their types:   *)
(* what a call of queue.h may do to the queue and to the sleeping threads. *)
LEMMA QueueSteps ==
  ASSUME TypeOK, Next
  PROVE  /\ pushing' \in [Threads -> Items]
         /\ \E t \in Threads :
              (\E v \in Items : Adds(t, v)) \/ Takes(t) \/ Sleeps(t) \/ Wakes(t) \/ Closes(t)
<1> USE DEF Adds, Takes, Sleeps, Wakes, Closes
<1>1. PICK t \in Threads :
        \/ \E v \in Items : Push(t, v) \/ TryPush(t, v)
        \/ PushAgain(t) \/ Pop(t) \/ PopAgain(t) \/ TryPop(t)
        \/ Close(t) \/ Throw(t) \/ SpuriousWakeup(t)
  BY DEF Next
<1>2. CASE \E v \in Items : Push(t, v)
  BY <1>2 DEF Push, PushOrWait, TypeOK
<1>3. CASE \E v \in Items : TryPush(t, v)
  BY <1>3 DEF TryPush, TypeOK
<1>4. CASE PushAgain(t)
  BY <1>4 DEF PushAgain, PushOrWait, TypeOK
<1>5. CASE Pop(t) \/ PopAgain(t)
  BY <1>5 DEF Pop, PopAgain, PopOrWait, TypeOK
<1>6. CASE TryPop(t)
  BY <1>6 DEF TryPop, TypeOK
<1>7. CASE Close(t) \/ Throw(t) \/ SpuriousWakeup(t)
  BY <1>7 DEF Close, Throw, SpuriousWakeup, TypeOK
<1> QED BY <1>1, <1>2, <1>3, <1>4, <1>5, <1>6, <1>7

(* A notification turns sleeping threads into waking ones and touches no   *)
(* other; no thread is asleep on the condition that was notified.          *)
LEMMA Notifications ==
  ASSUME thread \in [Threads -> ThreadStates]
  PROVE  /\ NotEmptyNotified \in [Threads -> ThreadStates]
         /\ NotFullNotified \in [Threads -> ThreadStates]
         /\ \A t \in Threads : /\ NotEmptyNotified[t] # "notEmpty"
                               /\ NotEmptyNotified[t] = "notFull" => thread[t] = "notFull"
                               /\ NotFullNotified[t] # "notFull"
                               /\ NotFullNotified[t] = "notEmpty" => thread[t] = "notEmpty"
BY DEF NotEmptyNotified, NotFullNotified, ThreadStates

(* The variables keep their types and the queue never outgrows max_size.   *)
THEOREM QueueTypeCorrect == Spec => []TypeOK
<1>1. QueueInit => TypeOK
  <2> SUFFICES ASSUME QueueInit PROVE TypeOK
    OBVIOUS
  <2>1. q \in Seq(Items) /\ Len(q) = 0 /\ accepted \in Seq(Items) /\ taken \in Seq(Items)
    BY EmptySeq DEF QueueInit
  <2>2. thread \in [Threads -> ThreadStates] /\ closed \in BOOLEAN /\ pushing \in [Threads -> Items]
    BY DEF QueueInit, ThreadStates
  <2>3. Len(q) <= MaxSize
    BY <2>1, QueueAssumption
  <2> QED BY <2>1, <2>2, <2>3 DEF TypeOK
<1>2. TypeOK /\ [Next]_vars => TypeOK'
  <2> SUFFICES ASSUME TypeOK, [Next]_vars PROVE TypeOK'
    OBVIOUS
  <2>1. CASE UNCHANGED vars
    BY <2>1 DEF vars, qVars, TypeOK
  <2>2. CASE Next
    <3>1. PICK t \in Threads :
            (\E v \in Items : Adds(t, v)) \/ Takes(t) \/ Sleeps(t) \/ Wakes(t) \/ Closes(t)
      BY <2>2, QueueSteps
    <3>2. pushing' \in [Threads -> Items]
      BY <2>2, QueueSteps
    <3>3. \A v \in Items : Adds(t, v) => TypeOK'
      BY <3>2, Notifications, QueueAssumption DEF Adds, Enqueue, Ended, TypeOK, ThreadStates
    <3>4. Takes(t) => TypeOK'
      BY <3>2, Notifications, QueueAssumption DEF Takes, Dequeue, Ended, TypeOK, ThreadStates
    <3>5. Sleeps(t) \/ Wakes(t) => TypeOK'
      BY <3>2 DEF Sleeps, Wakes, Ended, qVars, TypeOK, ThreadStates
    <3>6. Closes(t) => TypeOK'
      BY <3>2, Notifications DEF Closes, Ended, TypeOK, ThreadStates
    <3> QED BY <3>1, <3>3, <3>4, <3>5, <3>6
  <2> QED BY <2>1, <2>2
<1> QED BY <1>1, <1>2, PTL DEF Spec

(* No lost wakeup, for any number of threads: push and pop notify only at  *)
(* the edges of the queue, and this is enough, because a thread falls      *)
(* asleep only at the edge and the first step off the edge wakes everyone. *)
THEOREM NoLostWakeup == Spec => []NobodyOversleeps
<1>1. QueueInit => NobodyOversleeps
  BY DEF QueueInit, NobodyOversleeps
<1>2. TypeOK /\ NobodyOversleeps /\ [Next]_vars => NobodyOversleeps'
  <2> SUFFICES ASSUME TypeOK, NobodyOversleeps, [Next]_vars PROVE NobodyOversleeps'
    OBVIOUS
  <2>1. CASE UNCHANGED vars
    BY <2>1 DEF vars, qVars, NobodyOversleeps
  <2>2. CASE Next
    <3>1. PICK t \in Threads :
            (\E v \in Items : Adds(t, v)) \/ Takes(t) \/ Sleeps(t) \/ Wakes(t) \/ Closes(t)
      BY <2>2, QueueSteps
    <3>2. \A v \in Items : Adds(t, v) => NobodyOversleeps'
      BY Notifications DEF Adds, Enqueue, Ended, TypeOK, NobodyOversleeps
    <3>3. Takes(t) => NobodyOversleeps'
      BY Notifications DEF Takes, Dequeue, Ended, TypeOK, NobodyOversleeps
    <3>4. Sleeps(t) \/ Wakes(t) => NobodyOversleeps'
      BY DEF Sleeps, Wakes, Ended, qVars, TypeOK, NobodyOversleeps
    <3>5. Closes(t) => NobodyOversleeps'
      BY Notifications DEF Closes, Ended, TypeOK, NobodyOversleeps
    <3> QED BY <3>1, <3>2, <3>3, <3>4, <3>5
  <2> QED BY <2>1, <2>2
<1> QED BY <1>1, <1>2, QueueTypeCorrect, PTL DEF Spec

(* An item moved from the head of one sequence to the end of another, and  *)
(* an item added at the end: the concatenation stays or gets that item.    *)
LEMMA MovedAlong ==
  ASSUME NEW s \in Seq(Items), NEW r \in Seq(Items)
  PROVE  /\ \A v \in Items : Append(s \o r, v) = s \o Append(r, v)
         /\ r # <<>> => Append(s, Head(r)) \o Tail(r) = s \o r
<1>1. ASSUME NEW v \in Items PROVE Append(s \o r, v) = s \o Append(r, v)
  <2>1. s \o r \in Seq(Items) /\ <<v>> \in Seq(Items)
    BY ConcatProperties
  <2>2. Append(s \o r, v) = (s \o r) \o <<v>> /\ Append(r, v) = r \o <<v>>
    BY <2>1, AppendIsConcat
  <2>3. (s \o r) \o <<v>> = s \o (r \o <<v>>)
    BY <2>1, ConcatAssociative
  <2> QED BY <2>2, <2>3
<1>2. ASSUME r # <<>> PROVE Append(s, Head(r)) \o Tail(r) = s \o r
  <2>1. Head(r) \in Items /\ Tail(r) \in Seq(Items)
    BY <1>2, HeadTailProperties
  <2>2. <<Head(r)>> \in Seq(Items)
    BY <2>1
  <2>3. r = <<Head(r)>> \o Tail(r)
    BY <1>2, HeadTailProperties
  <2>4. Append(s, Head(r)) = s \o <<Head(r)>>
    BY <2>1, AppendIsConcat
  <2>5. (s \o <<Head(r)>>) \o Tail(r) = s \o (<<Head(r)>> \o Tail(r))
    BY <2>1, <2>2, ConcatAssociative
  <2> QED BY <2>3, <2>4, <2>5
<1> QED BY <1>1, <1>2

(* First in, first out, for any threads and any capacity: what pop has     *)
(* returned and what is still queued is what push accepted, in order.      *)
THEOREM QueueIsFifo == Spec => []FirstInFirstOut
<1>1. QueueInit => FirstInFirstOut
  BY DEF QueueInit, FirstInFirstOut
<1>2. TypeOK /\ FirstInFirstOut /\ [Next]_vars => FirstInFirstOut'
  <2> SUFFICES ASSUME TypeOK, FirstInFirstOut, [Next]_vars PROVE FirstInFirstOut'
    OBVIOUS
  <2>1. CASE UNCHANGED vars
    BY <2>1 DEF vars, qVars, FirstInFirstOut
  <2>2. CASE Next
    <3>1. PICK t \in Threads :
            (\E v \in Items : Adds(t, v)) \/ Takes(t) \/ Sleeps(t) \/ Wakes(t) \/ Closes(t)
      BY <2>2, QueueSteps
    <3>2. ASSUME NEW v \in Items, Adds(t, v) PROVE FirstInFirstOut'
      <4>1. Append(taken \o q, v) = taken \o Append(q, v)
        BY MovedAlong DEF TypeOK
      <4> QED BY <3>2, <4>1 DEF Adds, Enqueue, FirstInFirstOut
    <3>3. Takes(t) => FirstInFirstOut'
      BY MovedAlong DEF Takes, Dequeue, TypeOK, FirstInFirstOut
    <3>4. Sleeps(t) \/ Wakes(t) \/ Closes(t) => FirstInFirstOut'
      BY DEF Sleeps, Wakes, Closes, qVars, FirstInFirstOut
    <3> QED BY <3>1, <3>2, <3>3, <3>4
  <2> QED BY <2>1, <2>2
<1> QED BY <1>1, <1>2, QueueTypeCorrect, PTL DEF Spec
=============================================================================
