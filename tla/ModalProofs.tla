---------------------------- MODULE ModalProofs -----------------------------
(***************************************************************************)
(* Theorems about ModalQueue, for any set of requests, and about           *)
(* ModalShow, for any sets of main-thread and background calls.            *)
(*                                                                         *)
(* What is proved of the queue alone is stated of QueueSpec.  Every        *)
(* behaviour of ModalShow is one of QueueSpec (ShowImplementsQueue), so it *)
(* holds there too.                                                        *)
(***************************************************************************)
EXTENDS ModalShow, SequenceTheorems, TLAPS

-----------------------------------------------------------------------------
(* The queue.                                                              *)

(***************************************************************************)
(* Erasing a position of a sequence shifts the later ones down by one.     *)
(***************************************************************************)
LEMMA RemoveAtProperties ==
  ASSUME NEW S, NEW q \in Seq(S), NEW i \in 1..Len(q)
  PROVE  /\ RemoveAt(q, i) \in Seq(S)
         /\ Len(RemoveAt(q, i)) = Len(q) - 1
         /\ \A j \in 1..(Len(q) - 1) :
              RemoveAt(q, i)[j] = IF j < i THEN q[j] ELSE q[j + 1]
<1> DEFINE front == SubSeq(q, 1, i - 1)
           back  == SubSeq(q, i + 1, Len(q))
<1>1. /\ front \in Seq(S)
      /\ Len(front) = i - 1
      /\ \A j \in 1..(i - 1) : front[j] = q[j]
  OBVIOUS
<1>2. /\ back \in Seq(S)
      /\ Len(back) = Len(q) - i
      /\ \A j \in 1..(Len(q) - i) : back[j] = q[i + j]
  OBVIOUS
<1>3. RemoveAt(q, i) = front \o back
  BY DEF RemoveAt
<1> HIDE DEF front, back
<1>4. /\ front \o back \in Seq(S)
      /\ Len(front \o back) = Len(q) - 1
  BY <1>1, <1>2
<1>5. ASSUME NEW j \in 1..(Len(q) - 1)
      PROVE  (front \o back)[j] = IF j < i THEN q[j] ELSE q[j + 1]
  <2>1. CASE j < i
    BY <1>1, <1>2, <2>1
  <2>2. CASE ~(j < i)
    <3>1. (front \o back)[j] = back[j - (i - 1)]
      BY <1>1, <1>2, <2>2
    <3>2. j - (i - 1) \in 1..(Len(q) - i)
      BY <2>2
    <3>3. i + (j - (i - 1)) = j + 1
      OBVIOUS
    <3> QED
      BY <1>2, <2>2, <3>1, <3>2, <3>3
  <2> QED
    BY <2>1, <2>2
<1> QED
  BY <1>3, <1>4, <1>5

-----------------------------------------------------------------------------
(* Type correctness and the inductive invariant.                           *)

\* A request has a ticket exactly when it was enqueued.
Ticketed ==
  \A r \in Requests :
    /\ ticket[r] <= issued
    /\ ticket[r] = 0 <=> status[r] = "None"

QueueIInv ==
  /\ QueueTypeOK
  /\ Ticketed
  /\ StatusMatchesQueue
  /\ ArrivalOrder
  /\ NoMissedWakeup

(***************************************************************************)
(* complete() by the holder of the turn is the cancellation of the front   *)
(* request: the two code paths leave the same state behind.                *)
(***************************************************************************)
LEMMA CompleteIsCancel ==
  ASSUME QueueTypeOK, NEW r \in Requests, Complete(r)
  PROVE  Cancel(r)
<1>1. 1 \in 1..Len(queue) /\ queue[1] = r
  BY DEF Complete, QueueTypeOK
<1>2. Tail(queue) = RemoveAt(queue, 1)
  <2>1. /\ Len(Tail(queue)) = Len(queue) - 1
        /\ \A j \in 1..(Len(queue) - 1) : Tail(queue)[j] = queue[j + 1]
        /\ Tail(queue) \in Seq(Requests)
    BY <1>1, HeadTailProperties DEF QueueTypeOK
  <2>2. /\ RemoveAt(queue, 1) \in Seq(Requests)
        /\ Len(RemoveAt(queue, 1)) = Len(queue) - 1
        /\ \A j \in 1..(Len(queue) - 1) : RemoveAt(queue, 1)[j] = queue[j + 1]
    <3>1. queue \in Seq(Requests)
      BY DEF QueueTypeOK
    <3>2. \A j \in 1..(Len(queue) - 1) : ~(j < 1)
      OBVIOUS
    <3> QED
      BY <1>1, <3>1, <3>2, RemoveAtProperties
  <2> QED
    BY <2>1, <2>2, SeqEqual
<1> QED
  BY <1>1, <1>2 DEF Complete, Cancel

LEMMA QueueInitInv == QueueInit => QueueIInv
BY DEF QueueInit, QueueIInv, QueueTypeOK, Ticketed, StatusMatchesQueue,
       ArrivalOrder, NoMissedWakeup

LEMMA EnqueueInv ==
  ASSUME QueueIInv, NEW r \in Requests, Enqueue(r)
  PROVE  QueueIInv'
<1> USE DEF QueueIInv
<1>1. /\ queue \in Seq(Requests) /\ Len(queue) \in Nat
      /\ issued \in Nat /\ ticket \in [Requests -> Nat]
  BY DEF QueueTypeOK
<1>2. QueueTypeOK'
  BY DEF QueueTypeOK, Enqueue
<1>3. Ticketed'
  BY <1>1 DEF QueueTypeOK, Ticketed, Enqueue
<1>4. /\ Len(queue') = Len(queue) + 1
      /\ queue'[Len(queue) + 1] = r
      /\ \A i \in 1..Len(queue) : queue'[i] = queue[i]
  BY <1>1 DEF Enqueue
<1>5. \A i \in 1..Len(queue) : queue[i] # r
  BY <1>1 DEF StatusMatchesQueue, Enqueue
<1>6. StatusMatchesQueue'
  <2> SUFFICES ASSUME NEW s \in Requests
               PROVE  /\ status'[s] = "Active" <=> queue' # <<>> /\ Head(queue') = s
                      /\ status'[s] = "Waiting"
                           <=> \E i \in 2..Len(queue') : queue'[i] = s
    BY DEF StatusMatchesQueue
  <2>1. status'[s] = IF s = r
                       THEN IF queue = <<>> THEN "Active" ELSE "Waiting"
                       ELSE status[s]
    BY DEF Enqueue, QueueTypeOK
  <2>2. queue' # <<>> /\ Head(queue') = queue'[1]
    BY <1>1, <1>4 DEF Enqueue
  <2>3. /\ status[s] = "Active" <=> queue # <<>> /\ Head(queue) = s
        /\ status[s] = "Waiting" <=> \E i \in 2..Len(queue) : queue[i] = s
    BY DEF StatusMatchesQueue
  <2>4. CASE queue = <<>>
    <3>1. Len(queue) = 0
      BY <2>4
    <3> QED
      BY <1>4, <2>1, <2>2, <2>3, <2>4, <3>1 DEF Enqueue
  <2>5. CASE queue # <<>>
    <3>1. Len(queue) >= 1 /\ queue'[1] = queue[1] /\ Head(queue) = queue[1]
      BY <1>1, <1>4, <2>5
    <3> QED
      BY <1>1, <1>4, <1>5, <2>1, <2>2, <2>3, <2>5, <3>1 DEF Enqueue
  <2> QED
    BY <2>4, <2>5
<1>7. ArrivalOrder'
  <2> SUFFICES ASSUME NEW i \in 1..Len(queue'), NEW j \in 1..Len(queue'), i < j
               PROVE  ticket'[queue'[i]] < ticket'[queue'[j]]
    BY DEF ArrivalOrder
  <2>1. i \in 1..Len(queue) /\ queue'[i] = queue[i] /\ queue[i] # r /\ queue[i] \in Requests
    BY <1>1, <1>4, <1>5
  <2>2. ticket'[queue[i]] = ticket[queue[i]] /\ ticket[queue[i]] <= issued
    BY <1>1, <2>1 DEF Enqueue, Ticketed
  <2>3. CASE j = Len(queue) + 1
    BY <1>1, <1>4, <2>1, <2>2, <2>3 DEF Enqueue
  <2>4. CASE j \in 1..Len(queue)
    <3>1. ticket'[queue'[j]] = ticket[queue[j]]
      BY <1>1, <1>4, <1>5, <2>4 DEF Enqueue
    <3> QED
      BY <2>1, <2>2, <2>4, <3>1 DEF ArrivalOrder
  <2>5. j = Len(queue) + 1 \/ j \in 1..Len(queue)
    BY <1>1, <1>4
  <2> QED
    BY <2>3, <2>4, <2>5
<1>8. NoMissedWakeup'
  BY DEF NoMissedWakeup, Enqueue, QueueTypeOK
<1> QED
  BY <1>2, <1>3, <1>6, <1>7, <1>8

LEMMA CancelInv ==
  ASSUME QueueIInv, NEW r \in Requests, Cancel(r)
  PROVE  QueueIInv'
<1> USE DEF QueueIInv
<1>1. PICK k \in 1..Len(queue) :
        /\ queue[k] = r
        /\ queue' = RemoveAt(queue, k)
        /\ LET ended == [status EXCEPT ![r] = "Completed"]
           IN  status' = IF k = 1 THEN Promote(queue', ended) ELSE ended
  BY DEF Cancel
<1>2. queue \in Seq(Requests) /\ Len(queue) \in Nat
  BY DEF QueueTypeOK
<1>3. /\ queue' \in Seq(Requests)
      /\ Len(queue') = Len(queue) - 1
      /\ \A j \in 1..(Len(queue) - 1) :
           queue'[j] = IF j < k THEN queue[j] ELSE queue[j + 1]
  BY <1>1, <1>2, RemoveAtProperties
<1>4. \A i \in 1..Len(queue) : queue[i] \in Requests
  BY <1>2
<1>5. \A i, j \in 1..Len(queue) : i # j => queue[i] # queue[j]
  <2> SUFFICES ASSUME NEW i \in 1..Len(queue), NEW j \in 1..Len(queue), i # j
               PROVE  queue[i] # queue[j]
    OBVIOUS
  <2>1. ticket[queue[i]] \in Nat /\ ticket[queue[j]] \in Nat
    BY <1>4 DEF QueueTypeOK
  <2>2. i < j \/ j < i
    BY <1>2
  <2> QED
    BY <2>1, <2>2 DEF ArrivalOrder
<1>6. queue' = <<>> <=> Len(queue) = 1
  BY <1>2, <1>3
<1>7. queue' # <<>> => Head(queue') = queue'[1]
  BY <1>3
<1>8. status' = [s \in Requests |->
        IF s = r THEN "Completed"
        ELSE IF k = 1 /\ queue' # <<>> /\ s = queue'[1] THEN "Active"
        ELSE status[s]]
  <2>1. queue' # <<>> => queue'[1] \in Requests /\ queue'[1] # r
    BY <1>1, <1>2, <1>3, <1>4, <1>5, <1>6
  <2> QED
    BY <1>1, <1>7, <2>1 DEF Promote, QueueTypeOK
<1>9. QueueTypeOK'
  BY <1>3, <1>8 DEF QueueTypeOK, Cancel, NotifyAll
<1>10. Ticketed'
  <2> SUFFICES ASSUME NEW s \in Requests
               PROVE  ticket'[s] <= issued' /\ (ticket'[s] = 0 <=> status'[s] = "None")
    BY DEF Ticketed
  <2>1. ticket'[s] = ticket[s] /\ issued' = issued
    BY DEF Cancel
  <2>2. status[r] # "None"
    BY DEF Cancel
  <2>3. (k = 1 /\ queue' # <<>> /\ s = queue'[1]) => status[s] # "None"
    <3> SUFFICES ASSUME k = 1, queue' # <<>>, s = queue'[1]
                 PROVE  status[s] = "Waiting"
      OBVIOUS
    <3>1. 2 \in 2..Len(queue) /\ s = queue[2]
      BY <1>2, <1>3, <1>6
    <3> QED
      BY <3>1 DEF StatusMatchesQueue
  <2> QED
    BY <1>8, <2>1, <2>2, <2>3 DEF Ticketed
<1>11. StatusMatchesQueue'
  <2> SUFFICES ASSUME NEW s \in Requests
               PROVE  /\ status'[s] = "Active" <=> queue' # <<>> /\ Head(queue') = s
                      /\ status'[s] = "Waiting"
                           <=> \E i \in 2..Len(queue') : queue'[i] = s
    BY DEF StatusMatchesQueue
  <2>1. /\ status[s] = "Active" <=> queue # <<>> /\ queue[1] = s
        /\ status[s] = "Waiting" <=> \E i \in 2..Len(queue) : queue[i] = s
    BY <1>2 DEF StatusMatchesQueue
  <2>2. CASE s = r
    <3>1. \A i \in 1..Len(queue') : queue'[i] # r
      BY <1>1, <1>2, <1>3, <1>5
    <3>2. status'[s] = "Completed"
      BY <1>8, <2>2
    <3>3. ~(queue' # <<>> /\ Head(queue') = s)
      BY <1>2, <1>3, <1>6, <1>7, <2>2, <3>1
    <3> QED
      BY <1>2, <1>3, <2>2, <3>1, <3>2, <3>3
  <2>3. CASE s # r /\ k = 1
    <3>1. \A j \in 1..(Len(queue) - 1) : queue'[j] = queue[j + 1]
      BY <1>2, <1>3, <2>3
    <3>2. queue[1] = r
      BY <1>1, <2>3
    <3>3. status[s] # "Active"
      BY <2>1, <2>3, <3>2
    <3>4. status'[s] = IF queue' # <<>> /\ s = queue'[1] THEN "Active" ELSE status[s]
      BY <1>8, <2>3
    <3>5. status'[s] = "Active" <=> queue' # <<>> /\ Head(queue') = s
      BY <1>7, <3>3, <3>4
    <3>6. ASSUME status'[s] = "Waiting"
          PROVE  \E i \in 2..Len(queue') : queue'[i] = s
      <4>1. status[s] = "Waiting" /\ ~(queue' # <<>> /\ s = queue'[1])
        BY <3>4, <3>6
      <4>2. PICK i \in 2..Len(queue) : queue[i] = s
        BY <2>1, <4>1
      <4>3. i - 1 \in 1..(Len(queue) - 1) /\ queue'[i - 1] = s
        BY <1>2, <3>1, <4>2
      <4>4. i # 2
        BY <1>2, <1>6, <4>1, <4>2, <4>3
      <4>5. i - 1 \in 2..Len(queue')
        BY <1>2, <1>3, <4>2, <4>4
      <4> QED
        BY <4>3, <4>5
    <3>7. ASSUME NEW i \in 2..Len(queue'), queue'[i] = s
          PROVE  status'[s] = "Waiting"
      <4>1. i \in 1..(Len(queue) - 1) /\ i + 1 \in 2..Len(queue) /\ queue[i + 1] = s
        BY <1>2, <1>3, <3>1, <3>7
      <4>2. status[s] = "Waiting"
        BY <2>1, <4>1
      <4>3. queue'[1] = queue[2] /\ queue[2] # queue[i + 1]
        <5>1. 1 \in 1..(Len(queue) - 1)
          BY <1>2, <4>1
        <5>2. queue'[1] = queue[2]
          BY <3>1, <5>1
        <5>3. 2 \in 1..Len(queue) /\ i + 1 \in 1..Len(queue) /\ 2 # i + 1
          BY <1>2, <1>3, <4>1
        <5> QED
          BY <1>5, <5>2, <5>3
      <4> QED
        BY <3>4, <4>1, <4>2, <4>3
    <3> QED
      BY <3>5, <3>6, <3>7
  <2>4. CASE s # r /\ k # 1
    <3>1. status'[s] = status[s]
      BY <1>8, <2>4
    <3>2. /\ queue # <<>> /\ queue' # <<>>
          /\ queue'[1] = queue[1]
      BY <1>1, <1>2, <1>3, <1>6, <2>4
    <3>3. (\E i \in 2..Len(queue) : queue[i] = s) <=> (\E i \in 2..Len(queue') : queue'[i] = s)
      <4>1. ASSUME NEW i \in 2..Len(queue), queue[i] = s
            PROVE  \E j \in 2..Len(queue') : queue'[j] = s
        <5>1. i # k
          BY <1>1, <2>4, <4>1
        <5>2. CASE i < k
          BY <1>2, <1>3, <4>1, <5>2
        <5>3. CASE i > k
          <6>1. i - 1 \in 2..Len(queue') /\ ~(i - 1 < k)
            BY <1>2, <1>3, <2>4, <5>3
          <6>2. queue'[i - 1] = queue[i]
            BY <1>2, <1>3, <6>1
          <6> QED
            BY <4>1, <6>1, <6>2
        <5> QED
          BY <1>2, <5>1, <5>2, <5>3
      <4>2. ASSUME NEW i \in 2..Len(queue'), queue'[i] = s
            PROVE  \E j \in 2..Len(queue) : queue[j] = s
        <5>1. i \in 2..Len(queue) /\ i + 1 \in 2..Len(queue)
          BY <1>2, <1>3
        <5>2. queue'[i] = queue[i] \/ queue'[i] = queue[i + 1]
          BY <1>2, <1>3
        <5> QED
          BY <4>2, <5>1, <5>2
      <4> QED
        BY <4>1, <4>2
    <3> QED
      BY <1>7, <2>1, <3>1, <3>2, <3>3
  <2> QED
    BY <2>2, <2>3, <2>4
<1>12. ArrivalOrder'
  <2> SUFFICES ASSUME NEW i \in 1..Len(queue'), NEW j \in 1..Len(queue'), i < j
               PROVE  ticket[queue'[i]] < ticket[queue'[j]]
    BY DEF ArrivalOrder, Cancel
  <2>1. PICK m \in 1..Len(queue), n \in 1..Len(queue) :
          m < n /\ queue'[i] = queue[m] /\ queue'[j] = queue[n]
    <3> DEFINE at(x) == IF x < k THEN x ELSE x + 1
    <3>1. /\ at(i) \in 1..Len(queue) /\ queue'[i] = queue[at(i)]
          /\ at(j) \in 1..Len(queue) /\ queue'[j] = queue[at(j)]
      BY <1>2, <1>3
    <3>2. at(i) < at(j)
      BY <1>2, <1>3
    <3> QED
      BY <3>1, <3>2
  <2> QED
    BY <2>1 DEF ArrivalOrder
<1>13. NoMissedWakeup'
  BY DEF NoMissedWakeup, Cancel, NotifyAll
<1> QED
  BY <1>9, <1>10, <1>11, <1>12, <1>13

(***************************************************************************)
(* Every operation of the queue preserves the invariant.                   *)
(***************************************************************************)
LEMMA QueueNextInv == QueueIInv /\ [QueueNext]_queueVars => QueueIInv'
<1> SUFFICES ASSUME QueueIInv, [QueueNext]_queueVars
             PROVE  QueueIInv'
  OBVIOUS
<1>1. ASSUME NEW r \in Requests, Enqueue(r)
      PROVE  QueueIInv'
  BY <1>1, EnqueueInv
<1>2. ASSUME NEW r \in Requests, SleepForTurn(r) \/ SleepForEnd(r) \/ SpuriousWakeup(r)
      PROVE  QueueIInv'
  <2>1. UNCHANGED <<queue, status, ticket, issued>>
    BY <1>2 DEF SleepForTurn, SleepForEnd, SpuriousWakeup
  <2>2. QueueTypeOK'
    BY <1>2, <2>1 DEF QueueIInv, QueueTypeOK, SleepForTurn, SleepForEnd, SpuriousWakeup
  <2>3. Ticketed' /\ StatusMatchesQueue' /\ ArrivalOrder'
    BY <2>1 DEF QueueIInv, Ticketed, StatusMatchesQueue, ArrivalOrder
  <2>4. NoMissedWakeup'
    BY <1>2, <2>1 DEF QueueIInv, QueueTypeOK, NoMissedWakeup,
                      SleepForTurn, SleepForEnd, SpuriousWakeup
  <2> QED
    BY <2>2, <2>3, <2>4 DEF QueueIInv
<1>3. ASSUME NEW r \in Requests, Cancel(r)
      PROVE  QueueIInv'
  BY <1>3, CancelInv
<1>4. ASSUME NEW r \in Requests, Complete(r)
      PROVE  QueueIInv'
  BY <1>3, <1>4, CompleteIsCancel DEF QueueIInv
<1>5. ASSUME UNCHANGED queueVars
      PROVE  QueueIInv'
  BY <1>5 DEF QueueIInv, QueueTypeOK, Ticketed, StatusMatchesQueue, ArrivalOrder,
              NoMissedWakeup, queueVars
<1> QED
  BY <1>1, <1>2, <1>3, <1>4, <1>5 DEF QueueNext

LEMMA QueueInvariant == QueueSpec => []QueueIInv
<1> QED
  BY QueueInitInv, QueueNextInv, PTL DEF QueueSpec

(***************************************************************************)
(* The state of the queue keeps its types.                                 *)
(***************************************************************************)
THEOREM QueueTypeCorrect == QueueSpec => []QueueTypeOK
<1>1. QueueIInv => QueueTypeOK
  BY DEF QueueIInv
<1> QED
  BY <1>1, QueueInvariant, PTL

(***************************************************************************)
(* Only the front of the deque is active, everything behind it waits, and  *)
(* a finished request is nowhere in it, for any number of callers and any  *)
(* interleaving of completions and cancellations.                          *)
(***************************************************************************)
THEOREM QueueStatusesCorrect == QueueSpec => []StatusMatchesQueue
<1>1. QueueIInv => StatusMatchesQueue
  BY DEF QueueIInv
<1> QED
  BY <1>1, QueueInvariant, PTL

(***************************************************************************)
(* The deque stays in arrival order through every cancellation.            *)
(***************************************************************************)
THEOREM QueueIsFifo == QueueSpec => []ArrivalOrder
<1>1. QueueIInv => ArrivalOrder
  BY DEF QueueIInv
<1> QED
  BY <1>1, QueueInvariant, PTL

(***************************************************************************)
(* No thread sleeps on a condition variable whose condition has come true. *)
(***************************************************************************)
THEOREM QueueNeverMissesWakeup == QueueSpec => []NoMissedWakeup
<1>1. QueueIInv => NoMissedWakeup
  BY DEF QueueIInv
<1> QED
  BY <1>1, QueueInvariant, PTL

-----------------------------------------------------------------------------
(* The deque implements turn taking by ticket.                             *)

LEMMA InsideAreQueued ==
  ASSUME QueueIInv
  PROVE  /\ Turns!Inside = {r \in Requests : status[r] \in {"Waiting", "Active"}}
         /\ \A r \in Turns!Inside : \E i \in 1..Len(queue) : queue[i] = r
         /\ \A i \in 1..Len(queue) : queue[i] \in Turns!Inside
<1> USE DEF QueueIInv
<1>1. queue \in Seq(Requests) /\ Len(queue) \in Nat
  BY DEF QueueTypeOK
<1>2. \A r \in Requests : status[r] \in {"None", "Waiting", "Active", "Completed"}
  BY DEF QueueTypeOK
<1>3. \A r \in Requests : ticket[r] > 0 <=> status[r] # "None"
  BY DEF QueueTypeOK, Ticketed
<1>4. Turns!Inside = {r \in Requests : status[r] \in {"Waiting", "Active"}}
  BY <1>2, <1>3 DEF Turns!Inside
<1>5. ASSUME NEW r \in Turns!Inside
      PROVE  \E i \in 1..Len(queue) : queue[i] = r
  <2>1. CASE status[r] = "Active"
    <3>1. 1 \in 1..Len(queue) /\ queue[1] = r
      BY <1>1, <1>4, <1>5, <2>1 DEF StatusMatchesQueue
    <3> QED
      BY <3>1
  <2>2. CASE status[r] = "Waiting"
    <3>1. PICK i \in 2..Len(queue) : queue[i] = r
      BY <1>4, <1>5, <2>2 DEF StatusMatchesQueue
    <3>2. i \in 1..Len(queue)
      BY <1>1
    <3> QED
      BY <3>1, <3>2
  <2> QED
    BY <1>4, <1>5, <2>1, <2>2
<1>6. ASSUME NEW i \in 1..Len(queue)
      PROVE  queue[i] \in Turns!Inside
  <2>1. queue[i] \in Requests
    BY <1>1
  <2>2. CASE i = 1
    <3>1. queue # <<>> /\ Head(queue) = queue[i]
      BY <1>1, <2>2
    <3> QED
      BY <1>4, <2>1, <3>1 DEF StatusMatchesQueue
  <2>3. CASE i # 1
    <3>1. i \in 2..Len(queue)
      BY <1>1, <2>3
    <3> QED
      BY <1>4, <2>1, <3>1 DEF StatusMatchesQueue
  <2> QED
    BY <2>2, <2>3
<1> QED
  BY <1>4, <1>5, <1>6

(***************************************************************************)
(* The active request is the one that arrived first of those unfinished.   *)
(***************************************************************************)
LEMMA ActiveIsOldest ==
  ASSUME QueueIInv
  PROVE  Turns!Oldest(Turns!Inside) = {r \in Requests : status[r] = "Active"}
<1>1. queue \in Seq(Requests) /\ Len(queue) \in Nat
  BY DEF QueueIInv, QueueTypeOK
<1>2. \A r \in Requests : ticket[r] \in Nat
  BY DEF QueueIInv, QueueTypeOK
<1>3. \A r \in Requests : status[r] = "Active" <=> Len(queue) >= 1 /\ queue[1] = r
  BY <1>1 DEF QueueIInv, StatusMatchesQueue
<1>4. \A i \in 1..Len(queue) : i = 1 \/ ticket[queue[1]] < ticket[queue[i]]
  <2> SUFFICES ASSUME NEW i \in 1..Len(queue), i # 1
               PROVE  ticket[queue[1]] < ticket[queue[i]]
    OBVIOUS
  <2>1. 1 \in 1..Len(queue) /\ 1 < i
    BY <1>1
  <2> QED
    BY <2>1 DEF QueueIInv, ArrivalOrder
<1>5. ASSUME NEW r \in Requests, status[r] = "Active"
      PROVE  r \in Turns!Oldest(Turns!Inside)
  <2>1. Len(queue) >= 1 /\ queue[1] = r
    BY <1>3, <1>5
  <2>2. r \in Turns!Inside
    BY <1>5, InsideAreQueued
  <2>3. ASSUME NEW s \in Turns!Inside
        PROVE  ticket[r] <= ticket[s]
    <3>1. PICK i \in 1..Len(queue) : queue[i] = s
      BY InsideAreQueued
    <3>2. s \in Requests
      BY InsideAreQueued
    <3> QED
      BY <1>2, <1>4, <2>1, <3>1, <3>2
  <2> QED
    BY <2>2, <2>3 DEF Turns!Oldest
<1>6. ASSUME NEW r \in Turns!Oldest(Turns!Inside)
      PROVE  r \in Requests /\ status[r] = "Active"
  <2>1. r \in Turns!Inside /\ \A s \in Turns!Inside : ticket[r] <= ticket[s]
    BY DEF Turns!Oldest
  <2>2. r \in Requests
    BY <2>1, InsideAreQueued
  <2>3. PICK i \in 1..Len(queue) : queue[i] = r
    BY <2>1, InsideAreQueued
  <2>4. 1 \in 1..Len(queue)
    BY <1>1
  <2>5. ticket[r] <= ticket[queue[1]] /\ queue[1] \in Requests
    BY <1>1, <2>1, <2>4, InsideAreQueued
  <2>6. i = 1
    BY <1>2, <1>4, <2>2, <2>3, <2>5
  <2> QED
    BY <1>1, <1>3, <2>2, <2>3, <2>6
<1> QED
  BY <1>5, <1>6

\* The same fact about the state after a step.
LEMMA ActiveIsOldestAfter ==
  QueueIInv' => (Turns!Oldest(Turns!Inside) = {r \in Requests : status[r] = "Active"})'
<1>1. QueueIInv => Turns!Oldest(Turns!Inside) = {r \in Requests : status[r] = "Active"}
  BY ActiveIsOldest
<1> QED
  BY <1>1, PTL

(***************************************************************************)
(* What leaving the queue does to the statuses: the request is completed,  *)
(* and no other request is completed or forgotten with it.                 *)
(***************************************************************************)
LEMMA CancelStatuses ==
  ASSUME QueueIInv, NEW r \in Requests, Cancel(r)
  PROVE  /\ status'[r] = "Completed"
         /\ \A s \in Requests : s # r =>
              /\ status'[s] = "Completed" <=> status[s] = "Completed"
              /\ status'[s] = "None" <=> status[s] = "None"
<1>1. PICK k \in 1..Len(queue) :
        /\ queue[k] = r
        /\ queue' = RemoveAt(queue, k)
        /\ LET ended == [status EXCEPT ![r] = "Completed"]
           IN  status' = IF k = 1 THEN Promote(queue', ended) ELSE ended
  BY DEF Cancel
<1>2. queue \in Seq(Requests) /\ Len(queue) \in Nat
  BY DEF QueueIInv, QueueTypeOK
<1>3. k = 1 /\ queue' # <<>> =>
        /\ Head(queue') = queue[2]
        /\ 2 \in 2..Len(queue)
        /\ queue[2] \in Requests /\ status[queue[2]] = "Waiting"
  <2> SUFFICES ASSUME k = 1, queue' # <<>>
               PROVE  /\ Head(queue') = queue[2]
                      /\ 2 \in 2..Len(queue)
                      /\ queue[2] \in Requests /\ status[queue[2]] = "Waiting"
    OBVIOUS
  <2>1. /\ queue' \in Seq(Requests)
        /\ Len(queue') = Len(queue) - 1
        /\ \A j \in 1..(Len(queue) - 1) : queue'[j] = IF j < 1 THEN queue[j] ELSE queue[j + 1]
    BY <1>1, <1>2, RemoveAtProperties
  <2>2. 1 \in 1..(Len(queue) - 1) /\ Head(queue') = queue'[1] /\ 2 \in 2..Len(queue)
    BY <1>2, <2>1
  <2>3. queue'[1] = queue[2] /\ queue[2] \in Requests
    BY <1>2, <2>1, <2>2
  <2> QED
    BY <2>2, <2>3 DEF QueueIInv, StatusMatchesQueue
<1>4. status[r] # "Waiting" \/ k # 1
  BY <1>1, <1>2 DEF QueueIInv, StatusMatchesQueue
<1>5. k = 1 /\ queue' # <<>> => queue[2] # r
  BY <1>3, <1>4
<1> QED
  BY <1>1, <1>3, <1>5 DEF Promote, QueueIInv, QueueTypeOK

(***************************************************************************)
(* At most one request is active.                                          *)
(***************************************************************************)
LEMMA OneActive ==
  ASSUME QueueIInv, NEW r \in Requests, NEW s \in Requests,
         status[r] = "Active", status[s] = "Active"
  PROVE  r = s
BY DEF QueueIInv, StatusMatchesQueue

LEMMA QueueInitRefines == QueueInit => Turns!Init
BY DEF QueueInit, Turns!Init

LEMMA QueueStepRefines ==
  QueueIInv /\ [QueueNext]_queueVars => [Turns!Next]_(Turns!vars)
<1> SUFFICES ASSUME QueueIInv, [QueueNext]_queueVars
             PROVE  [Turns!Next]_(Turns!vars)
  OBVIOUS
<1>1. QueueIInv'
  BY QueueNextInv
<1>2. ASSUME NEW r \in Requests, Enqueue(r)
      PROVE  Turns!Arrive(r)
  <2>1. ticket[r] = 0
    BY <1>2 DEF Enqueue, QueueIInv, Ticketed
  <2>2. status' = [status EXCEPT ![r] = IF queue = <<>> THEN "Active" ELSE "Waiting"]
    BY <1>2 DEF Enqueue
  <2>3. {s \in Requests : status'[s] = "Completed"} = {s \in Requests : status[s] = "Completed"}
    BY <1>2, <2>2 DEF Enqueue, QueueIInv, QueueTypeOK
  <2>4. Turns!Inside = {} <=> queue = <<>>
    <3>1. queue \in Seq(Requests)
      BY DEF QueueIInv, QueueTypeOK
    <3>2. queue # <<>> => 1 \in 1..Len(queue)
      BY <3>1
    <3>3. queue = <<>> => 1..Len(queue) = {}
      OBVIOUS
    <3> QED
      BY <3>2, <3>3, InsideAreQueued
  <2>5. queue = <<>> => {s \in Requests : status[s] = "Active"} = {}
    BY DEF QueueIInv, StatusMatchesQueue
  <2>6. {s \in Requests : status'[s] = "Active"}
          = IF queue = <<>> THEN {r} ELSE {s \in Requests : status[s] = "Active"}
    BY <1>2, <2>2, <2>5 DEF Enqueue, QueueIInv, QueueTypeOK
  <2> QED
    BY <1>2, <2>1, <2>3, <2>4, <2>6 DEF Turns!Arrive, Enqueue
<1>3. ASSUME NEW r \in Requests, Cancel(r)
      PROVE  Turns!Leave(r)
  <2>1. r \in Turns!Inside
    BY <1>3, InsideAreQueued DEF Cancel
  <2>2. ticket' = ticket /\ issued' = issued
    BY <1>3 DEF Cancel
  <2>3. /\ status'[r] = "Completed"
        /\ \A s \in Requests : s # r =>
             /\ status'[s] = "Completed" <=> status[s] = "Completed"
             /\ status'[s] = "None" <=> status[s] = "None"
    BY <1>3, CancelStatuses
  <2>4. {s \in Requests : status'[s] = "Completed"}
          = {s \in Requests : status[s] = "Completed"} \union {r}
    BY <2>3
  <2>5. Turns!Inside' = Turns!Inside \ {r}
    BY <2>2, <2>3 DEF Turns!Inside
  <2>6. {s \in Requests : status'[s] = "Active"} = Turns!Oldest(Turns!Inside)'
    BY <1>1, ActiveIsOldestAfter
  <2>7. Turns!Oldest(Turns!Inside)' = Turns!Oldest(Turns!Inside \ {r})
    BY <2>2, <2>5 DEF Turns!Oldest
  <2> QED
    BY <2>1, <2>2, <2>4, <2>6, <2>7 DEF Turns!Leave
<1>4. ASSUME NEW r \in Requests, Complete(r)
      PROVE  Turns!Leave(r)
  BY <1>3, <1>4, CompleteIsCancel DEF QueueIInv
<1>5. ASSUME UNCHANGED <<status, ticket, issued>>
      PROVE  UNCHANGED Turns!vars
  BY <1>5 DEF Turns!vars
<1>6. ASSUME NEW r \in Requests, SleepForTurn(r) \/ SleepForEnd(r) \/ SpuriousWakeup(r)
      PROVE  UNCHANGED Turns!vars
  BY <1>5, <1>6 DEF SleepForTurn, SleepForEnd, SpuriousWakeup
<1> QED
  BY <1>2, <1>3, <1>4, <1>5, <1>6 DEF QueueNext, queueVars, Turns!Next

(***************************************************************************)
(* The queue implements ModalTurns: whatever order dialogs are requested,  *)
(* completed and abandoned in, the turn is with the oldest unfinished      *)
(* request, and only with it.                                              *)
(***************************************************************************)
THEOREM QueueImplementsTurns == QueueSpec => TurnsSpec
<1> QED
  BY QueueInitRefines, QueueInvariant, QueueStepRefines, PTL
     DEF QueueSpec, TurnsSpec, Turns!Spec

-----------------------------------------------------------------------------
(* Types, and the queue inside ModalShow.                                  *)

LEMMA ShowTypeStep == ShowTypeOK /\ [Next]_vars => ShowTypeOK'
<1> SUFFICES ASSUME ShowTypeOK, [Next]_vars
             PROVE  ShowTypeOK'
  OBVIOUS
<1> USE CallsAreRequests DEF ShowTypeOK, Goto, Shown, NotShown, Submit
<1>1. stack # <<>> => Front(stack) \in Seq(MainCalls)
  BY DEF Front
<1>2. ASSUME NEW r \in Requests, MainCall(r)
      PROVE  ShowTypeOK'
  BY <1>2 DEF MainCall
<1>3. ASSUME NEW r \in Requests, MainSubmit(r) \/ MainThrow(r) \/ MainReturn(r)
      PROVE  ShowTypeOK'
  BY <1>1, <1>3 DEF MainSubmit, MainThrow, MainReturn, Top
<1>4. ASSUME NEW r \in Requests, BackCall(r) \/ BackSleep(r) \/ BackWakeup(r)
                                 \/ BackPost(r) \/ BackReturn(r)
      PROVE  ShowTypeOK'
  <2>1. CASE BackCall(r) \/ BackReturn(r)
    BY <2>1 DEF BackCall, BackReturn
  <2>2. CASE BackSleep(r) \/ BackWakeup(r)
    BY <2>2 DEF BackSleep, BackWakeup, showVars
  <2>3. CASE BackPost(r)
    BY <2>3 DEF BackPost
  <2> QED
    BY <1>4, <2>1, <2>2, <2>3
<1>5. ASSUME NEW r \in Requests, Tap(r) \/ Dismissed(r)
      PROVE  ShowTypeOK'
  BY <1>5 DEF Tap, Dismissed
<1>6. ASSUME RunPosted
      PROVE  ShowTypeOK'
  BY <1>6 DEF RunPosted
<1>7. ASSUME UNCHANGED vars
      PROVE  ShowTypeOK'
  BY <1>7 DEF vars, showVars
<1> QED
  BY <1>2, <1>3, <1>4, <1>5, <1>6, <1>7 DEF Next

(***************************************************************************)
(* Dialogs touch the queue through its operations only.                    *)
(***************************************************************************)
LEMMA ShowStepIsQueueStep == ShowTypeOK /\ [Next]_vars => [QueueNext]_queueVars
<1> SUFFICES ASSUME ShowTypeOK, [Next]_vars
             PROVE  [QueueNext]_queueVars
  OBVIOUS
<1>1. ASSUME NEW r \in Requests, Submit(r)
      PROVE  [QueueNext]_queueVars
  BY <1>1 DEF Submit, Shown, NotShown, QueueNext
<1>2. ASSUME NEW r \in Requests, MainCall(r) \/ MainThrow(r) \/ MainReturn(r) \/ BackCall(r)
      PROVE  [QueueNext]_queueVars
  BY <1>2 DEF MainCall, MainThrow, MainReturn, BackCall, QueueNext
<1>3. ASSUME NEW r \in Requests, MainSubmit(r)
      PROVE  [QueueNext]_queueVars
  BY <1>1, <1>3 DEF MainSubmit
<1>4. ASSUME NEW r \in Requests, BackSleep(r) \/ BackWakeup(r) \/ BackPost(r) \/ BackReturn(r)
      PROVE  [QueueNext]_queueVars
  BY <1>4 DEF BackSleep, BackWakeup, BackPost, BackReturn, QueueNext
<1>5. ASSUME NEW r \in Requests, Tap(r) \/ Dismissed(r)
      PROVE  [QueueNext]_queueVars
  BY <1>5 DEF Tap, Dismissed, QueueNext
<1>6. ASSUME RunPosted
      PROVE  [QueueNext]_queueVars
  <2>1. Head(posted) \in Requests
    BY <1>6, CallsAreRequests DEF RunPosted, ShowTypeOK
  <2> QED
    BY <1>1, <1>6, <2>1 DEF RunPosted
<1>7. ASSUME UNCHANGED vars
      PROVE  [QueueNext]_queueVars
  BY <1>7 DEF vars
<1> QED
  BY <1>2, <1>3, <1>4, <1>5, <1>6, <1>7 DEF Next

(***************************************************************************)
(* The state ModalShow adds to the queue keeps its types.                  *)
(***************************************************************************)
THEOREM ShowTypeCorrect == Spec => []ShowTypeOK
<1>1. Init => ShowTypeOK
  BY CallsAreRequests DEF Init, ShowTypeOK
<1> QED
  BY <1>1, ShowTypeStep, PTL DEF Spec

(***************************************************************************)
(* What is proved of the queue holds of the queue ModalShow uses.          *)
(***************************************************************************)
THEOREM ShowImplementsQueue == Spec => QueueSpec
<1>1. Init => QueueInit
  BY DEF Init
<1> QED
  BY <1>1, ShowTypeCorrect, ShowStepIsQueueStep, PTL DEF Spec, QueueSpec

-----------------------------------------------------------------------------
(* One dialog at a time.                                                   *)

\* A dialog on screen, and a submit block that is still to run, belong to the
\* active request of a call that waits for its end.
ShowIInv ==
  /\ \A r \in OnScreen :
       status[r] = "Active" /\ pc[r] = "submitted" /\ r \notin Range(posted)
  /\ \A r \in Range(posted) : status[r] = "Active" /\ pc[r] = "submitted"
  /\ Len(posted) <= 1
  /\ \A r \in Requests : pc[r] = "returned" => status[r] = "Completed"

\* While its request is active, nothing else is on screen or posted.
LEMMA OnlyTheActive ==
  ASSUME QueueIInv, ShowTypeOK, ShowIInv, NEW r \in Requests, status[r] = "Active"
  PROVE  OnScreen \subseteq {r} /\ Range(posted) \subseteq {r}
<1>1. Range(posted) \subseteq Requests
  BY CallsAreRequests DEF ShowTypeOK, Range
<1> QED
  BY <1>1, OneActive DEF ShowIInv, OnScreen

LEMMA EnqueueKeepsOthers ==
  ASSUME QueueIInv, NEW r \in Requests, Enqueue(r), NEW s \in Requests
  PROVE  /\ status[s] = "Active" => status'[s] = "Active"
         /\ status[s] = "Completed" => status'[s] = "Completed"
BY DEF Enqueue, QueueIInv, QueueTypeOK

\* Finishing a request that has nothing on screen any more and nothing posted.
LEMMA FinishKeepsShowInv ==
  ASSUME QueueIInv, ShowTypeOK, ShowIInv,
         NEW r \in Requests, status[r] = "Active", Cancel(r),
         Range(posted') = {}, Len(posted') <= 1,
         \A s \in Requests : pc'[s] = "returned" => pc[s] = "returned" \/ s = r,
         OnScreen' = {}
  PROVE  ShowIInv'
<1>1. ASSUME NEW s \in Requests, pc'[s] = "returned"
      PROVE  status'[s] = "Completed"
  BY <1>1, CancelStatuses DEF ShowIInv
<1> QED
  BY <1>1 DEF ShowIInv

LEMMA ShowStepInv ==
  QueueIInv /\ ShowTypeOK /\ ShowTypeOK' /\ ShowIInv /\ [Next]_vars => ShowIInv'
<1> SUFFICES ASSUME QueueIInv, ShowTypeOK, ShowTypeOK', ShowIInv, [Next]_vars
             PROVE  ShowIInv'
  OBVIOUS
<1> USE CallsAreRequests
<1>1. ASSUME NEW r \in Requests, MainCall(r) \/ BackCall(r)
      PROVE  ShowIInv'
  <2>1. /\ Enqueue(r) /\ UNCHANGED <<posted, alert>>
        /\ pc[r] = "idle" /\ \E p \in {"turn", "submitting"} : pc' = [pc EXCEPT ![r] = p]
    BY <1>1 DEF MainCall, BackCall, Goto
  <2>2. /\ pc'[r] # "returned"
        /\ \A s \in Requests : s # r => pc'[s] = pc[s]
    BY <2>1 DEF ShowTypeOK
  <2>3. pc[r] = "idle" /\ OnScreen' = OnScreen /\ Range(posted) \subseteq Requests
    BY <2>1 DEF OnScreen, ShowTypeOK, Range
  <2>4. \A s \in Requests : /\ status[s] = "Active" => status'[s] = "Active"
                            /\ status[s] = "Completed" => status'[s] = "Completed"
    BY <2>1, EnqueueKeepsOthers
  <2>5. \A s \in OnScreen \union Range(posted) :
          s \in Requests /\ s # r /\ status[s] = "Active" /\ pc[s] = "submitted"
    BY <2>3 DEF ShowIInv, OnScreen
  <2>6. \A s \in OnScreen \union Range(posted) : status'[s] = "Active" /\ pc'[s] = "submitted"
    <3> TAKE s \in OnScreen \union Range(posted)
    <3>1. s \in Requests /\ s # r /\ status[s] = "Active" /\ pc[s] = "submitted"
      BY <2>5
    <3>2. status'[s] = "Active"
      BY <2>4, <3>1
    <3>3. pc'[s] = "submitted"
      BY <2>2, <3>1
    <3> QED
      BY <3>2, <3>3
  <2>7. \A s \in Requests : pc'[s] = "returned" => status'[s] = "Completed"
    BY <2>2, <2>4 DEF ShowIInv
  <2> QED
    BY <2>1, <2>3, <2>6, <2>7 DEF ShowIInv
<1>2. ASSUME NEW r \in Requests, MainSubmit(r)
      PROVE  ShowIInv'
  <2>1. /\ status[r] = "Active" /\ posted' = posted /\ pc[r] # "submitted"
        /\ status'[r] = "Completed" => pc' = [pc EXCEPT ![r] = "returned"]
        /\ status'[r] # "Completed" => pc' = [pc EXCEPT ![r] = "submitted"]
    BY <1>2 DEF MainSubmit, Goto
  <2>2. OnScreen = {} /\ Range(posted) = {}
    BY <2>1, OnlyTheActive DEF ShowIInv
  <2>3. CASE Shown(r)
    <3>1. OnScreen' = {r} /\ status' = status
      BY <2>2, <2>3 DEF Shown, OnScreen, ShowTypeOK, queueVars
    <3>2. pc' = [pc EXCEPT ![r] = "submitted"] /\ status'[r] = "Active"
      BY <2>1, <3>1
    <3>3. pc'[r] = "submitted" /\ \A s \in Requests : pc'[s] = "returned" => pc[s] = "returned"
      BY <3>2 DEF ShowTypeOK
    <3> QED
      BY <2>1, <2>2, <3>1, <3>2, <3>3 DEF ShowIInv
  <2>4. CASE NotShown(r)
    <3>1. OnScreen' = {}
      BY <2>2, <2>4 DEF NotShown, OnScreen
    <3>2. Cancel(r)
      BY <2>4, CompleteIsCancel DEF NotShown, QueueIInv
    <3>3. \A s \in Requests : pc'[s] = "returned" => pc[s] = "returned" \/ s = r
      <4>1. \A s \in Requests : s # r => pc'[s] = pc[s]
        BY <2>1 DEF ShowTypeOK
      <4> QED
        BY <4>1
    <3>4. Range(posted') = {} /\ Len(posted') <= 1
      BY <2>1, <2>2 DEF ShowIInv
    <3> QED
      BY <2>1, <3>1, <3>2, <3>3, <3>4, FinishKeepsShowInv
  <2> QED
    BY <1>2, <2>3, <2>4 DEF MainSubmit, Submit
<1>3. ASSUME NEW r \in Requests, MainThrow(r)
      PROVE  ShowIInv'
  <2>1. /\ status[r] = "Active" /\ Cancel(r)
        /\ pc[r] # "submitted" /\ pc' = [pc EXCEPT ![r] = "returned"]
        /\ posted' = posted /\ alert' = alert
    BY <1>3 DEF MainThrow, Goto
  <2>2. OnScreen = {} /\ Range(posted) = {}
    BY <2>1, OnlyTheActive DEF ShowIInv
  <2>3. OnScreen' = {}
    BY <2>1, <2>2 DEF OnScreen
  <2>4. \A s \in Requests : pc'[s] = "returned" => pc[s] = "returned" \/ s = r
    BY <2>1 DEF ShowTypeOK
  <2>5. Range(posted') = {} /\ Len(posted') <= 1
    BY <2>1, <2>2 DEF ShowIInv
  <2> QED
    BY <2>1, <2>3, <2>4, <2>5, FinishKeepsShowInv
<1>4. ASSUME NEW r \in Requests, MainReturn(r) \/ BackReturn(r)
      PROVE  ShowIInv'
  <2>1. /\ status[r] = "Completed" /\ status' = status
        /\ pc' = [pc EXCEPT ![r] = "returned"]
        /\ posted' = posted /\ alert' = alert
    BY <1>4 DEF MainReturn, BackReturn, Goto, queueVars
  <2>2. OnScreen' = OnScreen /\ r \notin OnScreen /\ r \notin Range(posted)
    BY <2>1 DEF OnScreen, ShowIInv
  <2>3. \A s \in Requests : pc'[s] = IF s = r THEN "returned" ELSE pc[s]
    BY <2>1 DEF ShowTypeOK
  <2>4. OnScreen \subseteq Requests /\ Range(posted) \subseteq Requests
    BY DEF OnScreen, Range, ShowTypeOK
  <2> QED
    BY <2>1, <2>2, <2>3, <2>4 DEF ShowIInv
<1>5. ASSUME NEW r \in Requests, BackSleep(r) \/ BackWakeup(r)
      PROVE  ShowIInv'
  <2>1. UNCHANGED <<status, pc, posted, alert>>
    BY <1>5 DEF BackSleep, BackWakeup, SleepForTurn, SleepForEnd, SpuriousWakeup, showVars
  <2> QED
    BY <2>1 DEF ShowIInv, OnScreen
<1>6. ASSUME NEW r \in Requests, BackPost(r)
      PROVE  ShowIInv'
  <2>1. /\ status[r] = "Active" /\ status' = status /\ r \in BackCalls
        /\ pc[r] = "turn" /\ pc' = [pc EXCEPT ![r] = "submitted"]
        /\ posted' = Append(posted, r) /\ alert' = alert
    BY <1>6 DEF BackPost, Goto, queueVars
  <2>2. OnScreen = {} /\ Range(posted) = {}
    BY <2>1, OnlyTheActive DEF ShowIInv
  <2>3. posted = <<>>
    <3>1. posted \in Seq(BackCalls)
      BY DEF ShowTypeOK
    <3>2. posted # <<>> => posted[1] \in Range(posted)
      BY <3>1 DEF Range
    <3> QED
      BY <2>2, <3>2
  <2>4. posted' = <<r>> /\ Range(posted') = {r} /\ Len(posted') = 1
    BY <2>1, <2>3 DEF Range
  <2>5. OnScreen' = {}
    BY <2>1, <2>2 DEF OnScreen
  <2> QED
    BY <2>1, <2>4, <2>5 DEF ShowIInv, ShowTypeOK
<1>7. ASSUME NEW r \in Requests, Tap(r) \/ Dismissed(r)
      PROVE  ShowIInv'
  <2>1. r \in OnScreen /\ pc' = pc /\ posted' = posted
    BY <1>7 DEF Tap, Dismissed, OnScreen
  <2>2. status[r] = "Active" /\ Range(posted) = {}
    BY <2>1, OnlyTheActive DEF ShowIInv, OnScreen
  <2>3. CASE alert' = [alert EXCEPT ![r] = "dismissing"] /\ UNCHANGED queueVars
    <3>1. OnScreen' = OnScreen /\ status' = status
      BY <2>1, <2>3 DEF OnScreen, ShowTypeOK, queueVars
    <3> QED
      BY <2>1, <3>1 DEF ShowIInv
  <2>4. CASE alert' = [alert EXCEPT ![r] = "gone"] /\ Complete(r)
    <3>1. OnScreen' = {}
      BY <2>1, <2>2, <2>4, OnlyTheActive DEF OnScreen, ShowTypeOK
    <3>2. Cancel(r)
      BY <2>4, CompleteIsCancel DEF QueueIInv
    <3>3. Range(posted') = {} /\ Len(posted') <= 1
      BY <2>1, <2>2 DEF ShowIInv
    <3>4. \A s \in Requests : pc'[s] = "returned" => pc[s] = "returned" \/ s = r
      BY <2>1
    <3> QED
      BY <2>1, <2>2, <3>1, <3>2, <3>3, <3>4, FinishKeepsShowInv
  <2> QED
    BY <1>7, <2>3, <2>4 DEF Tap, Dismissed
<1>8. ASSUME RunPosted
      PROVE  ShowIInv'
  <2> DEFINE r == Head(posted)
  <2>1. /\ posted \in Seq(BackCalls) /\ posted # <<>> /\ posted' = Tail(posted)
        /\ pc' = pc
    BY <1>8 DEF RunPosted, ShowTypeOK
  <2>2. r \in Requests /\ r \in Range(posted)
    BY <2>1 DEF Range
  <2>3. status[r] = "Active" /\ pc[r] = "submitted" /\ r \notin OnScreen
    BY <2>2 DEF ShowIInv
  <2>4. OnScreen = {} /\ posted' = <<>> /\ Range(posted') = {} /\ Len(posted') = 0
    <3>1. OnScreen = {}
      BY <2>2, <2>3, OnlyTheActive
    <3>2. Len(posted) <= 1
      BY DEF ShowIInv
    <3>3. posted' = <<>>
      BY <2>1, <3>2
    <3> HIDE DEF r
    <3> QED
      BY <3>1, <3>3 DEF Range
  <2> HIDE DEF r
  <2>5. CASE Shown(r)
    <3>1. OnScreen' = {r} /\ status' = status
      BY <2>2, <2>4, <2>5 DEF Shown, OnScreen, ShowTypeOK, queueVars
    <3> QED
      BY <2>1, <2>3, <2>4, <3>1 DEF ShowIInv
  <2>6. CASE NotShown(r)
    <3>1. OnScreen' = {}
      BY <2>4, <2>6 DEF NotShown, OnScreen
    <3>2. Cancel(r)
      BY <2>2, <2>6, CompleteIsCancel DEF NotShown, QueueIInv
    <3>3. \A s \in Requests : pc'[s] = "returned" => pc[s] = "returned" \/ s = r
      BY <2>1
    <3>4. Len(posted') <= 1
      BY <2>4
    <3> QED
      BY <2>2, <2>3, <2>4, <3>1, <3>2, <3>3, <3>4, FinishKeepsShowInv
  <2> QED
    BY <1>8, <2>5, <2>6 DEF RunPosted, Submit, r
<1>9. ASSUME UNCHANGED vars
      PROVE  ShowIInv'
  BY <1>9 DEF ShowIInv, OnScreen, vars, queueVars, showVars
<1> QED
  BY <1>1, <1>2, <1>3, <1>4, <1>5, <1>6, <1>7, <1>8, <1>9 DEF Next

LEMMA ShowInvariant == Spec => [](QueueIInv /\ ShowIInv)
<1>1. Init => ShowIInv
  BY DEF Init, ShowIInv, OnScreen, Range
<1>2. Spec => []QueueIInv
  BY ShowImplementsQueue, QueueInvariant, PTL
<1> QED
  BY <1>1, <1>2, ShowTypeCorrect, ShowStepInv, PTL DEF Spec

(***************************************************************************)
(* However many calls there are and on whichever threads, at most one      *)
(* dialog is on screen, and it is the active request's.                    *)
(***************************************************************************)
THEOREM DialogsNeverOverlap == Spec => []OneDialogAtATime
<1>1. QueueIInv /\ ShowIInv => OneDialogAtATime
  BY OneActive DEF ShowIInv, OneDialogAtATime, OnScreen
<1> QED
  BY <1>1, ShowInvariant, PTL

(***************************************************************************)
(* No call of present: returns before its own dialog is down.              *)
(***************************************************************************)
THEOREM CallsReturnTheirAnswer == Spec => []AnswerBeforeReturn
<1>1. ShowIInv => AnswerBeforeReturn
  BY DEF ShowIInv, AnswerBeforeReturn
<1> QED
  BY <1>1, ShowInvariant, PTL
=============================================================================
