----------------------------- MODULE ModalQueue -----------------------------
(***************************************************************************)
(* ModalRequestQueue.cpp: the FIFO lifecycle behind every native dialog.   *)
(*                                                                         *)
(* A Request is the handle enqueue() returns.  The shared Coordinator has  *)
(* a mutex, a condition variable and the deque of unfinished requests;     *)
(* every operation runs under the mutex, so each is one action here.  The  *)
(* two blocking waits release the mutex while they sleep: `blocked' says   *)
(* which predicate the thread that owns a request sleeps on, and           *)
(* notify_all wakes every sleeper.  A complete() that is refused changes   *)
(* nothing: it is a stuttering step.                                       *)
(*                                                                         *)
(* `ticket' and `issued' are history: they number the enqueue() calls, and *)
(* no action reads them.                                                   *)
(***************************************************************************)
EXTENDS Naturals, SequencesExt

CONSTANT Requests

VARIABLES
  queue,    \* Coordinator::requests
  status,   \* State::status of each request, "None" before enqueue()
  blocked,  \* "no", or the wait its owner sleeps in: "turn" or "end"
  ticket,   \* history: the position of its enqueue(), 0 before
  issued    \* history: the number of enqueue() calls

queueVars == <<queue, status, blocked, ticket, issued>>

QueueTypeOK ==
  /\ queue \in Seq(Requests)
  /\ status \in [Requests -> {"None", "Waiting", "Active", "Completed"}]
  /\ blocked \in [Requests -> {"no", "turn", "end"}]
  /\ ticket \in [Requests -> Nat]
  /\ issued \in Nat

QueueInit ==
  /\ queue = <<>>
  /\ status = [r \in Requests |-> "None"]
  /\ blocked = [r \in Requests |-> "no"]
  /\ ticket = [r \in Requests |-> 0]
  /\ issued = 0

-----------------------------------------------------------------------------
(* The operations.  A name ending in Bug is a plausible defect of the      *)
(* definition after it, kept to show which property would notice it.       *)

\* The statuses st with the front of the deque q made active.
PromoteBug(q, st) == st
Promote(q, st) == IF q = <<>> THEN st ELSE [st EXCEPT ![Head(q)] = "Active"]

NotifyAllBug == UNCHANGED blocked
NotifyAll == blocked' = [r \in Requests |-> "no"]

EnqueueBug(r) ==
  /\ status[r] = "None"
  /\ queue' = <<r>> \o queue
  /\ status' = [status EXCEPT ![r] = IF queue = <<>> THEN "Active" ELSE "Waiting"]
  /\ issued' = issued + 1
  /\ ticket' = [ticket EXCEPT ![r] = issued + 1]
  /\ UNCHANGED blocked
Enqueue(r) ==
  /\ status[r] = "None"
  /\ queue' = Append(queue, r)
  /\ status' = [status EXCEPT ![r] = IF queue = <<>> THEN "Active" ELSE "Waiting"]
  /\ issued' = issued + 1
  /\ ticket' = [ticket EXCEPT ![r] = issued + 1]
  /\ UNCHANGED blocked

\* waitUntilActive() finds the request waiting and goes to sleep.
SleepForTurn(r) ==
  /\ status[r] = "Waiting"
  /\ blocked[r] = "no"
  /\ blocked' = [blocked EXCEPT ![r] = "turn"]
  /\ UNCHANGED <<queue, status, ticket, issued>>

\* waitUntilCompleted() finds the request unfinished and goes to sleep.
SleepForEnd(r) ==
  /\ status[r] \in {"Waiting", "Active"}
  /\ blocked[r] = "no"
  /\ blocked' = [blocked EXCEPT ![r] = "end"]
  /\ UNCHANGED <<queue, status, ticket, issued>>

\* A condition variable may wake its waiter for no reason.
SpuriousWakeup(r) ==
  /\ blocked[r] # "no"
  /\ blocked' = [blocked EXCEPT ![r] = "no"]
  /\ UNCHANGED <<queue, status, ticket, issued>>

\* complete() that returns true.
Complete(r) ==
  /\ status[r] = "Active"
  /\ queue # <<>>
  /\ Head(queue) = r
  /\ queue' = Tail(queue)
  /\ status' = Promote(queue', [status EXCEPT ![r] = "Completed"])
  /\ NotifyAll
  /\ UNCHANGED <<ticket, issued>>

\* cancel() of an unfinished request: the handle is destroyed or overwritten.
CancelBug(r) ==
  /\ status[r] \in {"Waiting", "Active"}
  /\ \E i \in 1..Len(queue) :
       /\ queue[i] = r
       /\ queue' = RemoveAt(queue, i)
  /\ status' = [status EXCEPT ![r] = "Completed"]
  /\ NotifyAll
  /\ UNCHANGED <<ticket, issued>>
Cancel(r) ==
  /\ status[r] \in {"Waiting", "Active"}
  /\ \E i \in 1..Len(queue) :
       /\ queue[i] = r
       /\ queue' = RemoveAt(queue, i)
       /\ LET ended == [status EXCEPT ![r] = "Completed"]
          IN  status' = IF i = 1 THEN Promote(queue', ended) ELSE ended
  /\ NotifyAll
  /\ UNCHANGED <<ticket, issued>>

QueueNext ==
  \E r \in Requests :
    \/ Enqueue(r)
    \/ SleepForTurn(r)
    \/ SleepForEnd(r)
    \/ SpuriousWakeup(r)
    \/ Complete(r)
    \/ Cancel(r)

QueueSpec == QueueInit /\ [][QueueNext]_queueVars

-----------------------------------------------------------------------------
(* Properties.                                                             *)

\* The status of a request and its place in the deque tell the same story:
\* the front is active, the others wait, and nothing else is in it.  A
\* request that was active away from the front could never be completed,
\* because complete() compares it with the front.
StatusMatchesQueue ==
  \A r \in Requests :
    /\ status[r] = "Active" <=> queue # <<>> /\ Head(queue) = r
    /\ status[r] = "Waiting" <=> \E i \in 2..Len(queue) : queue[i] = r

\* No request is in the deque twice, and the deque is in enqueue() order
\* whatever was cancelled in between.
ArrivalOrder ==
  \A i, j \in 1..Len(queue) : i < j => ticket[queue[i]] < ticket[queue[j]]

\* No missed wakeup: a thread sleeps in waitUntilActive() or in
\* waitUntilCompleted() only while what it waits for has not happened.
NoMissedWakeup ==
  \A r \in Requests :
    /\ blocked[r] = "turn" => status[r] = "Waiting"
    /\ blocked[r] = "end" => status[r] \in {"Waiting", "Active"}

\* The queue implements turn taking by ticket.
Turns == INSTANCE ModalTurns
  WITH Clients <- Requests,
       gone <- {r \in Requests : status[r] = "Completed"},
       turn <- {r \in Requests : status[r] = "Active"}

TurnsSpec == Turns!Spec
=============================================================================
