--------------------------- MODULE DumpController ---------------------------
(***************************************************************************)
(* DumpController.mm and MemoryDump.cpp: a range of the target's memory    *)
(* streamed to a file by a worker thread.                                  *)
(*                                                                         *)
(* start and cancel run on the main thread, under the controller's lock.   *)
(* The worker reads through a lease that keeps its own right to the task   *)
(* port, and posts a completion block to the main queue; it changes        *)
(* `state' only there, so a dump counts as running until that block has    *)
(* run. For each chunk it tests the flag, reads, writes and counts, and a  *)
(* cancel may come between any two. All dumps go to one file, the hardest  *)
(* case. The controller may be deallocated under its worker, which then    *)
(* sees itself cancelled.                                                  *)
(***************************************************************************)
EXTENDS Naturals

CONSTANT Chunks  \* bound: the number of reads that a whole range takes

\* startFrom refuses an empty range.
ASSUME RangesAreNotEmpty == Chunks \in Nat \ {0}

NoLease == <<>>

VARIABLES
  state,      \* status[@"state"]
  cancelled,
  worker,     \* "none", "queued", "stream", "read", "write", "count", "ending"
              \* or "posted"
  written,    \* chunks written by this dump
  outcome,    \* how the worker's streaming ended
  lease,      \* the task whose port right is leased, or NoLease
  file,       \* the output: "none", "partial" or "whole"
  promise,    \* of the dump's call: "none", "pending", "true" or "false"
  unremoved   \* history: this dump's file could not be removed

dumpVars == <<state, cancelled, worker, written, outcome, lease, file, promise, unremoved>>

DumpInit ==
  /\ state = "idle"
  /\ cancelled = FALSE
  /\ worker = "none"
  /\ written = 0
  /\ outcome = "none"
  /\ lease = NoLease
  /\ file = "none"
  /\ promise = "none"
  /\ unremoved = FALSE

-----------------------------------------------------------------------------
(* Main thread.  As elsewhere, a name ending in Bug is a plausible defect  *)
(* of the definition after it.                                             *)

Started(task) ==
  /\ lease' = task
  /\ cancelled' = FALSE
  /\ state' = "running"
  /\ worker' = "queued"
  /\ written' = 0
  /\ outcome' = "none"
  /\ promise' = "pending"
  /\ unremoved' = FALSE
  /\ UNCHANGED file

\* startFrom: with a lease on the task and a completion for the call.
StartFromBug(task) == Started(task)
StartFrom(task) ==
  /\ state # "running"
  /\ Started(task)

CancelDump ==
  /\ state = "running"
  /\ cancelled' = TRUE
  /\ UNCHANGED <<state, worker, written, outcome, lease, file, promise, unremoved>>

\* The completion block: it updates a controller that is still there, and
\* settles the promise with the worker's success.
CompletionBlock(gone) ==
  /\ worker = "posted"
  /\ worker' = "none"
  /\ state' = IF gone THEN state ELSE outcome
  /\ promise' = IF outcome = "completed" THEN "true" ELSE "false"
  /\ UNCHANGED <<cancelled, written, outcome, lease, file, unremoved>>

-----------------------------------------------------------------------------
(* Worker thread.                                                          *)

\* createFileAtPath: truncates what was there, or fails.
OpenFileBug ==
  /\ worker = "queued"
  /\ \/ file' = "partial" /\ worker' = "stream"
     \/ UNCHANGED file /\ worker' = "none"
  /\ UNCHANGED <<state, cancelled, written, outcome, lease, promise, unremoved>>
OpenFile ==
  /\ worker = "queued"
  /\ \/ /\ file' = "partial"
        /\ worker' = "stream"
        /\ UNCHANGED outcome
     \/ /\ worker' = "ending"
        /\ outcome' = "failed"
        /\ UNCHANGED file
  /\ UNCHANGED <<state, cancelled, written, lease, promise, unremoved>>

Ends(how) ==
  /\ worker' = "ending"
  /\ outcome' = how
  /\ UNCHANGED <<written, file>>

Goes(to) ==
  /\ worker' = to
  /\ UNCHANGED <<outcome, written>>

\* The head of JJStreamMemoryDump's loop.  Its test of the flag also stops a
\* worker whose controller is gone.
TestCancelledBug(gone) ==
  /\ worker = "stream"
  /\ IF written = Chunks THEN Ends("completed") ELSE Goes("read") /\ UNCHANGED file
  /\ UNCHANGED <<state, cancelled, lease, promise, unremoved>>
TestCancelled(gone) ==
  /\ worker = "stream"
  /\ IF written = Chunks THEN Ends("completed")
     ELSE IF cancelled \/ gone THEN Ends("cancelled")
     ELSE Goes("read") /\ UNCHANGED file
  /\ UNCHANGED <<state, cancelled, lease, promise, unremoved>>

\* A read may always fail, and one of a task that has exited does.
ReadChunk(taskAlive) ==
  /\ worker = "read"
  /\ \/ Ends("failed")
     \/ taskAlive /\ Goes("write") /\ UNCHANGED file
  /\ UNCHANGED <<state, cancelled, lease, promise, unremoved>>

\* writeData: appends the chunk, or raises.
WriteChunk ==
  /\ worker = "write"
  /\ \/ Ends("failed")
     \/ /\ Goes("count")
        /\ file' = IF written + 1 = Chunks THEN "whole" ELSE "partial"
  /\ UNCHANGED <<state, cancelled, lease, promise, unremoved>>

CountChunk ==
  /\ worker = "count"
  /\ worker' = "stream"
  /\ written' = written + 1
  /\ UNCHANGED <<state, cancelled, outcome, lease, file, promise, unremoved>>

\* Unless the file is whole it is removed, or stays where it cannot be: the
\* error is ignored.  Then the lease is given back, and the completion block
\* is posted.
FinishWorkBug ==
  /\ worker = "ending"
  /\ worker' = "posted"
  /\ lease' = NoLease
  /\ UNCHANGED <<state, cancelled, written, outcome, promise, file, unremoved>>
FinishWork ==
  /\ worker = "ending"
  /\ worker' = "posted"
  /\ \/ outcome = "completed" /\ UNCHANGED <<file, unremoved>>
     \/ outcome # "completed" /\ file' = "none" /\ UNCHANGED unremoved
     \/ outcome # "completed" /\ unremoved' = TRUE /\ UNCHANGED file
  /\ lease' = NoLease
  /\ UNCHANGED <<state, cancelled, written, outcome, promise>>

-----------------------------------------------------------------------------
(* Properties.                                                             *)

\* What getDumpStatus and the promise tell the page is what is on disk: a
\* dump that completed left the whole file, one that failed or was cancelled
\* left nothing unless the file system refused to remove it, and its promise
\* said which, once the dump was over and not before.
DumpTellsTheTruth ==
  /\ state = "completed" => file = "whole" /\ promise = "true"
  /\ state \in {"failed", "cancelled"} =>
       (file = "none" \/ unremoved) /\ promise = "false"
  /\ state = "running" /\ worker # "none" => promise = "pending"

\* The worker will test the flag once more.
WillTest ==
  \/ worker = "queued"
  \/ worker = "stream" /\ written < Chunks
  \/ worker \in {"read", "write", "count"} /\ written + 1 < Chunks

\* A cancel() that was accepted before the last test of the flag takes effect:
\* the dump ends, and never as completed.  One that comes after it, while the
\* last chunk is read, written and counted, was accepted in vain.
CancelTakesEffect ==
  cancelled /\ WillTest ~> worker = "none" /\ promise = "false"

\* Every dump ends, and its promise settles.
DumpEnds == promise = "pending" ~> promise # "pending"
=============================================================================
