---------------------------- MODULE TargetEngine ----------------------------
(***************************************************************************)
(* h5gg.mm: the engine's target session with the freezer and the dumps     *)
(* that depend on it.                                                      *)
(*                                                                         *)
(* The façade's methods and the freezer's timer run on the main thread,    *)
(* one at a time; the dump worker is a thread of its own, and the target   *)
(* processes start and exit when they like.  A method that finds no memory *)
(* for a session or a lease gives up as the code does: what then changes   *)
(* nothing is left out.                                                    *)
(***************************************************************************)
EXTENDS TargetSession, FreezerController, DumpController

VARIABLES
  gone,       \* the engine and its controllers have been deallocated
  lastStatus  \* history: what getTargetStatus last said, and what was true

vars == <<processVars, sessionVars, freezerVars, dumpVars, gone, lastStatus>>

TypeOK ==
  /\ up \subseteq Pids
  /\ life \in [Pids -> 0..MaxLife]
  /\ session \in [pid : Pids \union {OwnPid, NoPid}, task : Tasks \union {NoTask},
                  owned : BOOLEAN]
  /\ rights \in [Tasks -> Nat]
  /\ DOMAIN entries \subseteq Addresses
  /\ \A a \in DOMAIN entries :
       entries[a] \in [pid : Pids \union {OwnPid}, task : Tasks,
                       status : {"active", "write-failed", "target-unavailable"}]
  /\ timer \in BOOLEAN
  /\ strayed \in BOOLEAN
  /\ state \in {"idle", "running", "completed", "cancelled", "failed"}
  /\ cancelled \in BOOLEAN
  /\ worker \in {"none", "queued", "stream", "read", "write", "count", "ending", "posted"}
  /\ written \in 0..Chunks
  /\ outcome \in {"none", "completed", "cancelled", "failed"}
  /\ lease \in Tasks \union {NoLease}
  /\ file \in {"none", "partial", "whole"}
  /\ promise \in {"none", "pending", "true", "false"}
  /\ unremoved \in BOOLEAN
  /\ gone \in BOOLEAN
  /\ lastStatus \in [available : BOOLEAN, alive : BOOLEAN]

Init ==
  /\ SessionInit
  /\ FreezerInit
  /\ DumpInit
  /\ gone = FALSE
  /\ lastStatus = [available |-> FALSE, alive |-> FALSE]

-----------------------------------------------------------------------------
(* Methods of the façade.                                                  *)

\* setTargetProc of the current pid, found available: YES, and nothing else.
\* Any other pid is taken if the kernel gives its task port.
SetTargetProc(p) ==
  /\ ~(p = session.pid /\ TargetIsAvailable)
  /\ TakeTarget(p)
  /\ Clear
  /\ UNCHANGED <<processVars, dumpVars, gone, lastStatus>>

\* setTargetProc of the current pid, found dead: the session is invalidated,
\* and task_for_pid fails.
SetDeadTargetProc ==
  /\ Valid
  /\ ~TargetIsAvailable
  /\ InvalidateTargetSession
  /\ Clear
  /\ UNCHANGED <<processVars, dumpVars, gone, lastStatus>>

\* getTargetStatus: an empty session that cannot be allocated leaves the old.
GetTargetStatus ==
  /\ lastStatus' = [available |-> TargetIsAvailable,
                    alive |-> TargetIsAvailable /\ Alive(session.task)]
  /\ \/ /\ ~TargetIsAvailable /\ session.task # NoTask
        /\ InvalidateTargetSession
        /\ Clear
     \/ UNCHANGED <<sessionVars, freezerVars>>
  /\ UNCHANGED <<processVars, dumpVars, gone>>

FreezeValue(a) ==
  /\ FreezeAddress(a, TargetIsAvailable, session.pid, session.task)
  /\ UNCHANGED <<processVars, sessionVars, dumpVars, gone, lastStatus>>

UnfreezeValue(a) ==
  /\ UnfreezeAddress(a)
  /\ UNCHANGED <<processVars, sessionVars, dumpVars, gone, lastStatus>>

ClearFrozenValues ==
  /\ Clear
  /\ UNCHANGED <<processVars, sessionVars, dumpVars, gone, lastStatus>>

\* The lease of dumpMemory adds a reference to the port it will read, unless
\* it is the host's own; a dead task's name takes no more send references.
DumpMemory ==
  /\ session.task # NoTask
  /\ Alive(session.task)
  /\ StartFrom(session.task)
  /\ rights' = IF session.task = OwnTask THEN rights ELSE Grant(rights, session.task)
  /\ UNCHANGED <<processVars, session, freezerVars, gone, lastStatus>>

CancelDumpCall ==
  /\ CancelDump
  /\ UNCHANGED <<processVars, sessionVars, freezerVars, gone, lastStatus>>

\* dealloc: the running dump is cancelled, the freezer cleared and the session
\* deleted.
Dealloc ==
  /\ gone' = TRUE
  /\ cancelled' = (cancelled \/ state = "running")
  /\ Clear
  /\ DeleteSession
  /\ UNCHANGED <<processVars, state, worker, written, outcome, lease, file, promise, unremoved,
                 lastStatus>>

-----------------------------------------------------------------------------
(* The timer, the worker and the main queue.                               *)

Tick ==
  /\ PerformTick(TargetIsAvailable, session.pid, session.task, Alive(session.task))
  /\ UNCHANGED <<processVars, sessionVars, dumpVars, gone, lastStatus>>

WorkerStep ==
  /\ \/ /\ \/ OpenFile
           \/ TestCancelled(gone)
           \/ ReadChunk(Alive(lease))
           \/ WriteChunk
           \/ CountChunk
        /\ UNCHANGED rights
     \/ /\ FinishWork
        /\ rights' = IF lease = OwnTask THEN rights ELSE [rights EXCEPT ![lease] = @ - 1]
  /\ UNCHANGED <<processVars, session, freezerVars, gone, lastStatus>>

DumpCompletion ==
  /\ CompletionBlock(gone)
  /\ UNCHANGED <<processVars, sessionVars, freezerVars, gone, lastStatus>>

Processes ==
  /\ \E p \in Pids : ProcessStarts(p) \/ ProcessExits(p)
  /\ UNCHANGED <<sessionVars, freezerVars, dumpVars, gone, lastStatus>>

Methods ==
  \/ \E p \in Pids \union {OwnPid} : SetTargetProc(p)
  \/ SetDeadTargetProc
  \/ GetTargetStatus
  \/ \E a \in Addresses : FreezeValue(a) \/ UnfreezeValue(a)
  \/ ClearFrozenValues
  \/ DumpMemory
  \/ CancelDumpCall
  \/ Tick
  \/ Dealloc

Next ==
  \/ ~gone /\ Methods
  \/ WorkerStep
  \/ DumpCompletion
  \/ Processes

Spec == Init /\ [][Next]_vars

\* The worker thread runs, and the main queue is drained.
FairSpec == Spec /\ WF_vars(WorkerStep) /\ WF_vars(DumpCompletion)

-----------------------------------------------------------------------------
(* Properties.                                                             *)

\* Every reference on a task port is held by the session, by the dump's lease
\* or, on its own task, by the host: none leaks, none is dropped twice, and a
\* worker never reads through a port that setTargetProc has released.
RightsAreAccounted ==
  \A t \in Tasks :
    rights[t] = (IF session.owned /\ session.task = t THEN 1 ELSE 0)
                + (IF lease = t /\ t # OwnTask THEN 1 ELSE 0)
                + (IF t = OwnTask THEN 1 ELSE 0)

\* docs/javascript-api.md: getTargetStatus notices that its target terminated.
StatusIsTrue == lastStatus.available => lastStatus.alive
=============================================================================
