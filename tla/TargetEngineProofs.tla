------------------------- MODULE TargetEngineProofs -------------------------
(***************************************************************************)
(* Proofs about TargetEngine, for any set of pids and addresses, any       *)
(* number of processes per pid and any length of dump.                     *)
(*                                                                         *)
(* None of the invariants is inductive on its own: that no reference is    *)
(* dropped twice depends on when a lease exists, which depends on the      *)
(* dump's worker and on the status that start tests; that a tick writes to *)
(* the right process depends on every entry having been made for the       *)
(* session that is current; that a completed dump is whole depends on how  *)
(* far its worker is.  TargetInv is the conjunction that is inductive.     *)
(***************************************************************************)
EXTENDS TargetEngine, TLAPS

\* A lease exists exactly while a worker needs it, and the status says that
\* the dump is running until the completion block has run.
LeaseInv ==
  /\ lease # NoLease <=> worker \in {"queued", "stream", "read", "write", "count", "ending"}
  /\ worker # "none" => state = "running"

\* A pid in use has a process, and a port that is owned is a task's.
SessionInv ==
  /\ \A p \in up : life[p] # 0
  /\ session.owned => session.task # NoTask

\* Every entry was made for the task of the current session.
FreezeInv ==
  /\ \A a \in DOMAIN entries :
       entries[a].pid = session.pid /\ entries[a].task = session.task
  /\ FreezesStayHome
  /\ TimerMatchesEntries

\* What is on disk and what is promised, by the place of the worker.
DumpInv ==
  /\ worker # "none" => state = "running" /\ promise = "pending"
  /\ worker = "queued" => written = 0
  /\ worker = "stream" /\ written = Chunks => file = "whole"
  /\ worker \in {"read", "write", "count"} => written < Chunks
  /\ worker = "count" /\ written + 1 = Chunks => file = "whole"
  /\ worker \in {"ending", "posted"} => outcome # "none"
  /\ worker \in {"ending", "posted"} /\ outcome = "completed" => file = "whole"
  /\ worker = "posted" /\ outcome # "completed" => file = "none" \/ unremoved
  /\ DumpTellsTheTruth

HeldInv == RightsAreAccounted /\ LeaseInv /\ SessionInv
TargetInv == TypeOK /\ HeldInv /\ FreezeInv /\ DumpInv

-----------------------------------------------------------------------------
(* Dumps.                                                                  *)

LEMMA DumpStep == TypeOK /\ DumpInv /\ [Next]_vars => DumpInv'
<1> SUFFICES ASSUME TypeOK, DumpInv, [Next]_vars
             PROVE  DumpInv'
  OBVIOUS
<1>1. ASSUME NEW t, StartFrom(t)
      PROVE  DumpInv'
  BY <1>1, RangesAreNotEmpty DEF StartFrom, Started, DumpInv, DumpTellsTheTruth
<1>2. ASSUME CancelDump
      PROVE  DumpInv'
  BY <1>2 DEF CancelDump, DumpInv, DumpTellsTheTruth
<1>3. ASSUME OpenFile
      PROVE  DumpInv'
  BY <1>3, RangesAreNotEmpty DEF OpenFile, DumpInv, DumpTellsTheTruth
<1>4. ASSUME NEW g, NEW alive,
             TestCancelled(g) \/ ReadChunk(alive) \/ WriteChunk \/ CountChunk
      PROVE  DumpInv'
  BY <1>4, RangesAreNotEmpty
     DEF TestCancelled, ReadChunk, WriteChunk, CountChunk, Ends, Goes, TypeOK, DumpInv,
         DumpTellsTheTruth
<1>5. ASSUME FinishWork
      PROVE  DumpInv'
  BY <1>5 DEF FinishWork, DumpInv, DumpTellsTheTruth
<1>6. ASSUME NEW g, CompletionBlock(g)
      PROVE  DumpInv'
  BY <1>6 DEF CompletionBlock, TypeOK, DumpInv, DumpTellsTheTruth
<1>7. ASSUME UNCHANGED <<state, worker, written, outcome, file, promise, unremoved>>
      PROVE  DumpInv'
  BY <1>7 DEF DumpInv, DumpTellsTheTruth
<1>8. CASE DumpMemory
  BY <1>1, <1>8 DEF DumpMemory
<1>9. CASE CancelDumpCall
  BY <1>2, <1>9 DEF CancelDumpCall
<1>10. CASE Dealloc
  BY <1>7, <1>10 DEF Dealloc
<1>11. CASE WorkerStep
  BY <1>3, <1>4, <1>5, <1>11 DEF WorkerStep
<1>12. CASE DumpCompletion
  BY <1>6, <1>12 DEF DumpCompletion
<1>13. CASE UNCHANGED dumpVars
  BY <1>7, <1>13 DEF dumpVars
<1>14. CASE Methods
  BY <1>8, <1>9, <1>10, <1>13, <1>14
     DEF Methods, SetTargetProc, SetDeadTargetProc, GetTargetStatus, FreezeValue, UnfreezeValue,
         ClearFrozenValues, Tick
<1>15. CASE Processes
  BY <1>13, <1>15 DEF Processes
<1>16. CASE UNCHANGED vars
  BY <1>13, <1>16 DEF vars
<1> QED
  BY <1>11, <1>12, <1>14, <1>15, <1>16 DEF Next

-----------------------------------------------------------------------------
(* Tasks and references.                                                   *)

\* The marks for no task and no lease are not tasks, and the host has one.
LEMMA TaskNames == NoTask \notin Tasks /\ NoLease \notin Tasks /\ OwnTask \in Tasks
BY DEF NoTask, NoLease, OwnTask, Tasks

\* What task_for_pid returns is a task.
LEMMA TaskForPidType ==
  ASSUME TypeOK, SessionInv, NEW p \in Pids \union {OwnPid}, p = OwnPid \/ p \in up
  PROVE  TaskForPid(p) \in Tasks
<1>1. CASE p = OwnPid
  BY <1>1, TaskNames DEF TaskForPid
<1>2. CASE p # OwnPid
  <2>1. p \in Pids /\ life[p] \in 1..MaxLife
    BY <1>2, MaxLifeIsNat DEF TypeOK, SessionInv
  <2> QED
    BY <1>2, <2>1 DEF TaskForPid, Tasks
<1> QED
  BY <1>1, <1>2

\* A reference is there to be dropped: by the session that owns its port, and
\* by the worker that gives its lease back.
LEMMA References ==
  ASSUME TypeOK, HeldInv
  PROVE  /\ session.owned => session.task \in Tasks /\ rights[session.task] > 0
         /\ lease # NoLease => lease \in Tasks
         /\ lease # NoLease /\ lease # OwnTask => rights[lease] > 0
<1>1. session.owned => session.task \in Tasks
  BY DEF TypeOK, HeldInv, SessionInv
<1>2. lease # NoLease => lease \in Tasks
  BY DEF TypeOK
<1> QED
  BY <1>1, <1>2 DEF TypeOK, HeldInv, RightsAreAccounted

\* Deleting the session drops one reference, on the port it owns.
LEMMA DeletedSession ==
  ASSUME TypeOK, HeldInv, NEW r \in [Tasks -> Nat], \A t \in Tasks : r[t] >= rights[t]
  PROVE  /\ WithoutSession(r) \in [Tasks -> Nat]
         /\ \A t \in Tasks :
              r[t] = WithoutSession(r)[t] + (IF session.owned /\ session.task = t THEN 1 ELSE 0)
BY References DEF WithoutSession, TypeOK

LEMMA HeldStep ==
  TypeOK /\ HeldInv /\ [Next]_vars => HeldInv' /\ rights' \in [Tasks -> Nat]
<1> SUFFICES ASSUME TypeOK, HeldInv, [Next]_vars
             PROVE  HeldInv' /\ rights' \in [Tasks -> Nat]
  OBVIOUS
<1>1. ASSUME NEW p \in Pids \union {OwnPid}, TakeTarget(p), UNCHANGED <<processVars, dumpVars>>
      PROVE  HeldInv' /\ rights' \in [Tasks -> Nat]
  <2> DEFINE r == Grant(rights, TaskForPid(p))
  <2>1. TaskForPid(p) \in Tasks
    BY <1>1, TaskForPidType DEF TakeTarget, HeldInv
  <2>2. r \in [Tasks -> Nat] /\ \A t \in Tasks : r[t] >= rights[t]
    BY <2>1 DEF Grant, TypeOK
  <2>3. /\ WithoutSession(r) \in [Tasks -> Nat]
        /\ \A t \in Tasks :
             r[t] = WithoutSession(r)[t] + (IF session.owned /\ session.task = t THEN 1 ELSE 0)
    BY <2>2, DeletedSession
  <2>4. \A t \in Tasks : r[t] = rights[t] + (IF t = TaskForPid(p) THEN 1 ELSE 0)
    BY <2>1 DEF Grant, TypeOK
  <2>5. rights' = WithoutSession(r) /\ session'.owned /\ session'.task = TaskForPid(p)
    BY <1>1 DEF TakeTarget
  <2>6. RightsAreAccounted'
    BY <1>1, <2>3, <2>4, <2>5 DEF dumpVars, HeldInv, RightsAreAccounted, TypeOK
  <2>7. LeaseInv' /\ SessionInv'
    BY <1>1, <2>1, <2>5, TaskNames DEF processVars, dumpVars, HeldInv, LeaseInv, SessionInv
  <2> QED
    BY <2>3, <2>5, <2>6, <2>7 DEF HeldInv
<1>2. ASSUME session' = NoTarget, rights' = WithoutSession(rights),
             UNCHANGED <<processVars, worker, state, lease>>
      PROVE  HeldInv' /\ rights' \in [Tasks -> Nat]
  <2>1. /\ WithoutSession(rights) \in [Tasks -> Nat]
        /\ \A t \in Tasks :
             rights[t] = WithoutSession(rights)[t]
                         + (IF session.owned /\ session.task = t THEN 1 ELSE 0)
    BY DeletedSession DEF TypeOK
  <2>2. RightsAreAccounted'
    BY <1>2, <2>1 DEF HeldInv, RightsAreAccounted, NoTarget, TypeOK
  <2>3. LeaseInv' /\ SessionInv'
    BY <1>2 DEF processVars, NoTarget, HeldInv, LeaseInv, SessionInv
  <2> QED
    BY <1>2, <2>1, <2>2, <2>3 DEF HeldInv
<1>3. ASSUME UNCHANGED <<session, rights, lease, worker, state>>,
             (up' = up /\ life' = life) \/ \E p \in Pids : ProcessStarts(p) \/ ProcessExits(p)
      PROVE  HeldInv' /\ rights' \in [Tasks -> Nat]
  <2>1. SessionInv'
    BY <1>3, MaxLifeIsNat DEF HeldInv, SessionInv, ProcessStarts, ProcessExits, TypeOK
  <2> QED
    BY <1>3, <2>1 DEF HeldInv, RightsAreAccounted, LeaseInv, TypeOK
<1>4. CASE DumpMemory
  <2>1. session.task \in Tasks /\ lease' = session.task /\ lease = NoLease
    BY <1>4 DEF DumpMemory, StartFrom, Started, TypeOK, HeldInv, LeaseInv
  <2>2. rights' \in [Tasks -> Nat]
    BY <1>4, <2>1 DEF DumpMemory, Grant, TypeOK
  <2>3. RightsAreAccounted'
    BY <1>4, <2>1, TaskNames DEF DumpMemory, Grant, TypeOK, HeldInv, RightsAreAccounted
  <2>4. LeaseInv' /\ SessionInv'
    BY <1>4, <2>1, TaskNames
       DEF DumpMemory, StartFrom, Started, processVars, HeldInv, LeaseInv, SessionInv
  <2> QED
    BY <2>2, <2>3, <2>4 DEF HeldInv
<1>5. CASE WorkerStep
  <2>1. CASE FinishWork /\ rights' = IF lease = OwnTask THEN rights
                                     ELSE [rights EXCEPT ![lease] = @ - 1]
    <3>1. lease # NoLease /\ lease \in Tasks /\ (lease # OwnTask => rights[lease] > 0)
      BY <2>1, References DEF FinishWork, HeldInv, LeaseInv
    <3>2. rights' \in [Tasks -> Nat]
      BY <2>1, <3>1 DEF TypeOK
    <3>3. RightsAreAccounted'
      BY <1>5, <2>1, <3>1, TaskNames
         DEF WorkerStep, FinishWork, TypeOK, HeldInv, RightsAreAccounted
    <3>4. LeaseInv' /\ SessionInv'
      BY <1>5, <2>1 DEF WorkerStep, FinishWork, processVars, HeldInv, LeaseInv, SessionInv
    <3> QED
      BY <3>2, <3>3, <3>4 DEF HeldInv
  <2>2. CASE /\ \/ OpenFile \/ TestCancelled(gone) \/ ReadChunk(Alive(lease))
                \/ WriteChunk \/ CountChunk
             /\ UNCHANGED rights
    <3>1. LeaseInv' /\ UNCHANGED lease
      BY <2>2 DEF OpenFile, TestCancelled, ReadChunk, WriteChunk, CountChunk, Ends, Goes,
         HeldInv, LeaseInv
    <3> QED
      BY <1>5, <2>2, <3>1
         DEF WorkerStep, processVars, HeldInv, SessionInv, RightsAreAccounted, TypeOK
  <2> QED
    BY <1>5, <2>1, <2>2 DEF WorkerStep
<1>6. CASE DumpCompletion
  <2>1. LeaseInv'
    BY <1>6 DEF DumpCompletion, CompletionBlock, HeldInv, LeaseInv
  <2> QED
    BY <1>6, <2>1
       DEF DumpCompletion, CompletionBlock, processVars, sessionVars, HeldInv, SessionInv,
           RightsAreAccounted, TypeOK
<1>7. CASE Processes
  BY <1>3, <1>7 DEF Processes, sessionVars, dumpVars
<1>8. CASE UNCHANGED <<processVars, sessionVars, lease, worker, state>>
  BY <1>3, <1>8 DEF processVars, sessionVars
<1>9. ASSUME NEW p \in Pids \union {OwnPid}, SetTargetProc(p)
      PROVE  HeldInv' /\ rights' \in [Tasks -> Nat]
  BY <1>1, <1>9 DEF SetTargetProc
<1>10. CASE SetDeadTargetProc
  BY <1>2, <1>10 DEF SetDeadTargetProc, InvalidateTargetSession, dumpVars
<1>11. CASE GetTargetStatus
  BY <1>2, <1>8, <1>11 DEF GetTargetStatus, InvalidateTargetSession, dumpVars
<1>12. CASE Dealloc
  BY <1>2, <1>12 DEF Dealloc, DeleteSession
<1>13. CASE CancelDumpCall
  BY <1>8, <1>13 DEF CancelDumpCall, CancelDump
<1>14. CASE Tick \/ ClearFrozenValues \/ \E a \in Addresses : FreezeValue(a) \/ UnfreezeValue(a)
  BY <1>8, <1>14 DEF Tick, ClearFrozenValues, FreezeValue, UnfreezeValue, dumpVars
<1>15. CASE Methods
  BY <1>4, <1>9, <1>10, <1>11, <1>12, <1>13, <1>14, <1>15 DEF Methods
<1>16. CASE UNCHANGED vars
  BY <1>8, <1>16 DEF vars, dumpVars
<1> QED
  BY <1>5, <1>6, <1>7, <1>15, <1>16 DEF Next
-----------------------------------------------------------------------------
(* Freezes.                                                                *)

LEMMA FreezeStep == TypeOK /\ HeldInv /\ FreezeInv /\ [Next]_vars => FreezeInv'
<1> SUFFICES ASSUME TypeOK, HeldInv, FreezeInv, [Next]_vars
             PROVE  FreezeInv'
  OBVIOUS
<1>1. ASSUME Clear
      PROVE  FreezeInv'
  BY <1>1 DEF Clear, FreezeInv, FreezesStayHome, TimerMatchesEntries
<1>2. CASE UNCHANGED <<session, freezerVars>>
  BY <1>2 DEF freezerVars, FreezeInv, FreezesStayHome, TimerMatchesEntries
<1>3. ASSUME NEW a \in Addresses, FreezeValue(a)
      PROVE  FreezeInv'
  BY <1>3 DEF FreezeValue, FreezeAddress, sessionVars, FreezeInv, FreezesStayHome,
              TimerMatchesEntries
<1>4. ASSUME NEW a \in Addresses, UnfreezeValue(a)
      PROVE  FreezeInv'
  <2>1. /\ DOMAIN entries' = DOMAIN entries \ {a}
        /\ \A b \in DOMAIN entries' : entries'[b] = entries[b]
    BY <1>4 DEF UnfreezeValue, UnfreezeAddress, Restrict
  <2>2. timer' = (timer /\ DOMAIN entries' # {}) /\ UNCHANGED <<strayed, session>>
    BY <1>4 DEF UnfreezeValue, UnfreezeAddress, sessionVars
  <2> QED
    BY <2>1, <2>2 DEF TypeOK, FreezeInv, FreezesStayHome, TimerMatchesEntries
<1>5. CASE Tick
  <2>1. /\ DOMAIN entries' = DOMAIN entries
        /\ \A a \in DOMAIN entries :
             entries'[a].pid = entries[a].pid /\ entries'[a].task = entries[a].task
    BY <1>5 DEF Tick, PerformTick, TypeOK
  <2>2. UNCHANGED <<session, timer>> /\ strayed' = FALSE
    BY <1>5 DEF Tick, PerformTick, sessionVars, TypeOK, FreezeInv, FreezesStayHome
  <2> QED
    BY <2>1, <2>2 DEF FreezeInv, FreezesStayHome, TimerMatchesEntries
<1>6. CASE Methods
  BY <1>1, <1>2, <1>3, <1>4, <1>5, <1>6
     DEF Methods, SetTargetProc, SetDeadTargetProc, GetTargetStatus, ClearFrozenValues,
         DumpMemory, CancelDumpCall, Dealloc, sessionVars
<1>7. CASE WorkerStep \/ DumpCompletion \/ Processes \/ UNCHANGED vars
  BY <1>2, <1>7 DEF WorkerStep, DumpCompletion, Processes, vars, sessionVars
<1> QED
  BY <1>6, <1>7 DEF Next

-----------------------------------------------------------------------------
(* Types.                                                                  *)

LEMMA SessionTypeStep ==
  TypeOK /\ HeldInv /\ [Next]_vars =>
    /\ up' \subseteq Pids
    /\ life' \in [Pids -> 0..MaxLife]
    /\ session' \in [pid : Pids \union {OwnPid, NoPid}, task : Tasks \union {NoTask},
                     owned : BOOLEAN]
<1> SUFFICES ASSUME TypeOK, HeldInv, [Next]_vars
             PROVE  /\ up' \subseteq Pids
                    /\ life' \in [Pids -> 0..MaxLife]
                    /\ session' \in [pid : Pids \union {OwnPid, NoPid},
                                     task : Tasks \union {NoTask}, owned : BOOLEAN]
  OBVIOUS
<1>1. /\ up' \subseteq Pids
      /\ life' \in [Pids -> 0..MaxLife]
  <2>1. CASE Processes
    BY <2>1, MaxLifeIsNat DEF Processes, ProcessStarts, ProcessExits, TypeOK
  <2>2. CASE UNCHANGED processVars
    BY <2>2 DEF processVars, TypeOK
  <2> QED
    BY <2>1, <2>2
       DEF Next, Methods, SetTargetProc, SetDeadTargetProc, GetTargetStatus, FreezeValue,
           UnfreezeValue, ClearFrozenValues, DumpMemory, CancelDumpCall, Tick, Dealloc,
           WorkerStep, DumpCompletion, vars
<1>2. session' \in [pid : Pids \union {OwnPid, NoPid}, task : Tasks \union {NoTask},
                    owned : BOOLEAN]
  <2>1. ASSUME NEW p \in Pids \union {OwnPid}, TakeTarget(p)
        PROVE  session' \in [pid : Pids \union {OwnPid, NoPid},
                             task : Tasks \union {NoTask}, owned : BOOLEAN]
    BY <2>1, TaskForPidType DEF TakeTarget, HeldInv
  <2>2. CASE session' = NoTarget
    BY <2>2 DEF NoTarget
  <2>3. CASE UNCHANGED session
    BY <2>3 DEF TypeOK
  <2> QED
    BY <2>1, <2>2, <2>3
       DEF Next, Methods, SetTargetProc, SetDeadTargetProc, GetTargetStatus, FreezeValue,
           UnfreezeValue, ClearFrozenValues, DumpMemory, CancelDumpCall, Tick, Dealloc,
           WorkerStep, DumpCompletion, Processes, InvalidateTargetSession, DeleteSession,
           sessionVars, vars
<1> QED
  BY <1>1, <1>2

EntryTypes ==
  /\ DOMAIN entries \subseteq Addresses
  /\ \A a \in DOMAIN entries :
       entries[a] \in [pid : Pids \union {OwnPid}, task : Tasks,
                       status : {"active", "write-failed", "target-unavailable"}]
  /\ timer \in BOOLEAN
  /\ strayed \in BOOLEAN

LEMMA EntryTypeStep == TypeOK /\ [Next]_vars => EntryTypes'
<1> SUFFICES ASSUME TypeOK, [Next]_vars
             PROVE  EntryTypes'
  OBVIOUS
<1>0. EntryTypes
  BY DEF TypeOK, EntryTypes
<1>1. ASSUME Clear
      PROVE  EntryTypes'
  <2>1. DOMAIN entries' = {}
    BY <1>1 DEF Clear
  <2> QED
    BY <1>0, <1>1, <2>1 DEF Clear, EntryTypes
<1>2. CASE UNCHANGED freezerVars
  BY <1>0, <1>2 DEF freezerVars, EntryTypes
<1>3. ASSUME NEW a \in Addresses, FreezeValue(a)
      PROVE  EntryTypes'
  <2>1. session.pid \in Pids \union {OwnPid} /\ session.task \in Tasks
    BY <1>3 DEF FreezeValue, FreezeAddress, TargetIsAvailable, Valid, TypeOK
  <2> QED
    BY <1>0, <1>3, <2>1 DEF FreezeValue, FreezeAddress, EntryTypes
<1>4. ASSUME NEW a \in Addresses, UnfreezeValue(a)
      PROVE  EntryTypes'
  <2>1. /\ DOMAIN entries' = DOMAIN entries \ {a}
        /\ \A b \in DOMAIN entries' : entries'[b] = entries[b]
    BY <1>4 DEF UnfreezeValue, UnfreezeAddress, Restrict
  <2>2. timer' \in BOOLEAN /\ strayed' \in BOOLEAN
    BY <1>0, <1>4 DEF UnfreezeValue, UnfreezeAddress, EntryTypes
  <2> QED
    BY <1>0, <2>1, <2>2 DEF EntryTypes
<1>5. CASE Tick
  <2>1. /\ DOMAIN entries' = DOMAIN entries
        /\ \A a \in DOMAIN entries :
             /\ entries'[a].pid = entries[a].pid
             /\ entries'[a] \in [pid : Pids \union {OwnPid}, task : Tasks,
                       status : {"active", "write-failed", "target-unavailable"}]
    BY <1>0, <1>5 DEF Tick, PerformTick, EntryTypes
  <2>2. timer' \in BOOLEAN /\ strayed' \in BOOLEAN
    BY <1>0, <1>5 DEF Tick, PerformTick, EntryTypes
  <2> QED
    BY <1>0, <2>1, <2>2 DEF EntryTypes
<1>6. CASE Methods
  BY <1>1, <1>2, <1>3, <1>4, <1>5, <1>6
     DEF Methods, SetTargetProc, SetDeadTargetProc, GetTargetStatus, ClearFrozenValues,
         DumpMemory, CancelDumpCall, Dealloc
<1>7. CASE WorkerStep \/ DumpCompletion \/ Processes \/ UNCHANGED vars
  BY <1>2, <1>7 DEF WorkerStep, DumpCompletion, Processes, vars
<1> QED
  BY <1>6, <1>7 DEF Next

DumpTypes ==
  /\ state \in {"idle", "running", "completed", "cancelled", "failed"}
  /\ cancelled \in BOOLEAN
  /\ worker \in {"none", "queued", "stream", "read", "write", "count", "ending", "posted"}
  /\ written \in 0..Chunks
  /\ outcome \in {"none", "completed", "cancelled", "failed"}
  /\ lease \in Tasks \union {NoLease}
  /\ file \in {"none", "partial", "whole"}
  /\ promise \in {"none", "pending", "true", "false"}
  /\ unremoved \in BOOLEAN

\* DumpInv is needed here: a completion takes over an outcome only if there is
\* one, or the status would be "none".
LEMMA DumpTypeStep == TypeOK /\ DumpInv /\ [Next]_vars => DumpTypes'
<1> SUFFICES ASSUME TypeOK, DumpInv, [Next]_vars
             PROVE  DumpTypes'
  OBVIOUS
<1>0. DumpTypes
  BY DEF TypeOK, DumpTypes
<1>1. CASE DumpMemory
  <2>1. session.task \in Tasks
    BY <1>1 DEF DumpMemory, TypeOK
  <2>2. written' \in 0..Chunks
    BY <1>1, RangesAreNotEmpty DEF DumpMemory, StartFrom, Started
  <2> QED
    BY <1>0, <1>1, <2>1, <2>2 DEF DumpMemory, StartFrom, Started, DumpTypes
<1>2. CASE CancelDumpCall
  BY <1>0, <1>2 DEF CancelDumpCall, CancelDump, DumpTypes
<1>3. CASE Dealloc
  BY <1>0, <1>3 DEF Dealloc, DumpTypes
<1>4. CASE WorkerStep
  <2>1. CASE OpenFile
    BY <1>0, <2>1 DEF OpenFile, DumpTypes
  <2>2. CASE TestCancelled(gone) \/ ReadChunk(Alive(lease)) \/ WriteChunk \/ CountChunk
    BY <1>0, <2>2, RangesAreNotEmpty
       DEF TestCancelled, ReadChunk, WriteChunk, CountChunk, Ends, Goes, DumpInv, DumpTypes
  <2>3. CASE FinishWork
    BY <1>0, <2>3 DEF FinishWork, DumpTypes
  <2> QED
    BY <1>4, <2>1, <2>2, <2>3 DEF WorkerStep
<1>5. CASE DumpCompletion
  <2>1. outcome # "none"
    BY <1>5 DEF DumpCompletion, CompletionBlock, DumpInv
  <2> QED
    BY <1>0, <1>5, <2>1 DEF DumpCompletion, CompletionBlock, DumpTypes
<1>6. CASE UNCHANGED dumpVars
  BY <1>0, <1>6 DEF dumpVars, DumpTypes
<1>7. CASE Methods
  BY <1>1, <1>2, <1>3, <1>6, <1>7
     DEF Methods, SetTargetProc, SetDeadTargetProc, GetTargetStatus, FreezeValue, UnfreezeValue,
         ClearFrozenValues, Tick
<1>8. CASE Processes \/ UNCHANGED vars
  BY <1>6, <1>8 DEF Processes, vars
<1> QED
  BY <1>4, <1>5, <1>7, <1>8 DEF Next

LEMMA TypeStep == TypeOK /\ HeldInv /\ DumpInv /\ [Next]_vars => TypeOK'
<1> SUFFICES ASSUME TypeOK, HeldInv, DumpInv, [Next]_vars
             PROVE  TypeOK'
  OBVIOUS
<1>1. gone' \in BOOLEAN /\ lastStatus' \in [available : BOOLEAN, alive : BOOLEAN]
  <2>1. CASE GetTargetStatus
    BY <2>1 DEF GetTargetStatus, TargetIsAvailable, TypeOK
  <2>2. CASE Dealloc
    BY <2>2 DEF Dealloc, TypeOK
  <2>3. CASE UNCHANGED <<gone, lastStatus>>
    BY <2>3 DEF TypeOK
  <2> QED
    BY <2>1, <2>2, <2>3
       DEF Next, Methods, SetTargetProc, SetDeadTargetProc, FreezeValue, UnfreezeValue,
           ClearFrozenValues, DumpMemory, CancelDumpCall, Tick, WorkerStep, DumpCompletion,
           Processes, vars
<1> QED
  BY <1>1, HeldStep, SessionTypeStep, EntryTypeStep, DumpTypeStep
     DEF EntryTypes, DumpTypes, TypeOK

-----------------------------------------------------------------------------
(* The theorems.                                                           *)

LEMMA InitInv == Init => TargetInv
<1> SUFFICES ASSUME Init
             PROVE  TargetInv
  OBVIOUS
<1>1. TypeOK
  <2>1. DOMAIN entries = {} /\ life \in [Pids -> 0..MaxLife] /\ written \in 0..Chunks
    BY MaxLifeIsNat, RangesAreNotEmpty DEF Init, SessionInit, FreezerInit, DumpInit
  <2>2. rights \in [Tasks -> Nat]
    BY DEF Init, SessionInit
  <2>3. session \in [pid : Pids \union {OwnPid, NoPid}, task : Tasks \union {NoTask},
                     owned : BOOLEAN]
    <3>1. CASE session = NoTarget
      BY <3>1 DEF NoTarget
    <3>2. CASE session = OwnTarget
      BY <3>2, TaskNames DEF OwnTarget
    <3> QED
      BY <3>1, <3>2 DEF Init, SessionInit
  <2>4. EntryTypes
    BY <2>1 DEF Init, FreezerInit, EntryTypes
  <2>5. DumpTypes
    BY <2>1 DEF Init, DumpInit, DumpTypes
  <2>6. up \subseteq Pids /\ gone \in BOOLEAN
        /\ lastStatus \in [available : BOOLEAN, alive : BOOLEAN]
    BY DEF Init, SessionInit
  <2> QED
    BY <2>1, <2>2, <2>3, <2>4, <2>5, <2>6 DEF EntryTypes, DumpTypes, TypeOK
<1>2. HeldInv
  BY TaskNames
     DEF Init, SessionInit, DumpInit, NoTarget, OwnTarget, HeldInv, RightsAreAccounted, LeaseInv,
         SessionInv
<1>3. FreezeInv
  BY DEF Init, FreezerInit, FreezeInv, FreezesStayHome, TimerMatchesEntries
<1>4. DumpInv
  BY DEF Init, DumpInit, DumpInv, DumpTellsTheTruth
<1> QED
  BY <1>1, <1>2, <1>3, <1>4 DEF TargetInv

\* TargetInv is inductive.
LEMMA InductiveInv == Spec => []TargetInv
<1>1. Init => TargetInv
  BY InitInv
<1>2. TargetInv /\ [Next]_vars => TargetInv'
  BY TypeStep, HeldStep, FreezeStep, DumpStep DEF TargetInv
<1> QED
  BY <1>1, <1>2, PTL DEF Spec

\* The engine's state always has its type; in particular no port loses a
\* reference it does not have.
THEOREM TargetTypeCorrect == Spec => []TypeOK
<1>1. TargetInv => TypeOK
  BY DEF TargetInv
<1> QED
  BY <1>1, InductiveInv, PTL

\* However targets come and go, dumps start and end and the engine is
\* deallocated, every port reference is held by the session, by a dump's lease
\* or by the host: none leaks and none is dropped twice.
THEOREM ReferencesBalance == Spec => []RightsAreAccounted
<1>1. TargetInv => RightsAreAccounted
  BY DEF TargetInv, HeldInv
<1> QED
  BY <1>1, InductiveInv, PTL

\* A value frozen in a process is never written into another, even if the
\* system gives the process's pid to another one while the freeze lasts.
THEOREM FreezesNeverStray == Spec => []FreezesStayHome
<1>1. TargetInv => FreezesStayHome
  BY DEF TargetInv, FreezeInv
<1> QED
  BY <1>1, InductiveInv, PTL

\* The freezer's timer runs exactly while some value is frozen.
THEOREM TimerIsNeeded == Spec => []TimerMatchesEntries
<1>1. TargetInv => TimerMatchesEntries
  BY DEF TargetInv, FreezeInv
<1> QED
  BY <1>1, InductiveInv, PTL

\* A dump of any length that is reported as completed has left the whole file,
\* one that failed or was cancelled has left none unless the file system would
\* not remove it, and its promise says which.
THEOREM DumpReportsAreTrue == Spec => []DumpTellsTheTruth
<1>1. TargetInv => DumpTellsTheTruth
  BY DEF TargetInv, DumpInv
<1> QED
  BY <1>1, InductiveInv, PTL
=============================================================================
