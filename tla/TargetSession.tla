--------------------------- MODULE TargetSession ----------------------------
(***************************************************************************)
(* TargetSession.cpp and its use in h5gg.mm: the process whose memory the  *)
(* engine works on.                                                        *)
(*                                                                         *)
(* A session is a pid and a task port; the model names a port by the task  *)
(* it denotes, <<pid, life>>, the life-th process that had this pid.  When *)
(* a process exits its pid may be given to another one, but the port still *)
(* denotes the dead task.  `rights' counts the user references that the    *)
(* host application holds on each port name: task_for_pid adds one,        *)
(* mach_port_mod_refs adds one, mach_port_deallocate drops one.  The       *)
(* host's own task is <<OwnPid, 1>>, to which it always holds one.         *)
(***************************************************************************)
EXTENDS Naturals

CONSTANTS
  Pids,     \* the pids of other processes
  OwnPid,   \* getpid()
  MaxLife   \* bound: the processes that may have one pid, in turn

ASSUME OwnPidIsOwn == OwnPid \notin Pids
ASSUME MaxLifeIsNat == MaxLife \in Nat

NoPid == 0
NoTask == <<>>
OwnTask == <<OwnPid, 1>>
Tasks == (Pids \X (1..MaxLife)) \union {OwnTask}

VARIABLES
  up,       \* the pids of Pids in use
  life,     \* how many processes have had each pid
  session,  \* the current MemorySession's target: [pid, task, owned]
  rights    \* user references held on each task port

processVars == <<up, life>>
sessionVars == <<session, rights>>

NoTarget == [pid |-> NoPid, task |-> NoTask, owned |-> FALSE]
OwnTarget == [pid |-> OwnPid, task |-> OwnTask, owned |-> FALSE]

\* A standalone host has no target at first, an injected one targets itself.
SessionInit ==
  /\ up = {}
  /\ life = [p \in Pids |-> 0]
  /\ session \in {NoTarget, OwnTarget}
  /\ rights = [t \in Tasks |-> IF t = OwnTask THEN 1 ELSE 0]

Alive(t) == t = OwnTask \/ \E p \in up : t = <<p, life[p]>>

-----------------------------------------------------------------------------
(* Other processes.                                                        *)

ProcessStarts(p) ==
  /\ p \notin up
  /\ life[p] < MaxLife
  /\ up' = up \union {p}
  /\ life' = [life EXCEPT ![p] = @ + 1]

ProcessExits(p) ==
  /\ p \in up
  /\ up' = up \ {p}
  /\ UNCHANGED life

-----------------------------------------------------------------------------
(* The façade's session.                                                   *)

Valid == session.pid # NoPid /\ session.task # NoTask

\* _targetIsAvailable asks the system about the pid, not about the port.
TargetIsAvailable == Valid /\ (session.pid = OwnPid \/ session.pid \in up)

\* The task of the process that has the pid now: what task_for_pid returns.
TaskForPid(p) == IF p = OwnPid THEN OwnTask ELSE <<p, life[p]>>

\* The rights after the session is deleted: its TargetProcess gives back the
\* port it owns.
WithoutSessionBug(r) == r
WithoutSession(r) ==
  IF session.owned THEN [r EXCEPT ![session.task] = @ - 1] ELSE r

Grant(r, t) == [r EXCEPT ![t] = @ + 1]

\* _invalidateTargetSession, when the empty session can be allocated.
InvalidateTargetSession ==
  /\ session' = NoTarget
  /\ rights' = WithoutSession(rights)

\* The new session of setTargetProc takes over; then the previous is deleted.
TakeTarget(p) ==
  /\ p = OwnPid \/ p \in up
  /\ session' = [pid |-> p, task |-> TaskForPid(p), owned |-> TRUE]
  /\ rights' = WithoutSession(Grant(rights, TaskForPid(p)))

DeleteSession ==
  /\ session' = NoTarget
  /\ rights' = WithoutSession(rights)
=============================================================================
