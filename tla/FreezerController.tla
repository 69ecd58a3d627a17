------------------------- MODULE FreezerController --------------------------
(***************************************************************************)
(* FreezerController.mm: values written again every 100 ms.                *)
(*                                                                         *)
(* `entries' is the dictionary by canonical address.  An entry remembers   *)
(* the pid it was made for and its last status, and, as history that no    *)
(* action reads, the task behind that pid; its value, its type and its     *)
(* failure count are left out, for nothing here depends on them.  The      *)
(* target is the engine's: the operators are given what the controller's   *)
(* providers return, the pid and whether it is available, and the task     *)
(* that the writer's port names.  A freeze that is refused, an address     *)
(* that does not parse or a timer that does not start changes nothing, as  *)
(* the entry that was replaced is restored.                                *)
(***************************************************************************)
EXTENDS Naturals, Functions

CONSTANT Addresses

VARIABLES
  entries,  \* a function from the frozen addresses
  timer,    \* the repeating timer runs
  strayed   \* history: a tick wrote to another task than it was asked to

freezerVars == <<entries, timer, strayed>>

FreezerInit ==
  /\ entries = <<>>
  /\ timer = FALSE
  /\ strayed = FALSE

FreezeAddress(a, available, pid, task) ==
  /\ available
  /\ entries' = [b \in DOMAIN entries \union {a} |->
                   IF b = a THEN [pid |-> pid, status |-> "active", task |-> task]
                            ELSE entries[b]]
  /\ timer' = TRUE
  /\ UNCHANGED strayed

UnfreezeAddressBug(a) ==
  /\ a \in DOMAIN entries
  /\ entries' = Restrict(entries, DOMAIN entries \ {a})
  /\ UNCHANGED <<timer, strayed>>
UnfreezeAddress(a) ==
  /\ a \in DOMAIN entries
  /\ entries' = Restrict(entries, DOMAIN entries \ {a})
  /\ timer' = (timer /\ DOMAIN entries' # {})
  /\ UNCHANGED strayed

ClearBug == UNCHANGED freezerVars
Clear ==
  /\ entries' = <<>>
  /\ timer' = FALSE
  /\ UNCHANGED strayed

\* Every entry of the current target is written.  The write fails for an
\* address the target has not mapped, and always when its task is gone.
PerformTick(available, pid, task, taskAlive) ==
  /\ timer
  /\ LET due == {a \in DOMAIN entries : available /\ entries[a].pid = pid}
     IN  \E written \in SUBSET (IF taskAlive THEN due ELSE {}) :
           /\ entries' = [a \in DOMAIN entries |->
                [entries[a] EXCEPT !.status =
                   CASE a \in written -> "active"
                     [] a \in due \ written -> "write-failed"
                     [] OTHER -> "target-unavailable"]]
           /\ strayed' = (strayed \/ \E a \in written : entries[a].task # task)
  /\ UNCHANGED timer

\* The freezer writes an address only in the process it was frozen for, though
\* the pid is all it compares and a pid may come back with another process.
FreezesStayHome == ~strayed

\* The timer runs exactly while something is frozen: one that never stopped
\* would wake the host application for ever, one that never started would
\* leave an accepted freeze without effect.
TimerMatchesEntries == timer <=> DOMAIN entries # {}
=============================================================================
