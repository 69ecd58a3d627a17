--------------------------- MODULE AtomicScripts ----------------------------
(***************************************************************************)
(* What ScriptStore promises: each name is an atomic register.             *)
(*                                                                         *)
(* A call answers TRUE exactly if it took effect, at one moment between    *)
(* its begin and its answer; a call that answers FALSE changed nothing.    *)
(* When the process dies the call under way has taken effect or not; when  *)
(* the power goes, the scripts are those of an earlier moment, together.   *)
(***************************************************************************)
CONSTANTS Names, Scripts, Nothing

VARIABLES
  script,    \* the script under each name, or Nothing
  onDisk,    \* the scripts a power loss falls back to
  phase,     \* of the call: "idle", "begun", "taken", "done"
  request,   \* the call: what it does, to which name, with which script
  answer,    \* its answer: TRUE or FALSE, and the script it loads
  others     \* toggles when others change the directory

vars == <<script, onDisk, phase, request, answer, others>>

Values == Scripts \union {Nothing}
NoAnswer == [ok |-> FALSE, value |-> Nothing]
Answered(v) == answer' = [ok |-> TRUE, value |-> v]
Requests == [call : {"save"}, name : Names, script : Scripts]
  \union [call : {"load", "remove"}, name : Names, script : {Nothing}]

Init ==
  /\ script = [n \in Names |-> Nothing]
  /\ onDisk = script
  /\ phase = "idle"
  /\ request = Nothing
  /\ answer = NoAnswer
  /\ others = FALSE

Begin ==
  /\ phase = "idle"
  /\ phase' = "begun"
  /\ request' \in Requests
  /\ UNCHANGED <<script, onDisk, answer, others>>

\* The call takes effect.
Save ==
  /\ phase = "begun"
  /\ request.call = "save"
  /\ script' = [script EXCEPT ![request.name] = request.script]
  /\ phase' = "done"
  /\ Answered(Nothing)
  /\ UNCHANGED <<onDisk, request, others>>

Remove ==
  /\ phase = "begun"
  /\ request.call = "remove"
  /\ script[request.name] # Nothing
  /\ script' = [script EXCEPT ![request.name] = Nothing]
  /\ phase' = "done"
  /\ Answered(Nothing)
  /\ UNCHANGED <<onDisk, request, others>>

\* A load takes the script of this moment, and answers it later.
LoadTakes ==
  /\ phase = "begun"
  /\ request.call = "load"
  /\ script[request.name] # Nothing
  /\ phase' = "taken"
  /\ Answered(script[request.name])
  /\ UNCHANGED <<script, onDisk, request, others>>

LoadAnswers ==
  /\ phase = "taken"
  /\ phase' = "done"
  /\ UNCHANGED <<script, onDisk, request, answer, others>>

Fail ==
  /\ phase \in {"begun", "taken"}
  /\ phase' = "done"
  /\ answer' = NoAnswer
  /\ UNCHANGED <<script, onDisk, request, others>>

\* The call has returned, or its process has died.
Over ==
  /\ phase' = "idle"
  /\ request' = Nothing
  /\ answer' = NoAnswer
  /\ UNCHANGED <<script, onDisk, others>>

Keep ==
  /\ onDisk' = script
  /\ UNCHANGED <<script, phase, request, answer, others>>

PowerLoss ==
  /\ script' = onDisk
  /\ phase' = "idle"
  /\ request' = Nothing
  /\ answer' = NoAnswer
  /\ UNCHANGED <<onDisk, others>>

\* Others change the directory too.
Others ==
  /\ \E n \in Names, v \in Values : script' = [script EXCEPT ![n] = v]
  /\ others' = ~others
  /\ UNCHANGED <<onDisk, phase, request, answer>>

Next ==
  \/ Begin
  \/ Save
  \/ Remove
  \/ LoadTakes
  \/ LoadAnswers
  \/ Fail
  \/ Over
  \/ Keep
  \/ PowerLoss
  \/ Others

Spec == Init /\ [][Next]_vars
=============================================================================
