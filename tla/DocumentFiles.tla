--------------------------- MODULE DocumentFiles ----------------------------
(***************************************************************************)
(* The two writers of the Documents directory, over one file system that   *)
(* may lose its power.  Both are called by bridge methods on the main      *)
(* thread and neither spins a run loop, so one is under way at a time.     *)
(***************************************************************************)
EXTENDS ScriptStore, DylibBuilder

ASSUME OutputIsNoScript == Output \notin ScriptNames

vars == <<fsVars, storeVars, others, buildVars>>

Init == FileSystemInit /\ StoreInit /\ BuildInit

Kill ==
  /\ ProcessDies
  /\ build' = NoBuild
  /\ UNCHANGED <<fsVars, others, powerLost>>

PowerFails ==
  /\ PowerLoss
  /\ ProcessDies
  /\ build' = NoBuild
  /\ powerLost' = TRUE
  /\ UNCHANGED others

Next ==
  \/ BuildAt("idle") /\ StoreStep /\ UNCHANGED <<others, buildVars>>
  \/ At("idle") /\ BuildStep /\ UNCHANGED <<storeVars, others>>
  \/ OthersStep /\ UNCHANGED buildVars
  \/ Flush /\ UNCHANGED <<storeVars, others, buildVars>>
  \/ Kill
  \/ PowerFails

Spec == Init /\ [][Next]_vars

-----------------------------------------------------------------------------
(* Properties; see also ScriptStore and DylibBuilder.                      *)

\* The output is replaced only by a build that reports Completed, and such a
\* build has replaced it: every other build leaves it as it was, and so does
\* whatever happens to the scripts.
BuildIsAtomic ==
  [][ ~PowerFails =>
        (tree'.names[Output] # tree.names[Output]
           <=> build'.status = "Completed" /\ build.status # "Completed") ]_vars

FilesTypeOK == FileSystemTypeOK /\ StoreTypeOK /\ BuildTypeOK
=============================================================================
