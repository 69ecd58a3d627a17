---------------------------- MODULE DylibBuilder ----------------------------
(***************************************************************************)
(* DylibBuilder.cpp: a customised library is built next to its output,     *)
(* signed there, and renamed over the output.                              *)
(*                                                                         *)
(* Reading and checking the inputs changes nothing and is one step, which  *)
(* may end the build with any of their errors.  The signer is ldid: it     *)
(* writes the file anew, and nobody calls fsync() after it.                *)
(***************************************************************************)
EXTENDS FileSystem

CONSTANTS Output, Unsigned, Signed

ASSUME OutputAssumption == Output \in Names /\ {Unsigned, Signed} \subseteq Contents

VARIABLES
  build,     \* the build under way: its next step, its file, its status
  powerLost  \* history: the power has failed since the output was published

buildVars == <<build, powerLost>>

InputErrors ==
  {"InvalidRequest", "UnableToReadSource", "IconTooLarge", "UnableToReadIcon",
   "InvalidIcon", "UnableToReadMenu", "MenuTooLarge", "InvalidMenu", "TemplateMismatch"}
NoBuild == [at |-> "idle", file |-> Absent, status |-> "None"]

BuildTypeOK ==
  /\ build \in [at : {"idle", "inputs", "write", "fsync", "sign", "rename", "unlink", "done"},
               file : Nat,
               status : InputErrors \union
                 {"None", "UnableToWriteOutput", "SigningFailed", "Completed"}]
  /\ powerLost \in BOOLEAN

BuildInit ==
  /\ build = NoBuild
  /\ powerLost = FALSE

BuildAt(step) == build.at = step
BuildGoes(step) == build' = [build EXCEPT !.at = step]
Discards(status) == build' = [build EXCEPT !.at = "unlink", !.status = status]
Ends(status) == build' = [build EXCEPT !.at = "done", !.status = status]

BuildCall ==
  /\ BuildAt("idle")
  /\ BuildGoes("inputs")
  /\ UNCHANGED <<fsVars, powerLost>>

\* An input cannot be read or is refused, or mkstemp() fails.
BuildRefused ==
  /\ BuildAt("inputs")
  /\ \E status \in InputErrors \union {"UnableToWriteOutput"} : Ends(status)
  /\ UNCHANGED <<fsVars, powerLost>>

BuildCreates ==
  /\ BuildAt("inputs")
  /\ Mkstemp(Unsigned)
  /\ build' = [build EXCEPT !.at = "write", !.file = NextFile]
  /\ UNCHANGED powerLost

BuildWrites ==
  /\ BuildAt("write")
  /\ Write(build.file)
  /\ BuildGoes(IF files'[build.file].written = Chunks THEN "fsync" ELSE "write")
  /\ UNCHANGED powerLost

BuildSyncs ==
  /\ BuildAt("fsync")
  /\ Fsync(build.file)
  /\ BuildGoes("sign")
  /\ UNCHANGED powerLost

\* write(), fsync(), close() or rename() fails.
BuildFailsBug ==
  /\ BuildAt("rename")
  /\ Ends("Completed")
  /\ UNCHANGED <<fsVars, powerLost>>
BuildFails ==
  /\ build.at \in {"write", "fsync", "rename"}
  /\ Discards("UnableToWriteOutput")
  /\ UNCHANGED <<fsVars, powerLost>>

BuildSigns ==
  /\ BuildAt("sign")
  /\ Rewrite(build.file, Signed)
  /\ BuildGoes("rename")
  /\ UNCHANGED powerLost

\* The signer answers FALSE or throws, whatever it has done to the file.
SigningFailsBug ==
  /\ BuildAt("sign")
  /\ BuildGoes("rename")
  /\ UNCHANGED <<fsVars, powerLost>>
SigningFails ==
  /\ BuildAt("sign")
  /\ Rewrite(build.file, Signed) \/ UNCHANGED fsVars
  /\ Discards("SigningFailed")
  /\ UNCHANGED powerLost

BuildDiscards ==
  /\ BuildAt("unlink")
  /\ UnlinkTemporary(build.file) \/ UNCHANGED fsVars
  /\ BuildGoes("done")
  /\ UNCHANGED powerLost

BuildPublishes ==
  /\ BuildAt("rename")
  /\ Rename(build.file, Output)
  /\ Ends("Completed")
  /\ powerLost' = FALSE

BuildReturns ==
  /\ BuildAt("done")
  /\ build' = NoBuild
  /\ UNCHANGED <<fsVars, powerLost>>

BuildStep ==
  \/ BuildCall
  \/ BuildRefused
  \/ BuildCreates
  \/ BuildWrites
  \/ BuildSyncs
  \/ BuildFails
  \/ BuildSigns
  \/ SigningFails
  \/ BuildDiscards
  \/ BuildPublishes
  \/ BuildReturns

-----------------------------------------------------------------------------
(* Properties.                                                             *)

\* The output is never an unsigned or a partial library, whichever step
\* failed and wherever the process died.  A power loss is excepted: what the
\* signer wrote is not synced before it is renamed.
OutputIsSigned ==
  Present(Output) /\ ~powerLost => Holds(Output) = [content |-> Signed, whole |-> TRUE]
=============================================================================
