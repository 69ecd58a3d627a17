---------------------------- MODULE ScriptStore -----------------------------
(***************************************************************************)
(* ScriptStore.cpp: the scripts in the application's Documents directory.  *)
(*                                                                         *)
(* One mutex covers each call from end to end, so at most one is under     *)
(* way: `op' is that call, `op.at' the system call it makes next.  Others  *)
(* put and remove scripts meanwhile: the directory is shared with the      *)
(* user and the host application.  The bytes of a script are abstracted to *)
(* what it is meant to hold and whether all of it is there.                *)
(***************************************************************************)
EXTENDS FileSystem

CONSTANTS ScriptNames, Scripts

ASSUME ScriptsAssumption ==
  ScriptNames \subseteq Names /\ Scripts \subseteq Contents \ {Nothing.content}

VARIABLES
  op,       \* the call that holds the mutex
  scan,     \* list(): entries not read yet, names found, errno; history:
            \* `broken', the directory itself could not be read
  touched,  \* history: names put or removed by others while list() runs
  removed,  \* history: those of them that others removed
  others    \* history: toggles when others put or remove a script

storeVars == <<op, scan, touched, removed>>

NoScan == [left |-> {}, found |-> {}, errno |-> FALSE, broken |-> FALSE]
Idle == [call |-> "none", name |-> "none", script |-> "none", at |-> "idle",
         file |-> Absent, ok |-> FALSE, value |-> Nothing]

StoreTypeOK ==
  /\ op \in [call : {"none", "save", "load", "remove", "list"},
            name : ScriptNames \union {"none"}, script : Scripts \union {"none"},
            at : {"idle", "begun", "write", "fsync", "rename", "unlink", "read",
                  "readdir", "lstat", "done"},
            file : Nat, ok : BOOLEAN,
            value : {Nothing} \union [content : Contents, whole : BOOLEAN]]
  /\ scan \in [left : SUBSET ScriptNames, found : SUBSET ScriptNames,
              errno : BOOLEAN, broken : BOOLEAN]
  /\ touched \subseteq ScriptNames
  /\ removed \subseteq touched
  /\ others \in BOOLEAN

StoreInit ==
  /\ op = Idle
  /\ scan = NoScan
  /\ touched = {}
  /\ removed = {}
  /\ others = FALSE

-----------------------------------------------------------------------------
(* Where the call under way stands.                                        *)

At(step) == op.at = step
Goto(step) == op' = [op EXCEPT !.at = step]
Answers(ok) == op' = [op EXCEPT !.at = "done", !.ok = ok]

\* A call takes the mutex; it may be refused for its name or its content.
Call(call, n, c) ==
  /\ At("idle")
  /\ op' = [Idle EXCEPT !.call = call, !.name = n, !.script = c, !.at = "begun"]
  /\ UNCHANGED <<fsVars, scan, touched, removed>>

SaveCall(n, c) == Call("save", n, c)
LoadCall(n) == Call("load", n, "none")
RemoveCall(n) == Call("remove", n, "none")

\* The script directory, the name or the content is refused, or the system
\* call that begins the work fails.
Refuse ==
  /\ At("begun")
  /\ Answers(FALSE)
  /\ UNCHANGED <<fsVars, scan, touched, removed>>

Return ==
  /\ At("done")
  /\ op' = Idle
  /\ scan' = NoScan
  /\ touched' = {}
  /\ removed' = {}
  /\ UNCHANGED fsVars

-----------------------------------------------------------------------------
(* save().                                                                 *)

SaveCreates ==
  /\ At("begun")
  /\ op.call = "save"
  /\ Mkstemp(op.script)
  /\ op' = [op EXCEPT !.at = "write", !.file = NextFile]
  /\ UNCHANGED <<scan, touched, removed>>

SaveWrites ==
  /\ At("write")
  /\ Write(op.file)
  /\ Goto(IF files'[op.file].written = Chunks THEN "fsync" ELSE "write")
  /\ UNCHANGED <<scan, touched, removed>>

SaveSyncsBug ==
  /\ At("fsync")
  /\ Goto("rename")
  /\ UNCHANGED <<fsVars, scan, touched, removed>>
SaveSyncs ==
  /\ At("fsync")
  /\ Fsync(op.file)
  /\ Goto("rename")
  /\ UNCHANGED <<scan, touched, removed>>

\* write(), fsync(), close() or rename() fails.
SaveFails ==
  /\ op.at \in {"write", "fsync", "rename"}
  /\ Goto("unlink")
  /\ UNCHANGED <<fsVars, scan, touched, removed>>

\* The temporary file is removed, if that does not fail as well.
SaveDiscards ==
  /\ At("unlink")
  /\ UnlinkTemporary(op.file) \/ UNCHANGED fsVars
  /\ Answers(FALSE)
  /\ UNCHANGED <<scan, touched, removed>>

SavePublishes ==
  /\ At("rename")
  /\ Rename(op.file, op.name)
  /\ Answers(TRUE)
  /\ UNCHANGED <<scan, touched, removed>>

-----------------------------------------------------------------------------
(* load() and remove().                                                    *)

\* open() takes hold of the file, whatever becomes of its name.
LoadOpens ==
  /\ At("begun")
  /\ op.call = "load"
  /\ Present(op.name)
  /\ op' = [op EXCEPT !.at = "read", !.file = tree.names[op.name]]
  /\ UNCHANGED <<fsVars, scan, touched, removed>>

LoadReads ==
  /\ At("read")
  /\ op' = [op EXCEPT !.at = "done", !.ok = TRUE,
                      !.value = FileHolds(op.file, files[op.file].written)]
  /\ UNCHANGED <<fsVars, scan, touched, removed>>

LoadFails ==
  /\ At("read")
  /\ Answers(FALSE)
  /\ UNCHANGED <<fsVars, scan, touched, removed>>

RemoveUnlinks ==
  /\ At("begun")
  /\ op.call = "remove"
  /\ Present(op.name)
  /\ Unlink(op.name)
  /\ Answers(TRUE)
  /\ UNCHANGED <<scan, touched, removed>>

-----------------------------------------------------------------------------
(* list().  Entries come and go while it reads: an entry that was there    *)
(* all the time is read once, one that was not may be read or not.         *)

ListOpens ==
  /\ At("idle")
  /\ op' = [Idle EXCEPT !.call = "list", !.at = "readdir"]
  /\ scan' = [NoScan EXCEPT !.left = ScriptNames]
  /\ UNCHANGED <<fsVars, touched, removed>>

\* readdir() returns n, and lstat() looks at it later, or n is passed over.
ListReads(n) ==
  /\ At("readdir")
  /\ n \in scan.left
  /\ scan' = [scan EXCEPT !.left = @ \ {n}]
  /\ \/ /\ Present(n) \/ n \in removed
        /\ op' = [op EXCEPT !.at = "lstat", !.name = n]
     \/ /\ ~Present(n) \/ n \in touched
        /\ UNCHANGED op
  /\ UNCHANGED <<fsVars, touched, removed>>

\* opendir() or readdir() fails.
ListBreaks ==
  /\ At("readdir")
  /\ scan' = [scan EXCEPT !.left = {}, !.errno = TRUE, !.broken = TRUE]
  /\ UNCHANGED <<fsVars, op, touched, removed>>

\* A script that has gone meanwhile is left out, but errno is not cleared.
ListLooksBug ==
  /\ At("lstat")
  /\ IF Present(op.name)
     THEN scan' = [scan EXCEPT !.found = @ \union {op.name}]
     ELSE scan' = [scan EXCEPT !.left = {}]
  /\ op' = [op EXCEPT !.at = "readdir", !.name = "none"]
  /\ UNCHANGED <<fsVars, touched, removed>>
ListLooks ==
  /\ At("lstat")
  /\ scan' = IF Present(op.name)
             THEN [scan EXCEPT !.found = @ \union {op.name}]
             ELSE [scan EXCEPT !.errno = TRUE]
  /\ op' = [op EXCEPT !.at = "readdir", !.name = "none"]
  /\ UNCHANGED <<fsVars, touched, removed>>

\* At the end of the directory errno decides whether reading it failed.
ListEnds ==
  /\ At("readdir")
  /\ scan.left = {}
  /\ Answers(~scan.errno)
  /\ scan' = IF scan.errno THEN [scan EXCEPT !.found = {}] ELSE scan
  /\ UNCHANGED <<fsVars, touched, removed>>

-----------------------------------------------------------------------------
(* Others.                                                                 *)

\* What a listing under way has to reckon with.
Noted(S, n) == IF op.call = "list" THEN S \union {n} ELSE S

OthersPut(n, c) ==
  /\ PutByOthers(n, c)
  /\ touched' = Noted(touched, n)
  /\ UNCHANGED <<op, scan, removed>>

OthersRemove(n) ==
  /\ Present(n)
  /\ Unlink(n)
  /\ touched' = Noted(touched, n)
  /\ removed' = Noted(removed, n)
  /\ UNCHANGED <<op, scan>>

\* The process dies and is started again.
ProcessDies == op' = Idle /\ scan' = NoScan /\ touched' = {} /\ removed' = {}

StoreStep ==
  \/ \E n \in ScriptNames, c \in Scripts : SaveCall(n, c)
  \/ \E n \in ScriptNames :
       \/ LoadCall(n)
       \/ RemoveCall(n)
       \/ ListReads(n)
  \/ Refuse
  \/ Return
  \/ SaveCreates
  \/ SaveWrites
  \/ SaveSyncs
  \/ SaveFails
  \/ SaveDiscards
  \/ SavePublishes
  \/ LoadOpens
  \/ LoadReads
  \/ LoadFails
  \/ RemoveUnlinks
  \/ ListOpens
  \/ ListBreaks
  \/ ListLooks
  \/ ListEnds

OthersStep ==
  /\ \E n \in ScriptNames :
       \/ \E c \in Scripts : OthersPut(n, c)
       \/ OthersRemove(n)
  /\ others' = ~others

-----------------------------------------------------------------------------
(* Properties.                                                             *)

\* What is listed is what was there: a script nobody else touched meanwhile
\* is listed exactly if it exists, and a listing of a directory that can be
\* read fails only if somebody removed a script under it: to add or to replace
\* one does not make it fail.
ListingIsTrue ==
  op.call = "list" /\ At("done") =>
    IF op.ok THEN \A n \in ScriptNames \ touched : n \in scan.found <=> Present(n)
             ELSE scan.broken \/ removed # {}

\* What the abstract specification sees of the store.
ScriptsNow == [n \in ScriptNames |-> Holds(n)]
ScriptsOnDisk == [n \in ScriptNames |-> HoldsOnDisk(n)]
WholeScript(c) == [content |-> c, whole |-> TRUE]
Opened == FileHolds(op.file, files[op.file].written)
Phase ==
  CASE op.call = "list" -> "idle"
    [] op.call # "list" /\ op.at \in {"idle", "begun", "done"} -> op.at
    [] op.call # "list" /\ At("read") -> "taken"
    [] OTHER -> "begun"
Request ==
  CASE op.call \in {"none", "list"} -> Nothing
    [] op.call = "save" -> [call |-> "save", name |-> op.name, script |-> WholeScript(op.script)]
    [] OTHER -> [call |-> op.call, name |-> op.name, script |-> Nothing]
Result ==
  CASE op.call # "list" /\ At("read") -> [ok |-> TRUE, value |-> Opened]
    [] op.call # "list" /\ At("done") /\ op.ok -> [ok |-> TRUE, value |-> op.value]
    [] OTHER -> [ok |-> FALSE, value |-> Nothing]

\* Each name is an atomic register that survives crashes of the process and
\* of the system.
Registers == INSTANCE AtomicScripts
  WITH Names <- ScriptNames,
       Scripts <- {WholeScript(c) : c \in Scripts},
       script <- ScriptsNow,
       onDisk <- ScriptsOnDisk,
       phase <- Phase,
       request <- Request,
       answer <- Result

AtomicSpec == Registers!Spec
=============================================================================
