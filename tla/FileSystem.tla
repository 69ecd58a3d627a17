----------------------------- MODULE FileSystem -----------------------------
(***************************************************************************)
(* What ScriptStore.cpp and DylibBuilder.cpp use of the file system.       *)
(*                                                                         *)
(* A file is what open() and mkstemp() return a descriptor of: renaming    *)
(* and unlinking change the directory and leave it alone.  It is written   *)
(* in Chunks calls of write().  `tree' is the directory as the processes   *)
(* see it, `kept' the directory as it is on the disk: the system writes    *)
(* the directory out when it likes, and a file's data when it likes or     *)
(* when fsync() asks.  A process that dies loses nothing of either; a      *)
(* system that goes down falls back to what is on the disk.                *)
(***************************************************************************)
EXTENDS Integers, Sequences

CONSTANTS
  Names,     \* entries the program gives a name to
  Contents,  \* what a file may be meant to hold
  Chunks,    \* bound: calls of write() for one file
  MaxFiles   \* bound: files ever created

ASSUME ChunksAssumption == Chunks \in Nat \ {0}
ASSUME MaxFilesAssumption == MaxFiles \in Nat

Absent == 0

VARIABLES
  files,  \* what each file is meant to hold, and how much of it there is
  tree,   \* the directory: the named entries, and the temporary ones
  kept    \* the directory on the disk

fsVars == <<files, tree, kept>>

FileIds == 1..Len(files)
File == [content : Contents, written : 0..Chunks, durable : 0..Chunks]
Trees == [names : [Names -> Nat], temps : SUBSET Nat]

FileSystemTypeOK ==
  /\ files \in Seq(File)
  /\ tree \in Trees
  /\ kept \in Trees

FileSystemInit ==
  /\ files = <<>>
  /\ tree = [names |-> [n \in Names |-> Absent], temps |-> {}]
  /\ kept = tree

Present(n) == tree.names[n] # Absent

\* A new file, and the number it will have.
NextFile == Len(files) + 1
Created(c, amount) ==
  /\ Len(files) < MaxFiles
  /\ files' = Append(files, [content |-> c, written |-> amount, durable |-> amount])

Mkstemp(c) ==
  /\ Created(c, 0)
  /\ tree' = [tree EXCEPT !.temps = @ \union {NextFile}]
  /\ UNCHANGED kept

Write(i) ==
  /\ files[i].written < Chunks
  /\ files' = [files EXCEPT ![i].written = @ + 1]
  /\ UNCHANGED <<tree, kept>>

Fsync(i) ==
  /\ files' = [files EXCEPT ![i].durable = files[i].written]
  /\ UNCHANGED <<tree, kept>>

\* Another program writes the whole file anew.
Rewrite(i, c) ==
  /\ files' = [files EXCEPT ![i] = [content |-> c, written |-> Chunks, durable |-> 0]]
  /\ UNCHANGED <<tree, kept>>

Rename(i, n) ==
  /\ tree' = [names |-> [tree.names EXCEPT ![n] = i], temps |-> tree.temps \ {i}]
  /\ UNCHANGED <<files, kept>>

UnlinkTemporary(i) ==
  /\ tree' = [tree EXCEPT !.temps = @ \ {i}]
  /\ UNCHANGED <<files, kept>>

Unlink(n) ==
  /\ tree' = [tree EXCEPT !.names[n] = Absent]
  /\ UNCHANGED <<files, kept>>

\* The system writes the directory to the disk.
Flush ==
  /\ kept' = tree
  /\ UNCHANGED <<files, tree>>

\* The power goes: of each file, what the disk did not have yet may be lost.
PowerLoss ==
  /\ tree' = kept
  /\ \E lost \in SUBSET FileIds :
       files' = [i \in FileIds |->
                  IF i \in lost THEN [files[i] EXCEPT !.written = files[i].durable]
                               ELSE [files[i] EXCEPT !.durable = files[i].written]]
  /\ UNCHANGED kept

\* Somebody else, the host application or the user, puts a whole file there.
PutByOthers(n, c) ==
  /\ Created(c, Chunks)
  /\ tree' = [tree EXCEPT !.names[n] = NextFile]
  /\ UNCHANGED kept

\* What a reader of n finds on the disk or in the directory d.
Nothing == [content |-> "nothing", whole |-> TRUE]
FileHolds(i, amount) == [content |-> files[i].content, whole |-> amount = Chunks]
Holds(n) ==
  IF Present(n) THEN FileHolds(tree.names[n], files[tree.names[n]].written) ELSE Nothing
HoldsOnDisk(n) ==
  IF kept.names[n] # Absent
  THEN FileHolds(kept.names[n], files[kept.names[n]].durable) ELSE Nothing
=============================================================================
