------------------------ MODULE DocumentFilesProofs -------------------------
(***************************************************************************)
(* Proofs about DocumentFiles, for any names, scripts and numbers of       *)
(* writes and of files.                                                    *)
(*                                                                         *)
(* That a name always holds a whole script, before and after a power loss, *)
(* is not inductive: it depends on the file of a save having no name, in   *)
(* the directory or on the disk, until all of it is written and synced,    *)
(* and on the signer writing to a file without a name.  FilesInv says so.  *)
(***************************************************************************)
EXTENDS DocumentFiles, TLAPS

\* Names in either directory belong to files.
DirectoryInv ==
  \A n \in Names : tree.names[n] \in 0..Len(files) /\ kept.names[n] \in 0..Len(files)

\* File i is a whole script, on the disk too.
IsScript(i) ==
  /\ i \in FileIds
  /\ files[i].content \in Scripts
  /\ files[i].written = Chunks
  /\ files[i].durable = Chunks

ScriptsInv ==
  \A n \in ScriptNames :
    /\ tree.names[n] # Absent => IsScript(tree.names[n])
    /\ kept.names[n] # Absent => IsScript(kept.names[n])

Unnamed(i) ==
  /\ i \in FileIds
  /\ \A n \in Names : tree.names[n] # i /\ kept.names[n] # i

\* The call of the script store, by the step it is at.
CallInv ==
  /\ op.at = "idle" => op.call = "none"
  /\ op.call = "none" => op.at = "idle"
  /\ op.call \in {"save", "load", "remove"} => op.name \in ScriptNames
  /\ op.call = "save" => op.script \in Scripts
  /\ op.at = "begun" => op.call \in {"save", "load", "remove"}
  /\ op.at \in {"write", "fsync", "rename", "unlink"} =>
       op.call = "save" /\ Unnamed(op.file) /\ files[op.file].content = op.script
  /\ op.at \in {"fsync", "rename"} => files[op.file].written = Chunks
  /\ op.at = "rename" => files[op.file].durable = Chunks
  /\ op.at = "read" => op.call = "load" /\ IsScript(op.file)
  /\ op.at \in {"readdir", "lstat"} => op.call = "list"
  /\ op.at = "lstat" => op.name \in ScriptNames
  /\ op.at = "done" /\ op.ok /\ op.call \in {"save", "remove"} => op.value = Nothing
  /\ op.at \in {"begun", "write", "fsync", "rename"} => op.value = Nothing

\* The build, and the library it has published last.
LibraryInv ==
  /\ build.at = "idle" \/ op.at = "idle"
  /\ build.status = "Completed" => build.at = "done"
  /\ build.at \in {"write", "fsync", "sign", "rename", "unlink"} => Unnamed(build.file)
  /\ build.at = "rename" =>
       files[build.file].content = Signed /\ files[build.file].written = Chunks
  /\ tree.names[Output] # Absent /\ ~powerLost =>
       /\ files[tree.names[Output]].content = Signed
       /\ files[tree.names[Output]].written = Chunks

FilesInv == FilesTypeOK /\ DirectoryInv /\ ScriptsInv /\ CallInv /\ LibraryInv

-----------------------------------------------------------------------------
(* Types.                                                                  *)

\* A file is appended to the sequence of files, or one of them is replaced.
LEMMA FilesTypes ==
  ASSUME FileSystemTypeOK, NEW f \in File
  PROVE  /\ Append(files, f) \in Seq(File)
         /\ Len(Append(files, f)) = Len(files) + 1
         /\ Append(files, f)[NextFile] = f
         /\ \A i \in FileIds : Append(files, f)[i] = files[i]
         /\ \A i \in FileIds : [files EXCEPT ![i] = f] \in Seq(File)
         /\ \A i \in FileIds : Len([files EXCEPT ![i] = f]) = Len(files)
         /\ \A i \in FileIds : [files EXCEPT ![i] = f][i] = f
         /\ \A i, j \in FileIds : i # j => [files EXCEPT ![i] = f][j] = files[j]
  BY DEF FileSystemTypeOK, NextFile, FileIds

LEMMA FileTypes ==
  ASSUME FileSystemTypeOK, NEW i \in FileIds
  PROVE  files[i] \in File
  BY DEF FileSystemTypeOK, FileIds

LEMMA FileSystemTypes ==
  ASSUME FileSystemTypeOK,
         \/ \E c \in Contents : Mkstemp(c)
         \/ \E i \in FileIds : Write(i) \/ Fsync(i)
         \/ \E i \in FileIds, c \in Contents : Rewrite(i, c)
         \/ \E i \in FileIds, n \in Names : Rename(i, n)
         \/ \E i \in FileIds : UnlinkTemporary(i)
         \/ \E n \in Names : Unlink(n)
         \/ Flush
         \/ PowerLoss
         \/ \E n \in Names, c \in Contents : PutByOthers(n, c)
         \/ UNCHANGED fsVars
  PROVE  FileSystemTypeOK'
<1> USE ChunksAssumption, MaxFilesAssumption DEF FileSystemTypeOK, FileIds
<1>1. ASSUME NEW c \in Contents, Mkstemp(c) PROVE FileSystemTypeOK'
  <2>1. [content |-> c, written |-> 0, durable |-> 0] \in File
    BY DEF File
  <2>2. files' \in Seq(File)
    BY <1>1, <2>1, FilesTypes DEF Mkstemp, Created
  <2>3. NextFile \in Nat
    BY DEF NextFile
  <2>4. tree' \in Trees
    BY <1>1, <2>3 DEF Mkstemp, Trees
  <2> QED
    BY <1>1, <2>2, <2>4 DEF Mkstemp
<1>2. ASSUME NEW i \in FileIds, Write(i) PROVE FileSystemTypeOK'
  <2>0. files[i] \in File /\ files[i].written < Chunks
    BY <1>2, FileTypes DEF Write
  <2>3. files[i].written + 1 \in 0..Chunks
    <3>1. files[i].written \in 0..Chunks /\ files[i].written < Chunks
      BY <2>0 DEF File
    <3> QED
      BY <3>1
  <2>1. [files[i] EXCEPT !.written = @ + 1] \in File
    BY <2>0, <2>3 DEF File
  <2> QED
    BY <1>2, <2>1, FilesTypes DEF Write
<1>3. ASSUME NEW i \in FileIds, Fsync(i) PROVE FileSystemTypeOK'
  <2>1. [files[i] EXCEPT !.durable = files[i].written] \in File
    BY FileTypes DEF File
  <2> QED
    BY <1>3, <2>1, FilesTypes DEF Fsync
<1>4. ASSUME NEW i \in FileIds, NEW c \in Contents, Rewrite(i, c) PROVE FileSystemTypeOK'
  <2>1. [content |-> c, written |-> Chunks, durable |-> 0] \in File
    BY DEF File
  <2> QED
    BY <1>4, <2>1, FilesTypes DEF Rewrite
<1>5. ASSUME NEW i \in FileIds, NEW n \in Names, Rename(i, n) PROVE FileSystemTypeOK'
  BY <1>5 DEF Rename, Trees
<1>6. ASSUME NEW i \in FileIds, UnlinkTemporary(i) PROVE FileSystemTypeOK'
  BY <1>6 DEF UnlinkTemporary, Trees
<1>7. ASSUME NEW n \in Names, Unlink(n) PROVE FileSystemTypeOK'
  BY <1>7 DEF Unlink, Trees, Absent
<1>8. CASE Flush
  BY <1>8 DEF Flush
<1>9. CASE PowerLoss
  <2>1. PICK lost \in SUBSET FileIds :
          files' = [i \in FileIds |->
            IF i \in lost THEN [files[i] EXCEPT !.written = files[i].durable]
                         ELSE [files[i] EXCEPT !.durable = files[i].written]]
    BY <1>9 DEF PowerLoss
  <2>2. \A i \in FileIds :
          /\ [files[i] EXCEPT !.written = files[i].durable] \in File
          /\ [files[i] EXCEPT !.durable = files[i].written] \in File
    BY FileTypes DEF File
  <2>3. files' \in [1..Len(files) -> File]
    BY <2>1, <2>2
  <2>4. Len(files) \in Nat
    OBVIOUS
  <2>5. files' \in Seq(File)
    BY <2>3, <2>4
  <2> QED
    BY <1>9, <2>5 DEF PowerLoss
<1>10. ASSUME NEW n \in Names, NEW c \in Contents, PutByOthers(n, c) PROVE FileSystemTypeOK'
  <2>1. [content |-> c, written |-> Chunks, durable |-> Chunks] \in File
    BY DEF File
  <2>2. files' \in Seq(File)
    BY <1>10, <2>1, FilesTypes DEF PutByOthers, Created
  <2>3. NextFile \in Nat
    BY DEF NextFile
  <2>4. tree' \in Trees
    BY <1>10, <2>3 DEF PutByOthers, Trees
  <2> QED
    BY <1>10, <2>2, <2>4 DEF PutByOthers
<1>11. CASE UNCHANGED fsVars
  BY <1>11 DEF fsVars
<1> QED
  BY <1>1, <1>2, <1>3, <1>4, <1>5, <1>6, <1>7, <1>8, <1>9, <1>10, <1>11

LEMMA StoreTypes ==
  ASSUME FilesInv, StoreStep, UNCHANGED others
  PROVE  StoreTypeOK'
<1> USE DEF StoreTypeOK, Goto, Answers, Absent, At
<1>0. StoreTypeOK /\ FileSystemTypeOK
  BY DEF FilesInv, FilesTypeOK
<1>1. ASSUME NEW n \in ScriptNames, NEW c \in Scripts, SaveCall(n, c) PROVE StoreTypeOK'
  BY <1>0, <1>1 DEF SaveCall, Call, Idle
<1>2. ASSUME NEW n \in ScriptNames, LoadCall(n) PROVE StoreTypeOK'
  BY <1>0, <1>2 DEF LoadCall, Call, Idle
<1>3. ASSUME NEW n \in ScriptNames, RemoveCall(n) PROVE StoreTypeOK'
  BY <1>0, <1>3 DEF RemoveCall, Call, Idle
<1>4. ASSUME NEW n \in ScriptNames, ListReads(n) PROVE StoreTypeOK'
  BY <1>0, <1>4 DEF ListReads
<1>5. ASSUME Refuse PROVE StoreTypeOK'
  BY <1>0, <1>5 DEF Refuse
<1>6. ASSUME Return PROVE StoreTypeOK'
  BY <1>0, <1>6 DEF Return, Idle, NoScan
<1>7. ASSUME SaveCreates PROVE StoreTypeOK'
  <2>1. NextFile \in Nat
    BY <1>0 DEF FileSystemTypeOK, NextFile
  <2> QED
    BY <1>0, <1>7, <2>1 DEF SaveCreates
<1>8. ASSUME SaveWrites PROVE StoreTypeOK'
  BY <1>0, <1>8 DEF SaveWrites
<1>9. ASSUME SaveSyncs PROVE StoreTypeOK'
  BY <1>0, <1>9 DEF SaveSyncs
<1>10. ASSUME SaveFails PROVE StoreTypeOK'
  BY <1>0, <1>10 DEF SaveFails
<1>11. ASSUME SaveDiscards PROVE StoreTypeOK'
  BY <1>0, <1>11 DEF SaveDiscards
<1>12. ASSUME SavePublishes PROVE StoreTypeOK'
  BY <1>0, <1>12 DEF SavePublishes
<1>13. ASSUME LoadOpens PROVE StoreTypeOK'
  <2>1. tree.names[op.name] \in Nat
    BY <1>13, ScriptsAssumption DEF LoadOpens, FilesInv, FilesTypeOK, FileSystemTypeOK, CallInv, DirectoryInv
  <2> QED
    BY <1>0, <1>13, <2>1 DEF LoadOpens
<1>14. ASSUME LoadReads PROVE StoreTypeOK'
  <2>1. files[op.file].content \in Contents
    BY <1>14, ScriptsAssumption DEF LoadReads, FilesInv, CallInv, IsScript
  <2>2. (files[op.file].written = Chunks) \in BOOLEAN
    OBVIOUS
  <2>3. FileHolds(op.file, files[op.file].written) \in [content : Contents, whole : BOOLEAN]
    BY <2>1, <2>2, Zenon DEF FileHolds
  <2> QED
    BY <1>0, <1>14, <2>3 DEF LoadReads
<1>15. ASSUME LoadFails PROVE StoreTypeOK'
  BY <1>0, <1>15 DEF LoadFails
<1>16. ASSUME RemoveUnlinks PROVE StoreTypeOK'
  BY <1>0, <1>16 DEF RemoveUnlinks
<1>17. ASSUME ListOpens PROVE StoreTypeOK'
  BY <1>0, <1>17 DEF ListOpens, Idle, NoScan
<1>18. ASSUME ListBreaks PROVE StoreTypeOK'
  BY <1>0, <1>18 DEF ListBreaks
<1>19. ASSUME ListLooks PROVE StoreTypeOK'
  <2>1. op.name \in ScriptNames
    BY <1>19 DEF ListLooks, FilesInv, CallInv
  <2> QED
    BY <1>0, <1>19, <2>1 DEF ListLooks
<1>20. ASSUME ListEnds PROVE StoreTypeOK'
  BY <1>0, <1>20 DEF ListEnds
<1> QED
  BY <1>1, <1>2, <1>3, <1>4, <1>5, <1>6, <1>7, <1>8, <1>9, <1>10, <1>11, <1>12, <1>13, <1>14, <1>15, <1>16, <1>17, <1>18, <1>19, <1>20 DEF StoreStep

LEMMA BuildTypes ==
  ASSUME FilesInv, BuildStep
  PROVE  BuildTypeOK'
<1> USE DEF BuildTypeOK, BuildAt, BuildGoes, Discards, Ends, Absent
<1>0. BuildTypeOK /\ NextFile \in Nat
  BY DEF FilesInv, FilesTypeOK, FileSystemTypeOK, NextFile
<1>1. CASE BuildCall
  BY <1>0, <1>1 DEF BuildCall
<1>2. CASE BuildRefused
  BY <1>0, <1>2 DEF BuildRefused, InputErrors
<1>3. CASE BuildCreates
  BY <1>0, <1>3 DEF BuildCreates
<1>4. CASE BuildWrites
  BY <1>0, <1>4 DEF BuildWrites
<1>5. CASE BuildSyncs
  BY <1>0, <1>5 DEF BuildSyncs
<1>6. CASE BuildFails
  BY <1>0, <1>6 DEF BuildFails
<1>7. CASE BuildSigns
  BY <1>0, <1>7 DEF BuildSigns
<1>8. CASE SigningFails
  BY <1>0, <1>8 DEF SigningFails
<1>9. CASE BuildDiscards
  BY <1>0, <1>9 DEF BuildDiscards
<1>10. CASE BuildPublishes
  BY <1>0, <1>10 DEF BuildPublishes
<1>11. CASE BuildReturns
  BY <1>0, <1>11 DEF BuildReturns, NoBuild
<1> QED
  BY <1>1, <1>2, <1>3, <1>4, <1>5, <1>6, <1>7, <1>8, <1>9, <1>10, <1>11 DEF BuildStep

-----------------------------------------------------------------------------
(* What the operations of the file system leave alone.                     *)

\* A file without a name may be written: no script and no library changes.
LEMMA UnnamedWritten ==
  ASSUME FilesInv, NEW i, Unnamed(i),
         Write(i) \/ Fsync(i) \/ \E c \in Contents : Rewrite(i, c)
  PROVE  /\ FileSystemTypeOK' /\ DirectoryInv' /\ ScriptsInv' /\ Unnamed(i)'
         /\ Len(files') = Len(files)
         /\ \A j \in FileIds \ {i} : files'[j] = files[j]
         /\ UNCHANGED <<tree, kept>>
<1>0. FileSystemTypeOK /\ i \in FileIds
  BY DEF FilesInv, FilesTypeOK, Unnamed
<1>1. FileSystemTypeOK'
  BY <1>0, FileSystemTypes
<1>2. /\ Len(files') = Len(files)
      /\ \A j \in FileIds \ {i} : files'[j] = files[j]
      /\ UNCHANGED <<tree, kept>>
  BY <1>0 DEF FileSystemTypeOK, FileIds, Write, Fsync, Rewrite
<1>3. DirectoryInv' /\ Unnamed(i)'
  BY <1>2 DEF FilesInv, DirectoryInv, Unnamed, FileIds
<1>4. \A j \in FileIds \ {i} : IsScript(j) => IsScript(j)'
  BY <1>2 DEF IsScript, FileIds
<1>5. ScriptsInv'
  BY <1>2, <1>4, ScriptsAssumption DEF FilesInv, ScriptsInv, Unnamed, IsScript
<1> QED
  BY <1>1, <1>2, <1>3, <1>5

\* So may a file be added.
LEMMA FileAdded ==
  ASSUME FilesInv, NEW c \in Contents, NEW amount \in 0..Chunks, Created(c, amount),
         UNCHANGED kept
  PROVE  /\ Len(files') = NextFile
         /\ files'[NextFile] = [content |-> c, written |-> amount, durable |-> amount]
         /\ \A j \in FileIds : files'[j] = files[j] /\ (IsScript(j) => IsScript(j)')
         /\ UNCHANGED tree.names => DirectoryInv' /\ ScriptsInv' /\ Unnamed(Len(files))'
<1> DEFINE f == [content |-> c, written |-> amount, durable |-> amount]
<1>0. FileSystemTypeOK
  BY DEF FilesInv, FilesTypeOK
<1>1. f \in File
  BY DEF File
<1>2. /\ Len(files') = NextFile
      /\ files'[NextFile] = f
      /\ \A j \in FileIds : files'[j] = files[j]
  BY <1>0, <1>1, FilesTypes DEF Created, NextFile
<1>3. \A j \in FileIds : IsScript(j) => IsScript(j)'
  BY <1>0, <1>2 DEF IsScript, FileIds, NextFile, FileSystemTypeOK
<1>4. ASSUME UNCHANGED tree.names
      PROVE  DirectoryInv' /\ ScriptsInv' /\ Unnamed(Len(files))'
  <2>1. DirectoryInv'
    BY <1>0, <1>2, <1>4 DEF FilesInv, DirectoryInv, NextFile, FileSystemTypeOK
  <2>2. ScriptsInv'
    BY <1>3, <1>4 DEF FilesInv, ScriptsInv, IsScript
  <2>3. Unnamed(Len(files))'
    BY <1>0, <1>2, <1>4 DEF FilesInv, DirectoryInv, Unnamed, FileIds, NextFile, FileSystemTypeOK
  <2> QED
    BY <2>1, <2>2, <2>3
<1> QED
  BY <1>2, <1>3, <1>4

\* Names go to whole scripts, or away.
LEMMA NamesChanged ==
  ASSUME FilesInv, NEW n \in ScriptNames, NEW i \in 0..Len(files), i # Absent => IsScript(i),
         tree'.names = [tree.names EXCEPT ![n] = i], UNCHANGED <<files, kept>>
  PROVE  /\ DirectoryInv' /\ ScriptsInv'
         /\ tree'.names[Output] = tree.names[Output]
<1>0. tree \in Trees /\ n \in Names /\ Output \in Names /\ Output # n
  BY ScriptsAssumption, OutputAssumption, OutputIsNoScript
     DEF FilesInv, FilesTypeOK, FileSystemTypeOK
<1>1. \A m \in Names : tree'.names[m] = IF m = n THEN i ELSE tree.names[m]
  BY <1>0 DEF Trees
<1>2. \A j : IsScript(j) => IsScript(j)'
  BY DEF IsScript, FileIds
<1>3. DirectoryInv'
  BY <1>1 DEF FilesInv, DirectoryInv
<1>4. ScriptsInv'
  BY <1>1, <1>2, ScriptsAssumption DEF FilesInv, ScriptsInv
<1> QED
  BY <1>0, <1>1, <1>3, <1>4

\* What is on the disk is still whole when the power has gone.
LEMMA PowerLossKeepsScripts ==
  ASSUME FilesInv, PowerLoss
  PROVE  DirectoryInv' /\ ScriptsInv'
<1>0. FileSystemTypeOK
  BY DEF FilesInv, FilesTypeOK
<1>1. Len(files') = Len(files)
  BY <1>0 DEF PowerLoss, FileSystemTypeOK, FileIds
<1>2. ASSUME NEW i \in FileIds, IsScript(i)
      PROVE  IsScript(i)'
  <2>1. files[i] \in File
    BY <1>0, FileTypes
  <2>2. \/ files'[i] = [files[i] EXCEPT !.written = files[i].durable]
        \/ files'[i] = [files[i] EXCEPT !.durable = files[i].written]
    BY DEF PowerLoss
  <2> QED
    BY <1>1, <1>2, <2>1, <2>2 DEF IsScript, FileIds, File
<1>3. DirectoryInv'
  BY <1>1 DEF PowerLoss, FilesInv, DirectoryInv
<1>4. ScriptsInv'
  BY <1>2 DEF PowerLoss, FilesInv, ScriptsInv, IsScript
<1> QED
  BY <1>3, <1>4

-----------------------------------------------------------------------------
(* The invariant.                                                          *)

\* The steps of a call that change no file.
LEMMA QuietStep ==
  ASSUME FilesInv, UNCHANGED fsVars,
         \/ \E n \in ScriptNames :
              \/ \E c \in Scripts : SaveCall(n, c)
              \/ LoadCall(n) \/ RemoveCall(n) \/ ListReads(n)
         \/ Refuse \/ Return \/ SaveFails \/ LoadOpens \/ LoadReads \/ LoadFails
         \/ ListOpens \/ ListBreaks \/ ListLooks \/ ListEnds
  PROVE  CallInv'
<1> USE DEF CallInv, Goto, Answers, At
<1>0. op \in [call : {"none", "save", "load", "remove", "list"},
            name : ScriptNames \union {"none"}, script : Scripts \union {"none"},
            at : {"idle", "begun", "write", "fsync", "rename", "unlink", "read",
                  "readdir", "lstat", "done"},
            file : Nat, ok : BOOLEAN,
            value : {Nothing} \union [content : Contents, whole : BOOLEAN]]
      /\ CallInv
  BY DEF FilesInv, FilesTypeOK, StoreTypeOK
<1>a. files' = files /\ tree' = tree /\ kept' = kept
  BY DEF fsVars
<1>1. ASSUME NEW n \in ScriptNames, NEW c \in Scripts, SaveCall(n, c) PROVE CallInv'
  BY <1>0, <1>a, <1>1 DEF SaveCall, Call, Idle, Unnamed, IsScript, FileIds
<1>2. ASSUME NEW n \in ScriptNames, LoadCall(n) PROVE CallInv'
  BY <1>0, <1>a, <1>2 DEF LoadCall, Call, Idle, Unnamed, IsScript, FileIds
<1>3. ASSUME NEW n \in ScriptNames, RemoveCall(n) PROVE CallInv'
  BY <1>0, <1>a, <1>3 DEF RemoveCall, Call, Idle, Unnamed, IsScript, FileIds
<1>4. ASSUME NEW n \in ScriptNames, ListReads(n) PROVE CallInv'
  BY <1>0, <1>a, <1>4 DEF ListReads, Unnamed, IsScript, FileIds
<1>5. ASSUME Refuse PROVE CallInv'
  BY <1>0, <1>a, <1>5 DEF Refuse, Unnamed, IsScript, FileIds
<1>6. ASSUME Return PROVE CallInv'
  BY <1>0, <1>a, <1>6 DEF Return, Idle, Unnamed, IsScript, FileIds
<1>7. ASSUME SaveFails PROVE CallInv'
  BY <1>0, <1>a, <1>7 DEF SaveFails, Unnamed, IsScript, FileIds
<1>8. ASSUME LoadOpens PROVE CallInv'
  BY <1>0, <1>a, <1>8 DEF LoadOpens, Present, FilesInv, ScriptsInv, Unnamed, IsScript, FileIds
<1>9. ASSUME LoadReads PROVE CallInv'
  BY <1>0, <1>a, <1>9 DEF LoadReads, Unnamed, IsScript, FileIds
<1>10. ASSUME LoadFails PROVE CallInv'
  BY <1>0, <1>a, <1>10 DEF LoadFails, Unnamed, IsScript, FileIds
<1>11. ASSUME ListOpens PROVE CallInv'
  BY <1>0, <1>a, <1>11 DEF ListOpens, Idle, Unnamed, IsScript, FileIds
<1>12. ASSUME ListBreaks PROVE CallInv'
  BY <1>0, <1>a, <1>12 DEF ListBreaks, Unnamed, IsScript, FileIds
<1>13. ASSUME ListLooks PROVE CallInv'
  BY <1>0, <1>a, <1>13 DEF ListLooks, Unnamed, IsScript, FileIds
<1>14. ASSUME ListEnds PROVE CallInv'
  BY <1>0, <1>a, <1>14 DEF ListEnds, Unnamed, IsScript, FileIds
<1> QED
  BY <1>1, <1>2, <1>3, <1>4, <1>5, <1>6, <1>7, <1>8, <1>9, <1>10, <1>11, <1>12, <1>13, <1>14

LEMMA StoreStepInv ==
  ASSUME FilesInv, BuildAt("idle"), StoreStep, UNCHANGED <<others, buildVars>>
  PROVE  FilesInv' /\ tree'.names[Output] = tree.names[Output]
<1>0. /\ FileSystemTypeOK /\ StoreTypeOK /\ BuildTypeOK /\ CallInv /\ LibraryInv
      /\ StoreTypeOK' /\ build' = build /\ powerLost' = powerLost /\ BuildTypeOK'
  BY StoreTypes DEF FilesInv, FilesTypeOK, BuildTypeOK, buildVars
<1>1. SUFFICES /\ FileSystemTypeOK' /\ DirectoryInv' /\ ScriptsInv' /\ CallInv'
               /\ tree'.names[Output] = tree.names[Output]
               /\ tree.names[Output] # Absent =>
                    files'[tree.names[Output]] = files[tree.names[Output]]
  BY <1>0, <1>1 DEF FilesInv, FilesTypeOK, LibraryInv, BuildAt
<1>2. tree.names[Output] # Absent => tree.names[Output] \in FileIds
  BY <1>0, OutputAssumption DEF FilesInv, DirectoryInv, FileSystemTypeOK, FileIds, Absent
<1>3. ASSUME UNCHANGED fsVars
      PROVE  /\ FileSystemTypeOK' /\ DirectoryInv' /\ ScriptsInv'
             /\ tree' = tree /\ files' = files
  BY <1>3 DEF fsVars, FilesInv, FilesTypeOK, FileSystemTypeOK, DirectoryInv, ScriptsInv, IsScript, FileIds
<1>4. CASE SaveCreates
  <2>1. op.script \in Scripts /\ op.script \in Contents /\ 0 \in 0..Chunks
    BY <1>0, <1>4, ScriptsAssumption, ChunksAssumption DEF SaveCreates, CallInv
  <2>2. Mkstemp(op.script) /\ Created(op.script, 0) /\ UNCHANGED <<tree.names, kept>>
    BY <1>0, <1>4 DEF SaveCreates, Mkstemp, FileSystemTypeOK, Trees
  <2>3. FileSystemTypeOK'
    BY <1>0, <2>1, <2>2, FileSystemTypes
  <2>4. DirectoryInv' /\ ScriptsInv' /\ Unnamed(Len(files))'
    BY <2>1, <2>2, FileAdded
  <2>5. op'.file = Len(files') /\ files'[op'.file].content = op.script
    <3>1. op'.file = NextFile
      BY <1>0, <1>4 DEF SaveCreates, StoreTypeOK
    <3>2. /\ Len(files') = NextFile
          /\ files'[NextFile] = [content |-> op.script, written |-> 0, durable |-> 0]
      BY <2>1, <2>2, FileAdded
    <3> QED
      BY <3>1, <3>2
  <2>6. CallInv'
    BY <1>0, <1>4, <2>1, <2>4, <2>5 DEF SaveCreates, StoreTypeOK, CallInv, Unnamed, At
  <2> QED
    BY <1>2, <2>1, <2>2, <2>3, <2>4, <2>6, FileAdded
<1>5. CASE SaveWrites \/ SaveSyncs
  <2>1. Unnamed(op.file) /\ (Write(op.file) \/ Fsync(op.file)) /\ op'.file = op.file
    BY <1>0, <1>5 DEF SaveWrites, SaveSyncs, CallInv, StoreTypeOK, At, Goto
  <2>2. /\ FileSystemTypeOK' /\ DirectoryInv' /\ ScriptsInv'
        /\ Len(files') = Len(files)
        /\ \A j \in FileIds \ {op.file} : files'[j] = files[j]
        /\ UNCHANGED <<tree, kept>>
    BY <2>1, UnnamedWritten
  <2>3. /\ files[op.file] \in File /\ op.file \in FileIds
        /\ files'[op.file].content = files[op.file].content
        /\ SaveSyncs => files'[op.file].written = files[op.file].written
                        /\ files'[op.file].durable = files[op.file].written
    BY <1>0, <1>5, <2>1, FileTypes
       DEF Unnamed, Write, Fsync, SaveSyncs, FileSystemTypeOK, FileIds, File
  <2>4. CallInv'
    BY <1>0, <1>5, <2>1, <2>2, <2>3
       DEF SaveWrites, SaveSyncs, CallInv, StoreTypeOK, At, Goto, Unnamed, FileIds
  <2> QED
    BY <1>2, <2>1, <2>2, <2>4, OutputAssumption DEF Unnamed
<1>6. CASE SaveDiscards
  <2>1. files' = files /\ kept' = kept /\ tree'.names = tree.names
    BY <1>0, <1>6 DEF SaveDiscards, UnlinkTemporary, fsVars, FileSystemTypeOK, Trees
  <2>2. FileSystemTypeOK'
    BY <1>0, <1>6, FileSystemTypes DEF SaveDiscards, CallInv, Unnamed, At
  <2>3. DirectoryInv' /\ ScriptsInv'
    BY <2>1 DEF FilesInv, DirectoryInv, ScriptsInv, IsScript, FileIds
  <2>4. CallInv'
    BY <1>0, <1>6, <2>1 DEF SaveDiscards, CallInv, StoreTypeOK, At, Answers
  <2> QED
    BY <2>1, <2>2, <2>3, <2>4
<1>7. CASE SavePublishes
  <2>1. op.name \in ScriptNames /\ Unnamed(op.file) /\ IsScript(op.file)
    BY <1>0, <1>7 DEF SavePublishes, CallInv, IsScript, Unnamed, At
  <2>2. /\ Rename(op.file, op.name) /\ files' = files /\ kept' = kept
        /\ tree'.names = [tree.names EXCEPT ![op.name] = op.file]
        /\ op.file \in 0..Len(files)
    BY <1>0, <1>7, <2>1 DEF SavePublishes, Rename, Unnamed, FileIds, FileSystemTypeOK
  <2>3. FileSystemTypeOK'
    BY <1>0, <2>1, <2>2, ScriptsAssumption, FileSystemTypes DEF Unnamed
  <2>4. DirectoryInv' /\ ScriptsInv' /\ tree'.names[Output] = tree.names[Output]
    BY <2>1, <2>2, NamesChanged
  <2>5. CallInv'
    BY <1>0, <1>7 DEF SavePublishes, CallInv, StoreTypeOK, At, Answers
  <2> QED
    BY <2>2, <2>3, <2>4, <2>5
<1>8. CASE RemoveUnlinks
  <2>1. op.name \in ScriptNames /\ op.name \in Names
    BY <1>0, <1>8, ScriptsAssumption DEF RemoveUnlinks, CallInv
  <2>2. /\ Unlink(op.name) /\ files' = files /\ kept' = kept
        /\ tree'.names = [tree.names EXCEPT ![op.name] = Absent]
        /\ Absent \in 0..Len(files)
    BY <1>0, <1>8, <2>1 DEF RemoveUnlinks, Unlink, Absent, FileSystemTypeOK, Trees
  <2>3. FileSystemTypeOK'
    BY <1>0, <2>1, <2>2, FileSystemTypes
  <2>4. DirectoryInv' /\ ScriptsInv' /\ tree'.names[Output] = tree.names[Output]
    BY <2>1, <2>2, NamesChanged
  <2>5. CallInv'
    BY <1>0, <1>8 DEF RemoveUnlinks, CallInv, StoreTypeOK, At, Answers
  <2> QED
    BY <2>2, <2>3, <2>4, <2>5
<1>9. ASSUME UNCHANGED fsVars,
             \/ \E n \in ScriptNames :
                  \/ \E c \in Scripts : SaveCall(n, c)
                  \/ LoadCall(n) \/ RemoveCall(n) \/ ListReads(n)
             \/ Refuse \/ Return \/ SaveFails \/ LoadOpens \/ LoadReads \/ LoadFails
             \/ ListOpens \/ ListBreaks \/ ListLooks \/ ListEnds
      PROVE  /\ FileSystemTypeOK' /\ DirectoryInv' /\ ScriptsInv' /\ CallInv'
             /\ tree' = tree /\ files' = files
  BY <1>3, <1>9, QuietStep
<1> QED
  BY <1>4, <1>5, <1>6, <1>7, <1>8, <1>9
     DEF StoreStep, SaveCall, LoadCall, RemoveCall, Call, ListReads, Refuse, Return, SaveFails,
         LoadOpens, LoadReads, LoadFails, ListOpens, ListBreaks, ListLooks, ListEnds

LEMMA BuildStepInv ==
  ASSUME FilesInv, At("idle"), BuildStep, UNCHANGED <<storeVars, others>>
  PROVE  FilesInv'
<1> USE DEF BuildAt, BuildGoes, Discards, Ends
<1>0. /\ FileSystemTypeOK /\ StoreTypeOK /\ BuildTypeOK /\ CallInv /\ LibraryInv
      /\ StoreTypeOK' /\ op' = op /\ op.at = "idle" /\ BuildTypeOK' /\ CallInv'
  BY BuildTypes DEF FilesInv, FilesTypeOK, StoreTypeOK, storeVars, At, CallInv
<1>1. SUFFICES FileSystemTypeOK' /\ DirectoryInv' /\ ScriptsInv' /\ LibraryInv'
  BY <1>0, <1>1 DEF FilesInv, FilesTypeOK
<1>2. tree.names[Output] # Absent => tree.names[Output] \in FileIds
  BY <1>0, OutputAssumption DEF FilesInv, DirectoryInv, FileSystemTypeOK, FileIds, Absent
<1>3. ASSUME UNCHANGED fsVars
      PROVE  /\ FileSystemTypeOK' /\ DirectoryInv' /\ ScriptsInv'
             /\ tree' = tree /\ files' = files /\ kept' = kept
  BY <1>3 DEF fsVars, FilesInv, FilesTypeOK, FileSystemTypeOK, DirectoryInv, ScriptsInv, IsScript, FileIds
<1>4. CASE BuildCreates
  <2>1. Unsigned \in Contents /\ 0 \in 0..Chunks
    BY OutputAssumption, ChunksAssumption
  <2>2. Mkstemp(Unsigned) /\ Created(Unsigned, 0) /\ UNCHANGED <<tree.names, kept>>
    BY <1>0, <1>4 DEF BuildCreates, Mkstemp, FileSystemTypeOK, Trees
  <2>3. FileSystemTypeOK'
    BY <1>0, <2>1, <2>2, FileSystemTypes
  <2>4. /\ DirectoryInv' /\ ScriptsInv' /\ Unnamed(Len(files))' /\ Len(files') = NextFile
        /\ \A j \in FileIds : files'[j] = files[j]
    BY <2>1, <2>2, FileAdded
  <2>5. /\ build'.file = NextFile /\ build'.at = "write" /\ powerLost' = powerLost
        /\ build'.status # "Completed"
    BY <1>0, <1>4 DEF BuildCreates, BuildTypeOK, LibraryInv
  <2>6. LibraryInv'
    BY <1>0, <1>2, <2>2, <2>4, <2>5 DEF LibraryInv, Unnamed
  <2> QED
    BY <2>3, <2>4, <2>6
<1>5. CASE \/ BuildWrites \/ BuildSyncs \/ BuildSigns
           \/ SigningFails /\ Rewrite(build.file, Signed)
  <2>1. /\ Unnamed(build.file) /\ build'.file = build.file /\ powerLost' = powerLost
        /\ \/ Write(build.file) \/ Fsync(build.file)
           \/ \E c \in Contents : Rewrite(build.file, c)
    BY <1>0, <1>5, OutputAssumption
       DEF BuildWrites, BuildSyncs, BuildSigns, SigningFails, LibraryInv, BuildTypeOK
  <2>2. /\ FileSystemTypeOK' /\ DirectoryInv' /\ ScriptsInv'
        /\ Len(files') = Len(files)
        /\ \A j \in FileIds \ {build.file} : files'[j] = files[j]
        /\ UNCHANGED <<tree, kept>>
    BY <2>1, UnnamedWritten
  <2>3. BuildSigns => files'[build.file].content = Signed /\ files'[build.file].written = Chunks
    BY <1>0, <2>1 DEF BuildSigns, Rewrite, Unnamed, FileSystemTypeOK, FileIds
  <2>4. build'.at = "rename" => BuildSigns
    BY <1>0, <1>5
       DEF BuildWrites, BuildSyncs, BuildSigns, SigningFails, BuildTypeOK
  <2>5. tree.names[Output] # Absent =>
          files'[tree'.names[Output]] = files[tree.names[Output]]
    BY <1>2, <2>1, <2>2, OutputAssumption DEF Unnamed
  <2>6. /\ build'.file \in FileIds'
        /\ \A n \in Names : tree'.names[n] # build'.file /\ kept'.names[n] # build'.file
    BY <2>1, <2>2 DEF Unnamed, FileIds
  <2>7. LibraryInv'
    BY <1>0, <1>5, <2>1, <2>2, <2>3, <2>4, <2>5, <2>6
       DEF LibraryInv, Unnamed, BuildWrites, BuildSyncs, BuildSigns, SigningFails, BuildTypeOK
  <2> QED
    BY <2>2, <2>7
<1>6. CASE BuildDiscards
  <2>1. files' = files /\ kept' = kept /\ tree'.names = tree.names
    BY <1>0, <1>6 DEF BuildDiscards, UnlinkTemporary, fsVars, FileSystemTypeOK, Trees
  <2>2. FileSystemTypeOK'
    BY <1>0, <1>6, FileSystemTypes DEF BuildDiscards, LibraryInv, Unnamed
  <2>3. DirectoryInv' /\ ScriptsInv'
    BY <2>1 DEF FilesInv, DirectoryInv, ScriptsInv, IsScript, FileIds
  <2>4. LibraryInv'
    BY <1>0, <1>6, <2>1 DEF BuildDiscards, LibraryInv, BuildTypeOK
  <2> QED
    BY <2>2, <2>3, <2>4
<1>7. CASE BuildPublishes
  <2>1. /\ Unnamed(build.file) /\ build.file # Absent
        /\ files[build.file].content = Signed /\ files[build.file].written = Chunks
    BY <1>0, <1>7 DEF BuildPublishes, LibraryInv, Unnamed, FileIds, Absent, FileSystemTypeOK
  <2>2. /\ Rename(build.file, Output) /\ files' = files /\ kept' = kept
        /\ tree'.names = [tree.names EXCEPT ![Output] = build.file]
    BY <1>0, <1>7 DEF BuildPublishes, Rename
  <2>3. FileSystemTypeOK'
    BY <1>0, <2>1, <2>2, OutputAssumption, FileSystemTypes DEF Unnamed
  <2>4. \A m \in Names : tree'.names[m] = IF m = Output THEN build.file ELSE tree.names[m]
    BY <1>0, <2>2, OutputAssumption DEF FileSystemTypeOK, Trees
  <2>5. DirectoryInv'
    BY <1>0, <2>1, <2>2, <2>4 DEF FilesInv, DirectoryInv, Unnamed, FileIds, FileSystemTypeOK
  <2>6. ScriptsInv'
    BY <2>2, <2>4, ScriptsAssumption, OutputIsNoScript DEF FilesInv, ScriptsInv, IsScript, FileIds
  <2>7. LibraryInv'
    BY <1>0, <1>7, <2>1, <2>2, <2>4, OutputAssumption DEF BuildPublishes, LibraryInv, BuildTypeOK
  <2> QED
    BY <2>3, <2>5, <2>6, <2>7
<1>8. ASSUME UNCHANGED fsVars, 
             \/ BuildCall \/ BuildRefused \/ BuildFails \/ SigningFails \/ BuildReturns
      PROVE  FileSystemTypeOK' /\ DirectoryInv' /\ ScriptsInv' /\ LibraryInv'
  <2>1. /\ powerLost' = powerLost
        /\ build'.at \in {"idle", "inputs", "unlink", "done"}
        /\ build'.at = "unlink" => build'.file = build.file /\ Unnamed(build.file)
        /\ build'.status = "Completed" => build'.at = "done"
    <3>1. CASE BuildCall \/ BuildRefused
      BY <1>0, <3>1 DEF BuildCall, BuildRefused, BuildTypeOK, LibraryInv
    <3>2. CASE BuildFails
      BY <1>0, <3>2 DEF BuildFails, BuildTypeOK, LibraryInv
    <3>3. CASE SigningFails
      BY <1>0, <3>3 DEF SigningFails, BuildTypeOK, LibraryInv
    <3>4. CASE BuildReturns
      BY <1>0, <3>4 DEF BuildReturns, NoBuild
    <3> QED
      BY <1>8, <3>1, <3>2, <3>3, <3>4
  <2>2. LibraryInv'
    BY <1>0, <1>3, <1>8, <2>1 DEF LibraryInv, Unnamed, FileIds
  <2> QED
    BY <1>3, <1>8, <2>2
<1> QED
  BY <1>4, <1>5, <1>6, <1>7, <1>8
     DEF BuildStep, BuildCall, BuildRefused, BuildFails, SigningFails, BuildReturns

LEMMA OthersStepInv ==
  ASSUME FilesInv, OthersStep, UNCHANGED buildVars
  PROVE  FilesInv' /\ tree'.names[Output] = tree.names[Output]
<1>0. /\ FileSystemTypeOK /\ StoreTypeOK /\ BuildTypeOK /\ CallInv /\ LibraryInv
      /\ build' = build /\ powerLost' = powerLost /\ BuildTypeOK'
  BY DEF FilesInv, FilesTypeOK, BuildTypeOK, buildVars
<1>1. op' = op /\ scan' = scan /\ StoreTypeOK'
  BY <1>0 DEF OthersStep, OthersPut, OthersRemove, Noted, StoreTypeOK
<1>2. tree.names[Output] # Absent => tree.names[Output] \in FileIds
  BY <1>0, OutputAssumption DEF FilesInv, DirectoryInv, FileSystemTypeOK, FileIds, Absent
<1>3. SUFFICES /\ FileSystemTypeOK' /\ DirectoryInv' /\ ScriptsInv'
               /\ tree'.names[Output] = tree.names[Output]
               /\ \A i \in FileIds : files'[i] = files[i]
               /\ \A i : (IsScript(i) => IsScript(i)') /\ (Unnamed(i) => Unnamed(i)')
  <2>1. CallInv'
    BY <1>0, <1>1, <1>3 DEF CallInv, Unnamed, IsScript
  <2>2. LibraryInv'
    BY <1>0, <1>1, <1>2, <1>3 DEF LibraryInv, Unnamed
  <2> QED
    BY <1>0, <1>1, <1>3, <2>1, <2>2 DEF FilesInv, FilesTypeOK
<1>4. ASSUME NEW n \in ScriptNames, OthersRemove(n)
      PROVE  /\ FileSystemTypeOK' /\ DirectoryInv' /\ ScriptsInv'
             /\ tree'.names[Output] = tree.names[Output]
             /\ \A i \in FileIds : files'[i] = files[i]
             /\ \A i : (IsScript(i) => IsScript(i)') /\ (Unnamed(i) => Unnamed(i)')
  <2>1. /\ n \in Names /\ Unlink(n) /\ files' = files /\ kept' = kept
        /\ tree'.names = [tree.names EXCEPT ![n] = Absent] /\ Absent \in 0..Len(files)
    BY <1>0, <1>4, ScriptsAssumption
       DEF OthersRemove, Unlink, Absent, FileSystemTypeOK, Trees
  <2>2. FileSystemTypeOK'
    BY <1>0, <2>1, FileSystemTypes
  <2>3. DirectoryInv' /\ ScriptsInv' /\ tree'.names[Output] = tree.names[Output]
    BY <2>1, NamesChanged
  <2>4. \A i : (IsScript(i) => IsScript(i)') /\ (Unnamed(i) => Unnamed(i)')
    BY <1>0, <2>1 DEF IsScript, Unnamed, FileIds, Absent, FileSystemTypeOK, Trees
  <2> QED
    BY <2>1, <2>2, <2>3, <2>4
<1>5. ASSUME NEW n \in ScriptNames, NEW c \in Scripts, OthersPut(n, c)
      PROVE  /\ FileSystemTypeOK' /\ DirectoryInv' /\ ScriptsInv'
             /\ tree'.names[Output] = tree.names[Output]
             /\ \A i \in FileIds : files'[i] = files[i]
             /\ \A i : (IsScript(i) => IsScript(i)') /\ (Unnamed(i) => Unnamed(i)')
  <2>1. /\ n \in Names /\ n # Output /\ c \in Contents /\ Chunks \in 0..Chunks
        /\ PutByOthers(n, c) /\ Created(c, Chunks) /\ UNCHANGED kept
    BY <1>5, ScriptsAssumption, OutputIsNoScript, ChunksAssumption DEF OthersPut, PutByOthers
  <2>2. FileSystemTypeOK'
    BY <1>0, <2>1, FileSystemTypes
  <2>3. /\ Len(files') = NextFile
        /\ files'[NextFile] = [content |-> c, written |-> Chunks, durable |-> Chunks]
        /\ \A i \in FileIds : files'[i] = files[i] /\ (IsScript(i) => IsScript(i)')
    BY <2>1, FileAdded
  <2>4. \A m \in Names : tree'.names[m] = IF m = n THEN NextFile ELSE tree.names[m]
    BY <1>0, <2>1 DEF PutByOthers, FileSystemTypeOK, Trees
  <2>5. \A i : (IsScript(i) => IsScript(i)') /\ (Unnamed(i) => Unnamed(i)')
    BY <1>0, <2>1, <2>3, <2>4 DEF IsScript, Unnamed, FileIds, NextFile, FileSystemTypeOK
  <2>6. DirectoryInv'
    BY <1>0, <2>1, <2>3, <2>4 DEF FilesInv, DirectoryInv, NextFile, FileSystemTypeOK
  <2>7. NextFile \in FileIds' /\ files'[NextFile].content \in Scripts
        /\ files'[NextFile].written = Chunks /\ files'[NextFile].durable = Chunks
    BY <1>0, <2>3 DEF FileIds, NextFile, FileSystemTypeOK
  <2>8. ScriptsInv'
    BY <2>1, <2>4, <2>5, <2>7, ScriptsAssumption DEF FilesInv, ScriptsInv, IsScript
  <2> QED
    BY <2>1, <2>2, <2>3, <2>4, <2>5, <2>6, <2>8, OutputAssumption
<1> QED
  BY <1>4, <1>5 DEF OthersStep

LEMMA FilesInvInit == Init => FilesInv
<1> SUFFICES ASSUME Init
             PROVE  FilesInv
  OBVIOUS
<1> USE DEF Init, FileSystemInit, StoreInit, BuildInit
<1>1. FilesTypeOK
  <2>1. tree \in Trees /\ kept \in Trees
    BY DEF Trees, Absent
  <2>2. FileSystemTypeOK
    BY <2>1 DEF FileSystemTypeOK
  <2>3. StoreTypeOK
    BY DEF StoreTypeOK, Idle, NoScan, Absent
  <2>4. BuildTypeOK
    BY DEF BuildTypeOK, NoBuild, Absent
  <2> QED
    BY <2>2, <2>3, <2>4 DEF FilesTypeOK
<1>2. DirectoryInv /\ ScriptsInv
  BY ScriptsAssumption DEF DirectoryInv, ScriptsInv, Absent
<1>3. CallInv
  BY DEF CallInv, Idle
<1>4. LibraryInv
  BY OutputAssumption DEF LibraryInv, NoBuild, Absent
<1> QED
  BY <1>1, <1>2, <1>3, <1>4 DEF FilesInv

LEMMA FilesInvStep == FilesInv /\ [Next]_vars => FilesInv'
<1> SUFFICES ASSUME FilesInv, [Next]_vars
             PROVE  FilesInv'
  OBVIOUS
<1>0. FileSystemTypeOK /\ StoreTypeOK /\ BuildTypeOK /\ CallInv /\ LibraryInv
  BY DEF FilesInv, FilesTypeOK
<1>1. CASE BuildAt("idle") /\ StoreStep /\ UNCHANGED <<others, buildVars>>
  BY <1>1, StoreStepInv
<1>2. CASE At("idle") /\ BuildStep /\ UNCHANGED <<storeVars, others>>
  BY <1>2, BuildStepInv
<1>3. CASE OthersStep /\ UNCHANGED buildVars
  BY <1>3, OthersStepInv
<1>4. CASE Flush /\ UNCHANGED <<storeVars, others, buildVars>>
  <2>1. /\ files' = files /\ tree' = tree /\ kept' = tree /\ op' = op
        /\ build' = build /\ powerLost' = powerLost
    BY <1>4 DEF Flush, storeVars, buildVars
  <2>2. FilesTypeOK'
    BY <1>0, <1>4, <2>1
       DEF FilesTypeOK, FileSystemTypeOK, StoreTypeOK, BuildTypeOK, storeVars, buildVars
  <2>3. DirectoryInv' /\ ScriptsInv'
    BY <2>1 DEF FilesInv, DirectoryInv, ScriptsInv, IsScript, FileIds
  <2>4. \A i : (IsScript(i) => IsScript(i)') /\ (Unnamed(i) => Unnamed(i)')
    BY <2>1 DEF IsScript, Unnamed, FileIds
  <2>5. CallInv' /\ LibraryInv'
    BY <1>0, <2>1, <2>4 DEF CallInv, LibraryInv, IsScript, Unnamed
  <2> QED
    BY <2>2, <2>3, <2>5 DEF FilesInv
<1>5. CASE Kill
  <2>1. /\ files' = files /\ tree' = tree /\ kept' = kept /\ op' = Idle
        /\ build' = NoBuild /\ powerLost' = powerLost
    BY <1>5 DEF Kill, ProcessDies, fsVars
  <2>2. FilesTypeOK'
    BY <1>0, <1>5, <2>1
       DEF FilesTypeOK, FileSystemTypeOK, StoreTypeOK, BuildTypeOK, Kill, ProcessDies,
           Idle, NoScan, NoBuild, Absent
  <2>3. DirectoryInv' /\ ScriptsInv'
    BY <2>1 DEF FilesInv, DirectoryInv, ScriptsInv, IsScript, FileIds
  <2>4. CallInv' /\ LibraryInv'
    BY <1>0, <2>1 DEF CallInv, LibraryInv, Idle, NoBuild
  <2> QED
    BY <2>2, <2>3, <2>4 DEF FilesInv
<1>6. CASE PowerFails
  <2>1. op' = Idle /\ build' = NoBuild /\ powerLost' = TRUE /\ PowerLoss
    BY <1>6 DEF PowerFails, ProcessDies
  <2>2. FileSystemTypeOK'
    BY <1>0, <2>1, FileSystemTypes
  <2>3. FilesTypeOK'
    BY <1>0, <1>6, <2>1, <2>2
       DEF FilesTypeOK, StoreTypeOK, BuildTypeOK, PowerFails, ProcessDies,
           Idle, NoScan, NoBuild, Absent
  <2>4. DirectoryInv' /\ ScriptsInv'
    BY <2>1, PowerLossKeepsScripts
  <2>5. CallInv' /\ LibraryInv'
    BY <2>1 DEF CallInv, LibraryInv, Idle, NoBuild
  <2> QED
    BY <2>3, <2>4, <2>5 DEF FilesInv
<1>7. CASE UNCHANGED vars
  BY <1>7 DEF vars, fsVars, storeVars, buildVars, FilesInv, FilesTypeOK, FileSystemTypeOK,
              StoreTypeOK, BuildTypeOK, DirectoryInv, ScriptsInv, CallInv, LibraryInv,
              IsScript, Unnamed, FileIds
<1> QED
  BY <1>1, <1>2, <1>3, <1>4, <1>5, <1>6, <1>7 DEF Next

THEOREM FilesInvariant == Spec => []FilesInv
<1> QED
  BY FilesInvInit, FilesInvStep, PTL DEF Spec

\* The variables of the file system, of the script store and of the library
\* builder keep their types, for any number of writes and of files.
THEOREM FilesTypeCorrect == Spec => []FilesTypeOK
<1>1. FilesInv => FilesTypeOK
  BY DEF FilesInv
<1> QED
  BY <1>1, FilesInvariant, PTL

\* DylibBuilder.cpp, build: the output is a whole signed library whichever step
\* failed and wherever the process died, unless the power was lost.
THEOREM OutputIsAlwaysSigned == Spec => []OutputIsSigned
<1>1. FilesInv => OutputIsSigned
  BY DEF FilesInv, LibraryInv, OutputIsSigned, Present, Holds, FileHolds
<1> QED
  BY <1>1, FilesInvariant, PTL

-----------------------------------------------------------------------------
(* The output.                                                             *)

LEMMA OutputStep ==
  ASSUME FilesInv, [Next]_vars, ~PowerFails
  PROVE  tree'.names[Output] # tree.names[Output]
           <=> build'.status = "Completed" /\ build.status # "Completed"
<1>0. BuildTypeOK /\ LibraryInv /\ tree \in Trees
  BY DEF FilesInv, FilesTypeOK, FileSystemTypeOK
<1>1. CASE BuildAt("idle") /\ StoreStep /\ UNCHANGED <<others, buildVars>>
  BY <1>1, StoreStepInv DEF buildVars
<1>2. CASE OthersStep /\ UNCHANGED buildVars
  BY <1>2, OthersStepInv DEF buildVars
<1>3. CASE UNCHANGED <<tree, build>>
  BY <1>3
<1>4. CASE Kill
  BY <1>4 DEF Kill, fsVars, NoBuild
<1>5. ASSUME BuildStep
      PROVE  tree'.names[Output] # tree.names[Output]
               <=> build'.status = "Completed" /\ build.status # "Completed"
  <2> USE DEF BuildTypeOK, BuildAt, BuildGoes, Discards, Ends
  <2>1. CASE BuildCall \/ BuildWrites \/ BuildSyncs \/ BuildSigns
    BY <1>0, <2>1 DEF BuildCall, BuildWrites, BuildSyncs, BuildSigns, Write, Fsync, Rewrite, fsVars
  <2>2. CASE BuildRefused
    BY <1>0, <2>2 DEF BuildRefused, InputErrors, fsVars
  <2>3. CASE BuildCreates
    BY <1>0, <2>3 DEF BuildCreates, Mkstemp, Trees
  <2>4. CASE BuildFails \/ SigningFails
    BY <1>0, <2>4 DEF BuildFails, SigningFails, Rewrite, fsVars
  <2>5. CASE BuildDiscards
    <3>1. build'.status = build.status /\ tree'.names = tree.names
      BY <1>0, <2>5 DEF BuildDiscards, UnlinkTemporary, fsVars, Trees
    <3> QED
      BY <3>1
  <2>6. CASE BuildPublishes
    <3>1. /\ build.file # tree.names[Output] /\ build.status # "Completed"
          /\ build'.status = "Completed"
      BY <1>0, <2>6, OutputAssumption DEF BuildPublishes, LibraryInv, Unnamed
    <3>2. tree'.names[Output] = build.file
      BY <1>0, <2>6, OutputAssumption DEF BuildPublishes, Rename, Trees
    <3> QED
      BY <3>1, <3>2
  <2>7. CASE BuildReturns
    BY <1>0, <2>7 DEF BuildReturns, NoBuild, fsVars
  <2> QED
    BY <1>5, <2>1, <2>2, <2>3, <2>4, <2>5, <2>6, <2>7 DEF BuildStep
<1> QED
  BY <1>1, <1>2, <1>3, <1>4, <1>5 DEF Next, Flush, vars, fsVars, buildVars

\* DylibBuilder.cpp, build: the output is replaced by builds that report
\* Completed and by nothing else, whatever happens to the scripts.
THEOREM BuildsAreAtomic == Spec => BuildIsAtomic
<1> QED
  BY FilesInvariant, OutputStep, PTL DEF Spec, BuildIsAtomic

-----------------------------------------------------------------------------
(* The script store implements atomic registers.                           *)

USE DEF Registers!Values, Registers!NoAnswer, Registers!Answered

\* What a script file holds, seen from either directory.
LEMMA WholeScripts ==
  ASSUME FilesInv, NEW n \in ScriptNames
  PROVE  /\ Holds(n) = IF tree.names[n] = Absent THEN Nothing
                       ELSE WholeScript(files[tree.names[n]].content)
         /\ HoldsOnDisk(n) = IF kept.names[n] = Absent THEN Nothing
                             ELSE WholeScript(files[kept.names[n]].content)
         /\ Holds(n) \in Registers!Values
         /\ Holds(n) # Nothing <=> Present(n)
  BY ScriptsAssumption
     DEF FilesInv, ScriptsInv, IsScript, Holds, HoldsOnDisk, FileHolds, WholeScript, Present, Nothing

\* A step that leaves the names of scripts and their files alone leaves the
\* scripts alone.
LEMMA SameScripts ==
  ASSUME \A n \in ScriptNames :
           /\ tree'.names[n] = tree.names[n] /\ kept'.names[n] = kept.names[n]
           /\ tree.names[n] # Absent => files'[tree.names[n]] = files[tree.names[n]]
           /\ kept.names[n] # Absent => files'[kept.names[n]] = files[kept.names[n]]
  PROVE  ScriptsNow' = ScriptsNow /\ ScriptsOnDisk' = ScriptsOnDisk
<1>1. \A n \in ScriptNames : Holds(n)' = Holds(n) /\ HoldsOnDisk(n)' = HoldsOnDisk(n)
  BY DEF Holds, HoldsOnDisk, FileHolds, Present
<1> QED
  BY <1>1 DEF ScriptsNow, ScriptsOnDisk

LEMMA RegistersInit == Init => Registers!Init
<1> SUFFICES ASSUME Init
             PROVE  Registers!Init
  OBVIOUS
<1>1. ScriptsNow = [n \in ScriptNames |-> Nothing] /\ ScriptsOnDisk = ScriptsNow
  BY ScriptsAssumption
     DEF Init, FileSystemInit, ScriptsNow, ScriptsOnDisk, Holds, HoldsOnDisk, Present
<1>2. Phase = "idle" /\ Request = Nothing /\ Result = Registers!NoAnswer /\ others = FALSE
  BY DEF Init, StoreInit, Idle, Phase, Request, Result, At
<1> QED
  BY <1>1, <1>2 DEF Registers!Init

LEMMA SaveRefines ==
  ASSUME FilesInv, FilesInv', SavePublishes, UNCHANGED others
  PROVE  Registers!Save
<1>0. /\ StoreTypeOK /\ CallInv /\ FileSystemTypeOK /\ DirectoryInv
      /\ op.at = "rename" /\ op.call = "save" /\ op.name \in ScriptNames
      /\ IsScript(op.file) /\ files[op.file].content = op.script /\ op.value = Nothing
  BY DEF FilesInv, FilesTypeOK, SavePublishes, CallInv, At, IsScript, Unnamed
<1>1. op' = [op EXCEPT !.at = "done", !.ok = TRUE]
  BY DEF SavePublishes, Answers
<1>2. Phase = "begun" /\ Request = [call |-> "save", name |-> op.name, script |-> WholeScript(op.script)]
  BY <1>0 DEF Phase, Request, At
<1>3. Phase' = "done" /\ Request' = Request /\ Result' = [ok |-> TRUE, value |-> Nothing]
  BY <1>0, <1>1 DEF Phase, Request, Result, At, StoreTypeOK
<1>4. /\ files' = files /\ kept' = kept /\ op.file # Absent
      /\ \A n \in Names : tree'.names[n] = IF n = op.name THEN op.file ELSE tree.names[n]
  BY <1>0, ScriptsAssumption
     DEF SavePublishes, Rename, FileSystemTypeOK, Trees, IsScript, FileIds, Absent
<1>5. ScriptsNow' = [ScriptsNow EXCEPT ![op.name] = WholeScript(op.script)]
  <2>1. \A n \in ScriptNames :
          Holds(n)' = IF n = op.name THEN WholeScript(op.script) ELSE Holds(n)
    BY <1>0, <1>4, ScriptsAssumption DEF Holds, Present, FileHolds, WholeScript, IsScript
  <2> QED
    BY <1>0, <2>1 DEF ScriptsNow
<1>6. ScriptsOnDisk' = ScriptsOnDisk
  BY <1>4 DEF ScriptsOnDisk, HoldsOnDisk, FileHolds
<1> QED
  BY <1>2, <1>3, <1>5, <1>6 DEF Registers!Save

LEMMA RemoveRefines ==
  ASSUME FilesInv, FilesInv', RemoveUnlinks, UNCHANGED others
  PROVE  Registers!Remove
<1>0. /\ StoreTypeOK /\ FileSystemTypeOK
      /\ op.at = "begun" /\ op.call = "remove" /\ op.name \in ScriptNames
      /\ Present(op.name) /\ op.value = Nothing
  BY DEF FilesInv, FilesTypeOK, RemoveUnlinks, CallInv, At
<1>1. op' = [op EXCEPT !.at = "done", !.ok = TRUE]
  BY DEF RemoveUnlinks, Answers
<1>2. Phase = "begun" /\ Request = [call |-> "remove", name |-> op.name, script |-> Nothing]
  BY <1>0 DEF Phase, Request, At
<1>3. Phase' = "done" /\ Request' = Request /\ Result' = [ok |-> TRUE, value |-> Nothing]
  BY <1>0, <1>1 DEF Phase, Request, Result, At, StoreTypeOK
<1>4. /\ files' = files /\ kept' = kept
      /\ \A n \in Names : tree'.names[n] = IF n = op.name THEN Absent ELSE tree.names[n]
  BY <1>0, ScriptsAssumption DEF RemoveUnlinks, Unlink, FileSystemTypeOK, Trees
<1>5. ScriptsNow' = [ScriptsNow EXCEPT ![op.name] = Nothing]
  <2>1. \A n \in ScriptNames : Holds(n)' = IF n = op.name THEN Nothing ELSE Holds(n)
    BY <1>0, <1>4, ScriptsAssumption DEF Holds, Present, FileHolds
  <2> QED
    BY <1>0, <2>1 DEF ScriptsNow
<1>6. ScriptsOnDisk' = ScriptsOnDisk
  BY <1>4 DEF ScriptsOnDisk, HoldsOnDisk, FileHolds
<1>7. ScriptsNow[op.name] # Nothing
  BY <1>0, WholeScripts DEF ScriptsNow
<1> QED
  BY <1>2, <1>3, <1>5, <1>6, <1>7 DEF Registers!Remove

\* Steps that change no script are told apart by the call alone.
LEMMA CallRefines ==
  ASSUME FilesInv, FilesInv', UNCHANGED others,
         ScriptsNow' = ScriptsNow, ScriptsOnDisk' = ScriptsOnDisk,
         \/ \E n \in ScriptNames :
              \/ \E c \in Scripts : SaveCall(n, c)
              \/ LoadCall(n) \/ RemoveCall(n) \/ ListReads(n)
         \/ Refuse \/ Return \/ SaveCreates \/ SaveWrites \/ SaveSyncs \/ SaveFails
         \/ SaveDiscards \/ LoadOpens \/ LoadReads \/ LoadFails
         \/ ListOpens \/ ListBreaks \/ ListLooks \/ ListEnds
  PROVE  Registers!Next \/ UNCHANGED Registers!vars
<1> USE DEF At, Goto, Answers
<1>0. StoreTypeOK /\ CallInv /\ FileSystemTypeOK
  BY DEF FilesInv, FilesTypeOK
<1>1. CASE \E n \in ScriptNames :
             (\E c \in Scripts : SaveCall(n, c)) \/ LoadCall(n) \/ RemoveCall(n)
  <2>1. /\ Phase = "idle" /\ Phase' = "begun" /\ Request' \in Registers!Requests
        /\ Result' = Result
    BY <1>0, <1>1
       DEF SaveCall, LoadCall, RemoveCall, Call, Idle, CallInv, Phase, Request, Result,
           Registers!Requests
  <2> QED
    BY <2>1 DEF Registers!Begin, Registers!Next
<1>2. CASE Refuse \/ SaveDiscards \/ LoadFails
  <2>1. /\ Phase \in {"begun", "taken"} /\ Phase' = "done" /\ Request' = Request
        /\ Result' = Registers!NoAnswer
    BY <1>0, <1>2
       DEF Refuse, SaveDiscards, LoadFails, StoreTypeOK, CallInv, Phase, Request, Result
  <2> QED
    BY <2>1 DEF Registers!Fail, Registers!Next
<1>3. CASE Return
  <2>1. Phase' = "idle" /\ Request' = Nothing /\ Result' = Registers!NoAnswer
    BY <1>3 DEF Return, Idle, Phase, Request, Result
  <2> QED
    BY <2>1 DEF Registers!Over, Registers!Next
<1>4. CASE LoadOpens
  <2>1. /\ op.call = "load" /\ op.name \in ScriptNames /\ Present(op.name) /\ files' = files
        /\ op.at = "begun" /\ op' = [op EXCEPT !.at = "read", !.file = tree.names[op.name]]
    BY <1>0, <1>4 DEF LoadOpens, CallInv, fsVars
  <2>2. Opened' = ScriptsNow[op.name] /\ ScriptsNow[op.name] # Nothing
    BY <1>0, <2>1, WholeScripts DEF StoreTypeOK, Opened, ScriptsNow, Holds, FileHolds
  <2>3. /\ Phase = "begun" /\ Phase' = "taken"
        /\ Request = [call |-> "load", name |-> op.name, script |-> Nothing] /\ Request' = Request
        /\ Result' = [ok |-> TRUE, value |-> Opened']
    BY <1>0, <2>1 DEF StoreTypeOK, Phase, Request, Result
  <2> QED
    BY <2>2, <2>3 DEF Registers!LoadTakes, Registers!Next
<1>5. CASE LoadReads
  <2>1. /\ Phase = "taken" /\ Phase' = "done" /\ Request' = Request /\ Result' = Result
    BY <1>0, <1>5 DEF LoadReads, StoreTypeOK, CallInv, Phase, Request, Result, Opened
  <2> QED
    BY <2>1 DEF Registers!LoadAnswers, Registers!Next
<1>6. CASE \/ SaveCreates \/ SaveWrites \/ SaveSyncs \/ SaveFails
           \/ ListOpens \/ ListBreaks \/ ListLooks \/ ListEnds
           \/ \E n \in ScriptNames : ListReads(n)
  <2>1. Phase' = Phase /\ Request' = Request /\ Result' = Result
    <3>1. CASE SaveCreates \/ SaveWrites \/ SaveSyncs \/ SaveFails
      <4>1. op.call = "save" /\ op'.call = "save" /\ op'.name = op.name /\ op'.script = op.script
        BY <1>0, <3>1
           DEF SaveCreates, SaveWrites, SaveSyncs, SaveFails, At, Goto, StoreTypeOK, CallInv
      <4>2. /\ op.at \in {"begun", "write", "fsync", "rename"}
            /\ op'.at \in {"write", "fsync", "rename", "unlink"}
        BY <1>0, <3>1 DEF SaveCreates, SaveWrites, SaveSyncs, SaveFails, At, Goto, StoreTypeOK
      <4>3. Phase' = Phase
        BY <4>1, <4>2 DEF At, Phase
      <4>4. Request' = Request
        BY <4>1 DEF Request
      <4>5. Result' = Result
        BY <4>1, <4>2 DEF At, Result
      <4> QED
        BY <4>3, <4>4, <4>5
    <3>2. CASE \/ ListOpens \/ ListBreaks \/ ListLooks \/ ListEnds
               \/ \E n \in ScriptNames : ListReads(n)
      BY <1>0, <3>2
         DEF ListOpens, ListBreaks, ListLooks, ListEnds, ListReads, Idle, StoreTypeOK, CallInv,
             Phase, Request, Result
    <3> QED
      BY <1>6, <3>1, <3>2
  <2> QED
    BY <2>1 DEF Registers!vars
<1> QED
  BY <1>1, <1>2, <1>3, <1>4, <1>5, <1>6

LEMMA StoreRefines ==
  ASSUME FilesInv, FilesInv', StoreStep, UNCHANGED others
  PROVE  Registers!Next \/ UNCHANGED Registers!vars
<1>0. /\ FileSystemTypeOK /\ StoreTypeOK /\ CallInv
      /\ \A n \in ScriptNames :
           /\ tree.names[n] # Absent => tree.names[n] \in FileIds
           /\ kept.names[n] # Absent => kept.names[n] \in FileIds
  BY DEF FilesInv, FilesTypeOK, ScriptsInv, IsScript
<1>1. CASE SavePublishes
  BY <1>1, SaveRefines DEF Registers!Next
<1>2. CASE RemoveUnlinks
  BY <1>2, RemoveRefines DEF Registers!Next
<1>3. CASE SaveCreates
  <2>1. /\ op.script \in Contents /\ 0 \in 0..Chunks /\ Created(op.script, 0)
        /\ UNCHANGED kept /\ tree'.names = tree.names
    BY <1>0, <1>3, ScriptsAssumption, ChunksAssumption
       DEF SaveCreates, CallInv, At, Mkstemp, FileSystemTypeOK, Trees
  <2>2. \A j \in FileIds : files'[j] = files[j]
    BY <2>1, FileAdded
  <2> QED
    BY <1>0, <1>3, <2>1, <2>2, SameScripts, CallRefines
<1>4. CASE SaveWrites \/ SaveSyncs
  <2>1. Unnamed(op.file) /\ (Write(op.file) \/ Fsync(op.file))
    BY <1>0, <1>4 DEF SaveWrites, SaveSyncs, CallInv, At
  <2>2. /\ \A j \in FileIds \ {op.file} : files'[j] = files[j]
        /\ UNCHANGED <<tree, kept>>
    BY <2>1, UnnamedWritten
  <2> QED
    BY <1>0, <1>4, <2>1, <2>2, ScriptsAssumption, SameScripts, CallRefines DEF Unnamed
<1>5. CASE SaveDiscards
  <2>1. files' = files /\ kept' = kept /\ tree'.names = tree.names
    BY <1>0, <1>5 DEF SaveDiscards, UnlinkTemporary, fsVars, FileSystemTypeOK, Trees
  <2> QED
    BY <1>5, <2>1, SameScripts, CallRefines
<1>6. ASSUME UNCHANGED fsVars,
             \/ \E n \in ScriptNames :
                  \/ \E c \in Scripts : SaveCall(n, c)
                  \/ LoadCall(n) \/ RemoveCall(n) \/ ListReads(n)
             \/ Refuse \/ Return \/ SaveFails \/ LoadOpens \/ LoadReads \/ LoadFails
             \/ ListOpens \/ ListBreaks \/ ListLooks \/ ListEnds
      PROVE  Registers!Next \/ UNCHANGED Registers!vars
  <2>1. files' = files /\ tree' = tree /\ kept' = kept
    BY <1>6 DEF fsVars
  <2>2. ScriptsNow' = ScriptsNow /\ ScriptsOnDisk' = ScriptsOnDisk
    BY <2>1, SameScripts
  <2> QED
    BY <1>6, <2>2, CallRefines
<1> QED
  BY <1>1, <1>2, <1>3, <1>4, <1>5, <1>6
     DEF StoreStep, SaveCall, LoadCall, RemoveCall, Call, ListReads, Refuse, Return, SaveFails,
         LoadOpens, LoadReads, LoadFails, ListOpens, ListBreaks, ListLooks, ListEnds

\* While a library is built, the script store rests and its scripts stay.
LEMMA BuildRefines ==
  ASSUME FilesInv, FilesInv', BuildStep, UNCHANGED <<storeVars, others>>, At("idle")
  PROVE  UNCHANGED Registers!vars
<1>0. /\ FileSystemTypeOK /\ BuildTypeOK /\ LibraryInv
      /\ \A n \in ScriptNames :
           /\ tree.names[n] # Absent => tree.names[n] \in FileIds
           /\ kept.names[n] # Absent => kept.names[n] \in FileIds
  BY DEF FilesInv, FilesTypeOK, ScriptsInv, IsScript
<1>1. Phase' = Phase /\ Request' = Request /\ Result' = Result
  BY DEF storeVars, Phase, Request, Result, At
<1>2. SUFFICES \A n \in ScriptNames :
        /\ tree'.names[n] = tree.names[n] /\ kept'.names[n] = kept.names[n]
        /\ tree.names[n] # Absent => files'[tree.names[n]] = files[tree.names[n]]
        /\ kept.names[n] # Absent => files'[kept.names[n]] = files[kept.names[n]]
  BY <1>1, <1>2, SameScripts DEF Registers!vars
<1>3. CASE BuildCreates
  <2>1. /\ Unsigned \in Contents /\ 0 \in 0..Chunks /\ Created(Unsigned, 0)
        /\ UNCHANGED kept /\ tree'.names = tree.names
    BY <1>0, <1>3, OutputAssumption, ChunksAssumption
       DEF BuildCreates, Mkstemp, FileSystemTypeOK, Trees
  <2>2. \A j \in FileIds : files'[j] = files[j]
    BY <2>1, FileAdded
  <2> QED
    BY <1>0, <2>1, <2>2
<1>4. CASE \/ BuildWrites \/ BuildSyncs \/ BuildSigns
           \/ SigningFails /\ Rewrite(build.file, Signed)
  <2>1. /\ Unnamed(build.file)
        /\ \/ Write(build.file) \/ Fsync(build.file)
           \/ \E c \in Contents : Rewrite(build.file, c)
    BY <1>0, <1>4, OutputAssumption
       DEF BuildWrites, BuildSyncs, BuildSigns, SigningFails, LibraryInv, BuildAt
  <2>2. /\ \A j \in FileIds \ {build.file} : files'[j] = files[j]
        /\ UNCHANGED <<tree, kept>>
    BY <2>1, UnnamedWritten
  <2> QED
    BY <1>0, <2>1, <2>2, ScriptsAssumption DEF Unnamed
<1>5. CASE BuildDiscards
  <2>1. files' = files /\ kept' = kept /\ tree'.names = tree.names
    BY <1>0, <1>5 DEF BuildDiscards, UnlinkTemporary, fsVars, FileSystemTypeOK, Trees
  <2> QED
    BY <2>1
<1>6. CASE BuildPublishes
  <2>1. \A n \in Names \ {Output} : tree'.names[n] = tree.names[n]
    BY <1>0, <1>6 DEF BuildPublishes, Rename, FileSystemTypeOK, Trees
  <2> QED
    BY <1>6, <2>1, ScriptsAssumption, OutputIsNoScript DEF BuildPublishes, Rename
<1>7. CASE UNCHANGED fsVars
  BY <1>7 DEF fsVars
<1> QED
  BY <1>3, <1>4, <1>5, <1>6, <1>7
     DEF BuildStep, BuildCall, BuildRefused, BuildFails, SigningFails, BuildReturns

LEMMA OthersRefine ==
  ASSUME FilesInv, FilesInv', OthersStep
  PROVE  Registers!Others
<1>0. /\ FileSystemTypeOK /\ StoreTypeOK /\ CallInv
      /\ \A n \in ScriptNames :
           /\ tree.names[n] # Absent => tree.names[n] \in FileIds
           /\ kept.names[n] # Absent => kept.names[n] \in FileIds
  BY DEF FilesInv, FilesTypeOK, ScriptsInv, IsScript
<1>1. SUFFICES
        /\ \E n \in ScriptNames, v \in Registers!Values :
             ScriptsNow' = [ScriptsNow EXCEPT ![n] = v]
        /\ ScriptsOnDisk' = ScriptsOnDisk /\ op' = op /\ others' = ~others
        /\ op.at = "read" => files'[op.file] = files[op.file]
  BY <1>1 DEF Registers!Others, Phase, Request, Result, Opened, FileHolds, At
<1>2. ASSUME NEW n \in ScriptNames, OthersRemove(n)
      PROVE  /\ ScriptsNow' = [ScriptsNow EXCEPT ![n] = Nothing]
             /\ ScriptsOnDisk' = ScriptsOnDisk /\ op' = op /\ files' = files
  <2>1. /\ files' = files /\ kept' = kept /\ op' = op
        /\ \A m \in ScriptNames :
             tree'.names[m] = IF m = n THEN Absent ELSE tree.names[m]
    BY <1>0, <1>2, ScriptsAssumption DEF OthersRemove, Unlink, FileSystemTypeOK, Trees
  <2>2. \A m \in ScriptNames : Holds(m)' = IF m = n THEN Nothing ELSE Holds(m)
    BY <2>1 DEF Holds, Present, FileHolds
  <2> QED
    BY <2>1, <2>2 DEF ScriptsNow, ScriptsOnDisk, HoldsOnDisk, FileHolds
<1>3. ASSUME NEW n \in ScriptNames, NEW c \in Scripts, OthersPut(n, c)
      PROVE  /\ ScriptsNow' = [ScriptsNow EXCEPT ![n] = WholeScript(c)]
             /\ ScriptsOnDisk' = ScriptsOnDisk /\ op' = op
             /\ op.at = "read" => files'[op.file] = files[op.file]
  <2>1. /\ c \in Contents /\ Chunks \in 0..Chunks /\ Created(c, Chunks) /\ op' = op
        /\ UNCHANGED kept /\ PutByOthers(n, c) /\ NextFile # Absent
    BY <1>0, <1>3, ScriptsAssumption, ChunksAssumption
       DEF OthersPut, PutByOthers, NextFile, Absent, FileSystemTypeOK
  <2>2. /\ files'[NextFile] = [content |-> c, written |-> Chunks, durable |-> Chunks]
        /\ \A j \in FileIds : files'[j] = files[j]
    BY <2>1, FileAdded
  <2>3. \A m \in ScriptNames : tree'.names[m] = IF m = n THEN NextFile ELSE tree.names[m]
    BY <1>0, <2>1, ScriptsAssumption DEF PutByOthers, FileSystemTypeOK, Trees
  <2>4. \A m \in ScriptNames : Holds(m)' = IF m = n THEN WholeScript(c) ELSE Holds(m)
    <3>1. Holds(n)' = WholeScript(c)
      <4>1. tree'.names[n] = NextFile /\ NextFile # Absent
        BY <2>1, <2>3
      <4>2. files'[NextFile].content = c /\ files'[NextFile].written = Chunks
        BY <2>2
      <4> QED
        BY <4>1, <4>2 DEF Holds, Present, FileHolds, WholeScript
    <3>2. ASSUME NEW m \in ScriptNames, m # n
          PROVE  Holds(m)' = Holds(m)
      <4>1. tree'.names[m] = tree.names[m]
        BY <2>3, <3>2
      <4>2. tree.names[m] # Absent => files'[tree.names[m]] = files[tree.names[m]]
        BY <1>0, <2>2, <3>2
      <4> QED
        BY <4>1, <4>2 DEF Holds, Present, FileHolds
    <3> QED
      BY <3>1, <3>2
  <2>5. \A m \in ScriptNames : HoldsOnDisk(m)' = HoldsOnDisk(m)
    BY <1>0, <2>1, <2>2 DEF HoldsOnDisk, FileHolds
  <2> QED
    BY <1>0, <2>1, <2>2, <2>4, <2>5 DEF ScriptsNow, ScriptsOnDisk, CallInv, IsScript
<1> QED
  BY <1>2, <1>3 DEF OthersStep

LEMMA RegistersStep ==
  ASSUME FilesInv, FilesInv', [Next]_vars
  PROVE  [Registers!Next]_Registers!vars
<1>1. CASE BuildAt("idle") /\ StoreStep /\ UNCHANGED <<others, buildVars>>
  BY <1>1, StoreRefines
<1>2. CASE At("idle") /\ BuildStep /\ UNCHANGED <<storeVars, others>>
  BY <1>2, BuildRefines
<1>3. CASE OthersStep /\ UNCHANGED buildVars
  BY <1>3, OthersRefine DEF Registers!Next
<1>4. CASE Flush /\ UNCHANGED <<storeVars, others, buildVars>>
  <2>1. /\ files' = files /\ tree' = tree /\ kept' = tree /\ op' = op
    BY <1>4 DEF Flush, storeVars
  <2>2. \A n \in ScriptNames : Holds(n)' = Holds(n) /\ HoldsOnDisk(n)' = Holds(n)
    BY <2>1 DEF FilesInv, ScriptsInv, IsScript, Holds, HoldsOnDisk, Present, FileHolds
  <2>3. ScriptsNow' = ScriptsNow /\ ScriptsOnDisk' = ScriptsNow
    BY <2>2 DEF ScriptsNow, ScriptsOnDisk
  <2>4. Phase' = Phase /\ Request' = Request /\ Result' = Result
    BY <2>1 DEF Phase, Request, Result, Opened, FileHolds, At
  <2> QED
    BY <1>4, <2>3, <2>4 DEF Registers!Keep, Registers!Next
<1>5. CASE Kill
  <2>1. Phase' = "idle" /\ Request' = Nothing /\ Result' = Registers!NoAnswer
    BY <1>5 DEF Kill, ProcessDies, Idle, Phase, Request, Result, At
  <2>2. ScriptsNow' = ScriptsNow /\ ScriptsOnDisk' = ScriptsOnDisk
    BY <1>5, SameScripts DEF Kill, fsVars
  <2> QED
    BY <1>5, <2>1, <2>2 DEF Kill, Registers!Over, Registers!Next
<1>6. CASE PowerFails
  <2>1. Phase' = "idle" /\ Request' = Nothing /\ Result' = Registers!NoAnswer
    BY <1>6 DEF PowerFails, ProcessDies, Idle, Phase, Request, Result, At
  <2>2. tree' = kept /\ kept' = kept
    BY <1>6 DEF PowerFails, PowerLoss
  <2>3. ASSUME NEW i, IsScript(i)
        PROVE  files'[i].content = files[i].content /\ files[i].durable = Chunks
               /\ files'[i].written = Chunks /\ files'[i].durable = Chunks
    <3>1. files[i] \in File /\ i \in FileIds
      BY <2>3, FileTypes DEF FilesInv, FilesTypeOK, IsScript
    <3>2. \/ files'[i] = [files[i] EXCEPT !.written = files[i].durable]
          \/ files'[i] = [files[i] EXCEPT !.durable = files[i].written]
      BY <1>6, <3>1 DEF PowerFails, PowerLoss
    <3> QED
      BY <2>3, <3>1, <3>2 DEF IsScript, File
  <2>4. \A n \in ScriptNames : Holds(n)' = HoldsOnDisk(n) /\ HoldsOnDisk(n)' = HoldsOnDisk(n)
    BY <2>2, <2>3 DEF FilesInv, ScriptsInv, Holds, HoldsOnDisk, Present, FileHolds
  <2>5. ScriptsNow' = ScriptsOnDisk /\ ScriptsOnDisk' = ScriptsOnDisk
    BY <2>4 DEF ScriptsNow, ScriptsOnDisk
  <2> QED
    BY <1>6, <2>1, <2>5 DEF PowerFails, Registers!PowerLoss, Registers!Next
<1>7. CASE UNCHANGED vars
  <2>1. UNCHANGED <<files, tree, kept, op, others>>
    BY <1>7 DEF vars, fsVars, storeVars
  <2>2. ScriptsNow' = ScriptsNow /\ ScriptsOnDisk' = ScriptsOnDisk
    BY <2>1, SameScripts
  <2>3. Phase' = Phase /\ Request' = Request /\ Result' = Result
    BY <2>1 DEF Phase, Request, Result, Opened, FileHolds, At
  <2> QED
    BY <2>1, <2>2, <2>3 DEF Registers!vars
<1> QED
  BY <1>1, <1>2, <1>3, <1>4, <1>5, <1>6, <1>7 DEF Next

\* ScriptStore.cpp: each name is an atomic register that survives the death
\* of the process at any step and the loss of power.
THEOREM StoreImplementsRegisters == Spec => AtomicSpec
<1> QED
  BY RegistersInit, FilesInvariant, RegistersStep, PTL DEF Spec, AtomicSpec, Registers!Spec

-----------------------------------------------------------------------------
(* Listings.                                                               *)

\* What list() has found of the names it is through with, as long as nobody
\* else touched them, and why it reports a failure.
FoundSoFar ==
  \A n \in ScriptNames \ touched :
    IF n \in scan.left \/ (op.at = "lstat" /\ n = op.name)
    THEN n \notin scan.found
    ELSE n \in scan.found <=> Present(n)

ListInv ==
  op.call = "list" =>
    /\ op.at \in {"readdir", "lstat", "done"}
    /\ scan.broken => scan.errno
    /\ scan.errno => scan.broken \/ removed # {}
    /\ op.at = "lstat" =>
         /\ op.name \in ScriptNames \ scan.left
         /\ Present(op.name) \/ op.name \in removed
    /\ op.at # "done" /\ ~scan.broken => FoundSoFar
    /\ ListingIsTrue

\* While a listing is under way the names change only by others, who touch
\* them.
LEMMA ListUntouched ==
  ASSUME ListInv, op' = op, scan' = scan,
         touched \subseteq touched', removed \subseteq removed',
         \A n \in ScriptNames \ touched' : tree'.names[n] = tree.names[n],
         \A n \in ScriptNames \ removed' : Present(n) => Present(n)'
  PROVE  ListInv'
<1>1. ASSUME op.call = "list" PROVE ListingIsTrue'
  BY <1>1 DEF ListInv, ListingIsTrue, At, Present
<1>2. ASSUME op.call = "list", op.at # "done", ~scan.broken PROVE FoundSoFar'
  BY <1>2 DEF ListInv, FoundSoFar, Present
<1>3. ASSUME op.call = "list", op.at = "lstat"
      PROVE  (op.name \in ScriptNames \ scan.left /\ (Present(op.name) \/ op.name \in removed))'
  BY <1>3 DEF ListInv
<1>4. ASSUME op.call = "list", scan.errno PROVE scan.broken \/ removed' # {}
  BY <1>4 DEF ListInv
<1> QED
  BY <1>1, <1>2, <1>3, <1>4 DEF ListInv

LEMMA ListReadsInv ==
  ASSUME FilesInv, ListInv, NEW n \in ScriptNames, ListReads(n)
  PROVE  ListInv'
<1>1. op.call = "list" /\ op.at = "readdir" /\ op'.call = "list"
  BY DEF FilesInv, CallInv, ListReads, At, FilesTypeOK, StoreTypeOK
<1>2. \A m \in ScriptNames : Present(m)' <=> Present(m)
  BY DEF ListReads, fsVars, Present
<1>3. /\ scan'.left = scan.left \ {n} /\ n \in scan.left
      /\ scan'.found = scan.found /\ scan'.errno = scan.errno
      /\ scan'.broken = scan.broken /\ touched' = touched /\ removed' = removed
  BY DEF ListReads, FilesInv, FilesTypeOK, StoreTypeOK
<1>4. CASE op' = [op EXCEPT !.at = "lstat", !.name = n] /\ (Present(n) \/ n \in removed)
  <2>1. op'.at = "lstat" /\ op'.name = n
    BY <1>4 DEF FilesInv, FilesTypeOK, StoreTypeOK
  <2>2. ~scan.broken => FoundSoFar'
    BY <1>1, <1>2, <1>3, <2>1 DEF ListInv, FoundSoFar
  <2>3. op'.name \in ScriptNames \ scan'.left /\ (Present(op.name)' \/ op'.name \in removed')
    BY <1>2, <1>3, <1>4, <2>1 DEF Present
  <2> QED
    BY <1>1, <1>3, <2>1, <2>2, <2>3 DEF ListInv, ListingIsTrue, At
<1>5. CASE op' = op /\ (~Present(n) \/ n \in touched)
  <2>1. ~scan.broken => FoundSoFar'
    BY <1>1, <1>2, <1>3, <1>5 DEF ListInv, FoundSoFar
  <2> QED
    BY <1>1, <1>2, <1>3, <1>5, <2>1 DEF ListInv, ListingIsTrue, At
<1> QED
  BY <1>4, <1>5 DEF ListReads

LEMMA ListLooksInv ==
  ASSUME FilesInv, ListInv, ListLooks
  PROVE  ListInv'
<1>1. op.call = "list" /\ op.at = "lstat"
  BY DEF FilesInv, CallInv, ListLooks, At
<1>2. op'.call = "list" /\ op'.at = "readdir"
  BY <1>1 DEF ListLooks, FilesInv, FilesTypeOK, StoreTypeOK
<1>3. touched' = touched /\ removed' = removed /\ \A m \in ScriptNames : Present(m)' <=> Present(m)
  BY DEF ListLooks, fsVars, Present
<1>4. CASE Present(op.name)
  <2>1. /\ scan'.left = scan.left /\ scan'.found = scan.found \union {op.name}
        /\ scan'.errno = scan.errno /\ scan'.broken = scan.broken
    BY <1>4 DEF ListLooks, FilesInv, FilesTypeOK, StoreTypeOK
  <2>2. ~scan.broken => FoundSoFar'
    BY <1>1, <1>2, <1>3, <1>4, <2>1 DEF ListInv, FoundSoFar
  <2> QED
    BY <1>1, <1>2, <1>3, <2>1, <2>2 DEF ListInv, ListingIsTrue, At
<1>5. CASE ~Present(op.name)
  <2>1. /\ scan'.left = scan.left /\ scan'.found = scan.found
        /\ scan'.errno = TRUE /\ scan'.broken = scan.broken
    BY <1>5 DEF ListLooks, FilesInv, FilesTypeOK, StoreTypeOK
  <2>2. op.name \in removed /\ op.name \in touched
    BY <1>1, <1>5 DEF ListInv, FilesInv, FilesTypeOK, StoreTypeOK
  <2>3. ~scan.broken => FoundSoFar'
    BY <1>1, <1>2, <1>3, <2>1, <2>2 DEF ListInv, FoundSoFar
  <2> QED
    BY <1>1, <1>2, <1>3, <2>1, <2>2, <2>3 DEF ListInv, ListingIsTrue, At
<1> QED
  BY <1>4, <1>5

LEMMA ListEndsInv ==
  ASSUME FilesInv, ListInv, ListEnds
  PROVE  ListInv'
<1>1. op.call = "list" /\ op.at = "readdir" /\ scan.left = {}
  BY DEF FilesInv, CallInv, ListEnds, At
<1>2. op'.call = "list" /\ op'.at = "done" /\ op'.ok = ~scan.errno
  BY <1>1 DEF ListEnds, Answers, FilesInv, FilesTypeOK, StoreTypeOK
<1>3. touched' = touched /\ removed' = removed /\ \A m \in ScriptNames : Present(m)' <=> Present(m)
  BY DEF ListEnds, fsVars, Present
<1>4. /\ scan'.errno = scan.errno /\ scan'.broken = scan.broken
      /\ ~scan.errno => scan' = scan
  BY DEF ListEnds, FilesInv, FilesTypeOK, StoreTypeOK
<1>5. ListingIsTrue'
  BY <1>1, <1>2, <1>3, <1>4 DEF ListInv, FoundSoFar, ListingIsTrue, At
<1> QED
  BY <1>1, <1>2, <1>3, <1>4, <1>5 DEF ListInv

LEMMA ListInvStoreStep ==
  ASSUME FilesInv, ListInv, StoreStep
  PROVE  ListInv'
<1> USE DEF FilesInv, FilesTypeOK, StoreTypeOK, At
<1>1. ASSUME op'.call # "list" PROVE ListInv'
  BY <1>1 DEF ListInv
<1>2. ASSUME NEW n \in ScriptNames, NEW c \in Scripts, SaveCall(n, c) PROVE ListInv'
  BY <1>1, <1>2 DEF SaveCall, Call, Idle
<1>3. ASSUME NEW n \in ScriptNames, LoadCall(n) \/ RemoveCall(n) PROVE ListInv'
  BY <1>1, <1>3 DEF LoadCall, RemoveCall, Call, Idle
<1>4. CASE Return
  BY <1>1, <1>4 DEF Return, Idle
<1>5. CASE Refuse \/ SaveCreates \/ LoadOpens \/ RemoveUnlinks
  <2>1. op.call # "list" /\ op'.call = op.call
    BY <1>5 DEF CallInv, Refuse, SaveCreates, LoadOpens, RemoveUnlinks, Answers
  <2> QED
    BY <1>1, <2>1
<1>6. CASE SaveWrites \/ SaveSyncs \/ SaveFails \/ SaveDiscards \/ SavePublishes
  <2>1. op.call # "list" /\ op'.call = op.call
    BY <1>6 DEF CallInv, SaveWrites, SaveSyncs, SaveFails, SaveDiscards,
                SavePublishes, Answers, Goto
  <2> QED
    BY <1>1, <2>1
<1>7. CASE LoadReads \/ LoadFails
  <2>1. op.call # "list" /\ op'.call = op.call
    BY <1>7 DEF CallInv, LoadReads, LoadFails, Answers
  <2> QED
    BY <1>1, <2>1
<1>8. CASE ListOpens
  <2>1. /\ op'.call = "list" /\ op'.at = "readdir"
        /\ scan'.left = ScriptNames /\ scan'.found = {}
        /\ scan'.errno = FALSE /\ scan'.broken = FALSE
    BY <1>8 DEF ListOpens, Idle, NoScan
  <2>2. FoundSoFar'
    BY <2>1 DEF FoundSoFar
  <2> QED
    BY <2>1, <2>2 DEF ListInv, ListingIsTrue
<1>9. CASE ListBreaks
  <2>1. /\ op' = op /\ op.at = "readdir"
        /\ scan'.errno = TRUE /\ scan'.broken = TRUE
    BY <1>9 DEF ListBreaks
  <2> QED
    BY <2>1 DEF ListInv, ListingIsTrue
<1>10. ASSUME NEW n \in ScriptNames, ListReads(n) PROVE ListInv'
  BY <1>10, ListReadsInv
<1>11. CASE ListLooks
  BY <1>11, ListLooksInv
<1>12. CASE ListEnds
  BY <1>12, ListEndsInv
<1> QED
  BY <1>2, <1>3, <1>4, <1>5, <1>6, <1>7, <1>8, <1>9, <1>10, <1>11, <1>12
  DEF StoreStep

\* Others touch what they put and remove as long as a listing is under way.
LEMMA ListInvOthers ==
  ASSUME FilesInv, ListInv, OthersStep
  PROVE  ListInv'
<1>1. CASE op.call # "list"
  BY <1>1 DEF OthersStep, OthersPut, OthersRemove, ListInv
<1>2. CASE op.call = "list"
  <2>1. PICK n \in ScriptNames : (\E c \in Scripts : OthersPut(n, c)) \/ OthersRemove(n)
    BY DEF OthersStep
  <2>2. touched' = touched \union {n} /\ UNCHANGED <<op, scan>>
    BY <1>2, <2>1 DEF OthersPut, OthersRemove, Noted
  <2>3. \A m \in ScriptNames : m # n => tree'.names[m] = tree.names[m]
    BY <2>1, ScriptsAssumption
    DEF OthersPut, OthersRemove, PutByOthers, Unlink, FilesInv, FilesTypeOK,
        FileSystemTypeOK, Trees
  <2>4. CASE OthersRemove(n)
    <3>1. removed' = removed \union {n}
      BY <1>2, <2>4 DEF OthersRemove, Noted
    <3>2. \A m \in ScriptNames \ removed' : Present(m) => Present(m)'
      BY <2>3, <3>1 DEF Present
    <3> QED
      BY <2>2, <2>3, <3>1, <3>2, ListUntouched
  <2>5. CASE \E c \in Scripts : OthersPut(n, c)
    <3>1. removed' = removed
      BY <2>5 DEF OthersPut
    <3>2. tree'.names[n] = NextFile /\ NextFile # Absent
      BY <2>5, ScriptsAssumption
      DEF OthersPut, PutByOthers, NextFile, Absent, FilesInv, FilesTypeOK, FileSystemTypeOK, Trees
    <3>3. \A m \in ScriptNames \ removed' : Present(m) => Present(m)'
      BY <2>3, <3>2 DEF Present
    <3> QED
      BY <2>2, <2>3, <3>1, <3>3, ListUntouched
  <2> QED
    BY <2>1, <2>4, <2>5
<1> QED
  BY <1>1, <1>2

LEMMA ListInvStep == FilesInv /\ ListInv /\ [Next]_vars => ListInv'
<1> SUFFICES ASSUME FilesInv, ListInv, [Next]_vars PROVE ListInv'
  OBVIOUS
<1>1. CASE StoreStep
  BY <1>1, ListInvStoreStep
<1>2. CASE At("idle") /\ BuildStep /\ UNCHANGED <<storeVars, others>>
  BY <1>2 DEF FilesInv, CallInv, ListInv, At, storeVars
<1>3. CASE OthersStep
  BY <1>3, ListInvOthers
<1>4. CASE Flush /\ UNCHANGED <<storeVars, others, buildVars>>
  BY <1>4 DEF Flush, storeVars, ListInv, FoundSoFar, ListingIsTrue, Present, At
<1>5. CASE Kill \/ PowerFails
  BY <1>5 DEF Kill, PowerFails, ProcessDies, Idle, ListInv
<1>6. CASE UNCHANGED vars
  BY <1>6 DEF vars, fsVars, storeVars, ListInv, FoundSoFar, ListingIsTrue, Present, At
<1> QED
  BY <1>1, <1>2, <1>3, <1>4, <1>5, <1>6 DEF Next

\* What list() answers is what was there: it lists a script that nobody else
\* touched meanwhile exactly if the script exists, and fails for a directory
\* that can be read only if somebody put or removed a script under it.
THEOREM ListingsAreTrue == Spec => []ListingIsTrue
<1>1. Init => ListInv
  BY DEF Init, StoreInit, Idle, ListInv
<1>2. ListInv => ListingIsTrue
  BY DEF ListInv, ListingIsTrue
<1> QED
  BY FilesInvariant, ListInvStep, <1>1, <1>2, PTL DEF Spec
=============================================================================
