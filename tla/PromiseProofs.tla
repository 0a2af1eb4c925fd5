---------------------------- MODULE PromiseProofs ----------------------------
(***************************************************************************)
(* Proofs that the path-based calls keep the promise of AtomicOutput, and  *)
(* of what their results tell, for every set of calls, outputs and tokens  *)
(* and every combination of faults in which random names do not repeat;    *)
(* and, at the end, that they implement AtomicOutput: the states of        *)
(* FileCommit, seen through their output names and results, begin and move *)
(* as AtomicOutput allows, whatever runs beside them and however they are  *)
(* interrupted.                                                            *)
(***************************************************************************)
EXTENDS FileCommitProofs

-----------------------------------------------------------------------------
(* The strengthening.                                                      *)

\* A call that has not given its file an output name.
Before == {"idle", "status", "header", "temp", "close", "commit", "rename"} \cup InFile

\* A call that has.
After == {"unlink", "dirsync", "return"}

\* A result is set when a call gives up or returns, and never again.
ResultKnown ==
    \A c \in Calls :
        /\ pc[c] \in Before \cup After => code[c] = "none"
        /\ pc[c] \in Catching => code[c] \in Errors
        /\ pc[c] = "done" => code[c] \in Errors \cup {"ok"}
        /\ pc[c] = "dead" => code[c] \in Errors \cup {"none"}

\* A file whose call is before the commit, or refused, has no output name.
Unnamed ==
    \A c \in Calls :
        pc[c] \in Before \/ code[c] \in Errors \ {"backend_failure"} =>
            \A o \in Outputs : c \notin disk[Path(o)]

\* What a call has committed stays, and is on the disk before the call returns.
NameKept ==
    \A c \in Calls :
        /\ pc[c] \in {"unlink", "dirsync"} => dir[OutputOf(c)] = c \/ May("foreign_remove")
        /\ pc[c] = "return" \/ code[c] = "ok" =>
              disk[OutputOf(c)] = {c} \/ (May("foreign_remove") /\ dir[OutputOf(c)] # c)

\* The file of a call has no other temporary name than the call's; only a call whose
\* descriptor failed ends without knowing the name.
OneTemp ==
    \A c \in Calls : \A p \in TempPaths :
        c \in disk[p] => (temp[c] \in Tokens /\ p = TempOf(c)) \/ pc[c] = "done"

\* The temporary name is removed before the directory is synced.
TempGone ==
    \A c \in Calls : May("unlink") \/
        /\ pc[c] = "dirsync" => \A p \in TempPaths : dir[p] # c
        /\ pc[c] = "return" \/ code[c] = "ok" => \A p \in TempPaths : c \notin disk[p]

ResultInvariant == ResultKnown /\ Unnamed /\ NameKept /\ OneTemp /\ TempGone

\* At the beginning no call has a result, a name or a file.
LEMMA ResultInit == Init => ResultInvariant
BY NamesAssumption, PathsDiffer
   DEF Init, ResultInvariant, ResultKnown, Unnamed, NameKept, OneTemp, TempGone, Before, After,
       InFile, Catching, Errors, TempPaths, Paths, Path, TempPath, OutputOf

-----------------------------------------------------------------------------
(* What a step of a call can do, seen from outside it.                     *)

\* Only the call that moves changes its place, its result and its temporary name.
LEMMA OthersStay ==
    ASSUME TypeOK, NEW c \in Calls, Step(c)
    PROVE  /\ out' = out
           /\ \A d \in Calls \ {c} : pc'[d] = pc[d] /\ code'[d] = code[d] /\ temp'[d] = temp[d]
<1> USE DEF TypeOK, Goto, Return, Throw, ThrowLate, control, naming
<1>1. CASE Begin(c) \/ RejectEmptyPassword(c) \/ CheckOutput(c) \/ MakeHeader(c)
  BY <1>1 DEF Begin, RejectEmptyPassword, CheckOutput, MakeHeader
<1>2. CASE OpenTemp(c)
  BY <1>2 DEF OpenTemp, DrawFails, Collide, OpenFails, DescriptorFails, CreateTemp
<1>3. CASE OpenInput(c) \/ WritePiece(c) \/ PayloadFails(c) \/ Flush(c) \/ Close(c)
  BY <1>3 DEF OpenInput, WritePiece, PayloadFails, Flush, Close
<1>4. CASE Link(c) \/ RemoveTemp(c) \/ SyncDirectory(c) \/ SyncFails(c) \/ MoveFile(c)
  BY <1>4 DEF Link, RemoveTemp, SyncDirectory, SyncFails, MoveFile
<1>5. CASE CheckAgain(c) \/ RenameOver(c) \/ Succeed(c) \/ Cleanup(c)
  BY <1>5 DEF CheckAgain, RenameOver, Succeed, Cleanup
<1> QED BY <1>1, <1>2, <1>3, <1>4, <1>5 DEF Step

\* A call keeps its temporary name once it has one; it never goes back to its beginning,
\* once it has ended it takes no step, and from the try block it ends only through the
\* catch block or after its last statement.
LEMMA TempStays ==
    ASSUME TypeOK, NEW c \in Calls, Step(c)
    PROVE  /\ pc[c] # "done" /\ pc'[c] # "idle"
           /\ pc[c] # "temp" => temp'[c] = temp[c]
           /\ pc'[c] = "done" => pc[c] \in {"idle", "status", "header", "temp", "return"} \cup Catching
<1> USE DEF Catching, TypeOK, Goto, Return, Throw, ThrowLate, control, naming
<1>1. CASE Begin(c) \/ RejectEmptyPassword(c) \/ CheckOutput(c) \/ MakeHeader(c)
  BY <1>1 DEF Begin, RejectEmptyPassword, CheckOutput, MakeHeader
<1>2. CASE OpenTemp(c)
  BY <1>2 DEF OpenTemp, Draws, DrawFails, Collide, OpenFails, DescriptorFails, CreateTemp
<1>3. CASE OpenInput(c) \/ WritePiece(c) \/ PayloadFails(c) \/ Flush(c) \/ Close(c)
  BY <1>3 DEF OpenInput, WritePiece, PayloadFails, Flush, Close
<1>4. CASE Link(c) \/ RemoveTemp(c) \/ SyncDirectory(c) \/ SyncFails(c) \/ MoveFile(c)
  BY <1>4 DEF Link, RemoveTemp, SyncDirectory, SyncFails, MoveFile
<1>5. CASE CheckAgain(c) \/ RenameOver(c) \/ Succeed(c) \/ Cleanup(c)
  BY <1>5 DEF CheckAgain, RenameOver, Succeed, Cleanup
<1> QED BY <1>1, <1>2, <1>3, <1>4, <1>5 DEF Step

\* How a call moves on: it makes progress without a result, gives up, or ends.
LEMMA CallMoves ==
    ASSUME TypeOK, NEW c \in Calls, Step(c)
    PROVE  \/ /\ pc[c] \in Before /\ pc'[c] \in Before /\ code' = code
           \/ /\ pc[c] \in Before /\ pc'[c] \in After /\ code' = code
              /\ (Link(c) /\ pc'[c] = "unlink") \/ (MoveFile(c) /\ pc'[c] = "return")
                    \/ (RenameOver(c) /\ pc'[c] = "return")
           \/ /\ pc[c] \in Before /\ pc'[c] \in {"cleanup", "done"} /\ code'[c] \in Errors
           \/ RemoveTemp(c) \/ SyncDirectory(c) \/ SyncFails(c) \/ Succeed(c) \/ Cleanup(c)
<1> USE DEF TypeOK, Before, After, InFile, Errors, Goto, Return, Throw, ThrowLate, control, naming
<1>1. CASE Begin(c) \/ RejectEmptyPassword(c) \/ CheckOutput(c) \/ MakeHeader(c)
  BY <1>1 DEF Begin, RejectEmptyPassword, CheckOutput, MakeHeader
<1>2. CASE OpenTemp(c)
  BY <1>2 DEF OpenTemp, Draws, DrawFails, Collide, OpenFails, DescriptorFails, CreateTemp
<1>3. CASE OpenInput(c) \/ WritePiece(c) \/ PayloadFails(c) \/ Flush(c) \/ Close(c)
  BY <1>3 DEF OpenInput, WritePiece, PayloadFails, Flush, Close, InputErrors, PayloadErrors
<1>4. CASE Link(c)
  BY <1>4 DEF Link
<1>5. CASE MoveFile(c)
  BY <1>5 DEF MoveFile
<1>6. CASE CheckAgain(c) \/ RenameOver(c)
  BY <1>6 DEF CheckAgain, RenameOver
<1> QED BY <1>1, <1>2, <1>3, <1>4, <1>5, <1>6 DEF Step

\* What becomes of the directory: a file is created under a free temporary name, gets
\* a free output name, loses its temporary name, or the directory reaches the disk.
LEMMA DirectoryMoves ==
    ASSUME "generic" \notin Platforms, TypeOK, CommitInvariant, RenameIsGeneric, NEW c \in Calls, Step(c)
    PROVE  \/ UNCHANGED names /\ ~(pc[c] = "commit" /\ pc'[c] \in After)
           \/ /\ pc[c] = "temp"
              /\ \E t \in Tokens :
                    /\ ~Occupied(TempPath(out[c], t)) /\ Put(TempPath(out[c], t), c)
                    /\ (pc'[c] = "input" /\ temp'[c] = t) \/ pc'[c] = "done"
           \/ /\ pc[c] = "commit" /\ pc'[c] = "unlink"
              /\ ~Occupied(OutputOf(c)) /\ Put(OutputOf(c), c)
           \/ /\ pc[c] = "commit" /\ pc'[c] = "return"
              /\ ~Occupied(OutputOf(c))
              /\ dir' = [dir EXCEPT ![OutputOf(c)] = c, ![TempOf(c)] = NoFile]
              /\ disk' = [disk EXCEPT ![OutputOf(c)] = {c}, ![TempOf(c)] = {NoFile}]
           \/ pc[c] \in {"unlink", "cleanup", "late_cleanup"} /\ Put(TempOf(c), NoFile)
           \/ pc[c] = "dirsync" /\ dir' = dir /\ disk' = SyncedNames
<1> USE DEF TypeOK, After, Goto, Return, Throw, ThrowLate, naming
<1>1. CASE \/ Begin(c) \/ RejectEmptyPassword(c) \/ CheckOutput(c) \/ MakeHeader(c) \/ OpenInput(c)
           \/ WritePiece(c) \/ PayloadFails(c) \/ Flush(c) \/ Close(c) \/ CheckAgain(c) \/ Succeed(c)
  BY <1>1 DEF Begin, RejectEmptyPassword, CheckOutput, MakeHeader, OpenInput, WritePiece, PayloadFails,
              Flush, Close, CheckAgain, Succeed
<1>2. CASE OpenTemp(c)
  BY <1>2 DEF OpenTemp, Draws, DrawFails, Collide, OpenFails, DescriptorFails, CreateTemp
<1>own. pc[c] = "commit" => dir[TempOf(c)] = c /\ OutputOf(c) # TempOf(c)
                            /\ OutputOf(c) \in Paths /\ TempOf(c) \in Paths
  BY NamesAssumption, PathsDiffer, CallPaths
     DEF CommitInvariant, TempNamed, TempsOwned, Owns, InFile, InCommit, OutputOf, TempOf
<1>3. CASE Link(c)
  BY <1>3, <1>own DEF Link, Occupied, OutputTaken, InCommit
<1>4. CASE MoveFile(c)
  BY <1>4, <1>own DEF MoveFile, Moved, MovedThrough, Occupied, OutputTaken, InCommit
<1>5. CASE RenameOver(c)
  BY <1>5 DEF RenameOver, RenameIsGeneric
<1>6. CASE RemoveTemp(c) \/ Cleanup(c)
  BY <1>6 DEF RemoveTemp, Cleanup, Catching, RemoveQuietly
<1>7. CASE SyncDirectory(c) \/ SyncFails(c)
  BY <1>7 DEF SyncDirectory, SyncFails, names
<1> QED BY <1>1, <1>2, <1>3, <1>4, <1>5, <1>6, <1>7 DEF Step

\* Of the output names, a step of a call changes at most its own, and only from free to
\* its file; what the disk holds of a name is kept, extended or brought up to date.
LEMMA OutputMoves ==
    ASSUME "generic" \notin Platforms, TypeOK, CommitInvariant, RenameIsGeneric, NEW c \in Calls, Step(c),
           NEW o \in Outputs
    PROVE  \/ /\ dir'[Path(o)] = dir[Path(o)]
              /\ \/ disk'[Path(o)] = disk[Path(o)]
                 \/ pc[c] = "dirsync" /\ disk'[Path(o)] = {dir[Path(o)]}
              /\ ~(pc[c] = "commit" /\ pc'[c] \in After /\ o = out[c])
           \/ /\ pc[c] = "commit" /\ o = out[c]
              /\ dir[Path(o)] = NoFile /\ dir'[Path(o)] = c
              /\ \/ pc'[c] = "unlink" /\ disk'[Path(o)] = disk[Path(o)] \cup {c}
                 \/ pc'[c] = "return" /\ disk'[Path(o)] = {c}
<1> USE PathsDiffer DEF TypeOK, OutputOf, TempOf, Occupied, Put
<1>1. pc[c] \in {"commit", "unlink", "cleanup", "late_cleanup"} => temp[c] \in Tokens
  BY DEF CommitInvariant, TempNamed, InCommit, Catching
<1>2. Path(o) \in Paths /\ Path(out[c]) \in Paths /\ TempOf(c) \in Paths
  BY CallPaths
<1>3. CASE UNCHANGED names /\ ~(pc[c] = "commit" /\ pc'[c] \in After)
  BY <1>3 DEF names
<1>4. ASSUME NEW t \in Tokens, Put(TempPath(out[c], t), c), pc[c] = "temp"
      PROVE  dir'[Path(o)] = dir[Path(o)] /\ disk'[Path(o)] = disk[Path(o)]
  BY <1>4, <1>2
<1>5. CASE /\ pc[c] = "commit" /\ pc'[c] = "unlink"
           /\ ~Occupied(OutputOf(c)) /\ Put(OutputOf(c), c)
  BY <1>5, <1>2
<1>6. CASE /\ pc[c] = "commit" /\ pc'[c] = "return"
           /\ ~Occupied(OutputOf(c))
           /\ dir' = [dir EXCEPT ![OutputOf(c)] = c, ![TempOf(c)] = NoFile]
           /\ disk' = [disk EXCEPT ![OutputOf(c)] = {c}, ![TempOf(c)] = {NoFile}]
  BY <1>6, <1>1, <1>2
<1>7. CASE pc[c] \in {"unlink", "cleanup", "late_cleanup"} /\ Put(TempOf(c), NoFile)
  BY <1>7, <1>1, <1>2
<1>8. CASE pc[c] = "dirsync" /\ dir' = dir /\ disk' = SyncedNames
  BY <1>8, <1>2 DEF SyncedNames
<1> QED BY <1>3, <1>4, <1>5, <1>6, <1>7, <1>8, DirectoryMoves

\* Of the temporary names, a step of a call changes at most its own: it creates its file
\* there, or removes it.
LEMMA TempMoves ==
    ASSUME "generic" \notin Platforms, TypeOK, CommitInvariant, RenameIsGeneric, NEW c \in Calls, Step(c),
           NEW p \in TempPaths
    PROVE  \/ dir'[p] = dir[p] /\ disk'[p] \in {disk[p], {dir[p]}}
           \/ /\ pc[c] = "temp" /\ dir[p] = NoFile /\ dir'[p] = c /\ disk'[p] = disk[p] \cup {c}
              /\ \/ pc'[c] = "done"
                 \/ pc'[c] = "input" /\ temp'[c] \in Tokens /\ p = TempPath(out[c], temp'[c])
           \/ /\ pc[c] \in {"unlink", "cleanup", "late_cleanup"} /\ p = TempOf(c)
              /\ dir'[p] = NoFile /\ disk'[p] = disk[p] \cup {NoFile}
           \/ /\ pc[c] = "commit" /\ p = TempOf(c)
              /\ dir'[p] = NoFile /\ disk'[p] = {NoFile}
<1> USE PathsDiffer DEF TypeOK, OutputOf, TempOf, Occupied, Put
<1>1. p \in Paths /\ \A o \in Outputs : p # Path(o)
  BY NamesAssumption DEF TempPaths, Paths, Path
<1>2. OutputOf(c) \in Paths /\ TempOf(c) \in Paths
  BY CallPaths
<1>3. CASE UNCHANGED names
  BY <1>3 DEF names
<1>4. ASSUME NEW t \in Tokens, ~Occupied(TempPath(out[c], t)), Put(TempPath(out[c], t), c), pc[c] = "temp",
             (pc'[c] = "input" /\ temp'[c] = t) \/ pc'[c] = "done"
      PROVE  \/ dir'[p] = dir[p] /\ disk'[p] = disk[p]
             \/ /\ dir[p] = NoFile /\ dir'[p] = c /\ disk'[p] = disk[p] \cup {c}
                /\ \/ pc'[c] = "done"
                   \/ pc'[c] = "input" /\ temp'[c] \in Tokens /\ p = TempPath(out[c], temp'[c])
  BY <1>4, <1>1
<1>5. CASE Put(OutputOf(c), c)
  BY <1>5, <1>1, <1>2
<1>6. CASE /\ pc[c] = "commit"
           /\ dir' = [dir EXCEPT ![OutputOf(c)] = c, ![TempOf(c)] = NoFile]
           /\ disk' = [disk EXCEPT ![OutputOf(c)] = {c}, ![TempOf(c)] = {NoFile}]
  BY <1>6, <1>1, <1>2
<1>7. CASE pc[c] \in {"unlink", "cleanup", "late_cleanup"} /\ Put(TempOf(c), NoFile)
  BY <1>7, <1>1, <1>2
<1>8. CASE dir' = dir /\ disk' = SyncedNames
  BY <1>8, <1>1 DEF SyncedNames
<1> QED BY <1>3, <1>4, <1>5, <1>6, <1>7, <1>8, DirectoryMoves

-----------------------------------------------------------------------------
(* The strengthening is inductive.                                         *)

\* A step of a call keeps what is known of every result and every name.
LEMMA ResultStep ==
    ASSUME "generic" \notin Platforms, TypeOK, CommitInvariant, RenameIsGeneric, ResultInvariant,
           TypeOK', CommitInvariant', NEW c \in Calls, Step(c)
    PROVE  ResultInvariant'
<1> USE PathsDiffer, NamesAssumption DEF TypeOK
<1>others. /\ out' = out
           /\ \A d \in Calls \ {c} : pc'[d] = pc[d] /\ code'[d] = code[d] /\ temp'[d] = temp[d]
  BY OthersStay
<1>disk. (\A p \in Paths : dir[p] \in disk[p]) /\ (\A p \in Paths : dir'[p] \in disk'[p])
  BY DEF CommitInvariant, DiskComplete
<1>paths. \A d \in Calls : OutputOf(d) \in Paths /\ TempOf(d) \in Paths /\ OutputOf(d)' = OutputOf(d)
  BY <1>others, CallPaths DEF OutputOf
<1>1. ResultKnown'
  <2>1. CASE RemoveTemp(c) \/ SyncDirectory(c) \/ SyncFails(c) \/ Succeed(c) \/ Cleanup(c)
    BY <2>1, <1>others
       DEF ResultInvariant, ResultKnown, Before, After, InFile, Catching, Errors, RemoveTemp, SyncDirectory,
           SyncFails, SyncError, Succeed, Cleanup, Goto, Throw, ThrowLate, Return
  <2> QED
    BY <2>1, <1>others, CallMoves DEF ResultInvariant, ResultKnown, Before, After, InFile, Catching, Errors
<1>outs. \A o \in Outputs :
            \/ /\ dir'[Path(o)] = dir[Path(o)] /\ disk'[Path(o)] \in {disk[Path(o)], {dir[Path(o)]}}
               /\ ~(pc[c] = "commit" /\ pc'[c] \in After /\ o = out[c])
            \/ /\ pc[c] = "commit" /\ o = out[c]
               /\ dir[Path(o)] = NoFile /\ dir'[Path(o)] = c
               /\ \/ pc'[c] = "unlink" /\ disk'[Path(o)] = disk[Path(o)] \cup {c}
                  \/ pc'[c] = "return" /\ disk'[Path(o)] = {c}
  BY OutputMoves
<1>named. \A o \in Outputs, d \in Calls :
             d \in disk'[Path(o)] =>
                d \in disk[Path(o)] \/ (d = c /\ pc[c] = "commit" /\ pc'[c] \in {"unlink", "return"})
  <2>1. ASSUME NEW o \in Outputs, NEW d \in Calls, d \in disk'[Path(o)], d \notin disk[Path(o)]
        PROVE  d = c /\ pc[c] = "commit" /\ pc'[c] \in {"unlink", "return"}
    <3>1. dir[Path(o)] # d
      BY <2>1, <1>disk
    <3>2. CASE disk'[Path(o)] \in {disk[Path(o)], {dir[Path(o)]}}
      BY <2>1, <3>1, <3>2
    <3>3. CASE /\ pc[c] = "commit" /\ pc'[c] \in {"unlink", "return"}
               /\ disk'[Path(o)] \in {disk[Path(o)] \cup {c}, {c}}
      BY <2>1, <3>3
    <3> QED BY <3>2, <3>3, <1>outs
  <2> QED BY <2>1
<1>2. Unnamed'
  <2>1. ASSUME NEW d \in Calls, NEW o \in Outputs, d \in disk'[Path(o)],
               (pc'[d] \in Before \/ code'[d] \in Errors \ {"backend_failure"})
        PROVE  FALSE
    <3>1. d = c
      BY <2>1, <1>others, <1>named DEF ResultInvariant, Unnamed
    <3>2. pc[c] \notin Before \/ (pc[c] = "commit" /\ pc'[c] \in {"unlink", "return"})
      BY <2>1, <3>1, <1>named DEF ResultInvariant, Unnamed
    <3>3. code[c] \notin Errors \ {"backend_failure"}
      BY <2>1, <3>1, <1>named DEF ResultInvariant, Unnamed, ResultKnown, Before, Catching, Errors
    <3>4. CASE RemoveTemp(c) \/ SyncDirectory(c) \/ SyncFails(c) \/ Succeed(c) \/ Cleanup(c)
      BY <2>1, <3>1, <3>2, <3>3, <3>4
         DEF Before, InFile, Errors, RemoveTemp, SyncDirectory, SyncFails, SyncError, Succeed, Cleanup,
             Goto, Throw, ThrowLate, Return
    <3> QED BY <2>1, <3>1, <3>2, <3>3, <3>4, CallMoves DEF Before, After, InFile, Errors
  <2> QED BY <2>1 DEF Unnamed
<1>moves. /\ pc[c] # "done"
          /\ pc[c] # "temp" => temp'[c] = temp[c]
  BY TempStays
<1>ends. /\ pc'[c] = "unlink" => pc[c] = "commit"
         /\ pc'[c] = "dirsync" => RemoveTemp(c)
         /\ pc'[c] = "return" => pc[c] = "commit" \/ SyncDirectory(c)
         /\ code'[c] = "ok" => Succeed(c)
         /\ pc[c] \in {"unlink", "dirsync", "return"} => code[c] # "ok"
  <2>1. CASE RemoveTemp(c) \/ SyncDirectory(c) \/ SyncFails(c) \/ Succeed(c) \/ Cleanup(c)
    BY <2>1 DEF ResultInvariant, ResultKnown, Before, After, Catching, Errors, RemoveTemp, SyncDirectory, SyncFails,
                SyncError, Succeed, Cleanup, Goto, Throw, ThrowLate, Return
  <2> QED BY <2>1, CallMoves DEF ResultInvariant, ResultKnown, Before, After, InFile, Catching, Errors, Link,
                                 MoveFile, RenameOver, RenameIsGeneric
<1>commits. pc[c] = "commit" /\ pc'[c] \in {"unlink", "return"} =>
               dir'[OutputOf(c)] = c /\ (pc'[c] = "return" => disk'[OutputOf(c)] = {c})
  BY <1>outs DEF OutputOf, After
<1>3. NameKept'
  <2>1. ASSUME NEW d \in Calls, pc'[d] \in {"unlink", "dirsync"}
        PROVE  dir'[OutputOf(d)] = d \/ May("foreign_remove")
    <3>1. CASE d # c
      <4>1. dir[OutputOf(d)] = d \/ May("foreign_remove")
        BY <2>1, <3>1, <1>others DEF ResultInvariant, NameKept
      <4>2. out[d] \in Outputs /\ out'[d] = out[d] /\ d # NoFile
        BY <1>others
      <4> QED BY <4>1, <4>2, <1>outs DEF OutputOf
    <3>2. CASE d = c /\ pc'[c] = "unlink"
      BY <3>2, <1>commits, <1>ends, <1>others DEF OutputOf
    <3>3. CASE d = c /\ RemoveTemp(c)
      <4>1. dir[OutputOf(c)] = c \/ May("foreign_remove")
        BY <3>3 DEF ResultInvariant, NameKept, RemoveTemp
      <4> QED BY <3>3, <4>1, <1>outs, <1>others DEF OutputOf, RemoveTemp
    <3> QED BY <2>1, <3>1, <3>2, <3>3, <1>ends
  <2>2. ASSUME NEW d \in Calls, pc'[d] = "return" \/ code'[d] = "ok"
        PROVE  disk'[OutputOf(d)] = {d} \/ (May("foreign_remove") /\ dir'[OutputOf(d)] # d)
    <3>1. CASE d # c
      BY <2>2, <3>1, <1>others, <1>outs, <1>disk DEF ResultInvariant, NameKept, OutputOf
    <3>2. CASE d = c /\ pc[c] = "commit"
      BY <2>2, <3>2, <1>commits, <1>ends DEF Succeed
    <3>3. CASE d = c /\ SyncDirectory(c)
      BY <2>2, <3>3 DEF ResultInvariant, NameKept, OutputOf, SyncDirectory, SyncedNames
    <3>4. CASE d = c /\ Succeed(c)
      BY <2>2, <3>4 DEF ResultInvariant, NameKept, OutputOf, Succeed, names
    <3> QED BY <2>2, <3>1, <3>2, <3>3, <3>4, <1>ends
  <2> QED BY <2>1, <2>2, <1>others DEF NameKept, OutputOf
<1>temps. \A p \in TempPaths :
             \/ dir'[p] = dir[p] /\ disk'[p] \in {disk[p], {dir[p]}}
             \/ /\ pc[c] = "temp" /\ dir[p] = NoFile /\ dir'[p] = c /\ disk'[p] = disk[p] \cup {c}
                /\ \/ pc'[c] = "done"
                   \/ pc'[c] = "input" /\ temp'[c] \in Tokens /\ p = TempPath(out[c], temp'[c])
             \/ /\ pc[c] \in {"unlink", "cleanup", "late_cleanup"} /\ p = TempOf(c)
                /\ dir'[p] = NoFile /\ disk'[p] = disk[p] \cup {NoFile}
             \/ /\ pc[c] = "commit" /\ p = TempOf(c)
                /\ dir'[p] = NoFile /\ disk'[p] = {NoFile}
  BY TempMoves
<1>tempdisk. \A p \in TempPaths : dir[p] \in disk[p]
  BY <1>disk DEF TempPaths, Paths
<1>4. OneTemp'
  <2>1. ASSUME NEW d \in Calls, NEW p \in TempPaths, d \in disk'[p], pc'[d] # "done"
        PROVE  temp'[d] \in Tokens /\ p = TempPath(out[d], temp'[d])
    <3>1. CASE d # c
      BY <2>1, <3>1, <1>others, <1>temps, <1>tempdisk DEF ResultInvariant, OneTemp, TempOf
    <3>2. CASE d = c /\ pc[c] = "temp"
      <4>1. temp[c] = NoSuffix
        BY <3>2 DEF CommitInvariant, TempNamed
      <4>2. c \notin disk[p] /\ c # dir[p]
        BY <3>2, <4>1, <1>tempdisk DEF ResultInvariant, OneTemp
      <4>3. out'[c] = out[c]
        BY <1>others
      <4>4. c \in disk'[p] /\ pc'[c] # "done" /\ c # NoFile
        BY <2>1, <3>2, NamesAssumption
      <4>5. pc'[c] = "input" /\ temp'[c] \in Tokens /\ p = TempPath(out[c], temp'[c])
        <5>1. CASE dir'[p] = dir[p] /\ disk'[p] \in {disk[p], {dir[p]}}
          BY <4>2, <4>4, <5>1
        <5> QED BY <3>2, <4>4, <5>1, <1>temps
      <4> QED BY <3>2, <4>3, <4>5
    <3>3. CASE d = c /\ pc[c] # "temp"
      <4>1. disk'[p] \in {disk[p], {dir[p]}, disk[p] \cup {NoFile}, {NoFile}}
        BY <3>3, <1>temps
      <4>2. c # NoFile /\ dir[p] \in disk[p] /\ c \in disk'[p]
        BY <2>1, <3>3, <1>tempdisk, NamesAssumption
      <4>3. c \in disk[p]
        BY <4>1, <4>2
      <4>4. pc[c] # "done" /\ out'[c] = out[c] /\ temp'[c] = temp[c]
        BY <3>3, <1>moves, <1>others
      <4> QED BY <3>3, <4>3, <4>4 DEF ResultInvariant, OneTemp, TempOf
    <3> QED BY <3>1, <3>2, <3>3
  <2> QED BY <2>1, <1>others DEF OneTemp, TempOf
<1>5. TempGone'
  <2>1. ASSUME NEW d \in Calls, pc'[d] = "dirsync", ~May("unlink"), NEW p \in TempPaths
        PROVE  dir'[p] # d
    <3>1. CASE d # c
      <4>1. dir[p] # d
        BY <2>1, <3>1, <1>others DEF ResultInvariant, TempGone
      <4> QED BY <3>1, <4>1, <1>temps
    <3>2. CASE d = c
      <4>1. RemoveTemp(c) /\ TempOf(c) \in Paths
        BY <2>1, <3>2, <1>ends, <1>paths
      <4>2. dir'[TempOf(c)] = NoFile
        BY <2>1, <4>1 DEF RemoveTemp, RemoveQuietly, Put
      <4>3. dir[p] = c => p = TempOf(c)
        BY <4>1, <1>tempdisk DEF ResultInvariant, OneTemp, RemoveTemp
      <4> QED BY <3>2, <4>1, <4>2, <4>3, <1>temps DEF RemoveTemp
    <3> QED BY <3>1, <3>2
  <2>2. ASSUME NEW d \in Calls, pc'[d] = "return" \/ code'[d] = "ok", ~May("unlink"), NEW p \in TempPaths
        PROVE  d \notin disk'[p]
    <3>1. CASE d # c
      <4>1. d \notin disk[p] /\ d # dir[p]
        <5>1. pc[d] = "return" \/ code[d] = "ok"
          BY <2>2, <3>1, <1>others
        <5>2. d \notin disk[p]
          BY <2>2, <5>1 DEF ResultInvariant, TempGone
        <5> QED BY <5>2, <1>tempdisk
      <4>2. disk'[p] \in {disk[p], {dir[p]}, disk[p] \cup {c}, disk[p] \cup {NoFile}, {NoFile}}
        BY <1>temps
      <4> QED BY <3>1, <4>1, <4>2
    <3>2. CASE d = c /\ pc[c] = "commit" /\ pc'[c] = "return"
      <4>1. MoveFile(c) /\ disk'[TempOf(c)] = {NoFile}
        <5>1. MoveFile(c)
          BY <3>2, CallMoves
             DEF Before, After, InFile, RenameOver, RemoveTemp, SyncDirectory, SyncFails, Succeed, Cleanup
        <5> QED BY <3>2, <5>1, <1>paths DEF MoveFile, MovedThrough, Throw
      <4>2. c \in disk[p] => p = TempOf(c)
        BY <3>2 DEF ResultInvariant, OneTemp
      <4>3. CASE p = TempOf(c)
        BY <3>2, <4>1, <4>3
      <4>4. CASE p # TempOf(c)
        <5>1. c \notin disk[p] /\ dir[p] # c
          BY <4>2, <4>4, <1>tempdisk
        <5>2. disk'[p] \in {disk[p], {dir[p]}}
          BY <3>2, <4>4, <1>temps
        <5> QED BY <3>2, <5>1, <5>2
      <4> QED BY <4>3, <4>4
    <3>3. CASE d = c /\ SyncDirectory(c)
      BY <2>2, <3>3, <1>tempdisk DEF ResultInvariant, TempGone, SyncDirectory, SyncedNames, TempPaths, Paths
    <3>4. CASE d = c /\ Succeed(c)
      BY <2>2, <3>4 DEF ResultInvariant, TempGone, Succeed, names
    <3> QED BY <2>2, <3>1, <3>2, <3>3, <3>4, <1>ends
  <2> QED BY <2>1, <2>2, <1>others DEF TempGone
<1> QED BY <1>1, <1>2, <1>3, <1>4, <1>5 DEF ResultInvariant

\* Other processes, a killed process and a power loss keep it as well.
LEMMA ResultEnvironment ==
    ASSUME TypeOK, CommitInvariant, ResultInvariant, Environment
    PROVE  ResultInvariant'
<1> USE PathsDiffer, NamesAssumption DEF TypeOK
<1>disk. \A p \in Paths : dir[p] \in disk[p]
  BY DEF CommitInvariant, DiskComplete
<1>paths. TempPaths \subseteq Paths /\ \A c \in Calls : OutputOf(c) \in Paths
  BY CallPaths DEF TempPaths, Paths
<1>1. ASSUME NEW p \in Paths, ForeignCreates(p) \/ ForeignRemoves(p) PROVE ResultInvariant'
  <2>1. UNCHANGED <<pc, code, out, temp>>
    BY <1>1 DEF ForeignCreates, ForeignRemoves, control, naming
  <2>2. PICK e \in {Foreign, NoFile} : Put(p, e)
    BY <1>1 DEF ForeignCreates, ForeignRemoves
  <2>3. (ForeignCreates(p) /\ dir[p] = NoFile) \/ May("foreign_remove")
    BY <1>1 DEF ForeignCreates, ForeignRemoves, Occupied
  <2>4. \A q \in Paths, c \in Calls : (c \in disk'[q] <=> c \in disk[q]) /\ (dir'[q] = c => dir[q] = c)
    BY <2>2 DEF Put
  <2>5. \A q \in Paths : q # p => dir'[q] = dir[q] /\ disk'[q] = disk[q]
    BY <2>2 DEF Put
  <2>6. ResultKnown' /\ Unnamed'
    BY <2>1, <2>4 DEF ResultInvariant, ResultKnown, Unnamed
  <2>7. NameKept'
    <3>1. ASSUME NEW c \in Calls, pc[c] \in {"unlink", "dirsync"}, ~May("foreign_remove")
          PROVE  dir'[OutputOf(c)] = c
      <4>1. dir[OutputOf(c)] = c
        BY <3>1 DEF ResultInvariant, NameKept
      <4> QED BY <2>3, <2>5, <3>1, <4>1, <1>paths
    <3>2. ASSUME NEW c \in Calls, pc[c] = "return" \/ code[c] = "ok"
          PROVE  disk'[OutputOf(c)] = {c} \/ (May("foreign_remove") /\ dir'[OutputOf(c)] # c)
      <4>1. disk[OutputOf(c)] = {c} \/ (May("foreign_remove") /\ dir[OutputOf(c)] # c)
        BY <3>2 DEF ResultInvariant, NameKept
      <4>2. CASE OutputOf(c) # p
        BY <2>5, <4>1, <4>2, <1>paths
      <4>3. CASE OutputOf(c) = p
        <5>1. May("foreign_remove")
          BY <2>3, <4>1, <4>3, <1>disk
        <5> QED BY <2>2, <4>3, <5>1 DEF Put
      <4> QED BY <4>2, <4>3
    <3> QED BY <2>1, <3>1, <3>2 DEF NameKept, OutputOf
  <2>8. OneTemp' /\ TempGone'
    BY <2>1, <2>4, <1>paths DEF ResultInvariant, OneTemp, TempGone, TempOf
  <2> QED BY <2>6, <2>7, <2>8 DEF ResultInvariant
<1>2. ASSUME NEW c \in Calls, Kill(c) PROVE ResultInvariant'
  <2>1. /\ UNCHANGED <<code, out, temp, dir, disk>>
        /\ pc' = [pc EXCEPT ![c] = "dead"] /\ pc[c] \notin {"idle", "done", "dead"}
    BY <1>2 DEF Kill, Goto, Live, Ended, naming, names
  <2>2. ResultKnown' /\ Unnamed'
    BY <2>1 DEF ResultInvariant, ResultKnown, Unnamed, Before, After, Labels, Catching, InFile, InCommit, Errors
  <2>3. NameKept' /\ TempGone'
    BY <2>1 DEF ResultInvariant, NameKept, TempGone, OutputOf
  <2>4. OneTemp'
    BY <2>1 DEF ResultInvariant, OneTemp, TempOf
  <2> QED BY <2>2, <2>3, <2>4 DEF ResultInvariant
<1>3. CASE PowerLoss
  <2>1. /\ UNCHANGED <<code, out, temp>>
        /\ \A c \in Calls : pc'[c] = IF pc[c] \in {"idle", "done", "dead"} THEN pc[c] ELSE "dead"
    BY <1>3 DEF PowerLoss, Live, Ended, naming
  <2>2. \A p \in Paths : disk'[p] = {dir'[p]} /\ dir'[p] \in disk[p]
    BY <1>3 DEF PowerLoss
  <2>3. ResultKnown'
    BY <2>1 DEF ResultInvariant, ResultKnown, Before, After, Labels, Catching, InFile, InCommit, Errors
  <2>4. Unnamed'
    BY <2>1, <2>2 DEF ResultInvariant, ResultKnown, Unnamed, Before, InFile
  <2>5. NameKept'
    <3>1. ASSUME NEW c \in Calls, code[c] = "ok"
          PROVE  disk'[OutputOf(c)] = {c} \/ (May("foreign_remove") /\ dir'[OutputOf(c)] # c)
      <4>1. disk[OutputOf(c)] = {c} \/ May("foreign_remove")
        BY <3>1 DEF ResultInvariant, NameKept
      <4>2. disk'[OutputOf(c)] = {dir'[OutputOf(c)]} /\ dir'[OutputOf(c)] \in disk[OutputOf(c)]
        BY <2>2, <1>paths
      <4> QED BY <4>1, <4>2
    <3> QED BY <2>1, <3>1 DEF NameKept, OutputOf
  <2>6. OneTemp' /\ TempGone'
    BY <2>1, <2>2, <1>paths DEF ResultInvariant, OneTemp, TempGone, TempOf
  <2> QED BY <2>3, <2>4, <2>5, <2>6 DEF ResultInvariant
<1> QED BY <1>1, <1>2, <1>3 DEF Environment

\* Everything the theorems below rest on.
FullInvariant == TypeOK /\ CommitInvariant /\ RenameIsGeneric /\ ResultInvariant

\* The strengthening holds in every reachable state.
THEOREM ResultInvariantHolds ==
    ASSUME "generic" \notin Platforms, ~May("token")
    PROVE  Spec => []FullInvariant
<1> DEFINE Base == TypeOK /\ CommitInvariant /\ RenameIsGeneric
<1>1. Spec => []Base
  BY CommitInvariantHolds, NamingHolds, PTL
<1>2. Init => ResultInvariant
  BY ResultInit
<1>3. Base /\ Base' /\ ResultInvariant /\ [Next]_vars => ResultInvariant'
  <2> SUFFICES ASSUME Base, Base', ResultInvariant, [Next]_vars PROVE ResultInvariant'
    OBVIOUS
  <2>1. ASSUME NEW c \in Calls, Step(c) PROVE ResultInvariant'
    BY <2>1, ResultStep
  <2>2. CASE Environment
    BY <2>2, ResultEnvironment
  <2>3. CASE UNCHANGED vars
    BY <2>3 DEF vars, ResultInvariant, ResultKnown, Unnamed, NameKept, OneTemp, TempGone, OutputOf, TempOf
  <2> QED BY <2>1, <2>2, <2>3 DEF Next, Finished
<1> HIDE DEF Base
<1>4. Base /\ ResultInvariant => FullInvariant
  BY DEF Base, FullInvariant
<1> QED BY <1>1, <1>2, <1>3, <1>4, PTL DEF Spec

-----------------------------------------------------------------------------
(* What a result tells.                                                    *)

\* A call that failed for any reason but the backend has left nothing under any output
\* name, and no power loss brings it there.
THEOREM FailuresCommitNothing ==
    ASSUME "generic" \notin Platforms, ~May("token")
    PROVE  Spec => []FailureCommitsNothing
<1>1. FullInvariant => FailureCommitsNothing
  BY DEF FullInvariant, ResultInvariant, Unnamed, FailureCommitsNothing
<1> QED BY <1>1, ResultInvariantHolds, PTL

\* A call that returned ok has its file on the disk under the output name, and its
\* temporary name cannot come back.
THEOREM OkMeansDurable ==
    ASSUME "generic" \notin Platforms, ~May("token")
    PROVE  Spec => []OkIsDurable
<1>1. FullInvariant => OkIsDurable
  BY DEF FullInvariant, ResultInvariant, NameKept, TempGone, OkIsDurable
<1> QED BY <1>1, ResultInvariantHolds, PTL

\* No step of a call replaces or removes a temporary file it did not make, except the
\* second removal of a name that was given up before the directory failed to sync.
THEOREM RemovesOnlyItsOwn ==
    ASSUME "generic" \notin Platforms, ~May("token")
    PROVE  Spec => RemovesOnlyOwn
<1> DEFINE Kept(c) == \A p \in TempPaths : dir[p] \notin {NoFile, c} =>
                         dir'[p] = dir[p] \/ (pc[c] = "late_cleanup" /\ p = TempOf(c))
<1>1. ASSUME FullInvariant, NEW c \in Calls, Step(c) PROVE Kept(c)
  <2>1. ASSUME NEW p \in TempPaths, dir[p] \notin {NoFile, c}
        PROVE  dir'[p] = dir[p] \/ (pc[c] = "late_cleanup" /\ p = TempOf(c))
    <3>1. pc[c] \in {"unlink", "cleanup", "commit"} => dir[TempOf(c)] = c
      BY <1>1 DEF FullInvariant, CommitInvariant, TempsOwned, Owns
    <3> QED BY <1>1, <2>1, <3>1, TempMoves DEF FullInvariant, Catching
  <2> QED BY <2>1
<1>2. FullInvariant /\ [Next]_vars => [\A c \in Calls : Step(c) => Kept(c)]_vars
  BY <1>1
<1> QED BY <1>2, ResultInvariantHolds, PTL DEF Spec, RemovesOnlyOwn

\* When a call returns, with or without an error, its temporary name is gone, unless
\* remove() failed or the new descriptor could not become a stream.
THEOREM ReturnsRemoveTheirTemp ==
    ASSUME "generic" \notin Platforms, ~May("token"), ~May("unlink"), ~May("fdopen")
    PROVE  Spec => ReturnRemovesTemp
<1> DEFINE Gone == \A c \in Calls : pc[c] # "done" /\ pc'[c] = "done" => \A p \in TempPaths : dir'[p] # c
<1>1. ASSUME FullInvariant, NEW c \in Calls, Step(c), pc'[c] = "done", NEW p \in TempPaths, dir'[p] = c
      PROVE  FALSE
  <2> USE <1>1 DEF FullInvariant
  <2>1. dir[p] = c
    <3>1. CASE pc[c] = "temp"
      <4>1. UNCHANGED names
        BY <3>1 DEF Step, TypeOK, OpenTemp, Draws, DrawFails, Collide, OpenFails, DescriptorFails, CreateTemp,
                    Begin, RejectEmptyPassword, CheckOutput, MakeHeader, OpenInput, WritePiece, PayloadFails,
                    Flush, Close, Link, RemoveTemp, SyncDirectory, SyncFails, MoveFile, CheckAgain, RenameOver,
                    Succeed, Cleanup, Catching, Goto
      <4> QED BY <4>1 DEF names
    <3> QED BY <3>1, TempMoves, NamesAssumption
  <2>2. temp[c] \in Tokens /\ p = TempOf(c) /\ c \in disk[p]
    <3>1. c \in disk[p]
      BY <2>1 DEF CommitInvariant, DiskComplete, TempPaths, Paths
    <3> QED BY <3>1, TempStays DEF ResultInvariant, OneTemp
  <2>3. pc[c] \in {"return"} \cup Catching
    BY <2>2, TempStays, NamesAssumption DEF CommitInvariant, TempNamed
  <2>4. pc[c] \in Catching
    BY <2>2, <2>3 DEF ResultInvariant, TempGone
  <2>5. Cleanup(c)
    BY <2>4 DEF Catching, Step, OpenTemp, Draws, DrawFails, Collide, OpenFails, DescriptorFails, CreateTemp,
                Begin, RejectEmptyPassword, CheckOutput, MakeHeader, OpenInput, WritePiece, PayloadFails,
                Flush, Close, Link, RemoveTemp, SyncDirectory, SyncFails, MoveFile, CheckAgain, RenameOver,
                Succeed
  <2>6. TempOf(c) \in Paths
    BY CallPaths
  <2> QED BY <2>2, <2>5, <2>6, NamesAssumption DEF Cleanup, RemoveQuietly, Put, TypeOK
<1>2. FullInvariant /\ [Next]_vars => [Gone]_vars
  <2> SUFFICES ASSUME FullInvariant, [Next]_vars, NEW c \in Calls, pc[c] # "done", pc'[c] = "done",
                      NEW p \in TempPaths, dir'[p] = c
               PROVE  FALSE
    OBVIOUS
  <2>1. CASE Step(c)
    BY <2>1, <1>1
  <2>2. ASSUME NEW d \in Calls, Step(d), d # c PROVE FALSE
    BY <2>2, OthersStay DEF FullInvariant
  <2>3. CASE Environment
    BY <2>3 DEF Environment, ForeignCreates, ForeignRemoves, Kill, PowerLoss, Goto, control, FullInvariant, TypeOK
  <2>4. CASE UNCHANGED vars
    BY <2>4 DEF vars
  <2> QED BY <2>1, <2>2, <2>3, <2>4 DEF Next, Finished
<1> QED BY <1>2, ResultInvariantHolds, PTL DEF Spec, ReturnRemovesTemp

-----------------------------------------------------------------------------
(* The refinement mapping under the invariant.                             *)

\* What the place and the result of a call say of it.
CallsShown ==
    \A c \in Calls :
        /\ pc[c] = "idle" => CallsSeen[c] = "idle"
        /\ pc[c] \in Before \ {"idle"} => CallsSeen[c] = "running"
        /\ pc[c] \in After => CallsSeen[c] = "committed"
        /\ code[c] \in Errors => CallsSeen[c] = "failed"
        /\ pc[c] = "dead" /\ code[c] \notin Errors => CallsSeen[c] = "dead"
        /\ code[c] = "ok" => CallsSeen[c] = "ok"

\* No output name refers to a torn file, so the names are seen as they are.
NamesShown ==
    /\ NamesSeen = [o \in Outputs |-> dir[Path(o)]]
    /\ DiskSeen = [o \in Outputs |-> disk[Path(o)]]

\* The invariant, and with it the mapping.
ShownInvariant == FullInvariant /\ CallsShown /\ NamesShown

\* The invariant fixes what is seen of every call and of every name.
LEMMA FullIsShown == FullInvariant => ShownInvariant
<1> SUFFICES ASSUME FullInvariant PROVE CallsShown /\ NamesShown
  BY DEF ShownInvariant
<1>1. ASSUME NEW c \in Calls
      PROVE  /\ pc[c] = "idle" => Outcome(c) = "idle"
             /\ pc[c] \in Before \ {"idle"} => Outcome(c) = "running"
             /\ pc[c] \in After => Outcome(c) = "committed"
             /\ code[c] \in Errors => Outcome(c) = "failed"
             /\ pc[c] = "dead" /\ code[c] \notin Errors => Outcome(c) = "dead"
             /\ code[c] = "ok" => Outcome(c) = "ok"
  <2> USE DEF FullInvariant, TypeOK, ResultInvariant, ResultKnown, Outcome, Before, After, InFile, Errors
  <2>1. pc[c] = "idle" => Outcome(c) = "idle"
    OBVIOUS
  <2>2. pc[c] \in Before \ {"idle"} => Outcome(c) = "running"
    OBVIOUS
  <2>3. pc[c] \in After => Outcome(c) = "committed"
    OBVIOUS
  <2>4. code[c] \in Errors => Outcome(c) = "failed"
    OBVIOUS
  <2>5. pc[c] = "dead" /\ code[c] \notin Errors => Outcome(c) = "dead"
    OBVIOUS
  <2>6. code[c] = "ok" => Outcome(c) = "ok"
    OBVIOUS
  <2> QED BY <2>1, <2>2, <2>3, <2>4, <2>5, <2>6
<1>2. ASSUME NEW o \in Outputs
      PROVE  Whole(dir[Path(o)]) = dir[Path(o)] /\ {Whole(e) : e \in disk[Path(o)]} = disk[Path(o)]
  <2>1. ASSUME NEW e \in disk[Path(o)] PROVE Whole(e) = e
    BY <2>1, PiecesAssumption
       DEF FullInvariant, TypeOK, CommitInvariant, SyncedBeforeCommit, DiskComplete, Whole
  <2>2. dir[Path(o)] \in disk[Path(o)]
    BY PathsDiffer DEF FullInvariant, CommitInvariant, DiskComplete
  <2> QED BY <2>1, <2>2
<1>3. CallsShown
  BY <1>1 DEF CallsShown, CallsSeen
<1>4. NamesShown
  BY <1>2 DEF NamesShown, NamesSeen, DiskSeen
<1> QED BY <1>3, <1>4

\* The mapping holds in every reachable state.
LEMMA ShownInvariantHolds ==
    ASSUME "generic" \notin Platforms, ~May("token")
    PROVE  Spec => []ShownInvariant
BY ResultInvariantHolds, FullIsShown, PTL

\* The initial states map to initial states.
LEMMA RefinedInit == Init => Promise!Init
<1> SUFFICES ASSUME Init PROVE Promise!Init
  OBVIOUS
<1>1. ShownInvariant
  BY TypeInit, CommitInit, ResultInit, FullIsShown DEF FullInvariant, RenameIsGeneric, Init
<1>2. NamesSeen = [o \in Outputs |-> NoFile] /\ DiskSeen = [o \in Outputs |-> {NoFile}]
  BY <1>1, PathsDiffer DEF Init, ShownInvariant, NamesShown
<1>3. CallsSeen = [c \in Calls |-> "idle"]
  <2>1. \A c \in Calls : CallsSeen[c] = "idle"
    BY <1>1 DEF Init, ShownInvariant, CallsShown
  <2> QED BY <2>1 DEF CallsSeen
<1> QED BY <1>2, <1>3 DEF Init, Promise!Init

-----------------------------------------------------------------------------
(* Every step maps to a step or a stutter.                                 *)

\* A step of a call changes what is seen of that call only, and of the output names at
\* most its own.
LEMMA SeenMoves ==
    ASSUME "generic" \notin Platforms, ShownInvariant, ShownInvariant', NEW c \in Calls, Step(c)
    PROVE  /\ CallsSeen' = [CallsSeen EXCEPT ![c] = CallsSeen'[c]]
           /\ code' = [code EXCEPT ![c] = code'[c]]
           /\ out' = out
           /\ \/ /\ NamesSeen' = NamesSeen
                 /\ \E S \in SUBSET Outputs : Promise!Sync(S)
                 /\ DiskSeen' = DiskSeen \/ pc[c] = "dirsync"
                 /\ ~(pc[c] = "commit" /\ pc'[c] \in After)
              \/ pc[c] = "commit" /\ Promise!Commit(c)
<1> USE DEF ShownInvariant, FullInvariant
<1>1. CallsSeen' = [CallsSeen EXCEPT ![c] = CallsSeen'[c]]
  <2>1. ASSUME NEW d \in Calls, d # c PROVE CallsSeen'[d] = CallsSeen[d]
    BY <2>1, OthersStay DEF CallsSeen, Outcome
  <2> QED BY <2>1 DEF CallsSeen
<1>2. out' = out /\ code' = [code EXCEPT ![c] = code'[c]]
  BY OthersStay DEF TypeOK
<1>3. CASE pc[c] = "commit" /\ pc'[c] \in After
  <2> DEFINE o == out[c]
  <2>1. o \in Outputs /\ CallsSeen[c] = "running" /\ CallsSeen'[c] = "committed"
    BY <1>3 DEF TypeOK, CallsShown, Before
  <2>2. /\ dir[Path(o)] = NoFile /\ dir'[Path(o)] = c
        /\ disk'[Path(o)] \in {disk[Path(o)] \cup {c}, {c}}
    BY <1>3, <2>1, OutputMoves
  <2>3. ASSUME NEW u \in Outputs \ {o} PROVE dir'[Path(u)] = dir[Path(u)] /\ disk'[Path(u)] = disk[Path(u)]
    BY <1>3, OutputMoves
  <2>4. NamesSeen[o] = NoFile /\ NamesSeen' = [NamesSeen EXCEPT ![o] = c]
    BY <2>1, <2>2, <2>3 DEF NamesShown
  <2>5. DiskSeen' \in {[DiskSeen EXCEPT ![o] = @ \cup {c}], [DiskSeen EXCEPT ![o] = {c}]}
    BY <2>1, <2>2, <2>3 DEF NamesShown
  <2>6. code' = code
    BY <1>3, CallMoves DEF Before, After, InFile, RemoveTemp, SyncDirectory, SyncFails, Succeed, Cleanup
  <2> QED BY <1>1, <1>2, <1>3, <2>1, <2>4, <2>5, <2>6 DEF Promise!Commit
<1>4. CASE ~(pc[c] = "commit" /\ pc'[c] \in After)
  <2>1. ASSUME NEW o \in Outputs
        PROVE  /\ dir'[Path(o)] = dir[Path(o)]
               /\ \/ disk'[Path(o)] = disk[Path(o)]
                  \/ pc[c] = "dirsync" /\ disk'[Path(o)] = {dir[Path(o)]}
    BY <1>4, OutputMoves DEF After
  <2>2. NamesSeen' = NamesSeen
    BY <2>1 DEF NamesShown
  <2>3. DiskSeen' = DiskSeen \/ pc[c] = "dirsync"
    BY <2>1 DEF NamesShown
  <2>4. \E S \in SUBSET Outputs : Promise!Sync(S)
    <3>1. WITNESS {o \in Outputs : disk'[Path(o)] = {dir[Path(o)]}} \in SUBSET Outputs
    <3> QED BY <2>1 DEF Promise!Sync, NamesShown
  <2> QED BY <1>1, <1>2, <1>4, <2>2, <2>3, <2>4
<1> QED BY <1>1, <1>2, <1>3, <1>4

\* Each step of a call is a step of AtomicOutput or changes nothing that is seen.
LEMMA RefinedStep ==
    ASSUME "generic" \notin Platforms, ShownInvariant, ShownInvariant', NEW c \in Calls, Step(c)
    PROVE  Promise!Next \/ UNCHANGED Promise!vars
<1> USE DEF ShownInvariant, FullInvariant
<1>moves. /\ CallsSeen' = [CallsSeen EXCEPT ![c] = CallsSeen'[c]]
          /\ code' = [code EXCEPT ![c] = code'[c]]
          /\ out' = out
          /\ \/ /\ NamesSeen' = NamesSeen
                /\ \E S \in SUBSET Outputs : Promise!Sync(S)
                /\ DiskSeen' = DiskSeen \/ pc[c] = "dirsync"
                /\ ~(pc[c] = "commit" /\ pc'[c] \in After)
             \/ pc[c] = "commit" /\ Promise!Commit(c)
  BY SeenMoves
<1>fun. CallsSeen = [CallsSeen EXCEPT ![c] = CallsSeen[c]] /\ code = [code EXCEPT ![c] = code[c]]
  BY DEF CallsSeen, TypeOK
<1>1. CASE Promise!Commit(c)
  BY <1>1 DEF Promise!Next
<1> SUFFICES ASSUME ~Promise!Commit(c) PROVE Promise!Next \/ UNCHANGED Promise!vars
  BY <1>1
<1>2. CASE pc[c] \in Before /\ pc'[c] \in Before /\ code' = code
  <2>1. CallsSeen'[c] = "running" /\ DiskSeen' = DiskSeen
    BY <1>2, <1>moves, TempStays DEF CallsShown, Before, InFile
  <2>2. CASE pc[c] = "idle"
    <3>1. Promise!Start(c)
      BY <1>2, <1>moves, <2>1, <2>2 DEF Promise!Start, CallsShown
    <3> QED BY <3>1 DEF Promise!Next
  <2>3. CASE pc[c] # "idle"
    BY <1>2, <1>moves, <1>fun, <2>1, <2>3 DEF Promise!vars, CallsShown
  <2> QED BY <2>2, <2>3
<1>3. CASE pc[c] \in Before /\ pc'[c] \in {"cleanup", "done"} /\ code'[c] \in Errors
  <2>1. CallsSeen[c] \in {"idle", "running"} /\ CallsSeen'[c] = "failed"
    BY <1>3 DEF CallsShown
  <2>2. Promise!Fail(c, code'[c])
    BY <1>3, <1>moves, <2>1 DEF Promise!Fail
  <2> QED BY <1>3, <2>2 DEF Promise!Next, Promise!Errors, Errors
<1>4. CASE RemoveTemp(c)
  BY <1>4, <1>moves, <1>fun DEF RemoveTemp, Goto, CallsShown, After, Promise!vars, TypeOK
<1>5. CASE SyncDirectory(c)
  <2>1. CallsSeen' = CallsSeen /\ code' = code
    BY <1>5, <1>moves, <1>fun DEF SyncDirectory, Goto, CallsShown, After, TypeOK
  <2>2. Promise!SyncSome
    BY <1>5, <1>moves, <2>1 DEF SyncDirectory, Promise!SyncSome
  <2> QED BY <2>2 DEF Promise!Next
<1>6. CASE SyncFails(c)
  <2>1. code'[c] = "backend_failure" /\ CallsSeen[c] = "committed" /\ CallsSeen'[c] = "failed"
    BY <1>6 DEF SyncFails, SyncError, ThrowLate, CallsShown, After, TypeOK, Errors
  <2>2. Promise!Fail(c, "backend_failure")
    BY <1>6, <1>moves, <2>1 DEF SyncFails, Promise!Fail
  <2> QED BY <2>2 DEF Promise!Next, Promise!Errors
<1>7. CASE Succeed(c)
  <2>1. code'[c] = "ok" /\ CallsSeen[c] = "committed" /\ CallsSeen'[c] = "ok"
    BY <1>7 DEF Succeed, Return, CallsShown, After, TypeOK
  <2>2. NamesSeen[out[c]] = c => DiskSeen[out[c]] = {c}
    BY <1>7 DEF Succeed, ResultInvariant, NameKept, NamesShown, OutputOf, TypeOK
  <2>3. Promise!Succeed(c)
    BY <1>7, <1>moves, <2>1, <2>2 DEF Succeed, Promise!Succeed
  <2> QED BY <2>3 DEF Promise!Next
<1>8. CASE Cleanup(c)
  BY <1>8, <1>moves, <1>fun DEF Cleanup, Catching, CallsShown, ResultInvariant, ResultKnown, Promise!vars
<1> QED BY <1>moves, <1>2, <1>3, <1>4, <1>5, <1>6, <1>7, <1>8, CallMoves DEF Link, MoveFile, RenameOver, RenameIsGeneric, TypeOK

\* What happens around the calls is allowed as well: names come and go, a killed call
\* leaves its state, and a power loss leaves each name what the disk held of it.
LEMMA RefinedEnvironment ==
    ASSUME ShownInvariant, ShownInvariant', Environment
    PROVE  Promise!Next \/ UNCHANGED Promise!vars
<1> USE PathsDiffer, NamesAssumption DEF ShownInvariant, FullInvariant
<1>1. ASSUME NEW p \in Paths, ForeignCreates(p) \/ ForeignRemoves(p)
      PROVE  Promise!Next \/ UNCHANGED Promise!vars
  <2>1. UNCHANGED <<pc, code, out>> /\ CallsSeen' = CallsSeen
    BY <1>1 DEF ForeignCreates, ForeignRemoves, control, naming, CallsSeen, Outcome
  <2>2. PICK e \in {Foreign, NoFile} :
           Put(p, e) /\ ((dir[p] = NoFile /\ e = Foreign) \/ (dir[p] # NoFile /\ e = NoFile))
    BY <1>1 DEF ForeignCreates, ForeignRemoves, Occupied
  <2>3. ASSUME NEW o \in Outputs, p = Path(o) PROVE Promise!World(o, e)
    <3>1. NamesSeen' = [NamesSeen EXCEPT ![o] = e] /\ DiskSeen' = [DiskSeen EXCEPT ![o] = @ \cup {e}]
      BY <2>2, <2>3 DEF NamesShown, Put, TypeOK
    <3>2. (NamesSeen[o] = NoFile /\ e = Foreign) \/ (NamesSeen[o] # NoFile /\ e = NoFile)
      BY <2>2, <2>3 DEF NamesShown
    <3> QED BY <2>1, <3>1, <3>2 DEF Promise!World
  <2>4. CASE \A o \in Outputs : p # Path(o)
    <3>1. NamesSeen' = NamesSeen /\ DiskSeen' = DiskSeen
      BY <2>2, <2>4 DEF NamesShown, Put, TypeOK
    <3> QED BY <2>1, <3>1 DEF Promise!vars
  <2> QED BY <2>3, <2>4 DEF Promise!Next
<1>2. ASSUME NEW c \in Calls, Kill(c) PROVE Promise!Next \/ UNCHANGED Promise!vars
  <2>1. /\ UNCHANGED <<code, out, dir, disk>>
        /\ pc' = [pc EXCEPT ![c] = "dead"] /\ pc[c] \notin {"idle", "done", "dead"}
    BY <1>2 DEF Kill, Goto, Live, Ended, naming, names
  <2>2. NamesSeen' = NamesSeen /\ DiskSeen' = DiskSeen
    BY <2>1 DEF NamesShown
  <2>3. \A d \in Calls \ {c} : CallsSeen'[d] = CallsSeen[d]
    BY <2>1 DEF CallsSeen, Outcome, TypeOK
  <2>4. CASE code[c] \in Errors
    <3>1. CallsSeen' = CallsSeen
      <4>1. CallsSeen'[c] = CallsSeen[c]
        BY <2>1, <2>4 DEF CallsShown
      <4> QED BY <2>3, <4>1 DEF CallsSeen
    <3> QED BY <2>1, <2>2, <3>1 DEF Promise!vars
  <2>5. CASE code[c] \notin Errors
    <3>1. CallsSeen[c] \in {"running", "committed"} /\ CallsSeen'[c] = "dead"
      BY <2>1, <2>5 DEF CallsShown, ResultInvariant, ResultKnown, TypeOK, Labels, Before, After, InFile, InCommit
    <3>2. CallsSeen' = [CallsSeen EXCEPT ![c] = "dead"]
      BY <2>3, <3>1 DEF CallsSeen
    <3>3. Promise!Die(c)
      BY <2>1, <2>2, <3>1, <3>2 DEF Promise!Die
    <3> QED BY <3>3 DEF Promise!Next
  <2> QED BY <2>4, <2>5
<1>3. CASE PowerLoss
  <2>1. /\ UNCHANGED <<code, out>>
        /\ \A c \in Calls : pc'[c] = IF pc[c] \in {"idle", "done", "dead"} THEN pc[c] ELSE "dead"
    BY <1>3 DEF PowerLoss, Live, Ended, naming
  <2>2. \A p \in Paths : disk'[p] = {dir'[p]} /\ dir'[p] \in disk[p]
    BY <1>3 DEF PowerLoss
  <2>3. CallsSeen' = [c \in Calls |-> IF CallsSeen[c] \in {"running", "committed"} THEN "dead" ELSE CallsSeen[c]]
    <3>1. ASSUME NEW c \in Calls
          PROVE  CallsSeen'[c] = IF CallsSeen[c] \in {"running", "committed"} THEN "dead" ELSE CallsSeen[c]
      BY <2>1 DEF CallsShown, ResultInvariant, ResultKnown, TypeOK, Labels, Before, After, InFile, InCommit, Errors
    <3> QED BY <3>1 DEF CallsSeen
  <2>4. /\ NamesSeen' \in [Outputs -> Entries]
        /\ \A o \in Outputs : NamesSeen'[o] \in DiskSeen[o]
        /\ DiskSeen' = [o \in Outputs |-> {NamesSeen'[o]}]
    BY <2>2 DEF NamesShown, TypeOK
  <2>5. Promise!PowerLoss
    BY <2>1, <2>3, <2>4 DEF Promise!PowerLoss, Promise!Entries, Entries
  <2> QED BY <2>5 DEF Promise!Next
<1> QED BY <1>1, <1>2, <1>3 DEF Environment

\* Seen through output names alone, every behaviour of the calls is one that
\* AtomicOutput allows: one atomic commit, only under a free name, never under a call
\* that failed before it, and on the disk before the call returns.
THEOREM CallsKeepTheirPromise ==
    ASSUME "generic" \notin Platforms, ~May("token")
    PROVE  Spec => KeepsPromise
<1>1. Init => Promise!Init
  BY RefinedInit
<1>2. ShownInvariant /\ ShownInvariant' /\ [Next]_vars => [Promise!Next]_Promise!vars
  <2> SUFFICES ASSUME ShownInvariant, ShownInvariant', [Next]_vars
               PROVE  Promise!Next \/ UNCHANGED Promise!vars
    OBVIOUS
  <2>1. ASSUME NEW c \in Calls, Step(c) PROVE Promise!Next \/ UNCHANGED Promise!vars
    BY <2>1, RefinedStep
  <2>2. CASE Environment
    BY <2>2, RefinedEnvironment
  <2>3. CASE UNCHANGED vars
    BY <2>3 DEF vars, Promise!vars, CallsSeen, NamesSeen, DiskSeen, Outcome, Whole
  <2> QED BY <2>1, <2>2, <2>3 DEF Next, Finished
<1> QED BY <1>1, <1>2, ShownInvariantHolds, PTL DEF Spec, KeepsPromise, Promise!Spec
=============================================================================
