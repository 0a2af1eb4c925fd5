-------------------------- MODULE FileCommitProofs --------------------------
(***************************************************************************)
(* Proofs about FileCommit for every set of calls, outputs and tokens and  *)
(* every combination of faults, except where a theorem names one.          *)
(***************************************************************************)
EXTENDS FileCommit, TLAPS

\* The names a call uses are paths, and an output name is never a temporary one.
LEMMA PathsDiffer ==
    /\ \A o \in Outputs, t \in Tokens : TempPath(o, t) \in Paths /\ TempPath(o, t) \in TempPaths
    /\ \A o \in Outputs : Path(o) \in Paths
    /\ \A o, u \in Outputs, t \in Tokens : Path(o) # TempPath(u, t)
    /\ \A o, u \in Outputs : Path(o) = Path(u) => o = u
BY NamesAssumption DEF Path, TempPath, Paths, TempPaths

\* The paths of a call are paths, whatever suffix it has drawn.
LEMMA CallPaths ==
    ASSUME TypeOK, NEW c \in Calls
    PROVE  OutputOf(c) \in Paths /\ TempOf(c) \in Paths
BY DEF TypeOK, OutputOf, TempOf, Path, TempPath, Paths

\* Changing one entry keeps the types of the directory and of the disk.
LEMMA PutType ==
    ASSUME TypeOK, NEW p \in Paths, NEW e \in Entries, Put(p, e)
    PROVE  dir' \in [Paths -> Entries] /\ disk' \in [Paths -> SUBSET Entries]
BY DEF TypeOK, Put

\* The initial states have their types and attempts left.
LEMMA TypeInit == Init => TypeOK /\ AttemptsLeft
BY PiecesAssumption, AttemptsAssumption
   DEF Init, TypeOK, AttemptsLeft, Paths, Entries, Labels, Catching, Roles

\* The steps from the beginning of a call to its temporary file (file.cpp, the
\* existence check, the header and open_unique_temp_output).
LEMMA TypeBeforeTemp ==
    ASSUME TypeOK, AttemptsLeft, NEW c \in Calls,
           Begin(c) \/ RejectEmptyPassword(c) \/ CheckOutput(c) \/ MakeHeader(c) \/ OpenTemp(c)
    PROVE  TypeOK' /\ AttemptsLeft'
<1> USE AttemptsAssumption
    DEF TypeOK, AttemptsLeft, Labels, InFile, InCommit, Catching, Errors, Goto, Return, control, naming, names, data
<1>e. c \in Entries
  BY DEF Entries
<1>1. CASE Begin(c)
  BY <1>1 DEF Begin
<1>2. CASE RejectEmptyPassword(c)
  BY <1>2 DEF RejectEmptyPassword
<1>3. CASE CheckOutput(c)
  BY <1>3 DEF CheckOutput
<1>4. CASE MakeHeader(c)
  BY <1>4 DEF MakeHeader
<1>5. CASE DrawFails(c)
  BY <1>5 DEF DrawFails
<1>6. ASSUME NEW t \in Tokens, Collide(c, t) PROVE TypeOK' /\ AttemptsLeft'
  BY <1>6 DEF Draws, Collide, Attempts, LastAttempt
<1>7. ASSUME NEW t \in Tokens, OpenFails(c, t) PROVE TypeOK' /\ AttemptsLeft'
  BY <1>7 DEF Draws, OpenFails
<1>8. ASSUME NEW t \in Tokens, DescriptorFails(c, t) PROVE TypeOK' /\ AttemptsLeft'
  <2>1. dir' \in [Paths -> Entries] /\ disk' \in [Paths -> SUBSET Entries]
    BY <1>8, <1>e, PathsDiffer, PutType DEF DescriptorFails
  <2> QED BY <1>8, <2>1 DEF Draws, DescriptorFails
<1>9. ASSUME NEW t \in Tokens, CreateTemp(c, t) PROVE TypeOK' /\ AttemptsLeft'
  <2>1. dir' \in [Paths -> Entries] /\ disk' \in [Paths -> SUBSET Entries]
    BY <1>9, <1>e, PathsDiffer, PutType DEF CreateTemp
  <2> QED BY <1>9, <2>1 DEF Draws, CreateTemp
<1> QED BY <1>1, <1>2, <1>3, <1>4, <1>5, <1>6, <1>7, <1>8, <1>9 DEF OpenTemp

\* The steps of the try block that write, flush and close the temporary file.
LEMMA TypePayload ==
    ASSUME TypeOK, AttemptsLeft, NEW c \in Calls,
           \/ OpenInput(c) \/ WritePiece(c) \/ PayloadFails(c) \/ Flush(c) \/ Close(c)
           \/ Succeed(c)
    PROVE  TypeOK' /\ AttemptsLeft'
<1> USE PiecesAssumption
    DEF TypeOK, AttemptsLeft, Labels, InFile, InCommit, Catching, Errors, Goto, Throw, Return, naming, names, data
<1>1. CASE OpenInput(c)
  BY <1>1 DEF OpenInput, InputErrors
<1>2. CASE WritePiece(c)
  BY <1>2 DEF WritePiece
<1>3. CASE PayloadFails(c)
  BY <1>3 DEF PayloadFails, PayloadErrors
<1>4. CASE Flush(c)
  BY <1>4 DEF Flush, Flushed
<1>5. CASE Close(c)
  BY <1>5 DEF Close
<1>6. CASE Succeed(c)
  BY <1>6 DEF Succeed
<1> QED BY <1>1, <1>2, <1>3, <1>4, <1>5, <1>6

\* The steps of commit_temp_file and of the catch block.
LEMMA TypeCommit ==
    ASSUME TypeOK, AttemptsLeft, NEW c \in Calls,
           \/ Link(c) \/ RemoveTemp(c) \/ SyncDirectory(c) \/ SyncFails(c)
           \/ MoveFile(c) \/ CheckAgain(c) \/ RenameOver(c) \/ Cleanup(c)
    PROVE  TypeOK' /\ AttemptsLeft'
<1> USE CallPaths
    DEF TypeOK, AttemptsLeft, Labels, InFile, InCommit, Catching, Errors, Goto, Throw, naming, names, data
<1>e. NoFile \in Entries /\ dir[TempOf(c)] \in Entries
  BY DEF Entries
<1>n. dir' \in [Paths -> Entries] /\ disk' \in [Paths -> SUBSET Entries]
  <2>1. CASE Link(c)
    BY <2>1, <1>e, PutType DEF Link
  <2>2. CASE RemoveTemp(c)
    BY <2>2, <1>e, PutType DEF RemoveTemp, RemoveQuietly
  <2>3. CASE SyncDirectory(c) \/ SyncFails(c)
    BY <2>3 DEF SyncDirectory, SyncFails, SyncedNames
  <2>4. CASE MoveFile(c)
    BY <2>4, <1>e DEF MoveFile, Moved, MovedThrough
  <2>5. CASE CheckAgain(c)
    BY <2>5 DEF CheckAgain
  <2>6. CASE RenameOver(c)
    BY <2>6, <1>e DEF RenameOver, Moved, MovedLazily
  <2>7. CASE Cleanup(c)
    BY <2>7, <1>e, PutType DEF Cleanup, RemoveQuietly
  <2> QED BY <2>1, <2>2, <2>3, <2>4, <2>5, <2>6, <2>7
<1>1. CASE Link(c)
  BY <1>1, <1>n DEF Link
<1>2. CASE RemoveTemp(c)
  BY <1>2, <1>n DEF RemoveTemp
<1>3. CASE SyncDirectory(c)
  BY <1>3, <1>n DEF SyncDirectory
<1>4. CASE SyncFails(c)
  BY <1>4, <1>n DEF SyncFails, SyncError, ThrowLate
<1>5. CASE MoveFile(c)
  BY <1>5, <1>n DEF MoveFile
<1>6. CASE CheckAgain(c)
  BY <1>6, <1>n DEF CheckAgain
<1>7. CASE RenameOver(c)
  BY <1>7, <1>n DEF RenameOver
<1>8. CASE Cleanup(c)
  BY <1>8, <1>n DEF Cleanup
<1> QED BY <1>1, <1>2, <1>3, <1>4, <1>5, <1>6, <1>7, <1>8

\* What other processes, a killed process and a power loss do.
LEMMA TypeEnvironment ==
    ASSUME TypeOK, AttemptsLeft, Environment
    PROVE  TypeOK' /\ AttemptsLeft'
<1> USE PiecesAssumption
    DEF TypeOK, AttemptsLeft, Labels, InFile, InCommit, Catching, Errors, Goto, control, naming, names, data
<1>1. ASSUME NEW p \in Paths, ForeignCreates(p) \/ ForeignRemoves(p) PROVE TypeOK' /\ AttemptsLeft'
  <2>1. NoFile \in Entries /\ Foreign \in Entries
    BY DEF Entries
  <2>2. dir' \in [Paths -> Entries] /\ disk' \in [Paths -> SUBSET Entries]
    BY <1>1, <2>1, PutType DEF ForeignCreates, ForeignRemoves
  <2> QED BY <1>1, <2>2 DEF ForeignCreates, ForeignRemoves
<1>2. ASSUME NEW c \in Calls, Kill(c) PROVE TypeOK' /\ AttemptsLeft'
  BY <1>2 DEF Kill
<1>3. CASE PowerLoss
  BY <1>3 DEF PowerLoss
<1> QED BY <1>1, <1>2, <1>3 DEF Environment

\* No step of the machine breaks a type or lets a call run out of attempts unnoticed.
LEMMA TypeStep == TypeOK /\ AttemptsLeft /\ [Next]_vars => TypeOK' /\ AttemptsLeft'
<1> SUFFICES ASSUME TypeOK, AttemptsLeft, [Next]_vars PROVE TypeOK' /\ AttemptsLeft'
  OBVIOUS
<1>1. ASSUME NEW c \in Calls, Step(c) PROVE TypeOK' /\ AttemptsLeft'
  BY <1>1, TypeBeforeTemp, TypePayload, TypeCommit DEF Step
<1>2. CASE Environment
  BY <1>2, TypeEnvironment
<1>3. CASE UNCHANGED vars
  BY <1>3 DEF vars, TypeOK, AttemptsLeft
<1> QED BY <1>1, <1>2, <1>3 DEF Next, Finished

\* Every variable keeps its type, whatever the platform and the faults.
THEOREM TypeCorrect == Spec => []TypeOK
BY TypeInit, TypeStep, PTL DEF Spec

-----------------------------------------------------------------------------
(* Completeness of the outputs.                                            *)

\* Before any call begins there is no file and no temporary name.
LEMMA CommitInit == Init => CommitInvariant
BY AttemptsAssumption, NamesAssumption, PathsDiffer
   DEF Init, CommitInvariant, AttemptsLeft, TempNamed, TempsOwned, SyncedBeforeCommit, DiskComplete,
       Holds, Live, Ended, Owns, InFile, InCommit, Catching, Paths

\* A step of a call that changes neither names nor data.
LEMMA QuietStep ==
    ASSUME TypeOK, AttemptsLeft', CommitInvariant, NEW c \in Calls,
           \/ Begin(c) \/ RejectEmptyPassword(c) \/ CheckOutput(c) \/ MakeHeader(c)
           \/ DrawFails(c) \/ \E t \in Tokens : Collide(c, t) \/ OpenFails(c, t)
           \/ OpenInput(c) \/ PayloadFails(c) \/ Close(c) \/ CheckAgain(c) \/ Succeed(c)
    PROVE  CommitInvariant'
<1>1. /\ UNCHANGED <<out, temp, dir, disk, len, safe>>
      /\ \A d \in Calls : d # c => pc'[d] = pc[d]
      /\ \/ pc[c] = "idle" /\ pc'[c] = "status"
         \/ pc[c] \in {"idle", "status", "header", "temp"} /\ pc'[c] \in {"status", "header", "temp", "done"}
         \/ pc[c] = "input" /\ pc'[c] \in {"payload", "cleanup"}
         \/ pc[c] = "payload" /\ pc'[c] = "cleanup"
         \/ pc[c] = "close" /\ pc'[c] \in {"commit", "cleanup"}
         \/ pc[c] = "commit" /\ pc'[c] \in {"rename", "cleanup"}
         \/ pc[c] = "return" /\ pc'[c] = "done"
  BY DEF TypeOK, Begin, RejectEmptyPassword, CheckOutput, MakeHeader, DrawFails, Draws, Collide, OpenFails,
         OpenInput, PayloadFails, Close, CheckAgain, Succeed, Goto, Return, Throw,
         control, naming, names, data
<1>2. TempNamed'
  BY <1>1 DEF CommitInvariant, TempNamed, InFile, InCommit, Catching
<1>3. TempsOwned'
  BY <1>1 DEF CommitInvariant, TempNamed, TempsOwned, Holds, Live, Ended, Owns, TempOf, InFile, InCommit, Catching
<1>4. SyncedBeforeCommit'
  BY <1>1 DEF CommitInvariant, SyncedBeforeCommit, InCommit
<1>5. DiskComplete'
  BY <1>1 DEF CommitInvariant, DiskComplete
<1> QED BY <1>2, <1>3, <1>4, <1>5 DEF CommitInvariant

\* The steps of a call that create a file or write to it.
LEMMA WriteStep ==
    ASSUME "generic" \notin Platforms, ~May("token"), TypeOK, AttemptsLeft', CommitInvariant,
           NEW c \in Calls,
           \/ \E t \in Tokens : DescriptorFails(c, t) \/ CreateTemp(c, t)
           \/ WritePiece(c) \/ Flush(c)
    PROVE  CommitInvariant'
<1> USE PathsDiffer, NamesAssumption
    DEF TypeOK, TempNamed, TempsOwned, SyncedBeforeCommit, DiskComplete, Holds, Live, Ended, Owns, TempOf,
        InFile, InCommit, Catching, Goto, Return, Throw, naming, names, data
<1>own. c \in Entries
  BY DEF Entries
<1>1. ASSUME NEW t \in Tokens, DescriptorFails(c, t) PROVE CommitInvariant'
  <2>1. pc[c] = "temp" /\ \A d \in Calls : Holds(d) => TempOf(d) # TempPath(out[c], t)
    BY <1>1 DEF DescriptorFails, Draws, Held
  <2>2. dir' = [dir EXCEPT ![TempPath(out[c], t)] = c]
        /\ disk' = [disk EXCEPT ![TempPath(out[c], t)] = @ \cup {c}]
    BY <1>1 DEF DescriptorFails, Put
  <2>3. TempNamed'
    BY <1>1, <2>1 DEF CommitInvariant, DescriptorFails
  <2>4. TempsOwned'
    <3>1. temp' = temp /\ pc' = [pc EXCEPT ![c] = "done"] /\ out' = out
      BY <1>1 DEF DescriptorFails
    <3>2. \A d \in Calls : (Holds(d)' => Holds(d)) /\ (Owns(d)' => Owns(d)) /\ TempOf(d)' = TempOf(d)
      BY <3>1
    <3>3. ASSUME NEW d \in Calls, Owns(d)' PROVE dir'[TempOf(d)] = d
      <4>1. Owns(d) /\ Holds(d) /\ TempOf(d) \in Paths
        BY <3>2, <3>3, CallPaths DEF CommitInvariant
      <4>2. TempOf(d) # TempPath(out[c], t) /\ dir[TempOf(d)] = d
        BY <2>1, <4>1 DEF CommitInvariant
      <4> QED BY <2>2, <4>1, <4>2
    <3>4. ASSUME NEW d \in Calls, NEW e \in Calls, Holds(d)', Holds(e)', d # e
          PROVE  TempOf(d)' # TempOf(e)'
      BY <3>2, <3>4 DEF CommitInvariant
    <3> QED BY <3>2, <3>3, <3>4
  <2>5. SyncedBeforeCommit'
    BY <1>1, <2>1 DEF CommitInvariant, DescriptorFails
  <2>6. DiskComplete'
    BY <1>1, <2>1, <2>2 DEF CommitInvariant, DescriptorFails
  <2> QED BY <2>3, <2>4, <2>5, <2>6 DEF CommitInvariant
<1>2. ASSUME NEW t \in Tokens, CreateTemp(c, t) PROVE CommitInvariant'
  <2>1. pc[c] = "temp" /\ \A d \in Calls : Holds(d) => TempOf(d) # TempPath(out[c], t)
    BY <1>2 DEF CreateTemp, Draws, Held
  <2>2. dir' = [dir EXCEPT ![TempPath(out[c], t)] = c]
        /\ disk' = [disk EXCEPT ![TempPath(out[c], t)] = @ \cup {c}]
    BY <1>2 DEF CreateTemp, Put
  <2>3. TempNamed'
    BY <1>2, <2>1 DEF CommitInvariant, CreateTemp
  <2>4. TempsOwned'
    <3>1. /\ temp' = [temp EXCEPT ![c] = t] /\ pc' = [pc EXCEPT ![c] = "input"] /\ out' = out
          /\ TempPath(out[c], t) \in Paths
      BY <1>2 DEF CreateTemp
    <3>2. ASSUME NEW d \in Calls, d # c
          PROVE  /\ Holds(d)' = Holds(d) /\ Owns(d)' = Owns(d) /\ TempOf(d)' = TempOf(d)
                 /\ Owns(d) => Holds(d)
                 /\ Holds(d) => TempOf(d) # TempPath(out[c], t) /\ TempOf(d) \in Paths
      BY <2>1, <3>1, <3>2, CallPaths DEF CommitInvariant
    <3>3. TempOf(c)' = TempPath(out[c], t)
      BY <3>1
    <3>4. ASSUME NEW d \in Calls, Owns(d)' PROVE dir'[TempOf(d)'] = d
      <4>1. CASE d = c
        BY <2>2, <3>1, <3>3, <4>1
      <4>2. CASE d # c
        <5>1. Owns(d) /\ TempOf(d)' = TempOf(d) /\ TempOf(d) # TempPath(out[c], t) /\ TempOf(d) \in Paths
          BY <3>2, <3>4, <4>2
        <5>2. dir[TempOf(d)] = d
          BY <5>1 DEF CommitInvariant
        <5> QED BY <2>2, <5>1, <5>2
      <4> QED BY <4>1, <4>2
    <3>5. ASSUME NEW d \in Calls, NEW e \in Calls, Holds(d)', Holds(e)', d # e
          PROVE  TempOf(d)' # TempOf(e)'
      <4>1. CASE d # c /\ e # c
        BY <3>2, <3>5, <4>1 DEF CommitInvariant
      <4>2. CASE d = c \/ e = c
        BY <3>2, <3>3, <3>5, <4>2
      <4> QED BY <4>1, <4>2
    <3> QED BY <3>4, <3>5
  <2>5. SyncedBeforeCommit'
    BY <1>2, <2>1 DEF CommitInvariant, CreateTemp
  <2>6. DiskComplete'
    BY <1>2, <2>1, <2>2 DEF CommitInvariant, CreateTemp
  <2> QED BY <2>3, <2>4, <2>5, <2>6 DEF CommitInvariant
<1>3. CASE WritePiece(c)
  <2>1. TempNamed' /\ TempsOwned'
    BY <1>3 DEF CommitInvariant, WritePiece
  <2>2. SyncedBeforeCommit' /\ DiskComplete'
    BY <1>3 DEF CommitInvariant, WritePiece
  <2> QED BY <2>1, <2>2 DEF CommitInvariant
<1>4. CASE Flush(c)
  <2>1. TempNamed' /\ TempsOwned'
    <3>1. UNCHANGED <<out, temp, dir>> /\ pc[c] = "flush"
          /\ \E l \in {"close", "cleanup"} : pc' = [pc EXCEPT ![c] = l]
      BY <1>4 DEF Flush
    <3>2. TempNamed'
      BY <3>1 DEF CommitInvariant
    <3>3. TempsOwned'
      BY <3>1 DEF CommitInvariant
    <3> QED BY <3>2, <3>3
  <2>2. SyncedBeforeCommit' /\ DiskComplete'
    BY <1>4 DEF CommitInvariant, Flush, Flushed
  <2> QED BY <2>1, <2>2 DEF CommitInvariant
<1> QED BY <1>1, <1>2, <1>3, <1>4

\* The steps that move a file to its output name and remove its temporary one.
LEMMA NameStep ==
    ASSUME TypeOK, AttemptsLeft', CommitInvariant, NEW c \in Calls,
           \/ Link(c) \/ RemoveTemp(c) \/ SyncDirectory(c) \/ SyncFails(c)
           \/ MoveFile(c) \/ RenameOver(c) \/ Cleanup(c)
    PROVE  CommitInvariant'
<1> USE DEF TempNamed, TempsOwned, SyncedBeforeCommit, DiskComplete, Holds, Live, Ended, Owns,
        InFile, InCommit, Catching, Goto, Throw, ThrowLate, naming, names, data
<1>type. /\ pc \in [Calls -> Labels]
         /\ dir \in [Paths -> Entries] /\ disk \in [Paths -> SUBSET Entries]
         /\ out \in [Calls -> Outputs] /\ temp \in [Calls -> Tokens \cup {NoSuffix}]
  BY DEF TypeOK
<1>own. /\ temp[c] \in Tokens /\ Holds(c)
        /\ pc[c] \in {"commit", "rename"} => dir[TempOf(c)] = c
        /\ pc[c] \notin Catching => safe[c] = Pieces
  BY <1>type, NamesAssumption DEF CommitInvariant, Link, RemoveTemp, SyncDirectory, SyncFails, MoveFile, RenameOver, Cleanup
<1>paths. OutputOf(c) \in Paths /\ TempOf(c) \in Paths /\ OutputOf(c) # TempOf(c)
  BY <1>own, <1>type, PathsDiffer, CallPaths DEF OutputOf, TempOf
<1>same. UNCHANGED <<out, temp, len, safe>> /\ \A d \in Calls : d # c => pc'[d] = pc[d]
  BY <1>type DEF Link, RemoveTemp, SyncDirectory, SyncFails, MoveFile, RenameOver, Cleanup
<1>pc. \/ pc[c] \in InCommit /\ pc'[c] \in {"unlink", "dirsync", "return", "cleanup"}
       \/ pc[c] = "dirsync" /\ pc'[c] = "late_cleanup"
       \/ pc[c] \in Catching /\ pc'[c] = "done"
  BY <1>type DEF Link, RemoveTemp, SyncDirectory, SyncFails, MoveFile, RenameOver, Cleanup
<1>1. TempNamed'
  BY <1>own, <1>same, <1>pc DEF CommitInvariant
<1>2. SyncedBeforeCommit'
  BY <1>own, <1>same, <1>pc DEF CommitInvariant
<1>3. /\ \A p \in Paths :
            \/ dir'[p] = dir[p]
            \/ p = TempOf(c) /\ dir'[p] = NoFile /\ ~Owns(c)'
            \/ p = OutputOf(c) /\ dir'[p] = c /\ safe[c] = Pieces
      /\ \A p \in Paths : disk'[p] \subseteq disk[p] \cup {dir'[p]} /\ dir'[p] \in disk'[p]
  <2>d. \A p \in Paths : dir[p] \in disk[p]
    BY DEF CommitInvariant
  <2>1. CASE Link(c)
    BY <2>1, <2>d, <1>type, <1>paths, <1>own DEF Link, Put, Occupied
  <2>2. CASE RemoveTemp(c) \/ Cleanup(c)
    BY <2>2, <2>d, <1>type, <1>paths DEF RemoveTemp, Cleanup, RemoveQuietly, Put
  <2>3. CASE SyncDirectory(c) \/ SyncFails(c)
    BY <2>3, <2>d, <1>type, <1>paths DEF SyncDirectory, SyncFails, SyncedNames
  <2>4. CASE MoveFile(c)
    BY <2>4, <2>d, <1>type, <1>paths, <1>own DEF MoveFile, Moved, MovedThrough, Occupied
  <2>5. CASE RenameOver(c)
    BY <2>5, <2>d, <1>type, <1>paths, <1>own DEF RenameOver, Moved, MovedLazily, Occupied
  <2> QED BY <2>1, <2>2, <2>3, <2>4, <2>5
<1>4. TempsOwned'
  <2>1. \A d \in Calls : (Holds(d)' => Holds(d)) /\ (Owns(d)' => Owns(d)) /\ TempOf(d)' = TempOf(d)
    <3>1. Owns(c)' => Owns(c)
      BY <1>type DEF Link, RemoveTemp, SyncDirectory, SyncFails, MoveFile, RenameOver, Cleanup
    <3> QED BY <3>1, <1>same, <1>pc, <1>own, <1>type DEF TempOf
  <2>2. \A d \in Calls : Holds(d) => TempOf(d) # OutputOf(c) /\ TempOf(d) \in Paths
    BY <1>type, PathsDiffer DEF TempOf, OutputOf
  <2>3. ASSUME NEW d \in Calls, Owns(d)' PROVE dir'[TempOf(d)] = d
    <3>1. Holds(d) /\ dir[TempOf(d)] = d
      BY <2>1, <2>3, NamesAssumption DEF CommitInvariant
    <3>2. d # c => TempOf(d) # TempOf(c)
      BY <3>1, <1>own DEF CommitInvariant
    <3> QED BY <1>3, <2>2, <2>3, <3>1, <3>2
  <2>4. ASSUME NEW d \in Calls, NEW e \in Calls, Holds(d)', Holds(e)', d # e
        PROVE  TempOf(d)' # TempOf(e)'
    BY <2>1, <2>4 DEF CommitInvariant
  <2> QED BY <2>1, <2>3, <2>4
<1>5. DiskComplete'
  <2>1. ASSUME NEW o \in Outputs, NEW d \in Calls, d \in disk'[Path(o)] PROVE safe'[d] = Pieces
    <3>1. d \in disk[Path(o)] \/ d = dir'[Path(o)]
      BY <1>3, <2>1, PathsDiffer
    <3>2. Path(o) # TempOf(c)
      BY <1>own, <1>type, PathsDiffer DEF TempOf
    <3>3. d \in disk[Path(o)] \/ (d = c /\ safe[c] = Pieces)
      <4>1. dir[Path(o)] \in disk[Path(o)]
        BY PathsDiffer DEF CommitInvariant
      <4> QED BY <1>3, <3>1, <3>2, <4>1, PathsDiffer
    <3> QED BY <3>3, <1>same DEF CommitInvariant
  <2> QED BY <1>3, <2>1
<1> QED BY <1>1, <1>2, <1>4, <1>5 DEF CommitInvariant

\* Other processes, a killed process and a power loss.
LEMMA EnvironmentStep ==
    ASSUME ~May("token"), TypeOK, AttemptsLeft', CommitInvariant, Environment
    PROVE  CommitInvariant'
<1> USE PathsDiffer, NamesAssumption
    DEF TypeOK, TempNamed, TempsOwned, SyncedBeforeCommit, DiskComplete, Holds, Live, Ended, Owns,
        InFile, InCommit, Catching, Goto, control, naming, names, data
<1>1. ASSUME NEW p \in Paths, ForeignCreates(p) \/ ForeignRemoves(p) PROVE CommitInvariant'
  <2>1. ~(\E c \in Calls : Owns(c) /\ p = TempOf(c)) /\ UNCHANGED <<platform, pc, code, role, out, temp, tries, len, safe>>
    BY <1>1 DEF ForeignCreates, ForeignRemoves, CommitInvariant, InUse, Occupied
  <2>2. PICK e \in {Foreign, NoFile} : Put(p, e)
    BY <1>1 DEF ForeignCreates, ForeignRemoves
  <2>3. TempNamed' /\ SyncedBeforeCommit'
    BY <2>1 DEF CommitInvariant
  <2>4. TempsOwned'
    BY <2>1, <2>2, CallPaths DEF CommitInvariant, Put, TempOf
  <2>5. DiskComplete'
    BY <2>1, <2>2 DEF CommitInvariant, Put
  <2> QED BY <2>3, <2>4, <2>5 DEF CommitInvariant
<1>2. ASSUME NEW c \in Calls, Kill(c) PROVE CommitInvariant'
  <2>1. TempNamed' /\ TempsOwned'
    BY <1>2 DEF CommitInvariant, Kill, TempOf
  <2>2. SyncedBeforeCommit' /\ DiskComplete'
    BY <1>2 DEF CommitInvariant, Kill
  <2> QED BY <2>1, <2>2 DEF CommitInvariant
<1>3. CASE PowerLoss
  <2>1. TempNamed' /\ TempsOwned'
    BY <1>3 DEF CommitInvariant, PowerLoss
  <2>2. SyncedBeforeCommit'
    BY <1>3 DEF CommitInvariant, PowerLoss
  <2>3. \A p \in Paths : disk'[p] = {dir'[p]} /\ dir'[p] \in disk[p]
    BY <1>3 DEF PowerLoss
  <2>4. \A c \in Calls : safe[c] = Pieces => safe'[c] = Pieces
    BY <1>3, PiecesAssumption DEF PowerLoss
  <2>5. DiskComplete'
    BY <2>3, <2>4 DEF CommitInvariant
  <2> QED BY <2>1, <2>2, <2>5 DEF CommitInvariant
<1> QED BY <1>1, <1>2, <1>3 DEF Environment

\* The invariant holds where the platform syncs and random names do not repeat.
THEOREM CommitInvariantHolds ==
    ASSUME "generic" \notin Platforms, ~May("token")
    PROVE  Spec => [](TypeOK /\ CommitInvariant)
<1>1. Init => TypeOK /\ CommitInvariant
  BY TypeInit, CommitInit
<1>2. TypeOK /\ CommitInvariant /\ [Next]_vars => TypeOK' /\ CommitInvariant'
  <2> SUFFICES ASSUME TypeOK, CommitInvariant, [Next]_vars PROVE TypeOK' /\ CommitInvariant'
    OBVIOUS
  <2>1. AttemptsLeft
    BY DEF CommitInvariant
  <2>2. TypeOK' /\ AttemptsLeft'
    BY <2>1, TypeStep
  <2>3. ASSUME NEW c \in Calls, Step(c) PROVE CommitInvariant'
    BY <2>2, <2>3, QuietStep, WriteStep, NameStep DEF Step, OpenTemp
  <2>4. CASE Environment
    BY <2>2, <2>4, EnvironmentStep
  <2>5. CASE UNCHANGED vars
    <3>1. TempNamed' /\ TempsOwned'
      BY <2>5 DEF vars, CommitInvariant, TempNamed, TempsOwned, Holds, Live, Ended, Owns, TempOf
    <3>2. SyncedBeforeCommit' /\ DiskComplete'
      BY <2>5 DEF vars, CommitInvariant, SyncedBeforeCommit, DiskComplete
    <3> QED BY <2>2, <3>1, <3>2 DEF CommitInvariant
  <2> QED BY <2>2, <2>3, <2>4, <2>5 DEF Next, Finished
<1> QED BY <1>1, <1>2, PTL DEF Spec

\* No output name ever refers to a partly written file, through any crash.
THEOREM OutputsAreComplete ==
    ASSUME "generic" \notin Platforms, ~May("token")
    PROVE  Spec => []OutputsComplete
<1>1. TypeOK /\ CommitInvariant => OutputsComplete
  BY PathsDiffer DEF TypeOK, CommitInvariant, SyncedBeforeCommit, DiskComplete, OutputsComplete
<1> QED BY <1>1, CommitInvariantHolds, PTL

-----------------------------------------------------------------------------
(* Nothing is overwritten.                                                 *)

\* rename() over the output is the way of the platforms that lack link().
RenameIsGeneric == \A c \in Calls : pc[c] = "rename" => platform = "generic"

\* A call commits under a temporary name, and reaches the rename only on the generic
\* branch.
LEMMA NamingStep ==
    ASSUME TypeOK, TempNamed, RenameIsGeneric, [Next]_vars
    PROVE  TempNamed' /\ RenameIsGeneric'
<1> USE DEF TypeOK, TempNamed, RenameIsGeneric, InFile, InCommit, Catching, Goto, Return, Throw,
            ThrowLate, control, naming, names, data
<1>1. ASSUME NEW c \in Calls,
             \/ Begin(c) \/ RejectEmptyPassword(c) \/ CheckOutput(c) \/ MakeHeader(c)
      PROVE  TempNamed' /\ RenameIsGeneric'
  BY <1>1 DEF Begin, RejectEmptyPassword, CheckOutput, MakeHeader
<1>2. ASSUME NEW c \in Calls, OpenTemp(c) PROVE TempNamed' /\ RenameIsGeneric'
  <2>1. CASE DrawFails(c)
    BY <2>1 DEF DrawFails
  <2>2. ASSUME NEW t \in Tokens, Collide(c, t) \/ OpenFails(c, t) \/ DescriptorFails(c, t)
        PROVE  TempNamed' /\ RenameIsGeneric'
    BY <2>2 DEF Draws, Collide, OpenFails, DescriptorFails
  <2>3. ASSUME NEW t \in Tokens, CreateTemp(c, t) PROVE TempNamed' /\ RenameIsGeneric'
    BY <2>3 DEF Draws, CreateTemp
  <2> QED BY <1>2, <2>1, <2>2, <2>3 DEF OpenTemp
<1>3. ASSUME NEW c \in Calls,
             \/ OpenInput(c) \/ WritePiece(c) \/ PayloadFails(c) \/ Flush(c) \/ Close(c)
             \/ Succeed(c) \/ Cleanup(c)
      PROVE  TempNamed' /\ RenameIsGeneric'
  BY <1>3 DEF OpenInput, WritePiece, PayloadFails, Flush, Close, Succeed, Cleanup
<1>4. ASSUME NEW c \in Calls,
             \/ Link(c) \/ RemoveTemp(c) \/ SyncDirectory(c) \/ SyncFails(c)
             \/ MoveFile(c) \/ CheckAgain(c) \/ RenameOver(c)
      PROVE  TempNamed' /\ RenameIsGeneric'
  BY <1>4 DEF Link, RemoveTemp, SyncDirectory, SyncFails, MoveFile, CheckAgain, RenameOver
<1>5. ASSUME NEW p \in Paths, ForeignCreates(p) \/ ForeignRemoves(p)
      PROVE  TempNamed' /\ RenameIsGeneric'
  BY <1>5 DEF ForeignCreates, ForeignRemoves
<1>6. ASSUME NEW c \in Calls, Kill(c) PROVE TempNamed' /\ RenameIsGeneric'
  BY <1>6 DEF Kill
<1>7. CASE PowerLoss
  BY <1>7 DEF PowerLoss
<1>8. CASE UNCHANGED vars
  BY <1>8 DEF vars
<1> QED BY <1>1, <1>2, <1>3, <1>4, <1>5, <1>6, <1>7, <1>8 DEF Next, Step, Environment, Finished

\* The same, in every reachable state.
LEMMA NamingHolds == Spec => [](TypeOK /\ TempNamed /\ RenameIsGeneric)
<1>1. Init => TypeOK /\ AttemptsLeft /\ TempNamed /\ RenameIsGeneric
  <2>1. Init => TempNamed /\ RenameIsGeneric
    BY DEF Init, TempNamed, RenameIsGeneric, InFile, InCommit, Catching
  <2> QED BY <2>1, TypeInit
<1>2. TypeOK /\ AttemptsLeft /\ TempNamed /\ RenameIsGeneric /\ [Next]_vars
        => (TypeOK /\ AttemptsLeft /\ TempNamed /\ RenameIsGeneric)'
  BY TypeStep, NamingStep
<1> QED BY <1>1, <1>2, PTL DEF Spec

\* No step of any call replaces or removes what an output name refers to, on any
\* platform that commits with link() or MoveFileExW, even if random names repeat.
THEOREM NeverOverwrites ==
    ASSUME "generic" \notin Platforms
    PROVE  Spec => NoOverwrite
<1> DEFINE Kept == \A o \in Outputs : Occupied(Path(o)) => dir'[Path(o)] = dir[Path(o)]
<1>1. ASSUME TypeOK, TempNamed, RenameIsGeneric, NEW c \in Calls, Step(c)
      PROVE  Kept
  <2> USE <1>1 DEF TypeOK, TempNamed, InFile, InCommit, Catching, Occupied, OutputOf, TempOf, names
  <2>1. CASE \/ Begin(c) \/ RejectEmptyPassword(c) \/ CheckOutput(c) \/ MakeHeader(c)
             \/ OpenInput(c) \/ WritePiece(c) \/ PayloadFails(c) \/ Flush(c) \/ Close(c)
             \/ Succeed(c) \/ SyncDirectory(c) \/ SyncFails(c) \/ CheckAgain(c)
    BY <2>1 DEF Begin, RejectEmptyPassword, CheckOutput, MakeHeader, OpenInput, WritePiece,
                PayloadFails, Flush, Close, Succeed, SyncDirectory, SyncFails, CheckAgain
  <2>2. CASE OpenTemp(c)
    BY <2>2, PathsDiffer DEF OpenTemp, DrawFails, Collide, OpenFails, DescriptorFails,
                             CreateTemp, Put
  <2>3. CASE RemoveTemp(c) \/ Cleanup(c)
    BY <2>3, PathsDiffer DEF RemoveTemp, Cleanup, RemoveQuietly, Put
  <2>4. CASE Link(c)
    BY <2>4, PathsDiffer DEF Link, OutputTaken, Put
  <2>5. CASE MoveFile(c)
    BY <2>5, PathsDiffer DEF MoveFile, OutputTaken, Moved
  <2>6. CASE RenameOver(c)
    BY <2>6 DEF RenameOver, RenameIsGeneric
  <2> QED BY <2>1, <2>2, <2>3, <2>4, <2>5, <2>6 DEF Step
<1>2. TypeOK /\ TempNamed /\ RenameIsGeneric /\ [Next]_vars
        => [\A c \in Calls : Step(c) => Kept]_vars
  BY <1>1
<1> QED BY <1>2, NamingHolds, PTL DEF Spec, NoOverwrite
=============================================================================
