-------------------------- MODULE CliOutputProofs --------------------------
(***************************************************************************)
(* Proofs about CliOutput for every set of commands, outputs and temporary *)
(* names and every combination of faults.  That random_bytes returns no    *)
(* suffix another running command holds is part of the model (Draws).      *)
(***************************************************************************)
EXTENDS CliOutput, TLAPS

\* The names a command uses are paths, and an output name is never a temporary one.
LEMMA PathsDiffer ==
    /\ \A o \in Outputs, t \in Tokens : TempPath(o, t) \in Paths /\ TempPath(o, t) \in TempPaths
    /\ \A o \in Outputs : Path(o) \in Paths /\ Path(o) \notin TempPaths
    /\ \A p \in TempPaths : p \in Paths
    /\ \A o, u \in Outputs, t \in Tokens : Path(o) # TempPath(u, t)
    /\ \A o, u \in Outputs : Path(o) = Path(u) => o = u
BY NamesAssumption DEF Path, TempPath, Paths, TempPaths

\* The paths of a command are paths, whatever suffix it has drawn.
LEMMA CommandPaths ==
    ASSUME TypeOK, NEW c \in Calls
    PROVE  /\ OutputOf(c) \in Paths /\ TempOf(c) \in Paths
           /\ temp[c] # NoSuffix => TempOf(c) \in TempPaths
BY DEF TypeOK, OutputOf, TempOf, Path, TempPath, Paths, TempPaths

\* Changing one entry keeps the types of the directory and of the disk.
LEMMA PutType ==
    ASSUME TypeOK, NEW p \in Paths, NEW e \in Entries, Put(p, e)
    PROVE  dir' \in [Paths -> Entries] /\ disk' \in [Paths -> SUBSET Entries]
BY DEF TypeOK, Put

-----------------------------------------------------------------------------
(* Types.                                                                  *)

\* A command that tries another name has attempts left, one that delivers its result
\* has writes left, one that flushes std::cout has written all of it.
Counts ==
    \A c \in Calls :
        /\ pc[c] \in {"start", "status", "temp"} => tries[c] < MaxAttempts
        /\ pc[c] \in {"start", "status", "temp", "payload"} => len[c] < Pieces /\ printed[c] < Pieces
        /\ pc[c] = "flush" => printed[c] = Pieces

\* The initial states have their types and everything still to do.
LEMMA TypeInit == Init => TypeOK /\ Counts
BY PiecesAssumption, AttemptsAssumption DEF Init, TypeOK, Counts, Paths, Entries, Labels, Modes

\* The steps of a command up to its temporary file.
LEMMA TypeBeforeTemp ==
    ASSUME TypeOK, Counts, NEW c \in Calls, Prepare(c) \/ CheckOutput(c) \/ OpenTemp(c)
    PROVE  TypeOK' /\ Counts'
<1> USE AttemptsAssumption
    DEF TypeOK, Counts, Labels, Goto, Exit, Throw, control, naming, names, data, stdout
<1>e. c \in Entries
  BY DEF Entries
<1>1. CASE Prepare(c)
  BY <1>1 DEF Prepare
<1>2. CASE CheckOutput(c)
  BY <1>2 DEF CheckOutput
<1>3. CASE DrawFails(c)
  BY <1>3 DEF DrawFails
<1>4. ASSUME NEW t \in Tokens, Collide(c, t) PROVE TypeOK' /\ Counts'
  BY <1>4 DEF Draws, Collide, Attempts, LastAttempt
<1>5. ASSUME NEW t \in Tokens, OpenFails(c, t) PROVE TypeOK' /\ Counts'
  BY <1>5 DEF Draws, OpenFails
<1>6. ASSUME NEW t \in Tokens, StreamFails(c, t) PROVE TypeOK' /\ Counts'
  <2>1. dir' \in [Paths -> Entries] /\ disk' \in [Paths -> SUBSET Entries]
    BY <1>6, <1>e, PathsDiffer, PutType DEF StreamFails
  <2> QED BY <1>6, <2>1 DEF Draws, StreamFails
<1>7. ASSUME NEW t \in Tokens, CreateTemp(c, t) PROVE TypeOK' /\ Counts'
  <2>1. dir' \in [Paths -> Entries] /\ disk' \in [Paths -> SUBSET Entries]
    BY <1>7, <1>e, PathsDiffer, PutType DEF CreateTemp
  <2> QED BY <1>7, <2>1 DEF Draws, CreateTemp
<1> QED BY <1>1, <1>2, <1>3, <1>4, <1>5, <1>6, <1>7 DEF OpenTemp

\* The steps of a command that deliver its result or give up.
LEMMA TypeDelivery ==
    ASSUME TypeOK, Counts, NEW c \in Calls,
           \/ WritePiece(c) \/ PayloadFails(c) \/ Close(c) \/ Link(c) \/ RemoveTemp(c)
           \/ PrintPiece(c) \/ FlushStdout(c) \/ PrintExit(c) \/ Cleanup(c)
    PROVE  TypeOK' /\ Counts'
<1> USE PiecesAssumption
    DEF TypeOK, Counts, Labels, Goto, Exit, Throw, control, naming, names, data, stdout
<1>e. NoFile \in Entries /\ dir[TempOf(c)] \in Entries
  BY CommandPaths DEF Entries
<1>n. dir' \in [Paths -> Entries] /\ disk' \in [Paths -> SUBSET Entries]
  <2>1. CASE Link(c) \/ RemoveTemp(c) \/ Cleanup(c)
    BY <2>1, <1>e, CommandPaths, PutType DEF Link, RemoveTemp, Cleanup, RemoveQuietly
  <2>2. CASE ~(Link(c) \/ RemoveTemp(c) \/ Cleanup(c))
    BY <2>2 DEF WritePiece, PayloadFails, Close, PrintPiece, FlushStdout, PrintExit
  <2> QED BY <2>1, <2>2
<1>1. CASE WritePiece(c)
  BY <1>1 DEF WritePiece
<1>2. CASE PayloadFails(c)
  BY <1>2 DEF PayloadFails
<1>3. CASE Close(c)
  BY <1>3 DEF Close, Synced
<1>4. CASE Link(c)
  BY <1>4, <1>n DEF Link
<1>5. CASE RemoveTemp(c)
  BY <1>5, <1>n DEF RemoveTemp
<1>6. CASE PrintPiece(c)
  BY <1>6 DEF PrintPiece
<1>7. CASE FlushStdout(c)
  BY <1>7 DEF FlushStdout, FlushChecked, Drain
<1>8. CASE PrintExit(c)
  BY <1>8 DEF PrintExit, Drain
<1>9. CASE Cleanup(c)
  BY <1>9, <1>n DEF Cleanup, Drain
<1> QED BY <1>1, <1>2, <1>3, <1>4, <1>5, <1>6, <1>7, <1>8, <1>9

\* What other processes, a killed process and a power loss do.
LEMMA TypeEnvironment ==
    ASSUME TypeOK, Counts, Environment
    PROVE  TypeOK' /\ Counts'
<1> USE PiecesAssumption
    DEF TypeOK, Counts, Labels, Goto, control, naming, names, data, stdout
<1>1. ASSUME NEW p \in Paths, ForeignCreates(p) PROVE TypeOK' /\ Counts'
  <2>1. dir' \in [Paths -> Entries] /\ disk' \in [Paths -> SUBSET Entries]
    BY <1>1, PutType DEF ForeignCreates, Entries
  <2> QED BY <1>1, <2>1 DEF ForeignCreates
<1>2. ASSUME NEW c \in Calls, Kill(c) PROVE TypeOK' /\ Counts'
  BY <1>2 DEF Kill
<1>3. CASE PowerLoss
  BY <1>3 DEF PowerLoss
<1> QED BY <1>1, <1>2, <1>3 DEF Environment

\* No step breaks a type or lets a command lose count.
LEMMA TypeStep == TypeOK /\ Counts /\ [Next]_vars => TypeOK' /\ Counts'
<1> SUFFICES ASSUME TypeOK, Counts, [Next]_vars PROVE TypeOK' /\ Counts'
  OBVIOUS
<1>1. ASSUME NEW c \in Calls, Step(c) PROVE TypeOK' /\ Counts'
  BY <1>1, TypeBeforeTemp, TypeDelivery DEF Step
<1>2. CASE Environment
  BY <1>2, TypeEnvironment
<1>3. CASE UNCHANGED vars
  BY <1>3 DEF vars, TypeOK, Counts
<1> QED BY <1>1, <1>2, <1>3 DEF Next, Finished

\* Every variable of the command line's outputs keeps its type, whatever goes wrong.
THEOREM CommandTypes == Spec => []TypeOK
BY TypeInit, TypeStep, PTL DEF Spec

-----------------------------------------------------------------------------
(* What a command owns and what it has delivered.                          *)

\* Where a command with a file stands, and that the file under its temporary name is
\* its own as long as it runs.
OpenedOwned ==
    \A c \in Calls :
        /\ pc[c] \in {"start", "status"} => temp[c] = NoSuffix
        /\ opened[c] => mode[c] \in FileModes
        /\ pc[c] \in {"start", "status", "temp"} => ~opened[c]
        /\ pc[c] \in {"status", "temp", "close", "commit", "unlink"} => mode[c] \in FileModes
        /\ pc[c] = "payload" /\ mode[c] \in FileModes => opened[c]
        /\ pc[c] \in {"close", "commit", "unlink"} => opened[c]
        /\ pc[c] = "flush" => mode[c] \notin FileModes
        /\ opened[c] /\ Live(c) => temp[c] # NoSuffix /\ dir[TempOf(c)] = c

\* No two running commands hold one temporary name.
HeldApart == \A c, d \in Calls : c # d /\ Holds(c) /\ Holds(d) => TempOf(c) # TempOf(d)

\* close syncs a complete file before the link.
SyncedBeforeLink ==
    \A c \in Calls :
        /\ pc[c] \in {"close", "commit", "unlink"} => len[c] = Pieces
        /\ pc[c] \in {"commit", "unlink"} => safe[c] = Pieces
        /\ pc[c] = "unlink" => dir[OutputOf(c)] = c

\* What an output name may show after a power loss is a complete file, synced by a
\* command that has linked it.
DeliveredWhole ==
    /\ \A p \in Paths : dir[p] \in disk[p]
    /\ \A c \in Calls, o \in Outputs : c \in disk[Path(o)] =>
          pc[c] \in {"unlink", "done", "dead"} /\ len[c] = Pieces /\ safe[c] = Pieces

\* A running command has files only under the temporary name it holds, and a stream for
\* its file unless streams can fail.
TempsHeld ==
    \A c \in Calls, p \in TempPaths : c \in disk[p] /\ ~Ended(c) =>
        /\ temp[c] # NoSuffix /\ p = TempOf(c)
        /\ pc[c] \notin {"start", "status", "temp"} /\ mode[c] \in FileModes
        /\ opened[c] \/ May("alloc")

CliInvariant == OpenedOwned /\ HeldApart /\ SyncedBeforeLink /\ DeliveredWhole /\ TempsHeld

\* Before any command begins there is no file and no temporary name.
LEMMA CliInit == Init => CliInvariant
BY NamesAssumption, PathsDiffer
   DEF Init, CliInvariant, OpenedOwned, HeldApart, SyncedBeforeLink, DeliveredWhole, TempsHeld,
       Holds, Live, Ended, FileModes

\* A step of a command that changes neither its names nor its file.
LEMMA QuietStep ==
    ASSUME TypeOK, CliInvariant, NEW c \in Calls,
           \/ Prepare(c) \/ CheckOutput(c) \/ DrawFails(c) \/ PayloadFails(c)
           \/ PrintPiece(c) \/ FlushStdout(c) \/ PrintExit(c)
    PROVE  CliInvariant'
<1>1. /\ UNCHANGED <<naming, names, data>>
      /\ \A d \in Calls : d # c => pc'[d] = pc[d]
      /\ \/ pc[c] = "start" /\ pc'[c] = "status" /\ mode[c] \in FileModes
         \/ pc[c] = "start" /\ pc'[c] = "payload" /\ mode[c] \notin FileModes
         \/ pc[c] = "status" /\ pc'[c] = "temp"
         \/ pc[c] \in {"start", "status", "flush"} /\ pc'[c] = "done"
         \/ pc[c] \in {"temp", "payload", "flush"} /\ pc'[c] = "cleanup"
         \/ pc[c] = "payload" /\ pc'[c] \in {"payload", "flush"} /\ mode[c] \notin FileModes
  BY DEF TypeOK, Prepare, CheckOutput, DrawFails, PayloadFails, PrintPiece, FlushStdout, FlushChecked,
         PrintExit, Goto, Exit, Throw, FileModes, names, data, naming
<1> USE <1>1 DEF CliInvariant, naming, names, data, Live, Ended, Holds, TempOf, OutputOf
<1>2. OpenedOwned'
  BY DEF OpenedOwned
<1>3. HeldApart'
  BY DEF HeldApart, OpenedOwned
<1>4. SyncedBeforeLink'
  BY DEF SyncedBeforeLink
<1>5. DeliveredWhole' /\ TempsHeld'
  BY DEF DeliveredWhole, TempsHeld
<1> QED BY <1>2, <1>3, <1>4, <1>5

\* A step of a command that draws a temporary name, with or without a file under it.
LEMMA DrawStep ==
    ASSUME TypeOK, CliInvariant, NEW c \in Calls, NEW t \in Tokens,
           Collide(c, t) \/ OpenFails(c, t) \/ StreamFails(c, t) \/ CreateTemp(c, t)
    PROVE  CliInvariant'
<1> DEFINE p == TempPath(out[c], t)
<1>1. /\ UNCHANGED <<mode, out, len, safe>>
      /\ \A d \in Calls : d # c => pc'[d] = pc[d] /\ temp'[d] = temp[d] /\ opened'[d] = opened[d]
      /\ pc[c] = "temp" /\ temp'[c] = t
      /\ \/ pc'[c] \in {"temp", "cleanup"} /\ ~opened'[c] /\ UNCHANGED names
         \/ pc'[c] = "cleanup" /\ ~opened'[c] /\ ~Occupied(p) /\ Put(p, c) /\ May("alloc")
         \/ pc'[c] = "payload" /\ opened'[c] /\ ~Occupied(p) /\ Put(p, c)
      /\ \A d \in Calls \ {c} : Holds(d) => TempOf(d) # p
  BY DEF TypeOK, CliInvariant, OpenedOwned, Draws, Collide, OpenFails, StreamFails, CreateTemp,
         Goto, Throw, control, naming, names, data
<1>2. TempOf(c)' = p /\ mode[c] \in FileModes /\ t # NoSuffix
  BY <1>1, NamesAssumption DEF TypeOK, TempOf, CliInvariant, OpenedOwned
<1>3. \A d \in Calls : d # c => Holds(d)' = Holds(d) /\ Live(d)' = Live(d) /\ TempOf(d)' = TempOf(d)
  BY <1>1 DEF Holds, Live, Ended, TempOf
<1>4. /\ \A q \in Paths : q # p => dir'[q] = dir[q] /\ disk'[q] = disk[q]
      /\ \/ dir'[p] = dir[p] /\ disk'[p] = disk[p] /\ ~opened'[c]
         \/ /\ dir'[p] = c /\ disk'[p] = disk[p] \cup {c} /\ dir[p] = NoFile
            /\ pc'[c] \in {"cleanup", "payload"} /\ (opened'[c] \/ May("alloc"))
      /\ p \in Paths /\ p \in TempPaths
  BY <1>1, PathsDiffer DEF TypeOK, Put, names, Occupied
<1> USE DEF CliInvariant
<1>5. OpenedOwned'
  <2>1. \A d \in Calls : d # c => TempOf(d) \in Paths
    BY CommandPaths
  <2>2. \A d \in Calls : d # c /\ opened'[d] /\ Live(d)' => temp'[d] # NoSuffix /\ dir'[TempOf(d)'] = d
    BY <1>1, <1>3, <1>4, <2>1, NamesAssumption DEF OpenedOwned
  <2>3. opened'[c] => dir'[TempOf(c)'] = c
    BY <1>1, <1>2, <1>4 DEF Put, TypeOK
  <2> QED BY <1>1, <1>2, <2>2, <2>3 DEF OpenedOwned
<1>6. HeldApart'
  BY <1>1, <1>2, <1>3 DEF HeldApart
<1>7. SyncedBeforeLink'
  BY <1>1, <1>4, PathsDiffer DEF SyncedBeforeLink, OutputOf, TypeOK
<1>8. DeliveredWhole'
  BY <1>1, <1>4, PathsDiffer DEF DeliveredWhole
<1>9. TempsHeld'
  <2>1. ASSUME NEW d \in Calls, NEW q \in TempPaths, d \in disk'[q], ~Ended(d)'
        PROVE  /\ temp'[d] # NoSuffix /\ q = TempOf(d)'
               /\ pc'[d] \notin {"start", "status", "temp"} /\ mode'[d] \in FileModes
               /\ opened'[d] \/ May("alloc")
    <3>1. CASE d = c
      <4>1. ~(c \in disk[q])
        BY <1>1 DEF TempsHeld, Ended
      <4>2. disk'[q] # disk[q] /\ q \in Paths
        BY <2>1, <3>1, <4>1, PathsDiffer
      <4>3. q = p
        BY <1>4, <4>2
      <4>4. pc'[c] \in {"cleanup", "payload"} /\ (opened'[c] \/ May("alloc"))
        BY <1>4, <4>2, <4>3, Zenon
      <4> QED BY <1>1, <1>2, <3>1, <4>3, <4>4
    <3>2. CASE d # c
      BY <1>1, <1>3, <1>4, <2>1, <3>2, PathsDiffer DEF TempsHeld, Ended
    <3> QED BY <3>1, <3>2
  <2> QED BY <2>1 DEF TempsHeld
<1> QED BY <1>5, <1>6, <1>7, <1>8, <1>9

\* A write to the temporary file, and its synced close.
LEMMA FileStep ==
    ASSUME TypeOK, Counts, Counts', CliInvariant, NEW c \in Calls, WritePiece(c) \/ Close(c)
    PROVE  CliInvariant'
<1>1. /\ UNCHANGED <<naming, names>>
      /\ \A d \in Calls : d # c => pc'[d] = pc[d] /\ len'[d] = len[d] /\ safe'[d] = safe[d]
      /\ \/ pc[c] = "payload" /\ pc'[c] = "payload" /\ mode[c] \in FileModes
         \/ pc[c] = "payload" /\ pc'[c] = "close" /\ len'[c] = Pieces /\ mode[c] \in FileModes
         \/ pc[c] = "close" /\ pc'[c] = "commit" /\ len'[c] = len[c] /\ safe'[c] = len[c]
         \/ pc[c] = "close" /\ pc'[c] = "cleanup" /\ len'[c] = len[c]
  BY DEF TypeOK, WritePiece, Close, Synced, Goto, Throw, naming, names
<1> USE <1>1 DEF CliInvariant, naming, names, Live, Ended, Holds, TempOf, OutputOf
<1>2. OpenedOwned'
  BY DEF OpenedOwned
<1>3. HeldApart'
  BY DEF HeldApart
<1>4. SyncedBeforeLink'
  BY DEF SyncedBeforeLink
<1>5. DeliveredWhole' /\ TempsHeld'
  BY DEF DeliveredWhole, TempsHeld
<1> QED BY <1>2, <1>3, <1>4, <1>5

\* The link to the output name, and the removal of the temporary name.
LEMMA NameStep ==
    ASSUME TypeOK, CliInvariant, NEW c \in Calls, Link(c) \/ RemoveTemp(c) \/ Cleanup(c)
    PROVE  CliInvariant'
<1> USE DEF CliInvariant
<1>1. /\ UNCHANGED <<naming, data>>
      /\ \A d \in Calls : d # c => pc'[d] = pc[d]
      /\ \/ /\ pc[c] = "commit" /\ pc'[c] = "unlink"
            /\ ~Occupied(OutputOf(c)) /\ Put(OutputOf(c), c)
         \/ pc[c] = "commit" /\ pc'[c] = "cleanup" /\ UNCHANGED names
         \/ /\ pc[c] \in {"unlink", "cleanup"} /\ pc'[c] = "done"
            /\ UNCHANGED names \/ (temp[c] # NoSuffix /\ Put(TempOf(c), NoFile))
  <2>1. CASE Link(c)
    <3>1. dir[TempOf(c)] = c
      BY <2>1 DEF Link, OpenedOwned, Live, Ended
    <3> QED BY <2>1, <3>1 DEF Link, OutputTaken, Goto, Throw, TypeOK, naming, names, data
  <2>2. CASE RemoveTemp(c)
    BY <2>2 DEF RemoveTemp, RemoveQuietly, Exit, TypeOK, OpenedOwned, Live, Ended, naming, names, data
  <2>3. CASE Cleanup(c)
    BY <2>3 DEF Cleanup, RemoveQuietly, RemovesTemp, Exit, TypeOK, OpenedOwned, Live, Ended,
                naming, names, data
  <2> QED BY <2>1, <2>2, <2>3
<1>2. /\ \A p \in Paths : \/ dir'[p] = dir[p] /\ disk'[p] = disk[p]
                          \/ /\ p = OutputOf(c) /\ dir[p] = NoFile /\ dir'[p] = c
                             /\ disk'[p] = disk[p] \cup {c} /\ pc'[c] = "unlink"
                          \/ /\ p = TempOf(c) /\ temp[c] # NoSuffix /\ dir'[p] = NoFile
                             /\ disk'[p] = disk[p] \cup {NoFile} /\ pc'[c] = "done"
      /\ pc'[c] = "unlink" => dir'[OutputOf(c)] = c
  BY <1>1, CommandPaths DEF TypeOK, Put, names, Occupied
<1>3. /\ \A d \in Calls : TempOf(d)' = TempOf(d) /\ OutputOf(d)' = OutputOf(d)
      /\ \A d \in Calls : TempOf(d) \in Paths /\ OutputOf(d) \in Paths /\ OutputOf(d) \notin TempPaths
      /\ \A d \in Calls : temp[d] # NoSuffix => TempOf(d) \in TempPaths
      /\ \A d \in Calls : Holds(d)' => Holds(d)
  BY <1>1, CommandPaths, PathsDiffer DEF TempOf, OutputOf, TypeOK, naming, Holds, Live, Ended
<1>4. OpenedOwned'
  <2>1. ASSUME NEW d \in Calls, opened'[d], Live(d)' PROVE temp'[d] # NoSuffix /\ dir'[TempOf(d)'] = d
    <3>1. Live(d) /\ temp[d] # NoSuffix /\ dir[TempOf(d)] = d /\ temp'[d] = temp[d]
      BY <1>1, <2>1 DEF OpenedOwned, Live, Ended, naming
    <3>2. TempOf(d) # OutputOf(c)
      BY <1>3, <3>1
    <3>3. \/ Holds(c) /\ Holds(d) /\ (d = c => pc'[c] # "done")
          \/ pc'[c] # "done"
          \/ temp[c] = NoSuffix
      BY <1>1, <2>1, <3>1 DEF Holds, Live, Ended
    <3> QED BY <1>2, <1>3, <3>1, <3>2, <3>3 DEF HeldApart
  <2> QED BY <1>1, <2>1 DEF OpenedOwned, naming
<1>5. HeldApart'
  BY <1>3 DEF HeldApart
<1>6. SyncedBeforeLink'
  BY <1>1, <1>2, <1>3, NamesAssumption DEF SyncedBeforeLink, data
<1>7. DeliveredWhole'
  BY <1>1, <1>2, <1>3, PathsDiffer, NamesAssumption DEF DeliveredWhole, SyncedBeforeLink, data
<1>8. TempsHeld'
  BY <1>1, <1>2, <1>3, PathsDiffer, NamesAssumption DEF TempsHeld, Ended, naming
<1> QED BY <1>4, <1>5, <1>6, <1>7, <1>8

\* Other processes, a killed process and a power loss.
LEMMA EnvironmentStep ==
    ASSUME TypeOK, CliInvariant, Environment
    PROVE  CliInvariant'
<1> USE DEF CliInvariant
<1>1. ASSUME NEW p \in Paths, ForeignCreates(p) PROVE CliInvariant'
  <2>1. /\ UNCHANGED <<control, naming, data>> /\ dir[p] = NoFile
        /\ \A q \in Paths : \/ dir'[q] = dir[q] /\ disk'[q] = disk[q]
                            \/ q = p /\ dir'[q] = Foreign /\ disk'[q] = disk[q] \cup {Foreign}
    BY <1>1 DEF ForeignCreates, Put, TypeOK, Occupied
  <2>2. \A d \in Calls : TempOf(d) \in Paths /\ OutputOf(d) \in Paths
    BY CommandPaths
  <2> USE <2>1, <2>2, NamesAssumption, PathsDiffer DEF control, naming, data, Live, Ended, Holds
  <2>3. \A d \in Calls : TempOf(d)' = TempOf(d) /\ OutputOf(d)' = OutputOf(d)
    BY DEF TempOf, OutputOf
  <2>4. OpenedOwned'
    BY <2>3 DEF OpenedOwned
  <2>5. HeldApart' /\ SyncedBeforeLink'
    BY <2>3 DEF HeldApart, SyncedBeforeLink
  <2>6. DeliveredWhole' /\ TempsHeld'
    BY <2>3 DEF DeliveredWhole, TempsHeld
  <2> QED BY <2>4, <2>5, <2>6
<1>2. ASSUME NEW c \in Calls, Kill(c) PROVE CliInvariant'
  BY <1>2 DEF Kill, Goto, TypeOK, naming, names, data, OpenedOwned, HeldApart, SyncedBeforeLink,
              DeliveredWhole, TempsHeld, Live, Ended, Holds, TempOf, OutputOf
<1>3. CASE PowerLoss
  <2>1. /\ UNCHANGED naming
        /\ \A c \in Calls : /\ Live(c) => pc'[c] = "dead"
                            /\ ~Live(c) => pc'[c] = pc[c]
                            /\ len'[c] \in safe[c] .. len[c] /\ safe'[c] = len'[c]
        /\ \A p \in Paths : dir'[p] \in disk[p] /\ disk'[p] = {dir'[p]}
    BY <1>3 DEF PowerLoss, TypeOK
  <2> USE <2>1, PathsDiffer DEF naming, Live, Ended, Holds
  <2>2. OpenedOwned' /\ HeldApart' /\ SyncedBeforeLink'
    BY DEF OpenedOwned, HeldApart, SyncedBeforeLink
  <2>3. DeliveredWhole'
    BY PiecesAssumption DEF DeliveredWhole
  <2>4. TempsHeld'
    BY DEF TempsHeld
  <2> QED BY <2>2, <2>3, <2>4
<1> QED BY <1>1, <1>2, <1>3 DEF Environment

\* The invariant holds in every reachable state, through every failure and power loss.
THEOREM CliInvariantHolds == Spec => [](TypeOK /\ Counts /\ CliInvariant)
<1>1. Init => TypeOK /\ Counts /\ CliInvariant
  BY TypeInit, CliInit
<1>2. TypeOK /\ Counts /\ CliInvariant /\ [Next]_vars => TypeOK' /\ Counts' /\ CliInvariant'
  <2> SUFFICES ASSUME TypeOK, Counts, CliInvariant, [Next]_vars
               PROVE  TypeOK' /\ Counts' /\ CliInvariant'
    OBVIOUS
  <2>1. TypeOK' /\ Counts'
    BY TypeStep
  <2>2. ASSUME NEW c \in Calls, Step(c) PROVE CliInvariant'
    BY <2>1, <2>2, QuietStep, DrawStep, FileStep, NameStep DEF Step, OpenTemp
  <2>3. CASE Environment
    BY <2>1, <2>3, EnvironmentStep
  <2>4. CASE UNCHANGED vars
    BY <2>1, <2>4 DEF vars, CliInvariant, OpenedOwned, HeldApart, SyncedBeforeLink, DeliveredWhole, TempsHeld,
                Live, Ended, Holds, TempOf, OutputOf
  <2> QED BY <2>1, <2>2, <2>3, <2>4 DEF Next, Finished
<1> QED BY <1>1, <1>2, PTL DEF Spec

\* No output name refers to a partly written file, through any number of power losses.
THEOREM OutputsAreComplete == Spec => []OutputsComplete
<1>1. TypeOK /\ Counts /\ CliInvariant => OutputsComplete
  BY PathsDiffer DEF CliInvariant, DeliveredWhole, OutputsComplete
<1> QED BY <1>1, CliInvariantHolds, PTL

-----------------------------------------------------------------------------
(* What a step of a command does.                                          *)

\* What the steps of a command do to the names, given what it owns.
LEMMA StepNames ==
    ASSUME TypeOK, CliInvariant, NEW c \in Calls, Step(c), NEW p \in Paths,
           dir'[p] # dir[p] \/ disk'[p] # disk[p]
    PROVE  \/ /\ pc[c] = "temp" /\ p \in TempPaths /\ dir[p] = NoFile /\ dir'[p] = c
              /\ disk'[p] = disk[p] \cup {c}
           \/ /\ pc[c] = "commit" /\ p = OutputOf(c) /\ dir[p] = NoFile /\ dir'[p] = c
              /\ disk'[p] = disk[p] \cup {c} /\ pc'[c] = "unlink"
           \/ /\ pc[c] \in {"unlink", "cleanup"} /\ p = TempOf(c) /\ temp[c] # NoSuffix
              /\ dir'[p] = NoFile /\ disk'[p] = disk[p] \cup {NoFile}
              /\ opened[c] \/ mode[c] = "write"
<1> USE CommandPaths, PathsDiffer DEF TypeOK, Put, Occupied, names, naming, data
<1>1. CASE OpenTemp(c)
  BY <1>1 DEF OpenTemp, Draws, DrawFails, Collide, OpenFails, StreamFails, CreateTemp
<1>2. CASE Link(c)
  <2>1. dir[TempOf(c)] = c
    BY <1>2 DEF Link, CliInvariant, OpenedOwned, Live, Ended
  <2> QED BY <1>2, <2>1 DEF Link, OutputTaken, Goto
<1>3. CASE RemoveTemp(c)
  <2>1. pc[c] = "unlink" /\ opened[c]
    BY <1>3 DEF RemoveTemp, CliInvariant, OpenedOwned
  <2>2. p = TempOf(c) /\ dir'[p] = NoFile /\ disk'[p] = disk[p] \cup {NoFile}
    BY <1>3 DEF RemoveTemp, RemoveQuietly
  <2>3. temp[c] # NoSuffix
    BY <2>1 DEF CliInvariant, OpenedOwned, Live, Ended
  <2> QED BY <2>1, <2>2, <2>3
<1>4. CASE Cleanup(c)
  BY <1>4 DEF Cleanup, RemoveQuietly, RemovesTemp, CliInvariant, OpenedOwned, Live, Ended
<1>5. CASE \/ Prepare(c) \/ CheckOutput(c) \/ WritePiece(c) \/ PayloadFails(c) \/ Close(c)
           \/ PrintPiece(c) \/ FlushStdout(c) \/ PrintExit(c)
  BY <1>5 DEF Prepare, CheckOutput, WritePiece, PayloadFails, Close, PrintPiece, FlushStdout, PrintExit
<1> QED BY <1>1, <1>2, <1>3, <1>4, <1>5 DEF Step

\* No step of a command replaces or removes what an output name refers to.
THEOREM CommandsNeverOverwrite == Spec => NoOverwrite
<1>1. TypeOK /\ CliInvariant /\ [Next]_vars =>
        \A c \in Calls : Step(c) =>
            \A o \in Outputs : Occupied(Path(o)) => dir'[Path(o)] = dir[Path(o)]
  <2> SUFFICES ASSUME TypeOK, CliInvariant, NEW c \in Calls, Step(c), NEW o \in Outputs,
                      Occupied(Path(o)), dir'[Path(o)] # dir[Path(o)]
               PROVE  FALSE
    OBVIOUS
  <2>1. temp[c] # NoSuffix => TempOf(c) # Path(o)
    BY CommandPaths, PathsDiffer
  <2> QED BY <2>1, StepNames, PathsDiffer DEF Occupied
<1> QED BY <1>1, CliInvariantHolds, PTL DEF Spec, NoOverwrite

\* A command removes a file that it did not make only after a collision that it gave up
\* on, and never the file of a running command.
THEOREM CommandsRemoveOnlyTheirOwn == Spec => RemovesOnlyOwn
<1>1. TypeOK /\ CliInvariant /\ [Next]_vars =>
        \A c \in Calls : Step(c) => \A p \in TempPaths :
          dir[p] \notin {NoFile, c} /\ dir'[p] # dir[p] =>
              /\ mode[c] = "write" /\ ~opened[c] /\ p = TempOf(c)
              /\ \A d \in Calls \ {c} : Holds(d) => p # TempOf(d)
  <2> SUFFICES ASSUME TypeOK, CliInvariant, NEW c \in Calls, Step(c), NEW p \in TempPaths,
                      dir[p] \notin {NoFile, c}, dir'[p] # dir[p]
               PROVE  /\ mode[c] = "write" /\ ~opened[c] /\ p = TempOf(c)
                      /\ \A d \in Calls \ {c} : Holds(d) => p # TempOf(d)
    OBVIOUS
  <2>1. /\ pc[c] \in {"unlink", "cleanup"} /\ p = TempOf(c) /\ temp[c] # NoSuffix
        /\ opened[c] \/ mode[c] = "write"
    BY StepNames, PathsDiffer DEF TypeOK
  <2>2. Holds(c) /\ ~opened[c]
    BY <2>1 DEF Holds, Live, Ended, CliInvariant, OpenedOwned
  <2> QED BY <2>1, <2>2 DEF CliInvariant, HeldApart
<1> QED BY <1>1, CliInvariantHolds, PTL DEF Spec, RemovesOnlyOwn

\* How a command exits.
LEMMA ExitStep ==
    ASSUME TypeOK, Counts, CliInvariant, NEW c \in Calls, [Next]_vars, exit[c] = "none", exit'[c] # "none"
    PROVE  /\ UNCHANGED mode /\ UNCHANGED opened
           /\ \/ RemoveTemp(c) /\ exit'[c] = "success" /\ mode[c] \in FileModes
              \/ /\ FlushStdout(c) \/ PrintExit(c)
                 /\ mode[c] \notin FileModes /\ exit'[c] = "success" /\ UNCHANGED names
                 /\ mode[c] = "stdout" => shown'[c] = Pieces
              \/ pc[c] \in {"start", "status"} /\ UNCHANGED names /\ exit'[c] = "failure"
              \/ Cleanup(c) /\ exit'[c] = "failure"
<1> USE DEF TypeOK, Goto, Exit, Throw, control, naming, names, data, stdout
<1>1. ASSUME NEW d \in Calls, Step(d) PROVE d = c
  BY <1>1 DEF Step, Prepare, CheckOutput, OpenTemp, DrawFails, Collide, OpenFails, StreamFails,
              CreateTemp, WritePiece, PayloadFails, Close, Link, RemoveTemp, PrintPiece, FlushStdout,
              FlushChecked, PrintExit, Cleanup
<1>2. Step(c)
  BY <1>1 DEF Next, Environment, ForeignCreates, Kill, PowerLoss, Finished, vars
<1>3. CASE Prepare(c) \/ CheckOutput(c)
  BY <1>3 DEF Prepare, CheckOutput
<1>4. CASE OpenTemp(c)
  BY <1>4 DEF OpenTemp, DrawFails, Collide, OpenFails, StreamFails, CreateTemp
<1>5. CASE \/ WritePiece(c) \/ PayloadFails(c) \/ Close(c) \/ Link(c) \/ PrintPiece(c)
  BY <1>5 DEF WritePiece, PayloadFails, Close, Link, PrintPiece
<1>6. CASE RemoveTemp(c)
  BY <1>6 DEF RemoveTemp, CliInvariant, OpenedOwned
<1>7. CASE FlushStdout(c)
  BY <1>7 DEF FlushStdout, FlushChecked, Drain, Counts, FileModes
<1>8. CASE PrintExit(c)
  BY <1>8 DEF PrintExit, FileModes
<1>9. CASE Cleanup(c)
  BY <1>9 DEF Cleanup
<1> QED BY <1>2, <1>3, <1>4, <1>5, <1>6, <1>7, <1>8, <1>9 DEF Step

\* The exit status tells what became of the result.
THEOREM ExitStatusIsHonest == Spec => ExitIsHonest
<1>1. TypeOK /\ Counts /\ CliInvariant /\ [Next]_vars =>
        \A c \in Calls : exit[c] = "none" =>
          /\ exit'[c] = "success" /\ mode[c] \in FileModes => dir'[OutputOf(c)] = c
          /\ exit'[c] = "success" /\ mode[c] = "stdout" => shown'[c] = Pieces
          /\ exit'[c] = "failure" => \A o \in Outputs : c \notin disk'[Path(o)]
  <2> SUFFICES ASSUME TypeOK, Counts, CliInvariant, [Next]_vars, NEW c \in Calls,
                      exit[c] = "none", exit'[c] # "none"
               PROVE  /\ exit'[c] = "success" /\ mode[c] \in FileModes => dir'[OutputOf(c)] = c
                      /\ exit'[c] = "success" /\ mode[c] = "stdout" => shown'[c] = Pieces
                      /\ exit'[c] = "failure" => \A o \in Outputs : c \notin disk'[Path(o)]
    OBVIOUS
  <2>1. CASE RemoveTemp(c)
    <3>1. dir[OutputOf(c)] = c /\ temp[c] # NoSuffix
      BY <2>1 DEF RemoveTemp, CliInvariant, SyncedBeforeLink, OpenedOwned, Live, Ended
    <3>2. TempOf(c) # OutputOf(c) /\ OutputOf(c) \in Paths
      BY <3>1, CommandPaths, PathsDiffer DEF OutputOf, TypeOK
    <3>3. dir'[OutputOf(c)] = dir[OutputOf(c)]
      BY <2>1, <3>2 DEF RemoveTemp, RemoveQuietly, Put, names, TypeOK
    <3>4. exit'[c] = "success" /\ mode[c] # "stdout"
      BY <2>1 DEF RemoveTemp, Exit, TypeOK, CliInvariant, OpenedOwned, FileModes
    <3> QED BY <3>1, <3>3, <3>4
  <2>2. CASE exit'[c] = "failure"
    <3>1. pc[c] \in {"start", "status", "cleanup"} /\ (Cleanup(c) \/ UNCHANGED names)
      BY <2>2, ExitStep DEF Cleanup
    <3>2. ASSUME NEW o \in Outputs, c \in disk'[Path(o)] PROVE FALSE
      <4>1. disk'[Path(o)] \subseteq disk[Path(o)] \cup {NoFile}
        BY <3>1, CommandPaths, PathsDiffer DEF Cleanup, RemoveQuietly, Put, names, TypeOK
      <4> QED BY <3>1, <3>2, <4>1, NamesAssumption DEF CliInvariant, DeliveredWhole
    <3> QED BY <2>2, <3>2
  <2> QED BY <2>1, <2>2, ExitStep
<1> QED BY <1>1, CliInvariantHolds, PTL DEF Spec, ExitIsHonest

\* A temporary file that is there when a command has exited is one it had no stream for.
LEMMA ExitLeaves ==
    ASSUME ~May("unlink"), TypeOK, Counts, CliInvariant, [Next]_vars, NEW c \in Calls,
           exit[c] = "none", exit'[c] # "none", NEW p \in TempPaths, dir'[p] = c
    PROVE  mode[c] = "pipe" /\ ~opened[c] /\ May("alloc")
<1>1. p \in Paths /\ TempOf(c) \in Paths /\ c # NoFile
  BY PathsDiffer, CommandPaths, NamesAssumption
<1>2. /\ pc[c] \in {"unlink", "cleanup", "start", "status", "flush"}
      /\ UNCHANGED names \/ RemoveTemp(c) \/ Cleanup(c)
      /\ pc[c] = "flush" => mode[c] \notin FileModes
  BY ExitStep DEF RemoveTemp, Cleanup, FlushStdout, PrintExit
<1>3. dir[p] = c
  BY <1>1, <1>2 DEF RemoveTemp, Cleanup, RemoveQuietly, Put, names, TypeOK
<1>4. /\ temp[c] # NoSuffix /\ p = TempOf(c) /\ mode[c] \in FileModes /\ pc[c] \in {"unlink", "cleanup"}
      /\ opened[c] \/ May("alloc")
  BY <1>1, <1>2, <1>3 DEF CliInvariant, TempsHeld, DeliveredWhole, Ended
<1>5. RemoveTemp(c) \/ Cleanup(c)
  BY <1>4, ExitStep DEF FlushStdout, PrintExit
<1>6. ~Put(TempOf(c), NoFile)
  BY <1>1, <1>4 DEF Put, TypeOK
<1> QED BY <1>4, <1>5, <1>6 DEF RemoveTemp, Cleanup, RemoveQuietly, RemovesTemp, FileModes

\* Whatever fails after the temporary file was opened, it is gone when the command exits,
\* provided that it can be removed.
THEOREM ExitsRemoveOpenedTemps ==
    ASSUME ~May("unlink")
    PROVE  Spec => OpenedTempIsRemoved
<1>1. TypeOK /\ Counts /\ CliInvariant /\ [Next]_vars =>
        \A c \in Calls :
          exit[c] = "none" /\ exit'[c] # "none" /\ (opened[c] \/ mode[c] = "write")
              => \A p \in TempPaths : dir'[p] # c
  BY ExitLeaves
<1> QED BY <1>1, CliInvariantHolds, PTL DEF Spec, OpenedTempIsRemoved

\* The documented promise holds wherever the stream for a created file cannot fail: that
\* failure is the only way to leave a temporary file that could have been removed.
THEOREM ExitsRemoveTheirTemp ==
    ASSUME ~May("unlink"), ~May("alloc")
    PROVE  Spec => ExitRemovesTemp
<1>1. TypeOK /\ Counts /\ CliInvariant /\ [Next]_vars =>
        \A c \in Calls : exit[c] = "none" /\ exit'[c] # "none" =>
          \A p \in TempPaths : dir'[p] # c
  BY ExitLeaves
<1> QED BY <1>1, CliInvariantHolds, PTL DEF Spec, ExitRemovesTemp
=============================================================================
