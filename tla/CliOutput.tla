------------------------------ MODULE CliOutput ------------------------------
(***************************************************************************)
(* How the command line delivers its result: write_new_output_file (keys,  *)
(* packets and recovered plaintext with --out), run_streaming_file_command *)
(* (a file command that reads stdin or writes stdout) and the text         *)
(* commands that print.  It has its own temporary files and its own commit *)
(* beside those of the library (FileCommit); a file command between two    *)
(* paths uses the library's.                                               *)
(*                                                                         *)
(* Several commands run at once.  The bytes of a result are abstracted to  *)
(* the number of writes that make it: it is complete at Pieces.            *)
(***************************************************************************)
EXTENDS Naturals, FiniteSets, Directory

CONSTANTS
    Pieces,         \* the number of writes that complete a result
    MaxAttempts,    \* kMaxAttempts
    Faults          \* what may go wrong around a command

ASSUME PiecesAssumption == Pieces \in Nat \ {0}
ASSUME AttemptsAssumption == MaxAttempts \in Nat \ {0}

VARIABLES
    pc,      \* the statement each command is at
    exit,    \* its exit status
    mode,    \* where its result goes, see Modes
    out,     \* its output path, if its mode has one
    temp,    \* temp_path: the suffix it drew last
    opened,  \* whether open_cli_output_file has returned a stream
    tries,   \* attempt in open_cli_output_file
    len,     \* how many writes the command's file has received
    safe,    \* how many of them survive a power loss
    printed, \* how many writes std::cout has accepted
    shown    \* how many of them had reached whatever stdout is when it exited

control == <<pc, exit>>
naming == <<mode, out, temp, opened, tries>>
data == <<len, safe>>
stdout == <<printed, shown>>
vars == <<pc, exit, mode, out, temp, opened, tries, dir, disk, len, safe, printed, shown>>

\* "write": write_new_output_file; "pipe" and "stdout": run_streaming_file_command
\* with a path and with "-" after --out; "print": a text result on std::cout.
Modes == {"write", "pipe", "stdout", "print"}
FileModes == {"write", "pipe"}

OutputOf(c) == Path(out[c])
TempOf(c) == TempPath(out[c], temp[c])

Labels == {"start", "status", "temp", "payload", "close", "commit", "unlink", "flush",
           "cleanup", "done", "dead"}

TypeOK ==
    /\ pc \in [Calls -> Labels]
    /\ exit \in [Calls -> {"none", "success", "failure"}]
    /\ mode \in [Calls -> Modes]
    /\ out \in [Calls -> Outputs]
    /\ temp \in [Calls -> Tokens \cup {NoSuffix}]
    /\ opened \in [Calls -> BOOLEAN]
    /\ tries \in [Calls -> 0 .. MaxAttempts]
    /\ dir \in [Paths -> Entries]
    /\ disk \in [Paths -> SUBSET Entries]
    /\ len \in [Calls -> 0 .. Pieces]
    /\ safe \in [Calls -> 0 .. Pieces]
    /\ printed \in [Calls -> 0 .. Pieces]
    /\ shown \in [Calls -> 0 .. Pieces]

\* The arguments of a command are chosen before it begins; no file exists.
Init ==
    /\ pc = [c \in Calls |-> "start"]
    /\ exit = [c \in Calls |-> "none"]
    /\ mode \in [Calls -> Modes]
    /\ out \in [Calls -> Outputs]
    /\ temp = [c \in Calls |-> NoSuffix]
    /\ opened = [c \in Calls |-> FALSE]
    /\ tries = [c \in Calls |-> 0]
    /\ dir = [p \in Paths |-> NoFile]
    /\ disk = [p \in Paths |-> {NoFile}]
    /\ len = [c \in Calls |-> 0]
    /\ safe = [c \in Calls |-> 0]
    /\ printed = [c \in Calls |-> 0]
    /\ shown = [c \in Calls |-> 0]

-----------------------------------------------------------------------------
(* Control.                                                                *)

May(fault) == fault \in Faults

Goto(c, label) == pc' = [pc EXCEPT ![c] = label] /\ UNCHANGED exit

Exit(c, status) ==
    /\ pc' = [pc EXCEPT ![c] = "done"]
    /\ exit' = [exit EXCEPT ![c] = status]

\* An exception that catch (...) of either function sees.
Throw(c) == Goto(c, "cleanup")

Ended(c) == pc[c] \in {"done", "dead"}
Live(c) == pc[c] # "start" /\ ~Ended(c)

\* The name a running command has in temp_path, its own file there or not.
Holds(c) == Live(c) /\ temp[c] # NoSuffix

-----------------------------------------------------------------------------
(* Up to the temporary file.                                               *)

\* The options are parsed, the input is opened and, but for the streaming
\* commands, the result is computed before any output is touched.
Prepare(c) ==
    /\ pc[c] = "start"
    /\ \/ Goto(c, IF mode[c] \in FileModes THEN "status" ELSE "payload")
       \/ May("prepare") /\ Exit(c, "failure")
    /\ UNCHANGED <<naming, names, data, stdout>>

\* ensure_output_file_does_not_exist.
CheckOutput(c) ==
    /\ pc[c] = "status"
    /\ \/ ~Occupied(OutputOf(c)) /\ Goto(c, "temp")
       \/ (Occupied(OutputOf(c)) \/ May("status")) /\ Exit(c, "failure")
    /\ UNCHANGED <<naming, names, data, stdout>>

\* random_bytes fails: temp_path keeps what an earlier attempt left in it.
DrawFails(c) ==
    /\ pc[c] = "temp"
    /\ May("random")
    /\ Throw(c)
    /\ UNCHANGED <<naming, names, data, stdout>>

\* random_bytes returned t, which no other running command has drawn.
Draws(c, t) ==
    /\ pc[c] = "temp"
    /\ \A d \in Calls \ {c} : Holds(d) => TempOf(d) # TempPath(out[c], t)

\* (Mutant.) The loop forgets to count, or has no limit.
AttemptsUncounted(c) == tries[c]
LastAttemptNever(c) == FALSE

\* The count of attempts after this one, and whether it is the last one.
Attempts(c) == tries[c] + 1
LastAttempt(c) == tries[c] + 1 = MaxAttempts

\* EEXIST: another attempt, unless this was the last one.
Collide(c, t) ==
    /\ Draws(c, t)
    /\ Occupied(TempPath(out[c], t))
    /\ temp' = [temp EXCEPT ![c] = t]
    /\ tries' = [tries EXCEPT ![c] = Attempts(c)]
    /\ IF LastAttempt(c) THEN Throw(c) ELSE UNCHANGED control
    /\ UNCHANGED <<mode, out, opened, names, data, stdout>>

OpenFails(c, t) ==
    /\ Draws(c, t)
    /\ ~Occupied(TempPath(out[c], t))
    /\ May("open")
    /\ temp' = [temp EXCEPT ![c] = t]
    /\ Throw(c)
    /\ UNCHANGED <<mode, out, opened, tries, names, data, stdout>>

\* open created the file and the stream cannot be allocated: the descriptor is
\* closed, nothing is returned.
StreamFails(c, t) ==
    /\ Draws(c, t)
    /\ ~Occupied(TempPath(out[c], t))
    /\ May("alloc")
    /\ Put(TempPath(out[c], t), c)
    /\ temp' = [temp EXCEPT ![c] = t]
    /\ Throw(c)
    /\ UNCHANGED <<mode, out, opened, tries, data, stdout>>

CreateTemp(c, t) ==
    /\ Draws(c, t)
    /\ ~Occupied(TempPath(out[c], t))
    /\ Put(TempPath(out[c], t), c)
    /\ temp' = [temp EXCEPT ![c] = t]
    /\ opened' = [opened EXCEPT ![c] = TRUE]
    /\ Goto(c, "payload")
    /\ UNCHANGED <<mode, out, tries, data, stdout>>

OpenTemp(c) ==
    \/ DrawFails(c)
    \/ \E t \in Tokens :
          Collide(c, t) \/ OpenFails(c, t) \/ StreamFails(c, t) \/ CreateTemp(c, t)

-----------------------------------------------------------------------------
(* The result goes to a file.                                              *)

\* exclusive_output_stream writes through to the descriptor.
WritePiece(c) ==
    /\ pc[c] = "payload"
    /\ mode[c] \in FileModes
    /\ len' = [len EXCEPT ![c] = @ + 1]
    /\ Goto(c, IF len'[c] = Pieces THEN "close" ELSE "payload")
    /\ UNCHANGED <<naming, names, safe, stdout>>

\* The result cannot be written or, for a streaming command, the input cannot be
\* read, sealed, parsed or authenticated to its end.
PayloadFails(c) ==
    /\ pc[c] = "payload"
    /\ mode[c] # "print"
    /\ May("payload")
    /\ Throw(c)
    /\ UNCHANGED <<naming, names, data, stdout>>

\* (Mutant.) close without flush.
ClosedUnsynced(c) == safe

\* flush calls sync, which calls fsync or _commit.
Synced(c) == [safe EXCEPT ![c] = len[c]]

\* exclusive_output_stream::close: flush, then close the descriptor.
Close(c) ==
    /\ pc[c] = "close"
    /\ \/ safe' = Synced(c) /\ Goto(c, "commit")
       \/ May("close") /\ safe' \in {safe, Synced(c)} /\ Throw(c)
    /\ UNCHANGED <<naming, names, len, stdout>>

\* (Mutant.) rename instead of create_hard_link.
OutputTakenIgnored(c) == FALSE

OutputTaken(c) == Occupied(OutputOf(c))

\* create_hard_link(temp_path, output); exists only chooses the message.
Link(c) ==
    /\ pc[c] = "commit"
    /\ \/ /\ Occupied(TempOf(c)) /\ ~OutputTaken(c)
          /\ Put(OutputOf(c), dir[TempOf(c)])
          /\ Goto(c, "unlink")
       \/ /\ ~Occupied(TempOf(c)) \/ OutputTaken(c) \/ May("link")
          /\ Throw(c)
          /\ UNCHANGED names
    /\ UNCHANGED <<naming, data, stdout>>

\* remove_file_quietly: a failure is ignored.
RemoveQuietly(p) == Put(p, NoFile) \/ (May("unlink") /\ UNCHANGED names)

\* The directory is not synced; the command returns.
RemoveTemp(c) ==
    /\ pc[c] = "unlink"
    /\ RemoveQuietly(TempOf(c))
    /\ Exit(c, "success")
    /\ UNCHANGED <<naming, data, stdout>>

-----------------------------------------------------------------------------
(* The result goes to stdout.                                              *)

\* What is left in the stream's buffer is written, unless the disk is full or the
\* reader is gone; some of it may have been written before.
Drain(c) ==
    \E n \in 0 .. printed[c] :
        /\ n = printed[c] \/ May("stdout")
        /\ shown' = [shown EXCEPT ![c] = n]

PrintPiece(c) ==
    /\ pc[c] = "payload"
    /\ mode[c] \notin FileModes
    /\ printed' = [printed EXCEPT ![c] = @ + 1]
    /\ Goto(c, IF printed'[c] = Pieces THEN "flush" ELSE "payload")
    /\ UNCHANGED <<naming, names, data, shown>>

\* (Mutant.) The state of std::cout is not looked at.
FlushUnchecked(c) == Drain(c) /\ Exit(c, "success")

\* A streaming command flushes std::cout and looks at its state.
FlushChecked(c) ==
    \/ Drain(c) /\ shown'[c] = printed[c] /\ Exit(c, "success")
    \/ May("stdout") /\ Throw(c) /\ UNCHANGED shown

FlushStdout(c) ==
    /\ pc[c] = "flush"
    /\ mode[c] = "stdout"
    /\ FlushChecked(c)
    /\ UNCHANGED <<naming, names, data, printed>>

\* A text command returns 0 without looking at std::cout; the buffer is written
\* when the process exits.
PrintExit(c) ==
    /\ pc[c] = "flush"
    /\ mode[c] = "print"
    /\ Drain(c)
    /\ Exit(c, "success")
    /\ UNCHANGED <<naming, names, data, printed>>

-----------------------------------------------------------------------------
(* catch (...), and main returns 1.                                        *)

\* (Mutant.) A streaming command, too, removes whatever name it has drawn.
RemovesDrawn(c) == temp[c] # NoSuffix

\* (Mutant.) uses_temp_output is reset before the commit.
RemovesBeforeCommit(c) == opened[c] /\ len[c] < Pieces

\* Whether the handler removes temp_path: write_new_output_file as soon as it is
\* not empty, run_streaming_file_command when uses_temp_output says so.
RemovesTemp(c) == IF mode[c] = "write" THEN temp[c] # NoSuffix ELSE opened[c]

Cleanup(c) ==
    /\ pc[c] = "cleanup"
    /\ IF RemovesTemp(c) THEN RemoveQuietly(TempOf(c)) ELSE UNCHANGED names
    /\ Drain(c)
    /\ Exit(c, "failure")
    /\ UNCHANGED <<naming, data, printed>>

-----------------------------------------------------------------------------
(* Everything else on the machine.                                         *)

\* Other processes create files under any free name but the temporary names of
\* running commands.
ForeignCreates(p) ==
    /\ May("foreign_create")
    /\ ~Occupied(p)
    /\ \A c \in Calls : Holds(c) => p # TempOf(c)
    /\ Put(p, Foreign)
    /\ UNCHANGED <<control, naming, data, stdout>>

\* The process dies: what std::cout still buffers is lost, the names stay.
Kill(c) ==
    /\ May("kill")
    /\ Live(c)
    /\ Goto(c, "dead")
    /\ UNCHANGED <<naming, names, data, stdout>>

\* Power is lost under every command; each name and each file comes back in one
\* of the states the disk may hold.
PowerLoss ==
    /\ May("power")
    /\ pc' = [c \in Calls |-> IF Live(c) THEN "dead" ELSE pc[c]]
    /\ dir' \in {d \in [Paths -> Entries] : \A p \in Paths : d[p] \in disk[p]}
    /\ disk' = [p \in Paths |-> {dir'[p]}]
    /\ len' \in {n \in [Calls -> 0 .. Pieces] : \A c \in Calls : n[c] \in safe[c] .. len[c]}
    /\ safe' = len'
    /\ UNCHANGED <<exit, naming, stdout>>

-----------------------------------------------------------------------------

Step(c) ==
    \/ Prepare(c) \/ CheckOutput(c) \/ OpenTemp(c)
    \/ WritePiece(c) \/ PayloadFails(c) \/ Close(c) \/ Link(c) \/ RemoveTemp(c)
    \/ PrintPiece(c) \/ FlushStdout(c) \/ PrintExit(c)
    \/ Cleanup(c)

Environment ==
    \/ \E p \in Paths : ForeignCreates(p)
    \/ \E c \in Calls : Kill(c)
    \/ PowerLoss

\* Every command has exited or died.
Finished == (\A c \in Calls : Ended(c)) /\ UNCHANGED vars

Next == (\E c \in Calls : Step(c)) \/ Environment \/ Finished

Spec == Init /\ [][Next]_vars

\* A command that has begun keeps running.
FairSpec == Spec /\ \A c \in Calls : WF_vars(pc[c] # "start" /\ Step(c))

-----------------------------------------------------------------------------
(* Properties.                                                             *)

\* No output name ever refers to a partly written file, while commands run and
\* after a power loss: exclusive_output_stream::close syncs before the link.
OutputsComplete ==
    \A o \in Outputs : dir[Path(o)] \in Calls => len[dir[Path(o)]] = Pieces

\* The exit status tells what became of the result.  Status 0 of a command with an
\* output path or with --out - means that all of it was delivered; status 1 means
\* that no output name refers to its file, and none will after a power loss.
ExitIsHonest ==
    [][\A c \in Calls : exit[c] = "none" =>
          /\ exit'[c] = "success" /\ mode[c] \in FileModes => dir'[OutputOf(c)] = c
          /\ exit'[c] = "success" /\ mode[c] = "stdout" => shown'[c] = Pieces
          /\ exit'[c] = "failure" => \A o \in Outputs : c \notin disk'[Path(o)]]_vars

\* No step of a command replaces or removes what an output name refers to.
NoOverwrite ==
    [][\A c \in Calls : Step(c) =>
          \A o \in Outputs : Occupied(Path(o)) => dir'[Path(o)] = dir[Path(o)]]_vars

\* A command removes a file that it did not make only when write_new_output_file
\* gives up after a collision, and never the file of a running command.
RemovesOnlyOwn ==
    [][\A c \in Calls : Step(c) => \A p \in TempPaths :
          dir[p] \notin {NoFile, c} /\ dir'[p] # dir[p] =>
              /\ mode[c] = "write" /\ ~opened[c] /\ p = TempOf(c)
              /\ \A d \in Calls \ {c} : Holds(d) => p # TempOf(d)]_vars

\* When a command exits, the temporary file it has made is gone: "CLI file commands
\* remove AnoSecureKit-owned temporary output after failures" (README.md:799).
ExitRemovesTemp ==
    [][\A c \in Calls : exit[c] = "none" /\ exit'[c] # "none" =>
          \A p \in TempPaths : dir'[p] # c]_vars

\* What the two handlers do achieve when removals succeed: whatever fails after
\* open_cli_output_file has returned, the temporary file is gone when the command
\* exits, and write_new_output_file also removes one that never got its stream.
OpenedTempIsRemoved ==
    [][\A c \in Calls :
          exit[c] = "none" /\ exit'[c] # "none" /\ (opened[c] \/ mode[c] = "write")
              => \A p \in TempPaths : dir'[p] # c]_vars

\* Every command exits or dies: occupied names stop it after kMaxAttempts.
Termination == \A c \in Calls : Live(c) ~> Ended(c)

\* A text command that exits with status 0 has written its whole result.
SuccessfulTextIsWritten ==
    \A c \in Calls : exit[c] = "success" /\ mode[c] = "print" => shown[c] = Pieces
=============================================================================
