----------------------------- MODULE FileCommit -----------------------------
(***************************************************************************)
(* How a path-based file call (seal_file, open_file and their password     *)
(* variants) produces its output: it checks that the output name is free,  *)
(* writes a temporary file beside it, flushes and closes that file, gives  *)
(* it the output name and removes the temporary name; every exception      *)
(* discards the temporary file.  Several calls run at once, other          *)
(* processes create and remove names, a process is killed, the machine     *)
(* loses power.                                                            *)
(*                                                                         *)
(* The bytes of a file are abstracted to the number of writes it has       *)
(* received: it is complete at Pieces.                                     *)
(***************************************************************************)
EXTENDS Naturals, FiniteSets, Directory

CONSTANTS
    Pieces,         \* the number of writes that complete an output
    MaxAttempts,    \* kMaxAttempts
    Platforms,      \* the branches of the preprocessor that may have been compiled
    Faults          \* what may go wrong around a call

ASSUME PiecesAssumption == Pieces \in Nat \ {0}
ASSUME AttemptsAssumption == MaxAttempts \in Nat \ {0}
ASSUME PlatformAssumption == Platforms \subseteq {"posix", "windows", "generic"}

VARIABLES
    platform, \* the branch that was compiled, the same for every call
    pc,      \* the statement each call is at
    code,    \* the error a call throws or has thrown, "ok" when it returned
    role,    \* whether the call seals or opens a file
    out,     \* the call's output path
    temp,    \* the suffix of the call's temporary file, NoSuffix before it has one
    tries,   \* attempt in open_unique_temp_output
    len,     \* how many writes the call's file has received
    safe     \* how many of them survive a power loss

control == <<pc, code>>
naming == <<platform, role, out, temp, tries>>
data == <<len, safe>>
vars == <<platform, pc, code, role, out, temp, tries, dir, disk, len, safe>>

Roles == {"seal", "open"}
Errors == {"invalid_input", "invalid_packet", "authentication_failed", "backend_failure"}

OutputOf(c) == Path(out[c])
TempOf(c) == TempPath(out[c], temp[c])

InFile == {"input", "payload", "flush"}
InCommit == {"commit", "rename", "unlink", "dirsync", "return"}
Catching == {"cleanup", "late_cleanup"}
Labels == {"idle", "status", "header", "temp", "close", "done", "dead"}
            \cup InFile \cup InCommit \cup Catching

TypeOK ==
    /\ platform \in Platforms
    /\ pc \in [Calls -> Labels]
    /\ code \in [Calls -> Errors \cup {"none", "ok"}]
    /\ role \in [Calls -> Roles]
    /\ out \in [Calls -> Outputs]
    /\ temp \in [Calls -> Tokens \cup {NoSuffix}]
    /\ tries \in [Calls -> 0 .. MaxAttempts]
    /\ dir \in [Paths -> Entries]
    /\ disk \in [Paths -> SUBSET Entries]
    /\ len \in [Calls -> 0 .. Pieces]
    /\ safe \in [Calls -> 0 .. Pieces]

\* The arguments of a call are chosen before it begins; no file exists.
Init ==
    /\ platform \in Platforms
    /\ pc = [c \in Calls |-> "idle"]
    /\ code = [c \in Calls |-> "none"]
    /\ role \in [Calls -> Roles]
    /\ out \in [Calls -> Outputs]
    /\ temp = [c \in Calls |-> NoSuffix]
    /\ tries = [c \in Calls |-> 0]
    /\ dir = [p \in Paths |-> NoFile]
    /\ disk = [p \in Paths |-> {NoFile}]
    /\ len = [c \in Calls |-> 0]
    /\ safe = [c \in Calls |-> 0]

-----------------------------------------------------------------------------
(* Control: where a call goes next.                                        *)

May(fault) == fault \in Faults

Goto(c, label) == pc' = [pc EXCEPT ![c] = label] /\ UNCHANGED code

\* An exception outside the try block, or the end of the call.
Return(c, result) ==
    /\ pc' = [pc EXCEPT ![c] = "done"]
    /\ code' = [code EXCEPT ![c] = result]

\* (Mutant.) The exception misses the catch block.
ThrowSkipsCatch(c, error) == Return(c, error)

\* An exception inside the try block: catch (...) discards the temporary file.
Throw(c, error) ==
    /\ pc' = [pc EXCEPT ![c] = "cleanup"]
    /\ code' = [code EXCEPT ![c] = error]

\* An exception after commit_temp_file has removed the temporary name: the catch
\* block removes that name once more.
ThrowLate(c, error) ==
    /\ pc' = [pc EXCEPT ![c] = "late_cleanup"]
    /\ code' = [code EXCEPT ![c] = error]

Ended(c) == pc[c] \in {"done", "dead"}
Live(c) == pc[c] # "idle" /\ ~Ended(c)
Holds(c) == Live(c) /\ temp[c] # NoSuffix

\* The temporary name of a call that has not returned.
Held(p) == \E c \in Calls : Holds(c) /\ p = TempOf(c)

\* A call that needs its temporary name: it has the try block before it or is in it,
\* and commit_temp_file has not given the name up.
Owns(c) == pc[c] \in InFile \cup {"close", "commit", "rename", "unlink", "cleanup"}

\* random_bytes returned t: without the fault "token" no two calls that run at
\* the same time ever hold the same name.
Draws(c, t) == pc[c] = "temp" /\ (May("token") \/ ~Held(TempPath(out[c], t)))

-----------------------------------------------------------------------------
(* The call, up to its temporary file.                                     *)

Begin(c) ==
    /\ pc[c] = "idle"
    /\ Goto(c, "status")
    /\ UNCHANGED <<naming, names, data>>

RejectEmptyPassword(c) ==
    /\ pc[c] = "idle"
    /\ Return(c, "invalid_input")
    /\ UNCHANGED <<naming, names, data>>

\* ensure_output_does_not_exist.
CheckOutput(c) ==
    /\ pc[c] = "status"
    /\ \/ Occupied(OutputOf(c)) /\ Return(c, "invalid_input")
       \/ ~Occupied(OutputOf(c)) /\ Goto(c, IF role[c] = "seal" THEN "header" ELSE "temp")
       \/ May("status") /\ Return(c, "backend_failure")
    /\ UNCHANGED <<naming, names, data>>

\* A sealing call draws its salt and nonce prefix and derives the file key
\* before it creates anything.
MakeHeader(c) ==
    /\ pc[c] = "header"
    /\ \/ Goto(c, "temp")
       \/ May("crypto") /\ Return(c, "backend_failure")
    /\ UNCHANGED <<naming, names, data>>

DrawFails(c) ==
    /\ pc[c] = "temp"
    /\ May("random")
    /\ Return(c, "backend_failure")
    /\ UNCHANGED <<naming, names, data>>

\* (Mutant.) The loop forgets to count, or has no limit.
AttemptsUncounted(c) == tries[c]
LastAttemptNever(c) == FALSE

\* The count of attempts after this one, and whether it is the last one.
Attempts(c) == tries[c] + 1
LastAttempt(c) == tries[c] + 1 = MaxAttempts

\* EEXIST: another attempt, unless this was the last one.
Collide(c, t) ==
    /\ Draws(c, t)
    /\ Occupied(TempPath(out[c], t))
    /\ tries' = [tries EXCEPT ![c] = Attempts(c)]
    /\ IF LastAttempt(c) THEN Return(c, "backend_failure") ELSE UNCHANGED control
    /\ UNCHANGED <<platform, role, out, temp, names, data>>

OpenFails(c, t) ==
    /\ Draws(c, t)
    /\ ~Occupied(TempPath(out[c], t))
    /\ May("open")
    /\ Return(c, "backend_failure")
    /\ UNCHANGED <<naming, names, data>>

\* open created the file and fdopen failed: the descriptor is closed, the
\* name stays.
DescriptorFails(c, t) ==
    /\ Draws(c, t)
    /\ ~Occupied(TempPath(out[c], t))
    /\ May("fdopen")
    /\ Put(TempPath(out[c], t), c)
    /\ Return(c, "backend_failure")
    /\ UNCHANGED <<naming, data>>

\* (Mutant.) O_CREAT without O_EXCL opens the file that is there.
CreateTempShared(c, t) ==
    /\ Draws(c, t)
    /\ IF Occupied(TempPath(out[c], t)) THEN UNCHANGED names ELSE Put(TempPath(out[c], t), c)
    /\ temp' = [temp EXCEPT ![c] = t]
    /\ Goto(c, "input")
    /\ UNCHANGED <<platform, role, out, tries, data>>

CreateTemp(c, t) ==
    /\ Draws(c, t)
    /\ ~Occupied(TempPath(out[c], t))
    /\ Put(TempPath(out[c], t), c)
    /\ temp' = [temp EXCEPT ![c] = t]
    /\ Goto(c, "input")
    /\ UNCHANGED <<platform, role, out, tries, data>>

OpenTemp(c) ==
    \/ DrawFails(c)
    \/ \E t \in Tokens :
          Collide(c, t) \/ OpenFails(c, t) \/ DescriptorFails(c, t) \/ CreateTemp(c, t)

-----------------------------------------------------------------------------
(* The try block: the payload, the flush, the close and the commit.        *)

\* An opening call also reads and parses the header and derives the file key.
InputErrors(c) ==
    IF role[c] = "seal" THEN {"backend_failure"} ELSE {"backend_failure", "invalid_packet"}

OpenInput(c) ==
    /\ pc[c] = "input"
    /\ \/ Goto(c, "payload")
       \/ May("input") /\ \E e \in InputErrors(c) : Throw(c, e)
    /\ UNCHANGED <<naming, names, data>>

WritePiece(c) ==
    /\ pc[c] = "payload"
    /\ len[c] < Pieces
    /\ len' = [len EXCEPT ![c] = @ + 1]
    /\ Goto(c, IF len[c] + 1 = Pieces THEN "flush" ELSE "payload")
    /\ UNCHANGED <<naming, names, safe>>

\* Reading, the cipher or writing fails; a sealing call may find its input too
\* large, an opening call its container malformed or not authentic.
PayloadErrors(c) ==
    {"backend_failure"} \cup
    IF role[c] = "seal" THEN {"invalid_input"} ELSE {"invalid_packet", "authentication_failed"}

PayloadFails(c) ==
    /\ pc[c] = "payload"
    /\ May("payload")
    /\ \E e \in PayloadErrors(c) : Throw(c, e)
    /\ UNCHANGED <<naming, names, data>>

\* (Mutant.) fflush alone reaches the system's cache, not the disk.
FlushedToCache(c) == safe

\* fflush and, where the platform has it, fsync or FlushFileBuffers.
Flushed(c) == IF platform = "generic" THEN safe ELSE [safe EXCEPT ![c] = len[c]]

Flush(c) ==
    /\ pc[c] = "flush"
    /\ \/ safe' = Flushed(c) /\ Goto(c, "close")
       \/ May("flush") /\ Throw(c, "backend_failure") /\ UNCHANGED safe
    /\ UNCHANGED <<naming, names, len>>

\* (Mutant.) The commit is forgotten.
CloseThenReturn(c) == pc[c] = "close" /\ Goto(c, "return") /\ UNCHANGED <<naming, names, data>>

Close(c) ==
    /\ pc[c] = "close"
    /\ \/ Goto(c, "commit")
       \/ May("close") /\ Throw(c, "backend_failure")
    /\ UNCHANGED <<naming, names, data>>

\* (Mutant.) rename() instead of link(): it replaces what is there.
OutputTakenIgnored(c) == FALSE

\* commit_temp_file refuses because the output name is taken.
OutputTaken(c) == Occupied(OutputOf(c))

\* link(temp, output): the file gets a second name.
Link(c) ==
    /\ pc[c] = "commit"
    /\ platform = "posix"
    /\ \/ /\ ~Occupied(TempOf(c)) \/ May("link")
          /\ Throw(c, "backend_failure")
          /\ UNCHANGED names
       \/ /\ Occupied(TempOf(c))
          /\ OutputTaken(c)
          /\ Throw(c, "invalid_input")
          /\ UNCHANGED names
       \/ /\ Occupied(TempOf(c))
          /\ ~OutputTaken(c)
          /\ Put(OutputOf(c), dir[TempOf(c)])
          /\ Goto(c, "unlink")
    /\ UNCHANGED <<naming, data>>

\* remove_quietly: a failure is ignored.
RemoveQuietly(p) == Put(p, NoFile) \/ (May("unlink") /\ UNCHANGED names)

RemoveTemp(c) ==
    /\ pc[c] = "unlink"
    /\ RemoveQuietly(TempOf(c))
    /\ Goto(c, "dirsync")
    /\ UNCHANGED <<naming, data>>

\* (Mutant.) The directory is opened and closed, not synced.
UnsyncedNames == disk

\* What the disk holds of the directory once fsync of the directory returned.
SyncedNames == [p \in Paths |-> {dir[p]}]

SyncDirectory(c) ==
    /\ pc[c] = "dirsync"
    /\ disk' = SyncedNames
    /\ Goto(c, "return")
    /\ UNCHANGED <<naming, dir, data>>

\* (Mutant.) The late failure is reported as a refusal.
SyncErrorMisreported == "invalid_input"

\* The directory cannot be opened, synced or closed: the output stays.
SyncError == "backend_failure"

SyncFails(c) ==
    /\ pc[c] = "dirsync"
    /\ May("dirsync")
    /\ disk' \in {disk, SyncedNames}
    /\ ThrowLate(c, SyncError)
    /\ UNCHANGED <<naming, dir, data>>

\* The directory after a file moved from one name to the other.
Moved(from, to) == [dir EXCEPT ![to] = dir[from], ![from] = NoFile]

\* What the disk may hold then, without and with MOVEFILE_WRITE_THROUGH.
MovedLazily(from, to) == [disk EXCEPT ![to] = @ \cup {dir[from]}, ![from] = @ \cup {NoFile}]
MovedThrough(from, to) == [disk EXCEPT ![to] = {dir[from]}, ![from] = {NoFile}]

\* MoveFileExW(temp, output, MOVEFILE_WRITE_THROUGH).
MoveFile(c) ==
    /\ pc[c] = "commit"
    /\ platform = "windows"
    /\ \/ /\ ~Occupied(TempOf(c)) \/ May("link")
          /\ Throw(c, "backend_failure")
          /\ UNCHANGED names
       \/ /\ Occupied(TempOf(c))
          /\ OutputTaken(c)
          /\ Throw(c, "invalid_input")
          /\ UNCHANGED names
       \/ /\ Occupied(TempOf(c))
          /\ ~OutputTaken(c)
          /\ dir' = Moved(TempOf(c), OutputOf(c))
          /\ disk' = MovedThrough(TempOf(c), OutputOf(c))
          /\ Goto(c, "return")
    /\ UNCHANGED <<naming, data>>

\* Elsewhere the name is checked again and then renamed over.
CheckAgain(c) ==
    /\ pc[c] = "commit"
    /\ platform = "generic"
    /\ \/ May("status") /\ Throw(c, "backend_failure")
       \/ OutputTaken(c) /\ Throw(c, "invalid_input")
       \/ ~OutputTaken(c) /\ Goto(c, "rename")
    /\ UNCHANGED <<naming, names, data>>

RenameOver(c) ==
    /\ pc[c] = "rename"
    /\ \/ /\ ~Occupied(TempOf(c)) \/ May("link")
          /\ Throw(c, "backend_failure")
          /\ UNCHANGED names
       \/ /\ Occupied(TempOf(c))
          /\ dir' = Moved(TempOf(c), OutputOf(c))
          /\ disk' = MovedLazily(TempOf(c), OutputOf(c))
          /\ Goto(c, "return")
    /\ UNCHANGED <<naming, data>>

Succeed(c) ==
    /\ pc[c] = "return"
    /\ Return(c, "ok")
    /\ UNCHANGED <<naming, names, data>>

\* catch (...): discard the stream, remove the temporary file, rethrow.
Cleanup(c) ==
    /\ pc[c] \in Catching
    /\ RemoveQuietly(TempOf(c))
    /\ pc' = [pc EXCEPT ![c] = "done"]
    /\ UNCHANGED <<code, naming, data>>

-----------------------------------------------------------------------------
(* Everything else on the machine.                                         *)

\* The temporary file of a call that has not returned.
InUse(p) == \E c \in Calls : Holds(c) /\ p = TempOf(c) /\ dir[p] = c

\* Other processes create files under any free name, also one that a call has just
\* given up, and remove any name; they leave the temporary files of running calls
\* alone.
ForeignCreates(p) ==
    /\ May("foreign_create")
    /\ ~Occupied(p)
    /\ Put(p, Foreign)
    /\ UNCHANGED <<control, naming, data>>

ForeignRemoves(p) ==
    /\ May("foreign_remove")
    /\ Occupied(p)
    /\ ~InUse(p)
    /\ Put(p, NoFile)
    /\ UNCHANGED <<control, naming, data>>

\* The process dies: what the stream still buffers is lost, the names stay.
Kill(c) ==
    /\ May("kill")
    /\ Live(c)
    /\ \E n \in safe[c] .. len[c] :
          /\ n = len[c] \/ pc[c] \in InFile
          /\ len' = [len EXCEPT ![c] = n]
    /\ Goto(c, "dead")
    /\ UNCHANGED <<naming, names, safe>>

\* Power is lost under every call; each name and each file comes back in one of
\* the states the disk may hold.
PowerLoss ==
    /\ May("power")
    /\ pc' = [c \in Calls |-> IF Live(c) THEN "dead" ELSE pc[c]]
    /\ dir' \in {d \in [Paths -> Entries] : \A p \in Paths : d[p] \in disk[p]}
    /\ disk' = [p \in Paths |-> {dir'[p]}]
    /\ len' \in {n \in [Calls -> 0 .. Pieces] : \A c \in Calls : n[c] \in safe[c] .. len[c]}
    /\ safe' = len'
    /\ UNCHANGED <<code, naming>>

-----------------------------------------------------------------------------

Step(c) ==
    \/ Begin(c) \/ RejectEmptyPassword(c)
    \/ CheckOutput(c) \/ MakeHeader(c) \/ OpenTemp(c)
    \/ OpenInput(c) \/ WritePiece(c) \/ PayloadFails(c)
    \/ Flush(c) \/ Close(c)
    \/ Link(c) \/ RemoveTemp(c) \/ SyncDirectory(c) \/ SyncFails(c)
    \/ MoveFile(c)
    \/ CheckAgain(c) \/ RenameOver(c)
    \/ Succeed(c) \/ Cleanup(c)

Environment ==
    \/ \E p \in Paths : ForeignCreates(p) \/ ForeignRemoves(p)
    \/ \E c \in Calls : Kill(c)
    \/ PowerLoss

\* Every call has returned or died.
Finished == (\A c \in Calls : Ended(c)) /\ UNCHANGED vars

Next == (\E c \in Calls : Step(c)) \/ Environment \/ Finished

Spec == Init /\ [][Next]_vars

\* A call that has begun keeps running: it never waits for another one.
FairSpec == Spec /\ \A c \in Calls : WF_vars(pc[c] # "idle" /\ Step(c))

-----------------------------------------------------------------------------
(* What a call looks like to one who sees only output names.               *)

Outcome(c) ==
    CASE pc[c] = "idle" -> "idle"
      [] code[c] = "ok" -> "ok"
      [] code[c] \in Errors -> "failed"
      [] pc[c] = "dead" /\ code[c] = "none" -> "dead"
      [] pc[c] \in {"unlink", "dirsync", "return"} -> "committed"
      [] OTHER -> "running"

Torn == "torn"

\* A partly written file is no entry that AtomicOutput knows.
Whole(e) == IF e \in Calls /\ len[e] < Pieces THEN Torn ELSE e

\* The calls, the output names and what the disk may hold of them.
CallsSeen == [c \in Calls |-> Outcome(c)]
NamesSeen == [o \in Outputs |-> Whole(dir[Path(o)])]
DiskSeen == [o \in Outputs |-> {Whole(e) : e \in disk[Path(o)]}]

Promise == INSTANCE AtomicOutput WITH
    status <- CallsSeen, result <- code, target <- out, outs <- NamesSeen, kept <- DiskSeen

\* Seen through output names alone, every behaviour of the calls, of other
\* processes, of crashes and of power losses is one that AtomicOutput allows.
KeepsPromise == Promise!Spec

-----------------------------------------------------------------------------
(* Properties.                                                             *)

\* An output name never refers to a partly written file: not while calls run
\* (commit_temp_file names only what was flushed and closed) and not after a
\* power loss (OutputFile::flush syncs the file before it gets the name).
OutputsComplete ==
    \A o \in Outputs : dir[Path(o)] \in Calls => len[dir[Path(o)]] = Pieces

(* Why it is so: the conjuncts of the inductive invariant.                 *)

\* A call that still looks for a temporary name has attempts left.
AttemptsLeft ==
    \A c \in Calls : pc[c] \in {"idle", "status", "header", "temp"} => tries[c] < MaxAttempts

\* The try block runs with a temporary name, nothing before it does.
TempNamed ==
    \A c \in Calls :
        /\ pc[c] \in InFile \cup InCommit \cup Catching \cup {"close"} => temp[c] \in Tokens
        /\ pc[c] \in {"idle", "status", "header", "temp"} => temp[c] = NoSuffix

\* Running calls hold different temporary names, and the file of a call is there until
\* the call gives its name up.
TempsOwned ==
    /\ \A c, d \in Calls : Holds(c) /\ Holds(d) /\ c # d => TempOf(c) # TempOf(d)
    /\ \A c \in Calls : Owns(c) => dir[TempOf(c)] = c

\* A call commits only what it has written completely and synced.
SyncedBeforeCommit ==
    \A c \in Calls :
        /\ safe[c] <= len[c]
        /\ pc[c] = "flush" => len[c] = Pieces
        /\ pc[c] \in InCommit \cup {"close"} => safe[c] = Pieces

\* Whatever an output name may refer to after a power loss is complete.
DiskComplete ==
    /\ \A p \in Paths : dir[p] \in disk[p]
    /\ \A o \in Outputs : \A c \in Calls : c \in disk[Path(o)] => safe[c] = Pieces

\* Completeness of the outputs as an inductive invariant: it follows from who owns
\* the temporary names and from the sync before the commit.
CommitInvariant ==
    AttemptsLeft /\ TempNamed /\ TempsOwned /\ SyncedBeforeCommit /\ DiskComplete

\* A call that returned ok has its file under the output name whatever happens
\* to the machine, unless somebody removed it, and its temporary name cannot
\* come back: flush_parent_directory follows both changes of the directory.
OkIsDurable ==
    \A c \in Calls : code[c] = "ok" =>
        /\ disk[OutputOf(c)] = {c} \/ (May("foreign_remove") /\ dir[OutputOf(c)] # c)
        /\ May("unlink") \/ \A p \in TempPaths : c \notin disk[p]

\* A call that failed for any reason but the backend has left nothing under any
\* output name; only a failed directory sync may report failure after the commit.
FailureCommitsNothing ==
    \A c \in Calls : code[c] \in Errors \ {"backend_failure"} =>
        \A o \in Outputs : c \notin disk[Path(o)]

\* No step of a call replaces or removes what an output name refers to, however
\* late the file appeared there (ensure_output_does_not_exist, commit_temp_file).
NoOverwrite ==
    [][\A c \in Calls : Step(c) =>
          \A o \in Outputs : Occupied(Path(o)) => dir'[Path(o)] = dir[Path(o)]]_vars

\* No step of a call replaces or removes a temporary file it did not make (O_EXCL,
\* remove_quietly), with the one exception that the code has: when the directory
\* cannot be synced, commit_temp_file has given the temporary name up already and
\* the catch block of file.cpp removes it once more, whoever has taken it meanwhile.
\* (A call that loses its file so does not know, and may in turn remove what a third
\* one puts under the name: repeated names, a failing directory sync and files of
\* other processes are not combined.)
RemovesOnlyOwn ==
    [][\A c \in Calls : Step(c) =>
          \A p \in TempPaths : dir[p] \notin {NoFile, c} =>
              dir'[p] = dir[p] \/ (pc[c] = "late_cleanup" /\ p = TempOf(c))]_vars

\* When a call returns, with or without an error, its temporary name is gone
\* (catch blocks of file.cpp, commit_temp_file).
ReturnRemovesTemp ==
    [][\A c \in Calls : pc[c] # "done" /\ pc'[c] = "done" =>
          \A p \in TempPaths : dir'[p] # c]_vars

\* Every call that begins returns or dies: occupied temporary names stop it
\* after kMaxAttempts and nothing else makes it wait.
Termination == \A c \in Calls : pc[c] = "status" ~> Ended(c)

\* Calls that race for one output do not all lose: a call that was not killed and
\* that nothing around it made fail leaves a file under its output name, its own
\* or that of the call it lost to (ensure_output_does_not_exist, commit_temp_file).
RaceHasWinner ==
    \A c \in Calls :
        pc[c] = "status" ~>
            \/ Occupied(OutputOf(c))
            \/ code[c] \in Errors \ {"invalid_input"} \/ pc[c] = "dead"
=============================================================================
