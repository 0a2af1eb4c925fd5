---------------------------- MODULE AtomicOutput ----------------------------
(***************************************************************************)
(* What a path-based file call promises about its output: the file appears *)
(* under the output name in one step, complete, only where no file was,    *)
(* and never under a call that failed before that step.  A call that has   *)
(* returned ok owns a name that survives a power loss.                     *)
(*                                                                         *)
(* There are no temporary files here and no lengths: an entry of outs that *)
(* names a call stands for the whole file of that call.                    *)
(***************************************************************************)
CONSTANTS
    Calls, Outputs,
    NoFile,         \* the entry of a name that does not exist
    Foreign         \* the entry of a file that no call made

VARIABLES
    status,  \* where each call is: see Statuses
    result,  \* what it threw, or "ok"
    target,  \* its output name
    outs,    \* what each output name refers to
    kept     \* the entries each output name may have after a power loss

vars == <<status, result, target, outs, kept>>

Statuses == {"idle", "running", "committed", "ok", "failed", "dead"}
Errors == {"invalid_input", "invalid_packet", "authentication_failed", "backend_failure"}
Entries == Calls \cup {NoFile, Foreign}

TypeOK ==
    /\ status \in [Calls -> Statuses]
    /\ result \in [Calls -> Errors \cup {"none", "ok"}]
    /\ target \in [Calls -> Outputs]
    /\ outs \in [Outputs -> Entries]
    /\ kept \in [Outputs -> SUBSET Entries]

Init ==
    /\ status = [c \in Calls |-> "idle"]
    /\ result = [c \in Calls |-> "none"]
    /\ target \in [Calls -> Outputs]
    /\ outs = [o \in Outputs |-> NoFile]
    /\ kept = [o \in Outputs |-> {NoFile}]

Start(c) ==
    /\ status[c] = "idle"
    /\ status' = [status EXCEPT ![c] = "running"]
    /\ UNCHANGED <<result, target, outs, kept>>

\* The only step that gives a file its name, and only a free one.
Commit(c) ==
    /\ status[c] = "running"
    /\ outs[target[c]] = NoFile
    /\ status' = [status EXCEPT ![c] = "committed"]
    /\ outs' = [outs EXCEPT ![target[c]] = c]
    /\ kept' \in {[kept EXCEPT ![target[c]] = @ \cup {c}], [kept EXCEPT ![target[c]] = {c}]}
    /\ UNCHANGED <<result, target>>

\* The disk catches up with some of the names.
Sync(names) == kept' = [o \in Outputs |-> IF o \in names THEN {outs[o]} ELSE kept[o]]

SyncSome ==
    /\ \E names \in SUBSET Outputs : Sync(names)
    /\ UNCHANGED <<status, result, target, outs>>

\* A call may return only when its name, unless it was removed, is on the disk.
Succeed(c) ==
    /\ status[c] = "committed"
    /\ outs[target[c]] = c => kept[target[c]] = {c}
    /\ status' = [status EXCEPT ![c] = "ok"]
    /\ result' = [result EXCEPT ![c] = "ok"]
    /\ UNCHANGED <<target, outs, kept>>

\* After the commit the only failure left is the one of the directory sync.
Fail(c, error) ==
    /\ \/ status[c] \in {"idle", "running"}
       \/ status[c] = "committed" /\ error = "backend_failure"
    /\ status' = [status EXCEPT ![c] = "failed"]
    /\ result' = [result EXCEPT ![c] = error]
    /\ \E names \in SUBSET Outputs : Sync(names)
    /\ UNCHANGED <<target, outs>>

Die(c) ==
    /\ status[c] \in {"running", "committed"}
    /\ status' = [status EXCEPT ![c] = "dead"]
    /\ UNCHANGED <<result, target, outs, kept>>

\* Other processes use the names too.
World(o, entry) ==
    /\ \/ outs[o] = NoFile /\ entry = Foreign
       \/ outs[o] # NoFile /\ entry = NoFile
    /\ outs' = [outs EXCEPT ![o] = entry]
    /\ kept' = [kept EXCEPT ![o] = @ \cup {entry}]
    /\ UNCHANGED <<status, result, target>>

PowerLoss ==
    /\ status' = [c \in Calls |-> IF status[c] \in {"running", "committed"} THEN "dead" ELSE status[c]]
    /\ outs' \in [Outputs -> Entries]
    /\ \A o \in Outputs : outs'[o] \in kept[o]
    /\ kept' = [o \in Outputs |-> {outs'[o]}]
    /\ UNCHANGED <<result, target>>

Next ==
    \/ \E c \in Calls :
          \/ Start(c) \/ Commit(c) \/ Succeed(c) \/ Die(c)
          \/ \E e \in Errors : Fail(c, e)
    \/ SyncSome
    \/ \E o \in Outputs, entry \in {NoFile, Foreign} : World(o, entry)
    \/ PowerLoss

Spec == Init /\ [][Next]_vars

\* The promise a caller relies on: the name of a call that returned ok refers to
\* its file before and after every power loss, until somebody removes it.
Durable ==
    \A c \in Calls : status[c] = "ok" /\ outs[target[c]] = c => kept[target[c]] = {c}
=============================================================================
