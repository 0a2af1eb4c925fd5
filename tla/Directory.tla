------------------------------ MODULE Directory ------------------------------
(***************************************************************************)
(* The directory that the outputs and their temporary files share: what    *)
(* running processes see of its names, and what the disk may hold of them  *)
(* after a power loss.                                                     *)
(*                                                                         *)
(* Each call makes at most one file, so an entry names the call that made  *)
(* the file it refers to.  A path is an output path and the suffix that    *)
(* makes it a temporary one.                                               *)
(***************************************************************************)
CONSTANTS
    Calls,          \* the calls that make files
    Outputs,        \* the output paths they are given
    Tokens,         \* what random_bytes(16) can return for a temporary name
    NoSuffix,       \* the suffix of an output path, which is no temporary one
    NoFile,         \* the entry of a name that does not exist
    Foreign         \* the entry of a file that no call made

ASSUME NamesAssumption ==
    /\ NoSuffix \notin Tokens
    /\ NoFile \notin Calls
    /\ Foreign \notin Calls
    /\ NoFile # Foreign

VARIABLES
    dir,     \* what file each path refers to
    disk     \* the entries each path may have after a power loss

names == <<dir, disk>>

Entries == Calls \cup {Foreign, NoFile}
Paths == Outputs \X (Tokens \cup {NoSuffix})
TempPaths == Outputs \X Tokens
Path(o) == <<o, NoSuffix>>
TempPath(o, t) == <<o, t>>

Occupied(p) == dir[p] # NoFile

\* One entry changes; until the directory is synced a power loss may undo it.
Put(p, entry) ==
    /\ dir' = [dir EXCEPT ![p] = entry]
    /\ disk' = [disk EXCEPT ![p] = @ \cup {entry}]
=============================================================================
