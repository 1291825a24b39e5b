----------------------------- MODULE OneFileSystem -----------------------------
(***************************************************************************)
(* What src/traits/vfs.rs promises of any file system: a directory of one  *)
(* disk, and answers that are true of what is below it at one moment of the*)
(* call.  It knows nothing of layers.                                      *)
(***************************************************************************)
EXTENDS StdFiles

CONSTANTS Reply(_, _, _), NamesOf(_), Mounts

VARIABLES
  at, op,
  names,    \* what is asked for, below the root
  root,     \* the directory all paths are below
  bare,     \* it is not changed: names are those of the disk
  disk,     \* of this file system
  reply, file

vars == <<at, op, names, root, bare, disk, reply, file>>

Init == /\ at = "idle" /\ bare = TRUE /\ root = <<>> /\ reply = Err /\ file = Err
        /\ op = [call |-> "none"] /\ names = <<>>

Ask == /\ at = "idle" /\ at' = "down" /\ reply' = Err
       /\ UNCHANGED <<root, bare, disk, file>>

Answer ==
  /\ at = "down" /\ at' = "idle"
  /\ reply' = Reply(op, disk, root \o names)
  /\ file' = IF op.call = "open" /\ reply' # Err THEN reply'.val ELSE file
  /\ UNCHANGED <<op, names, root, bare, disk>>

\* A file system on top of this one is a directory of it.
Narrow ==
  /\ at = "idle" /\ at' = "idle" /\ bare' = FALSE
  /\ op'.call \in {"new", "from_fs"} /\ reply' = Ok("fs")
  /\ \E p \in Mounts \cup {<<>>} : root' = root \o (IF bare THEN p ELSE NamesOf(p))
  /\ UNCHANGED <<disk, file>>

\* exists and is_live may say less than they know.
Other ==
  /\ at = "idle" /\ at' = "idle" /\ UNCHANGED <<root, bare, disk, file>>
  /\ \/ op'.call = "file" /\ file # Err /\ reply' = MetadataOf(file)
     \/ op'.call = "exists" /\ reply' \in {Ok(TRUE), Ok(FALSE)}
     \/ op'.call = "is_live" /\ reply' \in {Ok(bare), Ok(FALSE)}
     \/ op'.call \in {"from_fs", "from_file"} /\ reply' = Err
     \/ op'.call = "duplicate" /\ reply' = Ok("fs")

Forget == /\ at = "idle" /\ at' = "idle" /\ reply' = Err /\ file' = Err
          /\ UNCHANGED <<root, bare, disk>>

Change == UNCHANGED <<at, op, names, root, bare, reply, file>>

Next == Ask \/ Answer \/ Narrow \/ Other \/ Forget \/ Change
Spec == Init /\ [][Next]_vars
=============================================================================
