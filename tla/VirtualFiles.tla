----------------------------- MODULE VirtualFiles ------------------------------
(***************************************************************************)
(* src/traits/vfs.rs and src/core/fs/chroot.rs: a ChRootFileSystem on top  *)
(* of others, each of which puts its own path in front and asks the next,  *)
(* down to the operating system's files (StdFiles) or those of an image,   *)
(* whose file system is external.  One action per call that is forwarded,  *)
(* so that disks change meanwhile.  Paths with ".." are not modelled.      *)
(***************************************************************************)
EXTENDS StdFiles

CONSTANTS
  Disks,      \* what the disks "os" and "image" may hold
  Mounts,   \* paths of ChRootFileSystems
  Calls,      \* [call, pos, len]: what is asked of a file system
  Asked,      \* of which paths
  MaxLayers   \* bound of the model: ChRootFileSystems on top of each other

ASSUME FilesAssumption ==
  /\ MaxLayers \in Nat
  /\ Mounts \cup Asked \subseteq Seq(Seq(STRING))
  /\ \A c \in Calls : c.call \in {"read_to_string", "read_all", "read", "metadata", "read_dir", "open"}
                     /\ "meant" \notin DOMAIN c
  /\ \A d \in Disks : DOMAIN d = {"os", "image"} /\ \A b \in DOMAIN d : IsDisk(d[b])

VARIABLES
  layers,     \* paths of the ChRootFileSystems, the outermost first
  base,       \* what they stand on: "os" or "image"
  disk,
  op,         \* the call being executed or executed last
  path,       \* its argument
  at,         \* "idle" or "down"
  passed,     \* how many layers have forwarded it
  arg,        \* the argument of the innermost
  reply,      \* Err until there is one
  file,       \* the file that was opened last, as it was then, or Err
  rested      \* the disks have not changed since the call

fs == <<layers, base>>
call == <<op, path, at, passed, arg>>
filesVars == <<fs, disk, call, reply, file, rested>>

Root == <<>>                                     \* "/"

FilesInit ==
  /\ disk \in Disks /\ base \in {"os", "image"} /\ layers = <<>>
  /\ op = [call |-> "none"] /\ path = Root /\ at = "idle" /\ passed = 0 /\ arg = Root
  /\ reply = Err /\ file = Err /\ rested = FALSE

\* normalize_prefix: the pieces of each component that are not blank, as
\* components without colons.
Uncolon(piece) == IF piece = "C:" THEN "C" ELSE piece
Pushed(piece) == IF piece \in {"", " "} THEN <<>> ELSE <<<<Uncolon(piece)>>>>
Clean_LastPieces(p) ==
  FlattenSeq([i \in DOMAIN p |-> IF p[i] = <<>> THEN <<>> ELSE Pushed(Last(p[i]))])
Clean(p) == FlattenSeq([i \in DOMAIN p |-> FlattenSeq([j \in DOMAIN p[i] |-> Pushed(p[i][j])])])

\* read_to_string, read_all, read, metadata, read_dir and open of the outermost.
Ask(c, p) ==
  /\ at = "idle"
  /\ op' = c /\ path' = p /\ arg' = p /\ passed' = 0 /\ at' = "down" /\ rested' = TRUE
  /\ reply' = Err /\ UNCHANGED <<fs, disk, file>>

Forward_Bare ==
  /\ at = "down" /\ passed < Len(layers)
  /\ arg' = IF passed = 0 THEN layers[1] \o Clean(arg) ELSE arg
  /\ passed' = passed + 1
  /\ UNCHANGED <<fs, disk, op, path, at, reply, file, rested>>
Forward_Itself ==
  /\ at = "down" /\ passed < Len(layers)
  /\ UNCHANGED filesVars
Forward ==
  /\ at = "down" /\ passed < Len(layers)
  /\ arg' = layers[passed + 1] \o Clean(arg)
  /\ passed' = passed + 1
  /\ UNCHANGED <<fs, disk, op, path, at, reply, file, rested>>

Reply(c, d, p) ==
  CASE c.call = "read_to_string" -> read_to_string(d, p)
    [] c.call = "read_all" -> read_all(d, p)
    [] c.call = "read" -> read(d, p, c.pos, c.len)
    [] c.call = "metadata" -> metadata(d, p)
    [] c.call = "read_dir" -> read_dir(d, p)
    [] c.call = "open" -> IF Exists(d, p) THEN Ok(Node(d, p)) ELSE Err

Answer ==
  /\ at = "down" /\ passed = Len(layers)
  /\ at' = "idle" /\ passed' = 0 /\ arg' = Root
  /\ reply' = Reply(op, disk[base], arg)
  /\ file' = IF op.call = "open" /\ reply' # Err THEN reply'.val ELSE file
  /\ UNCHANGED <<fs, disk, op, path, rested>>

\* What is answered at once.
Returns(c, p, r) ==
  /\ at = "idle" /\ op' = [call |-> c] /\ path' = p /\ reply' = r /\ rested' = TRUE
  /\ UNCHANGED <<disk, at, passed, arg, file>>

FileMetadata == file # Err /\ Returns("file", Root, MetadataOf(file)) /\ UNCHANGED fs

\* exists: Path::exists below the path of the outermost.
exists_Raw(p) ==
  /\ Returns("exists", p, Ok(IF layers = <<>> THEN Exists(disk[base], p)
                             ELSE Exists(disk["os"], layers[1] \o p)))
  /\ UNCHANGED fs
exists(p) ==
  /\ Returns("exists", p, Ok(IF layers = <<>> THEN Exists(disk[base], p)
                             ELSE Exists(disk["os"], layers[1] \o Clean(p))))
  /\ UNCHANGED fs

is_live == Returns("is_live", Root, Ok(layers = <<>> /\ base = "os")) /\ UNCHANGED fs
-----------------------------------------------------------------------------
\* ChRootFileSystem::new, of the file system there is.
New(prefix) ==
  /\ Len(layers) < MaxLayers /\ layers' = <<prefix>> \o layers
  /\ Returns("new", prefix, Ok("fs")) /\ UNCHANGED base

\* from_fs, given a duplicate: only a ChRootFileSystem can.
from_fs ==
  /\ layers # <<>> \/ base = "os"
  /\ \/ /\ layers # <<>> /\ Len(layers) < MaxLayers
        /\ layers' = <<Root>> \o layers /\ Returns("from_fs", Root, Ok("fs"))
     \/ layers = <<>> /\ UNCHANGED layers /\ Returns("from_fs", Root, Err)
  /\ UNCHANGED base

from_file == (layers # <<>> \/ base = "os") /\ Returns("from_file", Root, Err) /\ UNCHANGED fs

\* The caller goes on with what duplicate returned.
duplicate ==
  /\ Returns("duplicate", Root, Ok("fs"))
  /\ layers' = [i \in DOMAIN layers |-> layers[i]] /\ base' = base

\* Others write to the disks.
Change ==
  /\ disk' \in Disks \ {disk} /\ rested' = FALSE
  /\ UNCHANGED <<fs, call, reply, file>>

FilesNext ==
  \/ \E c \in Calls, p \in Asked : Ask(c, p)
  \/ Forward \/ Answer \/ FileMetadata \/ is_live \/ from_fs \/ from_file \/ duplicate \/ Change
  \/ \E p \in Asked : exists(p)
  \/ \E p \in Mounts : New(p)
=============================================================================
