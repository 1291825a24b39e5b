------------------------------- MODULE StdFiles --------------------------------
(***************************************************************************)
(* src/core/fs/stdfs.rs: what a StdVirtualFS makes of what std::fs answers.*)
(* A disk maps paths to a directory, a file or a link to something else; a *)
(* path is the sequence of its components, a component that of its pieces  *)
(* between backslashes.                                                    *)
(* A definition X_<bug> before a definition X is X with a plausible bug.   *)
(***************************************************************************)
EXTENDS Integers, Sequences, SequencesExt

Ok(v) == [is |-> "Ok", val |-> v]
Err == [is |-> "Err"]
NotText == 255                 \* a byte no UTF-8 text has

\* std::fs: the first link on the way is followed, to what has none on its way.
IsLink(disk, p) == p \in DOMAIN disk /\ disk[p].is = "link"
There(disk, p) ==
  LET links == {n \in 0 .. Len(p) : IsLink(disk, SubSeq(p, 1, n))}
      first == CHOOSE n \in links : \A m \in links : n <= m
  IN  IF links = {} THEN p ELSE disk[SubSeq(p, 1, first)].to \o SubSeq(p, first + 1, Len(p))
Exists(disk, p) == There(disk, p) \in DOMAIN disk
Node(disk, p) == disk[There(disk, p)]
IsA(kind, disk, p) == Exists(disk, p) /\ Node(disk, p).is = kind

\* A link leads to what has no link on its way, above or below it.
IsDisk(disk) ==
  /\ DOMAIN disk \subseteq Seq(Seq(STRING))
  /\ \A p \in DOMAIN disk : IsLink(disk, p) =>
       /\ disk[p].to \in Seq(Seq(STRING))
       /\ \A n \in 0 .. Len(disk[p].to) : ~IsLink(disk, SubSeq(disk[p].to, 1, n))
       /\ \A q \in DOMAIN disk :
            Len(q) >= Len(disk[p].to) /\ SubSeq(q, 1, Len(disk[p].to)) = disk[p].to => ~IsLink(disk, q)

\* timestamp_from, of <<seconds since 1970>>, or <<>> where that is unsupported.
Timestamp(time) == IF time # <<>> /\ time[1] < 0 THEN Err ELSE Ok(time)

\* metadata, of a path and of an open file.
MetadataOf(node) ==
  LET times == [t \in DOMAIN node.times |-> Timestamp(node.times[t])]
  IN  IF \E t \in DOMAIN times : times[t] = Err THEN Err
      ELSE Ok([is |-> node.is, size |-> Len(node.bytes), times |-> [t \in DOMAIN times |-> times[t].val]])
metadata(disk, p) == IF Exists(disk, p) THEN MetadataOf(Node(disk, p)) ELSE Err

read_all(disk, p) == IF IsA("file", disk, p) THEN Ok(Node(disk, p).bytes) ELSE Err
read_to_string(disk, p) ==
  IF IsA("file", disk, p) /\ (\A i \in DOMAIN Node(disk, p).bytes : Node(disk, p).bytes[i] # NotText)
  THEN Ok(Node(disk, p).bytes) ELSE Err

\* read_at: as many bytes behind pos as there are and the buffer takes.
read(disk, p, pos, len) ==
  IF ~IsA("file", disk, p) THEN Err
  ELSE LET bytes == Node(disk, p).bytes
           last == IF pos + len < Len(bytes) THEN pos + len ELSE Len(bytes)
       IN  Ok(SubSeq(bytes, pos + 1, last))

\* The entries of a directory: links are not followed, the rest is a file.
read_dir(disk, p) ==
  IF ~IsA("dir", disk, p) THEN Err
  ELSE Ok({<<disk[q].is, Last(q)>> : q \in {q \in DOMAIN disk \ {<<>>} : Front(q) = There(disk, p)}})
=============================================================================
