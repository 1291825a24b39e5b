--------------------------------- MODULE Files ---------------------------------
(***************************************************************************)
(* A tool that looks for a file of a user: it has the path interpolated    *)
(* with the variables of the user (Interpolation) and asks a file system   *)
(* for what comes out of it (VirtualFiles).  What is claimed of both.      *)
(***************************************************************************)
EXTENDS Interpolation, VirtualFiles

ASSUME PartAssumption == Part \subseteq STRING

vars == <<interVars, filesVars>>

Init == InterInit /\ FilesInit

\* A path of Windows is a single component to the Path of another system.
Find_Uninterpolated ==
  /\ doing = "idle" /\ answer = "Some" /\ had = <<>>
  /\ Ask([call |-> "read_all", meant |-> asked], <<asked>>) /\ UNCHANGED interVars
Find ==
  /\ doing = "idle" /\ answer = "Some" /\ had = <<>>
  /\ Ask([call |-> "read_all", meant |-> asked], <<ret>>) /\ UNCHANGED interVars

\* The tool lets go of what it has: of the String, or of a reply and a file.
\* It interpolates and asks in turn.
Drop ==
  /\ doing = "idle" /\ at = "idle"
  /\ asked' = <<>> /\ ret' = <<>> /\ had' = <<>> /\ answer' = "None"
  /\ op' = [call |-> "none"] /\ path' = Root /\ reply' = Err /\ file' = Err /\ rested' = FALSE
  /\ UNCHANGED <<variables, calls, doing, fs, disk, at, passed, arg>>
NoString == doing = "idle" /\ answer = "None" /\ asked = <<>>

Next ==
  \/ ((InterCall /\ op.call = "none") \/ InterStep) /\ UNCHANGED filesVars
  \/ (NoString \/ at = "down") /\ FilesNext /\ UNCHANGED interVars
  \/ Find \/ Drop

Spec == Init /\ [][Next]_vars
FairSpec == /\ Spec
            /\ WF_vars(InterStep /\ UNCHANGED filesVars)
            /\ WF_vars((Forward \/ Answer) /\ UNCHANGED interVars)
-----------------------------------------------------------------------------
\* The names of a path, whatever separates them.
NamesOf(p) ==
  LET pieces == FlattenSeq(p)
  IN  FlattenSeq([i \in DOMAIN pieces |->
        CASE pieces[i] \in {"", " "} -> <<>> [] pieces[i] = "C:" -> <<<<"C">>>>
          [] OTHER -> <<<<pieces[i]>>>>])

\* The directory of the disk that a stack shows.
RootOf(stack) ==
  IF stack = <<>> THEN Root
  ELSE Last(stack) \o
       FlattenSeq([n \in 1 .. Len(stack) - 1 |-> NamesOf(stack[Len(stack) - n])])
Below(p) == RootOf(layers) \o (IF layers = <<>> THEN p ELSE NamesOf(p))

(* Whatever stands on whatever, each file system is one directory of one   *)
(* disk: no layer's path is left out or put in front twice, answers are    *)
(* those of the disk at one moment, and a duplicate is the same.           *)
FS == INSTANCE OneFileSystem WITH
        root <- RootOf(layers), bare <- layers = <<>>, disk <- disk[base],
        names <- IF layers = <<>> THEN path ELSE NamesOf(path)
Implements == FS!Spec

(* What a directory lists can be asked for, by the name it was listed with *)
(* and through all the layers, and is what it was listed as; but names     *)
(* that normalize_prefix changes, and links that lead nowhere.             *)
ListedIsThere ==
  op.call = "read_dir" /\ at = "idle" /\ reply # Err /\ rested =>
    \A entry \in reply.val :
      LET p == Below(Append(path, entry[2]))
      IN  layers = <<>> \/ NamesOf(<<entry[2]>>) = <<entry[2]>>
            => IF entry[1] = "link" THEN Exists(disk[base], p) => Node(disk[base], p).is # "link"
               ELSE IsA(entry[1], disk[base], p)

(* chroot.rs:113: exists agrees with what can be read, where it is asked of*)
(* a ChRootFileSystem that stands on the operating system itself.          *)
ExistsAgrees ==
  op.call = "exists" /\ rested /\ (Len(layers) = 0 \/ (Len(layers) = 1 /\ base = "os"))
    => reply = Ok(Exists(disk[base], Below(path)))

(* The path of a user's file is in the caller's String what it stands for, *)
(* whichever variables name others, and is found, below the directory that *)
(* shows the machine, where they say it is; a variable of no value hides   *)
(* the one behind it.                                                      *)
FoundWhereMeant ==
  (\A v \in DOMAIN variables : variables[v] # <<>>) =>
    /\ doing = "idle" /\ answer = "Some" => ret = had \o Rewritten(asked, variables)
    /\ "meant" \in DOMAIN op /\ at = "idle" /\ rested /\ layers # <<>> =>
         reply = read_all(disk[base], RootOf(layers) \o NamesOf(<<Rewritten(op.meant, variables)>>))

(* A call of a file system is answered, however many layers forward it and *)
(* whatever happens to the disks, and so is the interpolation of a path    *)
(* whose variables do not name each other.                                 *)
CallAnswered ==
  /\ at = "down" ~> at = "idle"
  /\ doing # "idle" /\ ~Circular(asked, variables) ~> doing = "idle"
=============================================================================
