----------------------------- MODULE EnvVarsProofs ----------------------------
(***************************************************************************)
(* Four theorems about the reading of environment variables, for any       *)
(* contents of the registry, users, and numbers of handles, on a reader    *)
(* that frees handles and on one that does not: every handle that is open  *)
(* has one owner, a user whose profile stayed put while it was read has    *)
(* an environment, a registry that stayed put is told as it is, and leads  *)
(* to the known folders.                                                   *)
(***************************************************************************)
EXTENDS EnvVarsProps, SharedLemmas

One(s) == s = <<s[1]>>
Two(s) == s = <<s[1], s[2]>>
Injective(s) == \A i, j \in DOMAIN s : s[i] = s[j] => i = j

\* How many handles a function holds where it is, and which.
Control ==
  /\ at \in {"idle", "profiles", "users"} \cup {"root", "files", "data"}
            \cup {"list", "each", "image", "folders", "environment"}
  /\ at \in {"idle", "profiles", "users"} => held = <<>> /\ left = <<>>
  /\ at \in {"root", "files", "data"} => IF left = <<>> THEN held = <<>> ELSE One(held)
  /\ at \in {"list", "each"} => One(held) /\ left = <<>>
  /\ at = "image" => Two(held) /\ left = <<>>
  /\ at = "folders" => IF left = <<>> THEN One(held) ELSE Two(held) /\ folders = held[2]
  /\ at = "environment" => IF left = <<>> THEN One(held) ELSE Two(held)

\* A handle that is not open is owned by nobody, and can be given out.
Handed ==
  /\ frames \in Seq(Nat) /\ Owned \subseteq Nat /\ counter \in Nat
  /\ Hives \cup Owned \subseteq DOMAIN cached
  /\ ~Closes => \A k \in DOMAIN cached : k \in Hives \/ k < counter

HandleInv == Control /\ Handed /\ HandlesAccounted
-----------------------------------------------------------------------------
\* The three keys read for the machine, and which follows which.
LEMMA LookupFacts ==
  /\ DOMAIN Lookup = {"root", "files", "data"}
  /\ \A a \in DOMAIN Lookup : /\ Lookup[a].names # <<>>
                              /\ Lookup[a].next \in {"files", "data", "profiles"}
<1>1. \A x, y, z : <<x>> # <<>> /\ <<x, y, z>> # <<>>
  OBVIOUS
<1>2. DOMAIN Lookup = {"root", "files", "data"}
  BY DEF Lookup
<1>3. /\ Lookup["root"].names = <<"SystemRoot">> /\ Lookup["root"].next = "files"
      /\ Lookup["data"].names = <<"CommonAppData">> /\ Lookup["data"].next = "profiles"
      /\ Lookup["files"].names = <<"ProgrammFilesDir", "ProgramFilesDir_x86",
                                  "ProgramW6432Dir">>
      /\ Lookup["files"].next = "data"
  BY Zenon DEF Lookup
<1> QED  BY <1>1, <1>2, <1>3

\* A function holds no handle, one, or two that differ.
LEMMA HeldElements ==
  /\ ElementsOf(<<>>) = {} /\ Injective(<<>>)
  /\ \A a : ElementsOf(<<a>>) = {a} /\ Injective(<<a>>)
  /\ \A a, b : ElementsOf(<<a, b>>) = {a, b} /\ (a # b => Injective(<<a, b>>))
  BY DEF ElementsOf, Injective

\* A handle nobody held is one more that is held.
LEMMA PushElements ==
  ASSUME NEW s \in Seq(Nat), NEW k \in Nat, k \notin ElementsOf(s), Injective(s)
  PROVE  ElementsOf(Append(s, k)) = ElementsOf(s) \cup {k} /\ Injective(Append(s, k))
<1> DEFINE t == Append(s, k)
<1>1. Len(s) \in Nat /\ DOMAIN s = 1 .. Len(s)
  OBVIOUS
<1>2. DOMAIN t = 1 .. Len(s) + 1 /\ t[Len(s) + 1] = k /\ \A i \in DOMAIN s : t[i] = s[i]
  BY <1>1
<1>3. \A i \in DOMAIN t : i \in DOMAIN s \/ i = Len(s) + 1
  BY <1>1, <1>2
<1>4. \A i \in DOMAIN s : s[i] # k /\ i \in DOMAIN t
  BY <1>1, <1>2 DEF ElementsOf
<1>5. Len(s) + 1 \in DOMAIN t
  BY <1>1, <1>2
<1> HIDE DEF t
<1>6. ElementsOf(t) = ElementsOf(s) \cup {k}
  BY <1>2, <1>3, <1>4, <1>5 DEF ElementsOf
<1>7. Injective(t)
  BY <1>2, <1>3, <1>4 DEF Injective
<1> QED  BY <1>6, <1>7 DEF t

\* Closing the innermost leaves the others.
LEMMA PopElements ==
  ASSUME NEW s \in Seq(Nat), s # <<>>, Injective(s), NEW t, t = SubSeq(s, 1, Len(s) - 1)
  PROVE  /\ t \in Seq(Nat) /\ Injective(t) /\ s[Len(s)] \in ElementsOf(s)
         /\ ElementsOf(t) = ElementsOf(s) \ {s[Len(s)]}
<1>1. Len(s) \in Nat /\ Len(s) > 0 /\ DOMAIN s = 1 .. Len(s)
  OBVIOUS
<1>2. t \in Seq(Nat) /\ DOMAIN t = 1 .. Len(s) - 1 /\ \A i \in DOMAIN t : t[i] = s[i]
  BY <1>1
<1>3. ElementsOf(t) = ElementsOf(s) \ {s[Len(s)]}
  <2>1. ASSUME NEW i \in DOMAIN t  PROVE t[i] \in ElementsOf(s) /\ t[i] # s[Len(s)]
    BY <1>1, <1>2 DEF ElementsOf, Injective
  <2>2. ASSUME NEW i \in DOMAIN s, s[i] # s[Len(s)]  PROVE s[i] \in ElementsOf(t)
    <3>1. i \in DOMAIN t /\ t[i] = s[i]
      BY <1>1, <1>2, <2>2
    <3> QED  BY <3>1 DEF ElementsOf
  <2> QED  BY <2>1, <2>2 DEF ElementsOf
<1>4. s[Len(s)] \in ElementsOf(s) /\ DOMAIN t \subseteq DOMAIN s
  BY <1>1, <1>2 DEF ElementsOf
<1>5. Injective(t)
  BY <1>2, <1>4 DEF Injective
<1> QED  BY <1>2, <1>3, <1>4, <1>5
-----------------------------------------------------------------------------
(* open_key hands out what nobody owns: a free number, or the next one.    *)
LEMMA OpensFresh ==
  ASSUME HandleInv, NEW h, NEW name, NEW k \in 0 .. MaxHandles - 1, Opens(h, name, k)
  PROVE  /\ k \in Nat /\ k \notin Owned /\ k \notin Hives
         /\ DOMAIN cached' = DOMAIN cached \cup {k}
         /\ counter' \in Nat
         /\ ~Closes => counter' = counter + 1 /\ k = counter
<1>1. k \in Nat /\ k \notin Hives
  BY RegistryAssumption DEF Hives, HKLM, HKU
<1>2. k \notin Owned
  BY <1>1 DEF HandleInv, Handed, Opens, Free, Owned
<1> QED  BY <1>1, <1>2 DEF HandleInv, Handed, Opens, Free

\* open_key that succeeds: one more handle is open, and the function holds it.
LEMMA OpenStep ==
  ASSUME HandleInv, NEW h, NEW name, NEW k \in 0 .. MaxHandles - 1, Opens(h, name, k),
         UNCHANGED <<frames, lost>>, Injective(held'),
         ElementsOf(held') = ElementsOf(held) \cup {k}
  PROVE  Handed' /\ HandlesAccounted'
<1>1. Owned' = Owned \cup {k}
  BY DEF Owned, ElementsOf
<1>2. /\ k \in Nat /\ k \notin Owned /\ k \notin Hives /\ counter' \in Nat
      /\ DOMAIN cached' = DOMAIN cached \cup {k}
      /\ ~Closes => counter' = counter + 1 /\ k = counter
  BY OpensFresh
<1>3. Handed'
  <2>1. /\ frames' \in Seq(Nat) /\ Owned' \subseteq Nat /\ counter' \in Nat
        /\ Hives \cup Owned' \subseteq DOMAIN cached'
    BY <1>1, <1>2 DEF HandleInv, Handed
  <2>2. ~Closes => \A j \in DOMAIN cached' : j \in Hives \/ j < counter'
    BY <1>2 DEF HandleInv, Handed, Hives, HKLM, HKU
  <2> QED  BY <2>1, <2>2 DEF Handed, Hives, HKLM, HKU
<1>4. HandlesAccounted'
  <2>1. /\ Closes => DOMAIN cached' = Hives \cup Owned'
        /\ Owned' \cap Hives = {}
    BY <1>1, <1>2 DEF HandleInv, HandlesAccounted
  <2>2. k \notin ElementsOf(frames) /\ k \notin lost
    BY <1>2 DEF Owned
  <2>3. /\ ElementsOf(frames') \cap ElementsOf(held') = {}
        /\ lost' \cap (ElementsOf(frames') \cup ElementsOf(held')) = {}
    BY <2>2 DEF HandleInv, HandlesAccounted
  <2> QED  BY <2>1, <2>3 DEF HandleInv, HandlesAccounted, Injective, Hives, HKLM, HKU
<1> QED  BY <1>3, <1>4

\* close_key of handles it holds: they are neither open nor held.
LEMMA CloseStep ==
  ASSUME HandleInv, NEW ks, ks \subseteq ElementsOf(held), CloseKeys(ks),
         UNCHANGED <<frames, lost>>, Injective(held'),
         ElementsOf(held') = ElementsOf(held) \ ks
  PROVE  Handed' /\ HandlesAccounted'
<1>1. Owned' = Owned \ ks
  BY DEF Owned, HandleInv, HandlesAccounted
<1>2. ks \cap Hives = {}
  BY DEF HandleInv, HandlesAccounted, Owned
<1>3. DOMAIN cached' = IF Closes THEN DOMAIN cached \ ks ELSE DOMAIN cached
  BY DEF CloseKeys
<1> QED  BY <1>1, <1>2, <1>3 DEF HandleInv, Handed, HandlesAccounted, Injective, Owned, CloseKeys

\* A step that opens and closes nothing.
LEMMA QuietStep ==
  ASSUME HandleInv, UNCHANGED <<handles, frames, lost, held>>
  PROVE  Handed' /\ HandlesAccounted'
  BY DEF HandleInv, Handed, HandlesAccounted, Owned, handles
-----------------------------------------------------------------------------
(* Functions that hold no handle yet, or one: they open a key.             *)
LEMMA OpensKeepInv ==
  ASSUME HandleInv, NEW k \in 0 .. MaxHandles - 1,
         \/ OpenLookup(k) \/ OpenProfiles(k) \/ OpenFolders(k) \/ OpenEnvironment(k)
         \/ \E u \in todo : OpenProfile(u, k) \/ OpenUser(u, k)
  PROVE  HandleInv'
<1>1. UNCHANGED <<frames, lost>> /\ \E h, name : Opens(h, name, k)
  BY DEF OpenLookup, OpenProfiles, OpenFolders, OpenEnvironment, OpenProfile, OpenUser, kept
<1>2. k \notin Owned
  BY <1>1, OpensFresh
<1>3. \/ held = <<>> /\ held' = <<k>>
      \/ One(held) /\ held' = <<held[1], k>>
  BY DEF HandleInv, Control, OpenLookup, OpenProfiles, OpenFolders, OpenEnvironment,
         OpenProfile, OpenUser
<1>4. Injective(held') /\ ElementsOf(held') = ElementsOf(held) \cup {k}
  <2>1. CASE held = <<>> /\ held' = <<k>>
    BY <2>1, HeldElements
  <2>2. CASE One(held) /\ held' = <<held[1], k>>
    <3>1. ElementsOf(held) = {held[1]}
      BY <2>2, HeldElements DEF One
    <3>2. held[1] # k
      BY <1>2, <3>1 DEF Owned
    <3> QED  BY <2>2, <3>1, <3>2, HeldElements
  <2> QED  BY <1>3, <2>1, <2>2
<1>5. Handed' /\ HandlesAccounted'
  BY <1>1, <1>4, OpenStep
<1>6. Control'
  <2>1. \A a, b : One(<<a>>) /\ Two(<<a, b>>) /\ <<a>>[1] = a /\ <<a, b>>[2] = b
    BY DEF One, Two
  <2>2. FolderValues # <<>> /\ TempValues # <<>>
    BY DEF FolderValues, TempValues
  <2>3. CASE OpenLookup(k)
    BY <2>1, <2>3, LookupFacts DEF OpenLookup, HandleInv, Control
  <2>4. CASE OpenProfiles(k)
    BY <2>1, <2>4 DEF OpenProfiles, HandleInv, Control
  <2>5. CASE OpenFolders(k)
    BY <2>1, <2>2, <2>5 DEF OpenFolders, HandleInv, Control
  <2>6. CASE OpenEnvironment(k)
    BY <2>1, <2>2, <2>6 DEF OpenEnvironment, HandleInv, Control
  <2>7. ASSUME NEW u \in todo, OpenProfile(u, k)  PROVE Control'
    BY <2>1, <2>7 DEF OpenProfile, HandleInv, Control
  <2>8. ASSUME NEW u \in todo, OpenUser(u, k)  PROVE Control'
    BY <2>1, <2>8 DEF OpenUser, HandleInv, Control
  <2> QED  BY <2>3, <2>4, <2>5, <2>6, <2>7, <2>8
<1> QED  BY <1>5, <1>6 DEF HandleInv

(* What closes the handle in hand, and goes where one less is held.        *)
LEMMA ClosesInner ==
  ASSUME HandleInv, Two(held), CloseKeys({held[2]}), held' = <<held[1]>>,
         UNCHANGED <<frames, lost>>
  PROVE  Handed' /\ HandlesAccounted'
<1>1. held[1] # held[2]
  BY DEF HandleInv, HandlesAccounted, Two
<1>2. ElementsOf(held) = {held[1], held[2]}
  BY HeldElements DEF Two
<1>3. Injective(held') /\ ElementsOf(held') = {held[1]}
  BY HeldElements
<1> QED  BY <1>1, <1>2, <1>3, CloseStep

\* What a function that returns early closes is all it holds.
LEMMA ClosesAll ==
  ASSUME HandleInv, CloseKeys(ElementsOf(held)), held' = <<>>, UNCHANGED <<frames, lost>>
  PROVE  Handed' /\ HandlesAccounted'
<1>1. Injective(held') /\ ElementsOf(held') = {}
  BY HeldElements
<1> QED  BY <1>1, CloseStep

\* The handles of a function that holds one or two.
LEMMA HeldIs ==
  ASSUME One(held) \/ Two(held)
  PROVE  /\ One(held) => ElementsOf(held) = {held[1]}
         /\ Two(held) => ElementsOf(held) = {held[1], held[2]}
  BY HeldElements DEF One, Two

(* The functions that read a key until they close it.                      *)
LEMMA ReadsKeepInv ==
  ASSUME HandleInv,
         ReadLookup \/ ReadImage \/ ProfilesRead \/ FoldersRefused \/ ReadFolder
           \/ EnvironmentRefused \/ ReadTemp
  PROVE  HandleInv'
<1>0. UNCHANGED <<frames, lost>> /\ \A a, b : One(<<a>>) /\ Two(<<a, b>>)
  BY DEF ReadLookup, ReadImage, ProfilesRead, FoldersRefused, ReadFolder, EnvironmentRefused,
         ReadTemp, kept, One, Two
<1>1. CASE ReadLookup
  <2>1. at \in {"root", "files", "data"} /\ One(held)
    BY <1>1, LookupFacts DEF ReadLookup, HandleInv, Control
  <2>2. CASE left' # <<>>
    BY <1>0, <1>1, <2>1, <2>2, QuietStep DEF ReadLookup, HandleInv, Control
  <2>3. CASE left' = <<>>
    <3>1. Handed' /\ HandlesAccounted'
      BY <1>0, <1>1, <2>1, <2>3, HeldIs, ClosesAll DEF ReadLookup
    <3>2. Control'
      BY <1>1, <2>1, <2>3, LookupFacts DEF ReadLookup, HandleInv, Control
    <3> QED  BY <3>1, <3>2 DEF HandleInv
  <2> QED  BY <2>2, <2>3
<1>2. CASE ReadImage
  <2>1. Handed' /\ HandlesAccounted'
    BY <1>0, <1>2, ClosesInner DEF ReadImage, HandleInv, Control
  <2>2. Control'
    BY <1>0, <1>2 DEF ReadImage, HandleInv, Control
  <2> QED  BY <2>1, <2>2 DEF HandleInv
<1>3. CASE ProfilesRead
  <2>1. Handed' /\ HandlesAccounted'
    BY <1>0, <1>3, HeldIs, ClosesAll DEF ProfilesRead, HandleInv, Control
  <2>2. Control'
    BY <1>3 DEF ProfilesRead, HandleInv, Control
  <2> QED  BY <2>1, <2>2 DEF HandleInv
<1>4. CASE FoldersRefused \/ EnvironmentRefused
  <2>1. One(held) /\ left = <<>> /\ left' = left /\ at' = "users" /\ held' = <<>>
        /\ CloseKeys({held[1]})
    BY <1>4 DEF FoldersRefused, EnvironmentRefused, Insert, HandleInv, Control
  <2>2. Handed' /\ HandlesAccounted'
    BY <1>0, <2>1, HeldIs, ClosesAll
  <2> QED  BY <2>1, <2>2 DEF HandleInv, Control
<1>5. CASE ReadFolder
  <2>1. Two(held) /\ folders = held[2] /\ folders' = folders
    BY <1>5 DEF ReadFolder, HandleInv, Control
  <2>2. CASE left' # <<>>
    BY <1>0, <1>5, <2>1, <2>2, QuietStep DEF ReadFolder, HandleInv, Control
  <2>3. CASE left' = <<>>
    <3>1. Handed' /\ HandlesAccounted'
      BY <1>0, <1>5, <2>1, <2>3, ClosesInner DEF ReadFolder
    <3>2. Control'
      BY <1>0, <1>5, <2>3 DEF ReadFolder, HandleInv, Control
    <3> QED  BY <3>1, <3>2 DEF HandleInv
  <2> QED  BY <2>2, <2>3
<1>6. CASE ReadTemp
  <2>1. Two(held)
    BY <1>6 DEF ReadTemp, HandleInv, Control
  <2>2. CASE left' # <<>>
    BY <1>0, <1>6, <2>1, <2>2, QuietStep DEF ReadTemp, HandleInv, Control
  <2>3. CASE left' = <<>>
    <3>1. Handed' /\ HandlesAccounted'
      BY <1>0, <1>6, <2>1, <2>3, HeldIs, ClosesAll DEF ReadTemp, Insert
    <3>2. Control'
      BY <1>6, <2>3 DEF ReadTemp, Insert, HandleInv, Control
    <3> QED  BY <3>1, <3>2 DEF HandleInv
  <2> QED  BY <2>2, <2>3
<1> QED  BY <1>1, <1>2, <1>3, <1>4, <1>5, <1>6

(* The steps that neither open nor close.                                  *)
LEMMA QuietKeepInv ==
  ASSUME HandleInv,
         \/ Call \/ LookupRefused \/ ProfilesRefused \/ ListProfiles \/ Return
         \/ Written \/ UNCHANGED vars
         \/ \E u \in todo : ProfileRefused(u) \/ UserRefused(u)
  PROVE  HandleInv'
<1>1. CASE \/ Call \/ LookupRefused \/ ProfilesRefused \/ ListProfiles \/ Return
           \/ Written \/ UNCHANGED vars \/ \E u \in todo : ProfileRefused(u)
  <2>1. UNCHANGED <<handles, frames, lost, held>>
    BY <1>1 DEF Call, LookupRefused, ProfilesRefused, ListProfiles, Return, Written, Change,
                ProfileRefused, kept, vars, callVars, regVars, handles
  <2>2. Handed' /\ HandlesAccounted'
    BY <2>1, QuietStep
  <2>3. Control'
    <3>1. CASE LookupRefused
      <4>1. left = <<>>
        BY <3>1, LookupFacts DEF LookupRefused, HandleInv, Control, One
      <4> QED  BY <3>1, <4>1, LookupFacts DEF LookupRefused, HandleInv, Control
    <3>2. CASE Call \/ ProfilesRefused \/ ListProfiles \/ Return
      BY <3>2 DEF Call, ProfilesRefused, ListProfiles, Return, HandleInv, Control
    <3>3. CASE Written \/ UNCHANGED vars \/ \E u \in todo : ProfileRefused(u)
      BY <3>3 DEF Written, vars, callVars, ProfileRefused, HandleInv, Control
    <3> QED  BY <1>1, <3>1, <3>2, <3>3
  <2> QED  BY <2>2, <2>3 DEF HandleInv
<1>2. ASSUME NEW u \in todo, UserRefused(u)  PROVE HandleInv'
  <2>1. held = <<>> /\ left = <<>> /\ held' = <<>> /\ left' = <<>> /\ at' = "users"
    BY <1>2 DEF UserRefused, Insert, HandleInv, Control
  <2>2. Handed' /\ HandlesAccounted'
    BY <1>2, <2>1, QuietStep DEF UserRefused, kept
  <2> QED  BY <2>1, <2>2 DEF HandleInv, Control
<1> QED  BY <1>1, <1>2

(* auto_close_key, the reads that leave their key open, and a panic.       *)
LEMMA CallerKeepsInv ==
  ASSUME HandleInv, Caller
  PROVE  HandleInv'
<1>1. held = <<>> /\ held' = held /\ Control' /\ ElementsOf(held) = {}
  BY HeldElements DEF Caller, callVars, HandleInv, Control
<1>2. frames \in Seq(Nat) /\ Injective(frames) /\ Owned = ElementsOf(frames) \cup lost
  BY <1>1 DEF HandleInv, Handed, HandlesAccounted, Injective, Owned
<1>3. ASSUME NEW k \in 0 .. MaxHandles - 1, NEW h, NEW name, Enter(h, name, k)
      PROVE  Handed' /\ HandlesAccounted'
  <2>1. /\ k \in Nat /\ k \notin Owned /\ k \notin Hives /\ counter' \in Nat
        /\ DOMAIN cached' = DOMAIN cached \cup {k}
        /\ ~Closes => counter' = counter + 1 /\ k = counter
    <3>1. Opens(h, name, k)
      BY <1>3 DEF Enter
    <3>2. k \in 0 .. MaxHandles - 1
      BY <1>3
    <3> QED  BY <3>1, <3>2, OpensFresh, Zenon
  <2>2. frames' = Append(frames, k) /\ lost' = lost
    BY <1>3 DEF Enter
  <2>3. ElementsOf(frames') = ElementsOf(frames) \cup {k} /\ Injective(frames')
    BY <1>2, <2>1, <2>2, PushElements
  <2>4. frames' \in Seq(Nat)
    BY <1>2, <2>1, <2>2
  <2>5. Owned' = Owned \cup {k}
    BY <1>1, <1>2, <2>2, <2>3 DEF Owned
  <2>6. Handed'
    <3>1. ~Closes => \A j \in DOMAIN cached' : j \in Hives \/ j < counter'
      BY <2>1 DEF HandleInv, Handed, Hives, HKLM, HKU
    <3> QED  BY <2>1, <2>4, <2>5, <3>1 DEF HandleInv, Handed, Hives, HKLM, HKU
  <2>7. HandlesAccounted'
    <3>1. (Closes => DOMAIN cached' = Hives \cup Owned') /\ Owned' \cap Hives = {}
      BY <2>1, <2>5 DEF HandleInv, HandlesAccounted
    <3>2. lost' \cap (ElementsOf(frames') \cup ElementsOf(held')) = {}
      BY <1>1, <1>2, <2>1, <2>2, <2>3 DEF HandleInv, HandlesAccounted
    <3> QED  BY <1>1, <2>3, <3>1, <3>2, HeldElements DEF HandlesAccounted, Injective, Hives, HKLM, HKU
  <2> QED  BY <2>6, <2>7
<1>4. ASSUME Leave  PROVE Handed' /\ HandlesAccounted'
  <2> DEFINE k == frames[Len(frames)]
  <2>1. frames' \in Seq(Nat) /\ Injective(frames') /\ k \in ElementsOf(frames)
        /\ ElementsOf(frames') = ElementsOf(frames) \ {k}
    BY <1>2, <1>4, PopElements DEF Leave
  <2>2. lost' = lost /\ counter' = counter
        /\ DOMAIN cached' = IF Closes THEN DOMAIN cached \ {k} ELSE DOMAIN cached
    BY <1>4 DEF Leave, CloseKeys
  <2>3. Owned' = Owned \ {k}
    BY <1>1, <1>2, <2>1, <2>2 DEF Owned, HandleInv, HandlesAccounted
  <2>4. k \in Owned /\ k \notin Hives
    BY <1>2, <2>1 DEF HandleInv, HandlesAccounted
  <2> HIDE DEF k
  <2>5. Handed'
    BY <2>1, <2>2, <2>3, <2>4 DEF HandleInv, Handed
  <2>6. HandlesAccounted'
    BY <1>1, <2>1, <2>2, <2>3, <2>4 DEF HandleInv, HandlesAccounted, Injective
  <2> QED  BY <2>5, <2>6
<1>5. ASSUME Unwind  PROVE Handed' /\ HandlesAccounted'
  <2>1. frames' = <<>> /\ lost' = lost \cup ElementsOf(frames) /\ UNCHANGED handles
    BY <1>5 DEF Unwind, ElementsOf
  <2>2. ElementsOf(frames') = {} /\ Injective(frames') /\ frames' \in Seq(Nat)
    BY <2>1, HeldElements
  <2>3. Owned' = Owned
    BY <1>1, <1>2, <2>1, <2>2 DEF Owned
  <2> QED  BY <1>1, <2>1, <2>2, <2>3 DEF HandleInv, Handed, HandlesAccounted, Injective, handles
<1>6. ASSUME NEW k \in 0 .. MaxHandles - 1, ReadVersion(k)
      PROVE  Handed' /\ HandlesAccounted'
  <2>1. /\ k \in Nat /\ k \notin Owned /\ k \notin Hives /\ counter' \in Nat
        /\ DOMAIN cached' = DOMAIN cached \cup {k}
        /\ ~Closes => counter' = counter + 1 /\ k = counter
    BY <1>6, OpensFresh DEF ReadVersion
  <2>2. frames' = frames /\ lost' = lost \cup {k}
    BY <1>6 DEF ReadVersion
  <2>3. Owned' = Owned \cup {k} /\ k \notin ElementsOf(frames)
    BY <1>1, <1>2, <2>1, <2>2 DEF Owned
  <2>4. ~Closes => \A j \in DOMAIN cached' : j \in Hives \/ j < counter'
    BY <2>1 DEF HandleInv, Handed, Hives, HKLM, HKU
  <2>5. Handed'
    BY <2>1, <2>2, <2>3, <2>4 DEF HandleInv, Handed, Hives, HKLM, HKU
  <2>6. (Closes => DOMAIN cached' = Hives \cup Owned') /\ Owned' \cap Hives = {}
    BY <2>1, <2>3 DEF HandleInv, HandlesAccounted
  <2>7. lost' \cap (ElementsOf(frames') \cup ElementsOf(held')) = {}
    BY <1>1, <2>2, <2>3 DEF HandleInv, HandlesAccounted
  <2> QED
    BY <1>1, <2>2, <2>5, <2>6, <2>7 DEF HandleInv, HandlesAccounted, Hives, HKLM, HKU
<1>7. Handed' /\ HandlesAccounted'
  <2>1. \/ \E k \in 0 .. MaxHandles - 1 : (\E h, name : Enter(h, name, k)) \/ ReadVersion(k)
        \/ Leave \/ Unwind
    BY DEF Caller
  <2> QED  BY <2>1, <1>3, <1>4, <1>5, <1>6
<1> QED  BY <1>1, <1>7 DEF HandleInv
-----------------------------------------------------------------------------
\* Nobody holds a handle before the first call.
LEMMA InitInv == Init => HandleInv
<1> SUFFICES ASSUME Init  PROVE HandleInv
  OBVIOUS
<1>1. frames = <<>> /\ held = <<>> /\ lost = {} /\ counter = 0 /\ DOMAIN cached = Hives
      /\ at = "idle" /\ left = <<>>
  BY DEF Init, RegInit
<1>2. Owned = {} /\ Injective(frames) /\ Injective(held) /\ frames \in Seq(Nat)
  BY <1>1, HeldElements DEF Owned
<1>3. Control
  BY <1>1 DEF Control
<1>4. Handed /\ HandlesAccounted
  BY <1>1, <1>2 DEF Handed, HandlesAccounted, Injective, Owned
<1> QED  BY <1>3, <1>4 DEF HandleInv

\* The invariant is inductive, on a reader that frees handles and on one that does not.
LEMMA StepInv == HandleInv /\ [Next]_vars => HandleInv'
<1> SUFFICES ASSUME HandleInv, [Next]_vars  PROVE HandleInv'
  OBVIOUS
<1>1. CASE Call \/ Written \/ UNCHANGED vars
  BY <1>1, QuietKeepInv
<1>2. CASE Caller
  BY <1>2, CallerKeepsInv
<1>3. CASE Step
  BY <1>3, QuietKeepInv, ReadsKeepInv, OpensKeepInv DEF Step
<1> QED  BY <1>1, <1>2, <1>3 DEF Next

(* Whatever the registry holds and however its readers' calls fail, every  *)
(* open handle has the one function that will close it, but for those that *)
(* get_system_root, windows_build and a panic leave (env_vars.rs:24-226,   *)
(* registry/mod.rs:226-280).                                               *)
THEOREM HandlesOwned == Spec => []HandlesAccounted
<1>1. Init => HandleInv
  BY InitInv
<1>2. HandleInv /\ [Next]_vars => HandleInv'
  BY StepInv
<1>3. HandleInv => HandlesAccounted
  BY DEF HandleInv
<1> QED  BY <1>1, <1>2, <1>3, PTL DEF Spec
-----------------------------------------------------------------------------
\* The key each handle in hand was opened for.
Keyed ==
  /\ cached[HKLM] = <<"HKLM">> /\ cached[HKU] = <<"HKU">>
  /\ at \in DOMAIN Lookup /\ left # <<>> => cached[held[1]] = <<"HKLM">> \o Lookup[at].key
  /\ at \in {"list", "each", "image"} => cached[held[1]] = <<"HKLM">> \o ProfileList
  /\ at = "image" => cached[held[2]] = <<"HKLM">> \o ProfileList \o <<user>>
  /\ at \in {"folders", "environment"} => cached[held[1]] = <<"HKU">> \o <<user>>
  /\ at = "folders" /\ left # <<>> =>
       cached[held[2]] = <<"HKU">> \o <<user>> \o <<"UserShellFolders">>

(* A handle that is open before and after a step is of the same key.       *)
LEMMA PathsKept ==
  ASSUME HandleInv, [Next]_vars, NEW j \in DOMAIN cached \cap DOMAIN cached'
  PROVE  cached'[j] = cached[j]
<1>1. ASSUME NEW h, NEW name, NEW k \in 0 .. MaxHandles - 1, Opens(h, name, k)
      PROVE  cached'[j] = cached[j]
  <2>1. k \notin DOMAIN cached
    BY <1>1, OpensFresh DEF HandleInv, Handed, Opens, Free
  <2> QED  BY <1>1, <2>1 DEF Opens
<1>2. ASSUME NEW ks, CloseKeys(ks)  PROVE cached'[j] = cached[j]
  BY <1>2 DEF CloseKeys
<1>3. CASE Call \/ Written \/ UNCHANGED vars
  BY <1>3 DEF Call, Written, Change, vars, regVars, handles
<1>4. CASE Caller
  <2>1. CASE Unwind
    BY <2>1 DEF Unwind, handles
  <2>2. CASE Leave
    BY <2>2, <1>2 DEF Leave
  <2>3. ASSUME NEW k \in 0 .. MaxHandles - 1, ReadVersion(k)  PROVE cached'[j] = cached[j]
    BY <2>3, <1>1 DEF ReadVersion
  <2>4. ASSUME NEW k \in 0 .. MaxHandles - 1, NEW h, NEW name, Enter(h, name, k)
        PROVE  cached'[j] = cached[j]
    BY <2>4, <1>1 DEF Enter
  <2> QED  BY <1>4, <2>1, <2>2, <2>3, <2>4 DEF Caller
<1>5. CASE Step
  <2>1. CASE \/ LookupRefused \/ ProfilesRefused \/ ListProfiles \/ Return
             \/ \E u \in todo : ProfileRefused(u) \/ UserRefused(u)
    BY <2>1 DEF LookupRefused, ProfilesRefused, ListProfiles, Return, ProfileRefused,
                UserRefused, handles
  <2>2. CASE \/ ReadLookup \/ ReadImage \/ ProfilesRead \/ FoldersRefused \/ ReadFolder
             \/ EnvironmentRefused \/ ReadTemp
    <3>1. \/ cached' = cached \/ CloseKeys({held[1]}) \/ CloseKeys({held[2]})
          \/ CloseKeys({folders}) \/ CloseKeys({held[1], held[2]})
      BY <2>2 DEF ReadLookup, ReadImage, ProfilesRead, FoldersRefused, ReadFolder,
                  EnvironmentRefused, ReadTemp, handles
    <3> QED  BY <1>2, <3>1
  <2>3. ASSUME NEW k \in 0 .. MaxHandles - 1,
               \/ OpenLookup(k) \/ OpenProfiles(k) \/ OpenFolders(k) \/ OpenEnvironment(k)
               \/ \E u \in todo : OpenProfile(u, k) \/ OpenUser(u, k)
        PROVE  cached'[j] = cached[j]
    <3>1. \E h, name : Opens(h, name, k)
      BY <2>3 DEF OpenLookup, OpenProfiles, OpenFolders, OpenEnvironment, OpenProfile, OpenUser
    <3> QED  BY <1>1, <3>1
  <2> QED  BY <1>5, <2>1, <2>2, <2>3 DEF Step
<1> QED  BY <1>3, <1>4, <1>5 DEF Next

\* Every handle a function is about to use is open, or a hive.
LEMMA InHand ==
  ASSUME HandleInv
  PROVE  /\ HKLM \in DOMAIN cached /\ HKU \in DOMAIN cached
         /\ One(held) => held[1] \in DOMAIN cached
         /\ Two(held) => held[1] \in DOMAIN cached /\ held[2] \in DOMAIN cached
<1>1. Hives \cup ElementsOf(held) \subseteq DOMAIN cached
  BY DEF HandleInv, Handed, Owned
<1> QED  BY <1>1, HeldIs DEF Hives

\* Each handle stays open on the key it was opened for: no key is given out twice.
LEMMA KeyedStep ==
  ASSUME HandleInv, HandleInv', Keyed, [Next]_vars
  PROVE  Keyed'
<1>1. /\ HKLM \in DOMAIN cached' /\ HKU \in DOMAIN cached'
      /\ One(held') => held'[1] \in DOMAIN cached'
      /\ Two(held') => held'[1] \in DOMAIN cached' /\ held'[2] \in DOMAIN cached'
  <2>1. Hives' \cup ElementsOf(held)' \subseteq DOMAIN cached'
    BY DEF HandleInv, Handed, Owned
  <2>2. /\ One(held') => ElementsOf(held') = {held'[1]}
        /\ Two(held') => ElementsOf(held') = {held'[1], held'[2]}
    BY HeldElements DEF One, Two
  <2> QED  BY <2>1, <2>2 DEF Hives, HKLM, HKU, ElementsOf
<1>2. \A j : j \in DOMAIN cached /\ j \in DOMAIN cached' => cached'[j] = cached[j]
  BY PathsKept
<1>3. cached'[HKLM] = <<"HKLM">> /\ cached'[HKU] = <<"HKU">>
  BY <1>1, <1>2, InHand DEF Keyed
<1>4. DOMAIN Lookup = {"root", "files", "data"}
  BY LookupFacts
<1>5. \A a, b : One(<<a>>) /\ Two(<<a, b>>) /\ <<a>>[1] = a /\ <<a, b>>[1] = a /\ <<a, b>>[2] = b
  BY DEF One, Two
<1>6. CASE Call
  BY <1>3, <1>4, <1>6 DEF Call, Keyed, HandleInv, Control
<1>7. CASE Caller
  BY <1>3, <1>4, <1>7 DEF Caller, callVars, Keyed
<1>8. CASE Written \/ UNCHANGED vars
  <2>1. UNCHANGED <<cached, at, held, left, user>>
    BY <1>8 DEF Written, Change, vars, callVars, regVars, handles
  <2> QED  BY <1>3, <2>1 DEF Keyed
<1>9. CASE Step
  <2>1. CASE \/ LookupRefused \/ ProfilesRefused \/ ProfilesRead \/ FoldersRefused
             \/ EnvironmentRefused \/ Return \/ \E u \in todo : UserRefused(u)
    <3>1. /\ at' \in {"idle", "users"} \/ at' \in DOMAIN Lookup \/ at' = "profiles"
          /\ at' \in DOMAIN Lookup => left' = <<>>
      <4>1. CASE LookupRefused
        <5>1. left = <<>>
          BY <4>1, LookupFacts DEF LookupRefused, HandleInv, Control, One
        <5> QED  BY <4>1, <5>1, LookupFacts DEF LookupRefused
      <4>2. CASE ProfilesRefused \/ ProfilesRead \/ Return
        BY <1>4, <4>2 DEF ProfilesRefused, ProfilesRead, Return
      <4>3. CASE FoldersRefused \/ EnvironmentRefused \/ \E u \in todo : UserRefused(u)
        BY <1>4, <4>3 DEF FoldersRefused, EnvironmentRefused, UserRefused, Insert
      <4> QED  BY <2>1, <4>1, <4>2, <4>3
    <3> QED  BY <1>3, <1>4, <3>1 DEF Keyed
  <2>2. CASE ListProfiles \/ \E u \in todo : ProfileRefused(u)
    <3>1. UNCHANGED <<cached, held, user>> /\ at' = "each" /\ at \in {"list", "each"}
      BY <2>2 DEF ListProfiles, ProfileRefused, handles
    <3> QED  BY <1>3, <1>4, <3>1 DEF Keyed
  <2>3. CASE ReadLookup
    <3>1. CASE left' # <<>>
      BY <1>3, <1>4, <2>3, <3>1, LookupFacts DEF ReadLookup, handles, Keyed, HandleInv, Control
    <3>2. CASE left' = <<>>
      BY <1>3, <1>4, <2>3, <3>2, LookupFacts DEF ReadLookup, Keyed
    <3> QED  BY <3>1, <3>2
  <2>4. CASE ReadImage
    <3>1. Two(held) /\ held' = <<held[1]>> /\ at = "image" /\ at' = "each"
      BY <2>4 DEF ReadImage, HandleInv, Control
    <3>2. One(held') /\ held'[1] = held[1] /\ held[1] \in DOMAIN cached
      BY <1>5, <3>1, InHand
    <3> QED  BY <1>1, <1>2, <1>3, <1>4, <3>1, <3>2 DEF Keyed
  <2>5. CASE ReadFolder
    <3>1. CASE left' # <<>>
      BY <1>3, <1>4, <2>5, <3>1 DEF ReadFolder, handles, Keyed, HandleInv, Control
    <3>2. CASE left' = <<>>
      <4>1. Two(held) /\ held' = <<held[1]>> /\ at = "folders" /\ at' = "environment"
            /\ user' = user
        BY <2>5, <3>2 DEF ReadFolder, HandleInv, Control
      <4>2. One(held') /\ held'[1] = held[1] /\ held[1] \in DOMAIN cached
        BY <1>5, <4>1, InHand
      <4> QED  BY <1>1, <1>2, <1>3, <1>4, <4>1, <4>2 DEF Keyed
    <3> QED  BY <3>1, <3>2
  <2>6. CASE ReadTemp
    <3>1. CASE left' # <<>>
      BY <1>3, <1>4, <2>6, <3>1 DEF ReadTemp, handles, Keyed
    <3>2. CASE left' = <<>>
      BY <1>3, <1>4, <2>6, <3>2 DEF ReadTemp, Insert, Keyed
    <3> QED  BY <3>1, <3>2
  <2>7. ASSUME NEW k \in 0 .. MaxHandles - 1,
               \/ OpenLookup(k) \/ OpenProfiles(k) \/ OpenFolders(k) \/ OpenEnvironment(k)
               \/ \E u \in todo : OpenProfile(u, k) \/ OpenUser(u, k)
        PROVE  Keyed'
    <3>1. CASE OpenLookup(k)
      <4>1. held' = <<k>> /\ cached'[k] = cached[HKLM] \o Lookup[at].key /\ at' = at
        BY <3>1 DEF OpenLookup, Opens
      <4> QED  BY <1>3, <1>4, <1>5, <3>1, <4>1 DEF OpenLookup, Keyed
    <3>2. CASE OpenProfiles(k)
      <4>1. held' = <<k>> /\ cached'[k] = cached[HKLM] \o ProfileList /\ at' = "list"
        BY <3>2 DEF OpenProfiles, Opens
      <4> QED  BY <1>3, <1>4, <1>5, <4>1 DEF Keyed
    <3>3. CASE OpenFolders(k)
      <4>1. /\ held' = <<held[1], k>> /\ at = "folders" /\ at' = "folders" /\ user' = user
            /\ cached'[k] = cached[held[1]] \o <<"UserShellFolders">> /\ One(held)
        BY <3>3 DEF OpenFolders, Opens, HandleInv, Control
      <4>2. Two(held') /\ held'[1] = held[1] /\ held'[2] = k /\ held[1] \in DOMAIN cached
        BY <1>5, <4>1, InHand
      <4>3. cached'[held[1]] = cached[held[1]]
        BY <1>1, <1>2, <4>2
      <4> QED  BY <1>3, <1>4, <4>1, <4>2, <4>3 DEF Keyed
    <3>4. CASE OpenEnvironment(k)
      <4>1. /\ held' = <<held[1], k>> /\ at = "environment" /\ at' = "environment"
            /\ user' = user /\ One(held)
        BY <3>4 DEF OpenEnvironment, HandleInv, Control
      <4>2. Two(held') /\ held'[1] = held[1] /\ held[1] \in DOMAIN cached
        BY <1>5, <4>1, InHand
      <4>3. cached'[held[1]] = cached[held[1]]
        BY <1>1, <1>2, <4>2
      <4> QED  BY <1>3, <1>4, <4>1, <4>2, <4>3 DEF Keyed
    <3>5. ASSUME NEW u \in todo, OpenProfile(u, k)  PROVE Keyed'
      <4>1. /\ held' = <<held[1], k>> /\ at = "each" /\ at' = "image" /\ user' = u
            /\ cached'[k] = cached[held[1]] \o <<u>> /\ One(held)
        BY <3>5 DEF OpenProfile, Opens, HandleInv, Control
      <4>2. Two(held') /\ held'[1] = held[1] /\ held'[2] = k /\ held[1] \in DOMAIN cached
        BY <1>5, <4>1, InHand
      <4>3. cached'[held[1]] = cached[held[1]]
        BY <1>1, <1>2, <4>2
      <4> QED  BY <1>3, <1>4, <4>1, <4>2, <4>3 DEF Keyed
    <3>6. ASSUME NEW u \in todo, OpenUser(u, k)  PROVE Keyed'
      <4>1. /\ held' = <<k>> /\ at' = "folders" /\ user' = u /\ left' = <<>>
            /\ cached'[k] = cached[HKU] \o <<u>>
        BY <3>6 DEF OpenUser, Opens, HandleInv, Control
      <4> QED  BY <1>3, <1>4, <1>5, <4>1 DEF Keyed
    <3> QED  BY <2>7, <3>1, <3>2, <3>3, <3>4, <3>5, <3>6
  <2> QED  BY <1>9, <2>1, <2>2, <2>3, <2>4, <2>5, <2>6, <2>7 DEF Step
<1> QED  BY <1>6, <1>7, <1>8, <1>9 DEF Next

-----------------------------------------------------------------------------
\* A user whose profile stands still is on the way into the map: still to be
\* seen, in hand, or there; the list of profiles first, then the environment.
Named(u) == u \in DOMAIN profiles /\ profiles[u] = SteadyHome(u)
Entered(u) == u \in DOMAIN env /\ env[u]["USERPROFILE"] = SteadyHome(u)

Standing ==
  /\ at \in {"folders", "environment"} => left \in Seq(DOMAIN VariableOf)
  /\ "USERPROFILE" \notin DOMAIN mine
  /\ at # "idle" => \A u \in DOMAIN steady : u \in User /\ steady[u] = Image(reg, u)

Coming(u) ==
  /\ at = "each" => u \in todo \/ Named(u)
  /\ at = "image" => u \in todo \/ u = user \/ Named(u)
  /\ at = "users" => Named(u) /\ (u \in todo \/ Entered(u))
  /\ at \in {"folders", "environment"} =>
       Named(u) /\ (u \in todo \/ u = user \/ Entered(u))
  /\ Done => Entered(u)
OnTheWay == \A u \in DOMAIN steady : SteadyHome(u) # <<>> => Coming(u)

SteadyInv == HandleInv /\ Keyed /\ Standing /\ OnTheWay

(* The home a user's map gives is the one it was made for.                 *)
LEMMA VariablesHome ==
  ASSUME NEW home, NEW all, NEW own, "USERPROFILE" \notin DOMAIN own
  PROVE  Variables(home, all, own)["USERPROFILE"] = home
<1> DEFINE root == all["SystemRoot"]
           common == [USERPROFILE |-> home, SystemRoot |-> root, windir |-> root,
                      SystemDrive |-> <<IF root = <<>> THEN Drive ELSE root[1]>>,
                      ProgramFiles |-> all["ProgrammFilesDir"],
                      ProgramData |-> all["CommonAppData"],
                      ProgramW6432 |-> all["ProgramW6432Dir"]]
           both == Set(common, "ProgramFiles_x86", all["ProgramFilesDir_x86"])
           more == IF own = None THEN None
                   ELSE [n \in DOMAIN own \cup {"HOMEDRIVE", "HOMEPATH", "USERNAME"} |->
                           IF n \in DOMAIN own THEN own[n] ELSE HomeOf(home)[n]]
<1>1. "USERPROFILE" \in DOMAIN common /\ common["USERPROFILE"] = home
  OBVIOUS
<1>2. "USERPROFILE" \notin DOMAIN more
  BY DEF None
<1>3. Variables(home, all, own)
        = [n \in DOMAIN both \cup DOMAIN more |-> IF n \in DOMAIN more THEN more[n] ELSE both[n]]
  BY Zenon DEF Variables
<1> HIDE DEF common, more
<1>4. "USERPROFILE" \in DOMAIN both /\ both["USERPROFILE"] = home
  BY <1>1 DEF Set
<1> HIDE DEF both
<1> QED  BY <1>2, <1>3, <1>4

(* What is inserted for u is found there with the home it was made for.    *)
LEMMA InsertEnters ==
  ASSUME NEW u, NEW own, Insert(u, own), "USERPROFILE" \notin DOMAIN own
  PROVE  /\ u \in DOMAIN env' /\ env'[u]["USERPROFILE"] = profiles[u]
         /\ \A v \in DOMAIN env : v \in DOMAIN env' /\ (v # u => env'[v] = env[v])
<1>1. env' = Set(env, u, Variables(profiles[u], found, own))
  BY DEF Insert
<1>2. Variables(profiles[u], found, own)["USERPROFILE"] = profiles[u]
  BY VariablesHome
<1> QED  BY <1>1, <1>2 DEF Set

\* A value of a user's folders is never named USERPROFILE, and one is left fewer.
LEMMA OwnTyped ==
  ASSUME NEW h, left # <<>>, left \in Seq(DOMAIN VariableOf), "USERPROFILE" \notin DOMAIN mine
  PROVE  "USERPROFILE" \notin DOMAIN Own(h) /\ Tail(left) \in Seq(DOMAIN VariableOf)
<1>1. left[1] \in DOMAIN VariableOf /\ Tail(left) \in Seq(DOMAIN VariableOf)
  OBVIOUS
<1>2. \A n \in DOMAIN VariableOf : VariableOf[n] # "USERPROFILE"
  BY DEF VariableOf
<1>3. DOMAIN Own(h) = DOMAIN mine \cup {VariableOf[left[1]]}
  BY DEF Own, Set
<1> QED  BY <1>1, <1>2, <1>3

\* The values read for a user all name a variable.
LEMMA NamesTyped ==
  FolderValues \in Seq(DOMAIN VariableOf) /\ TempValues \in Seq(DOMAIN VariableOf)
  BY DEF FolderValues, TempValues, VariableOf
-----------------------------------------------------------------------------
\* A steady user's profile is in the registry as it was when the reading began.
LEMMA StandingStep ==
  ASSUME HandleInv, Keyed, Standing, [Next]_vars
  PROVE  Standing'
<1>1. CASE Call
  BY <1>1 DEF Call, Standing, None, regVars
<1>2. CASE Caller
  BY <1>2 DEF Caller, callVars, history, Standing
<1>3. CASE Written
  <2>1. UNCHANGED <<at, left, mine>>
    BY <1>3 DEF Written, callVars
  <2>2. CASE at = "idle"
    BY <2>1, <2>2 DEF Standing
  <2>3. CASE at # "idle"
    <3>1. steady' = Without(steady, {u \in User : Image(reg', u) # Image(reg, u)})
      BY <1>3, <2>3 DEF Written
    <3>2. \A u \in DOMAIN steady' : u \in User /\ steady'[u] = Image(reg', u)
      BY <2>3, <3>1 DEF Standing, Without
    <3> QED  BY <2>1, <3>2 DEF Standing, Image
  <2> QED  BY <2>2, <2>3
<1>4. CASE UNCHANGED vars
  BY <1>4 DEF vars, regVars, callVars, history, Standing, Image
<1>5. CASE Step
  <2>1. UNCHANGED <<reg, steady>> /\ at # "idle"
    BY <1>5, LookupFacts DEF Step, LookupRefused, ReadLookup, ProfilesRefused, ListProfiles,
       ReadImage, ProfilesRead, FoldersRefused, ReadFolder, EnvironmentRefused, ReadTemp, Return,
       ProfileRefused, UserRefused, OpenLookup, OpenProfiles, OpenFolders, OpenEnvironment,
       OpenProfile, OpenUser, kept, history
  <2>2. \A u \in DOMAIN steady' : u \in User /\ steady'[u] = Image(reg', u)
    <3>1. reg' = reg /\ steady' = steady
      BY <2>1
    <3>2. \A u \in DOMAIN steady : u \in User /\ steady[u] = Image(reg, u)
      BY <2>1 DEF Standing
    <3> QED  BY <3>1, <3>2
  <2>3. /\ at' \in {"folders", "environment"} => left' \in Seq(DOMAIN VariableOf)
        /\ "USERPROFILE" \notin DOMAIN mine'
    <3>1. CASE \/ LookupRefused \/ ReadLookup \/ ProfilesRefused \/ ListProfiles \/ ReadImage
               \/ ProfilesRead \/ Return \/ \E u \in todo : ProfileRefused(u)
      <4>1. mine' = mine /\ at' \notin {"folders", "environment"}
        BY <3>1, LookupFacts DEF LookupRefused, ReadLookup, ProfilesRefused, ListProfiles,
           ReadImage, ProfilesRead, Return, ProfileRefused
      <4> QED  BY <4>1 DEF Standing
    <3>2. CASE FoldersRefused \/ EnvironmentRefused \/ \E u \in todo : UserRefused(u)
      <4>1. mine' = None /\ at' = "users"
        BY <3>2 DEF FoldersRefused, EnvironmentRefused, UserRefused, Insert
      <4> QED  BY <4>1 DEF None
    <3>3. CASE ReadFolder
      BY <3>3, OwnTyped DEF ReadFolder, Standing
    <3>4. CASE ReadTemp
      <4>1. CASE left' # <<>>
        BY <3>4, <4>1, OwnTyped DEF ReadTemp, Standing
      <4>2. CASE left' = <<>>
        BY <3>4, <4>2 DEF ReadTemp, Insert, None
      <4> QED  BY <4>1, <4>2
    <3>5. ASSUME NEW k \in 0 .. MaxHandles - 1,
                 \/ OpenLookup(k) \/ OpenProfiles(k) \/ \E u \in todo : OpenProfile(u, k)
          PROVE  mine' = mine /\ at' \notin {"folders", "environment"}
      BY <3>5, LookupFacts DEF OpenLookup, OpenProfiles, OpenProfile
    <3>6. ASSUME NEW k \in 0 .. MaxHandles - 1,
                 OpenFolders(k) \/ OpenEnvironment(k) \/ \E u \in todo : OpenUser(u, k)
          PROVE  mine' = mine /\ left' \in Seq(DOMAIN VariableOf)
      <4>1. CASE OpenFolders(k) \/ OpenEnvironment(k)
        BY <4>1, NamesTyped DEF OpenFolders, OpenEnvironment
      <4>2. CASE \E u \in todo : OpenUser(u, k)
        <5>1. left' = <<>> /\ mine' = mine
          BY <4>2 DEF OpenUser, HandleInv, Control
        <5> QED  BY <5>1
      <4> QED  BY <3>6, <4>1, <4>2
    <3> QED  BY <1>5, <3>1, <3>2, <3>3, <3>4, <3>5, <3>6 DEF Step, Standing
  <2> QED  BY <2>2, <2>3 DEF Standing
<1> QED  BY <1>1, <1>2, <1>3, <1>4, <1>5 DEF Next

(* What a handle of a profile reads is its image.                          *)
LEMMA ImageRead ==
  ASSUME NEW h \in DOMAIN cached, NEW u, cached[h] = <<"HKLM">> \o ProfileList \o <<u>>
  PROVE  text_or(read_value(h, "ProfileImagePath"), <<>>) = Image(reg, u)
<1> DEFINE key == <<"HKLM">> \o ProfileList \o <<u>>
<1> HIDE DEF key
<1>1. cached[h] = key
  BY DEF key
<1>2. text_or(Missing, <<>>) = <<>>
  BY DEF text_or, Missing
<1>3. Image(reg, u) = IF key \in DOMAIN reg /\ "ProfileImagePath" \in DOMAIN reg[key]
                      THEN text_or(reg[key]["ProfileImagePath"], <<>>) ELSE <<>>
  BY DEF Image, key
<1> QED  BY <1>1, <1>2, <1>3 DEF read_value

(* A user with a home has a key below the list of profiles.                *)
LEMMA HomeFound ==
  ASSUME NEW h \in DOMAIN cached, cached[h] = <<"HKLM">> \o ProfileList, NEW u, NEW root,
         Replace(RootPart, Image(reg, u), root) # <<>>
  PROVE  Found(h, <<u>>)
<1>1. Image(reg, u) # <<>>
  BY DEF Replace
<1>2. <<"HKLM">> \o ProfileList \o <<u>> \in DOMAIN reg
  BY <1>1 DEF Image
<1> QED  BY <1>2 DEF Found

\* A user whose home is listed stays ahead of the reader, or was given a profile.
LEMMA OnTheWayStep ==
  ASSUME HandleInv, Keyed, Standing, OnTheWay, [Next]_vars
  PROVE  OnTheWay'
<1> SUFFICES ASSUME NEW u \in DOMAIN steady', SteadyHome(u)' # <<>>  PROVE Coming(u)'
  BY DEF OnTheWay
<1>1. CASE Call
  BY <1>1 DEF Call, Coming, Done
<1>2. CASE Caller \/ Written \/ UNCHANGED vars
  <2>1. UNCHANGED <<at, todo, user, profiles, found, env, result>>
    BY <1>2 DEF Caller, Written, vars, callVars
  <2>2. u \in DOMAIN steady /\ steady'[u] = steady[u]
    BY <1>2 DEF Caller, Written, Without, vars, history
  <2>3. SteadyHome(u)' = SteadyHome(u)
    BY <2>1, <2>2 DEF SteadyHome
  <2> QED  BY <2>1, <2>2, <2>3 DEF OnTheWay, Coming, Named, Entered, Done
<1>3. CASE Step
  <2>1. CASE LookupRefused \/ ReadLookup \/ \E k \in 0 .. MaxHandles - 1 : OpenLookup(k)
    <3>1. at' \in {"root", "files", "data", "profiles"}
      BY <2>1, LookupFacts DEF LookupRefused, ReadLookup, OpenLookup
    <3> QED  BY <3>1 DEF Coming, Done
  <2>2. CASE ProfilesRefused \/ \E k \in 0 .. MaxHandles - 1 : OpenProfiles(k)
    BY <2>2 DEF ProfilesRefused, OpenProfiles, Coming, Done
  <2> DEFINE Later == \/ ListProfiles \/ ReadImage \/ ProfilesRead
                      \/ FoldersRefused \/ ReadFolder \/ EnvironmentRefused \/ ReadTemp
                      \/ Return
                      \/ \E v \in todo : ProfileRefused(v) \/ UserRefused(v)
                      \/ \E k \in 0 .. MaxHandles - 1 :
                           \/ OpenFolders(k) \/ OpenEnvironment(k)
                           \/ \E v \in todo : OpenProfile(v, k) \/ OpenUser(v, k)
  <2>3. CASE Later
    <3>1. steady' = steady /\ found' = found /\ at # "idle"
      BY <2>3 DEF ListProfiles, ReadImage, ProfilesRead, FoldersRefused, ReadFolder,
         EnvironmentRefused, ReadTemp, Return, ProfileRefused, UserRefused, OpenFolders,
         OpenEnvironment, OpenProfile, OpenUser, kept, history
    <3>2. SteadyHome(u)' = SteadyHome(u) /\ SteadyHome(u) # <<>>
      BY <3>1 DEF SteadyHome
    <3>3. u \in DOMAIN steady /\ u \in User /\ steady[u] = Image(reg, u) /\ Coming(u)
      BY <3>1, <3>2 DEF Standing, OnTheWay
    <3>4. ASSUME One(held) \/ Two(held), at \in {"list", "each", "image"}
          PROVE  Found(held[1], <<u>>)
      BY <3>2, <3>3, <3>4, InHand, HomeFound DEF Keyed, SteadyHome
    <3>5. ASSUME NEW v, NEW own, Insert(v, own), "USERPROFILE" \notin DOMAIN own,
                 Named(u), u = v \/ Entered(u)
          PROVE  Entered(u)'
      BY <3>2, <3>5, InsertEnters DEF Named, Entered
    <3>6. profiles' = profiles => (Named(u)' <=> Named(u))
      BY <3>2 DEF Named
    <3>7. env' = env => (Entered(u)' <=> Entered(u))
      BY <3>2 DEF Entered
    <3>8. CASE ListProfiles
      <4>1. at' = "each" /\ u \in todo'
        BY <3>3, <3>4, <3>8 DEF ListProfiles, enumerate_keys, HandleInv, Control
      <4> QED  BY <4>1 DEF Coming, Done
    <3>9. ASSUME NEW v \in todo, ProfileRefused(v)  PROVE Coming(u)'
      <4>1. at = "each" /\ at' = at /\ profiles' = profiles /\ todo' = todo \ {v} /\ u # v
        BY <3>4, <3>9 DEF ProfileRefused, HandleInv, Control
      <4> QED  BY <3>3, <3>6, <4>1 DEF Coming, Done
    <3>10. ASSUME NEW v \in todo, NEW k \in 0 .. MaxHandles - 1, OpenProfile(v, k)
           PROVE  Coming(u)'
      <4>1. at = "each" /\ at' = "image" /\ profiles' = profiles /\ todo' = todo \ {v}
            /\ user' = v
        BY <3>10 DEF OpenProfile
      <4> QED  BY <3>3, <3>6, <4>1 DEF Coming, Done
    <3>11. CASE ReadImage
      <4> DEFINE path == text_or(read_value(held[2], "ProfileImagePath"), <<>>)
                 home == Replace(RootPart, path, found["SystemRoot"])
      <4>1. at = "image" /\ at' = "each" /\ todo' = todo /\ user' = user /\ Two(held)
        BY <3>11 DEF ReadImage, HandleInv, Control
      <4>2. profiles' = IF home = <<>> THEN profiles
                        ELSE IF user = System THEN Set(Set(profiles, Nobody, home), user, home)
                        ELSE Set(profiles, user, home)
        BY <3>11 DEF ReadImage
      <4>3. path = Image(reg, user)
        BY <4>1, InHand, ImageRead DEF Keyed
      <4>4. u = user => home = SteadyHome(u)
        BY <3>3, <4>3 DEF SteadyHome
      <4>5. u # Nobody
        BY <3>3, EnvVarsAssumption
      <4> HIDE DEF home
      <4>6. u \in todo \/ Named(u)'
        <5>1. CASE u = user
          BY <3>2, <4>2, <4>4, <5>1 DEF Named, Set
        <5>2. CASE u # user
          <6>1. u \in todo \/ Named(u)
            BY <3>3, <4>1, <5>2 DEF Coming
          <6>2. u \in DOMAIN profiles => u \in DOMAIN profiles' /\ profiles'[u] = profiles[u]
            BY <4>2, <4>5, <5>2 DEF Set
          <6> QED  BY <3>2, <6>1, <6>2 DEF Named
        <5> QED  BY <5>1, <5>2
      <4> QED  BY <4>1, <4>6 DEF Coming, Done
    <3>12. CASE ProfilesRead
      <4>1. at = "each" /\ at' = "users" /\ todo = {} /\ todo' = DOMAIN profiles
            /\ profiles' = profiles
        BY <3>12 DEF ProfilesRead
      <4> QED  BY <3>3, <3>6, <4>1 DEF Coming, Done, Named
    <3>13. ASSUME NEW v \in todo, NEW k \in 0 .. MaxHandles - 1, OpenUser(v, k)
           PROVE  Coming(u)'
      <4>1. at = "users" /\ at' = "folders" /\ profiles' = profiles /\ env' = env
            /\ todo' = todo \ {v} /\ user' = v
        BY <3>13 DEF OpenUser
      <4> QED  BY <3>3, <3>6, <3>7, <4>1 DEF Coming, Done
    <3>14. ASSUME NEW v \in todo, UserRefused(v)  PROVE Coming(u)'
      <4>1. at = "users" /\ at' = "users" /\ profiles' = profiles /\ todo' = todo \ {v}
            /\ Insert(v, None) /\ "USERPROFILE" \notin DOMAIN None
        BY <3>14 DEF UserRefused, Insert, None
      <4>2. Named(u) /\ (u \in todo \/ Entered(u))
        BY <3>3, <4>1 DEF Coming
      <4>3. u \in todo' \/ Entered(u)'
        BY <3>5, <4>1, <4>2
      <4> QED  BY <3>6, <4>1, <4>2, <4>3 DEF Coming, Done
    <3>15. ASSUME NEW own, Insert(user, own), "USERPROFILE" \notin DOMAIN own,
                  at \in {"folders", "environment"}, UNCHANGED <<profiles, todo>>
           PROVE  Coming(u)'
      <4>1. Named(u) /\ (u \in todo \/ u = user \/ Entered(u))
        BY <3>3, <3>15 DEF Coming
      <4>2. u \in todo \/ Entered(u)'
        BY <3>5, <3>15, <4>1
      <4>3. at' = "users"
        BY <3>15 DEF Insert
      <4> QED  BY <3>6, <3>15, <4>1, <4>2, <4>3 DEF Coming, Done
    <3>16. CASE FoldersRefused
      BY <3>15, <3>16 DEF FoldersRefused, None
    <3>17. CASE EnvironmentRefused
      <4> DEFINE temp == profiles[user] \o Below["TMP"]
                 own == Set(Set(mine, "TMP", temp), "TEMP", temp)
      <4>1. Insert(user, own) /\ at = "environment" /\ UNCHANGED <<profiles, todo>>
        BY <3>17 DEF EnvironmentRefused
      <4>2. "USERPROFILE" \notin DOMAIN own
        BY DEF Standing, Set
      <4> HIDE DEF own
      <4> QED  BY <3>15, <4>1, <4>2
    <3>18. ASSUME at \in {"folders", "environment"}, at' \in {"folders", "environment"},
                  UNCHANGED <<profiles, todo, user, env>>
           PROVE  Coming(u)'
      BY <3>3, <3>6, <3>7, <3>18 DEF Coming, Done
    <3>19. CASE ReadFolder \/ \E k \in 0 .. MaxHandles - 1 : OpenFolders(k) \/ OpenEnvironment(k)
      BY <3>18, <3>19 DEF ReadFolder, OpenFolders, OpenEnvironment
    <3>20. CASE ReadTemp
      <4>1. CASE left' # <<>>
        BY <3>18, <3>20, <4>1 DEF ReadTemp
      <4>2. CASE left' = <<>>
        <5>1. "USERPROFILE" \notin DOMAIN Own(folders)
          BY <3>20, OwnTyped DEF ReadTemp, Standing
        <5> QED  BY <3>15, <3>20, <4>2, <5>1 DEF ReadTemp
      <4> QED  BY <4>1, <4>2
    <3>21. CASE Return
      <4>1. at = "users" /\ todo = {} /\ at' = "idle" /\ env' = env
        BY <3>21 DEF Return
      <4> QED  BY <3>3, <3>7, <4>1 DEF Coming
    <3> QED
      BY <2>3, <3>8, <3>9, <3>10, <3>11, <3>12, <3>13, <3>14, <3>16, <3>17, <3>19, <3>20, <3>21
  <2> QED  BY <1>3, <2>1, <2>2, <2>3 DEF Step
<1> QED  BY <1>1, <1>2, <1>3 DEF Next

(* On a registry that changes at any time, a user who had one profile all  *)
(* along is in the map, with its home, whichever other keys come and go    *)
(* between the enumeration and the reads (env_vars.rs:34-93).              *)
THEOREM SteadyAlwaysFound == Spec => []SteadyProfilesFound
<1>1. Init => SteadyInv
  <2> SUFFICES ASSUME Init  PROVE SteadyInv
    OBVIOUS
  <2>1. /\ at = "idle" /\ mine = None /\ steady = None /\ ~Done
        /\ cached[HKLM] = <<"HKLM">> /\ cached[HKU] = <<"HKU">>
    BY DEF Init, RegInit, Done, Hives, HKLM, HKU
  <2>2. Keyed /\ Standing /\ OnTheWay
    BY <2>1, LookupFacts DEF Keyed, Standing, OnTheWay, None
  <2> QED  BY <2>2, InitInv DEF SteadyInv
<1>2. SteadyInv /\ [Next]_vars => SteadyInv'
  BY StepInv, KeyedStep, StandingStep, OnTheWayStep DEF SteadyInv
<1>3. SteadyInv => SteadyProfilesFound
  BY DEF SteadyInv, OnTheWay, Coming, Entered, SteadyProfilesFound
<1> QED  BY <1>1, <1>2, <1>3, PTL DEF Spec
-----------------------------------------------------------------------------
\* On a registry at rest: what was read for everybody is what it says, and
\* nothing was skipped.
NamesOf(a) == ElementsOf(Lookup[a].names)
Looked ==
  /\ \A n \in DOMAIN found : n \in DOMAIN Usual => found[n] = Everybody[n]
  /\ at \notin {"idle", "root"} => NamesOf("root") \subseteq DOMAIN found
  /\ at \notin {"idle", "root", "files"} => NamesOf("files") \subseteq DOMAIN found
  /\ at \notin {"idle", "root", "files", "data"} => NamesOf("data") \subseteq DOMAIN found
  /\ at \in DOMAIN Lookup => left \in Seq(NamesOf(at))
  /\ at \in DOMAIN Lookup /\ left # <<>> => NamesOf(at) \subseteq DOMAIN found \cup ElementsOf(left)

\* Keys that are put together of one name at a time.
LEMMA Joined ==
  ASSUME NEW a, NEW b, NEW c
  PROVE  <<a>> \o <<b>> = <<a, b>> /\ <<a>> \o <<b>> \o <<c>> = <<a, b, c>>
<1> DEFINE S == {a, b, c}
<1>1. a \in S /\ b \in S /\ c \in S
  OBVIOUS
<1> HIDE DEF S
<1>2. <<a>> \o <<b>> = <<a, b>> /\ <<a, b>> \o <<c>> = <<a, b, c>>
  BY <1>1, JoinedTwo, JoinedThree
<1> QED  BY <1>2

\* The values read in each key, in the order they are read.
LEMMA LookupNames ==
  /\ Lookup["root"].next = "files" /\ Lookup["files"].next = "data"
  /\ Lookup["data"].next = "profiles"
  /\ NamesOf("root") = {"SystemRoot"} /\ NamesOf("data") = {"CommonAppData"}
  /\ NamesOf("files") = {"ProgrammFilesDir", "ProgramFilesDir_x86", "ProgramW6432Dir"}
  /\ \A a \in DOMAIN Lookup : Lookup[a].names \in Seq(NamesOf(a))
<1>1. /\ Lookup["root"].names = <<"SystemRoot">> /\ Lookup["root"].next = "files"
      /\ Lookup["data"].names = <<"CommonAppData">> /\ Lookup["data"].next = "profiles"
      /\ Lookup["files"].names = <<"ProgrammFilesDir", "ProgramFilesDir_x86",
                                  "ProgramW6432Dir">>
      /\ Lookup["files"].next = "data"
  BY Zenon DEF Lookup
<1>2. /\ NamesOf("root") = {"SystemRoot"} /\ NamesOf("data") = {"CommonAppData"}
      /\ NamesOf("files") = {"ProgrammFilesDir", "ProgramFilesDir_x86", "ProgramW6432Dir"}
  BY <1>1 DEF NamesOf, ElementsOf
<1>3. ASSUME NEW a \in {"root", "files", "data"}  PROVE Lookup[a].names \in Seq(NamesOf(a))
  <2>1. ASSUME NEW S, NEW x \in S, NEW y \in S, NEW z \in S
        PROVE  <<x>> \in Seq(S) /\ <<x, y, z>> \in Seq(S)
    OBVIOUS
  <2>2. "SystemRoot" \in NamesOf("root") /\ "CommonAppData" \in NamesOf("data")
        /\ "ProgrammFilesDir" \in NamesOf("files") /\ "ProgramFilesDir_x86" \in NamesOf("files")
        /\ "ProgramW6432Dir" \in NamesOf("files")
    BY <1>2
  <2>3. Lookup["root"].names \in Seq(NamesOf("root"))
    BY <1>1, <2>1, <2>2
  <2>4. Lookup["data"].names \in Seq(NamesOf("data"))
    BY <1>1, <2>1, <2>2
  <2>5. Lookup["files"].names \in Seq(NamesOf("files"))
    BY <1>1, <2>1, <2>2
  <2> QED  BY <2>3, <2>4, <2>5
<1> QED  BY <1>1, <1>2, <1>3, LookupFacts

\* Every value is read in the key it is documented under.
LEMMA KeyOfName ==
  ASSUME NEW a \in DOMAIN Lookup, NEW n \in NamesOf(a)
  PROVE  n \in DOMAIN Usual /\ <<"HKLM">> \o Lookup[a].key = <<"HKLM", KeyOf(n)>>
<1>1. DOMAIN Usual = {"SystemRoot", "ProgrammFilesDir", "ProgramFilesDir_x86",
                      "ProgramW6432Dir", "CommonAppData"}
  BY Zenon DEF Usual
<1>2. /\ Lookup["root"].key = <<"NT">> /\ Lookup["files"].key = <<"Windows">>
      /\ Lookup["data"].key = <<"ShellFolders">>
  BY Zenon DEF Lookup
<1>3. ASSUME NEW x  PROVE <<"HKLM">> \o <<x>> = <<"HKLM", x>>
  BY Joined
<1>4. a \in {"root", "files", "data"}
  BY LookupFacts
<1>5. CASE a = "root"
  BY <1>1, <1>2, <1>3, <1>5, LookupNames DEF KeyOf
<1>6. CASE a = "files"
  BY <1>1, <1>2, <1>3, <1>6, LookupNames DEF KeyOf
<1>7. CASE a = "data"
  BY <1>1, <1>2, <1>3, <1>7, LookupNames DEF KeyOf
<1> QED  BY <1>4, <1>5, <1>6, <1>7

(* Through a handle of a key, text_or of read_value is what the registry says.*)
LEMMA ReadTells ==
  ASSUME NEW h \in DOMAIN cached, NEW n, NEW default
  PROVE  text_or(read_value(h, n), default) = Value(cached[h], n, default)
<1>1. text_or(Missing, default) = default
  BY DEF text_or, Missing
<1> QED  BY <1>1 DEF read_value, Value

\* What is read of a machine's value is what everybody should get, found or not.
LEMMA MachineRead ==
  ASSUME NEW a \in DOMAIN Lookup, NEW n \in NamesOf(a)
  PROVE  /\ \A h \in DOMAIN cached :
              cached[h] = <<"HKLM">> \o Lookup[a].key =>
                text_or(read_value(h, n), Usual[n]) = Everybody[n]
         /\ HKLM \in DOMAIN cached /\ cached[HKLM] = <<"HKLM">> /\ ~Found(HKLM, Lookup[a].key) =>
              Usual[n] = Everybody[n]
<1>1. n \in DOMAIN Usual /\ <<"HKLM">> \o Lookup[a].key = <<"HKLM", KeyOf(n)>>
  BY KeyOfName
<1>2. Everybody[n] = Value(<<"HKLM">> \o Lookup[a].key, n, Usual[n])
  BY <1>1 DEF Everybody
<1>3. \A h \in DOMAIN cached : text_or(read_value(h, n), Usual[n]) = Value(cached[h], n, Usual[n])
  BY ReadTells
<1>4. <<"HKLM">> \o Lookup[a].key \notin DOMAIN reg => Everybody[n] = Usual[n]
  BY <1>2 DEF Value
<1> QED  BY <1>2, <1>3, <1>4 DEF Found

(* Nothing a step leaves alone tells what the registry says differently.   *)
LEMMA SameRegistry ==
  ASSUME reg' = reg
  PROVE  /\ Everybody' = Everybody /\ Profiled' = Profiled
         /\ \A u : /\ HomeOfUser(u)' = HomeOfUser(u) /\ Expected(u)' = Expected(u)
                   /\ OwnValues(u)' = OwnValues(u)
                   /\ \A k, n : OwnValue(u, k, n)' = OwnValue(u, k, n)
<1>1. Everybody' = Everybody
  BY DEF Everybody, Value
<1>2. \A u : HomeOfUser(u)' = HomeOfUser(u)
  BY <1>1 DEF HomeOfUser, Image
<1>3. \A u, k, n : OwnValue(u, k, n)' = OwnValue(u, k, n)
  BY <1>2 DEF OwnValue, Value
<1>4. \A u : OwnValues(u)' = OwnValues(u)
  BY <1>3 DEF OwnValues, Loaded
<1>5. \A u : Expected(u)' = Expected(u)
  BY <1>1, <1>2, <1>4 DEF Expected
<1>6. Profiled' = Profiled
  BY <1>2 DEF Profiled
<1> QED  BY <1>1, <1>2, <1>3, <1>4, <1>5, <1>6

\* While the machine's keys are read, every variable read so far is as told.
LEMMA LookedStep ==
  ASSUME HandleInv, Keyed, reg' = reg, Looked, Step
  PROVE  Looked'
<1>1. Everybody' = Everybody
  BY SameRegistry
<1>2. at # "idle"
  BY LookupFacts DEF Step, LookupRefused, ReadLookup, ProfilesRefused, ListProfiles,
     ReadImage, ProfilesRead, FoldersRefused, ReadFolder, EnvironmentRefused, ReadTemp, Return,
     ProfileRefused, UserRefused, OpenLookup, OpenProfiles, OpenFolders, OpenEnvironment,
     OpenProfile, OpenUser
<1>3. DOMAIN Lookup = {"root", "files", "data"}
  BY LookupFacts
<1>4. ASSUME at \in DOMAIN Lookup, DOMAIN found \subseteq DOMAIN found',
             \A n \in DOMAIN found' : n \in DOMAIN Usual => found'[n] = Everybody[n],
             \/ /\ at' = at /\ left' \in Seq(NamesOf(at))
                /\ left' # <<>> => NamesOf(at) \subseteq DOMAIN found' \cup ElementsOf(left')
             \/ at' = Lookup[at].next /\ left' = <<>> /\ NamesOf(at) \subseteq DOMAIN found'
      PROVE  Looked'
  <2>1. <<>> \in Seq(NamesOf(at'))
    OBVIOUS
  <2>2. at' # at => left' = <<>> /\ NamesOf(at) \subseteq DOMAIN found'
    BY <1>4
  <2>3. /\ at' \in DOMAIN Lookup => left' \in Seq(NamesOf(at'))
        /\ at' \in DOMAIN Lookup /\ left' # <<>> =>
             NamesOf(at') \subseteq DOMAIN found' \cup ElementsOf(left')
    BY <1>4, <2>1
  <2>4. /\ at' \notin {"idle", "root"} => NamesOf("root") \subseteq DOMAIN found'
        /\ at' \notin {"idle", "root", "files"} => NamesOf("files") \subseteq DOMAIN found'
        /\ at' \notin {"idle", "root", "files", "data"} => NamesOf("data") \subseteq DOMAIN found'
    <3>1. CASE at = "root"
      BY <1>4, <3>1, LookupNames DEF Looked
    <3>2. CASE at = "files"
      BY <1>4, <3>2, LookupNames DEF Looked
    <3>3. CASE at = "data"
      BY <1>4, <3>3, LookupNames DEF Looked
    <3> QED  BY <1>3, <1>4, <3>1, <3>2, <3>3
  <2>5. \A n \in DOMAIN found' : n \in DOMAIN Usual => found'[n] = Everybody'[n]
    BY <1>1, <1>4
  <2>6. NamesOf("root")' = NamesOf("root") /\ NamesOf("files")' = NamesOf("files")
        /\ NamesOf("data")' = NamesOf("data") /\ NamesOf(at)' = NamesOf(at')
        /\ ElementsOf(left)' = ElementsOf(left')
    BY DEF NamesOf, ElementsOf
  <2> QED  BY <2>3, <2>4, <2>5, <2>6 DEF Looked
<1>5. ASSUME at \notin {"root", "files", "data"}, at' \notin {"root", "files", "data"},
             found' = found
      PROVE  Looked'
  <2>1. NamesOf("root")' = NamesOf("root") /\ NamesOf("files")' = NamesOf("files")
        /\ NamesOf("data")' = NamesOf("data")
    BY DEF NamesOf, ElementsOf
  <2> QED  BY <1>1, <1>2, <1>3, <1>5, <2>1 DEF Looked
<1>6. CASE LookupRefused
  <2>1. at \in DOMAIN Lookup /\ at' = Lookup[at].next /\ left = <<>> /\ left' = <<>>
    BY <1>6, LookupFacts DEF LookupRefused, HandleInv, Control, One
  <2>2. found' = [n \in DOMAIN found \cup NamesOf(at) |->
                    IF n \in DOMAIN found THEN found[n] ELSE Usual[n]]
    BY <1>6 DEF LookupRefused, NamesOf, ElementsOf
  <2>3. \A n \in NamesOf(at) : Usual[n] = Everybody[n]
    BY <1>6, <2>1, MachineRead, InHand DEF LookupRefused, Keyed
  <2> QED  BY <1>4, <2>1, <2>2, <2>3 DEF Looked
<1>7. CASE ReadLookup
  <2> DEFINE n == left[1]
  <2>1. at \in DOMAIN Lookup /\ left # <<>> /\ left \in Seq(NamesOf(at)) /\ One(held)
    BY <1>7, LookupFacts DEF ReadLookup, HandleInv, Control, Looked
  <2>2. n \in NamesOf(at) /\ left' = Tail(left) /\ Tail(left) \in Seq(NamesOf(at))
        /\ ElementsOf(left) \subseteq {n} \cup ElementsOf(Tail(left))
    <3>1. n \in NamesOf(at) /\ left' = Tail(left) /\ Tail(left) \in Seq(NamesOf(at))
      BY <1>7, <2>1 DEF ReadLookup
    <3>2. ASSUME NEW j \in DOMAIN left  PROVE left[j] = n \/ left[j] \in ElementsOf(Tail(left))
      <4>1. j = 1 \/ (j - 1 \in DOMAIN Tail(left) /\ Tail(left)[j - 1] = left[j])
        BY <2>1
      <4> QED  BY <4>1 DEF ElementsOf
    <3> QED  BY <3>1, <3>2 DEF ElementsOf
  <2>3. found' = Set(found, n, text_or(read_value(held[1], n), Usual[n]))
    BY <1>7 DEF ReadLookup
  <2>4. text_or(read_value(held[1], n), Usual[n]) = Everybody[n]
    BY <2>1, <2>2, MachineRead, InHand DEF Keyed
  <2>5. NamesOf(at) \subseteq DOMAIN found \cup ElementsOf(left)
    BY <2>1 DEF Looked
  <2> HIDE DEF n
  <2>6. /\ DOMAIN found' = DOMAIN found \cup {n}
        /\ \A m \in DOMAIN found' : m \in DOMAIN Usual => found'[m] = Everybody[m]
    BY <2>3, <2>4 DEF Set, Looked
  <2>7. NamesOf(at) \subseteq DOMAIN found' \cup ElementsOf(left')
    BY <2>2, <2>5, <2>6
  <2>8. CASE left' # <<>>
    BY <1>4, <1>7, <2>1, <2>2, <2>6, <2>7, <2>8 DEF ReadLookup
  <2>9. CASE left' = <<>>
    <3>1. NamesOf(at) \subseteq DOMAIN found'
      BY <2>7, <2>9, HeldElements
    <3> QED  BY <1>4, <1>7, <2>1, <2>6, <2>9, <3>1 DEF ReadLookup
  <2> QED  BY <2>8, <2>9
<1>8. ASSUME NEW k \in 0 .. MaxHandles - 1, OpenLookup(k)  PROVE Looked'
  <2>1. at \in DOMAIN Lookup /\ at' = at /\ left' = Lookup[at].names /\ found' = found
    BY <1>8 DEF OpenLookup
  <2>2. NamesOf(at) = ElementsOf(left')
    BY <2>1 DEF NamesOf
  <2> QED  BY <1>4, <2>1, <2>2, LookupNames DEF Looked
<1>9. CASE \/ ProfilesRefused \/ ListProfiles \/ ReadImage \/ ProfilesRead
           \/ FoldersRefused \/ ReadFolder \/ EnvironmentRefused \/ ReadTemp \/ Return
           \/ \E u \in todo : ProfileRefused(u) \/ UserRefused(u)
  BY <1>5, <1>9 DEF ProfilesRefused, ListProfiles, ReadImage, ProfilesRead, FoldersRefused,
     ReadFolder, EnvironmentRefused, ReadTemp, Return, ProfileRefused, UserRefused, Insert
<1>10. ASSUME NEW k \in 0 .. MaxHandles - 1,
              \/ OpenProfiles(k) \/ OpenFolders(k) \/ OpenEnvironment(k)
              \/ \E u \in todo : OpenProfile(u, k) \/ OpenUser(u, k)
       PROVE  Looked'
  BY <1>5, <1>10 DEF OpenProfiles, OpenFolders, OpenEnvironment, OpenProfile, OpenUser
<1> QED  BY <1>6, <1>7, <1>8, <1>9, <1>10 DEF Step
-----------------------------------------------------------------------------
\* The profiles of the users seen so far, and what is in the map.
WithNobody(us) == us \cup (IF System \in us THEN {Nobody} ELSE {})
Seen == {u \in Profiled : u \notin todo /\ ~(at = "image" /\ u = user)}

Listed ==
  /\ \A u \in DOMAIN profiles : profiles[u] = HomeOfUser(u)
  /\ at \in {"root", "files", "data", "profiles", "list"} => profiles = None
  /\ at \in {"each", "image"} => todo \subseteq User /\ DOMAIN profiles = WithNobody(Seen)
  /\ at = "image" => user \in User /\ user \notin todo
  /\ at \in {"users", "folders", "environment"} => DOMAIN profiles = WithNobody(Profiled)

\* While profiles are listed, each one listed is as the registry tells.
LEMMA ListedStep ==
  ASSUME HandleInv, Keyed, reg' = reg, Looked, Listed, Step
  PROVE  Listed'
<1>1. Profiled' = Profiled /\ \A u : HomeOfUser(u)' = HomeOfUser(u)
  BY SameRegistry
<1>2. (\A u \in DOMAIN profiles' : profiles'[u] = HomeOfUser(u))
        => (\A u \in DOMAIN profiles : profiles[u] = HomeOfUser(u))'
  BY <1>1
<1>3. ASSUME at \in {"list", "each"}, NEW u \in User, ~Found(held[1], <<u>>)
      PROVE  u \notin Profiled
  <2>1. held[1] \in DOMAIN cached /\ cached[held[1]] = <<"HKLM">> \o ProfileList
    BY <1>3, InHand DEF HandleInv, Control, Keyed
  <2>2. u # Nobody
    BY EnvVarsAssumption
  <2> QED  BY <1>3, <2>1, <2>2, HomeFound DEF Profiled, HomeOfUser
<1>4. CASE \/ LookupRefused \/ ReadLookup
           \/ \E k \in 0 .. MaxHandles - 1 : OpenLookup(k) \/ OpenProfiles(k)
  <2>1. profiles' = profiles /\ profiles = None
        /\ at' \in {"root", "files", "data", "profiles", "list"}
    BY <1>4, LookupFacts DEF LookupRefused, ReadLookup, OpenLookup, OpenProfiles, Listed
  <2> QED  BY <2>1 DEF Listed, None
<1>5. CASE ProfilesRefused \/ Return
  <2>1. profiles' = profiles /\ at' = "idle"
    BY <1>5 DEF ProfilesRefused, Return
  <2> QED  BY <1>2, <2>1 DEF Listed
<1>6. CASE ListProfiles
  <2>1. profiles' = profiles /\ profiles = None /\ at = "list" /\ at' = "each"
        /\ todo' = {u \in User : Found(held[1], <<u>>)}
    BY <1>6 DEF ListProfiles, Listed, enumerate_keys
  <2>2. Profiled \subseteq todo'
    BY <1>3, <2>1 DEF Profiled
  <2>3. Seen' = {} /\ DOMAIN profiles' = {}
    BY <1>1, <2>1, <2>2 DEF Seen, None
  <2> QED  BY <2>1, <2>3 DEF Listed, WithNobody
<1>7. ASSUME NEW v \in todo, ProfileRefused(v)  PROVE Listed'
  <2>1. profiles' = profiles /\ at = "each" /\ at' = at /\ todo' = todo \ {v}
        /\ v \notin Profiled
    BY <1>3, <1>7 DEF ProfileRefused, Listed
  <2>2. Seen' = Seen
    BY <1>1, <2>1 DEF Seen
  <2> QED  BY <1>2, <2>1, <2>2 DEF Listed, WithNobody
<1>8. ASSUME NEW v \in todo, NEW k \in 0 .. MaxHandles - 1, OpenProfile(v, k)  PROVE Listed'
  <2>1. profiles' = profiles /\ at = "each" /\ at' = "image" /\ todo' = todo \ {v}
        /\ user' = v
    BY <1>8 DEF OpenProfile
  <2>2. Seen' = Seen
    BY <1>1, <1>8, <2>1 DEF Seen
  <2> QED  BY <1>2, <1>8, <2>1, <2>2 DEF Listed, WithNobody
<1>9. CASE ReadImage
  <2> DEFINE path == text_or(read_value(held[2], "ProfileImagePath"), <<>>)
             home == Replace(RootPart, path, found["SystemRoot"])
  <2>1. at = "image" /\ at' = "each" /\ todo' = todo /\ user' = user /\ Two(held)
        /\ user \in User /\ user \notin todo /\ todo \subseteq User
    BY <1>9 DEF ReadImage, HandleInv, Control, Listed
  <2>2. profiles' = IF home = <<>> THEN profiles
                    ELSE IF user = System THEN Set(Set(profiles, Nobody, home), user, home)
                    ELSE Set(profiles, user, home)
    BY <1>9 DEF ReadImage
  <2>3. path = Image(reg, user)
    BY <2>1, InHand, ImageRead DEF Keyed
  <2>4. found["SystemRoot"] = Everybody["SystemRoot"]
    <3>1. "SystemRoot" \in DOMAIN found /\ "SystemRoot" \in DOMAIN Usual
      BY <2>1, LookupNames, KeyOfName, LookupFacts DEF Looked
    <3> QED  BY <3>1 DEF Looked
  <2>5. home = HomeOfUser(user) /\ (user = System => home = HomeOfUser(Nobody))
    BY <2>1, <2>3, <2>4, EnvVarsAssumption DEF HomeOfUser
  <2>6. DOMAIN profiles = WithNobody(Seen) /\ \A u \in DOMAIN profiles : profiles[u] = HomeOfUser(u)
    BY <2>1 DEF Listed
  <2>7. home # <<>> <=> user \in Profiled
    BY <2>1, <2>5 DEF Profiled
  <2>8. Seen' = IF home = <<>> THEN Seen ELSE Seen \cup {user}
    BY <1>1, <2>1, <2>7 DEF Seen
  <2> HIDE DEF home
  <2>9. DOMAIN profiles' = WithNobody(Seen')
    <3>1. CASE home = <<>>
      BY <2>2, <2>6, <2>8, <3>1
    <3>2. CASE home # <<>>
      BY <2>2, <2>6, <2>8, <3>2 DEF WithNobody, Set
    <3> QED  BY <3>1, <3>2
  <2>10. \A u \in DOMAIN profiles' : profiles'[u] = HomeOfUser(u)
    BY <2>2, <2>5, <2>6 DEF Set
  <2>11. WithNobody(Seen)' = WithNobody(Seen')
    BY DEF WithNobody
  <2> QED  BY <1>2, <2>1, <2>9, <2>10, <2>11 DEF Listed
<1>10. CASE ProfilesRead
  <2>1. profiles' = profiles /\ at = "each" /\ at' = "users" /\ todo = {}
    BY <1>10 DEF ProfilesRead
  <2>2. Seen = Profiled
    BY <2>1 DEF Seen
  <2> QED  BY <1>1, <1>2, <2>1, <2>2 DEF Listed, WithNobody
<1>11. ASSUME at \in {"users", "folders", "environment"}, profiles' = profiles,
              at' \in {"users", "folders", "environment"}
       PROVE  Listed'
  BY <1>1, <1>2, <1>11 DEF Listed, WithNobody
<1>12. CASE \/ FoldersRefused \/ ReadFolder \/ EnvironmentRefused \/ ReadTemp
            \/ \E u \in todo : UserRefused(u)
  BY <1>11, <1>12 DEF FoldersRefused, ReadFolder, EnvironmentRefused, ReadTemp, UserRefused,
     Insert
<1>13. ASSUME NEW k \in 0 .. MaxHandles - 1,
              OpenFolders(k) \/ OpenEnvironment(k) \/ \E u \in todo : OpenUser(u, k)
       PROVE  Listed'
  BY <1>11, <1>13 DEF OpenFolders, OpenEnvironment, OpenUser
<1> QED  BY <1>4, <1>5, <1>6, <1>7, <1>8, <1>9, <1>10, <1>12, <1>13 DEF Step

\* What was read for the user at hand, and the maps that are complete but for
\* TMP and TEMP.
Temps == {"TMP", "TEMP"}
Folders == {"APPDATA", "LOCALAPPDATA"}
FoldersKey(u) == <<"HKU", u, "UserShellFolders">>
Right(u) == /\ DOMAIN env[u] = DOMAIN Expected(u)
            /\ Without(env[u], Temps) = Without(Expected(u), Temps)

Filled ==
  /\ \A u \in DOMAIN env : Right(u)
  /\ at \in {"root", "files", "data", "profiles", "list", "each", "image"} => env = None
  /\ at \in {"users", "folders", "environment"} =>
       /\ todo \subseteq DOMAIN profiles
       /\ DOMAIN env = {u \in DOMAIN profiles : u \notin todo /\ ~(at # "users" /\ u = user)}
  /\ at \in {"folders", "environment"} =>
       /\ user \in DOMAIN profiles /\ user \notin todo /\ <<"HKU", user>> \in DOMAIN reg
       /\ \A n \in {"AppData", "LocalAppData"} :
            VariableOf[n] \in DOMAIN mine =>
              mine[VariableOf[n]] = OwnValue(user, "UserShellFolders", n)
  /\ at \notin {"folders", "environment"} => mine = None
  /\ at = "folders" =>
       \/ left = <<>> /\ mine = None
       \/ /\ FoldersKey(user) \in DOMAIN reg
          /\ \/ left = FolderValues /\ mine = None
             \/ left = Tail(FolderValues) /\ DOMAIN mine = {"APPDATA"}
  /\ at = "environment" =>
       /\ FoldersKey(user) \in DOMAIN reg
       /\ \/ left \in {<<>>, TempValues} /\ DOMAIN mine = Folders
          \/ left = Tail(TempValues) /\ DOMAIN mine = Folders \cup {"TMP"}
  /\ Done => DOMAIN env = WithNobody(Profiled)

(* The map depends on the values read for everybody, and outside of TMP and *)
(* TEMP on the user's others alone.                                        *)
LEMMA VariablesTold ==
  ASSUME NEW home, NEW all, NEW own, NEW own2, \A n \in DOMAIN Usual : all[n] = Everybody[n],
         \/ own = None /\ own2 = None
         \/ /\ DOMAIN own = DOMAIN own2 /\ own # None /\ own2 # None
            /\ \A n \in DOMAIN own \ Temps : own[n] = own2[n]
  PROVE  /\ DOMAIN Variables(home, all, own) = DOMAIN Variables(home, Everybody, own2)
         /\ Without(Variables(home, all, own), Temps)
              = Without(Variables(home, Everybody, own2), Temps)
<1> DEFINE Both(a) == Set([USERPROFILE |-> home, SystemRoot |-> a["SystemRoot"],
                           windir |-> a["SystemRoot"],
                           SystemDrive |-> <<IF a["SystemRoot"] = <<>> THEN Drive
                                             ELSE a["SystemRoot"][1]>>,
                           ProgramFiles |-> a["ProgrammFilesDir"],
                           ProgramData |-> a["CommonAppData"],
                           ProgramW6432 |-> a["ProgramW6432Dir"]],
                          "ProgramFiles_x86", a["ProgramFilesDir_x86"])
           More(o) == IF o = None THEN None
                      ELSE [n \in DOMAIN o \cup {"HOMEDRIVE", "HOMEPATH", "USERNAME"} |->
                              IF n \in DOMAIN o THEN o[n] ELSE HomeOf(home)[n]]
           Map(b, m) == [n \in DOMAIN b \cup DOMAIN m |-> IF n \in DOMAIN m THEN m[n] ELSE b[n]]
<1>1. \A a, o : Variables(home, a, o) = Map(Both(a), More(o))
  BY Zenon DEF Variables
<1>2. DOMAIN Usual = {"SystemRoot", "ProgrammFilesDir", "ProgramFilesDir_x86",
                      "ProgramW6432Dir", "CommonAppData"}
  BY Zenon DEF Usual
<1>3. Both(all) = Both(Everybody)
  BY <1>2
<1>4. /\ DOMAIN More(own) = DOMAIN More(own2)
      /\ \A n \in DOMAIN More(own) \ Temps : More(own)[n] = More(own2)[n]
  <2>1. CASE own = None
    BY <2>1
  <2>2. CASE own # None
    BY <2>2
  <2> QED  BY <2>1, <2>2
<1> HIDE DEF Both, More
<1>5. /\ DOMAIN Map(Both(Everybody), More(own)) = DOMAIN Map(Both(Everybody), More(own2))
      /\ Without(Map(Both(Everybody), More(own)), Temps)
           = Without(Map(Both(Everybody), More(own2)), Temps)
  BY <1>4 DEF Without
<1> HIDE DEF Map
<1> QED  BY <1>1, <1>3, <1>5

\* The values of a user who has a folders key, and of one who has none.
LEMMA OwnValuesTold ==
  ASSUME NEW u
  PROVE  /\ ~(<<"HKU", u>> \in DOMAIN reg /\ FoldersKey(u) \in DOMAIN reg) => OwnValues(u) = None
         /\ <<"HKU", u>> \in DOMAIN reg /\ FoldersKey(u) \in DOMAIN reg =>
              /\ DOMAIN OwnValues(u) = Folders \cup Temps /\ OwnValues(u) # None
              /\ \A n \in {"AppData", "LocalAppData"} :
                   OwnValues(u)[VariableOf[n]] = OwnValue(u, "UserShellFolders", n)
<1>1. DOMAIN VariableOf = {"AppData", "LocalAppData", "TMP", "TEMP"}
      /\ VariableOf["AppData"] = "APPDATA" /\ VariableOf["LocalAppData"] = "LOCALAPPDATA"
      /\ VariableOf["TMP"] = "TMP" /\ VariableOf["TEMP"] = "TEMP"
  BY DEF VariableOf
<1>2. ~(<<"HKU", u>> \in DOMAIN reg /\ FoldersKey(u) \in DOMAIN reg) => OwnValues(u) = None
  BY DEF OwnValues, Loaded, FoldersKey
<1>3. ASSUME <<"HKU", u>> \in DOMAIN reg, FoldersKey(u) \in DOMAIN reg
      PROVE  /\ DOMAIN OwnValues(u) = Folders \cup Temps
             /\ \A n \in {"AppData", "LocalAppData"} :
                  OwnValues(u)[VariableOf[n]] = OwnValue(u, "UserShellFolders", n)
  <2> DEFINE From(v) == CHOOSE n \in DOMAIN VariableOf : VariableOf[n] = v
  <2>1. OwnValues(u) = [v \in {VariableOf[n] : n \in DOMAIN VariableOf} |->
                          OwnValue(u, IF v \in {"TMP", "TEMP"} THEN "Environment"
                                      ELSE "UserShellFolders", From(v))]
    BY <1>3, Zenon DEF OwnValues, Loaded, FoldersKey
  <2>2. {VariableOf[n] : n \in DOMAIN VariableOf} = Folders \cup Temps
    BY <1>1 DEF Folders, Temps
  <2>3. From("APPDATA") = "AppData" /\ From("LOCALAPPDATA") = "LocalAppData"
    BY <1>1
  <2> HIDE DEF From
  <2> QED  BY <1>1, <2>1, <2>2, <2>3 DEF Folders
<1>4. "TMP" \in DOMAIN OwnValues(u) => OwnValues(u) # None
  BY DEF None
<1> QED  BY <1>2, <1>3, <1>4 DEF Temps

(* What is inserted on a registry at rest is what it says of the user.     *)
LEMMA InsertTold ==
  ASSUME NEW u \in DOMAIN profiles, NEW own, Insert(u, own), Looked, Listed, Filled,
         at \in {"users", "folders", "environment"}, reg' = reg,
         \/ own = None /\ ~(<<"HKU", u>> \in DOMAIN reg /\ FoldersKey(u) \in DOMAIN reg)
         \/ /\ <<"HKU", u>> \in DOMAIN reg /\ FoldersKey(u) \in DOMAIN reg
            /\ DOMAIN own = Folders \cup Temps
            /\ \A n \in {"AppData", "LocalAppData"} :
                 own[VariableOf[n]] = OwnValue(u, "UserShellFolders", n)
  PROVE  DOMAIN env' = DOMAIN env \cup {u} /\ \A v \in DOMAIN env' : Right(v)'
<1>1. \A n \in DOMAIN Usual : found[n] = Everybody[n]
  <2>1. DOMAIN Usual = {"SystemRoot", "ProgrammFilesDir", "ProgramFilesDir_x86",
                        "ProgramW6432Dir", "CommonAppData"}
    BY Zenon DEF Usual
  <2>2. DOMAIN Usual \subseteq DOMAIN found
    BY <2>1, LookupNames DEF Looked
  <2> QED  BY <2>2 DEF Looked
<1>2. \/ own = None /\ OwnValues(u) = None
      \/ /\ DOMAIN own = DOMAIN OwnValues(u) /\ own # None /\ OwnValues(u) # None
         /\ \A n \in DOMAIN own \ Temps : own[n] = OwnValues(u)[n]
  <2>1. CASE own = None
    <3>1. ~(<<"HKU", u>> \in DOMAIN reg /\ FoldersKey(u) \in DOMAIN reg)
      BY <2>1 DEF None, Temps
    <3> QED  BY <2>1, <3>1, OwnValuesTold
  <2>2. CASE own # None
    <3>1. VariableOf["AppData"] = "APPDATA" /\ VariableOf["LocalAppData"] = "LOCALAPPDATA"
      BY DEF VariableOf
    <3>2. /\ DOMAIN own = Folders \cup Temps /\ DOMAIN OwnValues(u) = Folders \cup Temps
          /\ OwnValues(u) # None
          /\ own["APPDATA"] = OwnValues(u)["APPDATA"]
          /\ own["LOCALAPPDATA"] = OwnValues(u)["LOCALAPPDATA"]
      BY <2>2, <3>1, OwnValuesTold
    <3> QED  BY <2>2, <3>2 DEF Folders
  <2> QED  BY <2>1, <2>2
<1>3. profiles[u] = HomeOfUser(u)
  BY DEF Listed
<1>4. /\ DOMAIN Variables(profiles[u], found, own) = DOMAIN Expected(u)
      /\ Without(Variables(profiles[u], found, own), Temps) = Without(Expected(u), Temps)
  BY <1>1, <1>2, <1>3, VariablesTold DEF Expected
<1>5. env' = Set(env, u, Variables(profiles[u], found, own))
  BY DEF Insert
<1>6. \A v : Expected(v)' = Expected(v)
  BY SameRegistry
<1>7. /\ DOMAIN env' = DOMAIN env \cup {u} /\ env'[u] = Variables(profiles[u], found, own)
      /\ \A v \in DOMAIN env : v # u => env'[v] = env[v]
  BY <1>5 DEF Set
<1>8. ASSUME NEW v \in DOMAIN env'
      PROVE  /\ DOMAIN env'[v] = DOMAIN Expected(v)
             /\ Without(env'[v], Temps) = Without(Expected(v), Temps)
  BY <1>4, <1>7 DEF Filled, Right
<1> QED  BY <1>6, <1>7, <1>8 DEF Right, Without

(* The next value read for the user.                                       *)
LEMMA OwnTold ==
  ASSUME HandleInv, Keyed, Listed, Filled, at = "folders", left # <<>>
  PROVE  /\ Own(folders) = Set(mine, VariableOf[left[1]],
                               OwnValue(user, "UserShellFolders", left[1]))
<1>1. Two(held) /\ folders = held[2] /\ held[2] \in DOMAIN cached
  BY InHand DEF HandleInv, Control
<1>2. cached[folders] = FoldersKey(user)
  BY <1>1, Joined DEF Keyed, FoldersKey
<1>3. profiles[user] = HomeOfUser(user)
  BY DEF Filled, Listed
<1>4. \A default : text_or(read_value(folders, left[1]), default)
                     = Value(FoldersKey(user), left[1], default)
  BY <1>1, <1>2, ReadTells
<1> QED  BY <1>3, <1>4, Zenon DEF Own, OwnValue, FoldersKey

\* While a profile is filled, every variable filled so far is as told.
LEMMA FilledStep ==
  ASSUME HandleInv, Keyed, reg' = reg, Looked, Listed, Filled, Step
  PROVE  Filled'
<1>1. Profiled' = Profiled /\ \A u : /\ Expected(u)' = Expected(u)
                                     /\ \A k, n : OwnValue(u, k, n)' = OwnValue(u, k, n)
  BY SameRegistry
<1>2. env' = env => \A u \in DOMAIN env' : Right(u)'
  BY <1>1 DEF Filled, Right, Without
<1>3. /\ FolderValues = <<"AppData", "LocalAppData">> /\ Tail(FolderValues) = <<"LocalAppData">>
      /\ TempValues = <<"TMP", "TEMP">> /\ Tail(TempValues) = <<"TEMP">>
      /\ \A x : Tail(<<x>>) = <<>> /\ <<x>>[1] = x
      /\ FolderValues # <<>> /\ TempValues # <<>> /\ Tail(FolderValues) # <<>>
      /\ Tail(TempValues) # <<>>
  BY DEF FolderValues, TempValues
<1>4. /\ VariableOf["AppData"] = "APPDATA" /\ VariableOf["LocalAppData"] = "LOCALAPPDATA"
      /\ VariableOf["TMP"] = "TMP" /\ VariableOf["TEMP"] = "TEMP"
  BY DEF VariableOf
<1>5. CASE \/ LookupRefused \/ ReadLookup \/ ListProfiles \/ ReadImage
           \/ \E u \in todo : ProfileRefused(u)
           \/ \E k \in 0 .. MaxHandles - 1 :
                OpenLookup(k) \/ OpenProfiles(k) \/ \E u \in todo : OpenProfile(u, k)
  <2>1. /\ at \in {"root", "files", "data", "profiles", "list", "each", "image"}
        /\ at' \in {"root", "files", "data", "profiles", "list", "each", "image"}
        /\ env' = env /\ mine' = mine
    BY <1>5, LookupFacts DEF LookupRefused, ReadLookup, ListProfiles, ReadImage,
       ProfileRefused, OpenLookup, OpenProfiles, OpenProfile
  <2>2. env = None /\ mine = None
    BY <2>1 DEF Filled
  <2> QED  BY <1>2, <2>1, <2>2 DEF Filled, Done
<1>6. CASE ProfilesRefused
  <2>1. at = "profiles" /\ at' = "idle" /\ result' = "Err" /\ env' = env /\ mine' = mine
    BY <1>6 DEF ProfilesRefused
  <2> QED  BY <1>2, <2>1 DEF Filled, Done
<1>7. CASE ProfilesRead
  <2>1. at = "each" /\ at' = "users" /\ todo' = DOMAIN profiles /\ profiles' = profiles
        /\ env' = env /\ mine' = mine
    BY <1>7 DEF ProfilesRead
  <2>2. env = None /\ mine = None /\ DOMAIN None = {}
    BY <2>1 DEF Filled, None
  <2> QED  BY <1>2, <2>1, <2>2 DEF Filled, Done
<1>8. CASE Return
  <2>1. at = "users" /\ todo = {} /\ at' = "idle" /\ env' = env /\ mine' = mine
    BY <1>8 DEF Return
  <2>2. DOMAIN env = WithNobody(Profiled)
    BY <2>1 DEF Filled, Listed
  <2> QED  BY <1>1, <1>2, <2>1, <2>2 DEF Filled, WithNobody
<1>9. ASSUME NEW v \in todo, NEW k \in 0 .. MaxHandles - 1, OpenUser(v, k)  PROVE Filled'
  <2>1. /\ at = "users" /\ at' = "folders" /\ todo' = todo \ {v} /\ user' = v
        /\ env' = env /\ mine' = mine /\ profiles' = profiles /\ left' = <<>>
    BY <1>9 DEF OpenUser, HandleInv, Control
  <2>2. <<"HKU", v>> \in DOMAIN reg
    BY <1>9, Joined DEF OpenUser, Opens, Found, Keyed
  <2>3. mine = None /\ DOMAIN None = {}
    BY <2>1 DEF Filled, None
  <2>4. DOMAIN env = {u \in DOMAIN profiles : u \notin todo} /\ todo \subseteq DOMAIN profiles
    BY <2>1 DEF Filled
  <2>5. DOMAIN env' = {u \in DOMAIN profiles' : u \notin todo' /\ ~(at' # "users" /\ u = user')}
    BY <1>9, <2>1, <2>4
  <2> QED  BY <1>2, <1>9, <2>1, <2>2, <2>3, <2>4, <2>5 DEF Filled, Done
\* The map of v, the user at hand or one whose hive is not there, is complete.
<1>10. ASSUME NEW v \in DOMAIN profiles, NEW own, Insert(v, own), profiles' = profiles,
              at \in {"users", "folders", "environment"},
              IF at = "users" THEN v \in todo /\ todo' = todo \ {v}
              ELSE v = user /\ todo' = todo,
              \/ own = None /\ ~(<<"HKU", v>> \in DOMAIN reg /\ FoldersKey(v) \in DOMAIN reg)
              \/ /\ <<"HKU", v>> \in DOMAIN reg /\ FoldersKey(v) \in DOMAIN reg
                 /\ DOMAIN own = Folders \cup Temps
                 /\ \A n \in {"AppData", "LocalAppData"} :
                      own[VariableOf[n]] = OwnValue(v, "UserShellFolders", n)
       PROVE  Filled'
  <2>1. DOMAIN env' = DOMAIN env \cup {v} /\ \A u \in DOMAIN env' : Right(u)'
    BY <1>10, InsertTold
  <2>2. at' = "users" /\ mine' = None
    BY <1>10 DEF Insert
  <2>3. todo' \subseteq DOMAIN profiles
    BY <1>10 DEF Filled
  <2>4. DOMAIN env' = {u \in DOMAIN profiles : u \notin todo'}
    <3>1. CASE at = "users"
      BY <1>10, <2>1, <3>1 DEF Filled
    <3>2. CASE at # "users"
      BY <1>10, <2>1, <3>2 DEF Filled
    <3> QED  BY <3>1, <3>2
  <2> QED  BY <1>10, <2>1, <2>2, <2>3, <2>4 DEF Filled, Done
<1>11. ASSUME NEW v \in todo, UserRefused(v)  PROVE Filled'
  <2>1. at = "users" /\ Insert(v, None) /\ todo' = todo \ {v} /\ profiles' = profiles
    BY <1>11 DEF UserRefused
  <2>2. <<"HKU", v>> \notin DOMAIN reg
    BY <1>11, Joined, InHand DEF UserRefused, Found, Keyed
  <2>3. v \in DOMAIN profiles
    BY <1>11, <2>1 DEF Filled
  <2> QED  BY <1>10, <1>11, <2>1, <2>2, <2>3
<1>12. CASE FoldersRefused
  <2>1. at = "folders" /\ Insert(user, None) /\ todo' = todo /\ profiles' = profiles /\ One(held)
    BY <1>12 DEF FoldersRefused, HandleInv, Control
  <2>2. held[1] \in DOMAIN cached /\ cached[held[1]] \o <<"UserShellFolders">> = FoldersKey(user)
    BY <2>1, InHand, Joined, ZenonT(60) DEF Keyed, FoldersKey
  <2>3. FoldersKey(user) \notin DOMAIN reg
    BY <1>12, <2>2 DEF FoldersRefused, Found
  <2>4. user \in DOMAIN profiles
    BY <2>1 DEF Filled
  <2> QED  BY <1>10, <2>1, <2>3, <2>4
<1>13. ASSUME NEW k \in 0 .. MaxHandles - 1, OpenFolders(k)  PROVE Filled'
  <2>1. /\ at = "folders" /\ at' = at /\ left = <<>> /\ left' = FolderValues /\ One(held)
        /\ UNCHANGED <<todo, user, profiles, env, mine>>
    BY <1>13 DEF OpenFolders, HandleInv, Control
  <2>2. cached[held[1]] \o <<"UserShellFolders">> = FoldersKey(user)
    BY <2>1, Joined, ZenonT(60) DEF Keyed, FoldersKey
  <2>3. FoldersKey(user) \in DOMAIN reg
    BY <1>13, <2>2 DEF OpenFolders, Opens, Found
  <2>4. mine = None /\ DOMAIN None = {}
    BY <1>3, <2>1 DEF Filled, None
  <2>5. FoldersKey(user)' = FoldersKey(user)
    BY <2>1 DEF FoldersKey
  <2> QED  BY <1>2, <2>1, <2>3, <2>4, <2>5 DEF Filled, Done
<1>14. CASE ReadFolder
  <2>1. at = "folders" /\ left # <<>> /\ left' = Tail(left) /\ mine' = Own(folders)
        /\ UNCHANGED <<todo, user, profiles, env>>
    BY <1>14 DEF ReadFolder
  <2>2. mine' = Set(mine, VariableOf[left[1]], OwnValue(user, "UserShellFolders", left[1]))
    BY <2>1, OwnTold
  <2>3. FoldersKey(user) \in DOMAIN reg /\ FoldersKey(user)' = FoldersKey(user)
    BY <2>1 DEF Filled, FoldersKey
  <2>4. \A n \in {"AppData", "LocalAppData"} : OwnValue(user, "UserShellFolders", n)'
                                                 = OwnValue(user, "UserShellFolders", n)
    BY <1>1, <2>1 DEF OwnValue, HomeOfUser, Value
  <2>5. CASE left = FolderValues
    <3>1. left[1] = "AppData" /\ left' # <<>> /\ left' = Tail(FolderValues) /\ mine = None
          /\ at' = "folders"
      BY <1>3, <1>14, <2>1, <2>5 DEF ReadFolder, Filled
    <3>2. DOMAIN mine' = {"APPDATA"}
          /\ mine'["APPDATA"] = OwnValue(user, "UserShellFolders", "AppData")
      BY <1>4, <2>2, <3>1 DEF Set, None
    <3> QED  BY <1>2, <1>4, <2>1, <2>3, <2>4, <3>1, <3>2 DEF Filled, Done
  <2>6. CASE left = Tail(FolderValues)
    <3>1. left[1] = "LocalAppData" /\ left' = <<>> /\ at' = "environment"
          /\ DOMAIN mine = {"APPDATA"}
          /\ mine["APPDATA"] = OwnValue(user, "UserShellFolders", "AppData")
      <4>1. DOMAIN mine = {"APPDATA"}
        BY <1>3, <2>1, <2>6, HeldElements DEF Filled
      <4> QED  BY <1>3, <1>4, <1>14, <2>1, <2>6, <4>1 DEF ReadFolder, Filled
    <3>2. /\ DOMAIN mine' = Folders
          /\ mine'["APPDATA"] = OwnValue(user, "UserShellFolders", "AppData")
          /\ mine'["LOCALAPPDATA"] = OwnValue(user, "UserShellFolders", "LocalAppData")
      BY <1>4, <2>2, <3>1 DEF Set, Folders
    <3> QED  BY <1>2, <1>4, <2>1, <2>3, <2>4, <3>1, <3>2 DEF Filled, Done
  <2> QED  BY <2>1, <2>5, <2>6 DEF Filled
<1>15. ASSUME NEW k \in 0 .. MaxHandles - 1, OpenEnvironment(k)  PROVE Filled'
  <2>1. /\ at = "environment" /\ at' = at /\ left = <<>> /\ left' = TempValues
        /\ UNCHANGED <<todo, user, profiles, env, mine>>
    BY <1>15 DEF OpenEnvironment
  <2>2. DOMAIN mine = Folders
    BY <1>3, <2>1 DEF Filled
  <2>3. FoldersKey(user)' = FoldersKey(user)
    BY <2>1 DEF FoldersKey
  <2>4. \A n \in {"AppData", "LocalAppData"} : OwnValue(user, "UserShellFolders", n)'
                                                 = OwnValue(user, "UserShellFolders", n)
    BY <1>1, <2>1 DEF OwnValue, HomeOfUser, Value
  <2> QED  BY <1>2, <2>1, <2>2, <2>3, <2>4 DEF Filled, Done
<1>16. ASSUME at = "environment"
       PROVE  /\ <<"HKU", user>> \in DOMAIN reg /\ FoldersKey(user) \in DOMAIN reg
              /\ user \in DOMAIN profiles /\ "APPDATA" \in DOMAIN mine
              /\ "LOCALAPPDATA" \in DOMAIN mine
              /\ mine["APPDATA"] = OwnValue(user, "UserShellFolders", "AppData")
              /\ mine["LOCALAPPDATA"] = OwnValue(user, "UserShellFolders", "LocalAppData")
  BY <1>4, <1>16 DEF Filled, Folders
<1>17. CASE EnvironmentRefused
  <2> DEFINE temp == profiles[user] \o Below["TMP"]
             own == Set(Set(mine, "TMP", temp), "TEMP", temp)
  <2>1. at = "environment" /\ left = <<>> /\ Insert(user, own) /\ profiles' = profiles
        /\ todo' = todo
    BY <1>17 DEF EnvironmentRefused
  <2>2. DOMAIN mine = Folders
    BY <1>3, <2>1 DEF Filled
  <2> HIDE DEF temp
  <2>3. /\ DOMAIN own = Folders \cup Temps /\ own["APPDATA"] = mine["APPDATA"]
        /\ own["LOCALAPPDATA"] = mine["LOCALAPPDATA"]
    BY <2>2 DEF Set, Folders, Temps
  <2> HIDE DEF own
  <2> QED  BY <1>4, <1>10, <1>16, <2>1, <2>3
<1>18. CASE ReadTemp
  <2> DEFINE own == Own(folders)
  <2>1. at = "environment" /\ left # <<>> /\ left' = Tail(left)
        /\ UNCHANGED <<todo, user, profiles>>
    BY <1>18 DEF ReadTemp
  <2>2. /\ left \in {TempValues, Tail(TempValues)} /\ left[1] \in Temps
        /\ VariableOf[left[1]] = left[1]
    BY <1>3, <1>4, <2>1 DEF Filled, Temps
  <2>3. /\ DOMAIN own = DOMAIN mine \cup {left[1]} /\ own["APPDATA"] = mine["APPDATA"]
        /\ own["LOCALAPPDATA"] = mine["LOCALAPPDATA"]
    BY <1>16, <2>1, <2>2 DEF Own, Set, Temps
  <2> HIDE DEF own
  <2>4. CASE left = TempValues
    <3>1. left' = Tail(TempValues) /\ left' # <<>> /\ left[1] = "TMP" /\ mine' = own
          /\ at' = at /\ env' = env /\ DOMAIN mine = Folders
      BY <1>3, <1>18, <2>1, <2>4 DEF ReadTemp, Filled, own
    <3>2. FoldersKey(user)' = FoldersKey(user)
      BY <2>1 DEF FoldersKey
    <3>3. \A n \in {"AppData", "LocalAppData"} : OwnValue(user, "UserShellFolders", n)'
                                                   = OwnValue(user, "UserShellFolders", n)
      BY <1>1, <2>1 DEF OwnValue, HomeOfUser, Value
    <3> QED  BY <1>2, <1>4, <1>16, <2>1, <2>3, <3>1, <3>2, <3>3 DEF Filled, Done
  <2>5. CASE left = Tail(TempValues)
    <3>1. left' = <<>> /\ left[1] = "TEMP" /\ Insert(user, own)
          /\ DOMAIN mine = Folders \cup {"TMP"}
      <4>1. DOMAIN mine = Folders \cup {"TMP"}
        BY <1>3, <2>1, <2>5 DEF Filled
      <4> QED  BY <1>3, <1>18, <2>1, <2>5, <4>1 DEF ReadTemp, own
    <3>2. DOMAIN own = Folders \cup Temps
      BY <2>3, <3>1 DEF Temps
    <3> QED  BY <1>4, <1>10, <1>16, <2>1, <2>3, <3>1, <3>2
  <2> QED  BY <2>2, <2>4, <2>5
<1> QED
  BY <1>5, <1>6, <1>7, <1>8, <1>9, <1>11, <1>12, <1>13, <1>14, <1>15, <1>17, <1>18 DEF Step

RestInv == rested => Looked /\ Listed /\ Filled

\* Nothing is told of an environment before it is read.
LEMMA RestInit == Init => RestInv
<1> SUFFICES ASSUME Init  PROVE Looked /\ Listed /\ Filled
  BY DEF RestInv
<1>1. /\ at = "idle" /\ found = None /\ profiles = None /\ env = None /\ mine = None /\ ~Done
      /\ DOMAIN None = {} /\ "idle" \notin DOMAIN Lookup
  BY LookupFacts DEF Init, Done, None
<1> QED  BY <1>1 DEF Looked, Listed, Filled

\* Step by step, unless the registry changes: then nothing is told.
LEMMA RestStep ==
  ASSUME HandleInv, Keyed, RestInv, [Next]_vars
  PROVE  RestInv'
<1>1. CASE Call
  <2>1. /\ at' = "root" /\ found' = None /\ profiles' = None /\ env' = None /\ mine' = None
        /\ left' = <<>> /\ result' = "none"
    BY <1>1 DEF Call, HandleInv, Control
  <2>2. DOMAIN None = {} /\ <<>> \in Seq(NamesOf("root"))
    BY DEF None
  <2>3. Looked' /\ Listed' /\ Filled'
    BY <2>1, <2>2 DEF Looked, Listed, Filled, Done, NamesOf, ElementsOf
  <2> QED  BY <2>3 DEF RestInv
<1>2. CASE Caller \/ UNCHANGED vars
  <2>1. UNCHANGED <<callVars, reg, rested>>
    <3>1. CASE Caller
      BY <3>1 DEF Caller, Enter, ReadVersion, Leave, Unwind, history
    <3>2. CASE UNCHANGED vars
      BY <3>2 DEF vars, regVars, history
    <3> QED  BY <1>2, <3>1, <3>2
  <2>2. UNCHANGED <<at, left, todo, user, profiles, found, mine, env, result, rested>>
    BY <2>1 DEF callVars
  <2>3. /\ Everybody' = Everybody /\ Profiled' = Profiled
        /\ \A u : /\ HomeOfUser(u)' = HomeOfUser(u) /\ Expected(u)' = Expected(u)
                  /\ \A k, n : OwnValue(u, k, n)' = OwnValue(u, k, n)
    BY <2>1, SameRegistry
  <2>4. Looked => Looked'
    BY <2>2, <2>3 DEF Looked, NamesOf, ElementsOf
  <2>5. Listed => Listed'
    BY <2>2, <2>3 DEF Listed, WithNobody, Seen
  <2>6. Filled => Filled'
    <3>1. UNCHANGED <<WithNobody(Profiled), FoldersKey(user), Done>>
      BY <2>2, <2>3 DEF WithNobody, FoldersKey, Done
    <3>2. \A u : Right(u)' <=> Right(u)
      BY <2>2, <2>3 DEF Right, Without
    <3>3. \A k, n : OwnValue(user, k, n)' = OwnValue(user, k, n)
      BY <2>1, <2>2 DEF OwnValue, HomeOfUser, Value, Everybody, Image
    <3> QED  BY <2>1, <2>2, <3>1, <3>2, <3>3 DEF Filled
  <2> QED  BY <2>2, <2>4, <2>5, <2>6 DEF RestInv
<1>3. CASE Written
  BY <1>3 DEF Written, RestInv
<1>4. CASE Step
  <2>1. reg' = reg /\ rested' = rested
    BY <1>4 DEF Step, LookupRefused, ReadLookup, ProfilesRefused, ListProfiles,
       ReadImage, ProfilesRead, FoldersRefused, ReadFolder, EnvironmentRefused, ReadTemp, Return,
       ProfileRefused, UserRefused, OpenLookup, OpenProfiles, OpenFolders, OpenEnvironment,
       OpenProfile, OpenUser, kept, history
  <2> QED  BY <1>4, <2>1, LookedStep, ListedStep, FilledStep DEF RestInv
<1> QED  BY <1>1, <1>2, <1>3, <1>4 DEF Next

\* What all users have, and what those have whose hive and folders are there.
LEMMA ExpectedNames ==
  ASSUME NEW u, Loaded(u)
  PROVE  DOMAIN Expected(u) = Fifteen
<1> DEFINE own == OwnValues(u)
           more == [n \in DOMAIN own \cup {"HOMEDRIVE", "HOMEPATH", "USERNAME"} |->
                      IF n \in DOMAIN own THEN own[n] ELSE HomeOf(HomeOfUser(u))[n]]
<1>1. DOMAIN own = Folders \cup Temps /\ own # None
  BY OwnValuesTold DEF Loaded, FoldersKey
<1>2. DOMAIN more = Folders \cup Temps \cup {"HOMEDRIVE", "HOMEPATH", "USERNAME"}
  BY <1>1
<1> HIDE DEF own
<1>3. \A home, all : DOMAIN Variables(home, all, own)
        = {"USERPROFILE", "SystemRoot", "windir", "SystemDrive", "ProgramFiles",
           "ProgramData", "ProgramW6432", "ProgramFiles_x86"} \cup DOMAIN more
  BY <1>1 DEF Variables, Set
<1> HIDE DEF more
<1>4. DOMAIN Expected(u)
        = {"USERPROFILE", "SystemRoot", "windir", "SystemDrive", "ProgramFiles",
           "ProgramData", "ProgramW6432", "ProgramFiles_x86"} \cup DOMAIN more
  BY <1>3 DEF Expected, own
<1> QED  BY <1>2, <1>4 DEF Fifteen, Folders, Temps

(* On a registry at rest, whatever keys and values it lacks, the map has   *)
(* the users with a profile and for each the variables the registry says,  *)
(* all fifteen if the hive and folders of the user are there; but for the  *)
(* values of TMP, TEMP and ProgramFiles (env_vars.rs:24-57).               *)
THEOREM EnvironmentAlwaysTold == Spec => []EnvironmentTold
<1> DEFINE Inv == HandleInv /\ Keyed /\ RestInv
<1>1. Init => Inv
  <2>1. Init => Keyed
    BY LookupFacts DEF Init, RegInit, Hives, HKLM, HKU, Keyed
  <2> QED  BY <2>1, InitInv, RestInit
<1>2. Inv /\ [Next]_vars => Inv'
  BY StepInv, KeyedStep, RestStep
<1>3. Inv => EnvironmentTold
  <2> SUFFICES ASSUME RestInv, rested, Done
               PROVE  /\ DOMAIN env = WithNobody(Profiled)
                      /\ \A u \in DOMAIN env :
                           /\ \A n \in DOMAIN Expected(u) \ Temps :
                                n \in DOMAIN env[u] /\ env[u][n] = Expected(u)[n]
                           /\ Loaded(u) => DOMAIN env[u] = Fifteen
    BY DEF EnvironmentTold, WithNobody, Temps
  <2>1. Filled
    BY DEF RestInv
  <2>2. DOMAIN env = WithNobody(Profiled)
    BY <2>1 DEF Filled
  <2>3. ASSUME NEW u \in DOMAIN env, NEW n \in DOMAIN Expected(u) \ Temps
        PROVE  n \in DOMAIN env[u] /\ env[u][n] = Expected(u)[n]
    <3>1. DOMAIN env[u] = DOMAIN Expected(u)
      BY <2>1 DEF Filled, Right
    <3>2. Without(env[u], Temps) = Without(Expected(u), Temps)
      BY <2>1 DEF Filled, Right
    <3>3. Without(env[u], Temps)[n] = env[u][n]
      BY <3>1 DEF Without
    <3>4. Without(Expected(u), Temps)[n] = Expected(u)[n]
      BY DEF Without
    <3> QED  BY <3>1, <3>2, <3>3, <3>4
  <2>4. ASSUME NEW u \in DOMAIN env, Loaded(u)  PROVE DOMAIN env[u] = Fifteen
    BY <2>1, <2>4, ExpectedNames DEF Filled, Right
  <2> QED  BY <2>2, <2>3, <2>4
<1> QED  BY <1>1, <1>2, <1>3, PTL DEF Spec
-----------------------------------------------------------------------------
\* What is put together of texts is one.
IsWord(t) == \E S : t \in Seq(S)

LEMMA Words ==
  /\ \A t, w : IsWord(t) /\ IsWord(w) => IsWord(t \o w)
  /\ \A t : IsWord(t) /\ t # <<>> => IsWord(Tail(t))
  /\ \A a, b, c : IsWord(<<>>) /\ IsWord(<<a>>) /\ IsWord(<<a, b>>) /\ IsWord(<<a, b, c>>)
<1>1. ASSUME NEW S, NEW T, NEW t \in Seq(S), NEW w \in Seq(T)  PROVE IsWord(t \o w)
  <2> DEFINE U == S \cup T
  <2>1. t \in Seq(U) /\ w \in Seq(U)
    BY SeqMonotonic
  <2>2. t \o w \in Seq(U)
    BY <2>1, ConcatProperties
  <2> QED  BY <2>2 DEF IsWord
<1>2. ASSUME NEW S, NEW t \in Seq(S), t # <<>>  PROVE IsWord(Tail(t))
  <2>1. Tail(t) \in Seq(S)
    BY <1>2, HeadTailProperties
  <2> QED  BY <2>1 DEF IsWord
<1>3. ASSUME NEW a, NEW b, NEW c
      PROVE  IsWord(<<>>) /\ IsWord(<<a>>) /\ IsWord(<<a, b>>) /\ IsWord(<<a, b, c>>)
  <2> DEFINE S == {a, b, c}
  <2>1. a \in S /\ b \in S /\ c \in S
    OBVIOUS
  <2> HIDE DEF S
  <2>2. <<>> \in Seq(S) /\ <<a>> \in Seq(S) /\ <<a, b>> \in Seq(S) /\ <<a, b, c>> \in Seq(S)
    BY <2>1
  <2> QED  BY <2>2 DEF IsWord
<1> QED  BY <1>1, <1>2, <1>3 DEF IsWord

\* Texts of several variables are over one set.
LEMMA WordsTogether ==
  ASSUME NEW V, NEW f, \A v \in V : IsWord(f[v])
  PROVE  \E S : \A v \in V : f[v] \in Seq(S)
<1> DEFINE Of(v) == CHOOSE S : f[v] \in Seq(S)
           U == UNION {Of(v) : v \in V}
<1>1. \A v \in V : f[v] \in Seq(Of(v))
  BY DEF IsWord
<1> HIDE DEF Of
<1>2. \A v \in V : Of(v) \subseteq U
  OBVIOUS
<1>3. \A v \in V : f[v] \in Seq(U)
  BY <1>1, <1>2, SeqMonotonic
<1> QED  BY <1>3

\* The variables that known folders begin with, and get_env_vars_of_users finds.
Heads == {"USERPROFILE", "APPDATA", "LOCALAPPDATA", "ProgramFiles", "windir", "SystemDrive"}

\* The tables, folder by folder (csidl.rs:103).
LEMMA FolderTable ==
  ASSUME NEW f \in FolderId \ {"PUBLIC", "COMMONOEMLINKS"}
  PROVE  Leads(csidl_value[f]) /\ VarOf[csidl_value[f][1]] \in Heads /\ IsWord(csidl_value[f])
<1>1. /\ "%USERPROFILE%" \in DOMAIN VarOf /\ VarOf["%USERPROFILE%"] = "USERPROFILE"
      /\ "%APPDATA%" \in DOMAIN VarOf /\ VarOf["%APPDATA%"] = "APPDATA"
      /\ "%LOCALAPPDATA%" \in DOMAIN VarOf /\ VarOf["%LOCALAPPDATA%"] = "LOCALAPPDATA"
      /\ "%ProgramFiles%" \in DOMAIN VarOf /\ VarOf["%ProgramFiles%"] = "ProgramFiles"
      /\ "%windir%" \in DOMAIN VarOf /\ VarOf["%windir%"] = "windir"
      /\ "%SystemDrive%" \in DOMAIN VarOf /\ VarOf["%SystemDrive%"] = "SystemDrive"
  BY Zenon DEF VarOf
<1>2. /\ csidl_value["PROFILE"] = <<"%USERPROFILE%">>
      /\ csidl_value["DESKTOP"] = <<"%USERPROFILE%", "Desktop">>
      /\ csidl_value["ROAMINGAPPDATA"] = <<"%APPDATA%">>
      /\ csidl_value["HISTORY"] = <<"%LOCALAPPDATA%", "History">>
      /\ csidl_value["PROGRAMFILESCOMMON"] = <<"%ProgramFiles%", "Common Files">>
      /\ csidl_value["WINDOWS"] = <<"%windir%">> /\ csidl_value["FONTS"] = <<"%windir%", "Fonts">>
      /\ csidl_value["USERPROFILES"] = <<"%SystemDrive%", "Users">>
      /\ csidl_value["VIDEOS"] = <<"%USERPROFILE%", "Videos">>
  BY Zenon DEF csidl_value, FolderId
<1>3. ASSUME NEW a, NEW b, a \in DOMAIN VarOf
      PROVE  /\ Leads(<<a>>) /\ <<a>>[1] = a /\ IsWord(<<a>>)
             /\ Leads(<<a, b>>) /\ <<a, b>>[1] = a /\ IsWord(<<a, b>>)
  <2>1. IsWord(<<a>>) /\ IsWord(<<a, b>>)
    BY Words
  <2>2. <<a>>[1] = a /\ <<a, b>>[1] = a /\ <<a>> # <<>> /\ <<a, b>> # <<>>
    OBVIOUS
  <2> QED  BY <1>3, <2>1, <2>2 DEF Leads
<1> DEFINE Good(t, v) == Leads(t) /\ VarOf[t[1]] = v /\ IsWord(t)
<1>4. \A a, b, v : a \in DOMAIN VarOf /\ VarOf[a] = v => Good(<<a>>, v) /\ Good(<<a, b>>, v)
  BY <1>3
<1> HIDE DEF Good
<1>5. /\ Good(csidl_value["PROFILE"], "USERPROFILE") /\ Good(csidl_value["DESKTOP"], "USERPROFILE")
      /\ Good(csidl_value["ROAMINGAPPDATA"], "APPDATA")
      /\ Good(csidl_value["HISTORY"], "LOCALAPPDATA")
      /\ Good(csidl_value["PROGRAMFILESCOMMON"], "ProgramFiles")
      /\ Good(csidl_value["WINDOWS"], "windir") /\ Good(csidl_value["FONTS"], "windir")
      /\ Good(csidl_value["USERPROFILES"], "SystemDrive")
      /\ Good(csidl_value["VIDEOS"], "USERPROFILE")
  BY <1>1, <1>2, <1>4, Zenon
<1>6. f \in {"PROFILE", "DESKTOP", "ROAMINGAPPDATA", "HISTORY", "PROGRAMFILESCOMMON", "WINDOWS",
             "FONTS", "USERPROFILES", "VIDEOS"}
  BY DEF FolderId
<1>7. \E v \in Heads : Good(csidl_value[f], v)
  BY <1>5, <1>6 DEF Heads
<1> QED  BY <1>7 DEF Good

\* Nothing else can be put in front of a path.
LEMMA HeadsAre == \A part \in DOMAIN VarOf : VarOf[part] \in Heads \cup {"PUBLIC", "ALLUSERSPROFILE"}
BY Zenon DEF VarOf, Heads
-----------------------------------------------------------------------------
\* What the registry holds was written by somebody.
RegTyped == reg \in Contents \cup Updates

LEMMA RegTypedStep == RegTyped /\ [Next]_vars => RegTyped'
<1> SUFFICES ASSUME RegTyped, [Next]_vars PROVE RegTyped'
  OBVIOUS
<1>1. CASE Call \/ Caller \/ UNCHANGED vars
  <2>1. reg' = reg
    BY <1>1 DEF Call, Caller, Enter, ReadVersion, Leave, Unwind, vars, regVars
  <2> QED  BY <2>1 DEF RegTyped
<1>2. CASE Step
  <2>1. reg' = reg
    BY <1>2 DEF Step, LookupRefused, ReadLookup, ProfilesRefused, ListProfiles,
       ReadImage, ProfilesRead, FoldersRefused, ReadFolder, EnvironmentRefused, ReadTemp, Return,
       ProfileRefused, UserRefused, OpenLookup, OpenProfiles, OpenFolders, OpenEnvironment,
       OpenProfile, OpenUser, kept
  <2> QED  BY <2>1 DEF RegTyped
<1>3. CASE Written
  BY <1>3 DEF Written, Change, RegTyped
<1> QED  BY <1>1, <1>2, <1>3 DEF Next

\* A value that is read, whatever it replaces, is a text.
LEMMA ValueIsWord ==
  ASSUME RegTyped, NEW path, NEW n, NEW default, IsWord(default)
  PROVE  IsWord(Value(path, n, default))
<1>1. path \in DOMAIN reg /\ n \in DOMAIN reg[path] /\ reg[path][n].is = "text" =>
        IsWord(reg[path][n].val)
  BY RegistryAssumption DEF RegTyped, IsWord
<1> QED  BY <1>1 DEF Value, text_or

LEMMA ReplaceIsWord ==
  ASSUME NEW variable, NEW txt, NEW by, IsWord(txt), IsWord(by)
  PROVE  IsWord(Replace(variable, txt, by))
BY Words DEF Replace

\* Every value that everybody gets, and every home, is a text.
LEMMA UsualWords ==
  ASSUME RegTyped
  PROVE  /\ \A n \in DOMAIN Usual : IsWord(Everybody[n])
         /\ \A u : IsWord(HomeOfUser(u))
<1>1. \A n \in DOMAIN Usual : \E a, b : Usual[n] = <<a, b>>
  BY Zenon DEF Usual
<1>2. \A n \in DOMAIN Usual : IsWord(Usual[n])
  BY <1>1, Words
<1>3. \A n \in DOMAIN Usual : IsWord(Everybody[n])
  BY <1>2, ValueIsWord DEF Everybody
<1>4. ASSUME NEW u  PROVE IsWord(Image(reg, u))
  <2> DEFINE key == <<"HKLM">> \o ProfileList \o <<u>>
  <2>1. IsWord(<<>>)
    BY Words
  <2>2. Image(reg, u) = Value(key, "ProfileImagePath", <<>>)
    BY DEF Image, Value
  <2> HIDE DEF key
  <2> QED  BY <2>1, <2>2, ValueIsWord
<1>5. "SystemRoot" \in DOMAIN Usual
  BY Zenon DEF Usual
<1> QED  BY <1>3, <1>4, <1>5, ReplaceIsWord DEF HomeOfUser

LEMMA OwnWords ==
  ASSUME RegTyped, NEW u, NEW key, NEW n \in DOMAIN VariableOf
  PROVE  IsWord(OwnValue(u, key, n))
<1>1. \E a, b, c : Below[n] = <<a, b>> \/ Below[n] = <<a, b, c>>
  BY Zenon DEF Below
<1>2. IsWord(Below[n])
  BY <1>1, Words
<1>3. IsWord(HomeOfUser(u))
  BY UsualWords
<1>4. IsWord(HomeOfUser(u) \o Below[n])
  BY <1>2, <1>3, Words
<1> QED  BY <1>3, <1>4, ValueIsWord, ReplaceIsWord DEF OwnValue

\* The variables of a user whose hive and folders are there: all that known folders
\* begin with, each of them a text.
LEMMA ExpectedHeads ==
  ASSUME RegTyped, NEW u, Loaded(u)
  PROVE  /\ Heads \subseteq DOMAIN Expected(u)
         /\ IsFiniteSet(DOMAIN Expected(u))
         /\ {"PUBLIC", "ALLUSERSPROFILE"} \cap DOMAIN Expected(u) = {}
         /\ \A v \in Heads : IsWord(Expected(u)[v])
<1> DEFINE own == OwnValues(u)
           home == HomeOfUser(u)
           all == Everybody
           root == all["SystemRoot"]
           both == Set([USERPROFILE |-> home, SystemRoot |-> root, windir |-> root,
                        SystemDrive |-> <<IF root = <<>> THEN Drive ELSE root[1]>>,
                        ProgramFiles |-> all["ProgrammFilesDir"],
                        ProgramData |-> all["CommonAppData"],
                        ProgramW6432 |-> all["ProgramW6432Dir"]],
                       "ProgramFiles_x86", all["ProgramFilesDir_x86"])
           more == [n \in DOMAIN own \cup {"HOMEDRIVE", "HOMEPATH", "USERNAME"} |->
                      IF n \in DOMAIN own THEN own[n] ELSE HomeOf(home)[n]]
           Common == {"USERPROFILE", "SystemRoot", "windir", "SystemDrive", "ProgramFiles",
                      "ProgramData", "ProgramW6432", "ProgramFiles_x86"}
           Private == {"APPDATA", "LOCALAPPDATA", "TMP", "TEMP", "HOMEDRIVE", "HOMEPATH",
                       "USERNAME"}
<1>1. Expected(u) = [n \in DOMAIN both \cup DOMAIN more |->
                       IF n \in DOMAIN more THEN more[n] ELSE both[n]]
  <2>1. OwnValues(u) # None
    BY OwnValuesTold DEF Loaded, FoldersKey
  <2> QED  BY <2>1, Zenon DEF Expected, Variables
<1>2. /\ DOMAIN own = Folders \cup Temps
      /\ own["APPDATA"] = OwnValue(u, "UserShellFolders", "AppData")
      /\ own["LOCALAPPDATA"] = OwnValue(u, "UserShellFolders", "LocalAppData")
  <2>1. VariableOf["AppData"] = "APPDATA" /\ VariableOf["LocalAppData"] = "LOCALAPPDATA"
    BY DEF VariableOf
  <2>2. <<"HKU", u>> \in DOMAIN reg /\ FoldersKey(u) \in DOMAIN reg
    BY DEF Loaded, FoldersKey
  <2>3. /\ DOMAIN OwnValues(u) = Folders \cup Temps
        /\ \A n \in {"AppData", "LocalAppData"} :
             OwnValues(u)[VariableOf[n]] = OwnValue(u, "UserShellFolders", n)
    BY <2>2, OwnValuesTold
  <2> QED  BY <2>1, <2>3
<1>3. /\ DOMAIN both = Common /\ both["USERPROFILE"] = home /\ both["windir"] = root
      /\ both["SystemDrive"] = <<IF root = <<>> THEN Drive ELSE root[1]>>
      /\ both["ProgramFiles"] = all["ProgrammFilesDir"]
  <2> HIDE DEF home, all
  <2> QED  BY DEF Set
<1>4. /\ DOMAIN more = Private
      /\ more["APPDATA"] = own["APPDATA"] /\ more["LOCALAPPDATA"] = own["LOCALAPPDATA"]
  <2> HIDE DEF own, home
  <2> QED  BY <1>2 DEF Folders, Temps
<1> DEFINE map == Expected(u)
<1>5. /\ DOMAIN map = Common \cup Private
      /\ \A v \in Common : map[v] = both[v]
      /\ \A v \in Private : map[v] = more[v]
  <2> HIDE DEF both, more
  <2> QED  BY <1>1, <1>3, <1>4
<1>6. IsFiniteSet(Common \cup Private)
  <2>1. \A x : IsFiniteSet({x})
    BY FS_Singleton
  <2>2. ASSUME NEW a, NEW b, NEW c, NEW d, NEW e, NEW f, NEW g, NEW h
        PROVE  IsFiniteSet({a, b, c, d, e, f, g}) /\ IsFiniteSet({a, b, c, d, e, f, g, h})
    <3>1. \A S, T : IsFiniteSet(S) /\ IsFiniteSet(T) => IsFiniteSet(S \cup T)
      BY FS_Union
    <3>2. IsFiniteSet(({a} \cup {b}) \cup ({c} \cup {d}))
      BY <2>1, <3>1, Zenon
    <3>3. IsFiniteSet((({a} \cup {b}) \cup ({c} \cup {d})) \cup (({e} \cup {f}) \cup {g}))
      BY <2>1, <3>1, <3>2, Zenon
    <3>4. IsFiniteSet(((({a} \cup {b}) \cup ({c} \cup {d})) \cup (({e} \cup {f}) \cup {g})) \cup {h})
      BY <2>1, <3>1, <3>3, Zenon
    <3>5. /\ {a, b, c, d, e, f, g} = (({a} \cup {b}) \cup ({c} \cup {d})) \cup (({e} \cup {f}) \cup {g})
          /\ {a, b, c, d, e, f, g, h} = {a, b, c, d, e, f, g} \cup {h}
      OBVIOUS
    <3> QED  BY <3>3, <3>4, <3>5
  <2>3. IsFiniteSet(Common) /\ IsFiniteSet(Private)
    BY <2>2
  <2> HIDE DEF Common, Private
  <2> QED  BY <2>3, FS_Union
<1>7. \A v \in Heads : IsWord(map[v])
  <2>1. /\ IsWord(home)
        /\ {"SystemRoot", "ProgrammFilesDir"} \subseteq DOMAIN Usual
        /\ {"AppData", "LocalAppData"} \subseteq DOMAIN VariableOf
    BY UsualWords, Zenon DEF Usual, VariableOf
  <2>2. IsWord(root) /\ IsWord(all["ProgrammFilesDir"])
    BY <2>1, UsualWords
  <2>3. IsWord(own["APPDATA"]) /\ IsWord(own["LOCALAPPDATA"])
    BY <1>2, <2>1, OwnWords
  <2>4. IsWord(both["SystemDrive"])
    BY <1>3, Words
  <2> HIDE DEF both, more, map, own, home, all
  <2> QED  BY <1>3, <1>4, <1>5, <2>1, <2>2, <2>3, <2>4 DEF Heads
<1>8. Heads \subseteq DOMAIN map /\ {"PUBLIC", "ALLUSERSPROFILE"} \cap DOMAIN map = {}
  <2> HIDE DEF map
  <2> QED  BY <1>5 DEF Heads
<1> QED  BY <1>5, <1>6, <1>7, <1>8

(* The known folders of a user are found, up to what the registry leaves   *)
(* out, for any registry at rest and any values in it (csidl.rs:103).      *)
THEOREM FoldersAlwaysFound == Spec => []KnownFoldersFound
<1> DEFINE Inv == HandleInv /\ Keyed /\ RestInv /\ RegTyped
<1>1. Init => Inv
  <2>1. Init => Keyed
    BY LookupFacts DEF Init, RegInit, Hives, HKLM, HKU, Keyed
  <2>2. Init => RegTyped
    BY DEF Init, RegInit, RegTyped
  <2> QED  BY <2>1, <2>2, InitInv, RestInit
<1>2. Inv /\ [Next]_vars => Inv'
  BY StepInv, KeyedStep, RestStep, RegTypedStep
<1>3. Inv => KnownFoldersFound
  <2> SUFFICES ASSUME Inv, rested, Done, NEW u \in DOMAIN env, Loaded(u),
                      NEW f \in FolderId \ {"PUBLIC", "COMMONOEMLINKS"},
                      Leads(Rewritten(csidl_value[f], env[u])),
                      ~Circular(csidl_value[f], env[u]), ~Hidden(env[u])
               PROVE  LET p == Rewritten(csidl_value[f], env[u])
                      IN  /\ VarOf[p[1]] \notin DOMAIN env[u]
                          /\ \E v \in DOMAIN env[u] : Leads(env[u][v]) /\ env[u][v][1] = p[1]
    BY Zenon DEF KnownFoldersFound
  <2> DEFINE map == env[u]
             txt == csidl_value[f]
  <2>1. Without(map, Temps) = Without(Expected(u), Temps)
    BY DEF RestInv, Filled, Right
  <2>2. /\ DOMAIN map \ Temps = DOMAIN Expected(u) \ Temps
        /\ \A v \in DOMAIN map \ Temps : map[v] = Expected(u)[v]
    <3> HIDE DEF map
    <3>1. /\ DOMAIN Without(map, Temps) = DOMAIN map \ Temps
          /\ DOMAIN Without(Expected(u), Temps) = DOMAIN Expected(u) \ Temps
          /\ \A v \in DOMAIN map \ Temps : Without(map, Temps)[v] = map[v]
          /\ \A v \in DOMAIN Expected(u) \ Temps :
               Without(Expected(u), Temps)[v] = Expected(u)[v]
      BY DEF Without
    <3> QED  BY <2>1, <3>1
  <2>3. /\ Heads \subseteq DOMAIN map /\ {"PUBLIC", "ALLUSERSPROFILE"} \cap DOMAIN map = {}
        /\ \A v \in Heads : IsWord(map[v])
    <3>1. Heads \cap Temps = {} /\ {"PUBLIC", "ALLUSERSPROFILE"} \cap Temps = {}
      BY DEF Heads, Temps
    <3> HIDE DEF map
    <3> QED  BY <2>2, <3>1, ExpectedHeads
  <2>4. IsFiniteSet(DOMAIN map)
    <3>1. IsFiniteSet(Temps)
      <4>1. IsFiniteSet({"TMP"}) /\ IsFiniteSet({"TEMP"})
        BY FS_Singleton
      <4>2. Temps = {"TMP"} \cup {"TEMP"}
        BY DEF Temps
      <4> QED  BY <4>1, <4>2, FS_Union
    <3>2. IsFiniteSet(DOMAIN Expected(u) \cup Temps)
      BY <3>1, ExpectedHeads, FS_Union
    <3>3. DOMAIN map \subseteq DOMAIN Expected(u) \cup Temps
      BY <2>2
    <3> QED  BY <3>2, <3>3, FS_Subset
  <2>5. Leads(txt) /\ VarOf[txt[1]] \in Heads /\ IsWord(txt)
    BY FolderTable
  <2> HIDE DEF map, txt
  <2>6. PICK T : \A v \in Heads : map[v] \in Seq(T)
    BY <2>3, WordsTogether
  <2>7. PICK U : txt \in Seq(U)
    BY <2>5 DEF IsWord
  <2> DEFINE S == T \cup U
  <2>8. txt \in Seq(S) /\ \A v \in Heads : map[v] \in Seq(S)
    BY <2>6, <2>7, SeqMonotonic
  <2> HIDE DEF S
  <2>9. GivesTexts(map, S)
    BY <2>3, <2>8, HeadsAre DEF GivesTexts
  <2>10. Led(txt, map)
    BY <2>3, <2>5 DEF Led
  <2>11. Leads(Rewritten(txt, map)) /\ ~Circular(txt, map) /\ ~Hidden(map)
    BY DEF map, txt
  <2> QED  BY <2>4, <2>8, <2>9, <2>10, <2>11, StillLeads DEF map, txt
<1> QED  BY <1>1, <1>2, <1>3, PTL DEF Spec
=============================================================================
