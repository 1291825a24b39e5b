# A verification development for forensic-rs

`src/` is the crate `forensic-rs`, a framework for forensic analysis tools: it
moves log messages and notifications between threads, keeps per-thread analysis
context, carries forensic records between tools, and abstracts the registry,
the file system and databases so that a parser runs on a live host, on a disk
image or in a test. This directory holds TLA+ models of it, the configurations
TLC checks them with, and proofs TLAPS checks. Paths below are relative to
`src/src/`.

Contents: 1 inventory - 2 modules and their correspondence to the code -
3 runs - 4 fairness - 5 proofs - 6 abstractions and limits - 7 findings -
8 plan.

## 1. Inventory

### Channel (`channel.rs`)
*State*: a queue of `std::sync::mpsc`, the set of live `Sender` clones, whether
the `Receiver` lives. *Operations*: `channel`, `sync_channel`, `send`,
`try_send`, `clone` and drop of a sender; `recv`, `try_recv`, `recv_timeout` and
drop of the receiver. The wrapper chooses between `Sender` and `SyncSender` and
translates the errors of both. *Users*: logging, notifications, parsers.
*Hard*: blocking sends and receives against drops of the other side, timeouts
that race with a message, a full or a rendezvous channel. *Correct if*: messages
of one thread arrive once each and in order, "disconnected" is said only when
it is for ever, and a blocked call is released when the other side disappears.

### Logging and notifications (`logging/`, `notifications/`)
*State*: one `RefCell<Logger>` and one `RefCell<Notifier>` per thread, the
process-wide relaxed atomic `MAX_NOTIFY_LEVEL_FILTER`. *Operations*: `log!`,
`notify!`, `initialize_logger`, `initialize_notifier`, `set_max_level`.
*Interactions*: a macro borrows the cell, formats its arguments **under that
borrow** and sends with a blocking `send`; the arguments are arbitrary
expressions that may log, notify or try to install another logger; threads get
their loggers as clones. *Hard*: calls nested in arguments, the filter changed
by other threads meanwhile, panics from `borrow_mut`, bounded channels. *Correct
if*: a message goes to the logger its call found, in the order of the calls,
only if the filter let it pass, and no call hangs.

### Drain threads (`utils/testing.rs` 417-439)
`init_testing_logger` installs a logger and a notifier and spawns two threads
that receive until the channel ends. *Correct if* they end once every clone of
their sender is gone, however the owners ended.

### Analysis context (`context.rs`)
*State*: a thread-local host, artifact and tenant. *Operations*: four setters;
`ForensicData::default` reads it.

### Forensic data and fields (`data.rs`, `field/`)
*State*: an artifact and a map of named fields; a field holds its original value
and, for each of six types, a cache of the cast to that type (not asked for,
no such cast, or the cast). *Operations*: `new`, `default`, `insert`,
`add_field`, `field_mut`, `iter_mut`, six cast accessors, `clone`, serialisation
and deserialisation. *Interactions*: records travel as JSON to other tools, which
read the artifact from the field `artifact.name`. *Hard*: caches against
changes in place and copies, values stored twice (the artifact and its name),
types JSON cannot express, integers at the ends of their ranges. *Correct if*:
an answer is the cast of the value, artifact and name agree, and a record means
the same to the tool that reads it.

### Artifact names (`artifact.rs`)
Two hand-written tables, `Display` and the `*_from_str` functions, that should be
each other's inverse. *Hard*: forty variants, some of which carry text, chained
through any number of tools. *Correct if* a name is read as what was written.

### Registry reader, environment variables, testing registry
(`traits/registry/`, `utils/testing.rs`)
*State*: open handles; in `TestingRegistry` a tree of keys below each hive, and the path
behind each handle (its `RegistryReader` takes `&self`, so handles are numbers given out by
the tree). *Operations*: open, read, enumerate by list and by position, close;
`auto_close_key`, `get_system_root`, `windows_build`, `list_users`; the readers of system
and user variables; `add_value`, `add_key`. *Hard*: handles leaked on early returns, used
after close, looked up anew while the tree changes; enumeration at the end; a recursive
`add_key`. *Correct if* every handle opened is closed exactly once and not used afterwards,
variables are those the registry holds, and a handle reads the key it was opened as.

### Interpolation and known folders (`core/mod.rs`, `utils/win/csidl.rs`)
*State*: a map of variables, the caller's `String`, the stack of calls. *Operations*:
`interpolate_env_vars`, `interpolate_csidl_path`. *Interactions*: the variables are those
env_vars.rs found, or a parser's; the paths go to a file system. *Hard*: recursion through
variables that name each other, what was appended when a call fails, names written in two
tables. *Correct if* the result is the path with each variable replaced, and it ends.

### File times (`utils/time.rs`)
*State*: a `Filetime` keeps ticks since 1601 and, beside them, the date and the clock
they stand for; `WinFiletime` and `UnixTimestamp` compute theirs when asked.
*Operations*: `new`, `with_ymd_and_hms`, `+`, `+=`, `-`, comparison, `duration_since`, the
accessors, the conversions to Unix time and `SystemTime`. *Hard*: one value kept twice, four implementations of one
calendar with tables of their own. *Correct if* the parts are those of the ticks after
any sequence of operations, for every day, leap years and year ends included, and the
three types agree.

### Virtual file systems (`traits/vfs.rs`, `core/fs/`)
*State*: a stack of `ChRootFileSystem`s, each with a path, on the operating system's files
or on any other `VirtualFileSystem`; files that were opened. *Operations*: `new`,
`from_fs`, `from_file`, `duplicate`; reading calls, which every layer forwards with its
path in front; `exists` and `is_live`, answered at once. *Interactions*: parsers get a
boxed file system and paths as they stand in a registry. *Hard*: paths normalised in every
layer, disks that change during a call. *Correct if* a stack is one directory of one disk,
what it lists can be opened, and a user's path is found where it is meant.

### Ip text (`field/utils.rs`, `field/ip.rs`)
Two hand-written readers, one of them with a loop over bytes and eight hextets; serialised
addresses go through them at every tool. *Hard*: indices at both ends, the ellipsis, a text
that two readers take. *Correct if* a text is read as the one address it stands for, and
nothing is read or written out of bounds.

### The rest
Safe readers and SIDs (`utils/unpack.rs`, `utils/win/sid.rs`): bounds of slices. SQL (`traits/sql.rs`): traits and
conversions of one value. Errors (`err.rs`), parser traits
(`traits/forensic.rs`), activities and dictionary: data without behaviour.

What each of these is exposed to, line by line, is under `hazards` in
`PROJECT.json`.

## 2. Modules and their correspondence to the code

```
Channel <- ChannelProps <- MCChannel          ChannelContract
   ^           ^  \________ Contract(c) == INSTANCE _____|
   |           |
Messaging <- MessagingProps <- MCMessaging
                    ^-- MessagingProofs  (those of channels, too)
ForensicData <- ForensicDataProofs -> ArtifactNames <- MCArtifactNames
     ^-- MCForensicData (takes its names from ArtifactNames by INSTANCE)
Registry <- EnvVars <- EnvVarsProps <- MCEnvVars   FileTimes <- FileTimesProps <- MCFileTimes
   |           KnownFolders --^   ^-- EnvVarsProofs                  ^-- FileTimesProofs
   +-- TestingRegistry == INSTANCE -- RegistryTreeProps (extends RegistryTree) <- MCRegistryTree
                                                ^-- RegistryTreeProofs
KnownFolders <- Interpolation <- Files (and VirtualFiles, which extends StdFiles) <- MCFiles
                                   ^-- FS == INSTANCE OneFileSystem
                                   ^-- FilesProofs (those of Interpolation, too)
IpText <- IpTextProps <- MCIpText
               ^-- IpTextProofs
KnownFolders <- SharedLemmas <- ForensicDataProofs, EnvVarsProofs, FilesProofs, FileTimesProofs, IpTextProofs,
                                RegistryTreeProofs
```

A definition `X_<bug>` in front of a definition `X` is `X` with a bug somebody
could plausibly write; it is used by nothing but the mutants of `PROJECT.json`,
which show that the property named there notices.

**Channel** (`channel.rs`). `cap` is what `channel()`/`sync_channel(n)` chose,
`open` the life of the receiver, `hold[c]` the threads owning a clone, `buf` the
queue. A blocking call is a call step (`CallSend`, `CallRecv`) and a return step
(`SendOk`/`SendError`, `Recv`/`RecvTimeout`), so that everything may happen in
between; `op` and `rop` are the calls being executed, `reply` and `outcome` what
the last ones returned. `TrySend` and `TryRecv` are single steps. `HandOver` is
the simultaneous completion of a rendezvous. A timeout is the disjunct of
`RecvTimeout` that finds nothing: it may fire at any moment the queue is empty.
`got` and `sent` record what was received and how much was accepted.

**ChannelContract** says the same without a queue: accepted messages form a set,
a receive yields the oldest message of *some* sender, and a report of nothing is
true of that set and of the senders left. It knows nothing of calls in progress.
`Contract(c)` of ChannelProps is the refinement mapping.

**Messaging** (`logging/`, `notifications/`, the drain threads). `cell[t][k]` is
the channel behind the thread-local of kind `k`; `calls[t]` is the stack of
macro expansions whose arguments are being formatted. `Log` and `Notify` enter
the closure and borrow; `Emit` has the arguments formatted and calls `send` (or
returns at once from a default logger, whose receiver is gone); `Return` is the
end of the send, its result ignored, and of the borrow. `Initialize` needs the
cell unborrowed; with it borrowed, `Panic` unwinds the thread. `Give` is a clone
moved to a worker, `Release` a destructor, `Exit` the end of a thread. `Drain`,
`Receive`, `DrainReturns` are the loop of `init_testing_logger`; `Abandon` a
receiver that goes out of scope. `limit` is the filter; what it lets pass is one
guard of `Log`, and no property restates it. `ticket`,
`outer` and `via` identify a call and what it borrowed; they decide nothing.

**ForensicData** (`data.rs`, `context.rs`, `field/`). `data[o]` is a record with
its artifact and its fields, a field the pair of `original` and `cache`. The
actions are the operations of the inventory; the six accessors are one action
`CastField`, whose parameter is the type; the two `&mut` accessors are
`FieldMut`. `Relay` is serialisation and deserialisation in one step, because
nothing can happen to a text in between. `Cast`, `Store`, `Json`, `FromJson`
translate the conversions, those of floats that are no numbers included: an integer
cast of NaN is zero and of an infinity the end of the range, and in JSON they are null.
`lent` and `renamed` are history: which fields were
changed in place, and whether a caller wrote the record's name.

**ArtifactNames** (`artifact.rs`). An artifact is the path of its variants and the
text of the last one, a text the sequence of its `::`-separated segments.
`Display` and the `*_from_str` operators are the two tables; `Relay` is a tool
that reads a name and names what it read. MCForensicData instantiates the
operators to give ForensicData the names it runs with.

**Registry** (`traits/registry/mod.rs`, the handles of `utils/testing.rs`). `reg` is what
the registry holds, a map from paths to values; `cached` the path behind each open
handle, `counter` the next handle of `TestingRegistry`. With `Closes` the reader has a
`close_key` of its own, as a reader of a live system has, and may give a closed number
out again; without, it is `TestingRegistry`, which inherits the `close_key` that does
nothing. `frames` are the handles that calls of `auto_close_key` inside of each other
will close, `lost` those nobody will: left by `get_system_root`, `windows_build`
(`ReadVersion`) or by a panic (`Unwind`). `Change` is the running system writing its registry.

**EnvVars** (`traits/registry/extra/env_vars.rs`). `get_env_vars_of_users` and its
functions, one action per call of the reader; a close is one step with the call before
it. `at` is the function or loop being executed, `held` the handles it will close,
`todo` and `user` the loop over profiles or users, `left` the values still to be read
from the key opened last. `system_root`, `program_files` and `program_data` differ in a
table (`Lookup`) and share their actions. `profiles`, `found`, `mine`, `env` are the
maps of the code. `folders` is the local `shell_folders`, through which TMP and TEMP are
read after it was closed. `steady` and `rested` are history: the users whose profile has
been the same since the call began, and whether the whole registry has. `Caller` is what
else a program does with the reader before and after.

**FileTimes** (`utils/time.rs`). `time` is a Filetime, `original` and `parts`; `made` says
which operation gave it its parts. `YearFrom` is the loop of `to_years`, solved: the
first year in which either of its two exits is taken, `Left` being what it has
subtracted by then. `WithYmd` is given the date another Filetime tells and any clock, as far
as a u64 counts. `FileTimesProps` has the reference calendar: lengths of months and a
formula for leap days, found by search, with none of the code's tables. `duration_since` casts
what it answers to a u64 (`% Width`); it is asked about instants on both sides of each Filetime,
before and after each operation.

**RegistryTree** (`utils/testing.rs`). `cell` is the tree below each hive, `cached` the path
of each handle, `counter` the next one. A path is the sequence of the pieces between its
separators, so that "a\" is not "a": the empty rest that `split_once` leaves is `KeyOf`. The
functions that call themselves are recursive functions of the length of the path: `Down` is
the cell it leads to, `Grown` the cell after something was written there, with what
`or_insert` makes on the way. `add_key`, which may not end, is a call
(`AddKey`), a step for each call of itself (`Deeper`), an `Overflow` at `MaxFrames` and a
return. Calls that change nothing are `Asks`: they leave what they were asked and answered
in `op` and `reply`. **RegistryTreeProps** flattens the tree into the map from paths to
values that Registry calls `reg` and instantiates Registry with it: a reader of the tree
answers what the operators of Registry answer, and a step of the tree is one of the map.

**KnownFolders** (`utils/win/csidl.rs`) has the two tables, one folder for each variable
and for each way a folder follows it, and `Rewritten`, the reference: the variable in front
replaced again and again. **Interpolation** (`core/mod.rs`) is the recursion: `pth` the
argument of the innermost call, `rests` what each waiting call will append, `ret` the
caller's String, which may hold something before (`had`). `Descend` is a call of itself,
`Bottom` the end of the recursion, `Ascend` a return, `Fail` a `?` that ends all of them.

**StdFiles** (`core/fs/stdfs.rs`) has operators from a disk to what `StdVirtualFS` answers;
`There` follows the link a path has on its way or at its end, as the operating system does.
**VirtualFiles** (`core/fs/chroot.rs`, `traits/vfs.rs`) has the stack, `layers`, on `base`,
the operating system's disk or an image whose file system is somebody else's. A reading
call is `Ask`, one `Forward` per layer and an `Answer` from the disk; disks may `Change`
between them. `Clean` is `normalize_prefix`, `Pushed` what it does to one piece. **OneFileSystem** says what any file system promises, without layers:
a root, and answers true of what is below it at one moment of the call. **Files** composes:
a tool has a path interpolated and asks a stack for what came out (`Find`). It also states
the refinement mapping `FS`, and `RootOf`, the directory a stack stands for.

**IpText** (`field/utils.rs`, `field/ip.rs`). A text is a sequence of bytes, a number the
sequence of its bytes or hextets. Each way an iteration of `ipv6_from_str` goes is an
action: `Ellipsis`, `NoHextet`, `ReadHextet`, `ReadIpv4`, `Unexpected`; `Finish` is what
follows the loop, `Relay` an address that is written and read by another tool.
**IpTextProps** has the grammar, which knows of colons and no offsets.

## 3. Runs

| run | instance | distinct states | checks |
|---|---|---|---|
| channel | 2 threads, 1 channel unbounded / rendezvous / of 1 | 23 681 | ExactlyOncePerSender, NothingAfterEnd, NothingAcceptedAfterGone, ContractHolds, BlockedCallsReleased |
| messaging | 1 worker with a logger and a notifier, 2 calls inside of each other, 1 filter change, unbounded or rendezvous | 255 592 | MsgTypeOK, CallOrder, NoMisrouting, EveryCallReturns, DrainThreadEnds |
| data | 2 records, every kind of field, 2 writes, 4-bit integers | 254 342 | AnswersHonest, ArtifactNamed, ReadOnceForAll, AnswersTravel |
| names | every variant, texts of 1 or 2 segments, 6 tools | 6 174 | ReadAsWritten, NamesSettle |
| environment | 2 users, 14 registries at rest or changing, 3 handles, 2 `auto_close_key` inside of each other, 1 lost handle | 498 733 | HandlesAccounted, EnvironmentTold, SteadyProfilesFound, KnownFoldersFound, EnvVarsReturn |
| times | 1 454 days at both ends of the day, 2 operations each | 141 388 | PartsFollow, OneCalendar, Rebuilt, ElapsedMoves |
| ip | 10 000 texts, addresses of 3 hextets of 2 digits | 32 702 | IndexInBounds, ParsedAsMeant, ReadBack, IpRead |
| files | 4 environments, stacks of 2 on 2 disks that change, 7 calls, 5 paths | 188 600 | StackSuffices, NothingOnNone, ListedIsThere, ExistsAgrees, FoundWhereMeant, Implements, CallAnswered |
| tree | 2 hives, 4 values, 3 keys added, 2 handles, 4 frames | 84 959 | ReadLikeRegistry, StepsLikeRegistry, AddKeyEnds |
| data_stale | as data | violated | AnswersCurrent |
| temp | 14 registries at rest, a reader with 3 handles | violated | TempFromEnvironment |
| times_december | as times | violated | DayTold |

*channel* shows that messages of one thread are received once each and in order,
that none is lost while the receiver lives, that final answers are final for
both sides, that blocked calls are released, and that every step is one of the
contract. Two messages per thread (`MaxSent`) are what order and "full, then
full again" need; capacity 1 is the smallest with a queue that fills, 0 has none,
and unbounded never fills. Two threads suffice for a race of senders and for a
race of the last clone's drop with the other's send.

*messaging* shows that a message overtakes an earlier call of its own thread only from
inside that call's arguments, that nothing redirects a message once its call began, with both cells, nested and
mixed, and that every call returns and every drain thread ends: on the rendezvous channel
because somebody drains it, on an unbounded one although nobody receives before the calls
are over. Two calls give one inside of the other and one after the other; the filter is
switched on and off at any moment between. A rendezvous holds up every send, so one worker is enough for
somebody to wait on the drain thread; races of several senders are *channel*'s, and the
proofs hold for any number of workers.

*data* shows that caches agree with values as long as nobody changes a field in
place, however casts, clones and relays are ordered; that artifact and name
agree; that a second reader of a record sees what the first saw; and that a
reader's answers are the writer's, except for dates, for floats that are no numbers and for
an address whose text is not read back, of which *ip* says which they are. 4 bits put values on both sides of the sign
and of the range; two records are what a copy and its original need; the two
writes may hit one field twice, or a field and the name. The casts the run
*asks for* are i64 and text, the ones that differ between kinds of fields; the
invariants look at all six.

*names* relays every artifact. Six hops exceed the number of segments any of
these names can lose. `Misread`, next to the property, lists the artifacts that
are *not* read as written, with the line responsible; `ReadAsWritten` says these
are all.

*environment* shows that whichever of the calls fail, and whatever changes between them, an
open handle has exactly one owner that will close it; that the variables are those of the
registry if it rested meanwhile, and all fifteen for a user whose hive and folders are there,
for registries that lack a profile, a hive, a key or a
value, or have a value of another type, an empty one or a home without a name, but for TMP,
TEMP and ProgramFiles, whose values have runs of their own; that known
folders are interpolated with these variables until no variable is left in front, unless
its variables name each other or one that nobody has, or have no value; that a profile that stays, and has a
home, is found while others come and go; and that the call ends although the
registry may never rest. Its functions hold two handles at most; three let those live
beside a lost one, or be given out, closed and given out again.

*times* shows, over leap years, ends of centuries, the first months of 1601 and the epoch of
1970, that the parts of a Filetime are those of its ticks but for December and
for the month after `+=`, that the three types agree (in December too, where they are
wrong alike), that `with_ymd_and_hms` undoes `new`, and that what is added or taken is what
`duration_since` tells to have changed. The u64 of the run ends after 228 years of nanoseconds, so
that its instants lie on both sides of that end. Days are real, a day's parts are not: two
hours of three minutes of five seconds of two milliseconds of three ticks of two
nanoseconds, so that four centuries of nanoseconds fit 32 bits; all different from their
neighbours, so that a swapped radix shows. Two operations
follow each other so that one is done on the result of any other.

*ip* shows that the readers take the texts of a grammar and give each the address it stands
for, that no two of them take one text, that an address survives being written and read,
and that reading ends in bounds. Three hextets of two digits have an ellipsis at the
front, inside and at the end, of one zero or more, and a dot behind any hextet; the texts are all of up to seven bytes of digits, letters and colons
(up to five or six with dots, zeros and a letter that is no digit) and some around the
greatest length, and the proof covers every number of hextets and of digits.

*files* shows that a stack of file systems is one directory of one disk, whatever the disks
become during a call, and that it forwards every call to an answer; that what it lists can
be asked for; that `exists` agrees on the stack it is right for; that a path is interpolated
to what it stands for, a path whose variables name each other overflows the stack and no
other does, and None leaves the String alone; and that a tool that interpolates a user's
Windows path and asks for it below the directory of a mounted machine gets that user's file.
Two layers are what "one in front of the other" needs; the environments have a
variable that names another, two that name each other, one of no value and one with a
lone `%`; four frames are one more than the most variables. A file becomes a directory, another
an empty one with a time before 1970, and links lead to files and to directories.

*tree* shows that a `TestingRegistry` reads as a Registry does, so that what *environment*
and the proof of HandlesOwned say of a reader is true of the one the tests use, and that each
step writes one value, makes one key or gives out one handle. Two handles are one to keep and
one to open below it; paths end in separators, have empty pieces, or one piece; the hives may
be missing, and one handle never was given out. Frames overflow at four, one more than a
path that ends needs.

`CHECK_DEADLOCK FALSE` stands where the system may really stop: all senders and
the receiver dropped, all threads ended, the last tool reached, or at a bound, the
operations of *times*; at an address that cannot be read; after a stack overflow. *data* and
*environment* never stop and are checked for deadlock.

Bounds of the models, all in guards: `MaxSent` (messages of a thread into a
channel), `MaxCalls`, `MaxDepth`, `MaxWrites`, `MaxHops`,
`MaxHandles`, `MaxDepth` and `MaxLost` of Registry, `MaxSteps`, `Limit` of Messaging, `MaxRet`,
`MaxLayers`, `MaxCounter`, `MaxFrames`, which stands for the stack there is, and `Width`, a u64
scaled like a day. `LastYear` is the last year of a u16, and 2100 in the runs. The
symmetry of *data* permutes the two records; it checks no liveness.

## 4. Fairness

`Wakeups` (ChannelProps): the standard library wakes a blocked `send`, `recv` or
`recv_timeout` whose condition holds. Weak fairness on each return suffices;
nothing is assumed of *calls*, of drops or of anybody receiving.

`WorkerFairness` (MessagingProps): arguments finish formatting (`Emit`), a send
that can return does (`Return`; on a rendezvous channel only while somebody is in a
receive or the receiver is gone, `Met`), and a thread that ended runs its destructors
(`Release` when not alive). Not assumed: that a thread ever logs, ends, or lets
go of a logger while it lives. `DrainFairness`: somebody receives from a bounded
channel, as the loop of `init_testing_logger` does, which
has no exit but the failed `recv` and no other work, so that the operating system's
scheduling of the thread is enough; an unbounded one is received from only once all
workers ended (`Listening`), which no call may wait for. `DrainThreadEnds` has
the application's and the workers' end as its premise, not as fairness.

`FairSpec` (EnvVarsProps): weak fairness of `Step`, the next call of the code being executed,
which is sequential and waits for nothing but its reader. It is not assumed that anybody
calls, nor that the registry changes or rests. The same of one sequential function each is
`Step` of IpText, `InterStep` of Interpolation, `Forward \/ Answer` of VirtualFiles and
`AddKeyStep` of RegistryTree: the next step of a call in progress, never a call.

## 5. Proofs

All theorems hold for every value of the constants that satisfies the named
assumptions (`ChannelAssumption`, `MessagingAssumption`, `DataAssumption`, `NamesAssumption`,
`RegistryAssumption`, `EnvVarsAssumption`, `IpAssumption`, `InterpolationAssumption`,
`FilesAssumption`, `PartAssumption`, `FileTimesAssumption`, `TreeAssumption`), which say only what kind of thing each
constant is and which of them differ, and of times that a clock it is given is one and that the
ticks of a u64 end (in the year 60056) before the years of a u16 (in 65535) do; TLC
evaluates them in the runs.

**MessagingProofs**, of channels - `ChannelTypes`, `ExactlyOnce`, `EndIsFinal`, `GoneIsFinal`. Order
alone is not inductive: that a new message does not come before an old one needs
`sent[c][t]` to be the greatest number of `t` in the stream, that nothing is lost
needs numbers to be without holes also across the boundary of `got` and `buf`,
and the final answers need "this answer was given" to imply "and still no sender,
no message" (`ChanInv`). Each is then preserved action by action.
`ChannelImplementsContract`: each step of Channel maps to
one of ChannelContract or to a stutter. Needs the injectivity of
messages in a queue (from ExactlyOnce) so that a set may stand for it, and that
its length bounds the size of that set.

**MessagingProofs**, of what uses them - `MessagingUsesChannels` shows that each step of Messaging is one
of Channel or leaves it alone, so all theorems about Channel hold here too;
`MessagingTypes`, `NeverMisrouted`, `CallsInOrder` follow
from `MsgInv`. Its parts: a cell holds a logger or a notifier as its type says
(`CellsTyped`); a thread inside of a send sends its innermost call with the
borrowed cell (`SendsTop`); each frame's cell is still the one it borrowed and
its ticket above those of the frames around it (`Frames`); a message in a channel
comes from a call that is no longer running (`Messages`). Without `Frames`,
`Initialize` could redirect a message; without `SendsTop`, `Return` could pop the
wrong call.

**ForensicDataProofs** - `CachesNeverLie`, `NamesAgree`, `ReadingSettles`, from
`DataInv` = `Shape` (every object is bound to a record), `CachesCoherent` (each
cache knows nothing or the cast), `NamesKept`. They hold for all
sets of artifacts and names, whatever Display and from_str do; that is why
`ArtifactNamed` allows the artifact to be the reading of the name.
`AnswersAlwaysTravel` and `CastsAlwaysFit` need `DataTyped`, which also says that each cache
is of the type of its cast: a number is written as a u64, an i64 or an f64, and is read back
as a u64 if it is an integer that is not negative, so that the answers agree because of how the
ranges lie in each other (`Widths`, for any number of bits). A float travels if it is finite;
one that is not is read as Null, and `Travels` excepts it.

**EnvVarsProofs** - `HandlesOwned`, for any registry, users and numbers of handles and
for both kinds of readers. That an owner is alone is not inductive: it needs to be
known how many handles each function holds where it is, and which (`Control`), and
that a handle given out is none anybody owns (`Handed`): every owned handle is open, and
numbers that are never freed are all below the counter.
`SteadyAlwaysFound`: in a registry that changes under the loops, a user whose profile stays
gets a map with his home. A handle has to belong to the path it was opened for until it is
closed (`Keyed`), homes that were entered are not taken back (`Standing`), and each steady
user is in the list still to be read, is the one being read, or is entered already
(`OnTheWay`); this is where a loop that ended at a key that disappeared would be caught.
`EnvironmentAlwaysTold`: if the registry rested, the map has the users and the values the
registry says, and the fifteen variables of those that are `Loaded`. What each of the three phases has filled so far is stated of the users or names
that are no longer to be done (`Looked`, `Listed`, `Filled`), under the condition that the
registry still rests (`RestInv`).
`FoldersAlwaysFound` puts these contents together with the table of known folders: the six
variables that folders begin with are found for every user with a hive and folders
(`ExpectedHeads`), so that only what `StillLeads` names can go wrong. It needs
that values of the registry are texts (`RegTyped`).

Of the names of artifacts: `AlwaysReadAsWritten`, for texts of any length over any segments:
an artifact that is not in `Misread` is the one its name is read as, after any number of
tools. The tables are looked through case by case (`ReadBySystem`, `ReadByGroup`, `WellRead`);
what is particular to them is that a text may itself begin with a name of the table.
`NamesAlwaysSettle` needs to know the way of a name that is not kept: it is one of a Linux
service, to which each tool adds; or it stays as it is; or does after one more tool; or it gets
shorter with every tool, and stays when there is nothing more to lose (`Fate`, `Approach`).
It takes no more tools than the text of the first artifact has segments.

**IpTextProofs** - `NeverOutOfBounds`, for any texts, three hextets or more of any number of digits.
Inductive with what `Reading` adds: that the loop is left as soon as all hextets are read,
so that an index is below their number inside of it, and that an ellipsis is not behind
the hextets read.

`ParsedAsMeantAlways`, of the same generality. The grammar splits a text at its colons; what it
gets are the pieces between cuts, and there is one way to cut (`SplitAt`, `SplitPart`). The
invariant `Meaning` says in these terms how far the loop has come (`UpTo`): the cuts up to the
offset, with a hextet between each two and its value in `address`, and before them, behind
an ellipsis, the same again (`Told`). An iteration adds a cut (`HextetsGrow`). A return of Err
is right because no text the grammar knows has what stands at the offset (`Possible`:
its bytes, its one ellipsis, no more digits at a stretch, no more fields than hextets), and
that of an address because the hextets that move behind the ellipsis are the ones the grammar
puts behind its zeros (`Spread`, `MovedIs`). The loop sums a hextet from its first digit, the
grammar from its last (`ValueIs`).

`ReadBackAlways`, of the same generality too. The digits that `Numeral` writes come to the
number, and there are no more of them than a hextet has (`DigitedTells`, `NumeralHex`,
`NumeralDec`). What was joined with a byte that no part has is cut where it was joined
(`JoinedCut`), so that the grammar finds the hextets that were written, one by one
(`PlainWritten`) or around the ellipsis (`AroundWritten`), and nothing in an address with dots
(`MappedWritten`); four bytes are read as those bytes (`OctetsRead`). As a text means one
address only (`MeantOne`), `Meaning` then leaves one answer. The invariant `Shown` adds what
the first reading has to leave behind: hextets and bytes that fit in their digits
(`AnswerFits`), and the text written from them.

**SharedLemmas** - induction over numbers and sequences without an operator as a parameter:
`SetInduction` and `SeqInduction` speak of the set of those for which something holds, and
follow from the pigeonhole (a number that is missing has one before it that is missing, and a
finite set has no room for that). `FlattenSeq` and maps that are flattened are shown to be what
their recursions say (`FlattenIs`, `FlattenConcat`, `FlatMapConcat`, `FlatMapNested`). What
`Rewritten` comes to: the list of its steps exists and is the only
one (`StepsExist`, `StepsUnique`), it stays as it is once nothing leads (`StepsSettle`), and, as
variables are finite, a text that leads to the end has gone through one of them twice
(`RoundAgain`, the pigeonhole) or stops at one that nobody has (`StillLeads`).

**FilesProofs**, of interpolation alone - `NothingLost`: the String is what it was from the
call to the bottom of the recursion. `StackAlwaysSuffices`, for any paths, environments, folders
and number of frames greater than the variables of an environment. The overflow is a property
of the past: the invariant `StackInv` keeps the variables that the waiting calls went through,
each named in front of the value of the one before (`Trail`), and, once the recursion has
turned, that they lead to something that is not a variable, so that no set of variables
closed under naming has the first of them (`Caught`). A trail longer than the number of
variables closes (`RoundAgain`). `InterpolatedAsTold`: what is answered is what was there, followed by `Rewritten` of
the path, for variables with values. On the way down, the path in hand and what the waiting
calls will append are a step of the rewriting (`OnTheWay`); on the way up, the String and what
is still to be appended are its end (`OnTheWayBack`); that the rewriting has come to its
end in as many steps as there are variables is `StackInv` again.

**FilesProofs**, of the whole - `StackImplements`: a stack of any number of layers on any disk is
one file system (`OneFileSystem`) with the root `RootOf`. The invariant `FilesInv` says that a
path on its way down is the root of the layers it has passed followed by what was asked for
(`Passing`), which needs that cleaning a path distributes over its concatenation and does
nothing to a clean one (`CleanConcat`, `CleanOfClean`), and that a layer put in front or taken
off appends to `RootOf` or removes from it (`RootOfOuter`, `RootOfInner`). From it follow `ExistsAlwaysAgrees`, and
`ListedIsAlwaysThere`: an entry of a listed directory is at its name below the directory whichever
link has led there. `AlwaysFoundWhereMeant` needs both halves: what was found is the file
`Rewritten` names, below the root of the stack (`FoundInv`). `StackEverSuffices` and
`NothingEverLost` say of the composition what was proved of interpolation.

**FileTimesProofs** - `PartsFollowAlways`, `OneCalendarAlways`, `RebuiltAlways` and
`ElapsedMovesAlways`, of any timestamps of a u64 of any width, any durations and instants, any operations in
any number, and a clock of any radices; the days are real. Parts are kept beside the ticks, so
the invariant (`IInv`, a part of the run's states that TLC checked first) says where they
came from: `new` made them of the ticks, or the ticks were made of them and their date is one
that some day is told as (`Dated`), or they are those of the ticks but for the month. Without
`Dated`, nothing would be known of what `with_ymd_and_hms` counts. The loops of `to_years` and
`to_years_unix` are solved once, for any first year up to 1971 (`YearExists`, `YearIs`: they
end at the year the reference finds, or before, by the 366th day only), the leap days they count
by the formula (`LeapsAre`, by induction), the tables month by month (`MonthsAre`, `MonthDayIs`,
`DecemberIs`). A clock is taken apart and put together by quotients of quotients
(`DivSplit`, `DivUnique`, `ClockIs`, `ClockBack`); that ticks, milliseconds and nanoseconds cut
the day at the same place is `DateAgrees`. Where less than 2^64 nanoseconds are counted the cast
of `duration_since` is the identity (`ElapsedIs`), and what + and - round off is less than a tick
(`Rounded`).

**RegistryTreeProofs** - `StepsLikeAlways` and `ReadLikeAlways`: TestingRegistry is a Registry, for
any names, values, paths and handles, and any stack that `add_value` has room on. The map of keys
(`Flat`) is found level by level, the code descends from the root on every call, so the argument
is about where a path leads: `Down` a path with one name more is one step further
(`DownAppend`); a cell that is written changes what is below it and adds one name to each cell
above it, and leads elsewhere as before (`DownGrown`, `GrownAt`); hence the map gains the keys
above it and nothing else (`FlatGrown`). The invariant (`TreeHolds`, which TLC found in all
states of the run first) is needed for the handles, whose paths were looked up once and are used
on a tree that has changed since: they are those of hives, or of keys that are there. It
says as much of a call of `add_key` on its way, which writes below the key it has just made, and
that no key is deeper than the stack, without which `Flat` would not reach all of them. Lists are
the names in the order of a BTreeMap, each once, so positions and their number are those of
a set (`OnlyAre`, `NthIs`).

Only model-checked: all liveness and everything that needs ENABLED, which the
prover does not support: `AddKeyEnds`, of RegistryTree, among it. `FoundWhereMeant`, in the runs and
in the proofs, is about variables that have values: one without lets the next part of
the path lead, and is covered by `StackSuffices` and `NothingOnNone` alone.

## 6. Abstractions and limits

* The queue is the standard library's, modelled by what the wrapper can tell
  apart. A thread owns at most one clone of a sender: more clones in one thread
  change nothing but the moment `hold` loses the thread. The receiver is not
  `Clone`, hence one receive call at a time.
* `MAX_NOTIFY_LEVEL_FILTER` is accessed with relaxed order. For a single atomic
  this still gives one history of values; the model lets a call read the latest.
  A thread may in fact read an older one: a set_max_level that comes later in the
  model stands for it, as no other state is ordered by the filter.
* The default logger drops what it is given; this is what the code says, and no
  property speaks of messages a thread logs before it has a logger. A thread that
  drains the bounded channel it logs to blocks on itself; no function of the crate
  does that, and the model has no such thread.
* A panic is modelled where the crate itself provokes one, `borrow_mut` under the
  macros' borrow; any other panic in an argument unwinds the same way.
* Numbers: `as` casts wrap or saturate at `Bits` bits. `f64` is taken at integral
  values, the infinities and NaN, fractions are left out, and `u64 as f64` is taken as exact. The
  text of a finite float is taken to be read as that float; serde_json without its feature
  `float_roundtrip` may be off by the last digit of one with a fraction. Dates are ticks, their text a table, as is the
  text of an Ip in ForensicData: IpText reads it byte by byte.
* Texts have segments without single colons, and the name of an `Other` operating
  system does not contain `::`.
* Registry paths are sequences of keys, keys are called by their last part, and
  a text is a sequence of parts of a path on disk; `%SystemRoot%` and `%USERPROFILE%` are a first
  part, in the capitals that both occur in. A drive is the first part, as `&s[0..2]`
  takes it; a home of one part stands for those up to three bytes. Users are taken in any
  order, the code sorts them. `open_key`, `read_value` and `enumerate_keys` are those of
  `TestingRegistry` for every reader.
* A Filetime is given dates that exist and that a u64 counts. A subtraction below 1601 panics in a debug build and
  wraps in a release build, modelled by some other timestamp (`Wraps`). Years
  beyond a u16 are out of the model's reach.
* `ElapsedMoves` says nothing where 2^64 nanoseconds, 584 years, or more are counted and the
  cast of `duration_since` (`utils/time.rs:217`, 219) starts again at zero, nor of instants before
  1970, for which every Filetime gets the same error (211).
* Ip text: an address of the greatest length, 39 bytes, is refused (`field/utils.rs:93`, which
  says 38 below a comment that shows 39); a colon too many is not, at the end of a text with an
  ellipsis; the bytes of an IPv4 address are taken as they are, so that `::ffff:1.2.3.4`, which
  the standard library writes, is not read back. `ParsedAsMeant` and `ReadBack` name these;
  `ParsedAsMeant` claims nothing of any address that ends in one with dots, which the code always refuses (section 7).
* Paths of the file systems have no `..`, which `normalize_prefix` keeps and the model would
  have to resolve, and no piece of colons alone; a link leads to a place that has no link
  above it, at it or below it (`IsDisk`). `read` and `seek` of an open file are the standard library's. The image's file system
  answers like the operating system's. `exists` of a stack asks the operating system whatever
  it stands on: ExistsAgrees is about those it stands on directly.
* A tool interpolates and asks in turn (`Find`, `Drop`): neither module reads what the other
  keeps, and all orders of their steps in between add nothing but states.
* Known folders of one kind are one. A variable whose value is empty hides what follows it;
  PUBLIC and ALLUSERSPROFILE are found by no function of env_vars.rs, so the folders they
  begin are not found (`KnownFoldersFound` asks for the variables env_vars.rs lists).
* Of a user who is not `Loaded`, `EnvironmentTold` claims the variables that all have in common
  and leaves open whether there are more.
* `TestingRegistry` opens a path that ends in a separator and a key without a name alike where
  the tree has one; `Named` leaves its handles out of ReadLikeRegistry. `key_at` and `value_at`
  panic at the end of the list, where a caller that counts would be told NoMoreData;
  `add_key` overflows the stack on a path without a separator at its end: ReadLikeRegistry and
  AddKeyEnds say what holds besides. The hive of the classes and of the current user are like
  that of the machine and left out.
* Display of records, plain iterators and `enabled_level` change nothing and have
  no part in any property.

Not modelled: the safe readers (`utils/unpack.rs`), which nothing in the crate calls, and
`to_string_sid`, each a slice behind one check; the conversions of `RegValue` to numbers and
bytes; the ranges of local addresses; `sql.rs` (traits over a database), `err.rs`, parser
traits, activities and dictionary (no behaviour).

## 7. Findings

* **data_stale** (`data.rs:66`). The comment at `data.rs:74` and those at the other accessors
  promise the casted value of the field. `field_mut` and `iter_mut` hand out the original
  and leave the caches: a field that was asked for, or a number that was inserted
  (its own cast is cached at once, `field/internal.rs:42-58`), goes on answering
  from its old value. Shortest run: a number is inserted, changed through
  `field_mut`, and asked.
* **temp** (`traits/registry/extra/env_vars.rs:188`). `Environment` is opened and never read: TMP
  and TEMP are asked of `shell_folders`, closed three lines before. A reader that closes
  answers with an error, hence the default, or with another key's value; if it gives the
  closed number to `Environment` at once, the right value comes by chance.
* **times_december** (`utils/time.rs:78`). December is past the end of the tables, and its
  days are counted from that of a leap year: in other years the second is told as the first, the
  last as the 30th. In leap years the loop of `to_years` tells the last day as the 30th as well.

Further disagreements have no run of their own; the properties that meet them carve
them out by name, so that everything else is still checked.

* `RegistryArtifacts::ShimCache` is displayed as `InitD` (`artifact.rs:198`) and read
  back as `Other("InitD")`; the test at `data.rs:373` asserts the round trip of ShellBags. In
  `Misread`.
* `+=` does not take over the month (`utils/time.rs:253`). In `PartsFollow`.
* A day of December is made into one of January by `with_ymd_and_hms` (`utils/time.rs:409`,
  414). In `PartsFollow` and `Rebuilt`.
* `duration_since` takes nanoseconds since 1970 off nanoseconds since 1601 (`utils/time.rs:213`),
  so that all that elapsed is 369 years too long and an instant up to 369 years ahead has passed,
  against 208-210. `ElapsedMoves` is about how the answer changes and not about where it starts.
* A user with a profile whose hive is not loaded (`traits/registry/extra/env_vars.rs:164`), or
  has no `User Shell Folders` (173), gets eight of the fifteen variables that 8-24 promises "all
  users which have a profile", without HOMEDRIVE, HOMEPATH and USERNAME, which come from the
  profile. `EnvironmentTold` claims all fifteen of the `Loaded` and eight of the others.
* ProgramFiles is asked for as `ProgrammFilesDir` (`traits/registry/extra/env_vars.rs:140`), though
  its sibling (143) is `ProgramFilesDir (x86)`; it is never found and always the default. The
  value of that one variable is left out of `EnvironmentTold`.
* The IPv4 text at the end of an IPv6 address is given to a function that takes four raw bytes
  (`field/utils.rs:184`): it is refused for its length, and a rest of just four bytes is refused
  behind the loop (203), so that the branch never succeeds, although 167 and 192 describe how it
  does. `Dotted` in `ParsedAsMeant`.

`Misread` in ArtifactNames lists the other disagreements between the two tables: WinEvt
`Setup` and `Application` are not read; the `Other` of Windows and of Linux lose a
segment at each reading; the name of a Linux service grows; `Linux::Unknown` is
shown as `Log::Unknown`; `Mac::` is written and `MacOs::` is read. No text
of the repository promises those, and they are recorded as exceptions of
`ReadAsWritten` instead.

## 8. Plan

Order: what the crate's users share first, then what parsers call.

1. **Done** Channel, ChannelContract, Messaging and their proofs.
2. **Done** ForensicData with context and fields; ArtifactNames.
3. **Done** Registry, EnvVars and the proof that handles have owners; FileTimes.
4. **Done** RegistryTree against Registry; Interpolation, VirtualFiles and Files against
   OneFileSystem; IpText against a grammar.
5. Readers, SIDs and `RegValue`: bounds at the ends of the integer range.
6. ForensicData with the texts of IpText in place of its table `IpIn`.
