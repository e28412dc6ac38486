# tig: a TLA+ development

`tig` (Rust, `src/crates/`) is a version-control system: a content-addressed
object store, changes whose tip moves with every snapshot, an operation log
that makes every step undoable, workspaces on disk, and a daemon (`tigd`) that
serves the same repository over HTTP.  This directory holds TLA+ models of its
core, the TLC configurations that check them on small instances, and TLAPS
proofs of what matters most.  Paths below are relative to `src/crates/` unless
they begin with `README` or `docs/`.

Contents: 1 the system, 2 the models, 3 the runs, 4 the proofs, 5 what the code
does against its documents, 6 what is not modelled, 7 the plan.

## 1. The system

| Component | State it keeps | Operations | What must be right |
| --- | --- | --- | --- |
| operation log (`tig-store/oplog.rs`) | one append-only file of length-prefixed records; `next_id` in each open handle | `open`, `append`, `list`, `undo_once` | ids identify records; the records explain the refs; undo takes the last operation that stands and restores *all* it touched |
| refs (`tig-store/refs.rs`) | `HEAD`, one file per change | put, get, delete, each by tempfile and rename | a ref never names what is not there |
| object store (`objects.rs`) | one file per object, named by its hash | put, get, iterate, remove, resolve a prefix | a reader sees an object whole or not at all; concurrent puts of one object leave it whole |
| garbage collector (`gc.rs`) | none | mark from refs and (by default) from the log, sweep | nothing that refs, undo or the log can still reach is removed |
| write lock (`repo.rs`) | `flock` on one file | `lock_for_write`, release by drop or death | a command's read-modify-write is atomic; nobody waits for ever |
| workspaces (`workspace.rs`) | a manifest per secondary workspace; a `.tig-workspace` marker in its directory | discover, current change, set change, make, drop | a directory acts as the workspace it was made as |
| snapshots (`tig-fs/snap.rs`, `tig-core/change.rs`) | change records: current, history, state, visibility | `snap_now`, `snap_change_directly`, `Change::advance` | no snapshot is lost except by undo |
| workdirs (`scan.rs`, `restore.rs`, `materialize.rs`) | the files of each workspace | scan, clear, render, clone | restore without `--force` destroys nothing; what it says it restored is restored |
| watcher (`watch.rs`) | a `Workspace` and an `OpLog` handle for its lifetime; the debouncer and a channel | snap after a burst of events | no edit is forgotten; it does not wake itself; it stops |
| CLI (`tig-cli/main.rs`) | none between commands | discover, lock, open the log, read, write refs, append | every state change is recorded |
| daemon (`tigd`) | one `OpLog` handle behind a tokio mutex; a repository handle | one handler per route | writers do not block each other for ever; same log discipline as the CLI |
| visibility (`tig-core/vis.rs`, `tigd/handlers.rs`) | an author and a visibility per change | list, get, tree, snapshot, diff, blame, grep, op log | an answer shows what its caller could see, withholds nothing else, and fails only for a reason |
| principals and tokens (`tig-vis/principal.rs`, `tokens.rs`) | `vis/keys/<name>.json` | create, mint, verify | what was reported created is on file; a token is good for its subject and time |
| sealed values (`tig-vis/seal.rs`, `tig-core/sealed.rs`) | sealed entries of trees | seal, reveal, materialize | recipients can open, others cannot, plaintext does not get out |
| trees (`tree_edit.rs`) | none | look up, list, insert, remove | an edit of a tree is the edit of a file |
| `diff.rs`, `grep.rs`, `blame.rs` | none | compare, search, attribute | a diff explains the difference; hits are the first in order; a line belongs to the snapshot that wrote it |

**How they interact.**  A CLI command discovers its workspace *before* it takes
the lock, takes the `flock`, opens the log (which computes the next id), reads
refs, writes objects, then refs one file at a time, appends one record, and
exits; exit or death releases the lock.  The daemon does the same inside each
handler, except that its log handle is opened once at start and shared behind a
mutex that is awaited *after* the blocking `flock`.  A watcher takes the lock
for each snap, with a workspace and a log handle opened when it started.
Readers (`tig log`, GET handlers) take no lock, nor does `tig identity new`.
Users edit files at any time, a watcher's scan included.

**What is hard.**  Handles that are older than the lock they act under; deaths
between two of the writes of one command, or inside one of them; undo over
what other processes did since; collection against undo; restores that fail
halfway in a directory users are editing; blocking and awaiting on one pool of
threads; reading record by record what is hidden or undone meanwhile; files
edited while they are scanned; keys replaced while they are in use; and the
index arithmetic of hunks, caps and attributions.  `PROJECT.json` lists these
hazards line by line.

## 2. The models

| Module | Models | In steps of |
| --- | --- | --- |
| `OpLog` | refs, log, every writing command of CLI, watcher and daemon | one command (and what precedes the lock; and, in `SpecCrash`, a death between two writes) |
| `UndoStack` | what undo promises, abstractly | one operation or undo |
| `Command` | one writing command against the others | lock, open, read, each ref write, header, payload, release, death |
| `Ledger` | what the lock promises, abstractly | one commit |
| `ObjectPut` | puts and gets of one object, with the lock and without | system calls |
| `Gc` | `OpLog` extended with trees, blobs, the store and `tig gc` | one command or collection |
| `TigdRuntime` | requests, worker threads, the `flock`, the log's mutex | one poll of a task |
| `Workdir` | the directories behind workspaces, restore in detail | one entry cleared or rendered |
| `Visibility` | every reading endpoint of `tigd`, against the commands that write | one record read, one record or half a log record written |
| `Watch` | watchers, their events, debouncers, channels and scans, users and other commands | one file read, one loop step |
| `Identities` | `vis/keys`, tokens, sealed values | system calls of `identity new`; else one command |
| `Trees`, `Lines` | `tree_edit.rs`, `diff.rs`; texts, alignments, hunks, attribution | (operators) |
| `FlatFiles` | what edits of a tree promise: files by path | one edit |
| `TreeHistory` | snapshots made by edits; `blame.rs` over them | one edit |
| `Grep` | `grep.rs` over the last of them | (operators) |
| `MCOpLog`, `MCGc`, `MCWorkdir`, `MCTreeHistory`, `MCIdentities` | symmetry, small trees and texts | |
| `OpLogProofs`, `GcProofs`, `CommandProofs`, `WorkdirProofs`, `WatchProofs`, `IdentitiesProofs` | proofs about the module they are named after | |
| `TigdProofs` | proofs about `Visibility` and `TigdRuntime` | |
| `ObjectProofs` | proofs about `ObjectPut` and about `TreeHistory` with all it is built from | |

The modules stand on each other.  `OpLog` takes a command's critical section as
one step; `Command` splits it up and is shown to implement `Ledger`, the same
one step.  `Command` takes a ref write as one step; `ObjectPut` splits up the
tempfile-and-rename protocol that refs and objects share.  `Gc` extends
`OpLog`: its `Command` is `OpLog!Next` together with the objects the command
writes.  `UndoStack` is the abstraction of `OpLog`.  `Visibility` and `Watch` take
the write of the refs under the lock for one step, as `Command` shows they may
(but `Visibility` splits the append, which readers of the log can see halfway),
and `Watch` is the scan that `OpLog`, `Gc` and `Workdir` take for a step.
`TreeHistory` is built from `Trees` and `Lines` and implements `FlatFiles`; `Grep`
extends it.

**OpLog.**  `refs` maps `HEAD` (`Main`), each secondary workspace and each
change to its value or `None`; `log` is the file; `ctx[p]` is what a process
learnt from `Workspace::discover` before it locked (for a secondary workspace,
the change its manifest named *then*; for the main one, nothing, since `HEAD`
is read under the lock); `next[h]` is the `next_id` of a handle that outlives a
command (watcher, daemon).  A capture (`Vec<RefSnapshot>`) is a function on all
ref names with `Same` where it lists nothing, so that writing the refs of a
command, reading the before-capture and undoing are one operator each
(`Overwrite`, `ReadCurrent`).  `XWrites` is the set of captures command X may
leave; `Commit` writes it and appends the record.  Snapshots are numbers;
`SnapWrites`, `SealWrites` etc. have the early returns of the code as empty
sets.  `PickOpToUndo` is given by counting (`Height`), not by the loop of the
code; `UndoDepth` transcribes the loop, and `PickIsScan` says that it gives the
same.  An `Unchanged` snap writes nothing and is a stutter.

**Command.**  Refs are version numbers so that a lost update shows.  A job is
the set of refs a command writes and whether it opens the log before or after
writing them (`wt make`, `wt drop`, `change set-*` open it after).  `torn` says
that the file ends in a header without payload.

**ObjectPut.**  A file is a number (an inode) and the set of pieces written to it, so that
a writer that has opened the tempfile goes on writing to it whatever it is called
now.  Writers in `Unlocked` are those of `tig diff`, `tig log -p` and the daemon's
diff, which put without the lock; the others take it first.  `Get` is what a get
reads: it opens the file by name once.  Two variables are history.  `met` says of
each put which writers were between create and rename at the same time, `spoiled`
which files belong to a writer that had raced and died writing; `Raced` is a
meeting with one of the two outside the lock.  That the file may be removed
again by a collection is `Gc`'s subject.

**Gc.**  `snaps` gives each snapshot its tree and parent, `store` is what is on
disk.  A command that scans puts the whole tree; one that edits a tree in the
store puts only what is new, since `rewrite_insert` reuses the rest.  `spared`
is a history variable: no `gc --ignore-oplog` so far.  `Closure` is the mark loop:
as many rounds as there are objects to open.  A sweep that dies has removed some of
what is not marked.

**TigdRuntime.**  `Poll`, `FlockReturns`, `Resume` and `Finish` are what a
worker thread does between two suspensions of a handler: `lock_for_write`
blocks the thread, `log.lock().await` gives it back.

**Workdir.**  All workspaces are on one change (as `wt make` leaves them) whose
tip is the last snapshot; undo and other changes are `OpLog`'s.  `Scanned` and
`Cleared` are the two different sets of names that scan and `clear_workdir` go
by.  An entry of a tree is a file or a sealed file.  `Abort` stands for death,
an I/O error, a missing object and a sealed entry the identity cannot open.
`wt make` is one step.

**Visibility.**  A record is what a reader looks at: author, visibility, current
snapshot and history.  A request (`Ask`) is the endpoint's way through the code,
its caller, its change, the snapshots it names (0 for the change's current one)
and the op log's limit; `Asked` is the set of all of them, one operator per
endpoint.  `LoadVisible`, `ListIds`, `ReadRecord`, `EndRecords`, `ListOps`,
`ReadReference`, `EndOps` are the reads of the handlers, in their order.
Commands of the CLI and the daemon create, advance, hide, publish, undo; `Write`
keeps a history per request of what its caller could see or reach at some
moment (`EverSeen`, `EverReached`) and at every moment since it arrived
(`AlwaysSeen`, `AlwaysReached`), which the properties compare the answer with.  A
writer that dies is `Command`'s subject.  Only `public` and `private` are ever set
by code (`parse_vis_label`, `new_private_draft`).

**Watch.**  `events[w]` is what kernel and debouncer hold, `queue[w]` the channel.
Of an event the loop sees whether its path is below `.tig` and whether its kind
is Create, Modify or Remove, hence three values.  `LockAndList`, `Read` and
`Record` are `lock_for_write`, `read_dir`, `fs::read` file by file, and the rest of
`snap_now`.  The tip is a tree; all workspaces are on one change, the
secondary ones below the main one's `.tig-worktrees`.

**Identities.**  A record is an inode (`reg`), so that a process that still has the
tempfile open may write to a record after another has renamed it into place.
A key pair is a number made once; a signature or a wrap is the number of the key
it was made with; a seal's `aad` is the path as typed and the entry is where
`split_path` puts it.  `seen` records, by one conjunct of `Next`, what was on file
for a request's subject since the request arrived.

**Trees, Lines, TreeHistory.**  A tree is a function from names to entries, which
contain their subtrees.  An edit rewrites the trees along its path from the end to
the root, which is a function of how deep it is (`Insert`, `Delete`).
`DiffSubtree` is the set of changes: `ComesTo` says how the descent of the code
gets to a path.  `Alignments` is the set of longest common subsequences: the
`similar` crate returns some, which one is not assumed (`AnswersFor`), except that
it is the same for the same texts (`Answers`).  A line is its text and what ends
it: a newline, a carriage return alone, or the end of the text.  The lines of a
diff are those of `similar`, which end at each of the three; the lines that
`str::lines` counts (`StrLines`) do not end at a lone carriage return.  Blame uses
the latter for a file that is new and the former from then on (`BlameAt`); where
the parent's attribution is too short for an index of the diff, the snapshot itself
is credited (`Inherit`), as `blame.rs:111-117` does.  `Script` is the order of the
changes that `iter_changes` gives, by how many lines of both sides come before each.

**Grep.**  The walk and the scan of a file call themselves as the code does, with
the hits so far as an argument; a hit's number counts the lines of `str::lines`; the order of names (`NameSeq`) is a constant.

## 3. The runs

| Run | Configuration | Shows |
| --- | --- | --- |
| `oplog_cli` | 2 CLI processes, 2 changes, 1 secondary workspace, 4 records, 2 snapshots, deaths (`SpecCrash`) | `TypeOK`; `PickIsScan`, `PickIsLastNotUndone`: undo takes the last operation no undo names; `OpIdsUnique`; `HeadExists`: not even a death leaves `HEAD` naming nothing |
| `oplog_handles` | 1 process, 1 watcher, 1 daemon, 2 changes, 4 records, 2 snapshots | `LogExplainsRefs`: replaying the log gives the refs; `NoSnapLost`; `UndoRewinds`: `OpLog` implements `UndoStack` although ids may repeat |
| `command` | 3 processes, 2 refs, 3 commands, 2 deaths | `Atomic`: implements `Ledger`; `CommandEnds` (liveness) |
| `object_put` | 4 writers, 2 of them without the lock, 2 pieces, 3 files, 2 deaths | `FailureIsRace`: a put fails only in a race with a writer outside the lock, and then the object is there; `GetIsWhole`: only such a race shows a reader part of an object |
| `gc` | 1 process, 1 daemon, 2 changes, 4 records, 3 snapshots, 4 trees, both settings of `--ignore-oplog`, sweeps that die | `LogFetchable`, `LiveFetchable`, `UndoFetchable` |
| `gc_symlink` | the same with a symbolic link in a tree | violates `LiveFetchable` |
| `runtime_serves` | 3 workers, 3 writing connections, 1 reading, a CLI command | `LogHandedOn`, `RequestsEnd` (liveness) |
| `workdir` | 2 workspaces, 2 files, 2 contents, 3 snapshots | `TypeOK`, `WorkKept`, `RestoreExact` |
| `visibility` | 2 callers, 2 changes, 1 request, 2 commands | `TypeOK`; `ShownWasVisible`, `NothingWithheld`, `FailureExplained` |
| `tree_history` | 3 names, one beginning another; 4 paths to depth 2; 5 texts of up to 5 lines, one binary, one with a lone carriage return; sealed entries; 3 first trees; caps 0, 1, 2 and none; contexts 0, 1, 3; 4 snapshots | `EditsAreFlat`: edits implement `FlatFiles`; `PrunesOnItsPath`: they remove the empty directories on their path and no others; `DiffExplains`: a diff applied to the old files gives the new ones; `FilterKeepsAskedFor`; `HunksFit`; `GrepIsFirstHits`; `BlameTrue` |
| `watch` | 2 watched workspaces, 1 file, 2 edits, other commands or faults, 1 batch queued | `TypeOK`; `NothingForgotten`; `Quiesces`, `Stops` (liveness) |
| `identities` | 2 names, 2 creating processes, 3 identities, 1 token or seal, 2 moments, 2 spellings of a path | `TypeOK`, `IdentityKept`, `TokensExact`, `SealedForHolders`, `PlainOnlyIfOpened` |

**Why the bounds are enough.**  Four records contain the shortest logs on which
the undo walk can go wrong (two operations, two undos: the second undo must
skip what the first undid) and an operation after an undo.  Two changes give a
workspace a change to leave and one to go to; an id is used again only when no
record mentions it, so more ids are never in play at once with four records.
Two deaths give a death during the clean-up after a death.  Of `ObjectPut`'s writers
two contend for the lock and two do not, so that two without it, or one with and
one without, race while a third comes and goes; three files are what two renames and
a tempfile left behind need.  Three snapshots in
`Workdir` are a tip, a target that is not the tip, and the snapshot that ends
the restore.  Trees in `Gc` have one of every kind of entry, at the root and in
a directory.  In `Visibility` one request meets two commands between any two of
its reads, which suffices for a change to be created, moved and hidden, or hidden
and undone, around it (three commands, 23 million states, were checked once as
well).  `Watch`'s two happenings put an edit, a command of somebody else or a
fault on either side of a scan and in its middle (three, with two files and one
watcher, or without the liveness properties, were checked once as well).  Four
snapshots let a file be written, removed, and written again below a directory
that took its place.  Three identities are one name's first and second and
another's; two tokens or seals with two identities were checked once as well.
What does not depend on a small bound is proved (section 4).

`CHECK_DEADLOCK FALSE` is set where a bound (`MaxOps`, `MaxSnaps`, commands
started) ends all behaviour, which the program does not.  The runtime's run
checks deadlock.

**Fairness.**  `Command`: a process that can take its next step takes it (WF on
`Step`), since nothing in the critical section waits for anyone; a waiter is
not passed over for ever by `flock` (SF on `Acquire`).  `Start` and `Crash` are
not fair.  `TigdRuntime`: tokio's run queues are FIFO and stolen from, so a
ready or woken task is run whenever workers are free again and again (SF on
`Poll`, `Resume`, per task, not per worker); the kernel does not pass over a
`flock` waiter for ever (SF); a handler that has both locks runs to its end
(WF).  Requests and commands may stop coming.  `Watch`: a watcher's thread runs, and
`flock` does not pass it over for ever (SF on `Step`); of events that lie in the
debouncer some are delivered after its delay (WF on `Deliver`).  Nothing
obliges users, other commands, faults or Ctrl-C.  All other properties are safety
properties and are checked without fairness.

**Assumptions the passing runs make, and what happens without them.**
`runtime_serves` has no more writing requests at a time than workers;
section 5 shows why.  `workdir` has `EditsAnytime = FALSE` and `Hidden = {}`:
with either changed `WorkKept` fails (section 5).  `NothingForgotten` excuses a
watcher that had a fault since its last scan began, and a tip that somebody else
moved after that scan; `IdentityKept` excuses names two processes were creating at
once.  `FailureIsRace` and `GetIsWhole` excuse a race in which a writer is outside the
lock, `BlameTrue` the snapshot after one in which the file came with a text whose
two splits into lines differ; such races and such texts are in the runs, and without
the excuse TLC finds each property violated (section 5).

## 4. The proofs

All are checked by TLAPS for every value of the constants, under the `ASSUME`s
of the modules, which say that the different kinds of names are different
(objects are not numbers of snapshots, "no record" is no record), that bounds
are natural numbers, that there are finitely many trees and blobs, that a file is
not written in no pieces, that the paths edited are no deeper than `MaxDepth`, that
every name begins itself and a path filter is not empty, and that the texts of the
first trees are among the texts.  Hypotheses beyond these are in the table.

| Theorem | Says |
| --- | --- |
| `OpLogProofs!TypeSafe`, `CrashTypeSafe` | `Spec => []TypeOK`, `SpecCrash => []TypeOK` |
| `OpLogProofs!LogExplains` | `Spec => []LogExplainsRefs` |
| `OpLogProofs!CliIdsUnique`, `CrashIdsUnique` | without watchers and daemons, `[]OpIdsUnique`, also with deaths |
| `OpLogProofs!UndoIsStack` | `Spec => UndoRewinds`: `OpLog` implements `UndoStack` |
| `OpLogProofs!ScanAgrees` | `SpecCrash => []PickIsScan`: the loop of `pick_op_to_undo` picks what counting picks |
| `OpLogProofs!PickIsLastOp` | without watchers and daemons, `SpecCrash => []PickIsLastNotUndone` |
| `OpLogProofs!HeadSafe` | `SpecCrash => []HeadExists` |
| `OpLogProofs!SnapsKept` | `Spec => []NoSnapLost` |
| `OpLogProofs!RefsRise` | from what one undo would bring back to what a later one would, and to now, changes and histories only grow |
| `GcProofs!LiveKept`, `LogKept`, `UndoKept` | if `NoSymlinks`, `GcSpec => []LiveFetchable`, `[]LogFetchable`, `[]UndoFetchable` |
| `CommandProofs!CommandIsAtomic` | `Spec => Atomic`: `Command` implements `Ledger` |
| `ObjectProofs!PutsFailInRaces`, `GetsAreWhole` | `PutSpec => []FailureIsRace`, `[]GetIsWhole`, whoever holds the lock |
| `ObjectProofs!PutsUnderTheLock` | if `Unlocked = {}`, in `PutSpec` always `PutSucceeds` and no get is of part of an object |
| `ObjectProofs!EditsImplementFiles` | `Spec => EditsAreFlat`: `TreeHistory` implements `FlatFiles` |
| `ObjectProofs!EditsPrune` | `Spec => PrunesOnItsPath` |
| `ObjectProofs!DiffsExplain`, `FiltersKeep` | `Spec => []DiffExplains`, `[]FilterKeepsAskedFor` |
| `ObjectProofs!HunksAreFit`, `BlamesAreTrue` | `Spec => []HunksFit`, `[]BlameTrue` |
| `WorkdirProofs!TypeInvariant` | `Spec => []TypeOK` |
| `WorkdirProofs!RestoreKeepsWork` | if `~EditsAnytime` and `Hidden = {}`, `Spec => WorkKept` |
| `WorkdirProofs!RestoreIsExact` | if `~EditsAnytime`, `Spec => RestoreExact` |
| `WatchProofs!WatchTyped`, `NoEditForgotten` | `Spec => []TypeOK`, `[]NothingForgotten` |
| `IdentitiesProofs!IdentitiesTyped`, `IdentityIsKept`, `TokensAreExact` | `Spec => []TypeOK`, `[]IdentityKept`, `[]TokensExact` |
| `IdentitiesProofs!SealedForItsHolders`, `PlainOnceOpened` | `Spec => []SealedForHolders`, `[]PlainOnlyIfOpened` |
| `TigdProofs!VisibilityTyped` | `Spec => []TypeOK` |
| `TigdProofs!AnswersShowTheVisible`, `AnswersAreComplete`, `FailuresAreExplained` | `Spec => []ShownWasVisible`, `[]NothingWithheld`, `[]FailureExplained` |
| `TigdProofs!MutexHandedOn` | `RuntimeSpec => []LogHandedOn` |
| `TigdProofs!EnoughWorkers` | if there are no more writers than workers, and finitely many, `RuntimeSpec => []NoSelfBlock` |

The bounds (`MaxOps`, `MaxSnaps`, `MaxFiles`, ...) are arbitrary constants in the proofs.

*Induction.*  The provers have no induction principle to cite, so every
induction here is by least counterexample: the set of counterexamples is
given a name, its least member is picked (`LeastNat`; `LastIndex` for the
greatest), and the step before it is used.  That recursive functions such as
`UndoDepth` and `Closure` exist at all is proved in the same way.

*Types and the log.*  Every action is a `Commit` of some capture or leaves
`refs` and `log` alone, so the proofs go through one lemma about `Commit` and
one per set of writes, and never meet the commands twice.  `LogExplainsRefs`
follows because the last record that touches a ref is the new one exactly for
the refs the capture lists.

*Ids.*  `OpIdsUnique` is not inductive: a new id is unique only if it is above
all others.  The invariant is that record `i` has id `i - 1`; then
`compute_next_id` yields the length of the log.

*Undo.*  `UndoRewinds` maps the refs to `cur` and the states before each live
operation to `saved`.  That an undo pops needs: the picked record is the
greatest live one; dropping it leaves the other live ones live; and restoring
its *before* capture yields the refs as they were *in full*.  The last is the
point: the capture lists only some refs, so nothing between the picked record
and the end of the log may have had a lasting effect elsewhere.  The
strengthened invariant (`OpLogProofs!IInv`) therefore relates prefixes of the log,
where the height of a prefix is its operations less its undos: no prefix has a
negative height; for each live record, and for the end of the log, either no live
record precedes it and the refs replayed before it are the start's at height 0,
or its previous live record *m* is at the same height and the refs replayed just
before it are those replayed just after *m* (`LinkOK`); and each record's *before*
is what the log says the refs were (`CaptureOK`).  The counting argument rests on
least-number lemmas and on the library's theorems on cardinality.

*The loop.*  `undo_depth` never goes below 0, so it is not a difference of
heights.  It is one as long as the loop has not come to a record where it may
stop (`DepthIsHeight`), and there the two definitions first agree.

*Undo and histories.*  `NoSnapLost` is a statement about today's refs that an undo
would break, unless it held of the refs the undo brings back; so
the invariant (`KeptInv`) states it of each moment that some run of undos may bring
back.  `RisesInv` does the same for changes and histories: every command goes
forward (`Forward`: it adds changes and snapshots, its tip is in its history).

*Deaths.*  With deaths the log does not explain the refs, so nothing of
`IInv` can be used.  What remains is the shape of the log: from the heights alone,
the walk stops at the last live record (`PickIsTopLive`).  `HeadExists` then
needs what captures say of each other: the change `HEAD` named before a live op
was there before every later live op (`Stands`), and a change that an op made without
touching `HEAD` was not `HEAD`'s since (`Unseen`), so that an undo, which restores
`HEAD` first, leaves it naming something whether it dies after that or not.
`PickIsLastNotUndone` adds that, where ids are indices, the records
no undo names are the live ones (`UndoneInv`).

*One command.*  That `Command` implements `Ledger` needs who holds the lock by
where it stands (`LockInv`), that the refs a command has read are as it read them or
one further (`RefsInv`), that its id is the log's length from when it opened the log
(`IdInv`), and that half a record is the work of the dead (`TornInv`).  What
counts as committed are the refs on disk with those of a command under way, or
dead before its record, set back to what it read (`CommittedForm`).

*Puts.*  `PutInv` says of a writer that has met nobody that it writes the tempfile
(`Underway`), so only one that has met another can find it renamed away, or
have a file emptied under it.  Of two writers that met, one is outside the lock, since of
the others at most one is at it (`Exclusive`, `Meet`, `Outside`).  Each file that is
not whole is accounted for (`Accounted`): somebody is writing it from its start, or
died at that after a race, or it is still the tempfile, which the next writer
empties.  The last cannot be the file that readers open.  `PutsUnderTheLock` then
follows because without a writer outside the lock nobody races.

*Collection.*  The mark loop is right if it saturates: a round that opens
no new object adds nothing, nor does any later one; and not every one of as many
rounds as there are objects can open a new one (`ClosureClosed`, by
cardinality).  So what is marked is the least set that contains the roots and is closed
under names (`ClosureLeast`), and all else is about such sets: a tree put whole, or the
part of it that the parent's tree did not have, is on disk whole
(`WrittenIsAll`); a command's new refs are the old ones, the new snapshot's, or,
after an undo, by `RisesInv`, no more than the refs hold already
(`LiveRootsStep`).  The last is also why `UndoFetchable` survives
`--ignore-oplog`.  `NoSymlinks` is needed: `gc_symlink` shows `LiveFetchable`
violated without it.

*Restore.*  `RestoreInv` says what a restore under way has done: everything
visited is cleared, or rendered, and the rest is as it was; and, without
`--force`, what is still to be cleared is in some snapshot.  `Clean` establishes
the last at the start, the lock keeps it since snapshots are never removed, and
edits are excluded by the assumption.  A death resets the job and with it the
obligation: a later restore must pass the dirty check again.

*Watch.*  `NothingForgotten` must survive the end of a scan, so the invariant
(`ScanInv`) is about its middle: what has been read is what the files are, and
what is still to be read is there, or an edit's event is still ahead, with
the debouncer or in the channel.

*Identities.*  `IdentityKept` needs that no file belongs to two names (`ApartInv`)
and, for a name that two processes were not creating at once, that the one creating
it found no record and that the tempfile is its own (`AloneInv`).  `TokensExact`
needs that the key looked up is one its subject had on file since (`LookedUpInv`); the
two about sealed values, that every sealed entry in any tree is for
the keys and the path of its seal (`SealsInv`).

*Visibility.*  The histories `during` bound what a caller sees now from both
sides (`SoFar`).  `ReadInv` says, phase by phase, that what is found was in sight at
some moment, and that what was in sight at every moment is found or still
to be read; `OpsInv` says the same of each reference of each op.  A change that
vanishes between the listing and the reading is the one cause of an error.

*Runtime.*  That the mutex is handed to somebody who waits for it needs to know
where each task is.  `RuntimeInv` says that a task is on at most one worker, and
where it stands while it is there (`WorkerInv`); that the queue of the mutex has
each waiting task once, and a mutex that nobody holds has no queue (`MutexInv`);
and that a writer past `lock_for_write` is the one who has the lock
(`WriteLockInv`).  `EnoughWorkers` then counts: the workers blocked in `flock`
have different writers, none of them the holder, so they are fewer than the writers.

*Trees.*  A lookup is a walk, one component at a time (`LookupStep`), and an edit a
rewrite of what is on its way (`InsertIs`, `DeleteIs`).  So both edits do one thing
(`RewriteIsEdit`): off the path all is as before, on the way there are trees that are
not empty, at the path is what was inserted or nothing.  From this
follow `EditsImplementFiles` and, by what becomes of each empty directory above,
at, below and off the path (`EmptyDirsAfter`), `EditsPrune`.  A path of which no part is in a diff
is the same on both sides, or on both sides no file (`UnchangedOffDiff`): the descent
goes on through trees until the sides hold the same, and anything else on either
side would be reported.  `FiltersKeep` needs that whatever leads to a path under a filter is
above or under the filter itself (`FilterLetsThrough`).

*Hunks.*  Each change of a script takes one more line of one side, which is
matched with none, or one of both, which are matched (`OnwardReaches`); so the
script ends where both texts do (`WayReaches`), and the lines taken of a side only
grow, one by one (`Climbs`).  In any part of it the lines of one side are therefore
consecutive (`SideIs`), and a hunk's start and length say which they are.  That a hunk
shows lines of both sides, unless the text is empty, is where the context of at
least one line is needed (`NoneShown`); that the alignment is a longest one is
needed nowhere.  Hunks do not overlap since the runs they are made from are apart
(`RunsApart`), and a changed line is in the one around it (`RunAround`).

*Blame.*  Along the snapshots (`BlameAllRight`), what is attributed at the
parent is right, and what is not inherited is left over by some longest matching,
or is beyond the parent's attribution (`BlameStepRight`).  The attribution has an
entry for every line of the diff unless it is that of a new file whose splits differ
(`StrLinesAre`), so it can be too short only for the snapshot after that one, where
the fallback comes in (`MissplitAt`); the next attribution is as long as the diff's text again.  All longest matchings leave equally many lines, and of equal
texts none (`AlignmentsLeave`), hence nothing else is blamed on a snapshot that did
not touch the file (`NewsAre`).

*Only model-checked.*  `GrepIsFirstHits`: what `Walk` and `ScanFile` give is
computed by recursive operators, which exclude the SMT backend, and to show that it
is the first hits is an induction over their calls.  The liveness properties
(`CommandEnds`, `RequestsEnd`, `Quiesces`, `Stops`) and `ENABLED` are out of the
prover's reach.

## 5. What the code does against its documents

Shown by a run: **gc deletes symlink targets** (`gc_symlink`).  The mark phase
skips symlink entries as if their target were inline; scan puts it into a blob
and materialize fetches that blob.

Shown by TLC when an invariant of the module is added to a configuration given
here:

1. **Op ids repeat** (`OpIdsUnique` in `OpLogHandles.cfg`).
   `repo.rs:194-197` says the lock prevents duplicate op ids.  A watcher's or
   daemon's handle computed its next id when it was opened and appends with it
   after others have appended.  Undo is not harmed (`UndoRewinds` holds in the same
   configuration): it goes by position.
2. **A torn append ends all writing** (`CleanOpen` in `Command.cfg`).  A writer that dies
   between the two `write_all` of `append` leaves a tail that `read_all` refuses for
   good, so every later command fails when it opens the log.  `repo.rs:32-33`
   promises future writers only that the lock is released, which it is
   (`CommandEnds`).
3. **The daemon can block itself** (`NoSelfBlock` in `RuntimeServes.cfg`, with 2 workers
   and 3 writers).  `repo.rs:33-35` says the threads of one process do not block
   each other on the lock; each call opens the file anew, so they do, and all
   workers can be in `flock` while the holder waits to be resumed.  With no more
   writers than workers they cannot (`EnoughWorkers`).
4. **A workspace's marker is snapped** (`StaysItself` in `Workdir.cfg`) and turns whatever
   directory it is restored into into that workspace, against `workspace.rs:4-6`.
5. **Racing puts fail** (`PutSucceeds` in `ObjectPut.cfg`).  `objects.rs:7-10` says that if
   two writers race on one hash, both succeed.  They share the name of the tempfile,
   and a put outside the lock races: the rename of the later one fails when the
   other has renamed the file away.  The object is there then (`FailureIsRace`), but the
   `tig diff`, `log -p` or request ends with an error.  Also, one may empty what the
   other renames, so that a reader finds a broken object until it is written; if the
   writer dies, for good, since `put` skips what exists (`GetIsWhole` says which
   these are).  Among writers under the lock none of this happens
   (`PutsUnderTheLock`).
6. **Blame and diff split lines differently** (`OnePerLine` in `TreeHistory.cfg`).
   `blame.rs:107-109` and `152-154` say the attribution has one entry per line that the
   diff sees.  `similar` ends a line at a carriage return alone, `str::lines` does not.  For
   a file that comes with such a text, the next snapshot's blame takes entries at
   the wrong index, shows the text of those entries, and where there are too few
   credits the snapshot with lines it did not write (the fallback of `111-117`, which
   "shouldn't happen"); from then on blame has more lines than `str::lines`
   gives (and grep counts).  `BlameTrue` says what remains true of the attribution.

Met while modelling, visible in the models, without a run of their own:

- A watcher in a secondary workspace goes on snapping the change the manifest
  named when it started (`Discover`, `WatchSnap`), against `workspace.rs:4-6`.
- `tig wt make` that discovered its workspace before an undo may register a
  workspace on a change that is gone (`Discover`, `Undo`, `WtMake`).
- A command that dies between its refs and its record changes refs that undo
  knows nothing of (`SpecCrash` breaks `LogExplainsRefs`), against
  `README.md:47` ("every state change recorded").  So do `wt make`, `wt drop`
  and `change set-*` when opening the log fails, which they try only after the ref
  is written (`Command`: late jobs; `Ledger!Spoil`).
- A reader without the lock can find the log between the two writes of an
  append and report it corrupt.
- A file written between restore's dirty check and its clearing is lost
  (`EditsAnytime = TRUE`), against `restore.rs:36-38`; so is a nested `.tig` or
  `.tig-worktrees`, which scan skips at every depth and `clear_workdir` keeps at the
  top level only (`Hidden # {}`).
- A snap of a stale workdir reverts in the tip what the daemon, `tig seal` or another
  workspace of the change put there, without the conflict
  `docs/ARCHITECTURE.md:381-384` describes; the history keeps it.
- `gc.rs:71-75` warns that `--ignore-oplog` may break undo.  It does not
  (`UndoFetchable`): what an undo restores was held by a live change's history
  all along.
- A seal is bound to the path as typed (`main.rs:1794`), its entry lies at the path
  without empty components.  A value sealed as `a//b` can be revealed as `a//b` but
  not as `a/b`, and no restore can render it, against `materialize.rs:298-299`
  ("AAD is the entry's full tree path, as set by `tig seal`"); `SealedForHolders`
  says exactly this.
- `tig identity new` looks for the file without a lock: two that create one name
  may both report success with different keys, or one may fail and the other
  report a key while the file holds the first's (`clashed` in `Identities`), though
  `put_new` is there to refuse the second.
- A watcher takes no snap when it starts, and drops a batch when the lock, the
  scan or the snap fails; an overflow of the kernel's queue arrives as an event
  without a path and is taken for `Idle` (`Watch!lost`).  So not every external
  change is followed by a snap, as `watch.rs:79-80` has it.
- A watcher in the main directory is woken by edits below `.tig-worktrees`, and
  its snap of its own directory then becomes the tip of the change they share.
- What keeps a watcher from waking itself is the test of the kinds of events
  (`Quiesces` fails without it), not the one for paths below `.tig`: a scan opens
  every file of the directory.
- A snapshot that moves, between two reads of one request, from a change that
  becomes hidden to one created since may be reported missing, although some
  visible change held it at every moment; hence `NothingWithheld` is about pairs
  of change and snapshot.  A request that lists changes fails when any of
  them is undone meanwhile.
- A diff's default `from` and blame's walk follow parents that may be outside every
  visible change's history (`handlers.rs:651` means it so); `ShownWasVisible` is about the
  snapshots a request names.
- A diff ignores changes of mode alone, so that `tig diff` prints
  "(no differences: ...)" for trees that differ (`main.rs:1342-1343`); a PATCH of an
  executable file makes it a regular one.
- The filter `src/` also reports a file `s` (`diff.rs:162`: a path that the filter
  begins with), against `diff.rs:80`.  A cap of 0 per file acts as 1
  (`grep.rs:208-213`), one of 0 in all gives nothing.
- `tree_edit.rs:286-287` prunes empty subtrees "so the resulting tree matches what
  a fresh scan would produce"; a scan records empty directories, and an edit keeps
  those off its path (`PrunesOnItsPath`), so neither is what it says.

## 6. What is not modelled

Byte encodings and hashing; ciphers, key agreement and signatures, which are
taken to be sound (`Identities` models who holds which key); the text that blame prints
beside an attribution; HTTP parsing and
error codes; rendering of output; bookmarks (no command writes them); file
modes on disk and the clone engines; prefix resolution, a read whose outcome
no state depends on.  `wt make` is one step of `OpLog` and of `Workdir`: that it
may die between copying files and writing its manifest is left out.

In `Identities` names are apart from the tempfiles of other names, which
`validate_id` (`tig-vis/principal.rs:208-219`) does not ensure: the record of an identity
called `.tmp-alice` is the tempfile of `alice`.  `PlainOnlyIfOpened` is about text that
comes out of sealed values, not about a plaintext the sealer has in the
workdir already (`seal --from-file`, `main.rs:1781`).  The run has one path, so that a
restore that opens some sealed entries and fails at another is covered by the proof
only.  In `TreeHistory` there is one sealed value, so no diff is from one to another.
A collection that takes away what a diff outside the lock has just put
(`handlers.rs:633`) is not modelled.

## 7. The plan

Done, in this order: (1) `OpLog`, `UndoStack`: the log and undo.  (2) `Command`,
`Ledger`, `ObjectPut`: why a command is one step.  (3) `Gc`.  (4) `TigdRuntime`.
(5) `Workdir`.  (6) `Visibility`.  (7) `Lines`, `Trees`, `FlatFiles`, `TreeHistory`.  (8) `Watch`.
(9) `Identities`.  (10) The proofs about `OpLog` and `Workdir`, then about `Watch`,
`Visibility`, `Identities`, `Command`, `Gc` and `ObjectPut`.  (11) The proofs about
`TigdRuntime` and `TreeHistory`.  Next:

12. `Workdir` with several changes and undo, so that stale watchers and reverted
    tips become properties of it.
