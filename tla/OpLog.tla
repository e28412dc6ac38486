------------------------------- MODULE OpLog -------------------------------
(***************************************************************************)
(* The refs and the operation log of a tig repository (tig-store/oplog.rs, *)
(* refs.rs, workspace.rs) under the commands that change them: `tig snap`, *)
(* `restore`, `watch`, `seal`, `change new`, `draft`, `change set-*`,      *)
(* `wt make`, `wt drop`, `undo`, and the writing handlers of tigd.         *)
(*                                                                         *)
(* Every command runs its read-modify-write under the repository's write   *)
(* lock, so here it is one step.  What a command did BEFORE it took the    *)
(* lock is a step of its own: a CLI process reads its workspace (and, for  *)
(* a secondary one, the manifest) first, and a long-lived handle (a        *)
(* watcher, the daemon) computed its next op id when it opened the log.    *)
(***************************************************************************)
EXTENDS Integers, Sequences, FiniteSets

CONSTANTS
  Changes,    \* change ids
  Secondary,  \* ids of secondary workspaces
  Main,       \* the main workspace; as a ref, HEAD
  Procs,      \* CLI processes, each running one command after the other
  Watchers,   \* `tig watch` processes
  Daemons,    \* tigd processes
  Status,     \* (state, visibility) pairs of a change
  Working,    \* the status of Change::new
  Draft,      \* the status of Change::new_private_draft
  None,       \* an absent ref, an unset field
  Same,       \* in a capture: a ref it does not list
  MaxOps,     \* bound: records in the log
  MaxSnaps    \* bound: snapshot objects written

ASSUME RefsDisjoint ==
  /\ Main \notin Secondary \cup Changes
  /\ Secondary \cap Changes = {}
  /\ {None, Same} \cap (Secondary \cup Changes \cup {Main}) = {}
  /\ None # Same
ASSUME ProcessesDisjoint ==
  Procs \cap Watchers = {} /\ (Procs \cup Watchers) \cap Daemons = {}
ASSUME StatusesKnown == {Working, Draft} \subseteq Status
ASSUME BoundsNat == MaxOps \in Nat /\ MaxSnaps \in Nat

Workspaces == {Main} \cup Secondary
RefNames   == Workspaces \cup Changes

\* A change record; snapshots are numbered in the order they are written.
ChangeVal == [current : Nat, history : SUBSET Nat, status : Status]
ASSUME MarksAreNoRecords == /\ None \notin ChangeVal \cup Nat
                            /\ Same \notin ChangeVal

\* A workspace ref names a change, a change ref holds a record, and any ref
\* may be absent.
Values == {None} \cup Changes \cup ChangeVal
RefOK(r, v) ==
  \/ v = None
  \/ r \in Workspaces /\ v \in Changes
  \/ r \in Changes /\ v \in ChangeVal

RefStates == {s \in [RefNames -> Values] : \A r \in RefNames : RefOK(r, s[r])}

\* A Vec<RefSnapshot>: a value, or absence, for each of the refs it lists.
Capture == {w \in [RefNames -> Values \cup {Same}] :
              \A r \in RefNames : w[r] = Same \/ RefOK(r, w[r])}
OpTypes == {"Snap", "ChangeNew", "WtMake", "WtDrop", "ChangeTransition", "Undo"}
Op      == [id : Nat, type : OpTypes, undone : Nat \cup {None},
            before : Capture, after : Capture]

VARIABLES
  refs,   \* HEAD, the workspace manifests' changes and the change records
  log,    \* oplog/000000.log
  nsnap,  \* snapshot objects written so far
  dirs,   \* secondary workspaces whose directory (and marker) is on disk
  ctx,    \* the workspace a CLI process or watcher discovered, before the lock
  next    \* the next_id cached by a long-lived OpLog handle

vars == <<refs, log, nsnap, dirs, ctx, next>>

Clients == Procs \cup Watchers
Handles == Watchers \cup Daemons
Context == [ws : Workspaces, seen : {None} \cup Changes]

----------------------------------------------------------------------------
(* Refs and captures *)

Listed(w) == {r \in RefNames : w[r] # Same}

\* restore_ref of every ref w lists.
Overwrite(old, w) == [r \in RefNames |-> IF r \in Listed(w) THEN w[r] ELSE old[r]]

\* RefSnapshot::read_current of every ref w lists.
ReadCurrent(w) == [r \in RefNames |-> IF r \in Listed(w) THEN refs[r] ELSE Same]

One(r, v)       == [x \in RefNames |-> IF x = r THEN v ELSE Same]
Two(r, v, s, w) == [x \in RefNames |-> IF x = r THEN v ELSE IF x = s THEN w ELSE Same]

\* Ids are ULIDs: a new change or workspace has an id no record mentions.
FreshId(r) == refs[r] = None /\ \A i \in 1..Len(log) : r \notin Listed(log[i].before)

\* Change::new
NewChange(s, st) == [current |-> s, history |-> {s}, status |-> st]
AdvanceDropsHistory(c, s) == [c EXCEPT !.current = s, !.history = {s}]
\* Change::advance; a snapshot names its parent, so it differs from it
Advance(c, s) == [c EXCEPT !.current = s, !.history = @ \cup {s}]

----------------------------------------------------------------------------
(* The log *)

IsUndo(i) == log[i].type = "Undo"

NextIdNoIncrement ==
  IF log = << >> THEN 0
  ELSE CHOOSE m \in {log[i].id : i \in 1..Len(log)} : \A i \in 1..Len(log) : log[i].id <= m

\* compute_next_id: one more than the greatest id in the file.
NextId ==
  IF log = << >> THEN 0
  ELSE 1 + (CHOOSE m \in {log[i].id : i \in 1..Len(log)} :
              \A i \in 1..Len(log) : log[i].id <= m)

NonUndos(k) == {i \in 1..k : ~IsUndo(i)}
Undos(k)    == {i \in 1..k : IsUndo(i)}

\* Ops done minus ops undone among the first k records.
Height(k) == Cardinality(NonUndos(k)) - Cardinality(Undos(k))

\* pick_op_to_undo walks the log backwards with undo_depth, which an Undo
\* raises and any other record lowers, and takes the first non-Undo it meets at
\* depth 0: the last one with as many Undos as other records behind it.
\* 0 stands for "nothing to undo".
Depth0(i) == ~IsUndo(i) /\ Height(i) = Height(Len(log))

PickIgnoresDepth ==
  IF \E i \in 1..Len(log) : ~IsUndo(i)
  THEN CHOOSE i \in 1..Len(log) : ~IsUndo(i) /\ \A j \in i+1..Len(log) : IsUndo(j)
  ELSE 0

PickOpToUndo ==
  IF \E i \in 1..Len(log) : Depth0(i)
  THEN CHOOSE i \in 1..Len(log) : Depth0(i) /\ \A j \in i+1..Len(log) : ~Depth0(j)
  ELSE 0

\* The same walk step by step: undo_depth when, from the newest record down, it
\* has passed record i + 1,
UndoDepth ==
  LET d[i \in 0..Len(log)] ==
        IF i = Len(log) THEN 0
        ELSE IF IsUndo(i + 1) THEN d[i + 1] + 1
        ELSE IF d[i + 1] > 0 THEN d[i + 1] - 1 ELSE 0
  IN d

\* and where it may stop.
ScanStops(i) == ~IsUndo(i) /\ UndoDepth[i] = 0

CommitReadsAfterTooEarly(id, type, undone, w) ==
  /\ Len(log) < MaxOps
  /\ refs' = Overwrite(refs, w)
  /\ log' = Append(log, [id |-> id, type |-> type, undone |-> undone,
                         before |-> ReadCurrent(w), after |-> ReadCurrent(w)])

\* A command's critical section: write the refs of w, then append the record
\* that captures the same refs before and after.
Commit(id, type, undone, w) ==
  /\ Len(log) < MaxOps
  /\ refs' = Overwrite(refs, w)
  /\ log' = Append(log, [id |-> id, type |-> type, undone |-> undone,
                         before |-> ReadCurrent(w), after |-> w])

----------------------------------------------------------------------------
(* What each command writes: the set of captures it may leave behind, given  *)
(* the workspace ws it was started in and the manifest it read there.        *)

\* Workspace::current_change_id: HEAD is read now, a manifest was read earlier.
CurrentChange(c) == IF c.ws = Main THEN refs[Main] ELSE c.seen

\* The snapshot a new change starts from: its parent's tip, or a new empty one.
StartSnap(parent) == IF parent = None THEN nsnap + 1 ELSE refs[parent].current

SnapWrites(c) ==
  LET cur == CurrentChange(c) IN
  IF cur = None
  THEN {Two(id, NewChange(nsnap + 1, Working), Main, id) : id \in {x \in Changes : FreshId(x)}}
  ELSE IF refs[cur] = None THEN {}
  ELSE {Two(cur, Advance(refs[cur], nsnap + 1), c.ws, refs[c.ws])}

\* `tig seal` edits the current change's tree in the store.
SealWrites(c) ==
  LET cur == CurrentChange(c) IN
  IF cur = None THEN {}
  ELSE IF refs[cur] = None THEN {}
  ELSE {One(cur, Advance(refs[cur], nsnap + 1))}

ChangeNewWrites(c) ==
  LET cur == CurrentChange(c) IN
  IF cur # None /\ refs[cur] = None THEN {}
  ELSE {Two(id, NewChange(StartSnap(cur), st), c.ws, id) :
          id \in {x \in Changes : FreshId(x)}, st \in {Working, Draft}}

TransitionWrites ==
  {One(id, [refs[id] EXCEPT !.status = st]) :
     id \in {x \in Changes : refs[x] # None}, st \in Status}

WtMakeSelfPointing(c) ==
  IF CurrentChange(c) = None THEN {}
  ELSE {One(k, k) : k \in {x \in Secondary : FreshId(x)}}

WtMakeWrites(c) ==
  IF CurrentChange(c) = None THEN {}
  ELSE {One(k, CurrentChange(c)) : k \in {x \in Secondary : FreshId(x)}}

WtDropWrites(c) ==
  {One(k, None) : k \in {x \in Secondary : refs[x] # None /\ x # c.ws}}

UndoWrites == IF PickOpToUndo = 0 THEN {} ELSE {log[PickOpToUndo].before}

----------------------------------------------------------------------------
(* Processes *)

Init ==
  /\ refs = [r \in RefNames |-> None]
  /\ log = << >>
  /\ nsnap = 0
  /\ dirs = {}
  /\ ctx = [p \in Clients |-> None]
  /\ next = [h \in Handles |-> None]

\* Workspace::discover, before the lock: a marker in the directory and a
\* manifest behind it; HEAD is not read until current_change_id.
Discover(p, w) ==
  /\ ctx[p] = None
  /\ w \in Secondary => w \in dirs /\ refs[w] # None
  /\ ctx' = [ctx EXCEPT ![p] = [ws |-> w, seen |-> IF w = Main THEN None ELSE refs[w]]]
  /\ next' = IF p \in Watchers THEN [next EXCEPT ![p] = NextId] ELSE next
  /\ UNCHANGED <<refs, log, nsnap, dirs>>

\* The process ends: command done, refused or failed, watch stopped, daemon killed.
Exit(p) ==
  /\ ctx[p] # None
  /\ ctx' = [ctx EXCEPT ![p] = None]
  /\ next' = IF p \in Watchers THEN [next EXCEPT ![p] = None] ELSE next
  /\ UNCHANGED <<refs, log, nsnap, dirs>>

\* A CLI command opens the log under the lock, appends one op and exits.
CliCommit(p, type, undone, w) ==
  /\ Commit(NextId, type, undone, w)
  /\ ctx' = [ctx EXCEPT ![p] = None]
  /\ UNCHANGED next

\* A handle that outlives the command numbers the op from its own counter.
HandleCommit(h, type, undone, w) ==
  /\ Commit(next[h], type, undone, w)
  /\ next' = [next EXCEPT ![h] = @ + 1]
  /\ UNCHANGED ctx

NewSnap == nsnap < MaxSnaps /\ nsnap' = nsnap + 1

\* The workdir of a secondary workspace may be gone; then scan fails.
CanScan(c) == c.ws = Main \/ c.ws \in dirs

\* `tig snap`, and `tig restore` once it has rewritten the workdir
Snap(p) ==
  /\ ctx[p] # None
  /\ CanScan(ctx[p])
  /\ \E w \in SnapWrites(ctx[p]) : CliCommit(p, "Snap", None, w)
  /\ NewSnap
  /\ UNCHANGED dirs

WatchSnap(p) ==
  /\ ctx[p] # None
  /\ CanScan(ctx[p])
  /\ \E w \in SnapWrites(ctx[p]) : HandleCommit(p, "Snap", None, w)
  /\ NewSnap
  /\ UNCHANGED dirs

Seal(p) ==
  /\ ctx[p] # None
  /\ \E w \in SealWrites(ctx[p]) : CliCommit(p, "Snap", None, w)
  /\ NewSnap
  /\ UNCHANGED dirs

\* `tig change new` and `tig draft`
ChangeNew(p) ==
  /\ ctx[p] # None
  /\ \E w \in ChangeNewWrites(ctx[p]) : CliCommit(p, "ChangeNew", None, w)
  /\ IF CurrentChange(ctx[p]) = None THEN NewSnap ELSE UNCHANGED nsnap
  /\ UNCHANGED dirs

ChangeTransition(p) ==
  /\ ctx[p] # None
  /\ \E w \in TransitionWrites : CliCommit(p, "ChangeTransition", None, w)
  /\ UNCHANGED <<nsnap, dirs>>

\* The donor is the caller's own workdir, so that directory must be there.
WtMake(p) ==
  /\ ctx[p] # None
  /\ CanScan(ctx[p])
  /\ \E w \in WtMakeWrites(ctx[p]) :
       /\ CliCommit(p, "WtMake", None, w)
       /\ dirs' = dirs \cup Listed(w)
  /\ UNCHANGED nsnap

WtDrop(p) ==
  /\ ctx[p] # None
  /\ \E w \in WtDropWrites(ctx[p]) :
       /\ CliCommit(p, "WtDrop", None, w)
       /\ dirs' \in {dirs, dirs \ Listed(w)}   \* --keep-files or not
  /\ UNCHANGED nsnap

Undo(p) ==
  /\ ctx[p] # None
  /\ \E w \in UndoWrites : CliCommit(p, "Undo", log[PickOpToUndo].id, w)
  /\ UNCHANGED <<nsnap, dirs>>

\* AppState::open
TigdStart(d) ==
  /\ next[d] = None
  /\ next' = [next EXCEPT ![d] = NextId]
  /\ UNCHANGED <<refs, log, nsnap, dirs, ctx>>

TigdStop(d) ==
  /\ next[d] # None
  /\ next' = [next EXCEPT ![d] = None]
  /\ UNCHANGED <<refs, log, nsnap, dirs, ctx>>

\* POST /v1/changes, from a change the caller names or from an empty snapshot
TigdCreate(d) ==
  /\ next[d] # None
  /\ \E parent \in {None} \cup {x \in Changes : refs[x] # None} :
     \E id \in {x \in Changes : FreshId(x)}, st \in Status :
       /\ HandleCommit(d, "ChangeNew", None, One(id, NewChange(StartSnap(parent), st)))
       /\ IF parent = None THEN NewSnap ELSE UNCHANGED nsnap
  /\ UNCHANGED dirs

\* PATCH and DELETE of a path, POST snap: snap_change_directly
TigdSnap(d) ==
  /\ next[d] # None
  /\ \E c \in {x \in Changes : refs[x] # None} :
       HandleCommit(d, "Snap", None, One(c, Advance(refs[c], nsnap + 1)))
  /\ NewSnap
  /\ UNCHANGED dirs

TigdTransition(d) ==
  /\ next[d] # None
  /\ \E w \in TransitionWrites : HandleCommit(d, "ChangeTransition", None, w)
  /\ UNCHANGED <<nsnap, dirs>>

TigdUndo(d) ==
  /\ next[d] # None
  /\ \E w \in UndoWrites : HandleCommit(d, "Undo", log[PickOpToUndo].id, w)
  /\ UNCHANGED <<nsnap, dirs>>

CliStep(p) ==
  \/ Snap(p) \/ Seal(p) \/ ChangeNew(p) \/ ChangeTransition(p)
  \/ WtMake(p) \/ WtDrop(p) \/ Undo(p)

TigdStep(d) ==
  \/ TigdStart(d) \/ TigdStop(d) \/ TigdCreate(d)
  \/ TigdSnap(d) \/ TigdTransition(d) \/ TigdUndo(d)

Next ==
  \/ \E p \in Clients, w \in Workspaces : Discover(p, w)
  \/ \E p \in Clients : Exit(p)
  \/ \E p \in Procs : CliStep(p)
  \/ \E p \in Watchers : WatchSnap(p)
  \/ \E d \in Daemons : TigdStep(d)

Spec == Init /\ [][Next]_vars

(***************************************************************************)
(* A process may die between two of its writes; the kernel then releases   *)
(* the lock.  Commands put the change before they move the workspace to    *)
(* it; undo restores the refs in the order they were captured, workspace   *)
(* first.  Either way the record is appended last.                         *)
(***************************************************************************)
PartialReversed(w, first) == {[r \in RefNames |-> IF r \in first THEN Same ELSE w[r]], w}
Partial(w, first) == {[r \in RefNames |-> IF r \in first THEN w[r] ELSE Same], w}

CrashWrites(c) ==
  (UNION {Partial(w, Changes) :
            w \in SnapWrites(c) \cup SealWrites(c) \cup ChangeNewWrites(c)
                   \cup TransitionWrites})
  \cup (UNION {Partial(w, Workspaces) : w \in UndoWrites})

\* The number of a snapshot is spent even when the command wrote none.
Crash(p) ==
  /\ ctx[p] # None
  /\ NewSnap
  /\ ctx' = [ctx EXCEPT ![p] = None]
  /\ UNCHANGED <<log, next>>
  /\ \/ /\ \E w \in CrashWrites(ctx[p]) : refs' = Overwrite(refs, w)
        /\ UNCHANGED dirs
     \/ \E w \in WtMakeWrites(ctx[p]) :   \* manifest first, marker second
        /\ refs' = Overwrite(refs, w)
        /\ dirs' \in {dirs, dirs \cup Listed(w)}
     \/ \E w \in WtDropWrites(ctx[p]) :   \* directory first, manifest second
        /\ refs' \in {refs, Overwrite(refs, w)}
        /\ dirs' \in {dirs, dirs \ Listed(w)}

NextCrash == Next \/ \E p \in Procs : Crash(p)
SpecCrash == Init /\ [][NextCrash]_vars

----------------------------------------------------------------------------
(* What the log says *)

Touches(i, r) == r \in Listed(log[i].after)

\* The last of the first k records to touch r; 0 if none does.
LastTouch(r, k) ==
  CHOOSE i \in 0..k : /\ i # 0 => Touches(i, r)
                      /\ \A j \in i+1..k : ~Touches(j, r)

\* The refs after the first k records, read off the log alone.
RefsAt(k) ==
  [r \in RefNames |-> IF LastTouch(r, k) = 0 THEN None
                      ELSE log[LastTouch(r, k)].after[r]]

\* Records whose effect still stands: nothing since has undone them.
LiveOps ==
  {i \in 1..Len(log) : ~IsUndo(i) /\ \A k \in i..Len(log) : Height(i) <= Height(k)}

----------------------------------------------------------------------------
(* Properties *)

\* Every variable has its type: refs point to changes, change refs hold records.
TypeOK ==
  /\ refs \in RefStates
  /\ log \in Seq(Op)
  /\ nsnap \in Nat
  /\ dirs \in SUBSET Secondary
  /\ ctx \in [Clients -> {None} \cup Context]
  /\ next \in [Handles -> {None} \cup Nat]

\* The log is the whole story: replaying it gives the refs on disk.
LogExplainsRefs == refs = RefsAt(Len(log))

\* What is picked by counting is what the loop of pick_op_to_undo returns.
PickIsScan ==
  IF \E i \in 1..Len(log) : ScanStops(i)
  THEN ScanStops(PickOpToUndo) /\ \A i \in PickOpToUndo+1..Len(log) : ~ScanStops(i)
  ELSE PickOpToUndo = 0

\* The undo_depth walk finds the most recent op that no Undo names
\* (oplog.rs:4), where op ids are unique.
NotUndone == {i \in 1..Len(log) : /\ ~IsUndo(i)
                                  /\ \A j \in 1..Len(log) : log[j].undone # log[i].id}
PickIsLastNotUndone ==
  IF NotUndone = {} THEN PickOpToUndo = 0
  ELSE PickOpToUndo \in NotUndone /\ \A i \in NotUndone : i <= PickOpToUndo

\* Undo rewinds the refs, all of them, to what they were before the op it
\* picks, however commands, watchers and daemons interleave.
Stack == INSTANCE UndoStack
           WITH States <- RefStates, Times <- 1..MaxOps,
                Start <- [r \in RefNames |-> None],
                cur <- refs, saved <- [i \in LiveOps |-> RefsAt(i - 1)]
UndoRewinds == Stack!Spec

\* No two records have the same id (repo.rs:195-197, concurrency.rs:5-6).
OpIdsUnique ==
  \A i, j \in 1..Len(log) : log[i].id = log[j].id => i = j

\* HEAD never names a change that is not there, even after a crash.
HeadExists == refs[Main] # None => refs[refs[Main]] # None

\* A snapshot once taken is in its change's history until it is undone.
NoSnapLost ==
  \A i \in LiveOps : log[i].type = "Snap" =>
    \A c \in Changes \cap Listed(log[i].after) :
      refs[c] # None /\ log[i].after[c].current \in refs[c].history

=============================================================================
