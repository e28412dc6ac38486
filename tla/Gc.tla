---------------------------------- MODULE Gc ----------------------------------
(***************************************************************************)
(* The object store under the commands of OpLog and under `tig gc` / POST  *)
(* /v1/gc (tig-store/gc.rs).  Every command that writes a snapshot puts    *)
(* its tree and blobs first; gc marks from the refs, and by default from   *)
(* what the operation log captured, and deletes the rest, all under the    *)
(* write lock.                                                             *)
(*                                                                         *)
(* An object is the number of a snapshot, a tree or a blob.  Trees and     *)
(* blobs are content-addressed: writing one again is writing the same one. *)
(***************************************************************************)
EXTENDS OpLog

CONSTANTS
  Trees, Blobs,
  Entries,    \* the entries of each tree: kind and target
  EmptyTree,
  Ignore      \* the values of --ignore-oplog that gc is run with

EntryKinds == {"File", "Tree", "Sealed", "Conflict", "Symlink"}
ASSUME TreesTyped ==
  /\ Trees \cap Blobs = {} /\ IsFiniteSet(Trees \cup Blobs)
  /\ (Trees \cup Blobs) \cap Nat = {}   \* the numbers of snapshots
  /\ Entries \in [Trees -> SUBSET [kind : EntryKinds, target : Trees \cup Blobs]]
  /\ EmptyTree \in Trees /\ Entries[EmptyTree] = {}
ASSUME IgnoreIsFlag == Ignore \subseteq BOOLEAN

VARIABLES
  snaps,  \* tree and parent (0: none) of each snapshot ever written
  store,  \* the objects on disk
  spared  \* gc has never run with --ignore-oplog

gcvars == <<vars, snaps, store, spared>>

----------------------------------------------------------------------------
(* The object graph *)

Targets(t, kinds) == {e.target : e \in {x \in Entries[t] : x.kind \in kinds}}

\* What an object names, through tree entries of the given kinds.
Names(o, kinds) ==
  IF o \in Blobs THEN {}
  ELSE IF o \in Trees THEN Targets(o, kinds)
  ELSE {snaps[o].tree} \cup ({snaps[o].parent} \ {0})

\* The objects reached from roots along names, which maps the objects opened to
\* the sets of those they name.
Closure(names, roots) ==
  LET grow[n \in 0..Cardinality(DOMAIN names)] ==
        IF n = 0 THEN roots
        ELSE LET seen == grow[n - 1]
             IN  seen \cup UNION {names[o] : o \in seen \cap DOMAIN names}
  IN grow[Cardinality(DOMAIN names)]

\* The objects reached from roots by opening those present.
Reach(roots, kinds, present) == Closure([o \in present |-> Names(o, kinds)], roots)

TreeObjects(t) == Reach({t}, EntryKinds, Trees)

----------------------------------------------------------------------------
(* Commands that write a snapshot *)

Record == log'[Len(log')]

\* A scan of a workdir puts the whole tree; an edit of a tree in the store
\* (tree_edit.rs) puts what the tree it started from did not have.
Scans == \E w \in Workspaces : w \in Listed(Record.after)
Written(t, parent) ==
  IF Scans \/ parent = 0 THEN TreeObjects(t)
  ELSE (TreeObjects(t) \cap Trees) \cup (TreeObjects(t) \ TreeObjects(snaps[parent].tree))

WriteSnapshot ==
  LET c      == CHOOSE x \in Changes : refs'[x] # None /\ refs'[x].current = nsnap'
      parent == IF refs[c] = None THEN 0 ELSE refs[c].current
  IN \E t \in Trees :
       /\ Record.type = "ChangeNew" => t = EmptyTree
       /\ parent # 0 => parent \in store      \* else: NotFound, before any ref
       /\ snaps' = Append(snaps, [tree |-> t, parent |-> parent])
       /\ store' = store \cup Written(t, parent) \cup {nsnap'}

Command ==
  /\ Next
  /\ IF nsnap' # nsnap THEN WriteSnapshot ELSE UNCHANGED <<snaps, store>>
  /\ UNCHANGED spared

----------------------------------------------------------------------------
(* Garbage collection *)

Held(v) == {v.current} \cup v.history

LiveRoots == UNION {Held(refs[c]) : c \in {x \in Changes : refs[x] # None}}
LogRoots  ==
  UNION {UNION {Held(w[c]) : c \in {x \in Changes : w[x] \notin {None, Same}}} :
           w \in UNION {{log[i].before, log[i].after} : i \in 1..Len(log)}}

RootsInverted(ignoreOplog) == LiveRoots \cup (IF ignoreOplog THEN LogRoots ELSE {})
Roots(ignoreOplog) == LiveRoots \cup (IF ignoreOplog THEN {} ELSE LogRoots)

\* The mark phase opens every object it meets; it chases tree entries of all
\* kinds but symlinks.
MarksFilesOnly(roots) == Reach(roots, EntryKinds \ {"Symlink", "Tree"}, store)
Marked(roots) == Reach(roots, EntryKinds \ {"Symlink"}, store)

\* The sweep removes what is not marked, object by object; it may die or fail
\* on the way.
Sweep(ignoreOplog) ==
  /\ LET garbage == store \ Marked(Roots(ignoreOplog)) IN
     \E removed \in SUBSET garbage : store' = store \ removed
  /\ spared' = (spared /\ ~ignoreOplog)
  /\ UNCHANGED <<refs, log, nsnap, dirs, snaps>>

\* cmd_gc: the process exits
CliGc(p) ==
  /\ ctx[p] # None
  /\ \E ignoreOplog \in Ignore : Sweep(ignoreOplog)
  /\ ctx' = [ctx EXCEPT ![p] = None]
  /\ UNCHANGED next

TigdGc(d) ==
  /\ next[d] # None
  /\ \E ignoreOplog \in Ignore : Sweep(ignoreOplog)
  /\ UNCHANGED <<ctx, next>>

GcInit == Init /\ snaps = << >> /\ store = {} /\ spared = TRUE
GcNext ==
  \/ Command
  \/ \E p \in Procs : CliGc(p)
  \/ \E d \in Daemons : TigdGc(d)
GcSpec == GcInit /\ [][GcNext]_gcvars

----------------------------------------------------------------------------
(* Properties *)

\* Everything `materialize`, `log`, `diff` or `blame` of a snapshot may open.
Fetchable(roots) ==
  Reach(roots, EntryKinds, (1..nsnap) \cup Trees \cup Blobs) \subseteq store

\* The mark phase takes a symlink's target for inline data, so that gc deletes it
\* (GcSymlink.cfg); the promises are kept to repositories without symlinks.
NoSymlinks == \A t \in Trees : \A e \in Entries[t] : e.kind # "Symlink"

\* A hash got from a live change remains fetchable after gc (gc.rs:45-46).
LiveFetchable == Fetchable(LiveRoots)

\* A hash got from a record of the log remains fetchable as long as the record
\* stays in the log, and no record is ever dropped (gc.rs:47-48, 53-54); only
\* gc --ignore-oplog takes that promise back.
LogFetchable == spared => Fetchable(LogRoots)

\* No run of undos brings back a change whose snapshots gc has removed, not
\* even gc --ignore-oplog: what an undo restores was held by a live change
\* all along (gc.rs:71-75 warns of the contrary).
UndoFetchable ==
  \A i \in LiveOps :
    LET old == RefsAt(i - 1)
    IN Fetchable(UNION {Held(old[c]) : c \in {x \in Changes : old[x] # None}})

=============================================================================
