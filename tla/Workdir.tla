------------------------------- MODULE Workdir -------------------------------
(***************************************************************************)
(* The directories behind the workspaces: what `tig snap`, `wt make` and   *)
(* `restore` (tig-fs/scan.rs, restore.rs, materialize.rs) read and write   *)
(* there while users edit files and other tools move the change.           *)
(*                                                                         *)
(* Every command holds the write lock.  All but restore are one step here; *)
(* restore checks, clears and renders entry by entry, may fail or die      *)
(* anywhere, and users do not wait for the lock.  All workspaces are on    *)
(* one change, as `wt make` leaves them; its tip is the last snapshot.     *)
(***************************************************************************)
EXTENDS Naturals, Sequences

CONSTANTS
  Main, Secondary, \* workspaces, and the directories they are in
  Files,    \* what a scan reads and a restore clears
  Hidden,   \* entries named .tig or .tig-worktrees below the top level
  Marker,   \* .tig-workspace, at the top of a secondary workspace
  Contents,
  Absent,
  EditsAnytime, \* users also edit a directory while it is being restored
  MaxSnaps      \* bound: snapshots

ASSUME NamesDisjoint ==
  /\ Marker \notin Files \cup Hidden /\ Files \cap Hidden = {}
  /\ Main \notin Secondary /\ Absent \notin Contents \cup Secondary
ASSUME AbsentIsNoEntry ==
  Absent \notin [kind : {"File", "Sealed"}, text : Contents \cup Secondary]
ASSUME SnapsBound == MaxSnaps \in Nat /\ EditsAnytime \in BOOLEAN

VARIABLES
  disk,  \* what is in each directory
  made,  \* secondary workspaces with a manifest
  snaps, \* the trees of the snapshots: kind and content of each entry
  job    \* the restore under way

vars == <<disk, made, snaps, job>>

Dirs    == {Main} \cup Secondary
Scanned == Files \cup {Marker}       \* ScanOptions::default().ignore
Cleared == Files \cup Hidden         \* clear_workdir keeps three names, top level only
Names   == Scanned \cup Hidden

Texts   == Contents \cup Secondary
Entry   == {Absent} \cup [kind : {"File", "Sealed"}, text : Texts]
Trees   == [Scanned -> Entry]
Tip     == snaps[Len(snaps)]

NoJob == [dir |-> Main, target |-> 0, forced |-> FALSE, at |-> "none", todo |-> {}]

File(v)   == IF v = Absent THEN Absent ELSE [kind |-> "File", text |-> v]
Sealed(v) == [kind |-> "Sealed", text |-> v]

PlainKeepsKind(e) == e
\* What rendering an entry writes; a sealed one is decrypted.
Plain(e) == IF e = Absent THEN Absent ELSE e.text

Init ==
  /\ disk = [d \in Dirs |-> [n \in Names |-> Absent]]
  /\ made = {}
  /\ snaps = << >>
  /\ job = NoJob

Locked == job.at # "none"

\* A user writes or removes a file.
Edit(d, n, v) ==
  /\ d \in {Main} \cup made
  /\ EditsAnytime \/ ~Locked \/ job.dir # d
  /\ disk' = [disk EXCEPT ![d][n] = v]
  /\ UNCHANGED <<made, snaps, job>>

----------------------------------------------------------------------------
(* Commands *)

\* Workspace::discover in directory d: the marker goes before .tig.
Discovered(d) ==
  IF disk[d][Marker] = Absent THEN {Main} ELSE {disk[d][Marker]} \cap made

Scan(w) == [n \in Scanned |-> File(disk[w][n])]

NewSnap(tree) == Len(snaps) < MaxSnaps /\ snaps' = Append(snaps, tree)

\* `tig snap`, or a watcher: snap_now
Snap(d) ==
  /\ ~Locked
  /\ \E w \in Discovered(d) : NewSnap(Scan(w))
  /\ UNCHANGED <<disk, made, job>>

\* An edit of the tip in the store: snap_change_directly
EditTip(n, e) ==
  /\ ~Locked /\ snaps # << >>
  /\ NewSnap([Tip EXCEPT ![n] = e])
  /\ UNCHANGED <<disk, made, job>>

\* PATCH or DELETE of a path; what changes nothing is not snapped.
Patch(n, v) == snaps # << >> /\ File(v) # Tip[n] /\ EditTip(n, File(v))

\* `tig seal`, of a file or of anything else
Seal(n, v) == EditTip(n, Sealed(v))

\* `wt make`: a copy of the workspace it is called in or, with --as, the tip;
\* then the marker.
WtMake(d, k) ==
  /\ ~Locked /\ snaps # << >>
  /\ k \in Secondary \ made
  /\ \E w \in Discovered(d) :
       LET copies == {disk[w],
                      [n \in Names |-> IF n \in Scanned THEN Plain(Tip[n]) ELSE Absent]}
       IN \E copy \in copies : disk' = [disk EXCEPT ![k] = [copy EXCEPT ![Marker] = k]]
  /\ made' = made \cup {k}
  /\ UNCHANGED <<snaps, job>>

----------------------------------------------------------------------------
(* restore_tree_into *)

HasSealed(tree) == \E n \in Scanned : tree[n] # Absent /\ tree[n].kind = "Sealed"

CleanIgnoresUntracked(w) == \A n \in Scanned : Tip[n] # Absent => Scan(w)[n] = Tip[n]
Clean(w) == Scan(w) = Tip

\* Refuse sealed entries without an identity; refuse a dirty workdir without
\* --force.
RestoreBegin(d, target, forced, identity) ==
  /\ ~Locked
  /\ identity \/ ~HasSealed(snaps[target])
  /\ \E w \in Discovered(d) :
       /\ forced \/ Clean(w)
       /\ job' = [dir |-> w, target |-> target, forced |-> forced,
                  at |-> "clear", todo |-> Cleared]
  /\ UNCHANGED <<disk, made, snaps>>

\* Entry n is dealt with; after the last one the job is at `after`.
Visited(n, after) ==
  job' = IF job.todo # {n} THEN [job EXCEPT !.todo = @ \ {n}]
         ELSE [job EXCEPT !.at = after, !.todo = IF after = "render" THEN Scanned ELSE {}]

ClearTracked(n) ==
  /\ job.at = "clear" /\ n \in job.todo
  /\ disk' = IF n \in Files /\ Tip[n] # Absent THEN [disk EXCEPT ![job.dir][n] = Absent] ELSE disk
  /\ Visited(n, "render")
  /\ UNCHANGED <<made, snaps>>

Clear(n) ==
  /\ job.at = "clear" /\ n \in job.todo
  /\ disk' = [disk EXCEPT ![job.dir][n] = Absent]
  /\ Visited(n, "render")
  /\ UNCHANGED <<made, snaps>>

Render(n) ==
  LET e == snaps[job.target][n] IN
  /\ job.at = "render" /\ n \in job.todo
  /\ disk' = IF e = Absent THEN disk ELSE [disk EXCEPT ![job.dir][n] = Plain(e)]
  /\ Visited(n, "snap")
  /\ UNCHANGED <<made, snaps>>

\* The restored state is snapped, with --force.
RestoreEnd ==
  /\ job.at = "snap"
  /\ NewSnap(Scan(job.dir))
  /\ job' = NoJob
  /\ UNCHANGED <<disk, made>>

\* The process dies, or an entry cannot be rendered: a sealed one the identity
\* does not open, a missing object, an I/O error.
Abort ==
  /\ Locked
  /\ job' = NoJob
  /\ UNCHANGED <<disk, made, snaps>>

Next ==
  \/ \E d \in Dirs, n \in Files \cup Hidden, v \in Contents \cup {Absent} : Edit(d, n, v)
  \/ \E n \in Files, v \in Contents \cup {Absent} : Patch(n, v)
  \/ \E n \in Files, v \in Contents : Seal(n, v)
  \/ \E d \in {Main} \cup made :
       \/ Snap(d)
       \/ \E k \in Secondary : WtMake(d, k)
       \/ \E target \in 1..Len(snaps), forced, identity \in BOOLEAN :
            RestoreBegin(d, target, forced, identity)
  \/ \E n \in Cleared : Clear(n)
  \/ \E n \in Scanned : Render(n)
  \/ RestoreEnd
  \/ Abort

Spec == Init /\ [][Next]_vars

----------------------------------------------------------------------------
(* Properties *)

\* Directories, trees and the job have their types; a restore has a target.
TypeOK ==
  /\ disk \in [Dirs -> [Names -> {Absent} \cup Texts]]
  /\ made \in SUBSET Secondary
  /\ snaps \in Seq(Trees)
  /\ job \in [dir : Dirs, target : Nat, forced : BOOLEAN,
              at : {"none", "clear", "render", "snap"}, todo : SUBSET Names]
  /\ Locked => job.target \in 1..Len(snaps)

Stored(n) == {Plain(snaps[i][n]) : i \in {j \in 1..Len(snaps) : n \in Scanned}}

\* Restore without --force never destroys the only copy of anything: what it
\* removes or overwrites is in a snapshot (restore.rs:36-38), also when earlier
\* restores died halfway.
WorkKept ==
  [][Locked /\ ~job.forced =>
       \A n \in Files \cup Hidden :
         disk[job.dir][n] \in {Absent, disk'[job.dir][n]} \cup Stored(n)]_vars

\* The snapshot that ends a restore has the files of its target, whatever state
\* the directory was left in before (restore.rs:9).
RestoreExact ==
  [][job.at = "snap" /\ snaps' # snaps =>
       \A n \in Files : snaps'[Len(snaps')][n] = File(Plain(snaps[job.target][n]))]_vars

\* A directory remains the workspace it was made as: what is done in it concerns
\* that workspace's files and change (workspace.rs:4-6).  The code does not keep
\* this: scan records the marker like any file, and restore renders it.
StaysItself == \A d \in Dirs : disk[d][Marker] \in {Absent, d}

=============================================================================
