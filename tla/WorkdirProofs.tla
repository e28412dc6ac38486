--------------------------- MODULE WorkdirProofs ---------------------------
(* A restore without --force destroys no only copy, and every restore ends *)
(* in its target: by an invariant on what a restore under way has left in  *)
(* the directory.                                                          *)
EXTENDS Workdir, TLAPS

\* What the restore under way has done so far.
Cleared1(n)  == disk[job.dir][n] = Absent
Rendered1(n) == disk[job.dir][n] = Plain(snaps[job.target][n])

Progress ==
  /\ job.at = "clear"  => \A n \in Files \ job.todo : Cleared1(n)
  /\ job.at = "render" => \A n \in Files : IF n \in job.todo THEN Cleared1(n) ELSE Rendered1(n)
  /\ job.at = "snap"   => \A n \in Files : Rendered1(n)

\* What a restore without --force has still to remove is in a snapshot.
Safe ==
  job.at = "clear" /\ ~job.forced =>
    \A n \in Files : disk[job.dir][n] \in {Absent} \cup Stored(n)

RestoreInv == TypeOK /\ Progress /\ Safe

----------------------------------------------------------------------------

\* Rendering an entry of a tree (render_tree) writes a text or nothing.
LEMMA PlainType == \A e \in Entry : Plain(e) \in {Absent} \cup Texts
  BY DEF Plain, Entry

\* A file with a text is an entry of a tree (build_entry).
LEMMA FileType == \A v \in {Absent} \cup Texts : File(v) \in Entry /\ Plain(File(v)) = v
  <1> SUFFICES ASSUME NEW v \in {Absent} \cup Texts
               PROVE  File(v) \in Entry /\ Plain(File(v)) = v
    OBVIOUS
  <1>1. CASE v = Absent
    BY <1>1 DEF File, Entry, Plain
  <1>2. CASE v # Absent
    <2>1. v \in Texts
      BY <1>2
    <2> DEFINE r == [kind |-> "File", text |-> v]
    <2>2. r \in [kind : {"File", "Sealed"}, text : Texts] /\ r.text = v
      BY <2>1
    <2>3. File(v) = r
      BY <1>2 DEF File
    <2>4. File(v) \in Entry
      BY <2>2, <2>3 DEF Entry
    <2>5. Plain(r) = v
      BY <2>2, AbsentIsNoEntry DEF Plain, Texts
    <2> QED
      BY <2>3, <2>4, <2>5
  <1> QED
    BY <1>1, <1>2

\* A scan (scan_dir) yields a tree.
LEMMA ScanType == TypeOK => \A w \in Dirs : Scan(w) \in Trees
  BY FileType DEF TypeOK, Scan, Trees, Names

\* Rewriting one entry of one directory keeps the disk's type.
LEMMA DiskType ==
  ASSUME TypeOK, NEW d \in Dirs, NEW n \in Names, NEW v \in {Absent} \cup Texts
  PROVE  [disk EXCEPT ![d][n] = v] \in [Dirs -> [Names -> {Absent} \cup Texts]]
  BY DEF TypeOK

\* Appending a tree keeps the snapshots there are.
LEMMA NewSnapType ==
  ASSUME TypeOK, NEW tree \in Trees, NewSnap(tree)
  PROVE  /\ snaps' \in Seq(Trees)
         /\ Len(snaps') = Len(snaps) + 1 /\ snaps'[Len(snaps')] = tree
         /\ \A i \in 1..Len(snaps) : snaps'[i] = snaps[i]
  BY DEF TypeOK, NewSnap

\* The parameters are sound: a directory exists, its texts are texts.
LEMMA Parameters ==
  /\ Main \in Dirs /\ Secondary \subseteq Dirs /\ Contents \subseteq Texts
  /\ Secondary \subseteq Texts /\ Files \subseteq Names /\ Hidden \subseteq Names
  /\ Marker \in Names /\ Scanned \subseteq Names /\ Cleared \subseteq Names
  /\ Files \subseteq Scanned
  BY DEF Dirs, Texts, Names, Scanned, Cleared

\* An entry done moves the job on and keeps its type.
LEMMA VisitedType ==
  ASSUME TypeOK, NEW n, NEW after \in {"render", "snap"}, Visited(n, after)
  PROVE  /\ job' \in [dir : Dirs, target : Nat, forced : BOOLEAN,
                      at : {"none", "clear", "render", "snap"}, todo : SUBSET Names]
         /\ job'.dir = job.dir /\ job'.target = job.target /\ job'.forced = job.forced
  BY Parameters DEF TypeOK, Visited

\* No job is a job.
LEMMA NoJobType ==
  NoJob \in [dir : Dirs, target : Nat, forced : BOOLEAN,
             at : {"none", "clear", "render", "snap"}, todo : SUBSET Names]
  BY Parameters DEF NoJob

\* Every directory, tree and job keeps its type under every command.
THEOREM TypeInvariant == Spec => []TypeOK
  <1>1. Init => TypeOK
    BY Parameters, NoJobType DEF Init, TypeOK, NoJob, Locked
  <1>2. TypeOK /\ [Next]_vars => TypeOK'
    <2> SUFFICES ASSUME TypeOK, [Next]_vars PROVE TypeOK'
      OBVIOUS
    <2>1. ASSUME NEW d \in Dirs, NEW n \in Files \cup Hidden, NEW v \in Contents \cup {Absent},
                 Edit(d, n, v)
          PROVE  TypeOK'
      <3>1. n \in Names /\ v \in {Absent} \cup Texts
        BY Parameters
      <3>2. disk' \in [Dirs -> [Names -> {Absent} \cup Texts]]
        BY <2>1, <3>1, DiskType DEF Edit
      <3> QED
        BY <2>1, <3>2 DEF Edit, TypeOK, Locked
    <2>2. ASSUME NEW n \in Files, NEW e \in Entry, EditTip(n, e) PROVE TypeOK'
      <3>1. Len(snaps) \in 1..Len(snaps) /\ Tip \in Trees
        BY <2>2 DEF EditTip, Tip, TypeOK
      <3>2. [Tip EXCEPT ![n] = e] \in Trees
        BY <3>1 DEF Trees
      <3>3. snaps' \in Seq(Trees)
        BY <2>2, <3>2, NewSnapType DEF EditTip
      <3> QED
        BY <2>2, <3>3 DEF EditTip, TypeOK, Locked
    <2>3. ASSUME NEW d \in Dirs, Snap(d) PROVE TypeOK'
      <3>1. PICK w \in Discovered(d) : NewSnap(Scan(w))
        BY <2>3 DEF Snap
      <3>2. w \in Dirs
        BY <3>1, Parameters DEF Discovered, TypeOK
      <3>3. snaps' \in Seq(Trees)
        BY <3>1, <3>2, ScanType, NewSnapType
      <3> QED
        BY <2>3, <3>3 DEF Snap, TypeOK, Locked
    <2>4. ASSUME NEW d \in Dirs, NEW k \in Secondary, WtMake(d, k) PROVE TypeOK'
      <3> DEFINE rendered == [n \in Names |-> IF n \in Scanned THEN Plain(Tip[n]) ELSE Absent]
                 Texted   == [Names -> {Absent} \cup Texts]
      <3>1. PICK w \in Discovered(d) : \E copy \in {disk[w], rendered} :
              disk' = [disk EXCEPT ![k] = [copy EXCEPT ![Marker] = k]]
        BY <2>4 DEF WtMake
      <3>0. PICK copy \in {disk[w], rendered} :
              disk' = [disk EXCEPT ![k] = [copy EXCEPT ![Marker] = k]]
        BY <3>1
      <3>2. w \in Dirs
        BY Parameters DEF Discovered, TypeOK
      <3>3. Tip \in Trees
        BY <2>4 DEF WtMake, Tip, TypeOK
      <3>4. rendered \in Texted
        BY <3>3, PlainType, Parameters DEF Trees
      <3>5. disk[w] \in Texted
        BY <3>2 DEF TypeOK
      <3>6. copy \in Texted
        BY <3>4, <3>5
      <3>7. [copy EXCEPT ![Marker] = k] \in Texted
        BY <3>6, Parameters
      <3>8. disk' \in [Dirs -> Texted]
        BY <3>0, <3>7, Parameters DEF TypeOK
      <3> QED
        BY <2>4, <3>8 DEF WtMake, TypeOK, Locked
    <2>5. ASSUME NEW d \in Dirs, NEW target \in 1..Len(snaps), NEW forced \in BOOLEAN,
                 NEW identity \in BOOLEAN, RestoreBegin(d, target, forced, identity)
          PROVE  TypeOK'
      <3>1. PICK w \in Discovered(d) :
              job' = [dir |-> w, target |-> target, forced |-> forced,
                      at |-> "clear", todo |-> Cleared]
        BY <2>5 DEF RestoreBegin
      <3>2. w \in Dirs
        BY <3>1, Parameters DEF Discovered, TypeOK
      <3>3. target \in Nat
        BY DEF TypeOK
      <3> QED
        BY <2>5, <3>1, <3>2, <3>3, Parameters DEF RestoreBegin, TypeOK
    <2>6. ASSUME NEW n \in Cleared, Clear(n) PROVE TypeOK'
      <3>1. job.dir \in Dirs /\ Absent \in {Absent} \cup Texts
        BY DEF TypeOK
      <3>2. disk' \in [Dirs -> [Names -> {Absent} \cup Texts]]
        BY <2>6, <3>1, DiskType, Parameters DEF Clear
      <3>3. Locked /\ job'.target = job.target
        BY <2>6, VisitedType DEF Clear, Locked
      <3> QED
        BY <2>6, <3>2, <3>3, VisitedType DEF Clear, TypeOK
    <2>7. ASSUME NEW n \in Scanned, Render(n) PROVE TypeOK'
      <3> DEFINE e == snaps[job.target][n]
      <3>1. Locked /\ job.dir \in Dirs /\ job'.target = job.target
        BY <2>7, VisitedType DEF Render, Locked, TypeOK
      <3>2. CASE e = Absent
        <4>1. disk' = disk
          BY <2>7, <3>2 DEF Render
        <4> QED
          BY <2>7, <3>1, <4>1, VisitedType DEF Render, TypeOK, Locked
      <3>3. CASE e # Absent
        <4>1. disk' = [disk EXCEPT ![job.dir][n] = Plain(e)]
          BY <2>7, <3>3 DEF Render
        <4>2. n \in Scanned /\ snaps[job.target] \in Trees
          BY <2>7, <3>1 DEF TypeOK
        <4>3. Plain(e) \in {Absent} \cup Texts
          BY <4>2, PlainType DEF Trees
        <4>4. disk' \in [Dirs -> [Names -> {Absent} \cup Texts]]
          BY <3>1, <4>1, <4>3, DiskType, Parameters
        <4> QED
          BY <2>7, <3>1, <4>4, VisitedType DEF Render, TypeOK
      <3> QED
        BY <3>2, <3>3
    <2>8. CASE RestoreEnd
      <3>1. job.dir \in Dirs
        BY DEF TypeOK
      <3>2. snaps' \in Seq(Trees)
        BY <2>8, <3>1, ScanType, NewSnapType DEF RestoreEnd
      <3> QED
        BY <2>8, <3>2, NoJobType DEF RestoreEnd, TypeOK, Locked, NoJob
    <2>9. CASE Abort
      BY <2>9, NoJobType DEF Abort, TypeOK, Locked, NoJob
    <2>10. CASE UNCHANGED vars
      BY <2>10 DEF vars, TypeOK, Locked
    <2>11. \A v \in Contents \cup {Absent} : File(v) \in Entry
      BY FileType, Parameters
    <2>12. \A v \in Contents : Sealed(v) \in Entry
      BY Parameters DEF Sealed, Entry
    <2>13. {Main} \cup made \subseteq Dirs
      BY Parameters DEF TypeOK
    <2> QED
      BY <2>1, <2>2, <2>3, <2>4, <2>5, <2>6, <2>7, <2>8, <2>9, <2>10, <2>11, <2>12, <2>13
         DEF Next, Patch, Seal
  <1> QED
    BY <1>1, <1>2, PTL DEF Spec

----------------------------------------------------------------------------
(* From here on users leave a directory alone while it is restored. *)

\* While no restore is under way there is nothing to keep.
LEMMA Idle == ~Locked => Progress /\ Safe
  BY DEF Locked, Progress, Safe

\* Users, and commands that only add a snapshot or a workspace, leave the
\* restored directory alone.
LEMMA OthersKeep ==
  ASSUME ~EditsAnytime, RestoreInv, NEW d \in Dirs, NEW n \in Names, NEW v,
         Edit(d, n, v)
  PROVE  /\ Progress' /\ Safe'
         /\ Locked => disk'[job.dir] = disk[job.dir]
  <1>1. CASE ~Locked
    <2>1. ~Locked'
      BY <1>1 DEF Edit, Locked
    <2> QED
      BY <1>1, <2>1, Idle DEF Locked, Progress, Safe
  <1>2. CASE Locked
    <2>1. disk'[job.dir] = disk[job.dir] /\ job' = job /\ snaps' = snaps
      BY <1>2 DEF Edit, RestoreInv, TypeOK
    <2>2. Progress'
      BY <2>1 DEF RestoreInv, Progress, Cleared1, Rendered1
    <2>3. Safe'
      BY <2>1 DEF RestoreInv, Safe, Stored
    <2> QED
      BY <2>1, <2>2, <2>3
  <1> QED
    BY <1>1, <1>2

\* The dirty check of restore_tree_into: a clean directory's files are those of
\* the tip, hence in a snapshot.
LEMMA CleanStored ==
  ASSUME TypeOK, NEW w \in Dirs, Len(snaps) # 0, Clean(w), NEW n \in Files
  PROVE  disk[w][n] \in Stored(n)
  <1>1. n \in Scanned /\ disk[w][n] \in {Absent} \cup Texts
    BY Parameters DEF TypeOK
  <1>2. Tip[n] = File(disk[w][n])
    BY <1>1 DEF Clean, Scan
  <1>3. Plain(Tip[n]) = disk[w][n]
    BY <1>1, <1>2, FileType
  <1>4. Len(snaps) \in 1..Len(snaps)
    BY DEF TypeOK
  <1> QED
    BY <1>1, <1>3, <1>4 DEF Stored, Tip

\* A restore that has just begun has done nothing, and may go on safely.
LEMMA BeginKeeps ==
  ASSUME RestoreInv, NEW d \in Dirs, NEW target \in 1..Len(snaps),
         NEW forced \in BOOLEAN, NEW identity \in BOOLEAN,
         RestoreBegin(d, target, forced, identity)
  PROVE  Progress' /\ Safe'
  <1>1. PICK w \in Discovered(d) :
          /\ forced \/ Clean(w)
          /\ job' = [dir |-> w, target |-> target, forced |-> forced,
                     at |-> "clear", todo |-> Cleared]
    BY DEF RestoreBegin
  <1>2. w \in Dirs /\ Len(snaps) # 0 /\ TypeOK
    BY Parameters DEF Discovered, RestoreInv, TypeOK
  <1>3. disk' = disk /\ snaps' = snaps
    BY DEF RestoreBegin
  <1>4. Progress'
    BY <1>1 DEF Progress, Cleared
  <1>5. Safe'
    <2>1. ~forced => \A n \in Files : disk[w][n] \in Stored(n)
      BY <1>1, <1>2, CleanStored
    <2> QED
      BY <1>1, <1>3, <2>1 DEF Safe, Stored
  <1> QED
    BY <1>4, <1>5

\* clear_workdir goes through the directory once.
LEMMA ClearKeeps ==
  ASSUME RestoreInv, NEW n \in Cleared, Clear(n)
  PROVE  Progress' /\ Safe'
  <1>1. TypeOK /\ job.at = "clear" /\ n \in job.todo /\ Visited(n, "render") /\ snaps' = snaps
    BY DEF RestoreInv, Clear
  <1>2. /\ job'.dir = job.dir /\ job'.target = job.target /\ job'.forced = job.forced
    BY <1>1, VisitedType
  <1>3. \A m \in Files : disk'[job.dir][m] = IF m = n THEN Absent ELSE disk[job.dir][m]
    BY <1>1, Parameters DEF Clear, TypeOK
  <1>4. CASE job.todo # {n}
    <2>1. job'.at = "clear" /\ job'.todo = job.todo \ {n}
      BY <1>1, <1>4 DEF Visited, TypeOK
    <2>2. Progress'
      BY <1>1, <1>2, <1>3, <2>1 DEF RestoreInv, Progress, Cleared1
    <2>3. Safe'
      BY <1>1, <1>2, <1>3, <2>1 DEF RestoreInv, Safe, Stored
    <2> QED
      BY <2>2, <2>3
  <1>5. CASE job.todo = {n}
    <2>1. job'.at = "render" /\ job'.todo = Scanned
      BY <1>1, <1>5 DEF Visited, TypeOK
    <2>2. \A m \in Files : Cleared1(m)'
      BY <1>1, <1>2, <1>3, <1>5 DEF RestoreInv, Progress, Cleared1
    <2>3. Progress'
      BY <2>1, <2>2, Parameters DEF Progress
    <2>4. Safe'
      BY <2>1 DEF Safe
    <2> QED
      BY <2>3, <2>4
  <1> QED
    BY <1>4, <1>5

\* render_tree writes each entry of the target once, into an empty directory.
LEMMA RenderKeeps ==
  ASSUME RestoreInv, NEW n \in Scanned, Render(n)
  PROVE  Progress' /\ Safe'
  <1>1. TypeOK /\ job.at = "render" /\ n \in job.todo /\ Visited(n, "snap") /\ snaps' = snaps
    BY DEF RestoreInv, Render
  <1>2. /\ job'.dir = job.dir /\ job'.target = job.target /\ job'.forced = job.forced
    BY <1>1, VisitedType
  <1>3. \A m \in Files : m # n => disk'[job.dir][m] = disk[job.dir][m]
    BY <1>1, Parameters DEF Render, TypeOK
  <1>4. n \in Files => disk'[job.dir][n] = Plain(snaps[job.target][n])
    <2>1. n \in Files => disk[job.dir][n] = Absent
      BY <1>1 DEF RestoreInv, Progress, Cleared1
    <2> QED
      BY <1>1, <2>1, Parameters DEF Render, Plain, TypeOK
  <1>5. \A m \in Files \ (job.todo \ {n}) : Rendered1(m)'
    <2> SUFFICES ASSUME NEW m \in Files \ (job.todo \ {n}) PROVE Rendered1(m)'
      OBVIOUS
    <2>1. CASE m = n
      BY <1>1, <1>2, <1>4, <2>1 DEF Rendered1
    <2>2. CASE m # n
      <3>1. Rendered1(m)
        BY <1>1, <2>2 DEF RestoreInv, Progress
      <3> QED
        BY <1>1, <1>2, <1>3, <2>2, <3>1 DEF Rendered1
    <2> QED
      BY <2>1, <2>2
  <1>6. CASE job.todo # {n}
    <2>1. job'.at = "render" /\ job'.todo = job.todo \ {n}
      BY <1>1, <1>6 DEF Visited, TypeOK
    <2>2. \A m \in Files \cap job'.todo : Cleared1(m)'
      BY <1>1, <1>2, <1>3, <2>1 DEF RestoreInv, Progress, Cleared1
    <2>3. Progress'
      BY <1>5, <2>1, <2>2 DEF Progress
    <2> QED
      BY <2>1, <2>3 DEF Safe
  <1>7. CASE job.todo = {n}
    <2>1. job'.at = "snap"
      BY <1>1, <1>7 DEF Visited, TypeOK
    <2>2. Progress'
      BY <1>5, <1>7, <2>1 DEF Progress
    <2> QED
      BY <2>1, <2>2 DEF Safe
  <1> QED
    BY <1>6, <1>7

\* The invariant of a restore under way holds throughout.
THEOREM RestoreInvariant == ASSUME ~EditsAnytime PROVE Spec => []RestoreInv
  <1>1. Init => Progress /\ Safe
    BY DEF Init, NoJob, Progress, Safe
  <1>2. RestoreInv /\ [Next]_vars => (Progress /\ Safe)'
    <2> SUFFICES ASSUME RestoreInv, [Next]_vars PROVE Progress' /\ Safe'
      OBVIOUS
    <2>1. ASSUME NEW d \in Dirs, NEW n \in Files \cup Hidden, NEW v \in Contents \cup {Absent},
                 Edit(d, n, v)
          PROVE  Progress' /\ Safe'
      BY <2>1, OthersKeep, Parameters
    <2>2. ASSUME NEW n \in Files, NEW e, EditTip(n, e) PROVE Progress' /\ Safe'
      BY <2>2 DEF EditTip, Locked, Progress, Safe
    <2>3. ASSUME NEW d \in Dirs, Snap(d) PROVE Progress' /\ Safe'
      BY <2>3 DEF Snap, Locked, Progress, Safe
    <2>4. ASSUME NEW d \in Dirs, NEW k \in Secondary, WtMake(d, k) PROVE Progress' /\ Safe'
      BY <2>4 DEF WtMake, Locked, Progress, Safe
    <2>5. CASE RestoreEnd \/ Abort
      BY <2>5 DEF RestoreEnd, Abort, NoJob, Progress, Safe
    <2>6. CASE UNCHANGED vars
      BY <2>6 DEF vars, RestoreInv, Progress, Safe, Cleared1, Rendered1, Stored
    <2>7. {Main} \cup made \subseteq Dirs
      BY Parameters DEF RestoreInv, TypeOK
    <2> QED
      BY <2>1, <2>2, <2>3, <2>4, <2>5, <2>6, <2>7, BeginKeeps, ClearKeeps, RenderKeeps
         DEF Next, Patch, Seal
  <1> QED
    BY <1>1, <1>2, TypeInvariant, PTL DEF Spec, RestoreInv

\* What is in the target is in a snapshot.
LEMMA TargetStored ==
  ASSUME TypeOK, Locked, NEW n \in Files
  PROVE  Plain(snaps[job.target][n]) \in Stored(n)
  BY Parameters DEF TypeOK, Stored

\* Without --force a restore under way finds, at every file, nothing or what a
\* snapshot has.
LEMMA StoredUnderWay ==
  ASSUME RestoreInv, Locked, ~job.forced, NEW n \in Files
  PROVE  disk[job.dir][n] \in {Absent} \cup Stored(n)
  <1>1. CASE job.at = "clear"
    BY <1>1 DEF RestoreInv, Safe
  <1>2. CASE job.at = "render"
    BY <1>2, TargetStored DEF RestoreInv, Progress, Cleared1, Rendered1
  <1>3. CASE job.at = "snap"
    BY <1>3, TargetStored DEF RestoreInv, Progress, Rendered1
  <1> QED
    BY <1>1, <1>2, <1>3 DEF Locked, RestoreInv, TypeOK

\* Restore without --force destroys no only copy (restore.rs:36-38), provided
\* users leave the directory alone meanwhile and no directory below the top
\* level has a .tig or .tig-worktrees in it.
THEOREM RestoreKeepsWork ==
  ASSUME ~EditsAnytime, Hidden = {} PROVE Spec => WorkKept
  <1> DEFINE Kept == Locked /\ ~job.forced =>
                       \A n \in Files \cup Hidden :
                         disk[job.dir][n] \in {Absent, disk'[job.dir][n]} \cup Stored(n)
  <1>1. RestoreInv /\ [Next]_vars => [Kept]_vars
    BY StoredUnderWay
  <1> QED
    BY <1>1, RestoreInvariant, PTL DEF Spec, WorkKept

\* The snapshot that ends a restore has exactly the files of its target
\* (restore.rs:9), provided users leave the directory alone meanwhile.
THEOREM RestoreIsExact ==
  ASSUME ~EditsAnytime PROVE Spec => RestoreExact
  <1> DEFINE Exact == job.at = "snap" /\ snaps' # snaps =>
                        \A n \in Files :
                          snaps'[Len(snaps')][n] = File(Plain(snaps[job.target][n]))
  <1>1. RestoreInv /\ [Next]_vars => [Exact]_vars
    <2> SUFFICES ASSUME RestoreInv, Next, job.at = "snap", snaps' # snaps, NEW n \in Files
                 PROVE  snaps'[Len(snaps')][n] = File(Plain(snaps[job.target][n]))
      OBVIOUS
    <2>1. RestoreEnd
      BY DEF Next, Edit, Snap, EditTip, Patch, Seal, WtMake, RestoreBegin, Clear, Render, Abort, Locked
    <2>2. TypeOK /\ job.dir \in Dirs
      BY DEF RestoreInv, TypeOK
    <2>3. snaps'[Len(snaps')] = Scan(job.dir)
      BY <2>1, <2>2, ScanType, NewSnapType DEF RestoreEnd
    <2>4. disk[job.dir][n] = Plain(snaps[job.target][n])
      BY DEF RestoreInv, Progress, Rendered1
    <2> QED
      BY <2>3, <2>4, Parameters DEF Scan
  <1> QED
    BY <1>1, RestoreInvariant, PTL DEF Spec, RestoreExact

=============================================================================
