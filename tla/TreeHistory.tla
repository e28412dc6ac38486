----------------------------- MODULE TreeHistory -----------------------------
(***************************************************************************)
(* The snapshots of a change whose tree is edited through the daemon and   *)
(* by `tig seal` (PATCH and DELETE of a path, handlers.rs; cmd_seal), from *)
(* a first one that was scanned; and what diff, grep and blame say of      *)
(* them.  Snapshot i has the tree trees[i] and the parent i - 1.           *)
(***************************************************************************)
EXTENDS Trees

CONSTANTS
  FirstTrees, \* what the first snapshot may hold
  Paths,      \* the paths of requests
  Blobs,      \* what PATCH may send
  Secret,     \* what `tig seal` may write
  Filters,    \* path filters of diffs and greps
  Contexts,   \* context_lines of diffs
  MaxSnaps    \* bound: snapshots

ASSUME PathsFit == Paths \subseteq AllPaths
ASSUME FiltersFit == \A f \in Filters : f.parts \in Seq(Names) \ {<< >>} /\ f.slash \in BOOLEAN

ASSUME ContextsAreNat == Contexts \subseteq Nat
ASSUME FirstTextsFit == \A tree \in FirstTrees, path \in AllPaths :
  Lookup(tree, path).kind = "file" => Lookup(tree, path).target \in Blobs
\* The empty text stands for the side on which a file is not.
ASSUME BlobsAreTexts ==
  /\ Text(<< >>) \in Blobs
  /\ \A b \in Blobs : b.binary \in BOOLEAN /\ b.lines \in Seq({b.lines[i] : i \in DOMAIN b.lines})

VARIABLE trees

tip == trees[Len(trees)]

\* snap_change_directly records nothing when the tree is the tip's.
Record(tree) ==
  /\ Len(trees) < MaxSnaps
  /\ tree # tip
  /\ trees' = Append(trees, tree)

\* patch_tree_path, write_blob_at_path
Patch(path, blob) == CanInsert(tip, path) /\ Record(Insert(tip, path, File(blob)))

\* cmd_seal, write_sealed_at_path
Seal(path) == CanInsert(tip, path) /\ Record(Insert(tip, path, Sealed(Secret)))

\* delete_tree_path, delete_at_path
DeletePath(path) == Lookup(tip, path) # Absent /\ Record(Delete(tip, path))

Init == \E tree \in FirstTrees : trees = <<tree>>

EditAt(path) ==
  \/ \E blob \in Blobs : Patch(path, blob)
  \/ Seal(path)
  \/ DeletePath(path)

Next == \E path \in Paths : EditAt(path)

Spec == Init /\ [][Next]_trees

-----------------------------------------------------------------------------
(* blame.rs *)

TextAt(i, path) == LET e == Lookup(trees[i], path) IN
  IF e.kind = "file" THEN e.target ELSE Binary

\* TextDiff::from_lines gives the same answers for the same texts.
Answer(f, t) == [from |-> f, to |-> t, all |-> Alignments(f, t)]
Answers == {Answer(b.lines, c.lines) : b, c \in Blobs}
AnswersFor(f, t) == (CHOOSE a \in Answers : a.from = f /\ a.to = t).all

Attributions(parents, was, now, snap) ==
  {Inherit(parent, now, m, snap) : parent \in parents, m \in AnswersFor(was, now)}

\* blame_at: for each line, the snapshot it is attributed to; one answer for
\* each way to match lines, none where blame refuses.  The lines of a file that
\* is new are those of str::lines, otherwise those of `similar`.
BlameAt(last, path) ==
  LET answers[i \in 1 .. last] ==
        LET now == TextAt(i, path)
            was == IF i = 1 THEN Binary ELSE TextAt(i - 1, path)
        IN IF now.binary THEN {}
           ELSE IF was.binary THEN {[j \in StrLines(now.lines) |-> i]}
           ELSE Attributions(answers[i - 1], was.lines, now.lines, i)
  IN answers[last]

-----------------------------------------------------------------------------
(* The endpoints of a diff: a snapshot, or for 0 the empty tree, which     *)
(* stands for the parent of a snapshot that has none.                      *)

TreeAt(i) == IF i = 0 THEN NoTree ELSE trees[i]
DiffTo(i, filters) == DiffTrees(TreeAt(i), tip, filters)
Earlier == 0 .. Len(trees) - 1

-----------------------------------------------------------------------------
(* Properties *)

IsLeaf(e) == e.kind \notin {"none", "tree"}
LeafPaths(tree) == {path \in AllPaths : IsLeaf(Lookup(tree, path))}
Files(tree) == [path \in LeafPaths(tree) |-> Lookup(tree, path)]

EmptyDirs(tree) == {path \in AllPaths : IsTree(Lookup(tree, path)) /\ Lookup(tree, path).target = NoTree}

Flat == INSTANCE FlatFiles WITH
  files <- Files(tip), Leaves <- {File(b) : b \in Blobs} \cup {Sealed(Secret)}

\* Every edit of a tree, which rewrites each tree on the way from the root,
\* changes the files at and below its path and nothing else
\* (tree_edit.rs:26-63, 156-159, 202-304).
EditsAreFlat == Flat!Spec

\* An edit removes the directories that it empties, and those that were empty
\* on its way or where it writes, and no other: off its path an empty directory
\* that a scan recorded stays, and nowhere does one appear
\* (tree_edit.rs:247-262, 286).
PrunesOnItsPath ==
  [][\A path \in Paths : EditAt(path) =>
       EmptyDirs(tip') = {q \in EmptyDirs(tip) : ~ IsPrefix(path, q) /\ ~ IsPrefix(q, path)}]_trees

\* Modes apart, which diff does not compare.
Content(f) == [p \in DOMAIN f |-> [kind |-> f[p].kind, target |-> f[p].target]]

\* Taking the changed paths, and all below them, out of one side's files and
\* putting the other side's in.
Patched(files, diff) ==
  LET new(d, q) == Follow(d.to, Beyond(q, Len(d.path)))
      gone == {q \in DOMAIN files : \E d \in diff : IsPrefix(d.path, q)}
      come == {q \in AllPaths : \E d \in diff : IsPrefix(d.path, q) /\ IsLeaf(new(d, q))}
  IN [q \in (DOMAIN files \ gone) \cup come |->
        IF q \in come THEN new(CHOOSE d \in diff : IsPrefix(d.path, q), q) ELSE files[q]]

\* The diff from any snapshot to any later one leads from the files of the
\* first to those of the second, says of each change what kind it is, and
\* mentions no path that is the same (diff.rs:6-8, 28-32).
DiffExplains ==
  \A i \in Earlier :
    LET diff == DiffTo(i, {}) from == Files(TreeAt(i)) IN
    /\ Content(Patched(from, diff)) = Content(Files(tip))
    /\ \A d \in diff :
         /\ ~ IsTree(d.from) \/ ~ IsTree(d.to)
         /\ (d.kind = "Added") <=> d.from = Absent
         /\ (d.kind = "Removed") <=> d.to = Absent
         /\ (d.kind = "TypeChanged") <=> Absent \notin {d.from, d.to} /\ d.from.kind # d.to.kind
         /\ d.from.kind = d.to.kind => d.from.target # d.to.target

\* A diff under a filter leaves out no change that the filter asks for, though
\* whole subtrees are skipped, and adds only changes whose path the filter
\* itself begins with (diff.rs:80, 158-169).
FilterKeepsAskedFor ==
  \A i \in Earlier :
    LET all == DiffTo(i, {}) IN
    \A f \in Filters :
      LET some == DiffTo(i, {f}) IN
      /\ some \subseteq all
      /\ \A d \in all : Under(d.path, f) => d \in some
      /\ \A d \in some : Under(d.path, f) \/ Above(d.path, f)

\* The lines of one side, in order and without a gap.
Shows(indices, start, length) ==
  /\ {indices[k] : k \in DOMAIN indices} \ {0} = start .. start + length - 1
  /\ \A j, k \in DOMAIN indices :
       j < k /\ indices[j] # 0 /\ indices[k] # 0 => indices[j] < indices[k]

\* Each hunk says where it is on both sides: its context and removed lines
\* are the old text there, its context and added lines the new one; a start
\* is 0 only for an empty file, hunks do not overlap, and every changed line
\* is in one (diff.rs:61, 312-317).
HunksFit ==
  \A i \in Earlier : \A d \in DiffTo(i, {}) : HasHunks(d) =>
    LET f == LinesOf(d.from) t == LinesOf(d.to) IN
    \A m \in AnswersFor(f, t), context \in Contexts :
      LET hunks == Hunks(f, t, m, context)
      IN /\ \A h \in hunks :
              /\ h.from_start = 0 <=> f = << >>
              /\ h.to_start = 0 <=> t = << >>
              /\ Shows(Olds(h.lines), h.from_start, h.from_len)
              /\ Shows(News(h.lines), h.to_start, h.to_len)
              /\ \A k \in DOMAIN h.lines :
                   /\ h.lines[k].old # 0 => h.lines[k].text = f[h.lines[k].old].text
                   /\ h.lines[k].new # 0 => h.lines[k].text = t[h.lines[k].new].text
         /\ \A h, g \in hunks : h # g =>
              h.from_start + h.from_len <= g.from_start \/ g.from_start + g.from_len <= h.from_start
         /\ \A k \in DOMAIN f : ~ (\E x \in m : x[1] = k) =>
              \E h \in hunks : k \in h.from_start .. h.from_start + h.from_len - 1
         /\ \A k \in DOMAIN t : ~ (\E x \in m : x[2] = k) =>
              \E h \in hunks : k \in h.to_start .. h.to_start + h.to_len - 1

\* Blame answers with a snapshot that added such a line, and since which the
\* file has always had it; a snapshot that did not touch the file is blamed for
\* nothing, and one that only added lines for as many (blame.rs:1-24).  But
\* where the file came with a text that str::lines splits otherwise than
\* `similar`, the snapshot after that one may be blamed for lines that were
\* there (blame.rs:111-117), and the lines of the new file are those of the
\* former.
BlameTrue ==
  \A path \in Paths :
    LET last == Len(trees)
        now == TextAt(last, path)
        Had(i) == IF i = 0 THEN Binary ELSE TextAt(i, path)
        Missplit(i) ==
          ~ Had(i).binary /\ Had(i - 1).binary /\ ~ SplitsAlike(Had(i).lines)
        Adds(i, line) ==
          \/ Had(i - 1).binary
          \/ \E m \in AnswersFor(Had(i - 1).lines, Had(i).lines), j \in DOMAIN Had(i).lines :
               Had(i).lines[j] = line /\ ~ \E x \in m : x[2] = j
        Credits(i, line) == Adds(i, line) \/ Missplit(i - 1)
    IN /\ (BlameAt(last, path) = {}) <=> now.binary
       /\ \A attr \in BlameAt(last, path) :
            LET news == {k \in DOMAIN attr : attr[k] = last} IN
            /\ DOMAIN attr = IF Had(last - 1).binary THEN StrLines(now.lines) ELSE DOMAIN now.lines
            /\ \A k \in DOMAIN attr :
                 /\ Credits(attr[k], now.lines[k])
                 /\ \A i \in attr[k] .. last :
                      ~ Had(i).binary /\ \E j \in DOMAIN Had(i).lines : Had(i).lines[j] = now.lines[k]
            /\ Had(last - 1) = now => news = {} \/ Missplit(last - 1)
            /\ ~ Had(last - 1).binary /\ ~ Missplit(last - 1) =>
                 \A m \in AnswersFor(Had(last - 1).lines, now.lines) :
                   Cardinality(m) = Len(Had(last - 1).lines)
                     => Cardinality(news) = Len(now.lines) - Len(Had(last - 1).lines)

\* What blame.rs:107-109 and 152-154 say and only such texts refute: an
\* attribution has an entry for each line that the diff will see.  No run checks
\* it, see BlameTrue.
OnePerLine ==
  \A path \in Paths : \A attr \in BlameAt(Len(trees), path) :
    DOMAIN attr = DOMAIN TextAt(Len(trees), path).lines
=============================================================================
