-------------------------------- MODULE Trees --------------------------------
(***************************************************************************)
(* Trees as values, and the functions on them: edits and lookups by path   *)
(* (tree_edit.rs) and diff (diff.rs).  A tree is a function from names to  *)
(* entries; as the store is content-addressed, comparing two targets is    *)
(* comparing two hashes.  A path is the sequence of its components, as     *)
(* split_path returns it.                                                  *)
(***************************************************************************)
EXTENDS Lines, SequencesExt

CONSTANTS
  NameSeq,   \* the names of entries, in order
  Begins,    \* pairs of names of which the second begins with the first
  MaxDepth   \* bound: components of a path

Names == {NameSeq[i] : i \in DOMAIN NameSeq}
ASSUME BeginsOnNames == Begins \subseteq Names \X Names /\ \A n \in Names : <<n, n>> \in Begins
ASSUME DepthIsNat == MaxDepth \in Nat

AllPaths == UNION {[1 .. n -> Names] : n \in 1 .. MaxDepth}
Upto(path, n) == SubSeq(path, 1, n)
Beyond(path, n) == SubSeq(path, n + 1, Len(path))

Absent == [kind |-> "none"]
NoTree == [n \in {} |-> Absent]
Text(lines) == [binary |-> FALSE, lines |-> lines]
Binary == [binary |-> TRUE, lines |-> << >>]

File(blob) == [kind |-> "file", mode |-> "regular", target |-> blob]
Dir(tree) == [kind |-> "tree", mode |-> "dir", target |-> tree]
Sealed(value) == [kind |-> "sealed", mode |-> "regular", target |-> value]

Entry(tree, name) == IF name \in DOMAIN tree THEN tree[name] ELSE Absent
With(tree, name, entry) ==
  [n \in DOMAIN tree \cup {name} |-> IF n = name THEN entry ELSE tree[n]]
Without(tree, name) == [n \in DOMAIN tree \ {name} |-> tree[n]]

-----------------------------------------------------------------------------
(* tree_edit.rs *)

IsTree(e) == e.kind = "tree"
Subtree(e) == IF IsTree(e) THEN e.target ELSE NoTree

Child(e, name) == IF IsTree(e) THEN Entry(e.target, name) ELSE Absent

\* From an entry down a path; Absent if there is nothing or no tree on the way.
Follow(entry, path) ==
  LET at[n \in 0 .. Len(path)] ==
        IF n = 0 THEN entry ELSE Child(at[n - 1], path[n])
  IN at[Len(path)]

\* lookup_entry; Absent for its errors.
Lookup(tree, path) == Follow(Dir(tree), path)

\* try_read_blob_at_path
IsFile(tree, path) == Lookup(tree, path).kind = "file"

\* list_tree: the root for the empty path.
List(tree, path) == IF IsTree(Lookup(tree, path)) THEN Lookup(tree, path).target ELSE Absent

\* rewrite_insert fails where the path leads through something that is there
\* and is not a tree.
CanInsert(tree, path) ==
  \A n \in 1 .. Len(path) - 1 : Lookup(tree, Upto(path, n)).kind \in {"tree", "none"}

InsertAlone(tree, path, entry) ==
  LET new[n \in 0 .. Len(path)] ==
        IF n = Len(path) THEN entry
        ELSE Dir(With(IF n = 0 THEN tree ELSE NoTree, path[n + 1], new[n + 1]))
  IN new[0].target

\* rewrite_insert: new[n] takes the place of what is at the first n components.
\* Whatever is at the path is replaced, and trees missing on the way are made.
Insert(tree, path, entry) ==
  LET new[n \in 0 .. Len(path)] ==
        IF n = Len(path) THEN entry
        ELSE Dir(With(Subtree(Lookup(tree, Upto(path, n))), path[n + 1], new[n + 1]))
  IN new[0].target

Replace(tree, name, entry) == IF entry = Absent THEN Without(tree, name) ELSE With(tree, name, entry)

DeleteUnpruned(tree, path) ==
  LET left[n \in 0 .. Len(path)] ==
        IF n = Len(path) THEN Absent
        ELSE Dir(Replace(Lookup(tree, Upto(path, n)).target, path[n + 1], left[n + 1]))
  IN left[0].target

\* rewrite_remove, for a path that is there: left[n] remains of what is at the
\* first n components; trees left empty go too, except for the root.
Delete(tree, path) ==
  LET left[n \in 0 .. Len(path)] ==
        IF n = Len(path) THEN Absent
        ELSE LET sub == Replace(Lookup(tree, Upto(path, n)).target, path[n + 1], left[n + 1])
             IN IF sub = NoTree THEN Absent ELSE Dir(sub)
  IN Subtree(left[0])

-----------------------------------------------------------------------------
(* Path filters, as String::starts_with has them.  A filter is a sequence  *)
(* of components with or without a slash at its end.                       *)

SameUpTo(p, q, n) == \A i \in 1 .. n : p[i] = q[i]

\* path.starts_with(filter)
Under(path, filter) ==
  LET n == Len(filter.parts) IN
  /\ Len(path) >= n
  /\ SameUpTo(path, filter.parts, n - 1)
  /\ IF filter.slash THEN Len(path) > n /\ path[n] = filter.parts[n]
     ELSE <<filter.parts[n], path[n]>> \in Begins

\* filter.starts_with(path)
Above(path, filter) ==
  LET n == Len(path) IN
  /\ n <= Len(filter.parts)
  /\ SameUpTo(path, filter.parts, n - 1)
  /\ <<path[n], filter.parts[n]>> \in Begins

PassesEitherWay(path, filters) ==
  filters = {} \/ \E f \in filters : Under(path, f) \/ Above(path, f)

\* grep's path_passes_filter
Passes(path, filters) == filters = {} \/ \E f \in filters : Under(path, f)

-----------------------------------------------------------------------------
(* diff.rs *)

Kind(f, t) ==
  CASE f = Absent -> "Added" [] t = Absent -> "Removed"
    [] f # Absent /\ t # Absent /\ f.kind # t.kind -> "TypeChanged"
    [] OTHER -> "Modified"

\* emit_change, without the hunks.
Change(path, f, t) == [path |-> path, kind |-> Kind(f, t), from |-> f, to |-> t]

PathsIn(tree) == {path \in AllPaths : Lookup(tree, path) # Absent}

\* diff_subtree comes to a path of either tree if everything on the way, and
\* the path, passes the filter and is not the same on both sides, whatever the
\* modes, and everything on the way is a tree on either side or missing on one.
ComesTo(from, to, filters, path) ==
  \A n \in 1 .. Len(path) :
    LET f == Lookup(from, Upto(path, n))
        t == Lookup(to, Upto(path, n))
    IN /\ PassesEitherWay(Upto(path, n), filters)
       /\ ~ (f.kind = t.kind /\ f.target = t.target)
       /\ n < Len(path) => {f.kind, t.kind} \subseteq {"tree", "none"}

\* A change where it comes to anything else than a tree that is added, removed
\* or changed: into that it descends.
DiffSubtree(from, to, filters) ==
  {Change(path, Lookup(from, path), Lookup(to, path)) :
     path \in {path \in PathsIn(from) \cup PathsIn(to) :
       /\ ComesTo(from, to, filters, path)
       /\ ~ ({Lookup(from, path).kind, Lookup(to, path).kind} \subseteq {"tree", "none"})}}

DiffDescendingWhereUnder(from, to, filters) ==
  {d \in DiffSubtree(from, to, {}) :
     filters = {} \/ \E f \in filters : \A n \in 1 .. Len(d.path) : Under(Upto(d.path, n), f)}

DiffOfNewNames(from, to, filters) ==
  {d \in DiffSubtree(from, to, filters) : d.kind # "Removed"}

\* diff_trees
DiffTrees(from, to, filters) == IF from = to THEN {} ELSE DiffSubtree(from, to, filters)

\* The two texts of a change that gets hunks, if it is one: File entries that
\* were added, removed or modified, neither side binary.
HasHunks(d) ==
  /\ d.kind # "TypeChanged"
  /\ \A e \in {d.from, d.to} \ {Absent} : e.kind = "file" /\ ~ e.target.binary
LinesOf(e) == IF e = Absent THEN << >> ELSE e.target.lines

=============================================================================
