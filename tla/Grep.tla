-------------------------------- MODULE Grep ---------------------------------
(***************************************************************************)
(* grep.rs: the search of a snapshot's tree, with its caps, by the         *)
(* functions of the code, which recurse.                                   *)
(***************************************************************************)
EXTENDS TreeHistory

CONSTANTS
  Matching,  \* texts of lines that the pattern of a grep matches
  Caps       \* caps of greps, the largest standing for none

NamesIn(tree) == SelectSeq(NameSeq, LAMBDA n : n \in DOMAIN tree)

\* The lines, as str::lines counts them, in which the pattern matches.
Found(lines) == {StrLineOf(lines, i) : i \in {i \in DOMAIN lines : lines[i].text \in Matching}}

\* The lines of one file from line i on; the caps are looked at after a match
\* has been recorded.
RECURSIVE ScanFile(_, _, _, _, _, _)
ScanFile(path, lines, i, count, opts, out) ==
  IF i \notin StrLines(lines) THEN out
  ELSE IF i \notin Found(lines) THEN ScanFile(path, lines, i + 1, count, opts, out)
  ELSE LET more == Append(out, [path |-> path, line_number |-> i]) IN
       IF count + 1 >= opts.per_file \/ Len(more) >= opts.total THEN more
       ELSE ScanFile(path, lines, i + 1, count + 1, opts, more)

\* walk: in the order of the names, files that pass the filter and are text.
RECURSIVE Walk(_, _, _, _, _)
Walk(tree, names, prefix, opts, out) ==
  IF names = << >> \/ Len(out) >= opts.total THEN out
  ELSE LET path == Append(prefix, Head(names))
           e == tree[Head(names)]
       IN Walk(tree, Tail(names), prefix, opts,
            CASE e.kind = "file" /\ Passes(path, opts.paths) /\ ~ e.target.binary ->
                   ScanFile(path, e.target.lines, 1, 0, opts, out)
              [] e.kind = "tree" -> Walk(e.target, NamesIn(e.target), path, opts, out)
              [] OTHER -> out)

GrepTree(tree, opts) == Walk(tree, NamesIn(tree), << >>, opts, << >>)
-----------------------------------------------------------------------------
(* Properties *)

Position(n) == CHOOSE i \in DOMAIN NameSeq : NameSeq[i] = n
PathBefore(p, q) == \E n \in 1 .. Len(p) :
  n <= Len(q) /\ SameUpTo(p, q, n - 1) /\ Position(p[n]) < Position(q[n])
HitBefore(a, b) == PathBefore(a.path, b.path) \/ (a.path = b.path /\ a.line_number < b.line_number)

\* Every matching line of every text file the filter lets through, in order.
Hits(paths) ==
  LET files == Files(tip)
      asked == {p \in DOMAIN files : files[p].kind = "file" /\ ~ files[p].target.binary
                                  /\ (paths = {} \/ \E f \in paths : Under(p, f))}
      hits == UNION {{[path |-> p, line_number |-> n] : n \in Found(files[p].target.lines)} : p \in asked}
  IN [i \in 1 .. Cardinality(hits) |->
        CHOOSE h \in hits : Cardinality({g \in hits : HitBefore(g, h)}) = i - 1]

\* A grep with caps returns the first hits of each file, and of these the
\* first overall: the walk that stops early loses and repeats none.  A cap of
\* 0 per file is one of 1 (grep.rs:70, 78-80, 208-216).
GrepIsFirstHits ==
  \A paths \in {{}} \cup {{f} : f \in Filters} :
    LET all == Hits(paths)
        rank(h) == Cardinality({k \in DOMAIN all : all[k].path = h.path /\ all[k].line_number <= h.line_number})
    IN \A per_file, total \in Caps :
         LET kept == SelectSeq(all, LAMBDA h : rank(h) <= AtLeastOne(per_file))
         IN GrepTree(tip, [paths |-> paths, per_file |-> per_file, total |-> total])
              = SubSeq(kept, 1, IF total < Len(kept) THEN total ELSE Len(kept))
=============================================================================
