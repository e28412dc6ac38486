-------------------------------- MODULE Lines --------------------------------
(***************************************************************************)
(* Texts as sequences of lines: what `similar` may answer for two of them, *)
(* and what diff.rs makes of it.  A line is its text and what ends it, a   *)
(* newline, a carriage return alone, or the end of the text; lines are     *)
(* compared whole and shown without what ends them.                        *)
(***************************************************************************)
EXTENDS Naturals, Sequences, FiniteSets

Line(text) == [text |-> text, end |-> "lf"]
Returned(text) == [text |-> text, end |-> "cr"]
Unended(text) == [text |-> text, end |-> "none"]

\* str::lines, by which blame and grep count: a carriage return alone ends no
\* line, so that the last line of `similar` of each line of these is one of
\* these.
Ends(lines) == {i \in DOMAIN lines : lines[i].end # "cr" \/ i = Len(lines)}
StrLines(lines) == 1 .. Cardinality(Ends(lines))
StrLineOf(lines, i) == 1 + Cardinality({e \in Ends(lines) : e < i})
SplitsAlike(lines) == Ends(lines) = DOMAIN lines

\* Ways to match lines of f with equal lines of t, in order.
Matchings(f, t) ==
  {m \in SUBSET {x \in (DOMAIN f) \X (DOMAIN t) : f[x[1]] = t[x[2]]} :
     \A x, y \in m : x[1] < y[1] <=> x[2] < y[2]}

\* TextDiff::from_lines (Myers): some longest one; here all of them.
Alignments(f, t) ==
  LET all == Matchings(f, t) IN {m \in all : \A n \in all : Cardinality(n) <= Cardinality(m)}

\* iter_changes: between two matched lines, first what goes and then what
\* comes; 0 for the side on which a line is not.  So many lines of f and of t
\* come before each change.
Script(f, t, m) ==
  LET goes(i) == i <= Len(f) /\ ~ \E x \in m : x[1] = i
      comes(j) == j <= Len(t) /\ ~ \E x \in m : x[2] = j
      size == Len(f) + Len(t) - Cardinality(m)
      past[k \in 0 .. size] ==
        IF k = 0 THEN <<0, 0>>
        ELSE LET was == past[k - 1] IN
             IF goes(was[1] + 1) THEN <<was[1] + 1, was[2]>>
             ELSE IF comes(was[2] + 1) THEN <<was[1], was[2] + 1>>
             ELSE <<was[1] + 1, was[2] + 1>>
      change(was, now) ==
        [old |-> IF now[1] = was[1] THEN 0 ELSE now[1],
         new |-> IF now[2] = was[2] THEN 0 ELSE now[2],
         text |-> IF now[1] = was[1] THEN t[now[2]].text ELSE f[now[1]].text]
  IN [k \in 1 .. size |-> change(past[k - 1], past[k])]

Start(indices) ==
  IF \A i \in DOMAIN indices : indices[i] = 0 THEN 0
  ELSE indices[CHOOSE i \in DOMAIN indices :
                 indices[i] # 0 /\ \A k \in 1 .. i - 1 : indices[k] = 0]
Length(indices) == Cardinality({i \in DOMAIN indices : indices[i] # 0})

Olds(changes) == [k \in DOMAIN changes |-> changes[k].old]
News(changes) == [k \in DOMAIN changes |-> changes[k].new]

Hunk(changes) ==
  [from_start |-> Start(Olds(changes)), from_len |-> Length(Olds(changes)),
   to_start |-> Start(News(changes)), to_len |-> Length(News(changes)), lines |-> changes]

AtLeastOne(context) == IF context = 0 THEN 1 ELSE context

\* The lines that change, with so many around them; the runs of these.
HunksWithin(f, t, m, context) ==
  LET s == Script(f, t, m)
      changed == {k \in DOMAIN s : s[k].old = 0 \/ s[k].new = 0}
      near == {k \in DOMAIN s : \E c \in changed : k <= c + context /\ c <= k + context}
  IN {Hunk(SubSeq(s, run[1], run[2])) : run \in
        {x \in near \X near : /\ x[1] <= x[2] /\ x[1] .. x[2] \subseteq near
                              /\ x[1] - 1 \notin near /\ x[2] + 1 \notin near}}

HunksAsAsked(f, t, m, context) == HunksWithin(f, t, m, context)

\* blob_diff_hunks
Hunks(f, t, m, context) == HunksWithin(f, t, m, AtLeastOne(context))

\* Blame's inheritance: a matched line keeps the parent's attribution at its
\* old index, if the parent has one there; the others are this snapshot's.
InheritByNewIndex(parent, t, m, snap) ==
  [j \in DOMAIN t |-> IF \E i \in DOMAIN parent : <<i, j>> \in m
                      THEN parent[IF j \in DOMAIN parent THEN j ELSE Len(parent)] ELSE snap]

Inherit(parent, t, m, snap) ==
  [j \in DOMAIN t |-> IF \E i \in DOMAIN parent : <<i, j>> \in m
                      THEN parent[CHOOSE i \in DOMAIN parent : <<i, j>> \in m]
                      ELSE snap]
=============================================================================
