------------------------------ MODULE GcProofs ------------------------------
(***************************************************************************)
(* `tig gc` deletes no object that the refs, the log or an undo can lead   *)
(* to, for any objects, commands, and a log of any length.                 *)
(***************************************************************************)
EXTENDS Gc, OpLogProofs

----------------------------------------------------------------------------
(* What the mark loop computes.  The loop has as many rounds as there are    *)
(* objects to open, which is enough: a round that opens no new object adds   *)
(* nothing, nor does any later one.                                          *)

Wider(names, seen) == seen \cup UNION {names[o] : o \in seen \cap DOMAIN names}

\* f[n] is what has been seen after n rounds.
IsGrowth(f, names, roots, k) ==
  /\ DOMAIN f = 0..k
  /\ f[0] = roots
  /\ \A n \in 1..k : f[n] = Wider(names, f[n - 1])

\* The mark loop may go on for any number of rounds.
LEMMA GrowthExists ==
  ASSUME NEW names, NEW roots, NEW k \in Nat
  PROVE  \E f : IsGrowth(f, names, roots, k)
<1> DEFINE T == {m \in Nat : ~ \E f : IsGrowth(f, names, roots, m)}
<1>1. SUFFICES ASSUME T # {} PROVE FALSE
  OBVIOUS
<1>2. PICK m \in T : \A j \in T : m <= j
  <2>1. T \in SUBSET Nat
    OBVIOUS
  <2> HIDE DEF T
  <2> QED BY <1>1, <2>1, LeastNat
<1>3. m # 0
  <2>1. IsGrowth([n \in 0..0 |-> roots], names, roots, 0)
    BY DEF IsGrowth
  <2> QED
    BY <2>1
<1>4. m \in Nat /\ m - 1 \in Nat /\ ~(m <= m - 1)
  BY <1>3
<1>5. PICK f : IsGrowth(f, names, roots, m - 1)
  BY <1>2, <1>4
<1> DEFINE g == [n \in 0..m |-> IF n = m THEN Wider(names, f[m - 1]) ELSE f[n]]
<1>6. \A n \in 0..m-1 : g[n] = f[n]
  BY <1>4
<1>7. g[m] = Wider(names, f[m - 1]) /\ DOMAIN g = 0..m
  BY <1>4
<1>8. ASSUME NEW n \in 1..m
      PROVE  g[n] = Wider(names, g[n - 1])
  <2>1. g[n - 1] = f[n - 1]
    BY <1>4, <1>6
  <2>2. CASE n = m
    BY <1>7, <2>1, <2>2
  <2>3. CASE n # m
    <3>1. n \in 1..m-1 /\ n \in 0..m-1
      BY <1>4, <2>3
    <3> QED
      BY <1>5, <1>6, <2>1, <3>1 DEF IsGrowth
  <2> QED
    BY <2>2, <2>3
<1>9. g[0] = roots
  BY <1>4, <1>5, <1>6 DEF IsGrowth
<1> HIDE DEF g
<1>10. IsGrowth(g, names, roots, m)
  BY <1>7, <1>8, <1>9 DEF IsGrowth
<1> QED
  BY <1>10

\* Closure is what has been seen after the last round.
LEMMA ClosureIs ==
  ASSUME NEW names, NEW roots, IsFiniteSet(DOMAIN names)
  PROVE  /\ Cardinality(DOMAIN names) \in Nat
         /\ \E f : /\ IsGrowth(f, names, roots, Cardinality(DOMAIN names))
                   /\ Closure(names, roots) = f[Cardinality(DOMAIN names)]
<1> DEFINE N == Cardinality(DOMAIN names)
           Body(f) == [n \in 0..N |-> IF n = 0 THEN roots ELSE Wider(names, f[n - 1])]
           g == CHOOSE f : f = Body(f)
<1>1. N \in Nat
  BY FS_CardinalityType
<1>2. PICK h : IsGrowth(h, names, roots, N)
  <2> HIDE DEF N
  <2> QED BY <1>1, GrowthExists
<1>3. [n \in 0..N |-> h[n]] = Body([n \in 0..N |-> h[n]])
  BY <1>1, <1>2 DEF IsGrowth
<1>4. g = Body(g)
  <2> HIDE DEF Body
  <2> QED BY <1>3
<1>5. Closure(names, roots) = g[N]
  BY DEF Closure, Wider
<1> HIDE DEF g, N
<1>6. IsGrowth(g, names, roots, N)
  BY <1>1, <1>4 DEF IsGrowth
<1> QED
  BY <1>1, <1>5, <1>6 DEF N

\* Every round keeps what was seen.
LEMMA GrowthRises ==
  ASSUME NEW names, NEW roots, NEW k \in Nat, NEW f, IsGrowth(f, names, roots, k)
  PROVE  /\ \A n \in 0..k : roots \subseteq f[n]
         /\ \A n \in 0..k-1 : f[n] \subseteq f[n + 1]
<1>1. \A n \in 0..k-1 : f[n] \subseteq f[n + 1]
  <2>1. \A n \in 0..k-1 : n + 1 \in 1..k /\ (n + 1) - 1 = n
    OBVIOUS
  <2>2. \A n \in 0..k-1 : f[n + 1] = Wider(names, f[n])
    BY <2>1 DEF IsGrowth
  <2> QED
    BY <2>2 DEF Wider
<1> DEFINE T == {n \in 0..k : ~(roots \subseteq f[n])}
<1>2. T = {}
  <2>1. SUFFICES ASSUME T # {} PROVE FALSE
    OBVIOUS
  <2>2. PICK m \in T : \A j \in T : m <= j
    <3>1. T \in SUBSET Nat
      OBVIOUS
    <3> HIDE DEF T
    <3> QED BY <2>1, <3>1, LeastNat
  <2>3. m # 0
    BY DEF IsGrowth
  <2>4. m - 1 \in 0..k-1 /\ (m - 1) + 1 = m /\ ~(m <= m - 1)
    BY <2>3
  <2>5. roots \subseteq f[m - 1]
    BY <2>2, <2>4
  <2> QED
    BY <1>1, <2>4, <2>5
<1> QED
  BY <1>1, <1>2

\* Whatever contains the roots and what its own objects name contains all that is
\* marked.
LEMMA ClosureLeast ==
  ASSUME NEW names, NEW roots, IsFiniteSet(DOMAIN names),
         NEW X, roots \subseteq X, \A o \in X \cap DOMAIN names : names[o] \subseteq X
  PROVE  Closure(names, roots) \subseteq X
<1> DEFINE N == Cardinality(DOMAIN names)
<1>1. N \in Nat
  BY ClosureIs
<1>2. PICK f : IsGrowth(f, names, roots, N) /\ Closure(names, roots) = f[N]
  BY ClosureIs
<1> HIDE DEF N
<1> DEFINE T == {n \in 0..N : ~(f[n] \subseteq X)}
<1>3. T = {}
  <2>1. SUFFICES ASSUME T # {} PROVE FALSE
    OBVIOUS
  <2>2. PICK m \in T : \A j \in T : m <= j
    <3>1. T \in SUBSET Nat
      OBVIOUS
    <3> HIDE DEF T
    <3> QED BY <2>1, <3>1, LeastNat
  <2>3. m # 0
    BY <1>2 DEF IsGrowth
  <2>4. m \in 1..N /\ m - 1 \in 0..N /\ ~(m <= m - 1)
    BY <1>1, <2>3
  <2>5. f[m - 1] \subseteq X
    BY <2>2, <2>4
  <2>6. f[m] = Wider(names, f[m - 1])
    BY <1>2, <2>4 DEF IsGrowth
  <2> QED
    BY <2>5, <2>6 DEF Wider
<1> QED
  BY <1>1, <1>2, <1>3

\* What is marked contains the roots, and all that its own objects name.
LEMMA ClosureClosed ==
  ASSUME NEW names, NEW roots, IsFiniteSet(DOMAIN names)
  PROVE  /\ roots \subseteq Closure(names, roots)
         /\ \A o \in Closure(names, roots) \cap DOMAIN names : names[o] \subseteq Closure(names, roots)
<1> DEFINE D == DOMAIN names
           N == Cardinality(D)
<1>1. N \in Nat
  BY ClosureIs
<1>2. PICK f : IsGrowth(f, names, roots, N) /\ Closure(names, roots) = f[N]
  BY ClosureIs
<1>3. IsFiniteSet(D)
  OBVIOUS
<1>4. D = DOMAIN names
  OBVIOUS
<1>5. Cardinality(D) = N
  OBVIOUS
<1> HIDE DEF N, D
<1>6. roots \subseteq f[N]
  <2>1. N \in 0..N
    BY <1>1
  <2> QED
    BY <1>1, <1>2, <2>1, GrowthRises
<1>7. \A n \in 0..N-1 : f[n] \subseteq f[n + 1] /\ f[n + 1] = Wider(names, f[n])
  <2>1. \A n \in 0..N-1 : f[n] \subseteq f[n + 1]
    BY <1>1, <1>2, GrowthRises
  <2>2. \A n \in 0..N-1 : n + 1 \in 1..N /\ (n + 1) - 1 = n
    BY <1>1
  <2> QED
    BY <1>2, <2>1, <2>2 DEF IsGrowth
<1> DEFINE Closed(S) == \A o \in S \cap D : names[o] \subseteq S
\* A round that opens no new object is followed by rounds that add nothing.
<1>8. ASSUME NEW n \in 0..N-1, f[n + 1] \cap D = f[n] \cap D
      PROVE  Closed(f[N])
  <2>1. Closed(f[n + 1])
    BY <1>4, <1>7, <1>8 DEF Wider
  <2> DEFINE T == {j \in n+1..N : f[j] # f[n + 1]}
  <2>2. T = {}
    <3>1. SUFFICES ASSUME T # {} PROVE FALSE
      OBVIOUS
    <3>2. PICK m \in T : \A j \in T : m <= j
      <4>1. T \in SUBSET Nat
        BY <1>1
      <4> HIDE DEF T
      <4> QED BY <3>1, <4>1, LeastNat
    <3>3. m - 1 \in n+1..N /\ m - 1 \in 0..N-1 /\ (m - 1) + 1 = m /\ ~(m <= m - 1)
      BY <1>1
    <3>4. f[m - 1] = f[n + 1]
      BY <3>2, <3>3
    <3>5. f[m] = Wider(names, f[n + 1])
      BY <1>7, <3>3, <3>4
    <3> QED
      BY <1>4, <2>1, <3>5 DEF Wider
  <2>3. N \in n+1..N
    BY <1>1
  <2> QED
    BY <2>1, <2>2, <2>3
\* If every round opens a new one, there are more objects than objects.
<1>9. ASSUME N # 0, \A n \in 0..N-1 : f[n + 1] \cap D # f[n] \cap D
      PROVE  FALSE
  <2> DEFINE C(n) == Cardinality(f[n] \cap D)
  <2>1. \A n \in 0..N : IsFiniteSet(f[n] \cap D) /\ C(n) \in Nat /\ C(n) <= N
    BY <1>3, <1>5, FS_Subset, FS_CardinalityType
  <2>2. \A n \in 0..N-1 : C(n) < C(n + 1)
    <3>1. ASSUME NEW n \in 0..N-1
          PROVE  C(n) < C(n + 1)
      <4>1. f[n] \cap D \subseteq f[n + 1] \cap D /\ f[n] \cap D # f[n + 1] \cap D
        BY <1>7, <1>9
      <4>2. IsFiniteSet(f[n + 1] \cap D) /\ C(n) \in Nat /\ C(n + 1) \in Nat
        <5>1. n \in 0..N /\ n + 1 \in 0..N
          BY <1>1
        <5> HIDE DEF C
        <5> QED
          BY <2>1, <5>1
      <4> HIDE DEF D
      <4>3. C(n) <= C(n + 1) /\ C(n) # C(n + 1)
        BY <4>1, <4>2, FS_Subset
      <4> QED
        BY <4>2, <4>3
    <3> QED
      BY <3>1
  <2> HIDE DEF C
  <2>3. C(0) # 0
    <3>1. f[0] \cap D # {}
      <4>1. 0 \in 0..N-1 /\ 0 + 1 = 1
        BY <1>1, <1>9
      <4>2. f[1] \cap D # f[0] \cap D /\ f[1] = Wider(names, f[0])
        BY <1>7, <1>9, <4>1
      <4> QED
        BY <1>4, <4>2 DEF Wider
    <3>2. 0 \in 0..N
      BY <1>1
    <3> QED
      BY <2>1, <3>1, <3>2, FS_EmptySet DEF C
  <2> DEFINE T == {n \in 0..N : ~(n + 1 <= C(n))}
  <2>4. T = {}
    <3>1. SUFFICES ASSUME T # {} PROVE FALSE
      OBVIOUS
    <3>2. PICK m \in T : \A j \in T : m <= j
      <4>1. T \in SUBSET Nat
        BY <1>1
      <4> HIDE DEF T
      <4> QED BY <3>1, <4>1, LeastNat
    <3>3. m # 0
      <4>1. 0 \in 0..N /\ C(0) \in Nat
        <5>1. 0 \in 0..N
          BY <1>1
        <5> QED
          BY <2>1, <5>1
      <4>2. 0 + 1 <= C(0)
        BY <2>3, <4>1
      <4> QED
        BY <4>2
    <3>4. m - 1 \in 0..N-1 /\ m - 1 \in 0..N /\ (m - 1) + 1 = m /\ ~(m <= m - 1)
      BY <1>1, <3>3
    <3>5. m <= C(m - 1)
      BY <3>2, <3>4
    <3>6. C(m - 1) < C(m)
      BY <2>2, <3>4
    <3>7. C(m - 1) \in Nat /\ C(m) \in Nat
      BY <2>1, <3>4
    <3> QED
      BY <3>5, <3>6, <3>7
  <2>5. N \in 0..N
    BY <1>1
  <2>6. N + 1 <= C(N)
    BY <2>4, <2>5
  <2>7. C(N) \in Nat /\ C(N) <= N
    BY <2>1, <2>5
  <2> QED
    BY <1>1, <2>6, <2>7
<1>10. CASE N = 0
  <2>1. D = {}
    BY <1>3, <1>5, <1>10, FS_EmptySet
  <2> QED
    BY <1>2, <1>4, <1>6, <2>1
<1>11. CASE N # 0
  <2>1. Closed(f[N])
    BY <1>8, <1>9, <1>11
  <2> QED
    BY <1>2, <1>4, <1>6, <2>1
<1> QED
  BY <1>10, <1>11

----------------------------------------------------------------------------
(* The graph of the objects, with the snapshots as a parameter, so that a    *)
(* lemma speaks of the graph before and after a step.                        *)

NamesIn(sn, o, kinds) ==
  IF o \in Blobs THEN {}
  ELSE IF o \in Trees THEN Targets(o, kinds)
  ELSE {sn[o].tree} \cup ({sn[o].parent} \ {0})

Objects(n) == (1..n) \cup Trees \cup Blobs
Edges(sn, kinds, present) == [o \in present |-> NamesIn(sn, o, kinds)]

\* What materialize, log, diff or blame may open, starting from roots.
Needed(sn, n, roots) == Closure(Edges(sn, EntryKinds, Objects(n)), roots)

\* The graph is that of this state's snapshots.
LEMMA ReachIs ==
  /\ \A roots, kinds, present :
       Reach(roots, kinds, present) = Closure(Edges(snaps, kinds, present), roots)
  /\ LiveFetchable <=> Needed(snaps, nsnap, LiveRoots) \subseteq store
  /\ LiveFetchable' <=> Needed(snaps', nsnap', LiveRoots') \subseteq store'
  /\ LogFetchable <=> (spared => Needed(snaps, nsnap, LogRoots) \subseteq store)
  /\ LogFetchable' <=> (spared' => Needed(snaps', nsnap', LogRoots') \subseteq store')
BY DEF Reach, Names, NamesIn, Edges, LiveFetchable, LogFetchable, Fetchable, Needed, Objects

\* There are finitely many objects.
LEMMA ObjectsFinite ==
  ASSUME NEW n \in Nat
  PROVE  IsFiniteSet(Objects(n))
<1>1. IsFiniteSet(1..n)
  BY FS_Interval
<1>2. Objects(n) = (1..n) \cup (Trees \cup Blobs)
  BY DEF Objects
<1>3. IsFiniteSet(Trees \cup Blobs)
  BY TreesTyped
<1>4. IsFiniteSet((1..n) \cup (Trees \cup Blobs))
  BY <1>1, <1>3, FS_Union
<1> QED
  BY <1>2, <1>4

\* What is needed contains the roots and what its objects name,
LEMMA NeededClosed ==
  ASSUME NEW sn, NEW n \in Nat, NEW roots
  PROVE  /\ roots \subseteq Needed(sn, n, roots)
         /\ \A o \in Needed(sn, n, roots) \cap Objects(n) :
              NamesIn(sn, o, EntryKinds) \subseteq Needed(sn, n, roots)
<1> DEFINE E == Edges(sn, EntryKinds, Objects(n))
<1>1. DOMAIN E = Objects(n) /\ \A o \in Objects(n) : E[o] = NamesIn(sn, o, EntryKinds)
  BY DEF Edges
<1> HIDE DEF E
<1>2. /\ roots \subseteq Closure(E, roots)
      /\ \A o \in Closure(E, roots) \cap DOMAIN E : E[o] \subseteq Closure(E, roots)
  BY <1>1, ObjectsFinite, ClosureClosed
<1> QED
  BY <1>1, <1>2 DEF Needed, E

\* and is no more than that.
LEMMA NeededLeast ==
  ASSUME NEW sn, NEW n \in Nat, NEW roots, NEW X, roots \subseteq X,
         \A o \in X \cap Objects(n) : NamesIn(sn, o, EntryKinds) \subseteq X
  PROVE  Needed(sn, n, roots) \subseteq X
<1> DEFINE E == Edges(sn, EntryKinds, Objects(n))
<1>1. DOMAIN E = Objects(n) /\ \A o \in Objects(n) : E[o] = NamesIn(sn, o, EntryKinds)
  BY DEF Edges
<1> HIDE DEF E
<1>2. Closure(E, roots) \subseteq X
  BY <1>1, ObjectsFinite, ClosureLeast
<1> QED
  BY <1>2 DEF Needed, E

\* Fewer roots need less.
LEMMA NeededMonotone ==
  ASSUME NEW sn, NEW n \in Nat, NEW roots, NEW more, roots \subseteq more
  PROVE  Needed(sn, n, roots) \subseteq Needed(sn, n, more)
BY NeededClosed, NeededLeast

\* The objects of a tree contain it and what they name, and are trees and blobs.
LEMMA TreeClosed ==
  ASSUME NEW t \in Trees
  PROVE  /\ t \in TreeObjects(t)
         /\ TreeObjects(t) \subseteq Trees \cup Blobs
         /\ \A o \in TreeObjects(t) : \A sn : NamesIn(sn, o, EntryKinds) \subseteq TreeObjects(t)
<1> DEFINE E == Edges(snaps, EntryKinds, Trees)
<1>1. DOMAIN E = Trees /\ \A o \in Trees : E[o] = Targets(o, EntryKinds)
  BY TreesTyped DEF Edges, NamesIn
<1>2. TreeObjects(t) = Closure(E, {t})
  BY ReachIs DEF TreeObjects
<1>3. IsFiniteSet(Trees)
  BY TreesTyped, FS_Subset
<1> HIDE DEF E
<1>4. t \in Closure(E, {t}) /\ \A o \in Closure(E, {t}) \cap Trees : E[o] \subseteq Closure(E, {t})
  BY <1>1, <1>3, ClosureClosed
<1>5. Closure(E, {t}) \subseteq Trees \cup Blobs
  <2>1. \A o \in Trees : Targets(o, EntryKinds) \subseteq Trees \cup Blobs
    BY TreesTyped DEF Targets
  <2>2. \A o \in (Trees \cup Blobs) \cap DOMAIN E : E[o] \subseteq Trees \cup Blobs
    BY <1>1, <2>1
  <2>3. {t} \subseteq Trees \cup Blobs /\ IsFiniteSet(DOMAIN E)
    BY <1>1, <1>3
  <2> QED
    BY <2>2, <2>3, ClosureLeast
<1>6. ASSUME NEW o \in TreeObjects(t), NEW sn
      PROVE  NamesIn(sn, o, EntryKinds) \subseteq TreeObjects(t)
  BY <1>1, <1>2, <1>4, <1>5 DEF NamesIn
<1> QED
  BY <1>2, <1>4, <1>5, <1>6

\* and they are no more than that.
LEMMA TreeLeast ==
  ASSUME NEW t \in Trees, NEW X, t \in X,
         \A o \in X \cap Trees : Targets(o, EntryKinds) \subseteq X
  PROVE  TreeObjects(t) \subseteq X
<1> DEFINE E == Edges(snaps, EntryKinds, Trees)
<1>1. DOMAIN E = Trees /\ \A o \in Trees : E[o] = Targets(o, EntryKinds)
  BY TreesTyped DEF Edges, NamesIn
<1>2. TreeObjects(t) = Closure(E, {t})
  BY ReachIs DEF TreeObjects
<1>3. IsFiniteSet(Trees)
  BY TreesTyped, FS_Subset
<1> HIDE DEF E
<1> QED
  BY <1>1, <1>2, <1>3, ClosureLeast

----------------------------------------------------------------------------
(* A collection                                                             *)

\* Without symlinks the mark phase chases every entry of a tree.
LEMMA MarksFollowAll ==
  ASSUME NoSymlinks, NEW sn, NEW o \in Trees \cup Blobs \cup Nat
  PROVE  NamesIn(sn, o, EntryKinds \ {"Symlink"}) = NamesIn(sn, o, EntryKinds)
<1>1. \A t \in Trees : Targets(t, EntryKinds \ {"Symlink"}) = Targets(t, EntryKinds)
  BY DEF NoSymlinks, Targets
<1> QED
  BY <1>1 DEF NamesIn

\* The sweep keeps what the marked roots need, if it was there.
LEMMA SweepKeeps ==
  ASSUME NoSymlinks, nsnap \in Nat, store \subseteq Objects(nsnap),
         NEW roots, NEW more, roots \subseteq more, Needed(snaps, nsnap, roots) \subseteq store
  PROVE  Needed(snaps, nsnap, roots) \subseteq store \cap Marked(more)
<1> DEFINE F == Needed(snaps, nsnap, roots)
           E == Edges(snaps, EntryKinds \ {"Symlink"}, store)
           M == Closure(E, more)
<1>1. M = Marked(more)
  BY ReachIs DEF Marked
<1>2. DOMAIN E = store /\ \A o \in store : E[o] = NamesIn(snaps, o, EntryKinds \ {"Symlink"})
  BY DEF Edges
<1>3. IsFiniteSet(store)
  BY ObjectsFinite, FS_Subset
<1> HIDE DEF E
<1>4. more \subseteq M /\ \A o \in M \cap store : E[o] \subseteq M
  BY <1>2, <1>3, ClosureClosed
<1>5. roots \subseteq F /\ \A o \in F \cap Objects(nsnap) : NamesIn(snaps, o, EntryKinds) \subseteq F
  BY NeededClosed
<1> HIDE DEF F, M
<1>6. F \subseteq store
  BY DEF F
<1>7. \A o \in store : NamesIn(snaps, o, EntryKinds \ {"Symlink"}) = NamesIn(snaps, o, EntryKinds)
  BY MarksFollowAll DEF Objects
<1>8. \A o \in (F \cap M) \cap Objects(nsnap) : NamesIn(snaps, o, EntryKinds) \subseteq F \cap M
  BY <1>2, <1>4, <1>5, <1>6, <1>7
<1>9. roots \subseteq F \cap M
  BY <1>4, <1>5
<1>10. F \subseteq F \cap M
  BY <1>8, <1>9, NeededLeast DEF F
<1> QED
  BY <1>1, <1>6, <1>10 DEF F

----------------------------------------------------------------------------
(* A command that writes a snapshot                                         *)

\* There is a tree and a parent for each snapshot written, and nothing on disk but
\* what was written; the refs name snapshots that were.
GcTypes ==
  /\ nsnap \in Nat
  /\ snaps \in Seq([tree : Trees, parent : Nat]) /\ Len(snaps) = nsnap
  /\ store \subseteq Objects(nsnap)
  /\ LiveRoots \subseteq 1..nsnap

\* What a new snapshot needs is written, or is in the snapshot it is made from.
LEMMA WrittenIsAll ==
  ASSUME GcTypes, Needed(snaps, nsnap, LiveRoots) \subseteq store,
         NEW t \in Trees, NEW parent \in LiveRoots \cup {0}
  PROVE  /\ TreeObjects(t) \subseteq store \cup Written(t, parent)
         /\ Written(t, parent) \subseteq Trees \cup Blobs
<1>1. CASE Scans \/ parent = 0
  BY <1>1, TreeClosed DEF Written
<1>2. CASE ~(Scans \/ parent = 0)
  <2>1. parent \in LiveRoots /\ parent \in 1..nsnap
    BY <1>2 DEF GcTypes
  <2> DEFINE F == Needed(snaps, nsnap, LiveRoots)
             from == snaps[parent].tree
  <2>2. from \in Trees /\ parent \in Nat
    <3>1. snaps[parent] \in [tree : Trees, parent : Nat]
      BY <2>1, ElementOfSeq DEF GcTypes
    <3> QED
      BY <2>1, <3>1
  <2>3. LiveRoots \subseteq F /\ \A o \in F \cap Objects(nsnap) : NamesIn(snaps, o, EntryKinds) \subseteq F
    BY NeededClosed DEF GcTypes
  <2> HIDE DEF F
  <2>4. from \in F
    <3>1. parent \notin Blobs /\ parent \notin Trees
      BY <2>2, TreesTyped
    <3>2. from \in NamesIn(snaps, parent, EntryKinds)
      BY <3>1 DEF NamesIn
    <3>3. parent \in F \cap Objects(nsnap)
      BY <2>1, <2>3 DEF Objects
    <3> QED
      BY <2>3, <3>2, <3>3
  <2>5. \A o \in F \cap Trees : Targets(o, EntryKinds) \subseteq F
    BY <2>3, TreesTyped DEF NamesIn, Objects
  <2>6. TreeObjects(from) \subseteq F
    BY <2>2, <2>4, <2>5, TreeLeast
  <2>7. F \subseteq store
    BY DEF F
  <2>8. Written(t, parent) = (TreeObjects(t) \cap Trees) \cup (TreeObjects(t) \ TreeObjects(from))
    BY <1>2 DEF Written
  <2> QED
    BY <2>6, <2>7, <2>8, TreeClosed
<1> QED
  BY <1>1, <1>2

\* So whatever was complete is complete after it, and so are the refs.
LEMMA SnapshotComplete ==
  ASSUME GcTypes, Needed(snaps, nsnap, LiveRoots) \subseteq store,
         NEW t \in Trees, NEW parent \in LiveRoots \cup {0},
         nsnap' = nsnap + 1, snaps' = Append(snaps, [tree |-> t, parent |-> parent]),
         store' = store \cup Written(t, parent) \cup {nsnap'},
         NEW roots, Needed(snaps, nsnap, roots) \subseteq store
  PROVE  Needed(snaps', nsnap', roots \cup LiveRoots \cup {nsnap'}) \subseteq store'
<1> DEFINE n == nsnap
           F == Needed(snaps, n, roots)
           L == Needed(snaps, n, LiveRoots)
           TO == TreeObjects(t)
           X == F \cup L \cup TO \cup {n + 1}
           new == [tree |-> t, parent |-> parent]
<1>1. n \in Nat /\ n + 1 \in Nat /\ nsnap' = n + 1
  BY DEF GcTypes
<1>2. /\ roots \subseteq F /\ \A o \in F \cap Objects(n) : NamesIn(snaps, o, EntryKinds) \subseteq F
      /\ LiveRoots \subseteq L /\ \A o \in L \cap Objects(n) : NamesIn(snaps, o, EntryKinds) \subseteq L
  BY <1>1, NeededClosed
<1>3. t \in TO /\ TO \subseteq store' /\ \A o \in TO : NamesIn(snaps', o, EntryKinds) \subseteq TO
  BY TreeClosed, WrittenIsAll
<1>4. F \subseteq store /\ L \subseteq store /\ store \subseteq store' /\ n + 1 \in store'
  BY <1>1
<1>5. /\ snaps'[n + 1] = new /\ new.tree = t /\ new.parent = parent
      /\ \A i \in 1..n : snaps'[i] = snaps[i]
  <2>1. new.tree = t /\ new.parent = parent
    OBVIOUS
  <2>2. snaps' = Append(snaps, new)
    OBVIOUS
  <2>3. parent \in Nat
    BY DEF GcTypes
  <2>4. new \in [tree : Trees, parent : Nat]
    BY <2>3
  <2>5. snaps \in Seq([tree : Trees, parent : Nat]) /\ Len(snaps) = n
    BY DEF GcTypes
  <2> HIDE DEF new, n
  <2>6. /\ Append(snaps, new)[n + 1] = new
        /\ \A i \in 1..n : Append(snaps, new)[i] = snaps[i]
    BY <2>4, <2>5, AppendProperties
  <2> QED
    BY <2>1, <2>2, <2>6
<1> HIDE DEF new
<1>6. \A o \in Objects(n) : NamesIn(snaps', o, EntryKinds) = NamesIn(snaps, o, EntryKinds)
  BY <1>5 DEF NamesIn, Objects
<1>7. NamesIn(snaps', n + 1, EntryKinds) \subseteq {t} \cup LiveRoots
  <2>1. n + 1 \notin Blobs /\ n + 1 \notin Trees
    BY <1>1, TreesTyped
  <2>2. NamesIn(snaps', n + 1, EntryKinds) = {t} \cup ({parent} \ {0})
    BY <1>5, <2>1 DEF NamesIn
  <2> QED
    BY <2>2
<1>8. Objects(n + 1) = Objects(n) \cup {n + 1}
  BY <1>1 DEF Objects
<1> HIDE DEF n, F, L, TO
<1>9. \A o \in X \cap Objects(n + 1) : NamesIn(snaps', o, EntryKinds) \subseteq X
  BY <1>2, <1>3, <1>6, <1>7, <1>8
<1>10. roots \cup LiveRoots \cup {n + 1} \subseteq X
  BY <1>2
<1> HIDE DEF X
<1>11. Needed(snaps', n + 1, roots \cup LiveRoots \cup {n + 1}) \subseteq X
  BY <1>1, <1>9, <1>10, NeededLeast
<1> QED
  BY <1>1, <1>3, <1>4, <1>11 DEF X

----------------------------------------------------------------------------
(* What each command puts                                                   *)

USE RefsDisjoint, MarksAreNoRecords

\* A command that takes no snapshot puts records with snapshots that the refs hold,
PutsOld(w) ==
  \A c \in Changes \cap Listed(w) : w[c] \in ChangeVal /\ Held(w[c]) \subseteq LiveRoots

\* one that takes a snapshot puts one record, whose tip is the snapshot.
PutsNew(w) ==
  \E c \in Changes :
    /\ Changes \cap Listed(w) = {c}
    /\ w[c] \in ChangeVal /\ w[c].current = nsnap + 1
    /\ Held(w[c]) \subseteq LiveRoots \cup {nsnap + 1}

\* An undo puts what it captured and takes no snapshot.
Writes ==
  \E id \in Nat, type \in OpTypes, undone \in Nat \cup {None}, w \in Capture :
    /\ Commit(id, type, undone, w)
    /\ \/ type = "Undo" /\ w \in UndoWrites /\ nsnap' = nsnap
       \/ type # "Undo" /\ PutsNew(w) /\ nsnap' = nsnap + 1
       \/ type # "Undo" /\ PutsOld(w) /\ nsnap' = nsnap

\* A record is a record, and its snapshots are held.
LEMMA HeldIsLive ==
  ASSUME TypeOK, NEW c \in Changes, refs[c] # None
  PROVE  /\ refs[c] \in ChangeVal
         /\ refs[c].current \in LiveRoots /\ refs[c].history \subseteq LiveRoots
<1>1. refs[c] \in ChangeVal
  BY RefValues DEF RefNames
<1>2. Held(refs[c]) \subseteq LiveRoots
  BY DEF LiveRoots
<1> QED
  BY <1>1, <1>2 DEF Held

\* A capture of a change, alone or with a workspace, puts that change's record.
LEMMA PutsOne ==
  ASSUME NEW c \in Changes, NEW v \in ChangeVal, NEW w,
         \/ w = One(c, v)
         \/ \E r \in Workspaces : \E x : x # Same /\ w = Two(c, v, r, x)
  PROVE  Changes \cap Listed(w) = {c} /\ w[c] = v
<1>1. c \in RefNames /\ v # Same /\ Workspaces \subseteq RefNames /\ Changes \subseteq RefNames
  BY RecordIsThere DEF RefNames
<1>2. CASE w = One(c, v)
  BY <1>1, <1>2, OneIs
<1>3. ASSUME NEW r \in Workspaces, NEW x, x # Same, w = Two(c, v, r, x)
      PROVE  Changes \cap Listed(w) = {c} /\ w[c] = v
  <2>1. r \notin Changes
    BY DEF Workspaces
  <2>2. \A y \in RefNames : /\ w[y] = IF y = c THEN v ELSE IF y = r THEN x ELSE Same
                            /\ y \in Listed(w) <=> y = c \/ y = r
    BY <1>1, <1>3, TwoIs
  <2> QED
    BY <1>1, <2>1, <2>2
<1> QED
  BY <1>2, <1>3

\* Change::new of a snapshot, and Change::advance to one.
LEMMA PutsRecord ==
  ASSUME TypeOK
  PROVE  /\ \A s \in Nat, st \in Status :
              NewChange(s, st) \in ChangeVal /\ NewChange(s, st).current = s
                /\ Held(NewChange(s, st)) = {s}
         /\ \A c \in Changes : refs[c] # None =>
              LET v == Advance(refs[c], nsnap + 1) IN
              v \in ChangeVal /\ v.current = nsnap + 1 /\ Held(v) \subseteq LiveRoots \cup {nsnap + 1}
<1>1. \A s \in Nat, st \in Status :
        NewChange(s, st) \in ChangeVal /\ NewChange(s, st).current = s /\ Held(NewChange(s, st)) = {s}
  BY DEF NewChange, ChangeVal, Held
<1>2. ASSUME NEW c \in Changes, refs[c] # None
      PROVE  LET v == Advance(refs[c], nsnap + 1) IN
             v \in ChangeVal /\ v.current = nsnap + 1 /\ Held(v) \subseteq LiveRoots \cup {nsnap + 1}
  <2>1. refs[c] \in ChangeVal /\ refs[c].history \subseteq LiveRoots /\ nsnap + 1 \in Nat
    BY <1>2, HeldIsLive DEF TypeOK
  <2> QED
    BY <2>1 DEF Advance, ChangeVal, Held
<1> QED
  BY <1>1, <1>2

\* `tig snap`, `tig restore` and the watcher,
LEMMA SnapPuts ==
  ASSUME TypeOK, NEW p \in Clients, ctx[p] # None, NEW w \in SnapWrites(ctx[p])
  PROVE  PutsNew(w)
<1> DEFINE cur == CurrentChange(ctx[p])
           ws == ctx[p].ws
<1>1. cur \in {None} \cup Changes /\ ws \in RefNames /\ ws \in Workspaces /\ nsnap + 1 \in Nat
  BY ContextType DEF TypeOK
<1>2. CASE cur = None
  <2>1. PICK id \in Changes : w = Two(id, NewChange(nsnap + 1, Working), Main, id)
    BY <1>2 DEF SnapWrites
  <2> DEFINE v == NewChange(nsnap + 1, Working)
  <2>2. v \in ChangeVal /\ v.current = nsnap + 1 /\ Held(v) = {nsnap + 1}
    BY <1>1, PutsRecord, StatusesKnown
  <2>3. id # Same /\ Main \in Workspaces
    BY DEF Workspaces
  <2> HIDE DEF v
  <2>4. Changes \cap Listed(w) = {id} /\ w[id] = v
    BY <2>1, <2>2, <2>3, PutsOne DEF v
  <2> QED
    BY <2>2, <2>4 DEF PutsNew
<1>3. CASE cur # None
  <2> DEFINE v == Advance(refs[cur], nsnap + 1)
  <2>1. cur \in Changes /\ refs[cur] # None /\ w = Two(cur, v, ws, refs[ws])
    BY <1>1, <1>3 DEF SnapWrites
  <2>2. v \in ChangeVal /\ v.current = nsnap + 1 /\ Held(v) \subseteq LiveRoots \cup {nsnap + 1}
    BY <2>1, PutsRecord
  <2>3. refs[ws] # Same
    BY <1>1, NoneIsNoRef DEF TypeOK, RefStates
  <2> HIDE DEF v, cur, ws
  <2>4. Changes \cap Listed(w) = {cur} /\ w[cur] = v
    BY <1>1, <2>1, <2>2, <2>3, PutsOne
  <2> QED
    BY <2>1, <2>2, <2>4 DEF PutsNew
<1> QED
  BY <1>2, <1>3

\* and `tig seal` take a snapshot for the tip of the current change.
LEMMA SealPuts ==
  ASSUME TypeOK, NEW p \in Clients, ctx[p] # None, NEW w \in SealWrites(ctx[p])
  PROVE  PutsNew(w)
<1> DEFINE cur == CurrentChange(ctx[p])
           v == Advance(refs[cur], nsnap + 1)
<1>1. cur \in Changes /\ refs[cur] # None /\ w = One(cur, v)
  BY ContextType DEF SealWrites
<1>2. v \in ChangeVal /\ v.current = nsnap + 1 /\ Held(v) \subseteq LiveRoots \cup {nsnap + 1}
  BY <1>1, PutsRecord
<1> HIDE DEF v, cur
<1>3. Changes \cap Listed(w) = {cur} /\ w[cur] = v
  BY <1>1, <1>2, PutsOne
<1> QED
  BY <1>1, <1>2, <1>3 DEF PutsNew

\* `tig change new` and `tig draft` take one, empty, only where there is no change.
LEMMA ChangeNewPuts ==
  ASSUME TypeOK, NEW p \in Clients, ctx[p] # None, NEW w \in ChangeNewWrites(ctx[p])
  PROVE  IF CurrentChange(ctx[p]) = None THEN PutsNew(w) ELSE PutsOld(w)
<1> DEFINE cur == CurrentChange(ctx[p])
           ws == ctx[p].ws
<1>1. cur \in {None} \cup Changes /\ ws \in Workspaces
  BY ContextType
<1>2. cur # None => cur \in Changes /\ refs[cur] # None
  BY <1>1 DEF ChangeNewWrites
<1>3. PICK id \in Changes, st \in {Working, Draft} :
        w = Two(id, NewChange(StartSnap(cur), st), ws, id)
  BY DEF ChangeNewWrites
<1> DEFINE v == NewChange(StartSnap(cur), st)
<1>4. v \in ChangeVal /\ v.current = StartSnap(cur) /\ Held(v) = {StartSnap(cur)}
  BY <1>1, <1>2, StartSnapType, PutsRecord, StatusesKnown
<1>5. IF cur = None THEN StartSnap(cur) = nsnap + 1 ELSE StartSnap(cur) \in LiveRoots
  BY <1>2, HeldIsLive DEF StartSnap
<1>6. id # Same
  OBVIOUS
<1> HIDE DEF v, cur, ws
<1>7. Changes \cap Listed(w) = {id} /\ w[id] = v
  BY <1>1, <1>3, <1>4, <1>6, PutsOne DEF v
<1>8. cur = None => PutsNew(w)
  BY <1>4, <1>5, <1>7 DEF PutsNew
<1>9. cur # None => PutsOld(w)
  BY <1>4, <1>5, <1>7 DEF PutsOld
<1> QED
  BY <1>8, <1>9 DEF cur

\* The others take none.
LEMMA TransitionPuts ==
  ASSUME TypeOK, NEW w \in TransitionWrites
  PROVE  PutsOld(w)
<1>1. PICK id \in Changes, st \in Status : refs[id] # None /\ w = One(id, [refs[id] EXCEPT !.status = st])
  BY Z3 DEF TransitionWrites
<1> DEFINE v == [refs[id] EXCEPT !.status = st]
<1>2. refs[id] \in ChangeVal /\ refs[id].current \in LiveRoots /\ refs[id].history \subseteq LiveRoots
  BY <1>1, HeldIsLive
<1>3. v \in ChangeVal /\ v.current = refs[id].current /\ v.history = refs[id].history
  BY <1>2, ChangeHistory
<1> HIDE DEF v
<1>4. Changes \cap Listed(w) = {id} /\ w[id] = v
  BY <1>1, <1>3, PutsOne DEF v
<1> QED
  BY <1>2, <1>3, <1>4 DEF PutsOld, Held

\* `tig wt make` and `tig wt drop` put no record.
LEMMA WtPuts ==
  ASSUME TypeOK, NEW p \in Clients, ctx[p] # None,
         NEW w \in WtMakeWrites(ctx[p]) \cup WtDropWrites(ctx[p])
  PROVE  PutsOld(w)
<1>1. CurrentChange(ctx[p]) \in {None} \cup Changes
  BY ContextType
<1>2. \A v \in {None} \cup Changes : v # Same
  BY DEF RefNames, Workspaces
<1>3. PICK k \in Secondary : w = One(k, CurrentChange(ctx[p])) \/ w = One(k, None)
  BY DEF WtMakeWrites, WtDropWrites
<1>4. k \in RefNames /\ k \notin Changes /\ Changes \subseteq RefNames
  BY DEF RefNames, Workspaces
<1>5. \A y \in RefNames : y \in Listed(w) <=> y = k
  BY <1>1, <1>2, <1>3, <1>4, OneIs
<1> QED
  BY <1>4, <1>5 DEF PutsOld

\* A step on refs, log or snapshots is the commit of one command of these kinds.
LEMMA StepWrites ==
  ASSUME TypeInv, Next
  PROVE  Writes \/ UNCHANGED <<refs, log, nsnap>>
<1> USE DEF TypeInv
<1>1. ASSUME NEW p \in Clients, NEW w \in Workspaces, Discover(p, w)
      PROVE  UNCHANGED <<refs, log, nsnap>>
  BY <1>1 DEF Discover
<1>2. ASSUME NEW p \in Clients, Exit(p)
      PROVE  UNCHANGED <<refs, log, nsnap>>
  BY <1>2 DEF Exit
<1>3. ASSUME NEW p \in Procs, CliStep(p)
      PROVE  Writes
  <2>1. p \in Clients /\ NextId \in Nat /\ ctx[p] # None
    BY <1>3, NextIdNat
    DEF Clients, CliStep, Snap, Seal, ChangeNew, ChangeTransition, WtMake, WtDrop, Undo
  <2>2. CASE Snap(p)
    <3>1. PICK w \in SnapWrites(ctx[p]) : Commit(NextId, "Snap", None, w)
      BY <2>2 DEF Snap, CliCommit
    <3>2. w \in Capture /\ PutsNew(w) /\ nsnap' = nsnap + 1
      BY <2>1, <2>2, SnapWritesType, SnapPuts DEF Snap, NewSnap
    <3> QED
      BY <2>1, <3>1, <3>2 DEF Writes, OpTypes
  <2>3. CASE Seal(p)
    <3>1. PICK w \in SealWrites(ctx[p]) : Commit(NextId, "Snap", None, w)
      BY <2>3 DEF Seal, CliCommit
    <3>2. w \in Capture /\ PutsNew(w) /\ nsnap' = nsnap + 1
      BY <2>1, <2>3, SealWritesType, SealPuts DEF Seal, NewSnap
    <3> QED
      BY <2>1, <3>1, <3>2 DEF Writes, OpTypes
  <2>4. CASE ChangeNew(p)
    <3>1. PICK w \in ChangeNewWrites(ctx[p]) : Commit(NextId, "ChangeNew", None, w)
      BY <2>4 DEF ChangeNew, CliCommit
    <3>2. w \in Capture
      BY <2>1, ChangeNewWritesType
    <3>3. (PutsNew(w) /\ nsnap' = nsnap + 1) \/ (PutsOld(w) /\ nsnap' = nsnap)
      BY <2>1, <2>4, ChangeNewPuts DEF ChangeNew, NewSnap
    <3> QED
      BY <2>1, <3>1, <3>2, <3>3 DEF Writes, OpTypes
  <2>5. CASE ChangeTransition(p)
    <3>1. PICK w \in TransitionWrites : Commit(NextId, "ChangeTransition", None, w)
      BY <2>5 DEF ChangeTransition, CliCommit
    <3>2. w \in Capture /\ PutsOld(w) /\ nsnap' = nsnap
      BY <2>5, TransitionWritesType, TransitionPuts DEF ChangeTransition
    <3> QED
      BY <2>1, <3>1, <3>2 DEF Writes, OpTypes
  <2>6. CASE WtMake(p)
    <3>1. PICK w \in WtMakeWrites(ctx[p]) : Commit(NextId, "WtMake", None, w)
      BY <2>6 DEF WtMake, CliCommit
    <3>2. w \in Capture /\ PutsOld(w) /\ nsnap' = nsnap
      BY <2>1, <2>6, WtWritesType, WtPuts DEF WtMake
    <3> QED
      BY <2>1, <3>1, <3>2 DEF Writes, OpTypes
  <2>7. CASE WtDrop(p)
    <3>1. PICK w \in WtDropWrites(ctx[p]) : Commit(NextId, "WtDrop", None, w)
      BY <2>7 DEF WtDrop, CliCommit
    <3>2. w \in Capture /\ PutsOld(w) /\ nsnap' = nsnap
      BY <2>1, <2>7, WtWritesType, WtPuts DEF WtDrop
    <3> QED
      BY <2>1, <3>1, <3>2 DEF Writes, OpTypes
  <2>8. CASE Undo(p)
    <3>1. PICK w \in UndoWrites : Commit(NextId, "Undo", log[PickOpToUndo].id, w)
      BY <2>8 DEF Undo, CliCommit
    <3> QED
      BY <2>1, <2>8, <3>1, UndoKind DEF Undo, Writes, OpTypes
  <2> QED
    BY <1>3, <2>2, <2>3, <2>4, <2>5, <2>6, <2>7, <2>8 DEF CliStep
<1>4. ASSUME NEW p \in Watchers, WatchSnap(p)
      PROVE  Writes
  <2>1. p \in Clients /\ ctx[p] # None
    BY <1>4 DEF WatchSnap, Clients
  <2>2. next[p] \in Nat
    BY <2>1 DEF TypeOK, WatchersCount, Handles
  <2>3. PICK w \in SnapWrites(ctx[p]) : Commit(next[p], "Snap", None, w)
    BY <1>4 DEF WatchSnap, HandleCommit
  <2>4. w \in Capture /\ PutsNew(w) /\ nsnap' = nsnap + 1
    BY <1>4, <2>1, SnapWritesType, SnapPuts DEF WatchSnap, NewSnap
  <2> QED
    BY <2>2, <2>3, <2>4 DEF Writes, OpTypes
<1>5. ASSUME NEW d \in Daemons, TigdStep(d)
      PROVE  Writes \/ UNCHANGED <<refs, log, nsnap>>
  <2>1. next[d] # None => next[d] \in Nat
    BY DEF TypeOK, Handles
  <2>2. CASE TigdStart(d) \/ TigdStop(d)
    BY <2>2 DEF TigdStart, TigdStop
  <2>3. CASE TigdCreate(d)
    <3>1. PICK parent \in {None} \cup {x \in Changes : refs[x] # None},
               id \in {x \in Changes : FreshId(x)}, st \in Status :
                 /\ Commit(next[d], "ChangeNew", None, One(id, NewChange(StartSnap(parent), st)))
                 /\ IF parent = None THEN NewSnap ELSE UNCHANGED nsnap
      BY <2>3 DEF TigdCreate, HandleCommit
    <3> DEFINE v == NewChange(StartSnap(parent), st)
               w == One(id, v)
    <3>2. v \in ChangeVal /\ v.current = StartSnap(parent) /\ Held(v) = {StartSnap(parent)}
      BY StartSnapType, PutsRecord
    <3>3. IF parent = None THEN StartSnap(parent) = nsnap + 1 ELSE StartSnap(parent) \in LiveRoots
      BY HeldIsLive DEF StartSnap
    <3>4. w \in Capture
      BY TigdWritesType
    <3>5. next[d] \in Nat
      BY <2>1, <2>3 DEF TigdCreate
    <3>6. Commit(next[d], "ChangeNew", None, w)
      BY <3>1
    <3>7. Changes \cap Listed(w) = {id} /\ w[id] = v
      <4> HIDE DEF v
      <4> QED
        BY <3>2, PutsOne
    <3> HIDE DEF v, w
    <3>8. IF parent = None THEN PutsNew(w) /\ nsnap' = nsnap + 1 ELSE PutsOld(w) /\ nsnap' = nsnap
      BY <3>1, <3>2, <3>3, <3>7 DEF PutsNew, PutsOld, NewSnap
    <3> QED
      BY <3>4, <3>5, <3>6, <3>8 DEF Writes, OpTypes
  <2>4. CASE TigdSnap(d)
    <3>1. PICK c \in Changes :
            /\ refs[c] # None
            /\ Commit(next[d], "Snap", None, One(c, Advance(refs[c], nsnap + 1)))
      BY <2>4 DEF TigdSnap, HandleCommit
    <3> DEFINE v == Advance(refs[c], nsnap + 1)
               w == One(c, v)
    <3>2. v \in ChangeVal /\ v.current = nsnap + 1 /\ Held(v) \subseteq LiveRoots \cup {nsnap + 1}
      BY <3>1, PutsRecord
    <3>3. w \in Capture /\ Commit(next[d], "Snap", None, w)
      BY <3>1, TigdWritesType
    <3>4. next[d] \in Nat /\ nsnap' = nsnap + 1
      BY <2>1, <2>4 DEF TigdSnap, NewSnap
    <3>5. Changes \cap Listed(w) = {c} /\ w[c] = v
      <4> HIDE DEF v
      <4> QED
        BY <3>2, PutsOne
    <3> HIDE DEF v, w
    <3>6. PutsNew(w)
      BY <3>2, <3>5 DEF PutsNew
    <3> QED
      BY <3>3, <3>4, <3>6 DEF Writes, OpTypes
  <2>5. CASE TigdTransition(d)
    <3>1. PICK w \in TransitionWrites : Commit(next[d], "ChangeTransition", None, w)
      BY <2>5 DEF TigdTransition, HandleCommit
    <3>2. w \in Capture /\ PutsOld(w) /\ nsnap' = nsnap
      BY <2>5, TransitionWritesType, TransitionPuts DEF TigdTransition
    <3> QED
      BY <2>1, <2>5, <3>1, <3>2 DEF TigdTransition, Writes, OpTypes
  <2>6. CASE TigdUndo(d)
    <3>1. PICK w \in UndoWrites : Commit(next[d], "Undo", log[PickOpToUndo].id, w)
      BY <2>6 DEF TigdUndo, HandleCommit
    <3> QED
      BY <2>1, <2>6, <3>1, UndoKind DEF TigdUndo, Writes, OpTypes
  <2> QED
    BY <1>5, <2>2, <2>3, <2>4, <2>5, <2>6 DEF TigdStep
<1> QED
  BY <1>1, <1>2, <1>3, <1>4, <1>5 DEF Next

----------------------------------------------------------------------------
(* Roots                                                                    *)

\* The refs hold nothing new but the new snapshot, and an undo brings back only
\* what they hold already.
LEMMA LiveRootsStep ==
  ASSUME IInv, RisesInv(log), Writes
  PROVE  /\ nsnap' = nsnap + 1 \/ nsnap' = nsnap
         /\ nsnap' # nsnap => \E c \in Changes : refs'[c] # None /\ refs'[c].current = nsnap'
         /\ LiveRoots' \subseteq LiveRoots \cup (IF nsnap' = nsnap THEN {} ELSE {nsnap'})
<1> DEFINE n == Len(log)
<1>1. PICK id \in Nat, type \in OpTypes, undone \in Nat \cup {None}, w \in Capture :
        /\ Commit(id, type, undone, w)
        /\ \/ type = "Undo" /\ w \in UndoWrites /\ nsnap' = nsnap
           \/ type # "Undo" /\ PutsNew(w) /\ nsnap' = nsnap + 1
           \/ type # "Undo" /\ PutsOld(w) /\ nsnap' = nsnap
  BY DEF Writes
<1>2. TypeOK /\ TypeInv /\ LogExplainsRefs /\ StackInv(log) /\ nsnap \in Nat
  BY DEF IInv, TypeInv, TypeOK
<1>3. Step(id, type, w)
  BY <1>1, <1>2, CommitEffect DEF Step, Grows, TypeOK
<1>4. \A c \in Changes : refs'[c] = IF c \in Listed(w) THEN w[c] ELSE refs[c]
  BY <1>3 DEF Step, Overwrite, RefNames
<1>5. LiveRoots' = UNION {Held(refs'[c]) : c \in {x \in Changes : refs'[x] # None}}
  BY DEF LiveRoots, Held
<1>6. \A c \in Changes : refs[c] # None => Held(refs[c]) \subseteq LiveRoots
  BY DEF LiveRoots
<1>7. CASE type # "Undo" /\ PutsNew(w) /\ nsnap' = nsnap + 1
  <2>1. PICK c \in Changes : /\ Changes \cap Listed(w) = {c}
                             /\ w[c] \in ChangeVal /\ w[c].current = nsnap + 1
                             /\ Held(w[c]) \subseteq LiveRoots \cup {nsnap + 1}
    BY <1>7 DEF PutsNew
  <2>2. refs'[c] = w[c] /\ refs'[c] # None
    BY <1>4, <2>1, RecordIsThere
  <2>3. \A x \in Changes : refs'[x] # None => Held(refs'[x]) \subseteq LiveRoots \cup {nsnap'}
    BY <1>4, <1>6, <1>7, <2>1
  <2> QED
    BY <1>2, <1>5, <1>7, <2>1, <2>2, <2>3
<1>8. CASE type # "Undo" /\ PutsOld(w) /\ nsnap' = nsnap
  <2>1. \A x \in Changes : refs'[x] # None => Held(refs'[x]) \subseteq LiveRoots
    BY <1>4, <1>6, <1>8 DEF PutsOld
  <2> QED
    BY <1>5, <1>8, <2>1
<1>9. CASE type = "Undo" /\ w \in UndoWrites /\ nsnap' = nsnap
  <2> DEFINE m == PickOpToUndo
  <2>1. m \in Live(log) /\ refs' = At(log, m - 1)
    BY <1>2, <1>3, <1>9, StackPop
  <2> HIDE DEF m
  <2>2. refs = At(log, n) /\ n \in Nat
    BY <1>2, ExplainsIsAt, LenType
  <2>3. m \in 1..n /\ m <= n + 1 /\ (n + 1) - 1 = n
    BY <2>1, <2>2 DEF Live
  <2>4. TipsIn(refs') /\ Above(refs', refs)
    BY <2>1, <2>2, <2>3 DEF RisesInv
  <2>5. \A x \in Changes : refs'[x] # None => refs[x] # None /\ Held(refs'[x]) \subseteq Held(refs[x])
    BY <2>4 DEF TipsIn, Above, Held
  <2> QED
    BY <1>5, <1>6, <1>9, <2>5
<1> QED
  BY <1>1, <1>7, <1>8, <1>9

\* A snapshot that the log mentions is in a capture of one of its records.
LEMMA LogRootsAre ==
  /\ \A x : x \in LogRoots <=>
       \E i \in 1..Len(log), c \in Changes : \E w \in {log[i].before, log[i].after} :
         w[c] \notin {None, Same} /\ x \in Held(w[c])
  /\ \A x : x \in LogRoots' <=>
       \E i \in 1..Len(log'), c \in Changes : \E w \in {log'[i].before, log'[i].after} :
         w[c] \notin {None, Same} /\ x \in Held(w[c])
BY DEF LogRoots, Held

\* A record captures what refs held before and what they hold after.
LEMMA LogRootsStep ==
  ASSUME TypeOK, Writes
  PROVE  LogRoots' \subseteq LogRoots \cup LiveRoots \cup LiveRoots'
<1> DEFINE n == Len(log)
<1>1. PICK id \in Nat, type \in OpTypes, undone \in Nat \cup {None}, w \in Capture :
        Commit(id, type, undone, w)
  BY DEF Writes
<1>2. /\ refs' = Overwrite(refs, w)
      /\ Len(log') = n + 1 /\ n \in Nat
      /\ \A i \in 1..n : log'[i] = log[i]
      /\ log'[n + 1].before = ReadCurrent(w) /\ log'[n + 1].after = w
  BY <1>1, CommitEffect, LenType
<1>3. ASSUME NEW x \in LogRoots'
      PROVE  x \in LogRoots \cup LiveRoots \cup LiveRoots'
  <2> PICK i \in 1..Len(log'), c \in Changes : \E v \in {log'[i].before, log'[i].after} :
          v[c] \notin {None, Same} /\ x \in Held(v[c])
    BY <1>3, LogRootsAre
  <2>1. PICK v \in {log'[i].before, log'[i].after} : v[c] \notin {None, Same} /\ x \in Held(v[c])
    OBVIOUS
  <2>2. CASE i \in 1..n
    <3>1. log'[i] = log[i]
      BY <1>2, <2>2
    <3> QED
      BY <2>1, <2>2, <3>1, LogRootsAre
  <2>3. CASE i = n + 1
    <3>1. c \in RefNames
      BY DEF RefNames
    <3>2. v = ReadCurrent(w) \/ v = w
      BY <1>2, <2>1, <2>3
    <3>3. CASE v = ReadCurrent(w)
      <4>1. v[c] = refs[c]
        BY <2>1, <3>1, <3>3 DEF ReadCurrent
      <4> QED
        BY <2>1, <4>1 DEF LiveRoots
    <3>4. CASE v = w
      <4>1. refs'[c] = v[c]
        BY <1>2, <2>1, <3>1, <3>4 DEF Overwrite, Listed
      <4>2. LiveRoots' = UNION {Held(refs'[y]) : y \in {z \in Changes : refs'[z] # None}}
        BY DEF LiveRoots, Held
      <4> QED
        BY <2>1, <4>1, <4>2
    <3> QED
      BY <3>2, <3>3, <3>4
  <2>4. i \in 1..n \/ i = n + 1
    BY <1>2
  <2> QED
    BY <2>2, <2>3, <2>4
<1> QED
  BY <1>3

----------------------------------------------------------------------------
(* What is promised stays on disk                                           *)

GcInv == GcTypes /\ LiveFetchable /\ LogFetchable

\* What two sets of roots need is what each needs.
LEMMA NeededUnion ==
  ASSUME NEW sn, NEW n \in Nat, NEW roots, NEW more
  PROVE  Needed(sn, n, roots \cup more) \subseteq Needed(sn, n, roots) \cup Needed(sn, n, more)
<1> DEFINE X == Needed(sn, n, roots) \cup Needed(sn, n, more)
<1>1. roots \cup more \subseteq X /\ \A o \in X \cap Objects(n) : NamesIn(sn, o, EntryKinds) \subseteq X
  BY NeededClosed
<1> HIDE DEF X
<1>2. Needed(sn, n, roots \cup more) \subseteq X
  BY <1>1, NeededLeast
<1> QED
  BY <1>2 DEF X

\* A command that writes no snapshot needs nothing new.
LEMMA QuietKeeps ==
  ASSUME IInv, RisesInv(log), GcInv, Writes, nsnap' = nsnap, UNCHANGED <<snaps, store, spared>>
  PROVE  GcInv'
<1> DEFINE n == nsnap
<1>1. n \in Nat /\ TypeOK
  BY DEF GcInv, GcTypes, IInv, TypeInv
<1>2. LiveRoots' \subseteq LiveRoots /\ LogRoots' \subseteq LogRoots \cup LiveRoots
  BY <1>1, LiveRootsStep, LogRootsStep
<1>3. /\ Needed(snaps, n, LiveRoots) \subseteq store
      /\ spared => Needed(snaps, n, LogRoots) \subseteq store
  BY ReachIs DEF GcInv
<1>4. Needed(snaps, n, LiveRoots') \subseteq store
  BY <1>1, <1>2, <1>3, NeededMonotone
<1>5. spared => Needed(snaps, n, LogRoots') \subseteq store
  <2>1. Needed(snaps, n, LogRoots') \subseteq Needed(snaps, n, LogRoots \cup LiveRoots)
    BY <1>1, <1>2, NeededMonotone
  <2>2. Needed(snaps, n, LogRoots \cup LiveRoots)
          \subseteq Needed(snaps, n, LogRoots) \cup Needed(snaps, n, LiveRoots)
    BY <1>1, NeededUnion
  <2> QED
    BY <1>3, <2>1, <2>2
<1>6. LiveFetchable' /\ LogFetchable'
  BY <1>4, <1>5, ReachIs
<1>7. GcTypes'
  <2>1. LiveRoots' \subseteq 1..nsnap'
    BY <1>2 DEF GcInv, GcTypes
  <2>2. Objects(nsnap)' = Objects(nsnap)
    BY DEF Objects
  <2> QED
    BY <2>1, <2>2 DEF GcInv, GcTypes
<1> QED
  BY <1>6, <1>7 DEF GcInv

\* A command that writes one writes all that it needs.
LEMMA SnapshotKeeps ==
  ASSUME IInv, RisesInv(log), GcInv, Writes, nsnap' # nsnap, WriteSnapshot, UNCHANGED spared
  PROVE  GcInv'
<1>1. nsnap \in Nat /\ TypeOK /\ nsnap' = nsnap + 1
  BY LiveRootsStep DEF GcInv, GcTypes, IInv, TypeInv
<1>2. /\ \E c \in Changes : refs'[c] # None /\ refs'[c].current = nsnap'
      /\ LiveRoots' \subseteq LiveRoots \cup {nsnap'}
      /\ LogRoots' \subseteq LogRoots \cup LiveRoots \cup {nsnap'}
  BY <1>1, LiveRootsStep, LogRootsStep
<1> DEFINE c == CHOOSE x \in Changes : refs'[x] # None /\ refs'[x].current = nsnap'
           parent == IF refs[c] = None THEN 0 ELSE refs[c].current
<1>3. c \in Changes
  BY <1>2
<1>4. parent \in LiveRoots \cup {0}
  <2> HIDE DEF c
  <2> QED
    BY <1>1, <1>3, HeldIsLive
<1>5. PICK t \in Trees :
        /\ snaps' = Append(snaps, [tree |-> t, parent |-> parent])
        /\ store' = store \cup Written(t, parent) \cup {nsnap'}
  BY DEF WriteSnapshot
<1> HIDE DEF c, parent
<1>6. GcTypes
  BY DEF GcInv
<1>7. /\ Needed(snaps, nsnap, LiveRoots) \subseteq store
      /\ spared => Needed(snaps, nsnap, LogRoots) \subseteq store
  BY ReachIs DEF GcInv
<1>8. \A roots : Needed(snaps, nsnap, roots) \subseteq store =>
        Needed(snaps', nsnap', roots \cup LiveRoots \cup {nsnap'}) \subseteq store'
  BY <1>1, <1>4, <1>5, <1>6, <1>7, SnapshotComplete
<1>9. nsnap' \in Nat
  BY <1>1
<1>10. Needed(snaps', nsnap', LiveRoots') \subseteq store'
  <2>1. Needed(snaps', nsnap', LiveRoots \cup LiveRoots \cup {nsnap'}) \subseteq store'
    BY <1>7, <1>8
  <2>2. LiveRoots' \subseteq LiveRoots \cup LiveRoots \cup {nsnap'}
    BY <1>2
  <2> QED
    BY <1>9, <2>1, <2>2, NeededMonotone
<1>11. spared' => Needed(snaps', nsnap', LogRoots') \subseteq store'
  <2> SUFFICES ASSUME spared' PROVE Needed(snaps', nsnap', LogRoots') \subseteq store'
    OBVIOUS
  <2>1. Needed(snaps', nsnap', LogRoots \cup LiveRoots \cup {nsnap'}) \subseteq store'
    BY <1>7, <1>8
  <2> QED
    BY <1>2, <1>9, <2>1, NeededMonotone
<1>12. LiveFetchable' /\ LogFetchable'
  BY <1>10, <1>11, ReachIs
<1>13. GcTypes'
  <2>1. parent \in Nat
    BY <1>4, <1>6 DEF GcTypes
  <2>2. snaps' \in Seq([tree : Trees, parent : Nat]) /\ Len(snaps') = nsnap'
    <3> DEFINE new == [tree |-> t, parent |-> parent]
    <3>1. new \in [tree : Trees, parent : Nat]
      BY <2>1
    <3>2. snaps' = Append(snaps, new)
      BY <1>5
    <3> HIDE DEF new
    <3> QED
      BY <1>1, <1>6, <3>1, <3>2, AppendProperties DEF GcTypes
  <2>3. store' \subseteq Objects(nsnap')
    <3>1. Objects(nsnap') = Objects(nsnap) \cup {nsnap'}
      BY <1>1 DEF Objects
    <3>2. Written(t, parent) \subseteq Trees \cup Blobs
      BY <1>4, <1>6, <1>7, WrittenIsAll
    <3> QED
      BY <1>5, <1>6, <3>1, <3>2 DEF GcTypes, Objects
  <2>4. LiveRoots' \subseteq 1..nsnap'
    BY <1>1, <1>2, <1>6 DEF GcTypes
  <2> QED
    BY <1>9, <2>2, <2>3, <2>4 DEF GcTypes, Objects
<1> QED
  BY <1>12, <1>13 DEF GcInv

\* A collection marks from the refs and, unless told otherwise, from the log; its
\* sweep may die on the way.
LEMMA SweepStep ==
  ASSUME NoSymlinks, GcInv, NEW ignoreOplog \in BOOLEAN, Sweep(ignoreOplog)
  PROVE  GcInv'
<1>1. GcTypes /\ nsnap \in Nat /\ store \subseteq Objects(nsnap)
  BY DEF GcInv, GcTypes
<1>2. UNCHANGED <<refs, log, nsnap, snaps>>
  BY DEF Sweep
<1>3. LiveRoots' = LiveRoots /\ LogRoots' = LogRoots
  BY <1>2 DEF LiveRoots, LogRoots, Held
<1>4. /\ store \cap Marked(Roots(ignoreOplog)) \subseteq store' /\ store' \subseteq store
      /\ spared' = (spared /\ ~ignoreOplog)
  BY DEF Sweep
<1>5. LiveRoots \subseteq Roots(ignoreOplog) /\ (~ignoreOplog => LogRoots \subseteq Roots(ignoreOplog))
  BY DEF Roots
<1>6. /\ Needed(snaps, nsnap, LiveRoots) \subseteq store
      /\ spared => Needed(snaps, nsnap, LogRoots) \subseteq store
  BY ReachIs DEF GcInv
<1>7. Needed(snaps, nsnap, LiveRoots) \subseteq store'
  BY <1>1, <1>4, <1>5, <1>6, SweepKeeps
<1>8. spared' => Needed(snaps, nsnap, LogRoots) \subseteq store'
  BY <1>1, <1>4, <1>5, <1>6, SweepKeeps
<1>9. LiveFetchable' /\ LogFetchable'
  BY <1>2, <1>3, <1>7, <1>8, ReachIs
<1>10. GcTypes'
  BY <1>1, <1>2, <1>3, <1>4 DEF GcTypes, Objects
<1> QED
  BY <1>9, <1>10 DEF GcInv

\* A command.
LEMMA CommandStep ==
  ASSUME IInv, RisesInv(log), GcInv, Command
  PROVE  GcInv'
<1>1. Next /\ UNCHANGED spared /\ TypeInv
  BY DEF Command, IInv
<1>2. CASE UNCHANGED <<refs, log, nsnap>>
  <2>1. UNCHANGED <<snaps, store>>
    BY <1>2 DEF Command
  <2>2. LiveRoots' = LiveRoots /\ LogRoots' = LogRoots
    BY <1>2 DEF LiveRoots, LogRoots, Held
  <2>3. LiveFetchable' /\ LogFetchable'
    BY <1>1, <1>2, <2>1, <2>2, ReachIs DEF GcInv
  <2>4. GcTypes'
    BY <1>2, <2>1, <2>2 DEF GcInv, GcTypes, Objects
  <2> QED
    BY <2>3, <2>4 DEF GcInv
<1>3. CASE Writes
  <2>1. CASE nsnap' = nsnap
    <3>1. UNCHANGED <<snaps, store, spared>>
      BY <2>1 DEF Command
    <3> QED
      BY <1>3, <2>1, <3>1, QuietKeeps
  <2>2. CASE nsnap' # nsnap
    <3>1. WriteSnapshot
      BY <2>2 DEF Command
    <3> QED
      BY <1>1, <1>3, <2>2, <3>1, SnapshotKeeps
  <2> QED
    BY <2>1, <2>2
<1> QED
  BY <1>1, <1>2, <1>3, StepWrites

\* To the refs and the log, a collection is a process that ends, or nothing at all.
LEMMA GcNextIsNext ==
  ASSUME [GcNext]_gcvars
  PROVE  [Next]_vars
<1>1. CASE Command
  BY <1>1 DEF Command
<1>2. ASSUME NEW p \in Procs, CliGc(p)
      PROVE  Next
  <2>1. p \in Clients /\ p \notin Watchers
    BY ProcessesDisjoint DEF Clients
  <2>2. Exit(p)
    BY <1>2, <2>1 DEF CliGc, Sweep, Exit
  <2> QED
    BY <2>1, <2>2 DEF Next
<1>3. ASSUME NEW d \in Daemons, TigdGc(d)
      PROVE  UNCHANGED vars
  BY <1>3 DEF TigdGc, Sweep, vars
<1>4. CASE UNCHANGED gcvars
  BY <1>4 DEF gcvars
<1> QED
  BY <1>1, <1>2, <1>3, <1>4 DEF GcNext

\* The log and the refs are under gc what they are without it.
LEMMA GcRefines == GcSpec => Spec
<1>1. GcInit => Init
  BY DEF GcInit
<1>2. [GcNext]_gcvars => [Next]_vars
  BY GcNextIsNext
<1> QED
  BY <1>1, <1>2, PTL DEF GcSpec, Spec

\* An empty repository promises nothing.
LEMMA GcInitInv ==
  ASSUME GcInit
  PROVE  GcInv
<1>1. refs = [r \in RefNames |-> None] /\ log = << >> /\ nsnap = 0 /\ snaps = << >> /\ store = {}
  BY DEF GcInit, Init
<1>2. LiveRoots = {}
  BY <1>1 DEF LiveRoots, RefNames
<1>3. LogRoots = {}
  <2>1. \A i \in 1..Len(log) : FALSE
    BY <1>1
  <2> QED
    BY <2>1, LogRootsAre
<1>4. Needed(snaps, nsnap, {}) \subseteq {}
  BY <1>1, NeededLeast
<1>5. LiveFetchable /\ LogFetchable
  BY <1>1, <1>2, <1>3, <1>4, ReachIs
<1>6. GcTypes
  BY <1>1, <1>2 DEF GcTypes
<1> QED
  BY <1>5, <1>6 DEF GcInv

\* What an undo would bring back is held by the refs of today, so it is kept with them.
LEMMA UndoFromRefs ==
  ASSUME IInv, RisesInv(log), GcInv
  PROVE  UndoFetchable
<1>1. LiveOps = Live(log) /\ LogExplainsRefs /\ log \in Seq(Op) /\ nsnap \in Nat
  BY HeightIsH DEF IInv, TypeInv, TypeOK
<1>2. refs = At(log, Len(log)) /\ Len(log) \in Nat
  BY <1>1, ExplainsIsAt, LenType
<1> DEFINE HeldIn(s) == UNION {Held(s[c]) : c \in {x \in Changes : s[x] # None}}
<1>3. ASSUME NEW i \in LiveOps
      PROVE  Fetchable(HeldIn(RefsAt(i - 1)))
  <2> DEFINE old == At(log, i - 1)
  <2>1. RefsAt(i - 1) = old
    BY AtIsRefsAt
  <2>2. i \in Live(log) /\ i <= Len(log) + 1 /\ (Len(log) + 1) - 1 = Len(log)
    BY <1>1, <1>2 DEF Live
  <2>3. TipsIn(old) /\ Above(old, refs)
    BY <1>2, <2>2 DEF RisesInv
  <2> HIDE DEF old
  <2>4. \A c \in Changes : old[c] # None => refs[c] # None /\ Held(old[c]) \subseteq Held(refs[c])
    BY <2>3 DEF TipsIn, Above, Held
  <2>5. HeldIn(old) \subseteq LiveRoots
    BY <2>4 DEF LiveRoots
  <2> HIDE DEF HeldIn
  <2>6. Needed(snaps, nsnap, HeldIn(old)) \subseteq store
    BY <1>1, <2>5, NeededMonotone, ReachIs DEF GcInv
  <2>7. Fetchable(HeldIn(old))
    BY <2>6, ReachIs DEF Fetchable, Needed, Objects
  <2> QED
    BY <2>1, <2>7
<1> QED
  BY <1>3 DEF UndoFetchable

\* In a repository without symlinks, every snapshot that a ref, the log or an undo
\* leads to is on disk with its whole tree, whatever was collected and when.
THEOREM GcInvariant ==
  ASSUME NoSymlinks
  PROVE  GcSpec => [](IInv /\ RisesInv(log) /\ GcInv)
<1>1. GcInit => GcInv
  BY GcInitInv
<1>2. IInv /\ RisesInv(log) /\ GcInv /\ [GcNext]_gcvars => GcInv'
  <2> SUFFICES ASSUME IInv, RisesInv(log), GcInv, [GcNext]_gcvars
               PROVE  GcInv'
    OBVIOUS
  <2>1. CASE Command
    BY <2>1, CommandStep
  <2>2. ASSUME NEW p \in Procs, CliGc(p)
        PROVE  GcInv'
    BY <2>2, SweepStep, IgnoreIsFlag DEF CliGc
  <2>3. ASSUME NEW d \in Daemons, TigdGc(d)
        PROVE  GcInv'
    BY <2>3, SweepStep, IgnoreIsFlag DEF TigdGc
  <2>4. CASE UNCHANGED gcvars
    <3>1. UNCHANGED <<refs, log, nsnap, snaps, store, spared>>
      BY <2>4 DEF gcvars, vars
    <3>2. LiveRoots' = LiveRoots /\ LogRoots' = LogRoots
      BY <3>1 DEF LiveRoots, LogRoots, Held
    <3>3. LiveFetchable' /\ LogFetchable'
      BY <3>1, <3>2, ReachIs DEF GcInv
    <3>4. GcTypes'
      BY <3>1, <3>2 DEF GcInv, GcTypes, Objects
    <3> QED
      BY <3>3, <3>4 DEF GcInv
  <2> QED
    BY <2>1, <2>2, <2>3, <2>4 DEF GcNext
<1> QED
  BY <1>1, <1>2, GcRefines, RefsRise, PTL DEF GcSpec

\* A hash got from a live change stays fetchable, after any gc, also with
\* --ignore-oplog (gc::sweep marks from every change's tip and history).
THEOREM LiveKept ==
  ASSUME NoSymlinks
  PROVE  GcSpec => []LiveFetchable
<1>1. GcInv => LiveFetchable
  BY DEF GcInv
<1> QED
  BY <1>1, GcInvariant, PTL

\* A hash got from the log stays fetchable, unless gc was told to ignore the log.
THEOREM LogKept ==
  ASSUME NoSymlinks
  PROVE  GcSpec => []LogFetchable
<1>1. GcInv => LogFetchable
  BY DEF GcInv
<1> QED
  BY <1>1, GcInvariant, PTL

\* Whatever a run of undos brings back is still on disk, even after
\* gc --ignore-oplog.
THEOREM UndoKept ==
  ASSUME NoSymlinks
  PROVE  GcSpec => []UndoFetchable
<1>1. IInv /\ RisesInv(log) /\ GcInv => UndoFetchable
  BY UndoFromRefs
<1> QED
  BY <1>1, GcInvariant, PTL

=============================================================================
