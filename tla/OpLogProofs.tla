---------------------------- MODULE OpLogProofs ----------------------------
(***************************************************************************)
(* Proofs about OpLog, for any number of changes, workspaces, processes,   *)
(* watchers and daemons, and a log of any length: types, the log explains  *)
(* the refs, op ids; `tig undo` implements the stack of UndoStack; and no  *)
(* snapshot is lost, HEAD names a change that is there, and `tig undo`     *)
(* finds the last op not undone, even where commands die between writes.   *)
(***************************************************************************)
EXTENDS OpLog, Integers, FiniteSetTheorems, SequenceTheorems, WellFoundedInduction, TLAPS

USE RefsDisjoint, MarksAreNoRecords

----------------------------------------------------------------------------
(* The least-number principle, from the library's well-foundedness of <.   *)

\* A nonempty set of naturals has a least element.
LEMMA LeastNat ==
  ASSUME NEW T \in SUBSET Nat, T # {}
  PROVE  \E x \in T : \A y \in T : x <= y
<1> DEFINE R == {ss \in Nat \X Nat : ss[1] < ss[2]}
<1>1. IsWellFoundedOn(R, Nat)
  BY NatLessThanWellFounded DEF OpToRel
<1>2. PICK x \in T : \A y \in T : <<y, x>> \notin R
  <2> HIDE DEF R
  <2> QED BY <1>1, WFMin
<1>3. \A y \in T : <<y, x>> \notin R => x <= y
  BY SMT
<1> QED
  BY <1>2, <1>3

\* A nonempty set of indices of a log has a last one.
LEMMA LastIndex ==
  ASSUME NEW n \in Nat, NEW S \in SUBSET (1..n), S # {}
  PROVE  \E i \in S : \A j \in S : j <= i
<1> DEFINE T == {n - i : i \in S}
<1>1. \A i \in S : i \in Int /\ i <= n
  OBVIOUS
<1>2. T \in SUBSET Nat
  BY <1>1
<1>3. T # {}
  OBVIOUS
<1>4. PICK x \in T : \A y \in T : x <= y
  <2> HIDE DEF T
  <2> QED BY <1>2, <1>3, LeastNat
<1>5. PICK i \in S : x = n - i
  OBVIOUS
<1>6. \A j \in S : n - i <= n - j
  BY <1>4, <1>5
<1> QED
  BY <1>1, <1>6

----------------------------------------------------------------------------
(* Typing *)

\* A watcher that is running has a counter, and the greatest id in the log is
\* the id of some record.
WatchersCount == \A p \in Watchers : ctx[p] # None => next[p] # None
MaxIdExists ==
  log # << >> => \E i \in 1..Len(log) : \A j \in 1..Len(log) : log[j].id <= log[i].id

TypeInv == TypeOK /\ WatchersCount /\ MaxIdExists

\* Same is no ref's value, and any ref may be absent.
LEMMA NoneIsNoRef ==
  /\ Same \notin Values
  /\ \A r \in RefNames : RefOK(r, None)
BY DEF Values, RefOK, RefNames, Workspaces

\* A workspace ref that is there names a change, a change ref holds a record.
LEMMA RefValues ==
  ASSUME TypeOK, NEW r \in RefNames, refs[r] # None
  PROVE  /\ r \in Workspaces => refs[r] \in Changes
         /\ r \in Changes => refs[r] \in ChangeVal
BY DEF TypeOK, RefStates, RefOK, RefNames, Workspaces

\* restore_ref of a well-formed capture leaves well-formed refs.
LEMMA OverwriteType ==
  ASSUME NEW s \in RefStates, NEW w \in Capture
  PROVE  Overwrite(s, w) \in RefStates
BY DEF Overwrite, Listed, RefStates, Capture, Values

\* read_current of well-formed refs gives a well-formed capture.
LEMMA ReadCurrentType ==
  ASSUME TypeOK, NEW w \in Capture
  PROVE  ReadCurrent(w) \in Capture
BY DEF TypeOK, ReadCurrent, Listed, RefStates, Capture, Values

\* A capture of one ref is well formed if the value fits the ref.
LEMMA OneType ==
  ASSUME NEW r \in RefNames, NEW v \in Values, RefOK(r, v)
  PROVE  One(r, v) \in Capture
BY DEF One, Capture

\* So is a capture of two.
LEMMA TwoType ==
  ASSUME NEW r \in RefNames, NEW v \in Values, RefOK(r, v),
         NEW s \in RefNames, NEW x \in Values, RefOK(s, x)
  PROVE  Two(r, v, s, x) \in Capture
BY DEF Two, Capture

\* Each record of the log is one.
LEMMA LogEntry ==
  ASSUME TypeOK, NEW i \in 1..Len(log)
  PROVE  /\ log[i].id \in Nat
         /\ log[i].type \in OpTypes
         /\ log[i].undone \in Nat \cup {None}
         /\ log[i].before \in Capture
         /\ log[i].after \in Capture
<1>1. log[i] \in Op
  BY DEF TypeOK
<1> QED
  BY <1>1 DEF Op

\* The log is finite.
LEMMA LenType ==
  ASSUME TypeOK
  PROVE  Len(log) \in Nat
BY DEF TypeOK

\* compute_next_id of a log that has a greatest id is a number.
LEMMA NextIdNat ==
  ASSUME TypeInv
  PROVE  NextId \in Nat
<1>1. CASE log = << >>
  BY <1>1 DEF NextId
<1>2. CASE log # << >>
  <2> DEFINE ids == {log[i].id : i \in 1..Len(log)}
             IsMax(m) == \A i \in 1..Len(log) : log[i].id <= m
  <2>1. \A i \in 1..Len(log) : log[i].id \in Nat
    BY LogEntry DEF TypeInv
  <2>2. PICK k \in 1..Len(log) : IsMax(log[k].id)
    BY <1>2 DEF TypeInv, MaxIdExists
  <2>3. \E m \in ids : IsMax(m)
    BY <2>2
  <2>4. NextId = 1 + (CHOOSE m \in ids : IsMax(m))
    BY <1>2 DEF NextId
  <2> HIDE DEF IsMax
  <2>5. (CHOOSE m \in ids : IsMax(m)) \in ids
    BY <2>3
  <2>6. (CHOOSE m \in ids : IsMax(m)) \in Nat
    BY <2>5, <2>1
  <2> QED
    BY <2>4, <2>6
<1> QED
  BY <1>1, <1>2

\* The walk returns 0 only if no record is at depth 0, and otherwise the last
\* one that is.
LEMMA PickIsLast ==
  ASSUME TypeOK
  PROVE  \/ /\ PickOpToUndo = 0
            /\ \A i \in 1..Len(log) : ~Depth0(i)
         \/ /\ PickOpToUndo \in 1..Len(log)
            /\ Depth0(PickOpToUndo)
            /\ \A j \in PickOpToUndo+1..Len(log) : ~Depth0(j)
<1>1. CASE \A i \in 1..Len(log) : ~Depth0(i)
  BY <1>1 DEF PickOpToUndo
<1>2. CASE \E i \in 1..Len(log) : Depth0(i)
  <2> DEFINE S == {i \in 1..Len(log) : Depth0(i)}
             Last(i) == Depth0(i) /\ \A j \in i+1..Len(log) : ~Depth0(j)
  <2>1. PICK i \in S : \A j \in S : j <= i
    <3> HIDE DEF S
    <3>1. S \in SUBSET (1..Len(log)) /\ S # {}
      BY <1>2 DEF S
    <3> QED
      BY <3>1, LenType, LastIndex
  <2>2. \E k \in 1..Len(log) : Last(k)
    <3>1. i \in 1..Len(log) /\ Depth0(i)
      OBVIOUS
    <3>2. \A j \in i+1..Len(log) : j \in 1..Len(log) /\ ~(j <= i)
      BY <3>1, LenType
    <3> QED
      BY <2>1, <3>1, <3>2
  <2>3. PickOpToUndo = CHOOSE k \in 1..Len(log) : Last(k)
    BY <1>2 DEF PickOpToUndo
  <2> HIDE DEF Last
  <2>4. PickOpToUndo \in 1..Len(log) /\ Last(PickOpToUndo)
    BY <2>2, <2>3
  <2> QED
    BY <2>4 DEF Last
<1> QED
  BY <1>1, <1>2

\* Everything a command may write is a well-formed capture.
LEMMA UndoWritesType ==
  ASSUME TypeOK, NEW w \in UndoWrites
  PROVE  /\ PickOpToUndo # 0
         /\ w = log[PickOpToUndo].before
         /\ w \in Capture
<1>1. PickOpToUndo # 0 /\ w = log[PickOpToUndo].before
  BY DEF UndoWrites
<1> QED
  BY <1>1, PickIsLast, LogEntry

\* Change::new makes a change record.
LEMMA NewChangeType ==
  ASSUME NEW s \in Nat, NEW st \in Status
  PROVE  NewChange(s, st) \in ChangeVal
BY DEF NewChange, ChangeVal

\* Change::advance keeps it one.
LEMMA AdvanceType ==
  ASSUME NEW c \in ChangeVal, NEW s \in Nat
  PROVE  Advance(c, s) \in ChangeVal
BY DEF Advance, ChangeVal

\* The change a process takes for its own is absent or a change ref.
LEMMA ContextType ==
  ASSUME TypeOK, NEW p \in Clients, ctx[p] # None
  PROVE  /\ ctx[p] \in Context
         /\ ctx[p].ws \in Workspaces
         /\ ctx[p].ws \in RefNames
         /\ CurrentChange(ctx[p]) \in {None} \cup Changes
<1>1. ctx[p] \in Context
  BY DEF TypeOK
<1>2. ctx[p].ws \in Workspaces /\ ctx[p].seen \in {None} \cup Changes
  BY <1>1 DEF Context
<1>3. refs[Main] \in {None} \cup Changes
  BY RefValues DEF RefNames, Workspaces
<1> QED
  BY <1>1, <1>2, <1>3 DEF CurrentChange, RefNames

\* A new change starts from a snapshot.
LEMMA StartSnapType ==
  ASSUME TypeOK, NEW parent \in {None} \cup Changes,
         parent # None => refs[parent] # None
  PROVE  StartSnap(parent) \in Nat
<1>1. CASE parent = None
  BY <1>1 DEF StartSnap, TypeOK
<1>2. CASE parent # None
  <2>1. refs[parent] \in ChangeVal
    BY <1>2, RefValues DEF RefNames
  <2> QED
    BY <1>2, <2>1 DEF StartSnap, ChangeVal
<1> QED
  BY <1>1, <1>2

\* What snap_now writes is a capture.
LEMMA SnapWritesType ==
  ASSUME TypeOK, NEW p \in Clients, ctx[p] # None, NEW w \in SnapWrites(ctx[p])
  PROVE  w \in Capture
<1> DEFINE cur == CurrentChange(ctx[p])
           ws == ctx[p].ws
<1>1. cur \in {None} \cup Changes /\ ws \in RefNames
  BY ContextType
<1>2. nsnap + 1 \in Nat
  BY DEF TypeOK
<1>3. CASE cur = None
  <2>1. PICK id \in Changes : w = Two(id, NewChange(nsnap + 1, Working), Main, id)
    BY <1>3 DEF SnapWrites
  <2>2. NewChange(nsnap + 1, Working) \in ChangeVal
    BY <1>2, NewChangeType, StatusesKnown
  <2> QED
    BY <2>1, <2>2, TwoType DEF RefOK, Values, RefNames, Workspaces
<1>4. CASE cur # None
  <2>1. refs[cur] # None /\ w = Two(cur, Advance(refs[cur], nsnap + 1), ws, refs[ws])
    BY <1>4 DEF SnapWrites
  <2>2. refs[cur] \in ChangeVal
    BY <1>1, <1>4, <2>1, RefValues DEF RefNames
  <2>3. Advance(refs[cur], nsnap + 1) \in ChangeVal
    BY <1>2, <2>2, AdvanceType
  <2>4. refs[ws] \in Values /\ RefOK(ws, refs[ws])
    BY <1>1 DEF TypeOK, RefStates
  <2> HIDE DEF ws
  <2>5. cur \in RefNames /\ RefOK(cur, Advance(refs[cur], nsnap + 1))
    BY <1>1, <1>4, <2>3 DEF RefNames, RefOK
  <2>6. Advance(refs[cur], nsnap + 1) \in Values
    BY <2>3 DEF Values
  <2> QED
    BY <1>1, <2>1, <2>4, <2>5, <2>6, TwoType
<1> QED
  BY <1>3, <1>4

\* What `tig seal` writes is a capture.
LEMMA SealWritesType ==
  ASSUME TypeOK, NEW p \in Clients, ctx[p] # None, NEW w \in SealWrites(ctx[p])
  PROVE  w \in Capture
<1> DEFINE cur == CurrentChange(ctx[p])
<1>1. /\ cur # None
      /\ refs[cur] # None
      /\ w = One(cur, Advance(refs[cur], nsnap + 1))
  BY DEF SealWrites
<1>2. cur \in Changes
  BY <1>1, ContextType
<1> HIDE DEF cur
<1>3. Advance(refs[cur], nsnap + 1) \in ChangeVal
  BY <1>1, <1>2, RefValues, AdvanceType DEF TypeOK, RefNames
<1> QED
  BY <1>1, <1>2, <1>3, OneType DEF RefOK, RefNames, Values

\* What `tig change new` and `tig draft` write is a capture.
LEMMA ChangeNewWritesType ==
  ASSUME TypeOK, NEW p \in Clients, ctx[p] # None, NEW w \in ChangeNewWrites(ctx[p])
  PROVE  w \in Capture
<1> DEFINE cur == CurrentChange(ctx[p])
           ws == ctx[p].ws
<1>1. cur \in {None} \cup Changes /\ ws \in Workspaces /\ ws \in RefNames
  BY ContextType
<1>2. cur # None => refs[cur] # None
  BY DEF ChangeNewWrites
<1>3. PICK id \in Changes, st \in {Working, Draft} :
        w = Two(id, NewChange(StartSnap(cur), st), ws, id)
  BY <1>2 DEF ChangeNewWrites
<1>4. NewChange(StartSnap(cur), st) \in ChangeVal
  BY <1>1, <1>2, StartSnapType, NewChangeType, StatusesKnown
<1> HIDE DEF ws
<1>5. RefOK(id, NewChange(StartSnap(cur), st)) /\ RefOK(ws, id)
  BY <1>1, <1>4 DEF RefOK
<1>6. id \in RefNames /\ NewChange(StartSnap(cur), st) \in Values /\ id \in Values
  BY <1>4 DEF RefNames, Values
<1> QED
  BY <1>1, <1>3, <1>5, <1>6, TwoType

\* What `tig change set-*` writes is a capture.
LEMMA TransitionWritesType ==
  ASSUME TypeOK, NEW w \in TransitionWrites
  PROVE  w \in Capture
<1>1. PICK id \in Changes, st \in Status :
        refs[id] # None /\ w = One(id, [refs[id] EXCEPT !.status = st])
  BY Z3 DEF TransitionWrites
<1>2. refs[id] \in ChangeVal
  BY <1>1, RefValues DEF RefNames
<1>3. [refs[id] EXCEPT !.status = st] \in ChangeVal
  BY <1>2 DEF ChangeVal
<1>4. One(id, [refs[id] EXCEPT !.status = st]) \in Capture
  BY <1>3, OneType DEF RefOK, RefNames, Values
<1> QED
  BY <1>1, <1>4

\* What `tig wt make` and `tig wt drop` write are captures.
LEMMA WtWritesType ==
  ASSUME TypeOK, NEW p \in Clients, ctx[p] # None,
         NEW w \in WtMakeWrites(ctx[p]) \cup WtDropWrites(ctx[p])
  PROVE  w \in Capture
<1>1. CASE w \in WtMakeWrites(ctx[p])
  <2>1. PICK k \in Secondary : w = One(k, CurrentChange(ctx[p]))
    BY <1>1 DEF WtMakeWrites
  <2>2. CurrentChange(ctx[p]) \in Changes
    BY <1>1, ContextType DEF WtMakeWrites
  <2> QED
    BY <2>1, <2>2, OneType DEF RefOK, RefNames, Workspaces, Values
<1>2. CASE w \in WtDropWrites(ctx[p])
  <2>1. PICK k \in Secondary : w = One(k, None)
    BY <1>2 DEF WtDropWrites
  <2> QED
    BY <2>1, OneType DEF RefOK, RefNames, Workspaces, Values
<1> QED
  BY <1>1, <1>2

\* What the daemon's handlers write are captures.
LEMMA TigdWritesType ==
  ASSUME TypeOK, NEW c \in Changes
  PROVE  /\ \A parent \in {None} \cup {x \in Changes : refs[x] # None} :
            \A st \in Status : One(c, NewChange(StartSnap(parent), st)) \in Capture
         /\ refs[c] # None => One(c, Advance(refs[c], nsnap + 1)) \in Capture
<1>1. ASSUME NEW parent \in {None} \cup {x \in Changes : refs[x] # None},
             NEW st \in Status
      PROVE  One(c, NewChange(StartSnap(parent), st)) \in Capture
  <2>1. NewChange(StartSnap(parent), st) \in ChangeVal
    BY StartSnapType, NewChangeType
  <2> QED
    BY <2>1, OneType DEF RefOK, RefNames, Values
<1>2. ASSUME refs[c] # None
      PROVE  One(c, Advance(refs[c], nsnap + 1)) \in Capture
  <2>1. Advance(refs[c], nsnap + 1) \in ChangeVal
    BY <1>2, RefValues, AdvanceType DEF TypeOK, RefNames
  <2> QED
    BY <2>1, OneType DEF RefOK, RefNames, Values
<1> QED
  BY <1>1, <1>2

----------------------------------------------------------------------------
(* Steps *)

\* Whatever a step does, it either appends one record for what it did to the
\* refs or leaves both alone.
Appends ==
  \E id \in Nat, type \in OpTypes, undone \in Nat \cup {None}, w \in Capture :
    /\ Commit(id, type, undone, w)
    /\ type = "Undo" => w \in UndoWrites

\* A step that touches the refs or the log is one Commit of a capture, and
\* an undo commits the captures of the op it picks.
LEMMA StepAppends ==
  ASSUME TypeInv, [Next]_vars
  PROVE  Appends \/ UNCHANGED <<refs, log>>
<1> USE DEF TypeInv
<1>1. ASSUME NEW p \in Clients, NEW w \in Workspaces, Discover(p, w)
      PROVE  UNCHANGED <<refs, log>>
  BY <1>1 DEF Discover
<1>2. ASSUME NEW p \in Clients, Exit(p)
      PROVE  UNCHANGED <<refs, log>>
  BY <1>2 DEF Exit
<1>3. ASSUME NEW p \in Procs, CliStep(p)
      PROVE  Appends
  <2>1. p \in Clients /\ NextId \in Nat
    BY NextIdNat DEF Clients
  <2>2. CASE Snap(p)
    BY <2>1, <2>2, SnapWritesType DEF Snap, CliCommit, Appends, OpTypes
  <2>3. CASE ChangeNew(p)
    BY <2>1, <2>3, ChangeNewWritesType DEF ChangeNew, CliCommit, Appends, OpTypes
  <2>4. CASE ChangeTransition(p)
    BY <2>1, <2>4, TransitionWritesType
    DEF ChangeTransition, CliCommit, Appends, OpTypes
  <2>5. CASE WtMake(p)
    BY <2>1, <2>5, WtWritesType DEF WtMake, CliCommit, Appends, OpTypes
  <2>6. CASE WtDrop(p)
    BY <2>1, <2>6, WtWritesType DEF WtDrop, CliCommit, Appends, OpTypes
  <2>7. CASE Undo(p)
    <3>1. PICK w \in UndoWrites : Commit(NextId, "Undo", log[PickOpToUndo].id, w)
      BY <2>7 DEF Undo, CliCommit
    <3>2. w \in Capture /\ log[PickOpToUndo].id \in Nat
      BY UndoWritesType, PickIsLast, LogEntry
    <3> QED
      BY <2>1, <3>1, <3>2 DEF Appends, OpTypes
  <2>8. CASE Seal(p)
    BY <2>1, <2>8, SealWritesType DEF Seal, CliCommit, Appends, OpTypes
  <2> QED
    BY <1>3, <2>2, <2>3, <2>4, <2>5, <2>6, <2>7, <2>8 DEF CliStep
<1>4. ASSUME NEW p \in Watchers, WatchSnap(p)
      PROVE  Appends
  <2>1. p \in Clients /\ ctx[p] # None
    BY <1>4 DEF WatchSnap, Clients
  <2>2. next[p] \in Nat
    BY <2>1 DEF TypeOK, WatchersCount, Handles
  <2> QED
    BY <1>4, <2>1, <2>2, SnapWritesType DEF WatchSnap, HandleCommit, Appends, OpTypes
<1>5. ASSUME NEW d \in Daemons, TigdStep(d)
      PROVE  Appends \/ UNCHANGED <<refs, log>>
  <2>1. next[d] # None => next[d] \in Nat
    BY DEF TypeOK, Handles
  <2>2. CASE TigdStart(d) \/ TigdStop(d)
    BY <2>2 DEF TigdStart, TigdStop
  <2>3. CASE TigdCreate(d)
    <3>1. PICK parent \in {None} \cup {x \in Changes : refs[x] # None},
               id \in Changes, st \in Status :
                 Commit(next[d], "ChangeNew", None, One(id, NewChange(StartSnap(parent), st)))
      BY <2>3 DEF TigdCreate, HandleCommit
    <3> QED
      BY <2>1, <2>3, <3>1, TigdWritesType DEF TigdCreate, Appends, OpTypes
  <2>4. CASE TigdSnap(d)
    <3>1. PICK c \in Changes :
            /\ refs[c] # None
            /\ Commit(next[d], "Snap", None, One(c, Advance(refs[c], nsnap + 1)))
      BY <2>4 DEF TigdSnap, HandleCommit
    <3> QED
      BY <2>1, <2>4, <3>1, TigdWritesType DEF TigdSnap, Appends, OpTypes
  <2>5. CASE TigdTransition(d)
    BY <2>1, <2>5, TransitionWritesType
    DEF TigdTransition, HandleCommit, Appends, OpTypes
  <2>6. CASE TigdUndo(d)
    <3>1. PICK w \in UndoWrites : Commit(next[d], "Undo", log[PickOpToUndo].id, w)
      BY <2>6 DEF TigdUndo, HandleCommit
    <3>2. w \in Capture /\ log[PickOpToUndo].id \in Nat
      BY UndoWritesType, PickIsLast, LogEntry
    <3> QED
      BY <2>1, <2>6, <3>1, <3>2 DEF TigdUndo, Appends, OpTypes
  <2> QED
    BY <1>5, <2>2, <2>3, <2>4, <2>5, <2>6 DEF TigdStep
<1>6. CASE UNCHANGED vars
  BY <1>6 DEF vars
<1> QED
  BY <1>1, <1>2, <1>3, <1>4, <1>5, <1>6 DEF Next

\* What Commit does to the refs and the log, its captures still well formed.
LEMMA CommitEffect ==
  ASSUME TypeOK, NEW id \in Nat, NEW type \in OpTypes, NEW undone \in Nat \cup {None},
         NEW w \in Capture, Commit(id, type, undone, w)
  PROVE  /\ refs' = Overwrite(refs, w)
         /\ refs' \in RefStates
         /\ log' \in Seq(Op)
         /\ Len(log') = Len(log) + 1
         /\ Len(log) + 1 \in 1..MaxOps
         /\ \A i \in 1..Len(log) : log'[i] = log[i]
         /\ log'[Len(log) + 1].id = id
         /\ log'[Len(log) + 1].type = type
         /\ log'[Len(log) + 1].before = ReadCurrent(w)
         /\ log'[Len(log) + 1].after = w
<1> DEFINE op == [id |-> id, type |-> type, undone |-> undone,
                  before |-> ReadCurrent(w), after |-> w]
<1>1. refs' = Overwrite(refs, w) /\ log' = Append(log, op) /\ Len(log) < MaxOps
  BY DEF Commit
<1>2. op \in Op
  BY ReadCurrentType DEF Op
<1>3. log \in Seq(Op) /\ refs \in RefStates
  BY DEF TypeOK
<1>4. refs' \in RefStates
  BY <1>1, <1>3, OverwriteType
<1>5. /\ log' \in Seq(Op)
      /\ Len(log') = Len(log) + 1
      /\ \A i \in 1..Len(log) : log'[i] = log[i]
      /\ log'[Len(log) + 1] = op
  <2> HIDE DEF op
  <2> QED
    BY <1>1, <1>2, <1>3, AppendProperties
<1>6. Len(log) + 1 \in 1..MaxOps
  BY <1>1, LenType, BoundsNat
<1> QED
  BY <1>1, <1>4, <1>5, <1>6

\* The record with the greatest id may be the new one.
LEMMA MaxIdStep ==
  ASSUME TypeInv, Appends
  PROVE  MaxIdExists'
<1>1. PICK id \in Nat, type \in OpTypes, undone \in Nat \cup {None}, w \in Capture :
        Commit(id, type, undone, w)
  BY DEF Appends
<1> DEFINE n == Len(log)
<1>2. /\ n \in Nat /\ Len(log') = n + 1
      /\ \A i \in 1..n : log'[i].id = log[i].id /\ log[i].id \in Nat
      /\ log'[n + 1].id = id
  BY <1>1, CommitEffect, LenType, LogEntry DEF TypeInv
<1> SUFFICES \E i \in 1..n+1 : \A j \in 1..n+1 : log'[j].id <= log'[i].id
  BY <1>2 DEF MaxIdExists
<1>3. CASE \A j \in 1..n : log[j].id <= id
  <2>1. n + 1 \in 1..n+1
    BY <1>2
  <2>2. \A j \in 1..n+1 : log'[j].id <= log'[n + 1].id
    BY <1>2, <1>3
  <2> HIDE DEF n
  <2> QED
    BY <2>1, <2>2
<1>4. CASE \E j \in 1..n : ~(log[j].id <= id)
  <2>1. PICK j \in 1..n : ~(log[j].id <= id)
    BY <1>4
  <2>2. PICK i \in 1..n : \A k \in 1..n : log[k].id <= log[i].id
    <3>1. log # << >>
      BY <2>1, <1>2
    <3> QED
      BY <3>1 DEF TypeInv, MaxIdExists
  <2>3. \A k \in 1..n+1 : log'[k].id <= log'[i].id
    BY <1>2, <2>1, <2>2
  <2> QED
    BY <1>2, <2>3
<1> QED
  BY <1>3, <1>4

\* The variables the log does not show.
RestOK == /\ nsnap \in Nat
          /\ dirs \in SUBSET Secondary
          /\ ctx \in [Clients -> {None} \cup Context]
          /\ next \in [Handles -> {None} \cup Nat]
          /\ WatchersCount

\* A CLI command's commit keeps the processes' own state well formed.
LEMMA CliCommitRest ==
  ASSUME RestOK, NEW p \in Procs, NEW type, NEW undone, NEW w,
         CliCommit(p, type, undone, w)
  PROVE  /\ ctx' \in [Clients -> {None} \cup Context]
         /\ next' = next
         /\ WatchersCount'
BY DEF RestOK, CliCommit, WatchersCount, Clients, Handles

\* So does the commit of a watcher or daemon, whose counter goes up by one.
LEMMA HandleCommitRest ==
  ASSUME RestOK, NEW h \in Handles, next[h] # None, NEW type, NEW undone, NEW w,
         HandleCommit(h, type, undone, w)
  PROVE  /\ next' \in [Handles -> {None} \cup Nat]
         /\ ctx' = ctx
         /\ WatchersCount'
<1>1. next[h] \in Nat
  BY DEF RestOK
<1>2. next' = [next EXCEPT ![h] = next[h] + 1] /\ ctx' = ctx
  BY DEF HandleCommit
<1>3. next[h] + 1 \in Nat /\ next[h] + 1 # None
  BY <1>1
<1> QED
  BY <1>2, <1>3 DEF RestOK, WatchersCount, Handles

\* Snapshots stay countable.
LEMMA NewSnapType ==
  ASSUME RestOK
  PROVE  NewSnap \/ UNCHANGED nsnap => nsnap' \in Nat
BY DEF RestOK, NewSnap

\* Every step keeps the processes' own state well formed.
LEMMA RestStep ==
  ASSUME TypeInv, [Next]_vars
  PROVE  RestOK'
<1>0. RestOK
  BY DEF TypeInv, TypeOK, RestOK
<1>a. nsnap' \in Nat /\ dirs' \in SUBSET Secondary
  <2>1. \A w : \A p \in Clients :
          ctx[p] # None /\ w \in WtMakeWrites(ctx[p]) => Listed(w) \subseteq Secondary
    BY DEF WtMakeWrites, Listed, One
  <2>2. ASSUME NEW p \in Procs, WtMake(p)
        PROVE  dirs' \in SUBSET Secondary
    BY <1>0, <2>1, <2>2 DEF WtMake, RestOK, Clients
  <2> QED
    BY <1>0, <2>2, NewSnapType
    DEF RestOK, Next, vars, Discover, Exit, CliStep, Snap, Seal, ChangeNew,
        ChangeTransition, WtDrop, WtMake, Undo, WatchSnap, TigdStep, TigdStart,
        TigdStop, TigdCreate, TigdSnap, TigdTransition, TigdUndo
<1>1. ASSUME NEW p \in Clients, NEW w \in Workspaces, Discover(p, w)
      PROVE  RestOK'
  <2> DEFINE c == [ws |-> w, seen |-> IF w = Main THEN None ELSE refs[w]]
  <2>1. w # Main => w \in Secondary /\ refs[w] \in Changes
    BY <1>1, RefValues DEF Discover, Workspaces, RefNames, TypeInv
  <2>2. c \in Context
    BY <2>1 DEF Context
  <2>3. ctx' = [ctx EXCEPT ![p] = c]
    BY <1>1 DEF Discover
  <2>4. ctx' \in [Clients -> {None} \cup Context]
    <3> HIDE DEF c
    <3> QED BY <1>0, <2>2, <2>3 DEF RestOK
  <2>5. /\ next' = IF p \in Watchers THEN [next EXCEPT ![p] = NextId] ELSE next
        /\ NextId \in Nat
    BY <1>1, NextIdNat DEF Discover
  <2>6. next' \in [Handles -> {None} \cup Nat]
    BY <1>0, <2>5 DEF RestOK, Handles
  <2>7. WatchersCount'
    <3> HIDE DEF c
    <3>1. ASSUME NEW q \in Watchers, ctx'[q] # None
          PROVE  next'[q] # None
      <4>1. CASE q = p
        BY <1>0, <2>5, <4>1 DEF RestOK, Handles
      <4>2. CASE q # p
        <5>1. ctx'[q] = ctx[q] /\ next'[q] = next[q]
          BY <1>0, <2>3, <2>5, <4>2 DEF RestOK, Handles, Clients
        <5> QED
          BY <1>0, <3>1, <5>1 DEF RestOK, WatchersCount
      <4> QED
        BY <4>1, <4>2
    <3> QED
      BY <3>1 DEF WatchersCount
  <2> QED
    BY <1>a, <2>4, <2>6, <2>7 DEF RestOK
<1>2. ASSUME NEW p \in Clients, Exit(p)
      PROVE  RestOK'
  BY <1>0, <1>a, <1>2 DEF Exit, RestOK, WatchersCount, Clients, Handles
<1>3. ASSUME NEW p \in Procs, CliStep(p)
      PROVE  RestOK'
  <2>1. PICK type, undone, w : CliCommit(p, type, undone, w)
    BY <1>3 DEF CliStep, Snap, Seal, ChangeNew, ChangeTransition, WtMake, WtDrop, Undo
  <2> QED
    BY <1>0, <1>a, <2>1, CliCommitRest DEF RestOK
<1>4. ASSUME NEW p \in Watchers, WatchSnap(p)
      PROVE  RestOK'
  <2>1. PICK w : HandleCommit(p, "Snap", None, w)
    BY <1>4 DEF WatchSnap
  <2>2. p \in Handles /\ next[p] # None
    BY <1>0, <1>4 DEF WatchSnap, RestOK, WatchersCount, Handles
  <2> QED
    BY <1>0, <1>a, <2>1, <2>2, HandleCommitRest DEF RestOK
<1>5. ASSUME NEW d \in Daemons, TigdStep(d)
      PROVE  RestOK'
  <2>1. CASE TigdStart(d)
    BY <1>0, <1>a, <2>1, NextIdNat DEF TigdStart, RestOK, WatchersCount, Handles
  <2>2. CASE TigdStop(d)
    BY <1>0, <1>a, <2>2, ProcessesDisjoint DEF TigdStop, RestOK, WatchersCount, Handles
  <2>3. CASE TigdCreate(d) \/ TigdSnap(d) \/ TigdTransition(d) \/ TigdUndo(d)
    <3>1. next[d] # None /\ \E type, undone, w : HandleCommit(d, type, undone, w)
      BY <2>3 DEF TigdCreate, TigdSnap, TigdTransition, TigdUndo
    <3> QED
      BY <1>0, <1>a, <3>1, HandleCommitRest DEF RestOK, Handles
  <2> QED
    BY <1>5, <2>1, <2>2, <2>3 DEF TigdStep
<1>6. CASE UNCHANGED vars
  BY <1>0, <1>6 DEF vars, RestOK, WatchersCount
<1> QED
  BY <1>1, <1>2, <1>3, <1>4, <1>5, <1>6 DEF Next

\* The typing invariant is inductive.
LEMMA TypeInvStep ==
  ASSUME TypeInv, [Next]_vars
  PROVE  TypeInv'
<1>1. refs' \in RefStates /\ log' \in Seq(Op) /\ MaxIdExists'
  <2>1. CASE Appends
    <3>1. refs' \in RefStates /\ log' \in Seq(Op)
      BY <2>1, CommitEffect DEF Appends, TypeInv
    <3> QED
      BY <2>1, <3>1, MaxIdStep
  <2>2. CASE UNCHANGED <<refs, log>>
    BY <2>2 DEF TypeInv, TypeOK, MaxIdExists
  <2> QED
    BY <2>1, <2>2, StepAppends
<1> QED
  BY <1>1, RestStep DEF TypeInv, TypeOK, RestOK

\* The typing invariant holds of an empty repository.
LEMMA TypeInvInit ==
  ASSUME Init
  PROVE  TypeInv
<1>1. refs \in RefStates
  BY DEF Init, RefStates, Values, RefOK
<1>2. log \in Seq(Op) /\ log = << >>
  BY DEF Init
<1> QED
  BY <1>1, <1>2
  DEF Init, TypeInv, TypeOK, WatchersCount, MaxIdExists, Clients, Handles

\* Every command, watcher and daemon handler keeps the types of refs, log and
\* counters; a running watcher has a counter, and a greatest op id exists for
\* compute_next_id to find.
THEOREM TypeInvariant == Spec => []TypeInv
BY TypeInvInit, TypeInvStep, PTL DEF Spec

\* Refs always point to changes, change refs to records, and the log holds
\* well-formed records of them, whatever the commands, watchers and daemons do.
THEOREM TypeSafe == Spec => []TypeOK
<1>1. TypeInv => TypeOK
  BY DEF TypeInv
<1> QED
  BY <1>1, TypeInvariant, PTL

----------------------------------------------------------------------------
(* Replaying a log.  The operators below are those of OpLog with the log as  *)
(* a parameter, so that a lemma speaks of the log before and after a step.   *)

TouchesIn(lg, i, r) == r \in Listed(lg[i].after)

LastIn(lg, r, k) ==
  CHOOSE i \in 0..k : /\ i # 0 => TouchesIn(lg, i, r)
                      /\ \A j \in i+1..k : ~TouchesIn(lg, j, r)

At(lg, k) ==
  [r \in RefNames |-> IF LastIn(lg, r, k) = 0 THEN None
                      ELSE lg[LastIn(lg, r, k)].after[r]]

Start == [r \in RefNames |-> None]

\* lg2 is lg and one more record.
Grows(lg, lg2) == /\ lg \in Seq(Op) /\ lg2 \in Seq(Op)
                  /\ Len(lg2) = Len(lg) + 1
                  /\ \A i \in 1..Len(lg) : lg2[i] = lg[i]

\* At is RefsAt of this state's log.
LEMMA AtIsRefsAt ==
  ASSUME NEW k
  PROVE  RefsAt(k) = At(log, k) /\ RefsAt(k)' = At(log', k)
BY DEF RefsAt, At, LastTouch, LastIn, Touches, TouchesIn

\* i is where r was last touched among the first k records, or 0.
IsLastIn(lg, r, k, i) == /\ i # 0 => TouchesIn(lg, i, r)
                         /\ \A j \in i+1..k : ~TouchesIn(lg, j, r)

\* There is a last record that touches r, or none at all.
LEMMA LastInExists ==
  ASSUME NEW lg, NEW r, NEW k \in Nat
  PROVE  LastIn(lg, r, k) \in 0..k /\ IsLastIn(lg, r, k, LastIn(lg, r, k))
<1> DEFINE S == {i \in 1..k : TouchesIn(lg, i, r)}
<1>1. \E i \in 0..k : IsLastIn(lg, r, k, i)
  <2>1. CASE S = {}
    <3>1. 0 \in 0..k /\ \A j \in 0+1..k : ~TouchesIn(lg, j, r)
      BY <2>1
    <3> QED
      BY <3>1 DEF IsLastIn
  <2>2. CASE S # {}
    <3>1. S \in SUBSET (1..k)
      OBVIOUS
    <3>2. PICK i \in S : \A j \in S : j <= i
      <4> HIDE DEF S
      <4> QED BY <2>2, <3>1, LastIndex
    <3>3. \A j \in i+1..k : j \in 1..k /\ ~(j <= i)
      OBVIOUS
    <3>4. i \in 0..k /\ IsLastIn(lg, r, k, i)
      BY <3>2, <3>3 DEF IsLastIn
    <3> QED
      BY <3>4
  <2> QED
    BY <2>1, <2>2
<1>2. LastIn(lg, r, k) = CHOOSE i \in 0..k : IsLastIn(lg, r, k, i)
  BY DEF LastIn, IsLastIn
<1> QED
  BY <1>1, <1>2

\* And only one.
LEMMA LastInUnique ==
  ASSUME NEW lg, NEW r, NEW k \in Nat, NEW i \in 0..k, IsLastIn(lg, r, k, i)
  PROVE  LastIn(lg, r, k) = i
<1> DEFINE l == LastIn(lg, r, k)
<1>1. l \in 0..k /\ IsLastIn(lg, r, k, l)
  BY LastInExists
<1> HIDE DEF l
<1>2. CASE l < i
  <2>1. i \in l+1..k /\ i # 0
    BY <1>1, <1>2
  <2> QED
    BY <1>1, <2>1 DEF IsLastIn
<1>3. CASE i < l
  <2>1. l \in i+1..k /\ l # 0
    BY <1>1, <1>3
  <2> QED
    BY <1>1, <2>1 DEF IsLastIn
<1> QED
  BY <1>1, <1>2, <1>3 DEF l

\* A record is there for good: what precedes it replays to the same refs.
LEMMA AtStable ==
  ASSUME NEW lg, NEW lg2, Grows(lg, lg2), NEW k \in 0..Len(lg)
  PROVE  At(lg2, k) = At(lg, k)
<1>1. Len(lg) \in Nat /\ k \in Nat
  BY DEF Grows
<1>2. ASSUME NEW r \in RefNames
      PROVE  /\ LastIn(lg2, r, k) = LastIn(lg, r, k)
             /\ LastIn(lg, r, k) # 0 =>
                  lg2[LastIn(lg, r, k)].after[r] = lg[LastIn(lg, r, k)].after[r]
  <2> DEFINE i == LastIn(lg, r, k)
  <2>1. i \in 0..k /\ IsLastIn(lg, r, k, i)
    BY <1>1, LastInExists
  <2> HIDE DEF i
  <2>2. \A j \in 1..k : lg2[j] = lg[j]
    BY <1>1 DEF Grows
  <2>3. IsLastIn(lg2, r, k, i)
    <3>1. i # 0 => i \in 1..k
      BY <1>1, <2>1
    <3>2. \A j \in i+1..k : j \in 1..k
      BY <1>1, <2>1
    <3> QED
      BY <2>1, <2>2, <3>1, <3>2 DEF IsLastIn, TouchesIn
  <2>4. LastIn(lg2, r, k) = i
    BY <1>1, <2>1, <2>3, LastInUnique
  <2> QED
    BY <1>1, <2>1, <2>2, <2>4 DEF i
<1> QED
  BY <1>2 DEF At

\* One more record overwrites the refs it lists.
LEMMA AtNext ==
  ASSUME NEW lg, NEW k \in Nat \ {0}
  PROVE  At(lg, k) = Overwrite(At(lg, k - 1), lg[k].after)
<1>1. ASSUME NEW r \in RefNames
      PROVE  LastIn(lg, r, k) = IF TouchesIn(lg, k, r) THEN k ELSE LastIn(lg, r, k - 1)
  <2>1. CASE TouchesIn(lg, k, r)
    <3>1. k \in 0..k /\ IsLastIn(lg, r, k, k)
      BY <2>1 DEF IsLastIn
    <3> QED
      BY <2>1, <3>1, LastInUnique
  <2>2. CASE ~TouchesIn(lg, k, r)
    <3> DEFINE i == LastIn(lg, r, k - 1)
    <3>1. i \in 0..k-1 /\ IsLastIn(lg, r, k - 1, i)
      BY LastInExists
    <3> HIDE DEF i
    <3>2. \A j \in i+1..k : j = k \/ j \in i+1..k-1
      BY <3>1
    <3>3. i \in 0..k /\ IsLastIn(lg, r, k, i)
      BY <2>2, <3>1, <3>2 DEF IsLastIn
    <3> QED
      BY <2>2, <3>3, LastInUnique DEF i
  <2> QED
    BY <2>1, <2>2
<1> QED
  BY <1>1 DEF At, Overwrite, TouchesIn, Listed

\* Before the first record every ref is absent.
LEMMA AtZero ==
  ASSUME NEW lg
  PROVE  At(lg, 0) = Start
<1>1. \A r \in RefNames : LastIn(lg, r, 0) = 0
  BY LastInExists
<1> QED
  BY <1>1 DEF At, Start

----------------------------------------------------------------------------
(* The log explains the refs *)

\* What a step does to the log and the refs, without the details of Commit.
Step(id, type, w) ==
  /\ Grows(log, log')
  /\ Len(log) + 1 \in 1..MaxOps
  /\ refs' = Overwrite(refs, w)
  /\ log'[Len(log) + 1].id = id
  /\ log'[Len(log) + 1].type = type
  /\ log'[Len(log) + 1].before = ReadCurrent(w)
  /\ log'[Len(log) + 1].after = w
  /\ type = "Undo" => w \in UndoWrites

\* A step on refs and log adds one record and changes none.
LEMMA AppendsStep ==
  ASSUME TypeOK, Appends
  PROVE  \E id \in Nat, type \in OpTypes, w \in Capture : Step(id, type, w)
<1>1. PICK id \in Nat, type \in OpTypes, undone \in Nat \cup {None}, w \in Capture :
        Commit(id, type, undone, w) /\ (type = "Undo" => w \in UndoWrites)
  BY DEF Appends
<1>2. Step(id, type, w)
  BY <1>1, CommitEffect DEF Step, Grows, TypeOK
<1> QED
  BY <1>2

\* LogExplainsRefs, before and after a step, in terms of At.
LEMMA ExplainsIsAt ==
  /\ LogExplainsRefs <=> refs = At(log, Len(log))
  /\ LogExplainsRefs' <=> refs' = At(log', Len(log'))
BY DEF LogExplainsRefs, RefsAt, At, LastTouch, LastIn, Touches, TouchesIn

\* The refs stay what replaying the log gives.
LEMMA ReplayStep ==
  ASSUME TypeInv, LogExplainsRefs, [Next]_vars
  PROVE  LogExplainsRefs'
<1> DEFINE n == Len(log)
<1>1. CASE Appends
  <2>1. PICK id \in Nat, type \in OpTypes, w \in Capture : Step(id, type, w)
    BY <1>1, AppendsStep DEF TypeInv
  <2>2. n \in Nat /\ Len(log') = n + 1 /\ Grows(log, log')
    BY <2>1, LenType DEF Step, Grows, TypeInv
  <2>3. At(log', n + 1) = Overwrite(At(log', n), w)
    <3>1. n + 1 \in Nat \ {0} /\ (n + 1) - 1 = n
      BY <2>2
    <3>2. log'[n + 1].after = w
      BY <2>1 DEF Step
    <3> HIDE DEF n
    <3> QED
      BY <3>1, <3>2, AtNext
  <2>4. At(log', n) = At(log, n)
    BY <2>2, AtStable
  <2>5. refs = At(log, n)
    BY ExplainsIsAt
  <2> QED
    BY <2>1, <2>2, <2>3, <2>4, <2>5, ExplainsIsAt DEF Step
<1>2. CASE UNCHANGED <<refs, log>>
  BY <1>2, ExplainsIsAt
<1> QED
  BY <1>1, <1>2, StepAppends

\* Replaying the log gives the refs on disk: every command, of whatever
\* process, captures every ref it writes.
THEOREM LogExplains == Spec => []LogExplainsRefs
<1>1. Init => LogExplainsRefs
  <2> SUFFICES ASSUME Init PROVE LogExplainsRefs
    OBVIOUS
  <2>1. Len(log) = 0 /\ refs = Start
    BY DEF Init, Start
  <2> QED
    BY <2>1, ExplainsIsAt, AtZero
<1>2. TypeInv /\ LogExplainsRefs /\ [Next]_vars => LogExplainsRefs'
  BY ReplayStep
<1> QED
  BY <1>1, <1>2, TypeInvariant, PTL DEF Spec

----------------------------------------------------------------------------
(* Op ids *)

\* With CLI processes alone, a record's id is its index.
IdsDense == \A i \in 1..Len(log) : log[i].id = i - 1

\* Where ids are indices, compute_next_id gives the next index.
LEMMA NextIdDense ==
  ASSUME TypeOK, IdsDense
  PROVE  NextId = Len(log)
<1> DEFINE n == Len(log)
           ids == {log[i].id : i \in 1..n}
           IsMax(m) == \A i \in 1..n : log[i].id <= m
<1>1. n \in Nat /\ (log = << >> <=> n = 0)
  BY DEF TypeOK
<1>2. CASE n = 0
  BY <1>1, <1>2 DEF NextId
<1>3. CASE n # 0
  <2>1. n \in 1..n /\ log[n].id = n - 1
    BY <1>1, <1>3 DEF IdsDense
  <2>2. n - 1 \in ids
    BY <2>1
  <2>3. IsMax(n - 1)
    BY <1>1 DEF IdsDense
  <2>4. ASSUME NEW m \in ids, IsMax(m)
        PROVE  m = n - 1
    <3>1. m <= n - 1 /\ m \in Int
      BY <1>1 DEF IdsDense
    <3>2. n - 1 <= m
      BY <2>1, <2>4
    <3> QED
      BY <1>1, <3>1, <3>2
  <2>5. NextId = 1 + (CHOOSE m \in ids : IsMax(m))
    BY <1>1, <1>3 DEF NextId
  <2> HIDE DEF ids, IsMax
  <2>6. (CHOOSE m \in ids : IsMax(m)) = n - 1
    BY <2>2, <2>3, <2>4
  <2> HIDE DEF n
  <2>7. NextId = 1 + (n - 1)
    BY <2>5, <2>6
  <2> QED
    BY <1>1, <2>7 DEF n
<1> QED
  BY <1>2, <1>3

\* Without long-lived handles ids stay indices.
LEMMA IdsDenseStep ==
  ASSUME Handles = {}, TypeInv, IdsDense, [Next]_vars
  PROVE  IdsDense'
<1>1. ASSUME NEW p \in Procs, CliStep(p)
      PROVE  IdsDense'
  <2>1. PICK type, undone, w : Commit(NextId, type, undone, w)
    BY <1>1 DEF CliStep, Snap, Seal, ChangeNew, ChangeTransition, WtMake, WtDrop, Undo, CliCommit
  <2>2. PICK op : log' = Append(log, op) /\ op.id = Len(log)
    BY <2>1, NextIdDense DEF Commit, TypeInv
  <2>3. Len(log) \in Nat
    BY LenType DEF TypeInv
  <2>4. /\ Len(log') = Len(log) + 1
        /\ \A i \in 1..Len(log) : log'[i] = log[i]
        /\ log'[Len(log) + 1] = op
    BY <2>2, <2>3 DEF TypeInv, TypeOK
  <2> QED
    BY <2>2, <2>3, <2>4 DEF IdsDense
<1>2. ASSUME UNCHANGED log
      PROVE  IdsDense'
  BY <1>2 DEF IdsDense
<1> QED
  BY <1>1, <1>2 DEF Next, vars, Handles, Discover, Exit

\* Where no process keeps a handle on the log from one command to the next,
\* the write lock is enough: compute_next_id never gives an id twice.
THEOREM CliIdsUnique ==
  ASSUME Handles = {}
  PROVE  Spec => []OpIdsUnique
<1>1. Init => IdsDense
  BY DEF Init, IdsDense
<1>2. TypeInv /\ IdsDense /\ [Next]_vars => IdsDense'
  BY IdsDenseStep
<1>3. TypeInv /\ IdsDense => OpIdsUnique
  BY LenType DEF IdsDense, OpIdsUnique, TypeInv
<1> QED
  BY <1>1, <1>2, <1>3, TypeInvariant, PTL DEF Spec

----------------------------------------------------------------------------
(* `tig undo` as a stack.  The argument is about heights: Height(k) is the   *)
(* number of operations done minus those undone among the first k records.   *)
(* A record is live when the height never falls below its own again.  Two    *)
(* consecutive live records, or the last one and the end of the log, have    *)
(* between them records that undo each other, so the refs at both ends are   *)
(* equal; and the walk of pick_op_to_undo always stops at the last live one. *)

UndoIn(lg, i) == lg[i].type = "Undo"
NonUndosIn(lg, k) == {i \in 1..k : ~UndoIn(lg, i)}
UndosIn(lg, k) == {i \in 1..k : UndoIn(lg, i)}
H(lg, k) == Cardinality(NonUndosIn(lg, k)) - Cardinality(UndosIn(lg, k))
Live(lg) == {i \in 1..Len(lg) : /\ ~UndoIn(lg, i)
                                /\ \A k \in i..Len(lg) : H(lg, i) <= H(lg, k)}

\* H, Live and the walk's depth are those of this state's log.
LEMMA HeightIsH ==
  /\ \A k : Height(k) = H(log, k)
  /\ \A i : Depth0(i) <=> ~UndoIn(log, i) /\ H(log, i) = H(log, Len(log))
  /\ LiveOps = Live(log)
  /\ LiveOps' = Live(log')
BY DEF Height, NonUndos, Undos, IsUndo, Depth0, LiveOps,
       H, NonUndosIn, UndosIn, UndoIn, Live

\* A height is a number.
LEMMA HFinite ==
  ASSUME NEW lg, NEW k \in Nat
  PROVE  /\ IsFiniteSet(NonUndosIn(lg, k)) /\ IsFiniteSet(UndosIn(lg, k))
         /\ Cardinality(NonUndosIn(lg, k)) \in Nat
         /\ Cardinality(UndosIn(lg, k)) \in Nat
         /\ H(lg, k) \in Int
<1>1. IsFiniteSet(1..k)
  BY FS_Interval
<1>2. NonUndosIn(lg, k) \in SUBSET (1..k) /\ UndosIn(lg, k) \in SUBSET (1..k)
  BY DEF NonUndosIn, UndosIn
<1>3. IsFiniteSet(NonUndosIn(lg, k)) /\ IsFiniteSet(UndosIn(lg, k))
  BY <1>1, <1>2, FS_Subset
<1>4. /\ Cardinality(NonUndosIn(lg, k)) \in Nat
      /\ Cardinality(UndosIn(lg, k)) \in Nat
  BY <1>3, FS_CardinalityType
<1> QED
  BY <1>3, <1>4 DEF H

\* No record, no height.
LEMMA HZero ==
  ASSUME NEW lg
  PROVE  H(lg, 0) = 0
<1>1. NonUndosIn(lg, 0) = {} /\ UndosIn(lg, 0) = {}
  BY DEF NonUndosIn, UndosIn
<1> QED
  BY <1>1, FS_EmptySet DEF H

\* A record that is not an undo is one step up, an undo one step down.
LEMMA HNext ==
  ASSUME NEW lg, NEW k \in Nat
  PROVE  H(lg, k + 1) = IF UndoIn(lg, k + 1) THEN H(lg, k) - 1 ELSE H(lg, k) + 1
<1>1. 1..k+1 = (1..k) \cup {k + 1} /\ k + 1 \notin 1..k
  OBVIOUS
<1>2. CASE UndoIn(lg, k + 1)
  <2>1. /\ NonUndosIn(lg, k + 1) = NonUndosIn(lg, k)
        /\ UndosIn(lg, k + 1) = UndosIn(lg, k) \cup {k + 1}
        /\ k + 1 \notin UndosIn(lg, k)
    BY <1>1, <1>2 DEF NonUndosIn, UndosIn
  <2>2. Cardinality(UndosIn(lg, k + 1)) = Cardinality(UndosIn(lg, k)) + 1
    BY <2>1, HFinite, FS_AddElement
  <2> QED
    BY <1>2, <2>1, <2>2, HFinite DEF H
<1>3. CASE ~UndoIn(lg, k + 1)
  <2>1. /\ UndosIn(lg, k + 1) = UndosIn(lg, k)
        /\ NonUndosIn(lg, k + 1) = NonUndosIn(lg, k) \cup {k + 1}
        /\ k + 1 \notin NonUndosIn(lg, k)
    BY <1>1, <1>3 DEF NonUndosIn, UndosIn
  <2>2. Cardinality(NonUndosIn(lg, k + 1)) = Cardinality(NonUndosIn(lg, k)) + 1
    BY <2>1, HFinite, FS_AddElement
  <2> QED
    BY <1>3, <2>1, <2>2, HFinite DEF H
<1> QED
  BY <1>2, <1>3

\* The height of a prefix of the log never changes.
LEMMA HStable ==
  ASSUME NEW lg, NEW lg2, Grows(lg, lg2), NEW k \in 0..Len(lg)
  PROVE  H(lg2, k) = H(lg, k)
<1>1. \A i \in 1..k : UndoIn(lg2, i) <=> UndoIn(lg, i)
  BY DEF Grows, UndoIn
<1>2. NonUndosIn(lg2, k) = NonUndosIn(lg, k) /\ UndosIn(lg2, k) = UndosIn(lg, k)
  BY <1>1 DEF NonUndosIn, UndosIn
<1> QED
  BY <1>2 DEF H

----------------------------------------------------------------------------
(* Live records *)

\* The log stands higher after a live record than before it.
LEMMA LiveRises ==
  ASSUME NEW lg \in Seq(Op), NEW i \in Live(lg), NEW j \in Live(lg), i < j
  PROVE  H(lg, i) < H(lg, j)
<1>1. Len(lg) \in Nat /\ i \in 1..Len(lg) /\ j \in 1..Len(lg) /\ ~UndoIn(lg, j)
  BY DEF Live
<1>2. j - 1 \in Nat /\ (j - 1) + 1 = j /\ j - 1 \in i..Len(lg)
  BY <1>1
<1>3. H(lg, j) = H(lg, j - 1) + 1
  BY <1>1, <1>2, HNext
<1>4. H(lg, i) <= H(lg, j - 1)
  BY <1>2 DEF Live
<1> QED
  BY <1>1, <1>2, <1>3, <1>4, HFinite

\* A new operation is live, and nothing dies of it.
LEMMA LivePush ==
  ASSUME NEW lg, NEW lg2, Grows(lg, lg2), ~UndoIn(lg2, Len(lg) + 1)
  PROVE  Live(lg2) = Live(lg) \cup {Len(lg) + 1}
<1> DEFINE n == Len(lg)
<1>1. n \in Nat /\ Len(lg2) = n + 1
  BY DEF Grows
<1>2. H(lg2, n + 1) = H(lg, n) + 1
  BY <1>1, HNext, HStable
<1>3. \A k \in 0..n : H(lg2, k) = H(lg, k) /\ H(lg, k) \in Int
  BY <1>1, HStable, HFinite
<1>4. \A i \in 1..n : UndoIn(lg2, i) <=> UndoIn(lg, i)
  BY DEF Grows, UndoIn
<1> HIDE DEF n
<1>5. ASSUME NEW i \in 1..n
      PROVE  i \in Live(lg2) <=> i \in Live(lg)
  <2>1. i..n+1 = (i..n) \cup {n + 1} /\ n \in i..n
    BY <1>1
  <2>2. \A k \in i..n : k \in 0..n
    BY <1>1
  <2> QED
    BY <1>1, <1>2, <1>3, <1>4, <2>1, <2>2 DEF Live, n
<1>6. n + 1 \in Live(lg2)
  <2>1. n + 1 \in 1..n+1 /\ (n + 1)..(n + 1) = {n + 1}
    BY <1>1
  <2> QED
    BY <1>1, <2>1, HFinite DEF Live, n
<1>7. Live(lg) \subseteq 1..n /\ Live(lg2) \subseteq 1..n+1
  BY <1>1 DEF Live, n
<1> QED
  BY <1>1, <1>5, <1>6, <1>7 DEF n

\* An undo takes away the live records as high as the log.
LEMMA LivePop ==
  ASSUME NEW lg, NEW lg2, Grows(lg, lg2), UndoIn(lg2, Len(lg) + 1)
  PROVE  Live(lg2) = {i \in Live(lg) : H(lg, i) < H(lg, Len(lg))}
<1> DEFINE n == Len(lg)
<1>1. n \in Nat /\ Len(lg2) = n + 1
  BY DEF Grows
<1>2. H(lg2, n + 1) = H(lg, n) - 1
  BY <1>1, HNext, HStable
<1>3. \A k \in 0..n : H(lg2, k) = H(lg, k) /\ H(lg, k) \in Int
  BY <1>1, HStable, HFinite
<1>4. \A i \in 1..n : UndoIn(lg2, i) <=> UndoIn(lg, i)
  BY DEF Grows, UndoIn
<1> HIDE DEF n
<1>5. ASSUME NEW i \in 1..n
      PROVE  i \in Live(lg2) <=> i \in Live(lg) /\ H(lg, i) < H(lg, n)
  <2>1. i..n+1 = (i..n) \cup {n + 1} /\ n \in i..n
    BY <1>1
  <2>2. \A k \in i..n : k \in 0..n
    BY <1>1
  <2> QED
    BY <1>1, <1>2, <1>3, <1>4, <2>1, <2>2 DEF Live, n
<1>6. n + 1 \notin Live(lg2)
  BY DEF Live, n
<1>7. Live(lg) \subseteq 1..n /\ Live(lg2) \subseteq 1..n+1
  BY <1>1 DEF Live, n
<1> QED
  BY <1>1, <1>5, <1>6, <1>7 DEF n

----------------------------------------------------------------------------
(* The invariant *)

\* m is the last live record before position k.
Prev(lg, m, k) ==
  m \in Live(lg) /\ m < k /\ \A i \in Live(lg) : i < k => i <= m

\* Between that record and k everything was undone.
LinkOK(lg, k) ==
  \/ /\ \A i \in Live(lg) : ~(i < k)
     /\ H(lg, k - 1) = 0
     /\ At(lg, k - 1) = Start
  \/ \E m \in Live(lg) : /\ Prev(lg, m, k)
                         /\ H(lg, k - 1) = H(lg, m)
                         /\ At(lg, k - 1) = At(lg, m)

\* A record's before is what the log says the refs were.
CaptureOK(lg, i) ==
  \A r \in RefNames :
    lg[i].before[r] = IF TouchesIn(lg, i, r) THEN At(lg, i - 1)[r] ELSE Same

StackInv(lg) ==
  /\ \A k \in 0..Len(lg) : H(lg, k) >= 0
  /\ \A k \in Live(lg) \cup {Len(lg) + 1} : LinkOK(lg, k)
  /\ \A i \in 1..Len(lg) : CaptureOK(lg, i)

\* The walk stops at the last live record, which is as high as the log.
LEMMA PickIsTop ==
  ASSUME TypeOK, StackInv(log)
  PROVE  \/ /\ PickOpToUndo = 0
            /\ Live(log) = {}
         \/ /\ PickOpToUndo \in Live(log)
            /\ \A i \in Live(log) : i <= PickOpToUndo
            /\ H(log, PickOpToUndo) = H(log, Len(log))
            /\ At(log, PickOpToUndo) = At(log, Len(log))
<1> DEFINE n == Len(log)
           pick == PickOpToUndo
<1>1. n \in Nat /\ Live(log) \subseteq 1..n
  BY LenType DEF Live
<1>2. (n + 1) - 1 = n /\ LinkOK(log, n + 1)
  BY <1>1 DEF StackInv
<1>3. \A k \in 0..n : H(log, k) \in Int /\ H(log, k) >= 0
  BY <1>1, HFinite DEF StackInv
<1>4. \/ /\ pick = 0
         /\ \A i \in 1..n : ~Depth0(i)
      \/ /\ pick \in 1..n
         /\ Depth0(pick)
         /\ \A j \in pick+1..n : ~Depth0(j)
  BY PickIsLast
<1>5. \A i : Depth0(i) <=> ~UndoIn(log, i) /\ H(log, i) = H(log, n)
  BY HeightIsH
<1> HIDE DEF pick
\* A record at depth 0 that is not live is followed by one lower than the log's end.
<1>6. ASSUME NEW i \in 1..n, Depth0(i), i \notin Live(log)
      PROVE  \E k \in i..n : H(log, k) < H(log, n)
  <2>1. PICK k \in i..n : ~(H(log, i) <= H(log, k))
    BY <1>5, <1>6 DEF Live
  <2> QED
    BY <1>1, <1>3, <1>5, <1>6, <2>1
<1>7. CASE /\ \A i \in Live(log) : ~(i < n + 1)
           /\ H(log, n) = 0
  <2>1. Live(log) = {}
    BY <1>1, <1>7
  <2>2. \A i \in 1..n : ~Depth0(i)
    BY <1>1, <1>3, <1>6, <1>7, <2>1
  <2> QED
    BY <1>4, <2>1, <2>2 DEF pick
<1>8. CASE \E m \in Live(log) : /\ Prev(log, m, n + 1)
                                /\ H(log, n) = H(log, m)
                                /\ At(log, n) = At(log, m)
  <2>1. PICK m \in Live(log) : /\ Prev(log, m, n + 1)
                               /\ H(log, n) = H(log, m)
                               /\ At(log, n) = At(log, m)
    BY <1>8
  <2>2. m \in 1..n /\ Depth0(m) /\ \A k \in m..n : H(log, m) <= H(log, k)
    BY <1>5, <2>1 DEF Live
  <2>3. \A i \in Live(log) : i <= m
    BY <1>1, <2>1 DEF Prev
  <2>4. pick \in 1..n /\ Depth0(pick) /\ ~(pick < m)
    BY <1>1, <1>4, <2>2
  <2>5. ~(m < pick)
    <3> SUFFICES ASSUME m < pick PROVE FALSE
      OBVIOUS
    <3>1. pick \notin Live(log)
      BY <1>1, <2>2, <2>3, <2>4
    <3>2. PICK k \in pick..n : H(log, k) < H(log, n)
      BY <1>6, <2>4, <3>1
    <3>3. k \in m..n /\ k \in 0..n /\ n \in 0..n
      BY <1>1, <2>2, <2>4, <3>2
    <3> QED
      BY <1>3, <2>1, <2>2, <3>2, <3>3
  <2>6. pick = m
    BY <1>1, <2>2, <2>4, <2>5
  <2> QED
    BY <2>1, <2>3, <2>6 DEF pick
<1> QED
  BY <1>2, <1>7, <1>8 DEF LinkOK

\* A link depends only on the records before it.
LEMMA LinkStable ==
  ASSUME NEW lg, NEW lg2, Grows(lg, lg2), NEW k \in 1..Len(lg)+1, LinkOK(lg, k),
         \A i \in 1..k-1 : i \in Live(lg2) <=> i \in Live(lg)
  PROVE  LinkOK(lg2, k)
<1> DEFINE n == Len(lg)
<1>1. n \in Nat /\ Len(lg2) = n + 1 /\ k - 1 \in 0..n
  BY DEF Grows
<1>2. Live(lg) \subseteq 1..n /\ Live(lg2) \subseteq 1..n+1
  BY <1>1 DEF Live
<1>3. \A i \in 1..n+1 : i < k => (i \in Live(lg2) <=> i \in Live(lg))
  BY <1>1
<1>4. H(lg2, k - 1) = H(lg, k - 1) /\ At(lg2, k - 1) = At(lg, k - 1)
  BY <1>1, HStable, AtStable
<1> HIDE DEF n
<1>5. CASE /\ \A i \in Live(lg) : ~(i < k)
           /\ H(lg, k - 1) = 0
           /\ At(lg, k - 1) = Start
  <2>1. \A i \in Live(lg2) : ~(i < k)
    BY <1>2, <1>3, <1>5
  <2> QED
    BY <1>4, <1>5, <2>1 DEF LinkOK
<1>6. CASE \E m \in Live(lg) : /\ Prev(lg, m, k)
                               /\ H(lg, k - 1) = H(lg, m)
                               /\ At(lg, k - 1) = At(lg, m)
  <2>1. PICK m \in Live(lg) : /\ Prev(lg, m, k)
                              /\ H(lg, k - 1) = H(lg, m)
                              /\ At(lg, k - 1) = At(lg, m)
    BY <1>6
  <2>2. m \in 1..n /\ m \in 0..n /\ m \in 1..n+1 /\ m < k
    BY <1>1, <1>2, <2>1 DEF Prev
  <2>3. m \in Live(lg2) /\ Prev(lg2, m, k)
    BY <1>2, <1>3, <2>1, <2>2 DEF Prev
  <2>4. H(lg2, m) = H(lg, m) /\ At(lg2, m) = At(lg, m)
    BY <2>2, HStable, AtStable DEF n
  <2> QED
    BY <1>4, <2>1, <2>3, <2>4 DEF LinkOK
<1> QED
  BY <1>5, <1>6 DEF LinkOK

\* Replaying the log gives every ref a value.
LEMMA AtNotSame ==
  ASSUME NEW lg, NEW k \in Nat, NEW r \in RefNames
  PROVE  At(lg, k)[r] # Same
<1>1. LastIn(lg, r, k) # 0 => TouchesIn(lg, LastIn(lg, r, k), r)
  BY LastInExists DEF IsLastIn
<1> QED
  BY <1>1, RefsDisjoint DEF At, TouchesIn, Listed

\* What the last live record captured brings back the refs from before it.
LEMMA BeforeRestores ==
  ASSUME TypeOK, StackInv(log), NEW m \in Live(log), At(log, m) = At(log, Len(log))
  PROVE  Overwrite(At(log, Len(log)), log[m].before) = At(log, m - 1)
<1> DEFINE old == At(log, m - 1)
           now == At(log, Len(log))
<1>1. m \in 1..Len(log) /\ m \in Nat \ {0} /\ m - 1 \in Nat
  BY LenType DEF Live
<1>2. now = Overwrite(old, log[m].after)
  BY <1>1, AtNext
<1>3. ASSUME NEW r \in RefNames
      PROVE  Overwrite(now, log[m].before)[r] = old[r]
  <2>1. log[m].before[r] = IF TouchesIn(log, m, r) THEN old[r] ELSE Same
    BY <1>1 DEF StackInv, CaptureOK
  <2>2. old[r] # Same
    BY <1>1, AtNotSame
  <2>3. ~TouchesIn(log, m, r) => now[r] = old[r]
    BY <1>2 DEF Overwrite, TouchesIn
  <2> HIDE DEF old, now
  <2> QED
    BY <2>1, <2>2, <2>3 DEF Overwrite, Listed
<1>4. old = [r \in RefNames |-> old[r]]
  BY DEF At
<1> QED
  BY <1>3, <1>4 DEF Overwrite

\* A record captures, before and after, the refs at its place in the log.
LEMMA CaptureStep ==
  ASSUME TypeOK, LogExplainsRefs, StackInv(log),
         NEW id, NEW type, NEW w \in Capture, Step(id, type, w)
  PROVE  \A i \in 1..Len(log') : CaptureOK(log', i)
<1> DEFINE n == Len(log)
<1>1. /\ Grows(log, log') /\ n \in Nat /\ Len(log') = n + 1
      /\ log'[n + 1].before = ReadCurrent(w) /\ log'[n + 1].after = w
  BY LenType DEF Step, Grows
<1>2. refs = At(log', n)
  <2>1. refs = At(log, n) /\ n \in 0..n
    BY <1>1, ExplainsIsAt
  <2> QED
    BY <1>1, <2>1, AtStable
<1>3. CaptureOK(log', n + 1)
  <2>1. \A r \in RefNames : TouchesIn(log', n + 1, r) <=> r \in Listed(w)
    BY <1>1 DEF TouchesIn
  <2>2. (n + 1) - 1 = n
    BY <1>1
  <2> HIDE DEF n
  <2> QED
    BY <1>1, <1>2, <2>1, <2>2 DEF CaptureOK, ReadCurrent
<1>4. ASSUME NEW i \in 1..n
      PROVE  CaptureOK(log', i)
  <2>1. log'[i] = log[i] /\ i - 1 \in 0..n
    BY <1>1 DEF Grows
  <2>2. At(log', i - 1) = At(log, i - 1)
    BY <1>1, <2>1, AtStable
  <2>3. CaptureOK(log, i)
    BY DEF StackInv
  <2> QED
    BY <2>1, <2>2, <2>3 DEF CaptureOK, TouchesIn
<1>5. \A i \in 1..n+1 : i \in 1..n \/ i = n + 1
  BY <1>1
<1> QED
  BY <1>1, <1>3, <1>4, <1>5

\* An operation that is not an undo goes on top of the live records.
LEMMA StackPush ==
  ASSUME TypeOK, LogExplainsRefs, StackInv(log),
         NEW id, NEW type, NEW w \in Capture, Step(id, type, w), type # "Undo"
  PROVE  /\ StackInv(log')
         /\ Live(log') = Live(log) \cup {Len(log) + 1}
<1> DEFINE n == Len(log)
<1>1. Grows(log, log') /\ n \in Nat /\ Len(log') = n + 1
  BY LenType DEF Step, Grows
<1>2. Live(log') = Live(log) \cup {n + 1}
  BY <1>1, LivePush DEF Step, UndoIn
<1>3. Live(log) \subseteq 1..n
  BY DEF Live
<1>4. \A k \in 0..n : H(log', k) = H(log, k)
  BY <1>1, HStable
<1>5. \A k \in 0..n+1 : H(log', k) >= 0
  <2>1. H(log', n + 1) = H(log', n) + 1
    BY <1>1, HNext DEF Step, UndoIn
  <2>2. n \in 0..n /\ H(log', n) \in Int
    BY <1>1, HFinite
  <2> QED
    BY <1>1, <1>4, <2>1, <2>2 DEF StackInv
<1>6. ASSUME NEW k \in Live(log) \cup {n + 1}
      PROVE  LinkOK(log', k)
  <2>1. LinkOK(log, k) /\ k \in 1..n+1
    BY <1>1, <1>3 DEF StackInv
  <2>2. \A i \in 1..k-1 : i \in Live(log') <=> i \in Live(log)
    BY <1>1, <1>2, <2>1
  <2> QED
    BY <1>1, <2>1, <2>2, LinkStable
<1>7. LinkOK(log', n + 2)
  <2>1. n + 1 \in Live(log') /\ (n + 2) - 1 = n + 1
    BY <1>1, <1>2
  <2>2. Prev(log', n + 1, n + 2)
    <3>1. \A i \in Live(log') : i <= n + 1
      BY <1>1, <1>2, <1>3
    <3> QED
      BY <1>1, <2>1, <3>1 DEF Prev
  <2> HIDE DEF n
  <2> QED
    BY <2>1, <2>2 DEF LinkOK
<1>8. \A i \in 1..Len(log') : CaptureOK(log', i)
  BY CaptureStep
<1>9. (n + 1) + 1 = n + 2
  BY <1>1
<1> QED
  BY <1>1, <1>2, <1>5, <1>6, <1>7, <1>8, <1>9 DEF StackInv

\* An undo takes the last live record off, and its refs with it.
LEMMA StackPop ==
  ASSUME TypeOK, LogExplainsRefs, StackInv(log),
         NEW id, NEW w \in Capture, Step(id, "Undo", w)
  PROVE  /\ StackInv(log')
         /\ PickOpToUndo \in Live(log)
         /\ \A i \in Live(log) : i <= PickOpToUndo
         /\ Live(log') = Live(log) \ {PickOpToUndo}
         /\ refs' = At(log, PickOpToUndo - 1)
<1> DEFINE n == Len(log)
           m == PickOpToUndo
<1>1. Grows(log, log') /\ n \in Nat /\ Len(log') = n + 1 /\ UndoIn(log', n + 1)
  BY LenType DEF Step, Grows, UndoIn
<1>2. w = log[m].before /\ m # 0
  BY UndoWritesType DEF Step
<1>3. /\ m \in Live(log)
      /\ \A i \in Live(log) : i <= m
      /\ H(log, m) = H(log, n)
      /\ At(log, m) = At(log, n)
  BY <1>2, PickIsTop
<1>4. Live(log) \subseteq 1..n /\ m \in 1..n /\ m - 1 \in 0..n
  BY <1>1, <1>3 DEF Live
<1> HIDE DEF m
<1>5. Live(log') = Live(log) \ {m}
  <2>1. Live(log') = {i \in Live(log) : H(log, i) < H(log, n)}
    BY <1>1, LivePop
  <2>2. \A i \in Live(log) : H(log, i) \in Int
    BY <1>4, HFinite
  <2>3. ASSUME NEW i \in Live(log), i # m
        PROVE  H(log, i) < H(log, m)
    <3>1. i < m
      BY <1>3, <1>4, <2>3
    <3> QED
      BY <1>3, <3>1, LiveRises DEF TypeOK
  <2> QED
    BY <1>3, <2>1, <2>2, <2>3
<1>6. refs' = At(log, m - 1)
  BY <1>2, <1>3, BeforeRestores, ExplainsIsAt DEF Step
<1>7. At(log', n + 1) = At(log, m - 1)
  <2>1. n + 1 \in Nat \ {0} /\ (n + 1) - 1 = n
    BY <1>1
  <2>2. At(log', n + 1) = Overwrite(At(log', n), w)
    BY <2>1, AtNext DEF Step
  <2>3. At(log', n) = At(log, n)
    BY <1>1, AtStable
  <2> QED
    BY <1>2, <1>3, <2>2, <2>3, BeforeRestores
<1>8. H(log', n + 1) = H(log, m - 1)
  <2>1. H(log', n + 1) = H(log, n) - 1
    BY <1>1, HNext, HStable
  <2>2. H(log, (m - 1) + 1) = H(log, m - 1) + 1
    BY <1>3, <1>4, HNext DEF Live
  <2>3. (m - 1) + 1 = m /\ H(log, m - 1) \in Int
    BY <1>4, HFinite
  <2> QED
    BY <1>3, <2>1, <2>2, <2>3
<1>9. \A k \in 0..n+1 : H(log', k) >= 0
  <2>1. H(log, m - 1) >= 0 /\ \A k \in 0..n : H(log', k) = H(log, k)
    BY <1>1, <1>4, HStable DEF StackInv
  <2> QED
    BY <1>1, <1>8, <2>1 DEF StackInv
<1>10. ASSUME NEW k \in Live(log) \ {m}
       PROVE  LinkOK(log', k)
  <2>1. LinkOK(log, k) /\ k \in 1..n+1 /\ k < m
    BY <1>1, <1>3, <1>4 DEF StackInv
  <2>2. \A i \in 1..k-1 : i \in Live(log') <=> i \in Live(log)
    BY <1>4, <1>5, <2>1
  <2> QED
    BY <1>1, <2>1, <2>2, LinkStable
<1>11. LinkOK(log', n + 2)
  <2>1. LinkOK(log', m)
    <3>1. LinkOK(log, m) /\ m \in 1..n+1
      BY <1>1, <1>3, <1>4 DEF StackInv
    <3>2. \A i \in 1..m-1 : i \in Live(log') <=> i \in Live(log)
      BY <1>4, <1>5
    <3> QED
      BY <1>1, <3>1, <3>2, LinkStable
  <2>2. (n + 2) - 1 = n + 1
    BY <1>1
  <2>3. \A i \in Live(log') : i < m /\ i < n + 2
    BY <1>1, <1>3, <1>4, <1>5
  <2>4. H(log', m - 1) = H(log, m - 1) /\ At(log', m - 1) = At(log, m - 1)
    BY <1>1, <1>4, HStable, AtStable
  <2>5. \A i \in Live(log') : Prev(log', i, m) => Prev(log', i, n + 2)
    BY <2>3 DEF Prev
  <2> HIDE DEF n
  <2> QED
    BY <1>7, <1>8, <2>1, <2>2, <2>3, <2>4, <2>5 DEF LinkOK
<1>12. \A i \in 1..Len(log') : CaptureOK(log', i)
  BY CaptureStep
<1>13. (n + 1) + 1 = n + 2
  BY <1>1
<1>14. StackInv(log')
  BY <1>1, <1>5, <1>9, <1>10, <1>11, <1>12, <1>13 DEF StackInv
<1> QED
  BY <1>3, <1>5, <1>6, <1>14 DEF m

----------------------------------------------------------------------------
(* Refinement *)

IInv == TypeInv /\ LogExplainsRefs /\ StackInv(log)

\* The stack's contents, before and after a step, in terms of At.
Saved(lg) == [i \in Live(lg) |-> At(lg, i - 1)]

\* The stack's contents are Saved of the log, before and after a step.
LEMMA SavedIs ==
  /\ [i \in LiveOps |-> RefsAt(i - 1)] = Saved(log)
  /\ [i \in LiveOps |-> RefsAt(i - 1)]' = Saved(log')
<1>1. ASSUME NEW k
      PROVE  RefsAt(k) = At(log, k) /\ RefsAt(k)' = At(log', k)
  BY AtIsRefsAt
<1>2. LiveOps = Live(log) /\ LiveOps' = Live(log')
  BY HeightIsH
<1> QED
  BY <1>1, <1>2 DEF Saved

\* What the stack holds for a live record stays as it is.
LEMMA SavedKept ==
  ASSUME Grows(log, log'), NEW i \in Live(log)
  PROVE  At(log', i - 1) = At(log, i - 1)
<1>1. i - 1 \in 0..Len(log)
  BY DEF Grows, Live
<1> QED
  BY <1>1, AtStable

\* The strengthened invariant holds of an empty repository.
LEMMA IInvInit ==
  ASSUME Init
  PROVE  IInv
<1>1. Len(log) = 0 /\ refs = Start
  BY DEF Init, Start
<1>2. Live(log) = {}
  BY <1>1 DEF Live
<1>3. StackInv(log)
  <2>1. LinkOK(log, 1)
    BY <1>2, AtZero, HZero DEF LinkOK
  <2>2. H(log, 0) >= 0 /\ 0..0 = {0} /\ 1..0 = {} /\ 0 + 1 = 1
    BY HZero
  <2> QED
    BY <1>1, <1>2, <2>1, <2>2 DEF StackInv
<1>4. LogExplainsRefs
  BY <1>1, ExplainsIsAt, AtZero
<1> QED
  BY <1>3, <1>4, TypeInvInit DEF IInv

\* Every step of the repository is a step of the stack, or leaves it alone.
LEMMA StackStep ==
  ASSUME IInv, [Next]_vars
  PROVE  /\ IInv'
         /\ [Stack!Next]_<<refs, [i \in LiveOps |-> RefsAt(i - 1)]>>
<1> DEFINE n == Len(log)
<1>1. CASE UNCHANGED <<refs, log>>
  <2>1. StackInv(log') /\ Saved(log') = Saved(log)
    BY <1>1 DEF IInv
  <2>2. UNCHANGED <<refs, [i \in LiveOps |-> RefsAt(i - 1)]>>
    BY <1>1, <2>1, SavedIs
  <2> QED
    BY <2>1, <2>2, TypeInvStep, ReplayStep DEF IInv
<1>2. CASE Appends
  <2>1. PICK id \in Nat, type \in OpTypes, w \in Capture : Step(id, type, w)
    BY <1>2, AppendsStep DEF IInv, TypeInv
  <2>2. TypeOK /\ LogExplainsRefs /\ StackInv(log)
    BY DEF IInv, TypeInv
  <2>3. Grows(log, log') /\ n \in Nat /\ Len(log') = n + 1 /\ n + 1 \in 1..MaxOps
    BY <2>1, <2>2, LenType DEF Step, Grows
  <2>4. Live(log) \subseteq 1..n
    BY DEF Live
  <2>5. CASE type # "Undo"
    <3>1. StackInv(log') /\ Live(log') = Live(log) \cup {n + 1}
      BY <2>1, <2>2, <2>5, StackPush
    <3>2. At(log', (n + 1) - 1) = refs
      <4>1. At(log', n) = At(log, n) /\ (n + 1) - 1 = n
        BY <2>3, AtStable
      <4> QED
        BY <2>2, <4>1, ExplainsIsAt
    <3>3. Saved(log') = [u \in DOMAIN Saved(log) \cup {n + 1} |->
                           IF u = n + 1 THEN refs ELSE Saved(log)[u]]
      BY <2>3, <3>1, <3>2, SavedKept DEF Saved
    <3>4. \A u \in DOMAIN Saved(log) : u < n + 1
      BY <2>3, <2>4 DEF Saved
    <3>5. refs' \in RefStates
      BY TypeInvStep DEF IInv, TypeInv, TypeOK
    <3>6. Stack!Do(n + 1)
      BY <3>3, <3>4, <3>5, SavedIs DEF Stack!Do
    <3> QED
      BY <2>3, <3>1, <3>6, TypeInvStep, ReplayStep DEF IInv, Stack!Next
  <2>6. CASE type = "Undo"
    <3> DEFINE m == PickOpToUndo
    <3>1. /\ StackInv(log')
          /\ m \in Live(log)
          /\ \A i \in Live(log) : i <= m
          /\ Live(log') = Live(log) \ {m}
          /\ refs' = At(log, m - 1)
      BY <2>1, <2>2, <2>6, StackPop
    <3> HIDE DEF m
    <3>2. Saved(log') = [u \in DOMAIN Saved(log) \ {m} |-> Saved(log)[u]]
      BY <2>3, <3>1, SavedKept DEF Saved
    <3>3. refs' = Saved(log)[m] /\ m \in DOMAIN Saved(log)
      BY <3>1 DEF Saved
    <3>4. \A u \in DOMAIN Saved(log) : u <= m
      BY <3>1 DEF Saved
    <3>5. Stack!Undo(m)
      BY <3>2, <3>3, <3>4, SavedIs DEF Stack!Undo, Stack!Top
    <3>6. m \in 1..MaxOps
      BY <2>3, <2>4, <3>1, BoundsNat
    <3> QED
      BY <3>1, <3>5, <3>6, TypeInvStep, ReplayStep DEF IInv, Stack!Next
  <2> QED
    BY <2>5, <2>6
<1> QED
  BY <1>1, <1>2, StepAppends DEF IInv

\* Typing, replay, and the links between one live record and the next hold
\* forever: the strengthening on which the undo stack rests (oplog.rs undo_once).
THEOREM IInvariant == Spec => []IInv
BY IInvInit, StackStep, PTL DEF Spec

\* `tig undo` is a stack: it takes back the last operation not undone yet, and
\* restores all the refs to what they were before it, whatever mix of
\* commands, watchers and daemons wrote the log (oplog.rs undo_once).
THEOREM UndoIsStack == Spec => UndoRewinds
<1>1. Init => Stack!Init
  <2> SUFFICES ASSUME Init PROVE Stack!Init
    OBVIOUS
  <2>1. refs = [r \in RefNames |-> None] /\ LiveOps = {}
    BY DEF Init, LiveOps
  <2> QED
    BY <2>1 DEF Stack!Init
<1>2. IInv /\ [Next]_vars
        => [Stack!Next]_<<refs, [i \in LiveOps |-> RefsAt(i - 1)]>>
  BY StackStep
<1> QED
  BY <1>1, <1>2, IInvariant, PTL DEF Spec, UndoRewinds, Stack!Spec

----------------------------------------------------------------------------
(* What the commands write                                                  *)

\* A command that is no undo puts a record in each change ref it writes, and the
\* record keeps the change's history, and its tip is in it (if it was, where the
\* command is no snap); it leaves HEAD where it is or moves it to a change it
\* puts, with an id no record mentions.
Forward(type, w) ==
  /\ \A c \in Changes \cap Listed(w) :
       /\ w[c] # None
       /\ refs[c] # None => refs[c].history \subseteq w[c].history
       /\ (type = "Snap" \/ refs[c] = None \/ refs[c].current \in refs[c].history)
            => w[c].current \in w[c].history
  /\ Main \in Listed(w) =>
       w[Main] = refs[Main] \/ (w[Main] \in Changes \cap Listed(w) /\ FreshId(w[Main]))

\* A capture of two refs, ref by ref.
LEMMA TwoIs ==
  ASSUME NEW r \in RefNames, NEW v, v # Same, NEW s \in RefNames, NEW x, x # Same, NEW y \in RefNames
  PROVE  /\ Two(r, v, s, x)[y] = IF y = r THEN v ELSE IF y = s THEN x ELSE Same
         /\ y \in Listed(Two(r, v, s, x)) <=> y = r \/ y = s
BY DEF Two, Listed

\* And of one.
LEMMA OneIs ==
  ASSUME NEW r \in RefNames, NEW v, v # Same, NEW y \in RefNames
  PROVE  /\ One(r, v)[y] = IF y = r THEN v ELSE Same
         /\ y \in Listed(One(r, v)) <=> y = r
BY DEF One, Listed

\* A new change begins its history with its snapshot, and Change::advance adds one.
LEMMA ChangeHistory ==
  /\ \A s \in Nat, st \in Status :
       /\ NewChange(s, st) \in ChangeVal
       /\ NewChange(s, st).current \in NewChange(s, st).history
  /\ \A c \in ChangeVal, s \in Nat :
       /\ Advance(c, s) \in ChangeVal
       /\ Advance(c, s).current \in Advance(c, s).history
       /\ c.history \subseteq Advance(c, s).history
  /\ \A c \in ChangeVal, st \in Status :
       /\ [c EXCEPT !.status = st] \in ChangeVal
       /\ [c EXCEPT !.status = st].history = c.history
       /\ [c EXCEPT !.status = st].current = c.current
BY DEF NewChange, Advance, ChangeVal

\* A record is neither absence nor the mark of a ref not listed.
LEMMA RecordIsThere == \A v \in ChangeVal : v # None /\ v # Same
BY MarksAreNoRecords

\* `tig snap` and the watcher's snap go forward.
LEMMA SnapForward ==
  ASSUME TypeOK, NEW p \in Clients, ctx[p] # None, NEW w \in SnapWrites(ctx[p])
  PROVE  Forward("Snap", w)
<1> DEFINE cur == CurrentChange(ctx[p])
           ws == ctx[p].ws
<1>1. cur \in {None} \cup Changes /\ ws \in RefNames /\ ws \in Workspaces /\ nsnap + 1 \in Nat
  BY ContextType DEF TypeOK
<1>2. CASE cur = None
  <2>1. PICK id \in Changes : FreshId(id) /\ w = Two(id, NewChange(nsnap + 1, Working), Main, id)
    BY <1>2 DEF SnapWrites
  <2> DEFINE v == NewChange(nsnap + 1, Working)
  <2>2. v \in ChangeVal /\ v.current \in v.history /\ v # None /\ v # Same
    BY <1>1, ChangeHistory, RecordIsThere, StatusesKnown
  <2>3. id \in RefNames /\ Main \in RefNames /\ id # Same /\ id # Main
    BY DEF RefNames, Workspaces
  <2>4. refs[id] = None
    BY <2>1 DEF FreshId
  <2> HIDE DEF v
  <2>5. \A y \in RefNames : /\ w[y] = IF y = id THEN v ELSE IF y = Main THEN id ELSE Same
                            /\ y \in Listed(w) <=> y = id \/ y = Main
    BY <2>1, <2>2, <2>3, TwoIs DEF v
  <2>6. \A c \in Changes \cap Listed(w) : c = id
    BY <2>5 DEF RefNames
  <2> QED
    BY <2>1, <2>2, <2>3, <2>4, <2>5, <2>6 DEF Forward
<1>3. CASE cur # None
  <2> DEFINE v == Advance(refs[cur], nsnap + 1)
  <2>1. /\ cur \in Changes /\ cur \in RefNames /\ refs[cur] # None
        /\ w = Two(cur, v, ws, refs[ws])
    BY <1>1, <1>3 DEF SnapWrites, RefNames
  <2>2. refs[cur] \in ChangeVal
    BY <2>1, RefValues
  <2>3. v \in ChangeVal /\ v.current \in v.history /\ refs[cur].history \subseteq v.history
        /\ v # None /\ v # Same
    BY <1>1, <2>2, ChangeHistory, RecordIsThere
  <2>4. refs[ws] # Same /\ ws # cur /\ ws \notin Changes
    BY <1>1, <2>1, NoneIsNoRef DEF TypeOK, RefStates, Workspaces
  <2> HIDE DEF v, cur, ws
  <2>5. \A y \in RefNames : /\ w[y] = IF y = cur THEN v ELSE IF y = ws THEN refs[ws] ELSE Same
                            /\ y \in Listed(w) <=> y = cur \/ y = ws
    BY <1>1, <2>1, <2>3, <2>4, TwoIs
  <2>6. \A c \in Changes \cap Listed(w) : c = cur
    BY <2>4, <2>5 DEF RefNames
  <2>7. Main \in RefNames /\ Main # cur
    BY <2>1 DEF RefNames, Workspaces
  <2> QED
    BY <2>1, <2>3, <2>5, <2>6, <2>7 DEF Forward
<1> QED
  BY <1>2, <1>3

\* A capture of one change ref that keeps its history goes forward.
LEMMA OneForward ==
  ASSUME NEW type, NEW c \in Changes, NEW v \in ChangeVal,
         refs[c] # None => refs[c].history \subseteq v.history,
         (type = "Snap" \/ refs[c] = None \/ refs[c].current \in refs[c].history)
           => v.current \in v.history
  PROVE  Forward(type, One(c, v))
<1>1. c \in RefNames /\ Main \in RefNames /\ Main # c /\ v # None /\ v # Same
  BY RecordIsThere DEF RefNames, Workspaces
<1>2. \A y \in RefNames : /\ One(c, v)[y] = IF y = c THEN v ELSE Same
                          /\ y \in Listed(One(c, v)) <=> y = c
  BY <1>1, OneIs
<1>3. \A x \in Changes \cap Listed(One(c, v)) : x = c
  BY <1>2 DEF RefNames
<1> QED
  BY <1>1, <1>2, <1>3 DEF Forward

\* So does `tig seal`, which advances the current change,
LEMMA SealForward ==
  ASSUME TypeOK, NEW p \in Clients, ctx[p] # None, NEW w \in SealWrites(ctx[p])
  PROVE  Forward("Snap", w)
<1> DEFINE cur == CurrentChange(ctx[p])
           v == Advance(refs[cur], nsnap + 1)
<1>1. cur \in Changes /\ cur \in RefNames /\ refs[cur] # None /\ w = One(cur, v) /\ nsnap + 1 \in Nat
  BY ContextType DEF SealWrites, RefNames, TypeOK
<1>2. refs[cur] \in ChangeVal
  BY <1>1, RefValues
<1>3. v \in ChangeVal /\ v.current \in v.history /\ refs[cur].history \subseteq v.history
  BY <1>1, <1>2, ChangeHistory
<1> HIDE DEF cur, v
<1> QED
  BY <1>1, <1>3, OneForward

\* `tig change new` and `tig draft`, which put a change and move the workspace to it,
LEMMA ChangeNewForward ==
  ASSUME TypeOK, NEW p \in Clients, ctx[p] # None, NEW w \in ChangeNewWrites(ctx[p])
  PROVE  Forward("ChangeNew", w)
<1> DEFINE cur == CurrentChange(ctx[p])
           ws == ctx[p].ws
<1>1. cur \in {None} \cup Changes /\ ws \in Workspaces /\ ws \in RefNames
  BY ContextType
<1>2. cur # None => refs[cur] # None
  BY DEF ChangeNewWrites
<1>3. PICK id \in Changes, st \in {Working, Draft} :
        FreshId(id) /\ w = Two(id, NewChange(StartSnap(cur), st), ws, id)
  BY DEF ChangeNewWrites
<1> DEFINE v == NewChange(StartSnap(cur), st)
<1>4. v \in ChangeVal /\ v # None /\ v # Same /\ v.current \in v.history
  BY <1>1, <1>2, StartSnapType, ChangeHistory, RecordIsThere, StatusesKnown
<1>5. id \in RefNames /\ Main \in RefNames /\ id # Same /\ id # Main /\ id # ws /\ ws \notin Changes
  BY <1>1 DEF RefNames, Workspaces
<1>6. refs[id] = None
  BY <1>3 DEF FreshId
<1>7. \A y \in RefNames : /\ w[y] = IF y = id THEN v ELSE IF y = ws THEN id ELSE Same
                          /\ y \in Listed(w) <=> y = id \/ y = ws
  <2> HIDE DEF v, cur, ws
  <2> QED
    BY <1>1, <1>3, <1>4, <1>5, TwoIs DEF v
<1> HIDE DEF v, cur, ws
<1>8. \A c \in Changes \cap Listed(w) : c = id
  BY <1>5, <1>7 DEF RefNames
<1> QED
  BY <1>3, <1>4, <1>5, <1>6, <1>7, <1>8 DEF Forward

\* `tig change set-*`, which writes no history,
LEMMA TransitionForward ==
  ASSUME TypeOK, NEW w \in TransitionWrites
  PROVE  Forward("ChangeTransition", w)
<1>1. PICK id \in Changes, st \in Status :
        refs[id] # None /\ w = One(id, [refs[id] EXCEPT !.status = st])
  BY Z3 DEF TransitionWrites
<1>2. refs[id] \in ChangeVal
  BY <1>1, RefValues DEF RefNames
<1>3. /\ [refs[id] EXCEPT !.status = st] \in ChangeVal
      /\ [refs[id] EXCEPT !.status = st].history = refs[id].history
      /\ [refs[id] EXCEPT !.status = st].current = refs[id].current
  BY <1>2, ChangeHistory
<1> QED
  BY <1>1, <1>3, OneForward

\* and `tig wt make` and `tig wt drop`, which write no change ref and not HEAD.
LEMMA WtForward ==
  ASSUME TypeOK, NEW p \in Clients, ctx[p] # None, NEW type \in {"WtMake", "WtDrop"},
         NEW w \in WtMakeWrites(ctx[p]) \cup WtDropWrites(ctx[p])
  PROVE  Forward(type, w)
<1>1. PICK k \in Secondary, v \in {None} \cup Changes : v # Same /\ w = One(k, v)
  <2>1. CurrentChange(ctx[p]) \in {None} \cup Changes
    BY ContextType
  <2>2. \A v \in {None} \cup Changes : v # Same
    BY DEF RefNames, Workspaces
  <2>3. \E k \in Secondary : w = One(k, CurrentChange(ctx[p])) \/ w = One(k, None)
    BY DEF WtMakeWrites, WtDropWrites
  <2> QED
    BY <2>1, <2>2, <2>3
<1>2. \A y \in RefNames : y \in Listed(w) <=> y = k
  BY <1>1, OneIs DEF RefNames, Workspaces
<1> QED
  BY <1>2 DEF Forward, RefNames, Workspaces

----------------------------------------------------------------------------
(* Steps                                                                    *)

\* What a step appends: an undo of the op it names, or something that goes forward.
Kind(type, undone, w) ==
  \/ type = "Undo" /\ w \in UndoWrites /\ undone = log[PickOpToUndo].id
  \/ type # "Undo" /\ undone = None /\ Forward(type, w)

Records ==
  \E id \in Nat, type \in OpTypes, undone \in Nat \cup {None}, w \in Capture :
    Commit(id, type, undone, w) /\ Kind(type, undone, w)

\* The op an undo names has an id, and what it captured is a capture.
LEMMA UndoKind ==
  ASSUME TypeOK, NEW w \in UndoWrites
  PROVE  /\ w \in Capture /\ log[PickOpToUndo].id \in Nat
         /\ Kind("Undo", log[PickOpToUndo].id, w)
BY UndoWritesType, PickIsLast, LogEntry DEF Kind

\* A step on refs and log is the commit of one command of a known kind.
LEMMA StepRecords ==
  ASSUME TypeInv, [Next]_vars
  PROVE  Records \/ UNCHANGED <<refs, log>>
<1> USE DEF TypeInv
<1>1. ASSUME NEW p \in Clients, NEW w \in Workspaces, Discover(p, w)
      PROVE  UNCHANGED <<refs, log>>
  BY <1>1 DEF Discover
<1>2. ASSUME NEW p \in Clients, Exit(p)
      PROVE  UNCHANGED <<refs, log>>
  BY <1>2 DEF Exit
<1>3. ASSUME NEW p \in Procs, CliStep(p)
      PROVE  Records
  <2>1. p \in Clients /\ NextId \in Nat /\ ctx[p] # None
    BY <1>3, NextIdNat
    DEF Clients, CliStep, Snap, Seal, ChangeNew, ChangeTransition, WtMake, WtDrop, Undo
  <2>2. CASE Snap(p)
    <3>1. PICK w \in SnapWrites(ctx[p]) : Commit(NextId, "Snap", None, w)
      BY <2>2 DEF Snap, CliCommit
    <3>2. w \in Capture /\ Kind("Snap", None, w)
      BY <2>1, SnapWritesType, SnapForward DEF Kind
    <3> QED
      BY <2>1, <3>1, <3>2 DEF Records, OpTypes
  <2>3. CASE ChangeNew(p)
    <3>1. PICK w \in ChangeNewWrites(ctx[p]) : Commit(NextId, "ChangeNew", None, w)
      BY <2>3 DEF ChangeNew, CliCommit
    <3>2. w \in Capture /\ Kind("ChangeNew", None, w)
      BY <2>1, ChangeNewWritesType, ChangeNewForward DEF Kind
    <3> QED
      BY <2>1, <3>1, <3>2 DEF Records, OpTypes
  <2>4. CASE ChangeTransition(p)
    <3>1. PICK w \in TransitionWrites : Commit(NextId, "ChangeTransition", None, w)
      BY <2>4 DEF ChangeTransition, CliCommit
    <3>2. w \in Capture /\ Kind("ChangeTransition", None, w)
      BY TransitionWritesType, TransitionForward DEF Kind
    <3> QED
      BY <2>1, <3>1, <3>2 DEF Records, OpTypes
  <2>5. CASE WtMake(p)
    <3>1. PICK w \in WtMakeWrites(ctx[p]) : Commit(NextId, "WtMake", None, w)
      BY <2>5 DEF WtMake, CliCommit
    <3>2. w \in Capture /\ Kind("WtMake", None, w)
      BY <2>1, WtWritesType, WtForward DEF Kind
    <3> QED
      BY <2>1, <3>1, <3>2 DEF Records, OpTypes
  <2>6. CASE WtDrop(p)
    <3>1. PICK w \in WtDropWrites(ctx[p]) : Commit(NextId, "WtDrop", None, w)
      BY <2>6 DEF WtDrop, CliCommit
    <3>2. w \in Capture /\ Kind("WtDrop", None, w)
      BY <2>1, WtWritesType, WtForward DEF Kind
    <3> QED
      BY <2>1, <3>1, <3>2 DEF Records, OpTypes
  <2>7. CASE Undo(p)
    <3>1. PICK w \in UndoWrites : Commit(NextId, "Undo", log[PickOpToUndo].id, w)
      BY <2>7 DEF Undo, CliCommit
    <3> QED
      BY <2>1, <3>1, UndoKind DEF Records, OpTypes
  <2>8. CASE Seal(p)
    <3>1. PICK w \in SealWrites(ctx[p]) : Commit(NextId, "Snap", None, w)
      BY <2>8 DEF Seal, CliCommit
    <3>2. w \in Capture /\ Kind("Snap", None, w)
      BY <2>1, SealWritesType, SealForward DEF Kind
    <3> QED
      BY <2>1, <3>1, <3>2 DEF Records, OpTypes
  <2> QED
    BY <1>3, <2>2, <2>3, <2>4, <2>5, <2>6, <2>7, <2>8 DEF CliStep
<1>4. ASSUME NEW p \in Watchers, WatchSnap(p)
      PROVE  Records
  <2>1. p \in Clients /\ ctx[p] # None
    BY <1>4 DEF WatchSnap, Clients
  <2>2. next[p] \in Nat
    BY <2>1 DEF TypeOK, WatchersCount, Handles
  <2>3. PICK w \in SnapWrites(ctx[p]) : Commit(next[p], "Snap", None, w)
    BY <1>4 DEF WatchSnap, HandleCommit
  <2>4. w \in Capture /\ Kind("Snap", None, w)
    BY <2>1, SnapWritesType, SnapForward DEF Kind
  <2> QED
    BY <2>2, <2>3, <2>4 DEF Records, OpTypes
<1>5. ASSUME NEW d \in Daemons, TigdStep(d)
      PROVE  Records \/ UNCHANGED <<refs, log>>
  <2>1. next[d] # None => next[d] \in Nat
    BY DEF TypeOK, Handles
  <2>2. CASE TigdStart(d) \/ TigdStop(d)
    BY <2>2 DEF TigdStart, TigdStop
  <2>3. CASE TigdCreate(d)
    <3>1. PICK parent \in {None} \cup {x \in Changes : refs[x] # None},
               id \in {x \in Changes : FreshId(x)}, st \in Status :
                 Commit(next[d], "ChangeNew", None, One(id, NewChange(StartSnap(parent), st)))
      BY <2>3 DEF TigdCreate, HandleCommit
    <3> DEFINE v == NewChange(StartSnap(parent), st)
    <3>2. v \in ChangeVal /\ refs[id] = None /\ v.current \in v.history
      BY StartSnapType, ChangeHistory DEF FreshId
    <3>3. One(id, v) \in Capture
      BY TigdWritesType
    <3> HIDE DEF v
    <3>4. Kind("ChangeNew", None, One(id, v))
      BY <3>2, OneForward DEF Kind
    <3> QED
      BY <2>1, <2>3, <3>1, <3>3, <3>4 DEF TigdCreate, Records, OpTypes, v
  <2>4. CASE TigdSnap(d)
    <3>1. PICK c \in Changes :
            /\ refs[c] # None
            /\ Commit(next[d], "Snap", None, One(c, Advance(refs[c], nsnap + 1)))
      BY <2>4 DEF TigdSnap, HandleCommit
    <3> DEFINE v == Advance(refs[c], nsnap + 1)
    <3>2. v \in ChangeVal /\ v.current \in v.history /\ refs[c].history \subseteq v.history
      BY <3>1, RefValues, ChangeHistory DEF RefNames, TypeOK
    <3>3. One(c, v) \in Capture
      BY <3>1, TigdWritesType
    <3> HIDE DEF v
    <3>4. Kind("Snap", None, One(c, v))
      BY <3>2, OneForward DEF Kind
    <3> QED
      BY <2>1, <2>4, <3>1, <3>3, <3>4 DEF TigdSnap, Records, OpTypes, v
  <2>5. CASE TigdTransition(d)
    <3>1. PICK w \in TransitionWrites : Commit(next[d], "ChangeTransition", None, w)
      BY <2>5 DEF TigdTransition, HandleCommit
    <3>2. w \in Capture /\ Kind("ChangeTransition", None, w)
      BY TransitionWritesType, TransitionForward DEF Kind
    <3> QED
      BY <2>1, <2>5, <3>1, <3>2 DEF TigdTransition, Records, OpTypes
  <2>6. CASE TigdUndo(d)
    <3>1. PICK w \in UndoWrites : Commit(next[d], "Undo", log[PickOpToUndo].id, w)
      BY <2>6 DEF TigdUndo, HandleCommit
    <3> QED
      BY <2>1, <2>6, <3>1, UndoKind DEF TigdUndo, Records, OpTypes
  <2> QED
    BY <1>5, <2>2, <2>3, <2>4, <2>5, <2>6 DEF TigdStep
<1>6. CASE UNCHANGED vars
  BY <1>6 DEF vars
<1> QED
  BY <1>1, <1>2, <1>3, <1>4, <1>5, <1>6 DEF Next

\* What such a commit does to refs and log, with what its record says.
LEMMA RecordsStep ==
  ASSUME TypeOK, Records
  PROVE  \E id \in Nat, type \in OpTypes, undone \in Nat \cup {None}, w \in Capture :
           /\ Step(id, type, w) /\ Kind(type, undone, w)
           /\ log'[Len(log) + 1].undone = undone
<1>1. PICK id \in Nat, type \in OpTypes, undone \in Nat \cup {None}, w \in Capture :
        Commit(id, type, undone, w) /\ Kind(type, undone, w)
  BY DEF Records
<1> DEFINE op == [id |-> id, type |-> type, undone |-> undone,
                  before |-> ReadCurrent(w), after |-> w]
<1>2. log' = Append(log, op)
  BY <1>1 DEF Commit
<1>3. op \in Op
  BY ReadCurrentType DEF Op
<1>4. log'[Len(log) + 1] = op
  <2> HIDE DEF op
  <2> QED
    BY <1>2, <1>3, AppendProperties DEF TypeOK
<1>5. Step(id, type, w)
  BY <1>1, CommitEffect DEF Step, Grows, TypeOK, Kind
<1>6. log'[Len(log) + 1].undone = undone
  BY <1>4
<1> HIDE DEF op
<1> QED
  BY <1>1, <1>5, <1>6

----------------------------------------------------------------------------
(* No snapshot is lost                                                      *)

\* The snapshots of the live records before k are in the refs s.
Keeps(lg, s, k) ==
  \A i \in Live(lg) : i < k /\ lg[i].type = "Snap" =>
    \A c \in Changes \cap Listed(lg[i].after) :
      s[c] # None /\ lg[i].after[c].current \in s[c].history

\* They are in the refs of each moment that an undo may bring back, and in today's.
KeptInv(lg) == \A k \in Live(lg) \cup {Len(lg) + 1} : Keeps(lg, At(lg, k - 1), k)

\* NoSnapLost is the last case of KeptInv.
LEMMA KeptIsNoSnapLost ==
  ASSUME TypeOK, LogExplainsRefs, KeptInv(log)
  PROVE  NoSnapLost
<1> DEFINE n == Len(log)
<1>1. n \in Nat /\ (n + 1) - 1 = n
  BY LenType
<1>2. Keeps(log, At(log, n), n + 1)
  BY <1>1 DEF KeptInv
<1>3. \A i \in Live(log) : i < n + 1
  BY <1>1 DEF Live
<1> QED
  BY <1>2, <1>3, ExplainsIsAt, HeightIsH DEF Keeps, NoSnapLost

\* What the refs held at a moment that is still on the stack stays true of the
\* live records that precede it.
LEMMA KeepsStable ==
  ASSUME Grows(log, log'), NEW k \in 1..Len(log)+1, Keeps(log, At(log, k - 1), k),
         \A i \in Live(log') : i < k => i \in Live(log)
  PROVE  Keeps(log', At(log', k - 1), k)
<1>1. At(log', k - 1) = At(log, k - 1)
  <2>1. k - 1 \in 0..Len(log)
    BY DEF Grows
  <2> QED
    BY <2>1, AtStable
<1>2. \A i \in Live(log) : log'[i] = log[i]
  BY DEF Grows, Live
<1> QED
  BY <1>1, <1>2 DEF Keeps

\* An operation that goes forward keeps what there was and adds its own snapshot;
\* an undo brings back refs that had all the snapshots still live.
LEMMA KeptStep ==
  ASSUME IInv, KeptInv(log), [Next]_vars
  PROVE  KeptInv(log')
<1> DEFINE n == Len(log)
<1>1. CASE UNCHANGED <<refs, log>>
  BY <1>1
<1>2. CASE Records
  <2>1. PICK id \in Nat, type \in OpTypes, undone \in Nat \cup {None}, w \in Capture :
           Step(id, type, w) /\ Kind(type, undone, w)
    BY <1>2, RecordsStep DEF IInv, TypeInv
  <2>2. TypeOK /\ LogExplainsRefs /\ StackInv(log) /\ LogExplainsRefs'
    BY ReplayStep DEF IInv, TypeInv
  <2>3. Grows(log, log') /\ n \in Nat /\ Len(log') = n + 1 /\ Live(log) \subseteq 1..n
    BY <2>1, <2>2, LenType DEF Step, Grows, Live
  <2>4. At(log', n + 1) = refs' /\ (n + 2) - 1 = n + 1 /\ (n + 1) + 1 = n + 2 /\ (n + 1) - 1 = n
    BY <2>2, <2>3, ExplainsIsAt
  <2>5. CASE type # "Undo"
    <3>1. Live(log') = Live(log) \cup {n + 1}
      BY <2>1, <2>2, <2>5, StackPush
    <3>2. ASSUME NEW k \in Live(log) \cup {n + 1}
          PROVE  Keeps(log', At(log', k - 1), k)
      <4>1. k \in 1..n+1 /\ Keeps(log, At(log, k - 1), k)
        BY <2>3 DEF KeptInv
      <4>2. \A i \in Live(log') : i < k => i \in Live(log)
        BY <2>3, <3>1, <4>1
      <4> QED
        BY <2>3, <4>1, <4>2, KeepsStable
    <3>3. Keeps(log', refs', n + 2)
      <4> SUFFICES ASSUME NEW i \in Live(log'), log'[i].type = "Snap",
                          NEW c \in Changes \cap Listed(log'[i].after)
                   PROVE  refs'[c] # None /\ log'[i].after[c].current \in refs'[c].history
        BY DEF Keeps
      <4>1. refs'[c] = IF c \in Listed(w) THEN w[c] ELSE refs[c]
        BY <2>1 DEF Step, Overwrite, RefNames
      <4>2. Forward(type, w)
        BY <2>1, <2>5 DEF Kind
      <4>3. CASE i = n + 1
        <5>1. log'[i].type = type /\ log'[i].after = w
          BY <2>1, <4>3 DEF Step
        <5> QED
          BY <4>1, <4>2, <5>1 DEF Forward
      <4>4. CASE i \in Live(log)
        <5>1. log'[i] = log[i] /\ i < n + 1
          BY <2>3, <4>4 DEF Grows
        <5>2. refs = At(log, n)
          BY <2>2, ExplainsIsAt
        <5>3. Keeps(log, refs, n + 1)
          BY <2>4, <5>2 DEF KeptInv
        <5>4. refs[c] # None /\ log'[i].after[c].current \in refs[c].history
          BY <4>4, <5>1, <5>3 DEF Keeps
        <5> QED
          BY <4>1, <4>2, <5>4 DEF Forward
      <4> QED
        BY <3>1, <4>3, <4>4
    <3> QED
      BY <2>3, <2>4, <3>1, <3>2, <3>3 DEF KeptInv
  <2>6. CASE type = "Undo"
    <3> DEFINE m == PickOpToUndo
    <3>1. /\ m \in Live(log)
          /\ \A i \in Live(log) : i <= m
          /\ Live(log') = Live(log) \ {m}
          /\ refs' = At(log, m - 1)
      BY <2>1, <2>2, <2>6, StackPop
    <3> HIDE DEF m
    <3>2. ASSUME NEW k \in Live(log)
          PROVE  Keeps(log', At(log', k - 1), k)
      <4>1. k \in 1..n+1 /\ Keeps(log, At(log, k - 1), k)
        BY <2>3 DEF KeptInv
      <4> QED
        BY <2>3, <3>1, <4>1, KeepsStable
    <3>3. Keeps(log', refs', n + 2)
      <4>1. m \in 1..n /\ m - 1 \in 0..n
        BY <2>3, <3>1
      <4>2. At(log', m - 1) = At(log, m - 1)
        BY <2>3, <4>1, AtStable
      <4>3. \A i \in Live(log') : i < m
        BY <2>3, <3>1, <4>1
      <4> QED
        BY <3>1, <3>2, <4>2, <4>3 DEF Keeps
    <3> QED
      BY <2>3, <2>4, <3>1, <3>2, <3>3 DEF KeptInv
  <2> QED
    BY <2>5, <2>6
<1> QED
  BY <1>1, <1>2, StepRecords DEF IInv

\* A snapshot once taken is in its change's history until it is undone, whatever
\* other commands, watchers and daemons did to the change before and after
\* (Change::advance and undo_once).
THEOREM SnapsKept == Spec => []NoSnapLost
<1>1. Init => KeptInv(log)
  <2> SUFFICES ASSUME Init PROVE KeptInv(log)
    OBVIOUS
  <2>1. Live(log) = {}
    BY DEF Init, Live
  <2> QED
    BY <2>1 DEF KeptInv, Keeps
<1>2. IInv /\ KeptInv(log) /\ [Next]_vars => KeptInv(log)'
  BY KeptStep
<1>3. IInv /\ KeptInv(log) => NoSnapLost
  BY KeptIsNoSnapLost DEF IInv, TypeInv
<1> QED
  BY <1>1, <1>2, <1>3, IInvariant, PTL DEF Spec

----------------------------------------------------------------------------
(* What an undo brings back                                                 *)

\* t has every change that s has, with all of its snapshots.
Above(s, t) ==
  \A c \in Changes : s[c] # None => t[c] # None /\ s[c].history \subseteq t[c].history
TipsIn(s) == \A c \in Changes : s[c] # None => s[c].current \in s[c].history

\* The refs rise from each moment that an undo may bring back to the next, and to
\* today's, and in all of them the tip of a change is in its history.
RisesInv(lg) ==
  \A k \in Live(lg) \cup {Len(lg) + 1} :
    /\ TipsIn(At(lg, k - 1))
    /\ \A l \in Live(lg) \cup {Len(lg) + 1} : k <= l => Above(At(lg, k - 1), At(lg, l - 1))

\* Refs rise by whatever goes forward, and tips stay in their histories.
LEMMA ForwardRises ==
  ASSUME TypeOK, NEW type, NEW w \in Capture, Forward(type, w), refs' = Overwrite(refs, w)
  PROVE  /\ Above(refs, refs')
         /\ TipsIn(refs) => TipsIn(refs')
<1>1. \A c \in Changes : refs'[c] = IF c \in Listed(w) THEN w[c] ELSE refs[c]
  BY DEF Overwrite, RefNames
<1>2. Above(refs, refs')
  BY <1>1 DEF Forward, Above
<1>3. TipsIn(refs) => TipsIn(refs')
  BY <1>1 DEF Forward, TipsIn
<1> QED
  BY <1>2, <1>3

\* To rise twice is to rise.
LEMMA AboveTransitive ==
  ASSUME NEW s, NEW t, NEW u, Above(s, t), Above(t, u)
  PROVE  Above(s, u)
BY DEF Above

\* An operation goes forward from the last of these moments, an undo goes back to
\* one that is above the earlier ones.
LEMMA RisesStep ==
  ASSUME IInv, RisesInv(log), [Next]_vars
  PROVE  RisesInv(log')
<1> DEFINE n == Len(log)
<1>1. CASE UNCHANGED <<refs, log>>
  BY <1>1
<1>2. CASE Records
  <2>1. PICK id \in Nat, type \in OpTypes, undone \in Nat \cup {None}, w \in Capture :
           Step(id, type, w) /\ Kind(type, undone, w)
    BY <1>2, RecordsStep DEF IInv, TypeInv
  <2>2. TypeOK /\ LogExplainsRefs /\ StackInv(log) /\ LogExplainsRefs'
    BY ReplayStep DEF IInv, TypeInv
  <2>3. Grows(log, log') /\ n \in Nat /\ Len(log') = n + 1 /\ Live(log) \subseteq 1..n
    BY <2>1, <2>2, LenType DEF Step, Grows, Live
  <2>4. At(log', n + 1) = refs' /\ (n + 2) - 1 = n + 1 /\ (n + 1) + 1 = n + 2 /\ (n + 1) - 1 = n
        /\ At(log, n) = refs
    BY <2>2, <2>3, ExplainsIsAt
  <2>5. \A k \in Live(log) \cup {n + 1} : At(log', k - 1) = At(log, k - 1) /\ k \in 1..n+1
    <3>1. \A k \in Live(log) \cup {n + 1} : k \in 1..n+1 /\ k - 1 \in 0..n
      BY <2>3
    <3> QED
      BY <2>3, <3>1, AtStable
  <2>6. CASE type # "Undo"
    <3>1. Live(log') = Live(log) \cup {n + 1}
      BY <2>1, <2>2, <2>6, StackPush
    <3>2. Above(refs, refs') /\ (TipsIn(refs) => TipsIn(refs'))
      BY <2>1, <2>2, <2>6, ForwardRises DEF Kind, Step
    <3>3. ASSUME NEW k \in Live(log) \cup {n + 1}
          PROVE  /\ TipsIn(At(log', k - 1))
                 /\ \A l \in Live(log) \cup {n + 1} : k <= l => Above(At(log', k - 1), At(log', l - 1))
                 /\ Above(At(log', k - 1), refs')
      <4>1. TipsIn(At(log', k - 1))
        BY <2>5 DEF RisesInv
      <4>2. \A l \in Live(log) \cup {n + 1} : k <= l => Above(At(log', k - 1), At(log', l - 1))
        BY <2>5 DEF RisesInv
      <4>3. Above(At(log', k - 1), refs)
        BY <2>3, <2>4, <2>5, <4>2
      <4> QED
        BY <3>2, <4>1, <4>2, <4>3, AboveTransitive
    <3>4. TipsIn(refs')
      BY <2>4, <3>2 DEF RisesInv
    <3>5. Above(refs', refs')
      BY DEF Above
    <3>6. ASSUME NEW k \in Live(log') \cup {n + 2}, NEW l \in Live(log') \cup {n + 2}, k <= l
          PROVE  TipsIn(At(log', k - 1)) /\ Above(At(log', k - 1), At(log', l - 1))
      <4>1. CASE k = n + 2
        <5>1. l = n + 2
          BY <2>3, <2>5, <3>1, <3>6, <4>1
        <5> QED
          BY <2>4, <3>4, <3>5, <4>1, <5>1
      <4>2. CASE k \in Live(log) \cup {n + 1}
        BY <2>4, <3>1, <3>3, <3>6, <4>2
      <4> QED
        BY <3>1, <4>1, <4>2
    <3> QED
      <4>1. Len(log') + 1 = n + 2 /\ \A k \in Live(log') \cup {n + 2} : k <= k
        BY <2>3 DEF Live
      <4> HIDE DEF n
      <4> QED
        BY <3>6, <4>1 DEF RisesInv
  <2>7. CASE type = "Undo"
    <3> DEFINE m == PickOpToUndo
    <3>1. /\ m \in Live(log)
          /\ \A i \in Live(log) : i <= m
          /\ Live(log') = Live(log) \ {m}
          /\ refs' = At(log, m - 1)
      BY <2>1, <2>2, <2>7, StackPop
    <3> HIDE DEF m
    <3>2. ASSUME NEW k \in Live(log)
          PROVE  /\ TipsIn(At(log', k - 1))
                 /\ \A l \in Live(log) : k <= l => Above(At(log', k - 1), At(log', l - 1))
                 /\ Above(At(log', k - 1), refs')
      <4>1. TipsIn(At(log', k - 1))
        BY <2>5 DEF RisesInv
      <4>2. \A l \in Live(log) : k <= l => Above(At(log', k - 1), At(log', l - 1))
        BY <2>5 DEF RisesInv
      <4> QED
        BY <2>5, <3>1, <4>1, <4>2
    <3>3. TipsIn(refs') /\ Above(refs', refs')
      BY <3>1 DEF RisesInv, Above
    <3>4. ASSUME NEW k \in Live(log') \cup {n + 2}, NEW l \in Live(log') \cup {n + 2}, k <= l
          PROVE  TipsIn(At(log', k - 1)) /\ Above(At(log', k - 1), At(log', l - 1))
      <4>1. CASE k = n + 2
        <5>1. l = n + 2
          BY <2>3, <3>1, <3>4, <4>1
        <5> QED
          BY <2>4, <3>3, <4>1, <5>1
      <4>2. CASE k \in Live(log)
        BY <2>4, <3>1, <3>2, <3>4, <4>2
      <4> QED
        BY <3>1, <4>1, <4>2
    <3> QED
      <4>1. Len(log') + 1 = n + 2 /\ \A k \in Live(log') \cup {n + 2} : k <= k
        BY <2>3 DEF Live
      <4> HIDE DEF n
      <4> QED
        BY <3>4, <4>1 DEF RisesInv
  <2> QED
    BY <2>6, <2>7
<1> QED
  BY <1>1, <1>2, StepRecords DEF IInv

\* No undo takes a change or a snapshot away that the refs had before the op it
\* undoes, however many undos and whose (undo_once, Change::advance).
THEOREM RefsRise == Spec => [](IInv /\ RisesInv(log))
<1>1. Init => RisesInv(log)
  <2> SUFFICES ASSUME Init PROVE RisesInv(log)
    OBVIOUS
  <2>1. Live(log) = {} /\ Len(log) = 0
    BY DEF Init, Live
  <2>2. At(log, 0) = Start
    BY AtZero
  <2>3. \A c \in Changes : Start[c] = None
    BY DEF Start, RefNames
  <2> QED
    BY <2>1, <2>2, <2>3 DEF RisesInv, TipsIn, Above
<1>2. IInv /\ RisesInv(log) /\ [Next]_vars => RisesInv(log)'
  BY RisesStep
<1> QED
  BY <1>1, <1>2, IInvariant, PTL DEF Spec

----------------------------------------------------------------------------
(* The walk of pick_op_to_undo, from the heights alone: what follows holds   *)
(* of any log, also of one that does not explain the refs.                   *)

\* If the log is higher at its end than at k, a live record behind k brings it there.
LEMMA LiveAbove ==
  ASSUME NEW lg \in Seq(Op), NEW k \in 0..Len(lg), H(lg, k) < H(lg, Len(lg))
  PROVE  \E j \in k+1..Len(lg) : j \in Live(lg) /\ H(lg, j) = H(lg, Len(lg))
<1> DEFINE n == Len(lg)
<1>1. n \in Nat /\ \A j \in 0..n : H(lg, j) \in Int
  BY HFinite
<1>2. \E m \in k..n : H(lg, m) < H(lg, n) /\ \A j \in m+1..n : ~(H(lg, j) < H(lg, n))
  <2> DEFINE T == {j \in 1..n+1 : k <= j - 1 /\ H(lg, j - 1) < H(lg, n)}
  <2>1. k + 1 \in T /\ T \in SUBSET (1..n+1) /\ n + 1 \in Nat
    BY <1>1
  <2>2. PICK t \in T : \A j \in T : j <= t
    <3> DEFINE N == n + 1
    <3>1. N \in Nat /\ T \in SUBSET (1..N) /\ T # {}
      BY <2>1
    <3> HIDE DEF T, N
    <3> QED
      BY <3>1, LastIndex
  <2>3. t - 1 \in k..n /\ H(lg, t - 1) < H(lg, n)
    BY <1>1, <2>2
  <2>4. ASSUME NEW j \in (t-1)+1..n, H(lg, j) < H(lg, n)
        PROVE  FALSE
    <3>1. j + 1 \in T /\ j + 1 > t /\ t \in Int /\ j + 1 \in Int
      BY <1>1, <2>3, <2>4
    <3>2. j + 1 <= t
      BY <2>2, <3>1
    <3> HIDE DEF T
    <3> QED
      BY <3>1, <3>2
  <2> QED
    BY <2>3, <2>4
<1>3. PICK m \in k..n : H(lg, m) < H(lg, n) /\ \A j \in m+1..n : ~(H(lg, j) < H(lg, n))
  BY <1>2
<1>4. m \in Nat /\ m # n /\ m + 1 \in k+1..n
  BY <1>1, <1>3
<1>5. H(lg, m + 1) = IF UndoIn(lg, m + 1) THEN H(lg, m) - 1 ELSE H(lg, m) + 1
  BY <1>4, HNext
<1>6. H(lg, m) \in Int /\ H(lg, n) \in Int /\ ~(H(lg, m + 1) < H(lg, n))
  BY <1>1, <1>3, <1>4
<1>7. ~UndoIn(lg, m + 1) /\ H(lg, m + 1) = H(lg, n)
  BY <1>3, <1>5, <1>6
<1>8. \A j \in m+1..n : H(lg, j) \in Int /\ H(lg, m + 1) <= H(lg, j)
  BY <1>1, <1>3, <1>4, <1>7
<1> QED
  BY <1>1, <1>4, <1>7, <1>8 DEF Live

\* The walk stops at the last live record, if there is one.
LEMMA PickIsTopLive ==
  ASSUME TypeOK
  PROVE  \/ PickOpToUndo = 0 /\ Live(log) = {}
         \/ /\ PickOpToUndo \in Live(log)
            /\ \A i \in Live(log) : i <= PickOpToUndo
            /\ H(log, PickOpToUndo) = H(log, Len(log))
<1> DEFINE n == Len(log)
           pick == PickOpToUndo
<1>1. n \in Nat /\ Live(log) \subseteq 1..n /\ log \in Seq(Op)
  BY LenType DEF Live, TypeOK
<1>2. \A k \in 0..n : H(log, k) \in Int
  BY <1>1, HFinite
<1>3. \A i : Depth0(i) <=> ~UndoIn(log, i) /\ H(log, i) = H(log, n)
  BY HeightIsH
<1>4. \/ pick = 0 /\ \A i \in 1..n : ~Depth0(i)
      \/ pick \in 1..n /\ Depth0(pick) /\ \A j \in pick+1..n : ~Depth0(j)
  BY PickIsLast
<1> HIDE DEF pick
\* Behind a live record, or at it, there is one at depth 0.
<1>5. ASSUME NEW i \in Live(log)
      PROVE  \E j \in i..n : Depth0(j)
  <2>1. i \in 1..n /\ ~UndoIn(log, i) /\ H(log, i) <= H(log, n)
    BY <1>1 DEF Live
  <2>2. CASE H(log, i) = H(log, n)
    BY <1>3, <2>1, <2>2
  <2>3. CASE H(log, i) < H(log, n)
    <3>1. PICK j \in i+1..n : j \in Live(log) /\ H(log, j) = H(log, n)
      BY <1>1, <2>1, <2>3, LiveAbove
    <3> QED
      BY <1>3, <2>1, <3>1 DEF Live
  <2> QED
    BY <1>2, <2>1, <2>2, <2>3
<1>6. CASE pick = 0 /\ \A i \in 1..n : ~Depth0(i)
  BY <1>1, <1>5, <1>6 DEF pick
<1>7. CASE pick \in 1..n /\ Depth0(pick) /\ \A j \in pick+1..n : ~Depth0(j)
  <2>1. \A i \in Live(log) : i <= pick
    <3> SUFFICES ASSUME NEW i \in Live(log), ~(i <= pick) PROVE FALSE
      OBVIOUS
    <3>1. PICK j \in i..n : Depth0(j)
      BY <1>5
    <3> QED
      BY <1>1, <1>7, <3>1
  <2>2. ASSUME NEW k \in pick..n
        PROVE  H(log, pick) <= H(log, k)
    <3> SUFFICES ASSUME H(log, k) < H(log, n) PROVE FALSE
      BY <1>1, <1>2, <1>3, <1>7
    <3>1. PICK j \in k+1..n : j \in Live(log) /\ H(log, j) = H(log, n)
      BY <1>1, <1>7, LiveAbove
    <3> QED
      BY <1>1, <1>7, <2>1, <3>1
  <2> QED
    BY <1>1, <1>3, <1>7, <2>1, <2>2 DEF Live, pick
<1> QED
  BY <1>4, <1>6, <1>7

\* An undo takes exactly the op that was picked off the live records.
LEMMA LivePopPick ==
  ASSUME TypeOK, Grows(log, log'), UndoIn(log', Len(log) + 1), PickOpToUndo # 0
  PROVE  Live(log') = Live(log) \ {PickOpToUndo}
<1> DEFINE m == PickOpToUndo
<1>1. m \in Live(log) /\ (\A i \in Live(log) : i <= m) /\ H(log, m) = H(log, Len(log))
  BY PickIsTopLive
<1> HIDE DEF m
<1>2. Live(log') = {i \in Live(log) : H(log, i) < H(log, Len(log))}
  BY LivePop
<1>3. Live(log) \subseteq Nat /\ \A i \in Live(log) : H(log, i) \in Int
  BY LenType, HFinite DEF Live
<1>4. ASSUME NEW i \in Live(log), i # m
      PROVE  H(log, i) < H(log, m)
  <2>1. i < m
    BY <1>1, <1>3, <1>4
  <2> QED
    BY <1>1, <2>1, LiveRises DEF TypeOK
<1> QED
  BY <1>1, <1>2, <1>3, <1>4 DEF m

----------------------------------------------------------------------------
(* Deaths between two writes                                                *)

\* What is written of a capture before the process dies is a capture,
LEMMA PartialType ==
  ASSUME NEW w \in Capture, NEW first, NEW x \in Partial(w, first)
  PROVE  x \in Capture
BY NoneIsNoRef DEF Partial, Capture

\* and, where the changes are written first, goes forward as the whole does.
LEMMA PartialForward ==
  ASSUME NEW type, NEW w, Forward(type, w), NEW x \in Partial(w, Changes)
  PROVE  Forward(type, x)
<1>1. CASE x = w
  BY <1>1
<1>2. CASE x = [r \in RefNames |-> IF r \in Changes THEN w[r] ELSE Same]
  <2>1. Main \notin Changes
    BY DEF RefNames
  <2> QED
    BY <1>2, <2>1 DEF Forward, Listed, RefNames, Workspaces
<1> QED
  BY <1>1, <1>2 DEF Partial

\* What a death leaves of the command it cut short: nothing, refs that went
\* forward, or the first or all of the refs an undo restores.
Remains(x) ==
  \/ \E type : Forward(type, x)
  \/ PickOpToUndo # 0 /\ x \in Partial(log[PickOpToUndo].before, Workspaces)

\* Every death leaves one of these.
LEMMA CrashRemains ==
  ASSUME TypeOK, NEW p \in Procs, Crash(p)
  PROVE  refs' = refs \/ \E x \in Capture : refs' = Overwrite(refs, x) /\ Remains(x)
<1>1. p \in Clients /\ ctx[p] # None
  BY DEF Clients, Crash
<1>2. ASSUME NEW x \in CrashWrites(ctx[p])
      PROVE  x \in Capture /\ Remains(x)
  <2>1. ASSUME NEW w \in SnapWrites(ctx[p]) \cup SealWrites(ctx[p]), x \in Partial(w, Changes)
        PROVE  x \in Capture /\ Remains(x)
    <3>1. w \in Capture /\ Forward("Snap", w)
      BY <1>1, SnapWritesType, SealWritesType, SnapForward, SealForward
    <3> QED
      BY <2>1, <3>1, PartialType, PartialForward DEF Remains
  <2>2. ASSUME NEW w \in ChangeNewWrites(ctx[p]), x \in Partial(w, Changes)
        PROVE  x \in Capture /\ Remains(x)
    <3>1. w \in Capture /\ Forward("ChangeNew", w)
      BY <1>1, ChangeNewWritesType, ChangeNewForward
    <3> QED
      BY <2>2, <3>1, PartialType, PartialForward DEF Remains
  <2>3. ASSUME NEW w \in TransitionWrites, x \in Partial(w, Changes)
        PROVE  x \in Capture /\ Remains(x)
    <3>1. w \in Capture /\ Forward("ChangeTransition", w)
      BY TransitionWritesType, TransitionForward
    <3> QED
      BY <2>3, <3>1, PartialType, PartialForward DEF Remains
  <2>4. ASSUME NEW w \in UndoWrites, x \in Partial(w, Workspaces)
        PROVE  x \in Capture /\ Remains(x)
    <3>1. PickOpToUndo # 0 /\ w = log[PickOpToUndo].before /\ w \in Capture
      BY UndoWritesType
    <3>2. x \in Capture
      BY <2>4, <3>1, PartialType
    <3> QED
      BY <2>4, <3>1, <3>2 DEF Remains
  <2>5. \/ \E w \in SnapWrites(ctx[p]) \cup SealWrites(ctx[p]) : x \in Partial(w, Changes)
        \/ \E w \in ChangeNewWrites(ctx[p]) : x \in Partial(w, Changes)
        \/ \E w \in TransitionWrites : x \in Partial(w, Changes)
        \/ \E w \in UndoWrites : x \in Partial(w, Workspaces)
    BY <1>2 DEF CrashWrites
  <2> QED
    BY <2>1, <2>2, <2>3, <2>4, <2>5
<1>3. ASSUME NEW w \in WtMakeWrites(ctx[p]) \cup WtDropWrites(ctx[p])
      PROVE  w \in Capture /\ Remains(w)
  BY <1>1, WtWritesType, WtForward DEF Remains
<1> QED
  BY <1>2, <1>3 DEF Crash

\* A death keeps the types.
LEMMA CrashType ==
  ASSUME TypeInv, NEW p \in Procs, Crash(p)
  PROVE  TypeInv'
<1>1. refs' \in RefStates
  BY CrashRemains, OverwriteType DEF TypeInv, TypeOK
<1>2. log' = log /\ next' = next /\ nsnap' \in Nat
  BY DEF Crash, NewSnap, TypeInv, TypeOK
<1>3. ctx' = [ctx EXCEPT ![p] = None]
  BY DEF Crash
<1>4. dirs' \in SUBSET Secondary
  <2>1. \A w \in WtMakeWrites(ctx[p]) : Listed(w) \subseteq Secondary
    BY DEF WtMakeWrites, Listed, One, Crash
  <2> QED
    BY <2>1 DEF Crash, TypeInv, TypeOK
<1>5. ctx' \in [Clients -> {None} \cup Context] /\ WatchersCount'
  <2>1. ctx \in [Clients -> {None} \cup Context] /\ p \in Clients
    BY DEF TypeInv, TypeOK, Clients
  <2>2. ctx' \in [Clients -> {None} \cup Context]
    BY <1>3, <2>1
  <2>3. \A q \in Watchers : ctx'[q] # None => ctx[q] # None
    BY <1>3, <2>1 DEF Clients
  <2> QED
    BY <1>2, <2>2, <2>3 DEF TypeInv, WatchersCount
<1> QED
  BY <1>1, <1>2, <1>4, <1>5 DEF TypeInv, TypeOK, MaxIdExists

\* What each step of commands, watchers, daemons and deaths does to refs and log.
LEMMA CrashStep ==
  ASSUME TypeInv, [NextCrash]_vars
  PROVE  /\ TypeInv'
         /\ \/ Records
            \/ UNCHANGED <<refs, log>>
            \/ log' = log /\ \E x \in Capture : refs' = Overwrite(refs, x) /\ Remains(x)
<1>1. CASE [Next]_vars
  BY <1>1, TypeInvStep, StepRecords
<1>2. ASSUME NEW p \in Procs, Crash(p)
      PROVE  /\ TypeInv'
             /\ \/ UNCHANGED <<refs, log>>
                \/ log' = log /\ \E x \in Capture : refs' = Overwrite(refs, x) /\ Remains(x)
  <2>1. log' = log
    BY <1>2 DEF Crash
  <2> QED
    BY <1>2, <2>1, CrashType, CrashRemains DEF TypeInv
<1> QED
  BY <1>1, <1>2 DEF NextCrash

\* Types, with deaths (the commands' writes in the order the code makes them).
THEOREM CrashTypeSafe == SpecCrash => []TypeOK
<1>1. TypeInv /\ [NextCrash]_vars => TypeInv'
  BY CrashStep
<1>2. TypeInv => TypeOK
  BY DEF TypeInv
<1> QED
  BY TypeInvInit, <1>1, <1>2, PTL DEF SpecCrash

----------------------------------------------------------------------------
(* The loop of pick_op_to_undo                                              *)

\* undo_depth once the loop has passed record i + 1, if it was depth before.
Passed(lg, i, depth) ==
  IF UndoIn(lg, i + 1) THEN depth + 1 ELSE IF depth > 0 THEN depth - 1 ELSE 0

\* f[i] is undo_depth when the loop has passed the records from n down to i + 1.
IsDepth(f, lg, m, n) ==
  /\ DOMAIN f = m..n
  /\ f[n] = 0
  /\ \A i \in m..n-1 : f[i] = Passed(lg, i, f[i + 1])

\* The loop can go down the whole log.
LEMMA DepthExists ==
  ASSUME NEW lg, NEW n \in Nat, NEW k \in 0..n
  PROVE  \E f : IsDepth(f, lg, n - k, n)
<1> DEFINE T == {j \in 0..n : ~ \E f : IsDepth(f, lg, n - j, n)}
<1>1. SUFFICES ASSUME T # {} PROVE FALSE
  OBVIOUS
<1>2. PICK m \in T : \A j \in T : m <= j
  <2>1. T \in SUBSET Nat
    OBVIOUS
  <2> HIDE DEF T
  <2> QED BY <1>1, <2>1, LeastNat
<1>3. m # 0
  <2>1. IsDepth([i \in n..n |-> 0], lg, n, n)
    BY DEF IsDepth
  <2>2. n - 0 = n
    OBVIOUS
  <2> QED
    BY <2>1, <2>2
<1> DEFINE a == n - m
<1>4. /\ a \in Int /\ a < n /\ m - 1 \in 0..n /\ n - (m - 1) = a + 1 /\ ~(m <= m - 1)
      /\ a \in a..n /\ n \in a+1..n /\ a \notin a+1..n
  BY <1>3
<1>5. PICK f : IsDepth(f, lg, a + 1, n)
  BY <1>2, <1>4
<1> HIDE DEF a
<1> DEFINE g == [i \in a..n |-> IF i = a THEN Passed(lg, a, f[a + 1]) ELSE f[i]]
<1>6. \A i \in a+1..n : g[i] = f[i]
  BY <1>4
<1>7. DOMAIN g = a..n /\ g[a] = Passed(lg, a, f[a + 1])
  BY <1>4
<1>8. g[n] = 0
  BY <1>4, <1>5, <1>6 DEF IsDepth
<1>9. ASSUME NEW i \in a..n-1
      PROVE  g[i] = Passed(lg, i, g[i + 1])
  <2>1. g[i + 1] = f[i + 1]
    <3>1. i + 1 \in a+1..n
      BY <1>4
    <3> QED
      BY <1>6, <3>1
  <2>2. CASE i = a
    BY <1>7, <2>1, <2>2
  <2>3. CASE i # a
    <3>1. i \in a+1..n-1 /\ i \in a+1..n
      BY <1>4, <2>3
    <3> QED
      BY <1>5, <1>6, <2>1, <3>1 DEF IsDepth
  <2> QED
    BY <2>2, <2>3
<1> HIDE DEF g
<1>10. IsDepth(g, lg, a, n)
  BY <1>7, <1>8, <1>9 DEF IsDepth
<1> QED
  BY <1>10 DEF a

\* UndoDepth is undo_depth.
LEMMA UndoDepthIs ==
  ASSUME Len(log) \in Nat
  PROVE  IsDepth(UndoDepth, log, 0, Len(log))
<1> DEFINE n == Len(log)
           Body(f) == [i \in 0..n |-> IF i = n THEN 0
                                      ELSE IF UndoIn(log, i + 1) THEN f[i + 1] + 1
                                      ELSE IF f[i + 1] > 0 THEN f[i + 1] - 1 ELSE 0]
           g == CHOOSE f : f = Body(f)
<1>1. PICK h : IsDepth(h, log, 0, n)
  <2>1. n \in 0..n /\ n - n = 0
    OBVIOUS
  <2> QED
    BY <2>1, DepthExists
<1>2. UndoDepth = g
  BY DEF UndoDepth, IsUndo, UndoIn
<1> HIDE DEF n
<1>3. n \in Nat
  BY DEF n
<1> DEFINE r == [i \in 0..n |-> h[i]]
<1>4. r = Body(r)
  BY <1>1, <1>3 DEF IsDepth, Passed
<1> HIDE DEF r
<1>5. g = Body(g)
  <2> HIDE DEF Body
  <2> QED BY <1>4
<1> HIDE DEF g
<1>6. IsDepth(g, log, 0, n)
  BY <1>3, <1>5 DEF IsDepth, Passed
<1> QED
  BY <1>2, <1>6 DEF n

\* As long as the loop has not come to a record where it stops, it counts how much
\* higher the log is where it is than at the end.
LEMMA DepthIsHeight ==
  ASSUME NEW lg, NEW n \in Nat, NEW f, IsDepth(f, lg, 0, n),
         NEW i \in 0..n, \A j \in i+1..n : ~(~UndoIn(lg, j) /\ f[j] = 0)
  PROVE  f[i] \in Nat /\ f[i] = H(lg, i) - H(lg, n)
<1> DEFINE Good(k) == f[k] \in Nat /\ f[k] = H(lg, k) - H(lg, n)
           T == {k \in 0..n : n - k \in i..n /\ ~Good(n - k)}
<1>1. \A k \in 0..n : H(lg, k) \in Int
  BY HFinite
<1>2. T = {}
  <2>1. SUFFICES ASSUME T # {} PROVE FALSE
    OBVIOUS
  <2>2. PICK m \in T : \A j \in T : m <= j
    <3>1. T \in SUBSET Nat
      OBVIOUS
    <3> HIDE DEF T
    <3> QED BY <2>1, <3>1, LeastNat
  <2>3. m # 0
    <3>1. n \in 0..n /\ n - 0 = n
      OBVIOUS
    <3>2. Good(n)
      BY <1>1, <3>1 DEF IsDepth
    <3> QED
      BY <3>1, <3>2
  <2> DEFINE b == n - m
  <2>4. /\ b \in i..n-1 /\ b \in 0..n-1 /\ b \in Nat /\ b + 1 \in i+1..n /\ b + 1 \in 0..n
        /\ n - (m - 1) = b + 1 /\ m - 1 \in 0..n /\ ~(m <= m - 1) /\ b + 1 \in i..n /\ b \in 0..n
    BY <2>3
  <2>5. ~Good(b)
    OBVIOUS
  <2>6. Good(b + 1)
    BY <2>2, <2>4
  <2> HIDE DEF b, T
  <2>7. f[b] = Passed(lg, b, f[b + 1])
    BY <2>4 DEF IsDepth
  <2>8. H(lg, b + 1) = IF UndoIn(lg, b + 1) THEN H(lg, b) - 1 ELSE H(lg, b) + 1
    BY <2>4, HNext
  <2>9. H(lg, b) \in Int /\ H(lg, n) \in Int
    BY <1>1, <2>4
  <2>10. CASE UndoIn(lg, b + 1)
    BY <2>5, <2>6, <2>7, <2>8, <2>9, <2>10 DEF Passed
  <2>11. CASE ~UndoIn(lg, b + 1)
    <3>1. f[b + 1] # 0
      BY <2>4, <2>11
    <3> QED
      BY <2>5, <2>6, <2>7, <2>8, <2>9, <2>11, <3>1 DEF Passed
  <2> QED
    BY <2>10, <2>11
<1>3. n - i \in 0..n /\ n - (n - i) = i /\ i \in i..n
  OBVIOUS
<1> QED
  BY <1>2, <1>3

\* The record picked by its height is the first at which the loop stops.
LEMMA PickScans ==
  ASSUME TypeOK
  PROVE  PickIsScan
<1> DEFINE n == Len(log)
           pick == PickOpToUndo
           d == UndoDepth
           Stops(i) == ~UndoIn(log, i) /\ d[i] = 0
<1>1. n \in Nat
  BY LenType DEF TypeOK
<1>2. \A k \in 0..n : H(log, k) \in Int
  BY <1>1, HFinite
<1>3. \A i : /\ ScanStops(i) <=> Stops(i)
             /\ Depth0(i) <=> ~UndoIn(log, i) /\ H(log, i) = H(log, n)
  BY HeightIsH DEF ScanStops, IsUndo, UndoIn
<1>4. IsDepth(d, log, 0, n)
  BY <1>1, UndoDepthIs
<1>5. \/ pick = 0 /\ \A i \in 1..n : ~Depth0(i)
      \/ pick \in 1..n /\ Depth0(pick) /\ \A j \in pick+1..n : ~Depth0(j)
  BY PickIsLast
<1> HIDE DEF d, n
\* Above the last record where the loop stops, it and the heights agree.
<1>6. ASSUME NEW i \in 1..n, \A j \in i+1..n : ~Stops(j)
      PROVE  Stops(i) <=> Depth0(i)
  <2>1. d[i] \in Nat /\ d[i] = H(log, i) - H(log, n)
    <3>1. i \in 0..n
      OBVIOUS
    <3> QED
      BY <1>1, <1>4, <1>6, <3>1, DepthIsHeight
  <2>2. H(log, i) \in Int /\ H(log, n) \in Int
    BY <1>1, <1>2
  <2> QED
    BY <1>3, <2>1, <2>2
<1>7. ASSUME NEW k \in 0..n, \A j \in k+1..n : ~Depth0(j)
      PROVE  \A j \in k+1..n : ~Stops(j)
  <2> DEFINE S == {j \in k+1..n : Stops(j)}
  <2>1. SUFFICES ASSUME S # {} PROVE FALSE
    OBVIOUS
  <2>2. PICK j \in S : \A l \in S : l <= j
    <3>1. S \in SUBSET (1..n)
      BY <1>1
    <3> HIDE DEF S
    <3> QED
      BY <1>1, <2>1, <3>1, LastIndex
  <2>3. j \in 1..n /\ \A l \in j+1..n : l \in k+1..n /\ ~(l <= j)
    BY <1>1
  <2>4. \A l \in j+1..n : ~Stops(l)
    BY <2>2, <2>3
  <2> QED
    BY <1>6, <1>7, <2>3, <2>4
<1>8. CASE pick = 0 /\ \A i \in 1..n : ~Depth0(i)
  <2>1. 0 \in 0..n /\ 0 + 1 = 1
    BY <1>1
  <2>2. \A j \in 1..n : ~Stops(j)
    BY <1>7, <1>8, <2>1
  <2> HIDE DEF Stops
  <2> QED
    BY <1>3, <1>8, <2>2 DEF PickIsScan, n
<1>9. CASE pick \in 1..n /\ Depth0(pick) /\ \A j \in pick+1..n : ~Depth0(j)
  <2>1. pick \in 0..n
    BY <1>1, <1>9
  <2> HIDE DEF pick
  <2>2. \A j \in pick+1..n : ~Stops(j)
    BY <1>7, <1>9, <2>1
  <2>3. Stops(pick)
    BY <1>6, <1>9, <2>2
  <2> HIDE DEF Stops
  <2> QED
    BY <1>3, <1>9, <2>2, <2>3 DEF PickIsScan, n, pick
<1> QED
  BY <1>5, <1>8, <1>9

\* Counting, as the model and the other proofs do, picks the very record that the
\* loop of pick_op_to_undo returns, in every log that can be written.
THEOREM ScanAgrees == SpecCrash => []PickIsScan
<1>1. TypeOK => PickIsScan
  BY PickScans
<1> QED
  BY <1>1, CrashTypeSafe, PTL

----------------------------------------------------------------------------
(* HEAD                                                                     *)

\* The change HEAD named before a live op is there now, and was there before every
\* later live op: an undo that brings HEAD back to it does not take it away.
Stands(lg, s) ==
  \A i \in Live(lg) : lg[i].before[Main] \in Changes =>
    /\ s[lg[i].before[Main]] # None
    /\ \A j \in Live(lg) : i <= j => lg[j].before[lg[i].before[Main]] # None

\* A change made by a live op that did not touch HEAD was never HEAD's since: an
\* undo that takes it away does not leave HEAD naming it.
Unseen(lg, s) ==
  \A i \in Live(lg), h \in Changes :
    lg[i].before[h] = None /\ lg[i].before[Main] = Same =>
      /\ s[Main] # h
      /\ \A j \in Live(lg) : i < j => lg[j].before[Main] # h

Named(s) == s[Main] # None => s[s[Main]] # None

HeadInv(lg, s) == Stands(lg, s) /\ Unseen(lg, s) /\ Named(s)

\* What is written over the refs, ref by ref.
LEMMA OverwriteIs ==
  ASSUME NEW s \in RefStates, NEW x \in Capture, NEW r \in RefNames
  PROVE  /\ Overwrite(s, x)[r] = IF x[r] # Same THEN x[r] ELSE s[r]
         /\ r \in Listed(x) <=> x[r] # Same
BY DEF Overwrite, Listed

\* HEAD names a change or nothing; a capture does too, or does not list it.
LEMMA HeadType ==
  /\ \A s \in RefStates : s[Main] \in {None} \cup Changes
  /\ \A x \in Capture : x[Main] \in {None, Same} \cup Changes
  /\ Main \in RefNames /\ Changes \subseteq RefNames /\ None \notin Changes /\ Same \notin Changes
BY DEF RefStates, Capture, RefOK, RefNames, Workspaces

\* A record of the log that is live has captures.
LEMMA LiveEntry ==
  ASSUME TypeOK, NEW i \in Live(log)
  PROVE  i \in 1..Len(log) /\ log[i].before \in Capture
BY LogEntry DEF Live

\* Going forward keeps the invariant on HEAD, whether or not a record follows.
LEMMA HeadForward ==
  ASSUME TypeOK, HeadInv(log, refs), NEW type, NEW x \in Capture, Forward(type, x)
  PROVE  HeadInv(log, Overwrite(refs, x))
<1> DEFINE s == Overwrite(refs, x)
<1>1. refs \in RefStates
  BY DEF TypeOK
<1>2. \A r \in RefNames : s[r] = IF x[r] # Same THEN x[r] ELSE refs[r]
  BY <1>1, OverwriteIs
<1>3. \A c \in Changes : refs[c] # None => s[c] # None
  BY <1>1, <1>2, OverwriteIs, HeadType DEF Forward
<1>4. \/ s[Main] = refs[Main]
      \/ s[Main] \in Changes /\ s[s[Main]] # None /\ FreshId(s[Main])
  <2>1. CASE x[Main] = Same
    BY <1>2, <2>1, HeadType
  <2>2. CASE x[Main] # Same
    <3>1. s[Main] = x[Main] /\ Main \in Listed(x)
      BY <1>1, <1>2, <2>2, HeadType, OverwriteIs
    <3>2. CASE x[Main] = refs[Main]
      BY <3>1, <3>2
    <3>3. CASE x[Main] \in Changes \cap Listed(x) /\ FreshId(x[Main])
      <4>1. x[x[Main]] # None /\ x[x[Main]] # Same
        BY <1>1, <3>3, HeadType, OverwriteIs DEF Forward
      <4> QED
        BY <1>2, <3>1, <3>3, <4>1, HeadType
    <3> QED
      BY <3>1, <3>2, <3>3 DEF Forward
  <2> QED
    BY <2>1, <2>2
<1>5. \A i \in Live(log) : log[i].before[Main] \in {None, Same} \cup Changes
  BY LiveEntry, HeadType
<1> HIDE DEF s
<1>6. Stands(log, s)
  BY <1>3 DEF Stands, HeadInv
<1>7. Unseen(log, s)
  <2> SUFFICES ASSUME NEW i \in Live(log), NEW h \in Changes,
                      log[i].before[h] = None, log[i].before[Main] = Same
               PROVE  s[Main] # h
    BY DEF Unseen, HeadInv
  <2>1. refs[Main] # h
    BY DEF HeadInv, Unseen
  <2>2. ~FreshId(h)
    <3>1. h \in Listed(log[i].before) /\ i \in 1..Len(log)
      BY LiveEntry, HeadType DEF Listed
    <3> QED
      BY <3>1 DEF FreshId
  <2> QED
    BY <1>4, <2>1, <2>2
<1>8. Named(s)
  BY <1>1, <1>3, <1>4, HeadType DEF Named, HeadInv
<1> QED
  BY <1>6, <1>7, <1>8 DEF HeadInv, s

\* So does an undo, finished or cut short after HEAD.
LEMMA HeadBack ==
  ASSUME TypeOK, HeadInv(log, refs), PickOpToUndo # 0,
         NEW x \in Partial(log[PickOpToUndo].before, Workspaces)
  PROVE  HeadInv(log, Overwrite(refs, x))
<1> DEFINE s == Overwrite(refs, x)
           m == PickOpToUndo
           w == log[m].before
<1>1. refs \in RefStates
  BY DEF TypeOK
<1>2. m \in Live(log) /\ \A i \in Live(log) : i \in Nat /\ m \in Nat /\ i <= m
  BY PickIsTopLive, LenType DEF Live
<1>3. w \in Capture /\ x \in Capture
  BY <1>2, LiveEntry, PartialType
<1>4. \A r \in RefNames : s[r] = IF x[r] # Same THEN x[r] ELSE refs[r]
  BY <1>1, <1>3, OverwriteIs
<1> HIDE DEF s, m
<1>5. x[Main] = w[Main] /\ \A c \in Changes : x[c] = w[c] \/ x[c] = Same
  BY HeadType DEF Partial, RefNames, Workspaces, m
<1>6. w[Main] \in {None, Same} \cup Changes
  BY <1>3, HeadType
<1>7. Stands(log, s)
  BY <1>2, <1>4, <1>5, HeadType DEF Stands, HeadInv
<1>8. Unseen(log, s)
  BY <1>2, <1>4, <1>5, <1>6, HeadType DEF Unseen, HeadInv
<1>9. Named(s)
  <2>1. CASE w[Main] = Same
    <3>1. s[Main] = refs[Main]
      BY <1>4, <1>5, <2>1, HeadType
    <3> SUFFICES ASSUME refs[Main] # None PROVE s[refs[Main]] # None
      BY <3>1 DEF Named
    <3>2. refs[Main] \in Changes /\ refs[refs[Main]] # None
      BY <1>1, HeadType DEF HeadInv, Named
    <3>3. w[refs[Main]] # None
      BY <1>2, <2>1, <3>2 DEF HeadInv, Unseen
    <3> QED
      BY <1>4, <1>5, <3>2, <3>3, HeadType
  <2>2. CASE w[Main] = None
    BY <1>4, <1>5, <2>2, HeadType DEF Named
  <2>3. CASE w[Main] \in Changes
    <3>1. s[Main] = w[Main]
      BY <1>4, <1>5, <2>3, HeadType
    <3>2. refs[w[Main]] # None /\ w[w[Main]] # None
      BY <1>2, <2>3 DEF HeadInv, Stands
    <3> QED
      BY <1>4, <1>5, <2>3, <3>1, <3>2, HeadType DEF Named
  <2> QED
    BY <1>6, <2>1, <2>2, <2>3
<1> QED
  BY <1>7, <1>8, <1>9 DEF HeadInv, s

\* A record that is appended captures, before, refs in which HEAD was named.
LEMMA HeadPush ==
  ASSUME TypeOK, HeadInv(log, refs), HeadInv(log, refs'),
         NEW id, NEW type, NEW w \in Capture, Step(id, type, w), type # "Undo", Forward(type, w)
  PROVE  HeadInv(log', refs')
<1> DEFINE n == Len(log)
           b == log'[n + 1].before
<1>1. Grows(log, log') /\ n \in Nat /\ refs \in RefStates
  BY LenType DEF Step, TypeOK
<1>2. Live(log') = Live(log) \cup {n + 1}
  BY <1>1, LivePush DEF Step, UndoIn
<1>3. \A i \in Live(log) : i \in 1..n /\ log'[i] = log[i] /\ i < n + 1 /\ n + 1 # i
  BY <1>1 DEF Grows, Live
<1>4. \A r \in RefNames : /\ b[r] = IF w[r] # Same THEN refs[r] ELSE Same
                          /\ refs'[r] = IF w[r] # Same THEN w[r] ELSE refs[r]
  BY <1>1, OverwriteIs DEF Step, ReadCurrent, Overwrite, Listed
<1>5. \A c \in Changes : (refs[c] # None => refs'[c] # None) /\ (refs[c] # None => b[c] # None)
  <2>1. \A c \in Changes : w[c] # None
    BY HeadType DEF Forward, Listed
  <2> QED
    BY <1>4, <2>1, HeadType, NoneIsNoRef
<1>6. \A i \in Live(log) : log'[i].before[Main] \in {None, Same} \cup Changes
  BY <1>3, LiveEntry, HeadType
<1> HIDE DEF n, b
<1>7. Stands(log', refs')
  <2> SUFFICES ASSUME NEW i \in Live(log'), log'[i].before[Main] \in Changes
               PROVE  /\ refs'[log'[i].before[Main]] # None
                      /\ \A j \in Live(log') : i <= j => log'[j].before[log'[i].before[Main]] # None
    BY DEF Stands
  <2>1. CASE i \in Live(log)
    <3>1. /\ refs[log'[i].before[Main]] # None
          /\ \A j \in Live(log) : i <= j => log'[j].before[log'[i].before[Main]] # None
      BY <1>3, <2>1 DEF HeadInv, Stands
    <3> QED
      BY <1>2, <1>5, <3>1 DEF b
  <2>2. CASE i = n + 1
    <3>1. b[Main] = refs[Main] /\ b[Main] \in Changes
      BY <1>4, <2>2, HeadType DEF b
    <3>2. refs[b[Main]] # None
      BY <3>1, HeadType DEF HeadInv, Named
    <3>3. \A j \in Live(log') : i <= j => j = n + 1
      BY <1>1, <1>2, <1>3, <2>2
    <3> QED
      BY <1>5, <2>2, <3>1, <3>2, <3>3 DEF b
  <2> QED
    BY <1>2, <2>1, <2>2
<1>8. Unseen(log', refs')
  <2> SUFFICES ASSUME NEW i \in Live(log'), NEW h \in Changes,
                      log'[i].before[h] = None, log'[i].before[Main] = Same
               PROVE  /\ refs'[Main] # h
                      /\ \A j \in Live(log') : i < j => log'[j].before[Main] # h
    BY DEF Unseen
  <2>1. CASE i \in Live(log)
    <3>1. /\ refs'[Main] # h /\ refs[Main] # h
          /\ \A j \in Live(log) : i < j => log'[j].before[Main] # h
      BY <1>3, <2>1 DEF HeadInv, Unseen
    <3>2. b[Main] # h
      BY <1>4, <3>1, HeadType
    <3> QED
      BY <1>2, <3>1, <3>2 DEF b
  <2>2. CASE i = n + 1
    <3>1. refs[h] = None /\ refs'[Main] = refs[Main]
      BY <1>1, <1>4, <2>2, HeadType DEF b
    <3>2. refs[Main] # h
      BY <3>1, HeadType DEF HeadInv, Named
    <3>3. \A j \in Live(log') : ~(i < j)
      BY <1>1, <1>2, <1>3, <2>2
    <3> QED
      BY <3>1, <3>2, <3>3
  <2> QED
    BY <1>2, <2>1, <2>2
<1> QED
  BY <1>7, <1>8 DEF HeadInv

\* An op that is undone is one condition less.
LEMMA HeadPop ==
  ASSUME Grows(log, log'), Live(log') \subseteq Live(log), HeadInv(log, refs')
  PROVE  HeadInv(log', refs')
<1>1. \A i \in Live(log) : log'[i] = log[i]
  BY DEF Grows, Live
<1> QED
  BY <1>1 DEF HeadInv, Stands, Unseen

\* Every step, finished or cut short, leaves HEAD with a change that is there, and
\* able to go back to one.
LEMMA HeadStep ==
  ASSUME TypeInv, HeadInv(log, refs), [NextCrash]_vars
  PROVE  HeadInv(log', refs')
<1> USE DEF TypeInv
<1>1. CASE UNCHANGED <<refs, log>>
  BY <1>1
<1>2. CASE log' = log /\ \E x \in Capture : refs' = Overwrite(refs, x) /\ Remains(x)
  BY <1>2, HeadForward, HeadBack DEF Remains
<1>3. CASE Records
  <2>1. PICK id \in Nat, type \in OpTypes, undone \in Nat \cup {None}, w \in Capture :
           Step(id, type, w) /\ Kind(type, undone, w)
    BY <1>3, RecordsStep
  <2>2. refs' = Overwrite(refs, w) /\ Grows(log, log') /\ log'[Len(log) + 1].type = type
    BY <2>1 DEF Step
  <2>3. CASE type # "Undo"
    <3>1. Forward(type, w)
      BY <2>1, <2>3 DEF Kind
    <3>2. HeadInv(log, refs')
      BY <2>2, <3>1, HeadForward
    <3> QED
      BY <2>1, <2>3, <3>1, <3>2, HeadPush
  <2>4. CASE type = "Undo"
    <3>1. PickOpToUndo # 0 /\ w = log[PickOpToUndo].before
      BY <2>1, <2>4, UndoWritesType DEF Step
    <3>2. w \in Partial(log[PickOpToUndo].before, Workspaces)
      BY <3>1 DEF Partial
    <3>3. HeadInv(log, refs')
      BY <2>2, <3>1, <3>2, HeadBack
    <3>4. Live(log') \subseteq Live(log)
      BY <2>2, <2>4, <3>1, LivePopPick DEF UndoIn
    <3> QED
      BY <2>2, <3>3, <3>4, HeadPop
  <2> QED
    BY <2>3, <2>4
<1> QED
  BY <1>1, <1>2, <1>3, CrashStep

\* HEAD never names a change that is not there: not after an undo of any op by
\* anybody, nor where a command or an undo dies between two of its writes
\* (current_change_id would fail from then on, and with it every command).
THEOREM HeadSafe == SpecCrash => []HeadExists
<1>1. Init => HeadInv(log, refs)
  <2> SUFFICES ASSUME Init PROVE HeadInv(log, refs)
    OBVIOUS
  <2>1. Live(log) = {} /\ refs[Main] = None
    BY HeadType DEF Init, Live
  <2> QED
    BY <2>1 DEF HeadInv, Stands, Unseen, Named
<1>2. TypeInv /\ HeadInv(log, refs) /\ [NextCrash]_vars => TypeInv' /\ HeadInv(log, refs)'
  BY CrashStep, HeadStep
<1>3. HeadInv(log, refs) => HeadExists
  BY DEF HeadInv, Named, HeadExists
<1> QED
  BY TypeInvInit, <1>1, <1>2, <1>3, PTL DEF SpecCrash

----------------------------------------------------------------------------
(* The op undo picks                                                        *)

\* The ops no Undo of the log names.
NotUndoneIn(lg) == {i \in 1..Len(lg) : /\ ~UndoIn(lg, i)
                                       /\ \A j \in 1..Len(lg) : lg[j].undone # lg[i].id}

\* With ids that are indices, an Undo names an earlier record, no other record names
\* any, and the records not named are the live ones.
UndoneInv(lg) ==
  /\ \A i \in 1..Len(lg) : lg[i].undone \in {None} \cup 0..i-2
  /\ NotUndoneIn(lg) = Live(lg)

\* NotUndone is that of this state's log.
LEMMA NotUndoneIs == NotUndone = NotUndoneIn(log)
BY DEF NotUndone, NotUndoneIn, IsUndo, UndoIn

\* A record that names none, or the op picked, keeps the two sets equal.
LEMMA UndoneStep ==
  ASSUME TypeOK, IdsDense, IdsDense', UndoneInv(log),
         NEW id, NEW type, NEW undone, NEW w \in Capture,
         Step(id, type, w), Kind(type, undone, w), log'[Len(log) + 1].undone = undone
  PROVE  UndoneInv(log')
<1> DEFINE n == Len(log)
           m == PickOpToUndo
<1>1. /\ Grows(log, log') /\ n \in Nat /\ Len(log') = n + 1 /\ log'[n + 1].type = type
      /\ \A i \in 1..n : log'[i] = log[i]
  BY LenType DEF Step, Grows
<1>2. \A i \in 1..n+1 : log'[i].id = i - 1
  BY <1>1 DEF IdsDense
<1>3. \A i \in 1..n : log'[i].undone \in {None} \cup 0..i-2
  BY <1>1 DEF UndoneInv
<1>4. Live(log) \subseteq 1..n /\ NotUndoneIn(log) = Live(log)
  BY DEF Live, UndoneInv
<1>5. \A i \in 1..n : i \in Live(log) <=> ~UndoIn(log', i) /\ \A j \in 1..n : log'[j].undone # i - 1
  <2> SUFFICES ASSUME NEW i \in 1..n
               PROVE  i \in NotUndoneIn(log) <=> ~UndoIn(log', i) /\ \A j \in 1..n : log'[j].undone # i - 1
    BY <1>4
  <2>1. log[i].id = i - 1 /\ log'[i] = log[i] /\ \A j \in 1..n : log'[j] = log[j]
    BY <1>1 DEF IdsDense
  <2> QED
    BY <2>1 DEF NotUndoneIn, UndoIn
<1>6. CASE type # "Undo"
  <2>1. undone = None /\ ~UndoIn(log', n + 1)
    BY <1>1, <1>6 DEF Kind, UndoIn
  <2>2. Live(log') = Live(log) \cup {n + 1}
    BY <1>1, <2>1, LivePush
  <2>3. \A i \in 1..n : log'[i].undone # n
    BY <1>1, <1>3, MarksAreNoRecords
  <2>4. log'[n + 1].undone = None /\ None \notin Nat
    BY <2>1, MarksAreNoRecords
  <2> HIDE DEF n
  <2>5. \A i \in 1..n+1 : i \in NotUndoneIn(log') <=> i \in Live(log')
    <3>1. ASSUME NEW i \in 1..n
          PROVE  i \in NotUndoneIn(log') <=> i \in Live(log)
      <4>1. 1..n+1 = (1..n) \cup {n + 1} /\ i - 1 \in Nat /\ i \in 1..n+1 /\ log'[i].id = i - 1
        BY <1>1, <1>2
      <4> QED
        BY <1>1, <1>5, <2>4, <4>1 DEF NotUndoneIn
    <3>2. n + 1 \in NotUndoneIn(log')
      <4>1. 1..n+1 = (1..n) \cup {n + 1} /\ n + 1 \in 1..n+1 /\ log'[n + 1].id = n
        BY <1>1, <1>2
      <4> QED
        BY <1>1, <2>1, <2>3, <2>4, <4>1 DEF NotUndoneIn
    <3>3. n + 1 \notin 1..n /\ 1..n+1 = (1..n) \cup {n + 1}
      BY <1>1
    <3> QED
      BY <2>2, <3>1, <3>2, <3>3
  <2>6. NotUndoneIn(log') \subseteq 1..n+1 /\ Live(log') \subseteq 1..n+1
    BY <1>1 DEF NotUndoneIn, Live
  <2>7. \A i \in 1..n+1 : log'[i].undone \in {None} \cup 0..i-2
    BY <1>1, <1>3, <2>4
  <2> QED
    BY <1>1, <2>5, <2>6, <2>7 DEF UndoneInv
<1>7. CASE type = "Undo"
  <2>1. m # 0 /\ UndoIn(log', n + 1) /\ undone = log[m].id
    BY <1>1, <1>7, UndoWritesType DEF Kind, UndoIn
  <2>2. m \in Live(log) /\ Live(log') = Live(log) \ {m}
    BY <1>1, <2>1, PickIsTopLive, LivePopPick
  <2> HIDE DEF m
  <2>3. m \in 1..n /\ log'[n + 1].undone = m - 1
    BY <1>4, <2>1, <2>2 DEF IdsDense
  <2> HIDE DEF n
  <2>4. ASSUME NEW i \in 1..n
        PROVE  i \in NotUndoneIn(log') <=> i \in Live(log')
    <3>1. 1..n+1 = (1..n) \cup {n + 1} /\ i \in 1..n+1 /\ i \in Int
      BY <1>1
    <3>2. m - 1 = i - 1 <=> m = i
      BY <2>3, <3>1
    <3>3. log'[i].id = i - 1
      BY <1>2, <3>1
    <3> QED
      BY <1>1, <1>5, <2>2, <2>3, <3>1, <3>2, <3>3 DEF NotUndoneIn
  <2>5. NotUndoneIn(log') \subseteq 1..n /\ Live(log') \subseteq 1..n
    <3>1. 1..n+1 = (1..n) \cup {n + 1}
      BY <1>1
    <3> QED
      BY <1>1, <1>4, <2>1, <2>2, <3>1 DEF NotUndoneIn
  <2>6. \A i \in 1..n+1 : log'[i].undone \in {None} \cup 0..i-2
    <3>1. m - 1 \in 0..(n+1)-2
      BY <1>1, <2>3
    <3>2. \A i \in 1..n+1 : i \in 1..n \/ i = n + 1
      BY <1>1
    <3> QED
      BY <1>3, <2>3, <3>1, <3>2
  <2> QED
    BY <1>1, <2>4, <2>5, <2>6 DEF UndoneInv
<1> QED
  BY <1>6, <1>7

\* The invariant of the CLI alone, deaths included.
CliInv == TypeInv /\ IdsDense /\ UndoneInv(log)

\* The CLI alone keeps it.
LEMMA CliStepInv ==
  ASSUME Handles = {}, CliInv, [NextCrash]_vars
  PROVE  CliInv'
<1>1. TypeInv'
  BY CrashStep DEF CliInv
<1>2. IdsDense'
  <2>1. ASSUME NEW p \in Procs, Crash(p) PROVE IdsDense'
    BY <2>1 DEF Crash, CliInv, IdsDense
  <2> QED
    BY <2>1, IdsDenseStep DEF NextCrash, CliInv
<1>3. UndoneInv(log')
  <2>1. CASE log' = log
    BY <2>1 DEF CliInv
  <2>2. CASE Records
    BY <1>2, <2>2, RecordsStep, UndoneStep DEF CliInv, TypeInv
  <2> QED
    BY <2>1, <2>2, CrashStep DEF CliInv
<1> QED
  BY <1>1, <1>2, <1>3 DEF CliInv

\* And it holds of an empty repository.
LEMMA CliInit ==
  ASSUME Init
  PROVE  CliInv
<1>1. Len(log) = 0
  BY DEF Init
<1>2. IdsDense /\ UndoneInv(log)
  BY <1>1 DEF IdsDense, UndoneInv, NotUndoneIn, Live
<1> QED
  BY <1>2, TypeInvInit DEF CliInv

\* compute_next_id under the write lock never gives an id twice, nor does the death
\* of a command make it.
THEOREM CrashIdsUnique ==
  ASSUME Handles = {}
  PROVE  SpecCrash => []OpIdsUnique
<1>1. CliInv /\ [NextCrash]_vars => CliInv'
  BY CliStepInv
<1>2. CliInv => OpIdsUnique
  BY LenType DEF CliInv, IdsDense, OpIdsUnique, TypeInv
<1> QED
  BY CliInit, <1>1, <1>2, PTL DEF SpecCrash

\* pick_op_to_undo, which counts and looks at no id, finds the last op that no Undo
\* of the log names, in a log of any length and nesting of undos.
THEOREM PickIsLastOp ==
  ASSUME Handles = {}
  PROVE  SpecCrash => []PickIsLastNotUndone
<1>1. CliInv /\ [NextCrash]_vars => CliInv'
  BY CliStepInv
<1>2. CliInv => PickIsLastNotUndone
  <2> SUFFICES ASSUME CliInv PROVE PickIsLastNotUndone
    OBVIOUS
  <2>1. NotUndone = Live(log) /\ 0 \notin Live(log)
    BY NotUndoneIs DEF CliInv, UndoneInv, Live
  <2> QED
    BY <2>1, PickIsTopLive DEF PickIsLastNotUndone, CliInv, TypeInv
<1> QED
  BY CliInit, <1>1, <1>2, PTL DEF SpecCrash

=============================================================================
