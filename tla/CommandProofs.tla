--------------------------- MODULE CommandProofs ---------------------------
(* A writing command is atomic: Command implements Ledger, whatever the    *)
(* number of processes and refs and wherever processes die.                *)
EXTENDS Command, SequenceTheorems, TLAPS

\* The fields of mine; `before` is nothing or a reading of some refs.
Reading == {<< >>} \cup UNION {[S -> Nat] : S \in SUBSET Refs}
Mine == [before : Reading, todo : SUBSET Refs, id : Nat]
Places == {"idle", "want", "open", "read", "write", "header", "payload", "done", "corrupt"}
Op == [id : Nat, before : Reading, after : Reading]

TypeInv ==
  /\ refs \in [Refs -> Nat]
  /\ log \in Seq(Op)
  /\ torn \in BOOLEAN
  /\ lock \in Procs \cup {Nobody}
  /\ pc \in [Procs -> Places]
  /\ job \in [Procs -> Jobs \cup {NoJob}]
  /\ mine \in [Procs -> Mine]
  /\ crashes \in Nat

\* Who has left "want" and not ended is who holds the lock.
LockInv ==
  \A p \in Procs :
    /\ pc[p] \notin {"idle", "want"} <=> lock = p
    /\ pc[p] # "idle" => job[p] \in Jobs

\* The refs a command has read are as it read them, or one further when it has
\* written them; nobody else writes them.
RefsInv ==
  \A p \in Procs : Unrecorded(p) =>
    /\ mine[p].before \in [job[p].writes -> Nat]
    /\ \A r \in job[p].writes :
         refs[r] = IF pc[p] = "write" /\ r \in mine[p].todo
                   THEN mine[p].before[r] ELSE mine[p].before[r] + 1
    /\ pc[p] = "write" => mine[p].todo \subseteq job[p].writes /\ mine[p].todo # {}

\* A command has its id once it has opened the log, and nobody else appends.
IdInv ==
  \A p \in Procs :
    \/ pc[p] \in {"header", "payload"}
    \/ pc[p] \in {"read", "write"} /\ ~job[p].late
    => mine[p].id = Len(log)

\* Halves of records are left by the dead, but for the one being written.
TornInv ==
  /\ torn /\ crashes = 0 => lock # Nobody /\ pc[lock] = "payload"
  /\ (\E p \in Procs : pc[p] = "corrupt") => crashes # 0

IInv == TypeInv /\ LockInv /\ RefsInv /\ IdInv /\ TornInv

----------------------------------------------------------------------------

\* Before any command (Init).
LEMMA InvInit == Init => IInv
<1> SUFFICES ASSUME Init PROVE IInv
  OBVIOUS
<1>1. TypeInv
  BY EmptySeq DEF Init, TypeInv, Mine, Reading, Blank, Places
<1>2. LockInv /\ RefsInv /\ IdInv /\ TornInv
  BY NobodyIsNoProc DEF Init, LockInv, RefsInv, IdInv, TornInv, Unrecorded
<1> QED
  BY <1>1, <1>2 DEF IInv

\* What the command of p knows, given anew.
Knows(p, b, t, n) == [mine EXCEPT ![p] = [before |-> b, todo |-> t, id |-> n]]

LEMMA KnowsType ==
  ASSUME TypeInv, NEW p \in Procs, NEW b \in Reading, NEW t \in SUBSET Refs, NEW n \in Nat
  PROVE  Knows(p, b, t, n) \in [Procs -> Mine]
BY DEF TypeInv, Mine, Knows

\* Open and Write change one field of it.
LEMMA OneField ==
  ASSUME TypeInv, NEW p \in Procs, NEW n, NEW r
  PROVE  /\ [mine EXCEPT ![p].id = n] = Knows(p, mine[p].before, mine[p].todo, n)
         /\ [mine EXCEPT ![p].todo = @ \ {r}]
              = Knows(p, mine[p].before, mine[p].todo \ {r}, mine[p].id)
<1> DEFINE m == mine[p]
           t == mine[p].todo \ {r}
<1>1. m \in Mine
  BY DEF TypeInv
<1>2. [m EXCEPT !.id = n] = [before |-> m.before, todo |-> m.todo, id |-> n]
  <2> HIDE DEF m
  <2> QED BY <1>1 DEF Mine
<1>3. [m EXCEPT !.todo = t] = [before |-> m.before, todo |-> t, id |-> m.id]
  <2> HIDE DEF m, t
  <2> QED BY <1>1 DEF Mine
<1> QED
  BY <1>2, <1>3, Zenon DEF Knows

\* What it knows of its captures (RefsInv) has the form of a record's.
LEMMA CaptureType ==
  ASSUME IInv, NEW p \in Procs, Unrecorded(p)
  PROVE  /\ job[p].writes \in SUBSET Refs
         /\ mine[p].before \in Reading /\ After(p) \in Reading
         /\ \A r \in job[p].writes : mine[p].before[r] \in Nat
<1>1. pc[p] # "idle" /\ pc[p] \in Places
  BY DEF Unrecorded, IInv, TypeInv
<1>2. job[p].writes \in SUBSET Refs
  BY <1>1 DEF IInv, LockInv, Jobs
<1>3. mine[p].before \in [job[p].writes -> Nat]
  BY DEF IInv, RefsInv
<1> QED
  BY <1>2, <1>3 DEF After, Reading

\* The effects of Open and Write.
LEMMA OpenEffect ==
  ASSUME IInv, NEW p \in Procs, Open(p)
  PROVE  /\ pc[p] = "open"
         /\ UNCHANGED <<refs, log, torn, lock, job, started, crashes>>
         /\ \/ torn /\ GoTo(p, "corrupt") /\ mine' = mine
            \/ /\ ~torn
               /\ GoTo(p, IF job[p].late THEN "header" ELSE "read")
               /\ mine' = Knows(p, mine[p].before, mine[p].todo, Len(log))
BY OneField, Zenon DEF Open, IInv

LEMMA WriteEffect ==
  ASSUME IInv, NEW p \in Procs, Write(p)
  PROVE  /\ pc[p] = "write" /\ Unrecorded(p)
         /\ UNCHANGED <<log, torn, lock, job, started, crashes>>
         /\ \E r \in mine[p].todo :
              /\ r \in job[p].writes
              /\ refs' = [refs EXCEPT ![r] = mine[p].before[r] + 1]
              /\ mine' = Knows(p, mine[p].before, mine[p].todo \ {r}, mine[p].id)
              /\ GoTo(p, IF mine[p].todo # {r} THEN "write"
                         ELSE IF job[p].late THEN "open" ELSE "header")
<1>1. pc[p] = "write" /\ Unrecorded(p) /\ UNCHANGED <<log, torn, lock, job, started, crashes>>
  BY Zenon DEF Write, Unrecorded
<1>2. PICK r \in mine[p].todo :
        /\ refs' = [refs EXCEPT ![r] = mine[p].before[r] + 1]
        /\ mine' = [mine EXCEPT ![p].todo = @ \ {r}]
        /\ GoTo(p, IF mine[p].todo # {r} THEN "write"
                   ELSE IF job[p].late THEN "open" ELSE "header")
  BY Zenon DEF Write
<1>3. mine[p].todo \subseteq job[p].writes
  BY <1>1, Zenon DEF IInv, RefsInv
<1>4. mine' = Knows(p, mine[p].before, mine[p].todo \ {r}, mine[p].id)
  BY <1>2, OneField, Zenon DEF IInv
<1>5. r \in job[p].writes
  BY <1>3, Zenon
<1> QED
  BY <1>1, <1>2, <1>4, <1>5, Zenon

\* Each step keeps the types.
LEMMA TypeStep ==
  ASSUME IInv, [Next]_vars
  PROVE  TypeInv'
<1> USE DEF IInv, TypeInv, GoTo, Forget, Places
<1>1. ASSUME NEW p \in Procs, Start(p) PROVE TypeInv'
  BY <1>1 DEF Start
<1>2. ASSUME NEW p \in Procs, Acquire(p) PROVE TypeInv'
  BY <1>2 DEF Acquire
<1>3. ASSUME NEW p \in Procs, Open(p) PROVE TypeInv'
  <2>1. Len(log) \in Nat
    BY LenProperties
  <2>2. mine[p] \in Mine
    OBVIOUS
  <2>3. Knows(p, mine[p].before, mine[p].todo, Len(log)) \in [Procs -> Mine]
    BY <2>1, <2>2, KnowsType DEF Mine
  <2>4. mine' \in [Procs -> Mine]
    BY <1>3, <2>3, OpenEffect
  <2>5. pc' \in [Procs -> Places]
    BY <1>3, OpenEffect
  <2>6. UNCHANGED <<refs, log, torn, lock, job, crashes>>
    BY <1>3, OpenEffect
  <2> QED
    BY <2>4, <2>5, <2>6
<1>4. ASSUME NEW p \in Procs, Read(p) PROVE TypeInv'
  <2>1. job[p].writes \in SUBSET Refs
    BY DEF Jobs, NoJob
  <2>2. [r \in job[p].writes |-> refs[r]] \in Reading
    BY <2>1 DEF Reading
  <2> QED
    BY <1>4, <2>1, <2>2 DEF Read, Mine
<1>5. ASSUME NEW p \in Procs, Write(p) PROVE TypeInv'
  <2>1. PICK r \in mine[p].todo :
          /\ r \in job[p].writes
          /\ refs' = [refs EXCEPT ![r] = mine[p].before[r] + 1]
          /\ mine' = Knows(p, mine[p].before, mine[p].todo \ {r}, mine[p].id)
          /\ GoTo(p, IF mine[p].todo # {r} THEN "write"
                     ELSE IF job[p].late THEN "open" ELSE "header")
    BY <1>5, WriteEffect
  <2>2. mine[p].before \in Reading /\ mine[p].todo \in SUBSET Refs /\ mine[p].id \in Nat
    BY DEF Mine
  <2>3. mine' \in [Procs -> Mine]
    BY <2>1, <2>2, KnowsType
  <2>4. mine[p].before[r] + 1 \in Nat
    BY <1>5, <2>1, WriteEffect, CaptureType
  <2>5. refs' \in [Refs -> Nat]
    BY <2>1, <2>4
  <2>6. pc' \in [Procs -> Places]
    BY <2>1
  <2>7. UNCHANGED <<log, torn, lock, job, crashes>>
    BY <1>5, WriteEffect
  <2> QED
    BY <2>3, <2>5, <2>6, <2>7
<1>6. ASSUME NEW p \in Procs, Header(p) PROVE TypeInv'
  BY <1>6 DEF Header
<1>7. ASSUME NEW p \in Procs, Payload(p) PROVE TypeInv'
  <2> DEFINE op == [id |-> mine[p].id, before |-> mine[p].before, after |-> After(p)]
  <2>1. op \in Op
    BY <1>7, CaptureType DEF Payload, Unrecorded, Op, Mine
  <2>2. log' \in Seq(Op)
    BY <1>7, <2>1, AppendProperties DEF Payload
  <2> QED
    BY <1>7, <2>2 DEF Payload
<1>8. ASSUME NEW p \in Procs, Release(p) PROVE TypeInv'
  BY <1>8 DEF Release, Mine, Reading, Blank
<1>9. ASSUME NEW p \in Procs, Crash(p) PROVE TypeInv'
  BY <1>9 DEF Crash, Mine, Reading, Blank
<1>10. CASE UNCHANGED vars
  BY <1>10 DEF vars
<1> QED
  BY <1>1, <1>2, <1>3, <1>4, <1>5, <1>6, <1>7, <1>8, <1>9, <1>10 DEF Next, Step

\* Only one command is past the lock (repo.rs, lock_for_write).
LEMMA OthersWait ==
  ASSUME IInv, NEW p \in Procs, pc[p] \notin {"idle", "want"},
         NEW q \in Procs, q # p
  PROVE  pc[q] \in {"idle", "want"} /\ ~Unrecorded(q)
BY DEF IInv, LockInv, Unrecorded

\* Each step keeps the lock with the command that is past it.
LEMMA LockStep ==
  ASSUME IInv, [Next]_vars
  PROVE  LockInv'
<1> USE NobodyIsNoProc DEF IInv, TypeInv, LockInv, GoTo, Forget, Places
<1>1. ASSUME NEW p \in Procs, Start(p) PROVE LockInv'
  BY <1>1 DEF Start
<1>2. ASSUME NEW p \in Procs, Acquire(p) PROVE LockInv'
  BY <1>2 DEF Acquire
<1>3. ASSUME NEW p \in Procs, Open(p) PROVE LockInv'
  BY <1>3, OpenEffect
<1>4. ASSUME NEW p \in Procs, Read(p) PROVE LockInv'
  BY <1>4 DEF Read
<1>5. ASSUME NEW p \in Procs, Write(p) PROVE LockInv'
  BY <1>5, WriteEffect
<1>6. ASSUME NEW p \in Procs, Header(p) PROVE LockInv'
  BY <1>6 DEF Header
<1>7. ASSUME NEW p \in Procs, Payload(p) PROVE LockInv'
  BY <1>7 DEF Payload
<1>8. ASSUME NEW p \in Procs, Release(p) PROVE LockInv'
  BY <1>8 DEF Release
<1>9. ASSUME NEW p \in Procs, Crash(p) PROVE LockInv'
  BY <1>9 DEF Crash
<1>10. CASE UNCHANGED vars
  BY <1>10 DEF vars
<1> QED
  BY <1>1, <1>2, <1>3, <1>4, <1>5, <1>6, <1>7, <1>8, <1>9, <1>10 DEF Next, Step

\* Each step leaves the refs as the command past the lock knows them.
LEMMA RefsStep ==
  ASSUME IInv, [Next]_vars
  PROVE  RefsInv'
<1> USE DEF IInv, TypeInv, RefsInv, GoTo, Forget, Places, Unrecorded
<1>1. ASSUME NEW p \in Procs, Start(p) PROVE RefsInv'
  BY <1>1 DEF Start
<1>2. ASSUME NEW p \in Procs, Acquire(p) PROVE RefsInv'
  BY <1>2 DEF Acquire
<1>3. ASSUME NEW p \in Procs, Open(p) PROVE RefsInv'
  BY <1>3, OpenEffect, OthersWait DEF Knows
<1>4. ASSUME NEW p \in Procs, Read(p) PROVE RefsInv'
  BY <1>4, OthersWait DEF Read, LockInv, Jobs
<1>5. ASSUME NEW p \in Procs, Write(p) PROVE RefsInv'
  <2>1. PICK r \in mine[p].todo :
          /\ r \in job[p].writes
          /\ refs' = [refs EXCEPT ![r] = mine[p].before[r] + 1]
          /\ mine' = Knows(p, mine[p].before, mine[p].todo \ {r}, mine[p].id)
          /\ GoTo(p, IF mine[p].todo # {r} THEN "write"
                     ELSE IF job[p].late THEN "open" ELSE "header")
    BY <1>5, WriteEffect
  <2>2. pc[p] = "write" /\ UNCHANGED job
    BY <1>5, WriteEffect
  <2>3. \A q \in Procs : q # p => ~Unrecorded(q)'
    BY <2>1, <2>2, OthersWait DEF Knows
  <2>4. mine'[p].before = mine[p].before /\ mine'[p].todo = mine[p].todo \ {r}
    BY <2>1 DEF Knows
  <2>5. \A x \in job[p].writes : x \in Refs
    BY <2>2, CaptureType
  <2>6. /\ mine[p].before \in [job[p].writes -> Nat]
        /\ \A x \in job[p].writes :
             refs[x] = IF x \in mine[p].todo THEN mine[p].before[x] ELSE mine[p].before[x] + 1
        /\ mine[p].todo \subseteq job[p].writes
    BY <2>2
  <2>7. \A x \in job[p].writes :
          refs'[x] = IF x \in mine'[p].todo THEN mine[p].before[x] ELSE mine[p].before[x] + 1
    BY <2>1, <2>4, <2>5, <2>6
  <2>8. IF mine'[p].todo # {} THEN pc'[p] = "write" ELSE pc'[p] \in {"open", "header"}
    <3> DEFINE t == mine[p].todo
    <3>1. t \ {r} # {} <=> t # {r}
      <4> HIDE DEF t
      <4>1. r \in t
        BY DEF t
      <4> QED BY <4>1
    <3>2. pc'[p] = IF t # {r} THEN "write" ELSE IF job[p].late THEN "open" ELSE "header"
      BY <2>1
    <3> HIDE DEF t
    <3>3. mine'[p].todo = t \ {r}
      BY <2>4 DEF t
    <3> QED
      BY <3>1, <3>2, <3>3
  <2>9. mine'[p].todo \subseteq job[p].writes
    BY <2>4, <2>6
  <2> QED
    BY <2>2, <2>3, <2>4, <2>6, <2>7, <2>8, <2>9
<1>6. ASSUME NEW p \in Procs, Header(p) PROVE RefsInv'
  BY <1>6 DEF Header
<1>7. ASSUME NEW p \in Procs, Payload(p) PROVE RefsInv'
  BY <1>7 DEF Payload
<1>8. ASSUME NEW p \in Procs, Release(p) PROVE RefsInv'
  BY <1>8 DEF Release
<1>9. ASSUME NEW p \in Procs, Crash(p) PROVE RefsInv'
  BY <1>9 DEF Crash
<1>10. CASE UNCHANGED vars
  BY <1>10 DEF vars
<1> QED
  BY <1>1, <1>2, <1>3, <1>4, <1>5, <1>6, <1>7, <1>8, <1>9, <1>10 DEF Next, Step

\* Each step keeps the id of a command that has opened the log the next one.
LEMMA IdStep ==
  ASSUME IInv, [Next]_vars
  PROVE  IdInv'
<1> USE DEF IInv, TypeInv, IdInv, GoTo, Forget, Places
<1>1. ASSUME NEW p \in Procs, Start(p) PROVE IdInv'
  BY <1>1 DEF Start
<1>2. ASSUME NEW p \in Procs, Acquire(p) PROVE IdInv'
  BY <1>2 DEF Acquire
<1>3. ASSUME NEW p \in Procs, Open(p) PROVE IdInv'
  BY <1>3, OpenEffect, OthersWait DEF Knows
<1>4. ASSUME NEW p \in Procs, Read(p) PROVE IdInv'
  BY <1>4 DEF Read, Mine
<1>5. ASSUME NEW p \in Procs, Write(p) PROVE IdInv'
  BY <1>5, WriteEffect, OthersWait DEF Knows
<1>6. ASSUME NEW p \in Procs, Header(p) PROVE IdInv'
  BY <1>6 DEF Header
<1>7. ASSUME NEW p \in Procs, Payload(p) PROVE IdInv'
  BY <1>7, OthersWait DEF Payload
<1>8. ASSUME NEW p \in Procs, Release(p) PROVE IdInv'
  BY <1>8 DEF Release
<1>9. ASSUME NEW p \in Procs, Crash(p) PROVE IdInv'
  BY <1>9 DEF Crash
<1>10. CASE UNCHANGED vars
  BY <1>10 DEF vars
<1> QED
  BY <1>1, <1>2, <1>3, <1>4, <1>5, <1>6, <1>7, <1>8, <1>9, <1>10 DEF Next, Step

\* Each step that leaves half a record behind is a death, or goes on to complete it.
LEMMA TornStep ==
  ASSUME IInv, [Next]_vars
  PROVE  TornInv'
<1> USE NobodyIsNoProc DEF IInv, TypeInv, TornInv, GoTo, Forget, Places
<1>1. ASSUME NEW p \in Procs, Start(p) PROVE TornInv'
  BY <1>1 DEF Start
<1>2. ASSUME NEW p \in Procs, Acquire(p) PROVE TornInv'
  BY <1>2 DEF Acquire
<1>3. ASSUME NEW p \in Procs, Open(p) PROVE TornInv'
  BY <1>3, OpenEffect DEF LockInv
<1>4. ASSUME NEW p \in Procs, Read(p) PROVE TornInv'
  BY <1>4 DEF Read
<1>5. ASSUME NEW p \in Procs, Write(p) PROVE TornInv'
  <2>1. /\ pc[p] = "write" /\ UNCHANGED <<torn, lock, crashes>>
        /\ \E l \in {"write", "open", "header"} : pc' = [pc EXCEPT ![p] = l]
    BY <1>5, WriteEffect
  <2> QED
    BY <2>1
<1>6. ASSUME NEW p \in Procs, Header(p) PROVE TornInv'
  BY <1>6 DEF Header, LockInv
<1>7. ASSUME NEW p \in Procs, Payload(p) PROVE TornInv'
  BY <1>7 DEF Payload
<1>8. ASSUME NEW p \in Procs, Release(p) PROVE TornInv'
  BY <1>8 DEF Release, LockInv
<1>9. ASSUME NEW p \in Procs, Crash(p) PROVE TornInv'
  BY <1>9 DEF Crash
<1>10. CASE UNCHANGED vars
  BY <1>10 DEF vars
<1> QED
  BY <1>1, <1>2, <1>3, <1>4, <1>5, <1>6, <1>7, <1>8, <1>9, <1>10 DEF Next, Step

----------------------------------------------------------------------------

\* The strengthening: types, who holds the lock, what its command knows of the
\* refs and of the log, and who leaves half a record (repo.rs, oplog.rs append).
THEOREM IInvariant == Spec => []IInv
<1>1. IInv /\ [Next]_vars => IInv'
  BY TypeStep, LockStep, RefsStep, IdStep, TornStep DEF IInv
<1> QED
  BY InvInit, <1>1, PTL DEF Spec

\* What counts as committed: the refs, but for those whose writer has no record yet.
CommittedForm ==
  /\ (lock = Nobody \/ ~Unrecorded(lock)) => Committed = refs
  /\ \A p \in Procs : Unrecorded(p) =>
       Committed = [r \in Refs |-> IF r \in job[p].writes THEN mine[p].before[r] ELSE refs[r]]

LEMMA CommittedIs == IInv => CommittedForm
<1> SUFFICES ASSUME IInv PROVE CommittedForm
  OBVIOUS
<1>1. ASSUME NEW p \in Procs, Unrecorded(p) PROVE lock = p /\ lock # Nobody
  BY <1>1, NobodyIsNoProc DEF IInv, LockInv, Unrecorded
<1>2. ASSUME lock = Nobody \/ ~Unrecorded(lock) PROVE Committed = refs
  <2>1. Committed = [r \in Refs |-> refs[r]]
    BY <1>2, Zenon DEF Committed
  <2> QED
    BY <2>1 DEF IInv, TypeInv
<1>3. ASSUME NEW p \in Procs, Unrecorded(p)
      PROVE  Committed = [r \in Refs |-> IF r \in job[p].writes THEN mine[p].before[r] ELSE refs[r]]
  BY <1>1, <1>3, Zenon DEF Committed
<1> QED
  BY <1>2, <1>3 DEF CommittedForm

LEMMA CommittedIsNext == IInv' => CommittedForm'
BY CommittedIs, PTL

\* Up to the last write of the refs nothing is committed.
LEMMA CommittedStays ==
  ASSUME IInv, IInv', NEW p \in Procs,
         Start(p) \/ Acquire(p) \/ Read(p) \/ Write(p) \/ Header(p) \/ Release(p)
  PROVE  Committed' = Committed /\ UNCHANGED <<log, crashes>>
<1> USE NobodyIsNoProc DEF GoTo, Forget
<1>1. CASE Start(p)
  <2>1. lock # p /\ UNCHANGED <<refs, lock, mine, log, crashes>>
    BY <1>1 DEF Start, IInv, LockInv
  <2>2. lock # Nobody => (Unrecorded(lock) <=> Unrecorded(lock)') /\ job'[lock] = job[lock]
    BY <1>1, <2>1 DEF Start, IInv, TypeInv, Unrecorded
  <2> QED
    BY <2>1, <2>2 DEF Committed
<1>2. CASE Acquire(p)
  <2>1. lock = Nobody /\ lock' = p /\ ~Unrecorded(p)' /\ UNCHANGED <<refs, log, crashes>>
    BY <1>2 DEF Acquire, IInv, TypeInv, Unrecorded
  <2> QED
    BY <2>1, CommittedIs, CommittedIsNext DEF CommittedForm
<1>3. CASE Read(p)
  <2>1. lock = p /\ ~Unrecorded(p) /\ UNCHANGED <<refs, job, lock, log, crashes>>
    BY <1>3 DEF Read, IInv, LockInv, Unrecorded
  <2>2. Unrecorded(p)'
    BY <1>3 DEF Read, IInv, TypeInv, Unrecorded
  <2>3. mine'[p].before = [r \in job[p].writes |-> refs[r]]
    BY <1>3 DEF Read, IInv, TypeInv
  <2>4. Committed' = [r \in Refs |-> IF r \in job[p].writes THEN mine'[p].before[r] ELSE refs[r]]
    BY <2>1, <2>2, CommittedIs, CommittedIsNext DEF CommittedForm
  <2>5. Committed' = [r \in Refs |-> refs[r]]
    BY <2>3, <2>4
  <2> QED
    BY <2>1, <2>5, CommittedIs, CommittedIsNext DEF CommittedForm, IInv, TypeInv
<1>4. CASE Write(p)
  <2>1. PICK r \in mine[p].todo :
          /\ r \in job[p].writes
          /\ refs' = [refs EXCEPT ![r] = mine[p].before[r] + 1]
          /\ mine' = Knows(p, mine[p].before, mine[p].todo \ {r}, mine[p].id)
          /\ GoTo(p, IF mine[p].todo # {r} THEN "write"
                     ELSE IF job[p].late THEN "open" ELSE "header")
    BY <1>4, WriteEffect
  <2>2. Unrecorded(p) /\ UNCHANGED <<job, log, crashes>>
    BY <1>4, WriteEffect
  <2>3. Unrecorded(p)' /\ mine'[p].before = mine[p].before
    BY <2>1, <2>2 DEF IInv, TypeInv, Unrecorded, Knows
  <2>4. \A x \in Refs : x \notin job[p].writes => refs'[x] = refs[x]
    BY <2>1 DEF IInv, TypeInv
  <2>5. Committed = [x \in Refs |-> IF x \in job[p].writes THEN mine[p].before[x] ELSE refs[x]]
    BY <2>2, CommittedIs, CommittedIsNext DEF CommittedForm
  <2>6. Committed' = [x \in Refs |-> IF x \in job[p].writes THEN mine[p].before[x] ELSE refs'[x]]
    BY <2>2, <2>3, CommittedIs, CommittedIsNext DEF CommittedForm
  <2> QED
    BY <2>2, <2>4, <2>5, <2>6
<1>5. CASE Header(p)
  <2>1. Unrecorded(p) /\ Unrecorded(p)' /\ UNCHANGED <<refs, job, mine, log, crashes>>
    BY <1>5 DEF Header, IInv, TypeInv, Unrecorded
  <2> QED
    BY <2>1, CommittedIs, CommittedIsNext DEF CommittedForm
<1>6. CASE Release(p)
  <2>1. lock = p /\ ~Unrecorded(p) /\ lock' = Nobody /\ UNCHANGED <<refs, log, crashes>>
    BY <1>6 DEF Release, IInv, LockInv, Unrecorded
  <2> QED
    BY <2>1, CommittedIs, CommittedIsNext DEF CommittedForm
<1> QED
  BY <1>1, <1>2, <1>3, <1>4, <1>5, <1>6

\* The record completes the commit (FileLog::append).
LEMMA PayloadCommits ==
  ASSUME IInv, IInv', NEW p \in Procs, Payload(p)
  PROVE  L!Commit(job[p].writes) /\ job[p].writes \in (SUBSET Refs) \ {{}}
<1> DEFINE W == job[p].writes
           b == mine[p].before
<1>1. Unrecorded(p) /\ pc[p] = "payload"
  BY DEF Payload, Unrecorded
<1>2. W \in (SUBSET Refs) \ {{}}
  BY <1>1 DEF IInv, LockInv, Jobs
<1>3. b \in [W -> Nat] /\ \A r \in W : refs[r] = b[r] + 1
  BY <1>1 DEF IInv, RefsInv
<1>4. Committed = [r \in Refs |-> IF r \in W THEN b[r] ELSE refs[r]]
  BY <1>1, CommittedIs, CommittedIsNext DEF CommittedForm
<1>5. lock' = p /\ ~Unrecorded(p)' /\ UNCHANGED <<refs, crashes>>
  BY <1>1 DEF Payload, GoTo, IInv, LockInv, TypeInv, Unrecorded
<1>6. Committed' = refs
  BY <1>5, CommittedIs, CommittedIsNext DEF CommittedForm
<1>7. refs = L!Bumped(W)
  <2>1. refs = [r \in Refs |-> refs[r]]
    BY DEF IInv, TypeInv
  <2> HIDE DEF W, b
  <2>2. \A r \in Refs : refs[r] = IF r \in W THEN Committed[r] + 1 ELSE Committed[r]
    BY <1>2, <1>3, <1>4
  <2> QED
    BY <2>1, <2>2 DEF L!Bumped
<1>8. b = [r \in W |-> Committed[r]] /\ After(p) = [r \in W |-> Committed[r] + 1]
  <2>1. After(p) = [r \in W |-> b[r] + 1]
    BY DEF After
  <2> HIDE DEF W, b
  <2> QED
    BY <1>2, <1>3, <1>4, <2>1
<1>9. mine[p].id = Len(log)
  BY <1>1 DEF IInv, IdInv
<1>10. log' = Append(log, [id |-> Len(log), before |-> [r \in W |-> Committed[r]],
                           after |-> [r \in W |-> Committed[r] + 1]])
  BY <1>8, <1>9 DEF Payload
<1> QED
  BY <1>2, <1>5, <1>6, <1>7, <1>10 DEF L!Commit

\* Refs that move without a record: those the command has written.
LEMMA Spoils ==
  ASSUME IInv, IInv', NEW p \in Procs, Unrecorded(p),
         UNCHANGED <<refs, log>>, lock' = Nobody \/ ~Unrecorded(lock)',
         crashes' \in {crashes, crashes + 1} \ {0}
  PROVE  \E S \in SUBSET Refs : L!Spoil(S)
<1> DEFINE W == job[p].writes
           b == mine[p].before
           S == {r \in W : refs[r] = b[r] + 1}
<1>1. W \in SUBSET Refs
  BY CaptureType
<1>2. b \in [W -> Nat] /\ \A r \in W : refs[r] \in {b[r], b[r] + 1}
  BY DEF IInv, RefsInv
<1>3. Committed = [r \in Refs |-> IF r \in W THEN b[r] ELSE refs[r]]
  BY CommittedIs, CommittedIsNext DEF CommittedForm
<1>4. Committed' = refs
  BY CommittedIs, CommittedIsNext DEF CommittedForm
<1>5. refs = L!Bumped(S)
  <2>1. refs = [r \in Refs |-> refs[r]]
    BY DEF IInv, TypeInv
  <2> HIDE DEF W, b
  <2>2. \A r \in Refs : refs[r] = IF r \in S THEN Committed[r] + 1 ELSE Committed[r]
    BY <1>1, <1>2, <1>3
  <2> HIDE DEF S
  <2> QED
    BY <2>1, <2>2 DEF L!Bumped
<1>6. S \in SUBSET Refs
  BY <1>1
<1> HIDE DEF S
<1> QED
  BY <1>4, <1>5, <1>6 DEF L!Spoil

\* A death that spoils nothing counts all the same.
LEMMA DeathOnly ==
  ASSUME IInv, Committed' = Committed, UNCHANGED log, crashes' = crashes + 1
  PROVE  L!Spoil({})
<1>1. crashes \in Nat
  BY DEF IInv, TypeInv
<1>2. Committed = [r \in Refs |-> Committed[r]]
  BY DEF Committed
<1>3. L!Bumped({}) = [r \in Refs |-> Committed[r]]
  BY DEF L!Bumped
<1> QED
  BY <1>1, <1>2, <1>3 DEF L!Spoil

\* Every step of a command is a step of the ledger or none.
LEMMA StepOfLedger ==
  ASSUME IInv, IInv', [Next]_vars
  PROVE  [L!Next]_<<Committed, log, crashes>>
<1>1. ASSUME NEW p \in Procs, Open(p) PROVE [L!Next]_<<Committed, log, crashes>>
  <2>1. UNCHANGED <<refs, log, lock, job, crashes>> /\ pc[p] = "open" /\ lock = p
    BY <1>1, OpenEffect DEF IInv, LockInv
  <2>2. pc' = [pc EXCEPT ![p] = IF torn THEN "corrupt" ELSE IF job[p].late THEN "header" ELSE "read"]
    BY <1>1, OpenEffect DEF GoTo
  <2>3. CASE ~job[p].late
    <3>1. ~Unrecorded(p) /\ ~Unrecorded(p)'
      BY <2>1, <2>2, <2>3 DEF Unrecorded, IInv, TypeInv
    <3> QED
      BY <2>1, <3>1, CommittedIs, CommittedIsNext DEF CommittedForm
  <2>4. CASE job[p].late /\ ~torn
    <3>1. Unrecorded(p) /\ Unrecorded(p)'
      BY <2>1, <2>2, <2>4 DEF Unrecorded, IInv, TypeInv
    <3>2. mine'[p].before = mine[p].before
      BY <1>1, <2>4, OpenEffect DEF Knows, IInv, TypeInv
    <3> QED
      BY <2>1, <3>1, <3>2, CommittedIs, CommittedIsNext DEF CommittedForm
  <2>5. CASE job[p].late /\ torn
    <3>1. Unrecorded(p) /\ ~Unrecorded(p)'
      BY <2>1, <2>2, <2>5 DEF Unrecorded, IInv, TypeInv
    <3>2. crashes \in Nat /\ crashes # 0
      BY <2>1, <2>5, NobodyIsNoProc DEF IInv, TornInv, TypeInv
    <3>3. \E S \in SUBSET Refs : L!Spoil(S)
      BY <2>1, <3>1, <3>2, Spoils
    <3> QED
      BY <3>3 DEF L!Next
  <2> QED
    BY <2>3, <2>4, <2>5
<1>2. ASSUME NEW p \in Procs, Payload(p) PROVE [L!Next]_<<Committed, log, crashes>>
  BY <1>2, PayloadCommits DEF L!Next
<1>3. ASSUME NEW p \in Procs, Crash(p) PROVE [L!Next]_<<Committed, log, crashes>>
  <2>1. UNCHANGED <<refs, log>> /\ crashes' = crashes + 1 /\ crashes \in Nat
    BY <1>3 DEF Crash, IInv, TypeInv
  <2>2. CASE Unrecorded(p)
    <3>1. lock' = Nobody
      BY <1>3, <2>2 DEF Crash, IInv, LockInv, Unrecorded
    <3>2. \E S \in SUBSET Refs : L!Spoil(S)
      BY <2>1, <2>2, <3>1, Spoils
    <3> QED
      BY <3>2 DEF L!Next
  <2>3. CASE ~Unrecorded(p)
    <3>1. Committed' = Committed
      <4>1. CASE lock = p
        <5>1. lock' = Nobody
          BY <1>3, <4>1 DEF Crash
        <5> QED
          BY <2>1, <2>3, <4>1, <5>1, CommittedIs, CommittedIsNext DEF CommittedForm
      <4>2. CASE lock # p
        <5>1. UNCHANGED lock
          BY <1>3, <4>2 DEF Crash
        <5>2. lock # Nobody => /\ Unrecorded(lock) <=> Unrecorded(lock)'
                               /\ job'[lock] = job[lock] /\ mine'[lock] = mine[lock]
          BY <1>3, <4>2, <5>1 DEF Crash, Forget, GoTo, IInv, TypeInv, Unrecorded
        <5> QED
          BY <2>1, <5>1, <5>2 DEF Committed
      <4> QED
        BY <4>1, <4>2
    <3> QED
      BY <2>1, <3>1, DeathOnly DEF L!Next
  <2> QED
    BY <2>2, <2>3
<1>4. CASE UNCHANGED vars
  BY <1>4 DEF vars, Committed, Unrecorded
<1> QED
  BY <1>1, <1>2, <1>3, <1>4, CommittedStays DEF Next, Step

\* A command is atomic (repo.rs, lock_for_write): refs move together with the
\* complete record of what they were and became, no update is lost and no id
\* given twice; only once a process has died may refs move without a record.
THEOREM CommandIsAtomic == Spec => Atomic
<1>1. Init => L!Init
  <2> SUFFICES ASSUME Init PROVE L!Init
    OBVIOUS
  <2>1. Committed = refs
    BY InvInit, CommittedIs, CommittedIsNext DEF CommittedForm, Init
  <2> QED
    BY <2>1 DEF Init, L!Init
<1>2. IInv /\ IInv' /\ [Next]_vars => [L!Next]_<<Committed, log, crashes>>
  BY StepOfLedger
<1> QED
  BY <1>1, <1>2, IInvariant, PTL DEF Spec, Atomic, L!Spec

=============================================================================
