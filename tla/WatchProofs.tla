----------------------------- MODULE WatchProofs -----------------------------
(* `tig watch` forgets no edit, for any number of workspaces, watchers and   *)
(* files: by an invariant on what a scan under way has read and what may     *)
(* have changed behind its back.                                             *)
EXTENDS Watch, SequenceTheorems, TLAPS

\* An edit's event is with the kernel, the debouncer or in the channel.
EditAhead(w) ==
  \/ "edit" \in events[w]
  \/ \E i \in 1..Len(queue[w]) : "edit" \in queue[w][i]

\* The scan has read what the files are now, and what it has still to read is there.
Faithful(w) ==
  /\ \A f \in todo[w] : work[w][f] # Absent
  /\ \A f \in Files \ todo[w] : got[w][f] = work[w][f]

\* A tree is collected only while scanning.
IdleInv == \A w \in Workspaces : pc[w] # "scan" => got[w] = Nothing /\ todo[w] = {}

\* A scan that the directory has run away from is followed by another: the edit is
\* still ahead, or its event was lost.
ScanInv == \A w \in Workspaces : pc[w] = "scan" /\ ~lost[w] => Faithful(w) \/ EditAhead(w)

WatchInv == TypeOK /\ IdleInv /\ ScanInv /\ NothingForgotten

----------------------------------------------------------------------------

\* An event reaches the watchers of the directory, and removes none.
LEMMA ToldType ==
  ASSUME TypeOK, NEW w \in Workspaces, NEW es \in SUBSET Event, NEW written \in BOOLEAN
  PROVE  /\ Told(w, es, written) \in [Workspaces -> SUBSET Event]
         /\ \A v \in Workspaces : events[v] \subseteq Told(w, es, written)[v]
         /\ pc[w] # "stopped" => es \subseteq Told(w, es, written)[w]
BY DEF TypeOK, Told, Watching, Event

\* What a tree contains (the blobs a scan or a command puts).
LEMMA ContentsType == \A t \in Tree : ContentsOf(t) \subseteq Contents
BY DEF Tree, ContentsOf

\* Nothing is a tree, and a directory without sockets is one.
LEMMA NothingType == Nothing \in Tree
BY DEF Nothing, Tree

\* The bound on what happens is kept.
LEMMA HappensType == TypeOK /\ Happens => happened' \in 0..MaxHappens
<1>1. MaxHappens \in Nat
  BY WatchAssumption
<1> QED
  BY <1>1 DEF TypeOK, Happens

\* Before any event (Init).
LEMMA InvInit == Init => WatchInv
<1> SUFFICES ASSUME Init PROVE WatchInv
  OBVIOUS
<1>1. TypeOK
  BY WatchAssumption, NothingType, ContentsType, EmptySeq DEF Init, TypeOK, Tree, Directory
<1>2. IdleInv /\ ScanInv /\ NothingForgotten
  BY WatchAssumption DEF Init, IdleInv, ScanInv, NothingForgotten
<1> QED
  BY <1>1, <1>2 DEF WatchInv

\* Every step keeps the types.
LEMMA TypeStep ==
  ASSUME WatchInv, [Next]_vars
  PROVE  TypeOK'
<1> USE WatchAssumption DEF WatchInv, TypeOK, Goto, snapping
<1>1. ASSUME NEW w \in Workspaces, NEW f \in Files, NEW c \in Contents \union {Absent, Special}, Edit(w, f, c) PROVE TypeOK'
  <2>1. work' \in [Workspaces -> Directory]
    <3>1. [work[w] EXCEPT ![f] = c] \in Directory
      BY DEF Directory
    <3>2. work' = [work EXCEPT ![w] = [work[w] EXCEPT ![f] = c]]
      BY <1>1, Zenon DEF Edit
    <3> QED
      BY <3>1, <3>2
  <2>2. events' \in [Workspaces -> SUBSET Event]
    BY <1>1, ToldType DEF Edit, Event
  <2>3. happened' \in 0..MaxHappens
    BY <1>1, HappensType DEF Edit
  <2> QED
    BY <1>1, <2>1, <2>2, <2>3 DEF Edit
<1>2. ASSUME NEW w \in Watched, Overflow(w) PROVE TypeOK'
  BY <1>2, HappensType DEF Overflow
<1>3. ASSUME NEW w \in Watched, Stop(w) PROVE TypeOK'
  BY <1>3 DEF Stop
<1>4. ASSUME NEW w \in Watched, SnapFails(w) PROVE TypeOK'
  <2>1. got' \in [Workspaces -> Tree]
    BY <1>4, NothingType DEF SnapFails, GiveUp
  <2>2. happened' \in 0..MaxHappens
    BY <1>4, HappensType DEF SnapFails
  <2> QED
    BY <1>4, <2>1, <2>2 DEF SnapFails, GiveUp
<1>5. ASSUME NEW w \in Watched, NEW b \in SUBSET Event, Deliver(w, b) PROVE TypeOK'
  <2>1. queue' \in [Workspaces -> Seq(SUBSET Event)]
    BY <1>5, AppendProperties DEF Deliver
  <2>2. events' \in [Workspaces -> SUBSET Event]
    BY <1>5 DEF Deliver
  <2> QED
    BY <1>5, <2>1, <2>2 DEF Deliver
<1>6. ASSUME NEW w \in Watched, CheckStop(w) PROVE TypeOK'
  <2>1. queue' \in [Workspaces -> Seq(SUBSET Event)]
    <3>1. << >> \in Seq(SUBSET Event)
      BY EmptySeq
    <3> QED
      BY <1>6, <3>1 DEF CheckStop
  <2>2. events' \in [Workspaces -> SUBSET Event]
    BY <1>6 DEF CheckStop
  <2>3. pc' \in [Workspaces -> {"top", "recv", "lock", "scan", "stopped"}]
    BY <1>6 DEF CheckStop
  <2> QED
    BY <1>6, <2>1, <2>2, <2>3 DEF CheckStop
<1>7. ASSUME NEW w \in Watched, Receive(w) PROVE TypeOK'
  <2>1. Tail(queue[w]) \in Seq(SUBSET Event)
    BY <1>7, HeadTailProperties DEF Receive
  <2>2. queue' \in [Workspaces -> Seq(SUBSET Event)]
    BY <1>7, <2>1 DEF Receive
  <2> QED
    BY <1>7, <2>2 DEF Receive
<1>8. ASSUME NEW w \in Watched, Timeout(w) PROVE TypeOK'
  BY <1>8 DEF Timeout
<1>9. ASSUME NEW w \in Watched, LockAndList(w) PROVE TypeOK'
  <2>1. events' \in [Workspaces -> SUBSET Event]
    BY <1>9, ToldType DEF LockAndList, Event
  <2>2. todo' \in [Workspaces -> SUBSET Files]
    BY <1>9 DEF LockAndList
  <2> QED
    BY <1>9, <2>1, <2>2 DEF LockAndList
<1>10. ASSUME NEW w \in Watched, NEW f \in Files, Read(w, f) PROVE TypeOK'
  <2>1. events' \in [Workspaces -> SUBSET Event]
    BY <1>10, ToldType DEF Read, Event
  <2>2. got' \in [Workspaces -> Tree]
    BY <1>10 DEF Read, Tree
  <2>3. todo' \in [Workspaces -> SUBSET Files]
    BY <1>10 DEF Read
  <2>4. store' \subseteq Contents
    BY <1>10 DEF Read
  <2> QED
    BY <1>10, <2>1, <2>2, <2>3, <2>4 DEF Read
<1>11. ASSUME NEW w \in Watched, ScanFails(w) PROVE TypeOK'
  <2>1. got' \in [Workspaces -> Tree]
    BY <1>11, NothingType DEF ScanFails, GiveUp
  <2> QED
    BY <1>11, <2>1 DEF ScanFails, GiveUp
<1>12. ASSUME NEW w \in Watched, Record(w) PROVE TypeOK'
  <2>1. events' \in [Workspaces -> SUBSET Event]
    BY <1>12, ToldType DEF Record, Event
  <2>2. got' \in [Workspaces -> Tree] /\ seen' \in [Workspaces -> Tree] /\ tip' \in Tree
    BY <1>12, NothingType DEF Record
  <2> QED
    BY <1>12, <2>1, <2>2 DEF Record
<1>13. ASSUME NEW t \in Tree, OtherCommand(t) PROVE TypeOK'
  <2>1. events' \in [Workspaces -> SUBSET Event]
    BY <1>13, ToldType DEF OtherCommand, Event
  <2>2. store' \subseteq Contents
    BY <1>13, ContentsType DEF OtherCommand
  <2>3. happened' \in 0..MaxHappens
    BY <1>13, HappensType DEF OtherCommand
  <2> QED
    BY <1>13, <2>1, <2>2, <2>3 DEF OtherCommand
<1>14. CASE UNCHANGED vars
  BY <1>14 DEF vars, snapping
<1> QED
  BY <1>1, <1>2, <1>3, <1>4, <1>5, <1>6, <1>7, <1>8, <1>9, <1>10, <1>11, <1>12, <1>13, <1>14 DEF Next, Step

\* A watcher that does not scan has no tree half collected.
LEMMA IdleStep ==
  ASSUME WatchInv, [Next]_vars
  PROVE  IdleInv'
<1> USE WatchAssumption DEF WatchInv, TypeOK, IdleInv, Goto, snapping
<1>1. ASSUME NEW w \in Workspaces, NEW f \in Files, NEW c \in Contents \union {Absent, Special}, Edit(w, f, c) PROVE IdleInv'
  BY <1>1 DEF Edit
<1>2. ASSUME NEW w \in Watched, Overflow(w) PROVE IdleInv'
  BY <1>2 DEF Overflow
<1>3. ASSUME NEW w \in Watched, Stop(w) PROVE IdleInv'
  BY <1>3 DEF Stop
<1>4. ASSUME NEW w \in Watched, SnapFails(w) PROVE IdleInv'
  BY <1>4 DEF SnapFails, GiveUp
<1>5. ASSUME NEW w \in Watched, NEW b \in SUBSET Event, Deliver(w, b) PROVE IdleInv'
  BY <1>5 DEF Deliver
<1>6. ASSUME NEW w \in Watched, CheckStop(w) PROVE IdleInv'
  BY <1>6 DEF CheckStop
<1>7. ASSUME NEW w \in Watched, Receive(w) PROVE IdleInv'
  BY <1>7 DEF Receive
<1>8. ASSUME NEW w \in Watched, Timeout(w) PROVE IdleInv'
  BY <1>8 DEF Timeout
<1>9. ASSUME NEW w \in Watched, LockAndList(w) PROVE IdleInv'
  BY <1>9 DEF LockAndList
<1>10. ASSUME NEW w \in Watched, NEW f \in Files, Read(w, f) PROVE IdleInv'
  BY <1>10 DEF Read
<1>11. ASSUME NEW w \in Watched, ScanFails(w) PROVE IdleInv'
  BY <1>11 DEF ScanFails, GiveUp
<1>12. ASSUME NEW w \in Watched, Record(w) PROVE IdleInv'
  BY <1>12 DEF Record
<1>13. ASSUME NEW t \in Tree, OtherCommand(t) PROVE IdleInv'
  BY <1>13 DEF OtherCommand
<1>14. CASE UNCHANGED vars
  BY <1>14 DEF vars, snapping
<1> QED
  BY <1>1, <1>2, <1>3, <1>4, <1>5, <1>6, <1>7, <1>8, <1>9, <1>10, <1>11, <1>12, <1>13, <1>14 DEF Next, Step

\* An edit's event goes from the kernel to the channel and from there to the
\* loop, which locks; or it is lost, or the watcher has stopped.
LEMMA AheadStep ==
  ASSUME WatchInv, [Next]_vars, NEW v \in Workspaces, EditAhead(v)
  PROVE  EditAhead(v)' \/ lost'[v] \/ pc'[v] \in {"lock", "stopped"}
<1> DEFINE Goal == EditAhead(v)' \/ lost'[v] \/ pc'[v] \in {"lock", "stopped"}
<1> USE WatchAssumption DEF WatchInv, TypeOK, EditAhead, Goto, snapping
<1>1. ASSUME NEW w \in Workspaces, NEW f \in Files, NEW c \in Contents \union {Absent, Special}, Edit(w, f, c) PROVE Goal
  BY <1>1, ToldType DEF Edit, Event
<1>2. ASSUME NEW w \in Watched, Overflow(w) PROVE Goal
  <2>1. CASE v = w
    BY <1>2, <2>1 DEF Overflow
  <2>2. CASE v # w
    BY <1>2, <2>2 DEF Overflow
  <2> QED
    BY <2>1, <2>2
<1>3. ASSUME NEW w \in Watched, Stop(w) PROVE Goal
  BY <1>3 DEF Stop
<1>4. ASSUME NEW w \in Watched, SnapFails(w) PROVE Goal
  BY <1>4 DEF SnapFails, GiveUp
<1>5. ASSUME NEW w \in Watched, NEW b \in SUBSET Event, Deliver(w, b) PROVE Goal
  <2>1. CASE v = w
    <3>1. queue'[w] = Append(queue[w], b) /\ events'[w] = events[w] \ b
      BY <1>5 DEF Deliver
    <3>2. /\ Len(queue'[w]) = Len(queue[w]) + 1 /\ Len(queue[w]) \in Nat
          /\ \A i \in 1..Len(queue[w]) : queue'[w][i] = queue[w][i]
          /\ queue'[w][Len(queue[w]) + 1] = b
      BY <3>1, AppendProperties, LenProperties
    <3>3. CASE "edit" \in b
      BY <2>1, <3>2, <3>3
    <3>4. CASE "edit" \notin b
      BY <2>1, <3>1, <3>2, <3>4
    <3> QED
      BY <3>3, <3>4
  <2>2. CASE v # w
    BY <1>5, <2>2 DEF Deliver
  <2> QED
    BY <2>1, <2>2
<1>6. ASSUME NEW w \in Watched, CheckStop(w) PROVE Goal
  <2>1. CASE v = w
    BY <1>6, <2>1 DEF CheckStop
  <2>2. CASE v # w
    BY <1>6, <2>2 DEF CheckStop
  <2> QED
    BY <2>1, <2>2
<1>7. ASSUME NEW w \in Watched, Receive(w) PROVE Goal
  <2>1. CASE v = w
    <3>1. /\ queue[w] # << >> /\ queue'[w] = Tail(queue[w]) /\ events' = events
          /\ pc'[w] = IF WorthASnap(Head(queue[w])) THEN "lock" ELSE "top"
      BY <1>7 DEF Receive
    <3>2. /\ Len(queue'[w]) = Len(queue[w]) - 1 /\ Len(queue[w]) \in Nat \ {0}
          /\ \A i \in 1..Len(queue'[w]) : queue'[w][i] = queue[w][i + 1]
          /\ Head(queue[w]) = queue[w][1]
      BY <3>1, HeadTailProperties, EmptySeq, LenProperties
    <3>3. CASE "edit" \in events[w]
      BY <2>1, <3>1, <3>3
    <3>4. CASE \E i \in 1..Len(queue[w]) : "edit" \in queue[w][i]
      <4>1. PICK i \in 1..Len(queue[w]) : "edit" \in queue[w][i]
        BY <3>4
      <4>2. CASE i = 1
        BY <2>1, <3>1, <3>2, <4>1, <4>2 DEF WorthASnap, TouchesWorkdir, KindsMeaningful
      <4>3. CASE i # 1
        <5>1. i - 1 \in 1..Len(queue'[w]) /\ (i - 1) + 1 = i
          BY <3>2, <4>1, <4>3
        <5> QED
          BY <2>1, <3>2, <4>1, <5>1
      <4> QED
        BY <4>2, <4>3
    <3> QED
      BY <2>1, <3>3, <3>4
  <2>2. CASE v # w
    BY <1>7, <2>2 DEF Receive
  <2> QED
    BY <2>1, <2>2
<1>8. ASSUME NEW w \in Watched, Timeout(w) PROVE Goal
  BY <1>8 DEF Timeout
<1>9. ASSUME NEW w \in Watched, LockAndList(w) PROVE Goal
  BY <1>9, ToldType DEF LockAndList, Event
<1>10. ASSUME NEW w \in Watched, NEW f \in Files, Read(w, f) PROVE Goal
  BY <1>10, ToldType DEF Read, Event
<1>11. ASSUME NEW w \in Watched, ScanFails(w) PROVE Goal
  BY <1>11 DEF ScanFails, GiveUp
<1>12. ASSUME NEW w \in Watched, Record(w) PROVE Goal
  BY <1>12, ToldType DEF Record, Event
<1>13. ASSUME NEW t \in Tree, OtherCommand(t) PROVE Goal
  BY <1>13, ToldType DEF OtherCommand, Event
<1>14. CASE UNCHANGED vars
  BY <1>14 DEF vars, snapping
<1> QED
  BY <1>1, <1>2, <1>3, <1>4, <1>5, <1>6, <1>7, <1>8, <1>9, <1>10, <1>11, <1>12, <1>13, <1>14 DEF Next, Step

\* What a step does to v's directory and watcher, if it is no step of theirs.
Untouched(v) ==
  /\ work'[v] = work[v] /\ seen'[v] = seen[v] /\ touched'[v] = touched[v]
  /\ pc'[v] = pc[v] /\ todo'[v] = todo[v] /\ got'[v] = got[v]
  /\ lost[v] => lost'[v]

LEMMA StepsOf ==
  ASSUME WatchInv, [Next]_vars, NEW v \in Workspaces
  PROVE  \/ \E f \in Files, c \in Contents \union {Absent, Special} : Edit(v, f, c)
         \/ SnapFails(v) \/ CheckStop(v) \/ Receive(v) \/ Timeout(v) \/ LockAndList(v)
         \/ (\E f \in Files : Read(v, f)) \/ ScanFails(v) \/ Record(v)
         \/ Untouched(v)
<1> DEFINE Goal ==
      \/ \E f \in Files, c \in Contents \union {Absent, Special} : Edit(v, f, c)
      \/ SnapFails(v) \/ CheckStop(v) \/ Receive(v) \/ Timeout(v) \/ LockAndList(v)
      \/ (\E f \in Files : Read(v, f)) \/ ScanFails(v) \/ Record(v)
      \/ Untouched(v)
<1> USE WatchAssumption DEF WatchInv, TypeOK, Untouched, Goto, snapping
<1>1. ASSUME NEW w \in Workspaces, NEW f \in Files, NEW c \in Contents \union {Absent, Special}, Edit(w, f, c) PROVE Goal
  <2>1. CASE v = w
    BY <1>1, <2>1
  <2>2. CASE v # w
    <3>1. Untouched(v)
      BY <1>1, <2>2 DEF Edit
    <3> QED
      BY <3>1
  <2> QED
    BY <2>1, <2>2
<1>2. ASSUME NEW w \in Watched, Overflow(w) PROVE Goal
  BY <1>2 DEF Overflow
<1>3. ASSUME NEW w \in Watched, Stop(w) PROVE Goal
  BY <1>3 DEF Stop
<1>4. ASSUME NEW w \in Watched, SnapFails(w) PROVE Goal
  <2>1. CASE v = w
    BY <1>4, <2>1
  <2>2. CASE v # w
    <3>1. Untouched(v)
      BY <1>4, <2>2 DEF SnapFails, GiveUp
    <3> QED
      BY <3>1
  <2> QED
    BY <2>1, <2>2
<1>5. ASSUME NEW w \in Watched, NEW b \in SUBSET Event, Deliver(w, b) PROVE Goal
  BY <1>5 DEF Deliver
<1>6. ASSUME NEW w \in Watched, CheckStop(w) PROVE Goal
  <2>1. CASE v = w
    BY <1>6, <2>1
  <2>2. CASE v # w
    <3>1. Untouched(v)
      BY <1>6, <2>2 DEF CheckStop
    <3> QED
      BY <3>1
  <2> QED
    BY <2>1, <2>2
<1>7. ASSUME NEW w \in Watched, Receive(w) PROVE Goal
  <2>1. CASE v = w
    BY <1>7, <2>1
  <2>2. CASE v # w
    <3>1. Untouched(v)
      BY <1>7, <2>2 DEF Receive
    <3> QED
      BY <3>1
  <2> QED
    BY <2>1, <2>2
<1>8. ASSUME NEW w \in Watched, Timeout(w) PROVE Goal
  <2>1. CASE v = w
    BY <1>8, <2>1
  <2>2. CASE v # w
    <3>1. Untouched(v)
      BY <1>8, <2>2 DEF Timeout
    <3> QED
      BY <3>1
  <2> QED
    BY <2>1, <2>2
<1>9. ASSUME NEW w \in Watched, LockAndList(w) PROVE Goal
  <2>1. CASE v = w
    BY <1>9, <2>1
  <2>2. CASE v # w
    <3>1. Untouched(v)
      BY <1>9, <2>2 DEF LockAndList
    <3> QED
      BY <3>1
  <2> QED
    BY <2>1, <2>2
<1>10. ASSUME NEW w \in Watched, NEW f \in Files, Read(w, f) PROVE Goal
  <2>1. CASE v = w
    BY <1>10, <2>1
  <2>2. CASE v # w
    <3>1. Untouched(v)
      BY <1>10, <2>2 DEF Read
    <3> QED
      BY <3>1
  <2> QED
    BY <2>1, <2>2
<1>11. ASSUME NEW w \in Watched, ScanFails(w) PROVE Goal
  <2>1. CASE v = w
    BY <1>11, <2>1
  <2>2. CASE v # w
    <3>1. Untouched(v)
      BY <1>11, <2>2 DEF ScanFails, GiveUp
    <3> QED
      BY <3>1
  <2> QED
    BY <2>1, <2>2
<1>12. ASSUME NEW w \in Watched, Record(w) PROVE Goal
  <2>1. CASE v = w
    BY <1>12, <2>1
  <2>2. CASE v # w
    <3>1. Untouched(v)
      BY <1>12, <2>2 DEF Record
    <3> QED
      BY <3>1
  <2> QED
    BY <2>1, <2>2
<1>13. ASSUME NEW t \in Tree, OtherCommand(t) PROVE Goal
  BY <1>13 DEF OtherCommand
<1>14. CASE UNCHANGED vars
  BY <1>14 DEF vars, snapping
<1> QED
  BY <1>1, <1>2, <1>3, <1>4, <1>5, <1>6, <1>7, <1>8, <1>9, <1>10, <1>11, <1>12, <1>13, <1>14 DEF Next, Step

\* While a watcher scans, an edit behind its back leaves an event behind, and every
\* other step leaves what it has read as true as it was.
LEMMA ScanStep ==
  ASSUME WatchInv, [Next]_vars
  PROVE  ScanInv'
<1> SUFFICES ASSUME NEW v \in Workspaces, pc'[v] = "scan", ~lost'[v]
             PROVE  Faithful(v)' \/ EditAhead(v)'
  BY DEF ScanInv
<1> DEFINE Goal == Faithful(v)' \/ EditAhead(v)'
<1>1. ASSUME NEW f \in Files, NEW c \in Contents \union {Absent, Special}, Edit(v, f, c) PROVE Goal
  <2>1. pc[v] # "stopped"
    BY <1>1 DEF Edit, snapping
  <2> QED
    BY <1>1, <2>1, ToldType DEF Edit, EditAhead, Event, WatchInv
<1>2. CASE LockAndList(v)
  <2>1. got[v] = Nothing
    BY <1>2 DEF LockAndList, WatchInv, IdleInv
  <2> QED
    BY <1>2, <2>1 DEF LockAndList, Faithful, Nothing, WatchInv, TypeOK
<1>3. ASSUME NEW f \in Files, Read(v, f) PROVE Goal
  <2>1. /\ todo'[v] = todo[v] \ {f} /\ work' = work /\ pc[v] = "scan" /\ lost[v] = lost'[v]
        /\ \A g \in Files : got'[v][g] = IF g = f THEN work[v][f] ELSE got[v][g]
    BY <1>3 DEF Read, WatchInv, TypeOK, Tree
  <2>2. CASE Faithful(v)
    BY <2>1, <2>2 DEF Faithful
  <2>3. CASE EditAhead(v)
    BY <2>3, AheadStep
  <2> QED
    BY <2>1, <2>2, <2>3 DEF WatchInv, ScanInv
<1>4. CASE Untouched(v)
  <2>1. pc[v] = "scan" /\ ~lost[v]
    BY <1>4 DEF Untouched
  <2>2. CASE Faithful(v)
    BY <1>4, <2>2 DEF Faithful, Untouched
  <2>3. CASE EditAhead(v)
    BY <2>3, AheadStep
  <2> QED
    BY <2>1, <2>2, <2>3 DEF WatchInv, ScanInv
<1>5. CASE SnapFails(v) \/ CheckStop(v) \/ Receive(v) \/ Timeout(v) \/ ScanFails(v) \/ Record(v)
  <2>1. pc'[v] # "scan"
    BY <1>5 DEF SnapFails, CheckStop, Receive, Timeout, ScanFails, Record, GiveUp, Goto, WatchInv, TypeOK
  <2> QED
    BY <2>1
<1> QED
  BY <1>1, <1>2, <1>3, <1>4, <1>5, StepsOf

\* What obliges a watcher to snap again.
Owes(v) ==
  /\ pc[v] # "stopped"
  /\ touched[v] /\ ~lost[v]
  /\ \A f \in Files : work[v][f] # Special
  /\ work[v] # seen[v]

\* A watcher that owes a snap goes on to have one before it: a record made of
\* what the directory is no more leaves the edit's event ahead.
LEMMA ForgetStep ==
  ASSUME WatchInv, [Next]_vars
  PROVE  NothingForgotten'
<1>0. ScanInv'
  BY ScanStep
<1> SUFFICES ASSUME NEW v \in Watched, Owes(v)' PROVE SnapAhead(v)'
  BY DEF NothingForgotten, Owes
<1> v \in Workspaces
  BY WatchAssumption
<1>1. EditAhead(v) => SnapAhead(v)'
  BY AheadStep DEF Owes, SnapAhead, EditAhead
<1>2. CASE pc'[v] = "scan"
  <2>1. Faithful(v)' \/ EditAhead(v)'
    BY <1>0, <1>2 DEF ScanInv, Owes
  <2> QED
    BY <1>2, <2>1 DEF Faithful, EditAhead, SnapAhead
<1>3. CASE pc'[v] # "scan"
  <2>1. ASSUME NEW f \in Files, NEW c \in Contents \union {Absent, Special}, Edit(v, f, c) PROVE SnapAhead(v)'
    <3>1. pc[v] # "stopped"
      BY <2>1 DEF Edit, snapping, Owes
    <3> QED
      BY <2>1, <3>1, ToldType DEF Edit, SnapAhead, Event, WatchInv
  <2>2. CASE CheckStop(v) \/ Receive(v) \/ Timeout(v)
    <3>1. Owes(v) /\ pc[v] \notin {"lock", "scan"}
      BY <2>2 DEF CheckStop, Receive, Timeout, Owes
    <3> QED
      BY <1>1, <3>1 DEF WatchInv, NothingForgotten, Owes, SnapAhead, EditAhead
  <2>3. CASE ScanFails(v)
    <3>1. pc[v] = "scan" /\ ~lost[v] /\ work' = work /\ \E f \in todo[v] : work[v][f] \in {Absent, Special}
      BY <2>3 DEF ScanFails, GiveUp, Owes
    <3>2. ~Faithful(v)
      BY <3>1 DEF Faithful, Owes, WatchInv, TypeOK
    <3> QED
      BY <1>1, <3>1, <3>2 DEF WatchInv, ScanInv
  <2>4. CASE Record(v)
    <3>1. /\ pc[v] = "scan" /\ ~lost[v] /\ todo[v] = {} /\ work' = work
          /\ seen'[v] = got[v]
      BY <2>4 DEF Record, Owes, WatchInv, TypeOK
    <3>2. work[v] # got[v]
      BY <3>1 DEF Owes
    <3>3. ~Faithful(v)
      BY <3>1, <3>2 DEF Faithful, WatchInv, TypeOK, Tree, Directory
    <3> QED
      BY <1>1, <3>1, <3>3 DEF WatchInv, ScanInv
  <2>5. CASE Untouched(v)
    <3>1. Owes(v) /\ pc[v] # "scan"
      BY <1>3, <2>5 DEF Untouched, Owes
    <3>2. CASE pc[v] = "lock"
      BY <2>5, <3>2 DEF Untouched, SnapAhead
    <3> QED
      BY <1>1, <3>1, <3>2 DEF WatchInv, NothingForgotten, Owes, SnapAhead, EditAhead
  <2>6. CASE SnapFails(v)
    BY <2>6 DEF SnapFails, Owes, WatchInv, TypeOK
  <2>7. CASE LockAndList(v) \/ \E f \in Files : Read(v, f)
    BY <1>3, <2>7 DEF LockAndList, Read, Goto, WatchInv, TypeOK
  <2> QED
    BY <2>1, <2>2, <2>3, <2>4, <2>5, <2>6, <2>7, StepsOf
<1> QED
  BY <1>2, <1>3

----------------------------------------------------------------------------

\* The invariant: types, the idle watchers, the scans under way, and what they owe
\* (tig watch as a whole).
THEOREM WatchInvariant == Spec => []WatchInv
<1>1. WatchInv /\ [Next]_vars => WatchInv'
  BY TypeStep, IdleStep, ScanStep, ForgetStep DEF WatchInv
<1> QED
  BY InvInit, <1>1, PTL DEF Spec

\* Every variable has its type: the watch loop never leaves its five places, a
\* scan collects trees only, and the bound on what happens is kept.
THEOREM WatchTyped == Spec => []TypeOK
<1>1. WatchInv => TypeOK
  BY DEF WatchInv
<1> QED
  BY WatchInvariant, <1>1, PTL

\* watch.rs:79-80: an edited directory that is not as the last snap read it is
\* snapped again, whatever the edits during its scan, the scans that fail, the
\* batches passed over, the other watchers of the repository and the other commands.
THEOREM NoEditForgotten == Spec => []NothingForgotten
<1>1. WatchInv => NothingForgotten
  BY DEF WatchInv
<1> QED
  BY WatchInvariant, <1>1, PTL

=============================================================================
