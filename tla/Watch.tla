---- MODULE Watch ----
(***************************************************************************)
(* `tig watch` in several workspaces of one repository (tig-fs/watch.rs):   *)
(* file-system events, the debouncer, the channel, the loop that snaps under*)
(* the write lock, and what happens around it: users edit files while they  *)
(* are scanned, other commands move the tip, events get lost, I/O fails.    *)
(*                                                                         *)
(* All workspaces are on one change, as `tig wt make` leaves them; its tip  *)
(* is represented by the tree of its current snapshot.  The secondary       *)
(* workspaces are in the main one's .tig-worktrees, so that whoever watches *)
(* the main directory is told of what happens in theirs.  Writing the refs  *)
(* and the log is one step (Command shows why it may be).                   *)
(***************************************************************************)
EXTENDS Naturals, Sequences, FiniteSets

CONSTANTS
  Workspaces, Main,    \* the workspaces and the one that holds .tig
  Watched,             \* those with a watcher
  Files, Contents,     \* names in a directory and what a file may contain
  Absent, Special,     \* no such file; a socket or fifo, which scan refuses
  None,                \* nobody, of the lock
  MaxHappens,          \* bounds: edits, other commands and faults together,
  MaxBatches           \* and batches that wait in the channel

ASSUME WatchAssumption ==
  /\ Main \in Workspaces /\ Watched \subseteq Workspaces
  /\ None \notin Workspaces
  /\ Absent \notin Contents /\ Special \notin Contents /\ Absent # Special
  /\ {MaxHappens, MaxBatches} \subseteq Nat

\* What the loop tells apart in an event: where its paths are and whether its
\* kind is Create, Modify or Remove.  "edit" is such a kind outside .tig,
\* "access" an opened or closed file there, "tig" such a kind inside .tig.
Event == {"edit", "access", "tig"}

Tree == [Files -> Contents \union {Absent}]
Directory == [Files -> Contents \union {Absent, Special}]

VARIABLES
  work,     \* the directory of each workspace
  tip,      \* the tree of the change's current snapshot
  store,    \* the contents of which there is a blob on disk
  lock,     \* the watcher that holds the write lock, or None
  events,   \* per watcher, what the kernel and the debouncer hold for it
  queue,    \* its channel, a sequence of batches
  pc,       \* where its loop is
  todo, got,\* the names its scan has still to read, the tree read so far
  stop,     \* its stop flag
  seen,     \* history: the tree its last successful snap read
  touched,  \* history: its directory was edited since it began to watch
  lost,     \* history: a fault since its last scan began
  happened  \* how many edits, other commands and faults there were

snapping == <<tip, store, lock, pc, todo, got, seen>>
vars == <<work, tip, store, lock, events, queue, pc, todo, got, stop, seen, touched, lost, happened>>

TypeOK ==
  /\ work \in [Workspaces -> Directory]
  /\ tip \in Tree
  /\ store \subseteq Contents
  /\ lock \in Workspaces \union {None}
  /\ events \in [Workspaces -> SUBSET Event]
  /\ queue \in [Workspaces -> Seq(SUBSET Event)]
  /\ pc \in [Workspaces -> {"top", "recv", "lock", "scan", "stopped"}]
  /\ todo \in [Workspaces -> SUBSET Files]
  /\ got \in [Workspaces -> Tree]
  /\ stop \in [Workspaces -> BOOLEAN]
  /\ seen \in [Workspaces -> Tree]
  /\ touched \in [Workspaces -> BOOLEAN]
  /\ lost \in [Workspaces -> BOOLEAN]
  /\ happened \in 0..MaxHappens

Nothing == [f \in Files |-> Absent]
ContentsOf(t) == {t[f] : f \in Files} \ {Absent}

\* Watching begins when every workspace is as the last snapshot, as `tig wt make`
\* leaves them.  (No snap is taken at the start, whatever the directory holds.)
Init ==
  /\ tip \in Tree
  /\ work = [w \in Workspaces |-> tip]
  /\ store = ContentsOf(tip)
  /\ lock = None
  /\ events = [w \in Workspaces |-> {}]
  /\ queue = [w \in Workspaces |-> <<>>]
  /\ pc = [w \in Workspaces |-> IF w \in Watched THEN "top" ELSE "stopped"]
  /\ todo = [w \in Workspaces |-> {}]
  /\ got = [w \in Workspaces |-> Nothing]
  /\ stop = [w \in Workspaces |-> FALSE]
  /\ seen = [w \in Workspaces |-> tip]
  /\ touched = [w \in Workspaces |-> FALSE]
  /\ lost = [w \in Workspaces |-> FALSE]
  /\ happened = 0

Happens == happened < MaxHappens /\ happened' = happened + 1

\* Who watches a directory that contains w's.
Watching(w) == {v \in {w, Main} : pc[v] # "stopped"}

\* The events that arise when something happens in w's directory (es) and,
\* if written, in .tig.
Told(w, es, written) ==
  [v \in Workspaces |->
     events[v] \union (IF v \in Watching(w) THEN es ELSE {})
               \union (IF v = Main /\ written /\ pc[Main] # "stopped" THEN {"tig"} ELSE {})]

-----------------------------------------------------------------------------
(* Around the watchers.                                                     *)

\* A user writes, creates or removes a file, at any time, without the lock.
Edit(w, f, c) ==
  /\ work[w][f] # c
  /\ work' = [work EXCEPT ![w][f] = c]
  /\ touched' = [touched EXCEPT ![w] = TRUE]
  /\ events' = Told(w, {"edit"}, FALSE)
  /\ Happens
  /\ UNCHANGED <<snapping, queue, stop, lost>>

\* The daemon, `tig undo` or a command elsewhere moves the tip: it writes in
\* .tig and leaves the directories alone.
OtherCommand(t) ==
  /\ lock = None
  /\ t # tip
  /\ tip' = t
  /\ store' = store \union ContentsOf(t)
  /\ events' = Told(Main, {}, TRUE)
  /\ Happens
  /\ UNCHANGED <<work, lock, pc, todo, got, seen, queue, stop, touched, lost>>

\* The kernel's queue is full and drops what happened.  notify says so with an
\* event of kind Other and no path, which the loop takes for Idle.
Overflow(w) ==
  /\ "edit" \in events[w]
  /\ events' = [events EXCEPT ![w] = @ \ {"edit"}]
  /\ lost' = [lost EXCEPT ![w] = TRUE]
  /\ Happens
  /\ UNCHANGED <<snapping, work, queue, stop, touched>>

\* ctrl-c sets the flag.
Stop(w) ==
  /\ ~stop[w]
  /\ stop' = [stop EXCEPT ![w] = TRUE]
  /\ UNCHANGED <<snapping, work, events, queue, touched, lost, happened>>

\* The debouncer sends those events that have settled.
Deliver(w, b) ==
  /\ b # {} /\ b \subseteq events[w]
  /\ Len(queue[w]) < MaxBatches
  /\ events' = [events EXCEPT ![w] = @ \ b]
  /\ queue' = [queue EXCEPT ![w] = Append(@, b)]
  /\ UNCHANGED <<snapping, work, stop, touched, lost, happened>>

-----------------------------------------------------------------------------
(* The loop of watch_and_snap.                                              *)

Goto(w, l) == pc' = [pc EXCEPT ![w] = l]

\* Mutant: the loop ends only when the channel is closed.
CheckNothing(w) ==
  /\ pc[w] = "top"
  /\ Goto(w, "recv")
  /\ UNCHANGED <<work, tip, store, lock, events, queue, todo, got, stop, seen, touched, lost, happened>>

\* At the top of the loop, the only place where the flag is looked at.
CheckStop(w) ==
  /\ pc[w] = "top"
  /\ IF stop[w]
     THEN /\ Goto(w, "stopped")
          /\ events' = [events EXCEPT ![w] = {}]
          /\ queue' = [queue EXCEPT ![w] = <<>>]
     ELSE Goto(w, "recv") /\ UNCHANGED <<events, queue>>
  /\ UNCHANGED <<work, tip, store, lock, todo, got, stop, seen, touched, lost, happened>>

\* A batch is worth a snap if some event of it is outside .tig and some event
\* of it, not necessarily the same, is a Create, Modify or Remove.
TouchesWorkdir(b) == b \intersect {"edit", "access"} # {}
KindsMeaningful(b) == b \intersect {"edit", "tig"} # {}

\* Mutant: without the test of the kinds.
WorthIfTouched(b) == TouchesWorkdir(b)

WorthASnap(b) == TouchesWorkdir(b) /\ KindsMeaningful(b)

Receive(w) ==
  /\ pc[w] = "recv"
  /\ queue[w] # <<>>
  /\ queue' = [queue EXCEPT ![w] = Tail(@)]
  /\ Goto(w, IF WorthASnap(Head(queue[w])) THEN "lock" ELSE "top")
  /\ UNCHANGED <<work, tip, store, lock, events, todo, got, stop, seen, touched, lost, happened>>

\* recv_timeout gives up after poll_interval.
Timeout(w) ==
  /\ pc[w] = "recv"
  /\ queue[w] = <<>>
  /\ Goto(w, "top")
  /\ UNCHANGED <<work, tip, store, lock, events, queue, todo, got, stop, seen, touched, lost, happened>>

-----------------------------------------------------------------------------
(* lock_for_write, then snap_now: scan and record.                          *)

\* With the lock taken, read_dir collects the names before the first file is
\* read.  Nothing that comes between the two steps could be told from what
\* comes before both.
LockAndList(w) ==
  /\ pc[w] = "lock"
  /\ lock = None
  /\ lock' = w
  /\ todo' = [todo EXCEPT ![w] = {f \in Files : work[w][f] # Absent}]
  /\ lost' = [lost EXCEPT ![w] = FALSE]
  /\ events' = Told(w, {"access"}, FALSE)
  /\ Goto(w, "scan")
  /\ UNCHANGED <<work, tip, store, queue, got, stop, seen, touched, happened>>

\* Mutant: whatever the name stands for is read.
ReadAnything(w, f) ==
  /\ pc[w] = "scan"
  /\ f \in todo[w]
  /\ todo' = [todo EXCEPT ![w] = @ \ {f}]
  /\ got' = [got EXCEPT ![w][f] = work[w][f]]
  /\ store' = store \union ({work[w][f]} \ {Absent})
  /\ events' = Told(w, {"access"}, work[w][f] \notin store)
  /\ UNCHANGED <<work, tip, lock, queue, pc, stop, seen, touched, lost, happened>>

\* One file is read and its blob put, which writes only if it is new.
Read(w, f) ==
  /\ pc[w] = "scan"
  /\ f \in todo[w]
  /\ work[w][f] \in Contents
  /\ todo' = [todo EXCEPT ![w] = @ \ {f}]
  /\ got' = [got EXCEPT ![w][f] = work[w][f]]
  /\ store' = store \union {work[w][f]}
  /\ events' = Told(w, {"access"}, work[w][f] \notin store)
  /\ UNCHANGED <<work, tip, lock, queue, pc, stop, seen, touched, lost, happened>>

\* The error goes to the caller's on_event; the batch is gone.
GiveUp(w) ==
  /\ Goto(w, "top")
  /\ lock' = IF lock = w THEN None ELSE lock
  /\ todo' = [todo EXCEPT ![w] = {}]
  /\ got' = [got EXCEPT ![w] = Nothing]
  /\ UNCHANGED <<work, tip, store, events, queue, stop, seen, touched>>

\* A name that was listed is no longer there, or names a socket or fifo.
ScanFails(w) ==
  /\ pc[w] = "scan"
  /\ \E f \in todo[w] : work[w][f] \in {Absent, Special}
  /\ GiveUp(w)
  /\ UNCHANGED <<lost, happened>>

\* Locking, reading or writing fails for another reason.
SnapFails(w) ==
  /\ pc[w] \in {"lock", "scan"}
  /\ GiveUp(w)
  /\ lost' = [lost EXCEPT ![w] = TRUE]
  /\ Happens

\* Mutant: after a snap the loop drains the channel, "the snap covers it".
RecordAndDrain(w) ==
  /\ pc[w] = "scan"
  /\ todo[w] = {}
  /\ tip' = got[w]
  /\ seen' = [seen EXCEPT ![w] = got[w]]
  /\ events' = Told(w, {}, got[w] # tip)
  /\ lock' = None
  /\ got' = [got EXCEPT ![w] = Nothing]
  /\ Goto(w, "top")
  /\ queue' = [queue EXCEPT ![w] = <<>>]
  /\ UNCHANGED <<work, store, todo, stop, touched, lost, happened>>

\* The tree is put; if it is the tip's, nothing is written and nothing recorded.
Record(w) ==
  /\ pc[w] = "scan"
  /\ todo[w] = {}
  /\ tip' = got[w]
  /\ seen' = [seen EXCEPT ![w] = got[w]]
  /\ events' = Told(w, {}, got[w] # tip)
  /\ lock' = None
  /\ got' = [got EXCEPT ![w] = Nothing]
  /\ Goto(w, "top")
  /\ UNCHANGED <<work, store, queue, todo, stop, touched, lost, happened>>

-----------------------------------------------------------------------------
Step(w) ==
  \/ CheckStop(w) \/ Receive(w) \/ Timeout(w) \/ LockAndList(w)
  \/ (\E f \in Files : Read(w, f)) \/ ScanFails(w) \/ Record(w)

Next ==
  \/ \E w \in Workspaces, f \in Files, c \in Contents \union {Absent, Special} : Edit(w, f, c)
  \/ \E w \in Watched :
       \/ Overflow(w) \/ Stop(w) \/ SnapFails(w)
       \/ \E b \in SUBSET Event : Deliver(w, b)
       \/ Step(w)
  \/ \E t \in Tree : OtherCommand(t)

\* A watcher's thread runs, and flock does not pass over it for ever; some of
\* the events that wait for it settle and are sent.  Nothing else need happen.
Fairness ==
  \A w \in Watched :
    /\ SF_vars(Step(w))
    /\ WF_vars(\E b \in SUBSET Event : Deliver(w, b))

Spec == Init /\ [][Next]_vars /\ Fairness

-----------------------------------------------------------------------------
(* Properties.                                                              *)

\* A batch that makes the loop snap is on its way or being dealt with.
SnapAhead(w) ==
  \/ "edit" \in events[w]
  \/ \E i \in 1..Len(queue[w]) : "edit" \in queue[w][i]
  \/ pc[w] = "lock"
  \/ pc[w] = "scan" /\ \A f \in Files \ todo[w] : got[w][f] = work[w][f]

\* watch.rs:79-80, "snap on every external change": if an edited directory is
\* not as the last snap read it, the watcher is going to snap again, in spite
\* of edits during a scan, of scans that fail, and of batches that are ignored;
\* except while a socket or fifo makes scans fail, and after events were
\* dropped or I/O failed, until the next edit.
NothingForgotten ==
  \A w \in Watched :
    (/\ pc[w] # "stopped"
     /\ touched[w] /\ ~lost[w]
     /\ \A f \in Files : work[w][f] # Special
     /\ work[w] # seen[w])
    => SnapAhead(w)

\* The test writes_inside_tig_directory_do_not_cause_loop (watch.rs:250-310),
\* for any number of watchers of one repository: when users and other commands
\* rest, the watchers come to rest, although each scan opens files in the
\* watched directories and each snap writes into one.
Quiesces ==
  <>[](\A w \in Watched : /\ pc[w] \in {"top", "recv", "stopped"}
                             /\ events[w] = {} /\ queue[w] = <<>>)

\* watch.rs:43-45: the loop notices the stop flag, whatever it waits for.
Stops == \A w \in Watched : stop[w] ~> pc[w] = "stopped"
====
