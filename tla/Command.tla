------------------------------ MODULE Command ------------------------------
(***************************************************************************)
(* One writing command of the CLI, step by step, against the others: take  *)
(* the lock (repo.rs), open the log and compute the next id (oplog.rs),    *)
(* read the refs, write each of them (refs.rs), append the record in two   *)
(* writes, release.  OpLog takes all of this as one step; here it is shown *)
(* to be one.  The processes may also die anywhere.                        *)
(***************************************************************************)
EXTENDS Integers, Sequences, FiniteSets

CONSTANTS
  Procs,     \* CLI processes
  Refs,      \* the refs, as version numbers
  Nobody,    \* nobody holds the lock
  MaxOps,    \* bound: commands started
  MaxCrashes \* bound: processes that die

ASSUME NobodyIsNoProc == Nobody \notin Procs
ASSUME CommandBounds == MaxOps \in Nat /\ MaxCrashes \in Nat

VARIABLES
  refs,     \* what is on disk
  log,      \* the complete records of oplog/000000.log
  torn,     \* the file ends in a header without its payload
  lock,     \* who holds the flock
  pc,       \* where each process is
  job,      \* what it does: the refs it writes, and when it opens the log
  mine,     \* what it knows: the refs it read, the refs still to write, its id
  started, crashes

vars == <<refs, log, torn, lock, pc, job, mine, started, crashes>>

Jobs == [writes : (SUBSET Refs) \ {{}}, late : BOOLEAN]
NoJob == [writes |-> {}, late |-> FALSE]
Blank == [before |-> << >>, todo |-> {}, id |-> 0]

Init ==
  /\ refs = [r \in Refs |-> 0]
  /\ log = << >>
  /\ torn = FALSE
  /\ lock = Nobody
  /\ pc = [p \in Procs |-> "idle"]
  /\ job = [p \in Procs |-> NoJob]
  /\ mine = [p \in Procs |-> Blank]
  /\ started = 0
  /\ crashes = 0

GoTo(p, l) == pc' = [pc EXCEPT ![p] = l]

\* The process is gone, and with it what it knew.
Forget(p) ==
  /\ GoTo(p, "idle")
  /\ job' = [job EXCEPT ![p] = NoJob]
  /\ mine' = [mine EXCEPT ![p] = Blank]

Start(p) ==
  /\ pc[p] = "idle"
  /\ started < MaxOps
  /\ started' = started + 1
  /\ \E j \in Jobs : job' = [job EXCEPT ![p] = j]
  /\ GoTo(p, "want")
  /\ UNCHANGED <<refs, log, torn, lock, mine, crashes>>

AcquireAnyway(p) ==
  /\ pc[p] = "want"
  /\ lock' = p
  /\ GoTo(p, IF job[p].late THEN "read" ELSE "open")
  /\ UNCHANGED <<refs, log, torn, job, mine, started, crashes>>

\* lock_for_write
Acquire(p) ==
  /\ pc[p] = "want"
  /\ lock = Nobody
  /\ lock' = p
  /\ GoTo(p, IF job[p].late THEN "read" ELSE "open")
  /\ UNCHANGED <<refs, log, torn, job, mine, started, crashes>>

\* OpLog::open reads every record; `wt make`, `wt drop` and `change set-*` do
\* it only after they have written their ref.
Open(p) ==
  /\ pc[p] = "open"
  /\ IF torn THEN GoTo(p, "corrupt") /\ UNCHANGED mine
     ELSE /\ mine' = [mine EXCEPT ![p].id = Len(log)]
          /\ GoTo(p, IF job[p].late THEN "header" ELSE "read")
  /\ UNCHANGED <<refs, log, torn, lock, job, started, crashes>>

\* The before captures, and what the new values derive from.
Read(p) ==
  /\ pc[p] = "read"
  /\ mine' = [mine EXCEPT ![p] = [before |-> [r \in job[p].writes |-> refs[r]],
                                 todo |-> job[p].writes, id |-> @.id]]
  /\ GoTo(p, "write")
  /\ UNCHANGED <<refs, log, torn, lock, job, started, crashes>>

\* atomic_write of one ref
Write(p) ==
  /\ pc[p] = "write"
  /\ \E r \in mine[p].todo :
       /\ refs' = [refs EXCEPT ![r] = mine[p].before[r] + 1]
       /\ mine' = [mine EXCEPT ![p].todo = @ \ {r}]
       /\ GoTo(p, IF mine[p].todo # {r} THEN "write"
                  ELSE IF job[p].late THEN "open" ELSE "header")
  /\ UNCHANGED <<log, torn, lock, job, started, crashes>>

\* FileLog::append: the length, then the record.
Header(p) ==
  /\ pc[p] = "header"
  /\ torn' = TRUE
  /\ GoTo(p, "payload")
  /\ UNCHANGED <<refs, log, lock, job, mine, started, crashes>>

After(p) == [r \in job[p].writes |-> mine[p].before[r] + 1]

Payload(p) ==
  /\ pc[p] = "payload"
  /\ torn' = FALSE
  /\ log' = Append(log, [id |-> mine[p].id, before |-> mine[p].before, after |-> After(p)])
  /\ GoTo(p, "done")
  /\ UNCHANGED <<refs, lock, job, mine, started, crashes>>

\* WriteGuard is dropped when the command returns, with an error or without.
Release(p) ==
  /\ pc[p] \in {"done", "corrupt"}
  /\ lock' = Nobody
  /\ Forget(p)
  /\ UNCHANGED <<refs, log, torn, started, crashes>>

CrashKeepsLock(p) ==
  /\ pc[p] # "idle"
  /\ crashes < MaxCrashes
  /\ crashes' = crashes + 1
  /\ Forget(p)
  /\ UNCHANGED <<refs, log, torn, lock, started>>

\* The process dies; the OS closes its files, and with them the flock.
Crash(p) ==
  /\ pc[p] # "idle"
  /\ crashes < MaxCrashes
  /\ crashes' = crashes + 1
  /\ lock' = IF lock = p THEN Nobody ELSE lock
  /\ Forget(p)
  /\ UNCHANGED <<refs, log, torn, started>>

Step(p) ==
  \/ Open(p) \/ Read(p) \/ Write(p) \/ Header(p) \/ Payload(p) \/ Release(p)

Next ==
  \E p \in Procs : Start(p) \/ Acquire(p) \/ Step(p) \/ Crash(p)

\* A process that may run does; and the kernel does not pass over a process that
\* waits for the flock for ever.
Fairness == \A p \in Procs : WF_vars(Step(p)) /\ SF_vars(Acquire(p))

Spec == Init /\ [][Next]_vars /\ Fairness

----------------------------------------------------------------------------
(* Properties *)

\* A command is atomic: the refs move when its record is complete
\* (repo.rs:194-197); until then its refs count as what it read.  Only when a
\* process has died may refs change without a record, and never by a lost update.
Unrecorded(p) == \/ pc[p] \in {"write", "header", "payload"}
                 \/ pc[p] = "open" /\ job[p].late

Committed ==
  [r \in Refs |-> IF lock # Nobody /\ Unrecorded(lock) /\ r \in job[lock].writes
                  THEN mine[lock].before[r] ELSE refs[r]]

L == INSTANCE Ledger WITH val <- Committed, ops <- log, deaths <- crashes
Atomic == L!Spec

\* No process that holds the lock finds the log corrupt: a process that died
\* does not keep the ones after it from writing.  The code does not promise it
\* (repo.rs:32-33 speaks of the lock only) and does not keep it.
CleanOpen == \A p \in Procs : pc[p] # "corrupt"

\* Every command that waits for the lock gets it and ends, failed or not,
\* though processes die holding it (repo.rs:28-33).
CommandEnds == \A p \in Procs : pc[p] = "want" ~> pc[p] = "idle"

=============================================================================
