----------------------------- MODULE TigdRuntime -----------------------------
(***************************************************************************)
(* How tigd's handlers share its runtime, its write lock and its log.      *)
(*                                                                         *)
(* A writing handler first calls lock_for_write, which blocks the worker   *)
(* thread it runs on until flock(2) returns, and then awaits the mutex     *)
(* around the daemon's OpLog; GET /v1/oplog awaits the mutex only.  A task *)
(* that awaits gives its worker back, but keeps the write lock.  Every     *)
(* call of lock_for_write opens the lock file anew, so two tasks of one    *)
(* daemon exclude each other like two processes do.                        *)
(***************************************************************************)
EXTENDS Naturals, Sequences, FiniteSets

CONSTANTS
  Workers,   \* the worker threads of the tokio runtime
  Writers,   \* connections that send writing requests, one after the other
  Readers,   \* connections that read the log
  Commands,  \* tig processes on the same repository
  Nobody

ASSUME TasksDisjoint ==
  /\ Writers \cap Readers = {} /\ (Writers \cup Readers) \cap Commands = {}
  /\ Nobody \notin Writers \cup Readers \cup Commands

Tasks  == Writers \cup Readers

VARIABLES
  at,     \* each request: idle, ready, flock, mutex, woken or running
  on,     \* the task each worker thread runs, or is blocked in
  lock,   \* holder of flock(<repo>/lock)
  mutex,  \* holder of AppState.log
  queue   \* tasks that await the mutex, in order

runtimeVars == <<at, on, lock, mutex, queue>>

RuntimeInit ==
  /\ at = [t \in Tasks |-> "idle"]
  /\ on = [w \in Workers |-> Nobody]
  /\ lock = Nobody /\ mutex = Nobody /\ queue = << >>

Request(t) ==
  /\ at[t] = "idle"
  /\ at' = [at EXCEPT ![t] = "ready"]
  /\ UNCHANGED <<on, lock, mutex, queue>>

\* state.log.lock().await: take the mutex, or queue for it and leave the worker.
AwaitLog(w, t) ==
  IF mutex = Nobody
  THEN /\ mutex' = t
       /\ at' = [at EXCEPT ![t] = "running"]
       /\ on' = [on EXCEPT ![w] = t]
       /\ UNCHANGED queue
  ELSE /\ queue' = Append(queue, t)
       /\ at' = [at EXCEPT ![t] = "mutex"]
       /\ on' = [on EXCEPT ![w] = Nobody]
       /\ UNCHANGED mutex

\* A worker takes up a request: a writer enters flock, a reader awaits the log.
Poll(w, t) ==
  /\ on[w] = Nobody /\ at[t] = "ready"
  /\ \/ /\ t \in Writers
        /\ at' = [at EXCEPT ![t] = "flock"]
        /\ on' = [on EXCEPT ![w] = t]
        /\ UNCHANGED <<mutex, queue>>
     \/ t \in Readers /\ AwaitLog(w, t)
  /\ UNCHANGED lock

FlockReturns(w) ==
  /\ on[w] # Nobody /\ at[on[w]] = "flock" /\ lock = Nobody
  /\ lock' = on[w]
  /\ AwaitLog(w, on[w])

\* A worker resumes a task to which the mutex was handed.
Resume(w, t) ==
  /\ on[w] = Nobody /\ at[t] = "woken"
  /\ at' = [at EXCEPT ![t] = "running"]
  /\ on' = [on EXCEPT ![w] = t]
  /\ UNCHANGED <<lock, mutex, queue>>

\* The handler returns: its guards are dropped, the log's before the lock's.
\* tokio's mutex passes to the task that has waited longest.
FinishForgetsWaiter(w) ==
  /\ on[w] # Nobody /\ at[on[w]] = "running"
  /\ LET t == on[w] IN
       /\ lock' = IF lock = t THEN Nobody ELSE lock
       /\ mutex' = Nobody
       /\ at' = [at EXCEPT ![t] = "idle"]
       /\ UNCHANGED queue
  /\ on' = [on EXCEPT ![w] = Nobody]

Finish(w) ==
  /\ on[w] # Nobody /\ at[on[w]] = "running"
  /\ LET t == on[w] IN
       /\ lock' = IF lock = t THEN Nobody ELSE lock
       /\ IF queue = << >>
          THEN /\ mutex' = Nobody
               /\ at' = [at EXCEPT ![t] = "idle"]
               /\ UNCHANGED queue
          ELSE /\ mutex' = Head(queue)
               /\ at' = [at EXCEPT ![t] = "idle", ![Head(queue)] = "woken"]
               /\ queue' = Tail(queue)
  /\ on' = [on EXCEPT ![w] = Nobody]

\* A tig process holds the write lock for a while.
CommandLocks(p) ==
  /\ lock = Nobody
  /\ lock' = p
  /\ UNCHANGED <<at, on, mutex, queue>>

CommandEnds(p) ==
  /\ lock = p
  /\ lock' = Nobody
  /\ UNCHANGED <<at, on, mutex, queue>>

RuntimeNext ==
  \/ \E t \in Tasks : Request(t)
  \/ \E w \in Workers, t \in Tasks : Poll(w, t) \/ Resume(w, t)
  \/ \E w \in Workers : FlockReturns(w) \/ Finish(w)
  \/ \E p \in Commands : CommandLocks(p) \/ CommandEnds(p)

\* A ready or woken task is run in the end, whichever worker is free: the run
\* queues are FIFO and are stolen from; the kernel wakes flock's waiters in
\* turn; a handler or a command with its locks runs on.
RuntimeFairness ==
  /\ \A t \in Tasks : /\ SF_runtimeVars(\E w \in Workers : Poll(w, t))
                      /\ SF_runtimeVars(\E w \in Workers : Resume(w, t))
                      /\ SF_runtimeVars(\E w \in Workers : on[w] = t /\ FlockReturns(w))
  /\ \A w \in Workers : WF_runtimeVars(Finish(w))
  /\ \A p \in Commands : WF_runtimeVars(CommandEnds(p))

RuntimeSpec == RuntimeInit /\ [][RuntimeNext]_runtimeVars /\ RuntimeFairness

----------------------------------------------------------------------------
(* Properties *)

\* Every request is answered.
RequestsEnd == \A t \in Tasks : at[t] = "ready" ~> at[t] = "idle"

\* The log's mutex passes from request to request without being lost: while
\* anyone waits somebody has it and is running or about to, and a writer that
\* waits for it has kept the write lock, so at most one of them waits.
LogHandedOn ==
  /\ mutex = Nobody => queue = << >>
  /\ mutex # Nobody => at[mutex] \in {"running", "woken"}
  /\ \A i \in 1..Len(queue) : /\ at[queue[i]] = "mutex"
                              /\ queue[i] \in Writers => lock = queue[i]

\* The daemon's threads do not block each other on the lock file
\* (repo.rs:33-35): they are never all in flock, waiting for a task of the
\* same daemon that none of them is left to run.  The code keeps this only while
\* there are no more writing requests than workers.
NoSelfBlock ==
  ~ (lock \in Writers /\ \A w \in Workers : on[w] # Nobody /\ at[on[w]] = "flock")

=============================================================================
