----------------------------- MODULE Visibility -----------------------------
(***************************************************************************)
(* What tigd's reading requests show while the repository changes under    *)
(* them (handlers.rs, vis.rs).  A read takes no lock: it lists the change  *)
(* records and then reads them one at a time, or reads the log and then    *)
(* the record of every change each op names.  A writing command holds the  *)
(* flock, writes the records, and appends to the log in two writes (here   *)
(* AppendHeader and AppendPayload; Command.tla has the rest of it).  Undo  *)
(* takes back the last command not undone, as UndoStack has it.  Writers   *)
(* that die are Command.tla's.                                             *)
(***************************************************************************)
EXTENDS Naturals, Sequences, FiniteSets

CONSTANTS
  Principals, \* callers and authors
  Changes,    \* change ids
  First,      \* the change the repository starts with
  Requests,   \* reading requests under way at a time
  NoChange,   \* no record under this id
  MaxOps      \* bound: ops in the log

ASSUME FirstIsChange == First \in Changes
ASSUME NoChangeIsNone == NoChange \notin Changes /\ MaxOps \in Nat

VARIABLES
  record,  \* refs/changes/: the record under each id
  log,     \* the ops' references to changes, as records of three sets
  writer,  \* the command that holds the flock, after its records are written
  half,    \* the log ends in a header whose payload is still to come
  undos,   \* for the ops not undone: the id and the record it had before
  req,     \* the reading requests
  during   \* history: what each caller could see since the request came in

vars == <<record, log, writer, half, undos, req, during>>

Labels == {"public", "private"}  \* what parse_vis_label returns
Snaps == 1 .. MaxOps + 1
Record == [author : Principals, vis : Labels \cup Principals,
           history : SUBSET Snaps, current : Snaps]
References == [changes : SUBSET Changes, heads : SUBSET Changes, manifests : SUBSET Changes]
NoWriter == [by |-> "nobody"]

(***************************************************************************)
(* vis.rs.  A label that names a principal is that principal; nothing of   *)
(* the program sets one, nor a team's or an organisation's, which are      *)
(* seen by the author only.                                                *)
(***************************************************************************)
CanSee(vis, author, p) == vis = "public" \/ p = author \/ p = vis
CanMutate(author, p) == p = author

Seen(p, rec) == {c \in Changes : rec[c] # NoChange /\ CanSee(rec[c].vis, rec[c].author, p)}
Reach(p, rec) == {x \in Changes \X Snaps : x[1] \in Seen(p, rec) /\ x[2] \in rec[x[1]].history}

ReferencedDirectly(op) == op.changes \cup op.heads

\* The changes an op refers to, by Change, Head and Workspace references.
Referenced(op) == op.changes \cup op.heads \cup op.manifests

-----------------------------------------------------------------------------
(* Reading requests *)

Idle == [kind |-> "none"]

Ask(kind, p, c, want, limit) ==
  [kind |-> kind, caller |-> p, change |-> c, want |-> want, limit |-> limit]

\* What may be asked for: by name, the endpoints' parameters.
ListRequests == {Ask("list", p, First, {}, 0) : p \in Principals}
ChangeRequests == {Ask("change", p, c, {}, 0) : p \in Principals, c \in Changes}
TreeRequests == ChangeRequests  \* a path in the tree of a change's tip
SnapshotRequests == {Ask("snapshot", p, First, {s}, 0) : p \in Principals, s \in Snaps}

\* Two snapshots, either of which may be left out: `to` is then the change's
\* current one, here 0, and `from` the parent of `to`, which is not looked up.
DiffRequests ==
  {Ask("at", p, c, {to}, 0) : p \in Principals, c \in Changes, to \in Snaps \cup {0}}
  \cup {Ask("at", p, c, {from, to}, 0) :
          p \in Principals, c \in Changes, from \in Snaps, to \in Snaps \cup {0}}

\* One snapshot, by default the change's current one.
BlameRequests == {Ask("at", p, c, {s}, 0) : p \in Principals, c \in Changes, s \in Snaps \cup {0}}
GrepRequests == BlameRequests

\* The last so many ops.
OplogRequests == {Ask("oplog", p, First, {}, n) : p \in Principals, n \in 0 .. MaxOps}

Asked == ListRequests \cup ChangeRequests \cup TreeRequests \cup SnapshotRequests
         \cup DiffRequests \cup BlameRequests \cup GrepRequests \cup OplogRequests

\* A request arrives and caller_from names its caller.
Arrive(r) ==
  /\ req[r] = Idle
  /\ \E q \in Asked :
       /\ req' = [req EXCEPT ![r] =
            [kind |-> q.kind, caller |-> q.caller, change |-> q.change, want |-> q.want,
             limit |-> q.limit, pc |-> "start", todo |-> {}, found |-> {}, ops |-> << >>, hidden |-> {}]]
       /\ during' = [during EXCEPT ![r] =
            [ever |-> Reach(q.caller, record), always |-> Reach(q.caller, record),
             removed |-> FALSE, torn |-> half]]
  /\ UNCHANGED <<record, log, writer, half, undos>>

On(r, kinds, pc) == req[r].kind \in kinds /\ req[r].pc = pc

Reading == UNCHANGED <<record, log, writer, half, undos, during>>

\* load_visible_change: what is hidden is answered like what is not there.
LoadVisible(r) ==
  /\ On(r, {"change", "at"}, "start")
  /\ LET q == req[r] IN
     req' = [req EXCEPT ![r] =
       IF q.change \notin Seen(q.caller, record) THEN [q EXCEPT !.pc = "notfound"]
       ELSE IF q.kind = "change" THEN [q EXCEPT !.pc = "ok", !.found = {q.change}]
       ELSE [q EXCEPT !.pc = "gate",
                      !.want = {IF s = 0 THEN record[q.change].current ELSE s : s \in @}]]
  /\ Reading

\* list_changes, and the list with which visible_snapshot_set begins: the ids.
ListIds(r) ==
  /\ On(r, {"list", "snapshot"}, "start") \/ On(r, {"at"}, "gate")
  /\ req' = [req EXCEPT ![r].pc = "records",
                        ![r].todo = {c \in Changes : record[c] # NoChange}]
  /\ Reading

ReadCurrentOnly(r) ==
  /\ On(r, {"list", "snapshot", "at"}, "records")
  /\ \E c \in req[r].todo :
       req' = [req EXCEPT
         ![r].pc = IF record[c] = NoChange THEN "error" ELSE @,
         ![r].todo = @ \ {c},
         ![r].found = IF c \notin Seen(req[r].caller, record) THEN @
                      ELSE IF req[r].kind = "list" THEN @ \cup {c}
                      ELSE @ \cup {record[c].current}]
  /\ Reading

\* The next record of the list.  One that is gone fails the whole request.
ReadRecord(r) ==
  /\ On(r, {"list", "snapshot", "at"}, "records")
  /\ \E c \in req[r].todo :
       req' = [req EXCEPT
         ![r].pc = IF record[c] = NoChange THEN "error" ELSE @,
         ![r].todo = @ \ {c},
         ![r].found = IF c \notin Seen(req[r].caller, record) THEN @
                      ELSE IF req[r].kind = "list" THEN @ \cup {c}
                      ELSE @ \cup record[c].history]
  /\ Reading

\* All records are read: the snapshots asked for are among those found or
\* the answer is 404.
EndRecords(r) ==
  /\ On(r, {"list", "snapshot", "at"}, "records")
  /\ req[r].todo = {}
  /\ req' = [req EXCEPT ![r].pc =
       IF req[r].kind = "list" \/ req[r].want \subseteq req[r].found THEN "ok" ELSE "notfound"]
  /\ Reading

Last(ops, n) == SubSeq(ops, IF Len(ops) > n THEN Len(ops) - n + 1 ELSE 1, Len(ops))

\* The daemon's mutex around its log: a read holds it until it is answered.
MutexFree ==
  /\ \A r \in Requests : ~ On(r, {"oplog"}, "ops")
  /\ ~ (half /\ writer.by = "tigd")

\* list_oplog reads the whole file, which may end in the middle of a record
\* that a command of the CLI is writing.
ListOps(r) ==
  /\ On(r, {"oplog"}, "start")
  /\ MutexFree
  /\ req' = [req EXCEPT ![r] =
       IF half THEN [@ EXCEPT !.pc = "error"]
       ELSE LET ops == Last(log, @.limit) IN
            [@ EXCEPT !.pc = "ops", !.ops = ops,
                      !.todo = UNION {{i} \X Referenced(ops[i]) : i \in DOMAIN ops}]]
  /\ Reading

ReadReferenceOrFail(r) ==
  /\ On(r, {"oplog"}, "ops")
  /\ LET q == req[r] IN
     \E x \in q.todo :
       /\ \A y \in q.todo : x[1] <= y[1]
       /\ req' = [req EXCEPT ![r] =
            IF record[x[2]] = NoChange THEN [q EXCEPT !.pc = "error"]
            ELSE IF x[2] \in Seen(q.caller, record) THEN [q EXCEPT !.todo = q.todo \ {x}]
            ELSE [q EXCEPT !.todo = {y \in q.todo : y[1] # x[1]}, !.hidden = q.hidden \cup {x[1]}]]
  /\ Reading

\* is_op_visible: the record of the next change the op refers to; one that is
\* hidden or gone redacts the op and ends its reading.
ReadReference(r) ==
  /\ On(r, {"oplog"}, "ops")
  /\ LET q == req[r] IN
     \E x \in q.todo :
       /\ \A y \in q.todo : x[1] <= y[1]
       /\ req' = [req EXCEPT ![r] =
            IF x[2] \in Seen(q.caller, record) THEN [q EXCEPT !.todo = q.todo \ {x}]
            ELSE [q EXCEPT !.todo = {y \in q.todo : y[1] # x[1]}, !.hidden = q.hidden \cup {x[1]}]]
  /\ Reading

EndOps(r) ==
  /\ On(r, {"oplog"}, "ops")
  /\ req[r].todo = {}
  /\ req' = [req EXCEPT ![r].pc = "ok"]
  /\ Reading

Answered(r) == req[r] # Idle /\ req[r].pc \in {"ok", "notfound", "error"}

Leave(r) ==
  /\ Answered(r)
  /\ req' = [req EXCEPT ![r] = Idle]
  /\ during' = [during EXCEPT ![r] = [ever |-> {}, always |-> {}, removed |-> FALSE, torn |-> FALSE]]
  /\ UNCHANGED <<record, log, writer, half, undos>>

Read(r) ==
  \/ Arrive(r) \/ LoadVisible(r) \/ ListIds(r) \/ ReadRecord(r) \/ EndRecords(r)
  \/ ListOps(r) \/ ReadReference(r) \/ EndOps(r) \/ Leave(r)

-----------------------------------------------------------------------------
(* Writing commands *)

Free == writer = NoWriter /\ Len(log) < MaxOps

\* The new records, and what becomes of the requests that are reading.
Write(by, new, refs) ==
  /\ record' = new
  /\ writer' = [by |-> by, refs |-> refs]
  /\ during' = [r \in Requests |-> [during[r] EXCEPT
       !.ever = IF req[r] = Idle THEN @ ELSE @ \cup Reach(req[r].caller, new),
       !.always = IF req[r] = Idle THEN @ ELSE @ \cap Reach(req[r].caller, new),
       !.removed = @ \/ (req[r] # Idle /\ \E c \in Changes : record[c] # NoChange /\ new[c] = NoChange)]]
  /\ UNCHANGED <<log, half, req>>

Push(c, refs) == undos' = Append(undos, [change |-> c, was |-> record[c], refs |-> refs])

To(c) == [changes |-> {c}, heads |-> {}, manifests |-> {}]

\* No id is given twice, nor a snapshot's hash.
Fresh(c) == record[c] = NoChange /\ \A i \in DOMAIN log : c \notin log[i].changes
NewSnap == Len(log) + 2

\* load_mutable_change: tigd writes for the author, the CLI for whoever runs it.
May(by, p, c) == by = "tigd" => c \in Seen(p, record) /\ CanMutate(record[c].author, p)

\* create_change, and `tig change new`, which also moves HEAD away from a
\* change and onto the new one; the parent's tip is the new change's first
\* snapshot.
Create(by, p, parent, c, vis) ==
  /\ Free
  /\ Fresh(c)
  /\ record[parent] # NoChange
  /\ by = "tigd" => parent \in Seen(p, record)
  /\ LET base == record[parent].current
         refs == IF by = "tigd" THEN To(c) ELSE [To(c) EXCEPT !.heads = {parent, c}]
     IN /\ Write(by, [record EXCEPT ![c] =
                   [author |-> p, vis |-> vis, history |-> {base}, current |-> base]], refs)
        /\ Push(c, refs)

\* patch_tree_path, delete_tree_path, snap_change and `tig snap`.
Advance(by, p, c) ==
  /\ Free
  /\ record[c] # NoChange
  /\ May(by, p, c)
  /\ Write(by, [record EXCEPT ![c].history = @ \cup {NewSnap}, ![c].current = NewSnap], To(c))
  /\ Push(c, To(c))

\* transition_change and `tig change set-*`.
Transition(by, p, c, vis) ==
  /\ Free
  /\ record[c] # NoChange
  /\ May(by, p, c)
  /\ Write(by, [record EXCEPT ![c].vis = vis], To(c))
  /\ Push(c, To(c))

\* `tig wt make` and `tig wt drop`: a manifest that names a change, and no
\* record written.
Manifest(c) ==
  /\ Free
  /\ record[c] # NoChange
  /\ LET refs == [changes |-> {}, heads |-> {}, manifests |-> {c}] IN
     /\ Write("cli", record, refs)
     /\ Push(c, refs)

Undo(by) ==
  /\ Free
  /\ undos # << >>
  /\ LET last == undos[Len(undos)] IN
     Write(by, IF last.refs.changes = {} THEN record ELSE [record EXCEPT ![last.change] = last.was],
           last.refs)
  /\ undos' = SubSeq(undos, 1, Len(undos) - 1)

AppendHeaderAlone ==
  /\ writer # NoWriter /\ ~ half
  /\ half' = TRUE
  /\ writer' = NoWriter
  /\ during' = [r \in Requests |-> [during[r] EXCEPT !.torn = @ \/ req[r] # Idle]]
  /\ UNCHANGED <<record, log, undos, req>>

\* append: the header, then the payload; tigd takes its mutex first.
AppendHeader ==
  /\ writer # NoWriter /\ ~ half
  /\ writer.by = "tigd" => MutexFree
  /\ half' = TRUE
  /\ during' = [r \in Requests |-> [during[r] EXCEPT !.torn = @ \/ req[r] # Idle]]
  /\ UNCHANGED <<record, log, writer, undos, req>>

AppendPayload ==
  /\ half
  /\ log' = Append(log, writer.refs)
  /\ half' = FALSE
  /\ writer' = NoWriter
  /\ UNCHANGED <<record, undos, req, during>>

Init ==
  /\ \E p \in Principals, vis \in Labels :
       record = [c \in Changes |-> IF c # First THEN NoChange
                  ELSE [author |-> p, vis |-> vis, history |-> {1}, current |-> 1]]
  /\ log = << >>
  /\ writer = NoWriter
  /\ half = FALSE
  /\ undos = << >>
  /\ req = [r \in Requests |-> Idle]
  /\ during = [r \in Requests |-> [ever |-> {}, always |-> {}, removed |-> FALSE, torn |-> FALSE]]

Command ==
  \/ \E by \in {"cli", "tigd"}, p \in Principals, c \in Changes :
       \/ \E parent \in Changes, vis \in Labels : Create(by, p, parent, c, vis)
       \/ Advance(by, p, c)
       \/ \E vis \in Labels : Transition(by, p, c, vis)
  \/ \E c \in Changes : Manifest(c)
  \/ \E by \in {"cli", "tigd"} : Undo(by)
  \/ AppendHeader \/ AppendPayload

Next == Command \/ \E r \in Requests : Read(r)

Spec == Init /\ [][Next]_vars

-----------------------------------------------------------------------------
(* Properties *)

TypeOK ==
  /\ record \in [Changes -> Record \cup {NoChange}]
  /\ log \in Seq(References) /\ Len(log) <= MaxOps
  /\ half => writer # NoWriter
  /\ \A i \in DOMAIN undos : undos[i].was \in Record \cup {NoChange} /\ undos[i].refs \in References
  /\ \A r \in Requests : during[r].always \subseteq during[r].ever

Done(r, answer) == req[r] # Idle /\ req[r].pc = answer

\* Seen or reachable at some moment, or at every moment, of the request.
EverSeen(r) == {x[1] : x \in during[r].ever}
AlwaysSeen(r) == {x[1] : x \in during[r].always}
EverReached(r) == {x[2] : x \in during[r].ever}
AlwaysReached(r) == {x[2] : x \in during[r].always}

\* Every change an op says anything about.
Named(op) == UNION {op.changes, op.heads, op.manifests}

\* Whatever an answer shows, the caller was allowed to see at some moment of
\* the request: the changes listed or loaded, the snapshots fetched, diffed,
\* blamed or searched, and every change an unredacted op refers to, though
\* records move between the reads (handlers.rs:116, 145, 190).
ShownWasVisible ==
  \A r \in Requests : Done(r, "ok") =>
    CASE req[r].kind \in {"list", "change"} -> req[r].found \subseteq EverSeen(r)
      [] req[r].kind \in {"snapshot", "at"} -> req[r].want \subseteq EverReached(r)
      [] OTHER -> \A i \in DOMAIN req[r].ops \ req[r].hidden :
                    Named(req[r].ops[i]) \subseteq EverSeen(r)

\* What the caller was allowed to see throughout the request is not kept from
\* it: no change is missing from a list, no op redacted, and 404 is answered
\* only for a change, or a snapshot of a change, that was out of sight, or
\* not there, at some moment.
NothingWithheld ==
  \A r \in Requests :
    /\ Done(r, "ok") => CASE req[r].kind = "list" -> AlwaysSeen(r) \subseteq req[r].found
                          [] OTHER -> \A i \in req[r].hidden :
                                        ~ (Named(req[r].ops[i]) \subseteq AlwaysSeen(r))
    /\ Done(r, "notfound") =>
         \/ req[r].kind \in {"change", "at"} /\ req[r].change \notin AlwaysSeen(r)
         \/ ~ (req[r].want \subseteq AlwaysReached(r))

\* A read fails only if, while it ran, an undo removed a change or a command
\* was appending to the log.
FailureExplained ==
  \A r \in Requests : Done(r, "error") =>
    IF req[r].kind = "oplog" THEN during[r].torn ELSE during[r].removed
=============================================================================
