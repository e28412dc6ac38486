------------------------------ MODULE TigdProofs ------------------------------
(* What tigd's reading requests show, for any number of changes, principals, *)
(* requests under way and commands: by what each phase of a request knows of *)
(* the records it has read and of those it has still to read.                *)
EXTENDS Visibility, TigdRuntime, Integers, SequenceTheorems, FiniteSetTheorems, TLAPS

Kinds == {"list", "change", "snapshot", "at", "oplog"}
Req ==
  [kind : Kinds, caller : Principals, change : Changes, want : SUBSET (Snaps \cup {0}), limit : 0 .. MaxOps,
   pc : {"start", "gate", "records", "ops", "ok", "notfound", "error"},
   todo : SUBSET (Changes \cup (Nat \X Changes)), found : SUBSET (Changes \cup Snaps),
   ops : Seq(References), hidden : SUBSET Nat]
Since == [ever : SUBSET (Changes \X Snaps), always : SUBSET (Changes \X Snaps),
          removed : BOOLEAN, torn : BOOLEAN]

\* A change's current snapshot is one of its history, in a record and in what an
\* undo brings back.
Whole(rec) == rec # NoChange => rec.current \in rec.history

UndoEntry == [change : Changes, was : Record \cup {NoChange}, refs : References]
WriterInv ==
  /\ writer # NoWriter => writer.refs \in References /\ Len(log) < MaxOps
  /\ undos \in Seq(UndoEntry)
  /\ \A i \in DOMAIN undos : Whole(undos[i].was)
  /\ \A c \in Changes : Whole(record[c])

ReqTypes ==
  /\ half \in BOOLEAN
  /\ req \in [Requests -> Req \cup {Idle}]
  /\ during \in [Requests -> Since]

TypeInv == TypeOK /\ WriterInv /\ ReqTypes

\* What a caller can see now it could ever see, and could at every moment only that.
SoFar(r) ==
  req[r] # Idle =>
    /\ Reach(req[r].caller, record) \subseteq during[r].ever
    /\ during[r].always \subseteq Reach(req[r].caller, record)
    /\ half => during[r].torn

\* What a request has read it was shown, and what it did not find was not there.
ReadInv(r) ==
  LET q == req[r] IN
  /\ q.kind # "oplog" => q.hidden = {}
  /\ q.kind \in {"list", "change"} => q.found \subseteq EverSeen(r)
  /\ q.kind \in {"snapshot", "at"} => q.found \subseteq EverReached(r)
  /\ q.pc = "start" => q.found = {} /\ q.hidden = {}
  /\ q.pc = "gate" => q.found = {} /\ q.kind = "at"
  /\ q.pc = "records" =>
       /\ q.kind \in {"list", "snapshot", "at"} /\ q.todo \subseteq Changes
       /\ \A c \in q.todo : record[c] # NoChange \/ during[r].removed
       /\ q.kind = "list" => AlwaysSeen(r) \subseteq q.todo \cup q.found
       /\ q.kind # "list" => \A x \in during[r].always : x[1] \in q.todo \/ x[2] \in q.found
  /\ q.pc = "ok" =>
       /\ q.kind = "list" => AlwaysSeen(r) \subseteq q.found
       /\ q.kind \in {"snapshot", "at"} => q.want \subseteq q.found
  /\ q.pc = "notfound" =>
       \/ q.kind \in {"change", "at"} /\ q.change \notin AlwaysSeen(r)
       \/ ~ (q.want \subseteq AlwaysReached(r))
  /\ q.pc = "error" => IF q.kind = "oplog" THEN during[r].torn ELSE during[r].removed

\* Of an op that is not redacted, every change was seen or is still to be looked up;
\* of one that is, some change was out of sight.
OpsInv(r) ==
  LET q == req[r] IN
  /\ q.pc = "ops" => q.kind = "oplog"
  /\ q.pc \in {"ops", "ok"} /\ q.kind = "oplog" =>
       /\ \A x \in q.todo : x[1] \in DOMAIN q.ops /\ x[2] \in Referenced(q.ops[x[1]])
       /\ \A i \in DOMAIN q.ops \ q.hidden :
            \A c \in Referenced(q.ops[i]) : c \in EverSeen(r) \/ (q.pc = "ops" /\ <<i, c>> \in q.todo)
       /\ \A i \in q.hidden : ~ (Referenced(q.ops[i]) \subseteq AlwaysSeen(r))

RequestInv == \A r \in Requests : SoFar(r) /\ (req[r] # Idle => ReadInv(r) /\ OpsInv(r))

----------------------------------------------------------------------------
(* Types                                                                    *)

\* What is asked for (the endpoints' parameters) is well-typed.
LEMMA AskedType ==
  ASSUME NEW q \in Asked
  PROVE  /\ q.kind \in Kinds /\ q.caller \in Principals /\ q.change \in Changes
         /\ q.want \subseteq Snaps \cup {0} /\ q.limit \in 0 .. MaxOps
<1>1. MaxOps \in Nat /\ First \in Changes
  BY FirstIsChange, NoChangeIsNone
<1>2. CASE q \in ListRequests \cup ChangeRequests
  BY <1>1, <1>2 DEF ListRequests, ChangeRequests, Ask, Kinds
<1>3. CASE q \in SnapshotRequests
  BY <1>1, <1>3 DEF SnapshotRequests, Ask, Kinds
<1>4. CASE q \in DiffRequests
  BY <1>1, <1>4 DEF DiffRequests, Ask, Kinds
<1>5. CASE q \in BlameRequests
  BY <1>1, <1>5 DEF BlameRequests, Ask, Kinds
<1>6. CASE q \in OplogRequests
  BY <1>1, <1>6 DEF OplogRequests, Ask, Kinds
<1> QED
  BY <1>2, <1>3, <1>4, <1>5, <1>6 DEF Asked, TreeRequests, GrepRequests

\* A request is none or one of the five kinds.
LEMMA IdleIsNoReq == Idle \notin Req
BY DEF Idle, Req, Kinds

\* A request under way is read by On's kind and place.
LEMMA OnIsReq ==
  ASSUME ReqTypes, NEW r \in Requests, NEW kinds \in SUBSET Kinds, NEW phase, On(r, kinds, phase)
  PROVE  req[r] # Idle /\ req[r] \in Req /\ req[r].kind \in kinds /\ req[r].pc = phase
BY DEF ReqTypes, On, Idle, Kinds

\* What a caller can reach are snapshots of changes.
LEMMA ReachType == \A p, rec : Reach(p, rec) \subseteq Changes \X Snaps /\ Seen(p, rec) \subseteq Changes
BY DEF Reach, Seen

\* A record is there or not.
LEMMA RecordType ==
  ASSUME TypeOK, NEW c \in Changes, record[c] # NoChange
  PROVE  /\ record[c] \in Record /\ record[c].current \in Snaps /\ record[c].history \in SUBSET Snaps
         /\ record[c].author \in Principals /\ record[c].vis \in Labels \cup Principals
BY DEF TypeOK, Record

\* The op log's last entries are entries of it.
LEMMA LastType ==
  ASSUME NEW ops \in Seq(References), NEW n \in Nat
  PROVE  Last(ops, n) \in Seq(References)
<1>1. Len(ops) \in Nat
  BY LenProperties
<1> DEFINE m == IF Len(ops) > n THEN Len(ops) - n + 1 ELSE 1
<1>2. m \in 1 .. Len(ops) + 1 /\ Len(ops) \in m - 1 .. Len(ops)
  BY <1>1
<1>3. SubSeq(ops, m, Len(ops)) \in Seq(References)
  <2> HIDE DEF m
  <2> QED BY <1>2, SubSeqProperties
<1> QED
  BY <1>3 DEF Last

\* A request that arrives.
LEMMA ArriveStep ==
  ASSUME TypeInv, NEW r \in Requests, Arrive(r)
  PROVE  /\ req'[r] \in Req /\ req'[r].pc = "start" /\ req'[r].found = {} /\ req'[r].hidden = {}
         /\ req' = [req EXCEPT ![r] = req'[r]]
         /\ during' = [during EXCEPT ![r] =
              [ever |-> Reach(req'[r].caller, record), always |-> Reach(req'[r].caller, record),
               removed |-> FALSE, torn |-> half]]
<1>1. PICK q \in Asked :
        /\ req' = [req EXCEPT ![r] =
             [kind |-> q.kind, caller |-> q.caller, change |-> q.change, want |-> q.want,
              limit |-> q.limit, pc |-> "start", todo |-> {}, found |-> {}, ops |-> << >>, hidden |-> {}]]
        /\ during' = [during EXCEPT ![r] =
             [ever |-> Reach(q.caller, record), always |-> Reach(q.caller, record),
              removed |-> FALSE, torn |-> half]]
  BY DEF Arrive
<1>2. << >> \in Seq(References)
  BY EmptySeq
<1> DEFINE new == [kind |-> q.kind, caller |-> q.caller, change |-> q.change, want |-> q.want,
                   limit |-> q.limit, pc |-> "start", todo |-> {}, found |-> {}, ops |-> << >>, hidden |-> {}]
<1>3. new \in Req
  BY <1>2, AskedType DEF Req
<1>4. req' = [req EXCEPT ![r] = new] /\ req'[r] = new
  BY <1>1 DEF TypeInv, ReqTypes
<1>5. new.caller = q.caller /\ new.pc = "start" /\ new.found = {} /\ new.hidden = {}
  OBVIOUS
<1> HIDE DEF new
<1> QED
  BY <1>1, <1>3, <1>4, <1>5

\* A request reads: it stays the request it is, and nothing else changes.
Moves(r) ==
  /\ req[r] # Idle /\ req[r] \in Req /\ req'[r] \in Req
  /\ req' = [req EXCEPT ![r] = req'[r]]
  /\ req'[r].kind = req[r].kind /\ req'[r].caller = req[r].caller /\ req'[r].change = req[r].change
  /\ UNCHANGED <<record, log, writer, half, undos, during>>

\* Whatever a request becomes is well-typed and is the same request.
LEMMA MovesBy ==
  ASSUME TypeInv, NEW r \in Requests, req[r] \in Req, NEW new \in Req, req' = [req EXCEPT ![r] = new],
         new.kind = req[r].kind, new.caller = req[r].caller, new.change = req[r].change, Reading
  PROVE  Moves(r) /\ req'[r] = new
<1>1. req'[r] = new
  BY DEF TypeInv, ReqTypes
<1> QED
  BY <1>1, IdleIsNoReq DEF Moves, Reading

\* load_visible_change answers 404, or the change, or goes on to its snapshots.
LEMMA LoadVisibleStep ==
  ASSUME TypeInv, NEW r \in Requests, LoadVisible(r)
  PROVE  /\ Moves(r) /\ req[r].kind \in {"change", "at"} /\ req[r].pc = "start"
         /\ req'[r].hidden = req[r].hidden
         /\ \/ req'[r].pc = "notfound" /\ req[r].change \notin Seen(req[r].caller, record)
               /\ req'[r].found = req[r].found
            \/ req'[r].pc = "ok" /\ req[r].kind = "change" /\ req'[r].found = {req[r].change}
               /\ req[r].change \in Seen(req[r].caller, record)
            \/ req'[r].pc = "gate" /\ req[r].kind = "at" /\ req'[r].found = req[r].found
<1> DEFINE q == req[r]
           refused == [q EXCEPT !.pc = "notfound"]
           loaded == [q EXCEPT !.pc = "ok", !.found = {q.change}]
           wanted == {IF s = 0 THEN record[q.change].current ELSE s : s \in q.want}
           gated == [q EXCEPT !.pc = "gate", !.want = wanted]
           new == IF q.change \notin Seen(q.caller, record) THEN refused
                  ELSE IF q.kind = "change" THEN loaded ELSE gated
<1>1. q \in Req /\ q.kind \in {"change", "at"} /\ q.pc = "start"
  BY OnIsReq DEF LoadVisible, Kinds, TypeInv
<1>2. req' = [req EXCEPT ![r] = new] /\ Reading
  BY DEF LoadVisible
<1>3. /\ refused \in Req /\ refused.pc = "notfound" /\ refused.found = q.found /\ refused.hidden = q.hidden
      /\ refused.kind = q.kind /\ refused.caller = q.caller /\ refused.change = q.change
  BY <1>1 DEF Req
<1>4. /\ loaded \in Req /\ loaded.pc = "ok" /\ loaded.found = {q.change} /\ loaded.hidden = q.hidden
      /\ loaded.kind = q.kind /\ loaded.caller = q.caller /\ loaded.change = q.change
  BY <1>1 DEF Req
<1>5. q.change \in Seen(q.caller, record) =>
        /\ gated \in Req /\ gated.pc = "gate" /\ gated.found = q.found /\ gated.hidden = q.hidden
        /\ gated.kind = q.kind /\ gated.caller = q.caller /\ gated.change = q.change
  <2> SUFFICES ASSUME q.change \in Seen(q.caller, record)
               PROVE  /\ gated \in Req /\ gated.pc = "gate" /\ gated.found = q.found /\ gated.hidden = q.hidden
                      /\ gated.kind = q.kind /\ gated.caller = q.caller /\ gated.change = q.change
    OBVIOUS
  <2>1. record[q.change].current \in Snaps
    BY RecordType DEF Seen, TypeInv
  <2>2. wanted \in SUBSET (Snaps \cup {0})
    BY <1>1, <2>1 DEF Req
  <2> HIDE DEF wanted
  <2> QED
    BY <1>1, <2>2 DEF Req
<1>6. /\ new \in Req /\ new.kind = q.kind /\ new.caller = q.caller /\ new.change = q.change
      /\ new.hidden = q.hidden
      /\ \/ new.pc = "notfound" /\ q.change \notin Seen(q.caller, record) /\ new.found = q.found
         \/ new.pc = "ok" /\ q.kind = "change" /\ new.found = {q.change} /\ q.change \in Seen(q.caller, record)
         \/ new.pc = "gate" /\ q.kind = "at" /\ new.found = q.found
  <2> HIDE DEF refused, loaded, gated
  <2> QED BY <1>1, <1>3, <1>4, <1>5
<1> HIDE DEF new
<1>7. Moves(r) /\ req'[r] = new
  BY <1>1, <1>2, <1>6, MovesBy
<1> QED
  BY <1>1, <1>6, <1>7

\* The list of a request's changes is every change there is.
LEMMA ListIdsStep ==
  ASSUME TypeInv, NEW r \in Requests, ListIds(r)
  PROVE  /\ Moves(r) /\ req'[r].pc = "records"
         /\ \/ req[r].kind \in {"list", "snapshot"} /\ req[r].pc = "start"
            \/ req[r].kind = "at" /\ req[r].pc = "gate"
         /\ req'[r].todo = {c \in Changes : record[c] # NoChange}
         /\ req'[r].found = req[r].found /\ req'[r].hidden = req[r].hidden
<1> DEFINE q == req[r]
           all == {c \in Changes : record[c] # NoChange}
           new == [q EXCEPT !.pc = "records", !.todo = all]
<1>1. /\ q \in Req
      /\ \/ q.kind \in {"list", "snapshot"} /\ q.pc = "start"
         \/ q.kind = "at" /\ q.pc = "gate"
  BY OnIsReq DEF ListIds, Kinds, TypeInv
<1>2. req' = [req EXCEPT ![r] = new] /\ Reading
  BY Zenon DEF ListIds
<1>3. all \in SUBSET (Changes \cup (Nat \X Changes))
  OBVIOUS
<1>4. /\ new \in Req /\ new.kind = q.kind /\ new.caller = q.caller /\ new.change = q.change
      /\ new.hidden = q.hidden /\ new.found = q.found /\ new.pc = "records" /\ new.todo = all
  <2> HIDE DEF all
  <2> QED BY <1>1, <1>3 DEF Req
<1> HIDE DEF new
<1>5. Moves(r) /\ req'[r] = new
  BY <1>1, <1>2, <1>4, MovesBy
<1> QED
  BY <1>1, <1>4, <1>5

\* One more record is read: shown if it is seen, an error if it is gone.
LEMMA ReadRecordStep ==
  ASSUME TypeInv, NEW r \in Requests, ReadRecord(r)
  PROVE  \E c \in req[r].todo :
           /\ Moves(r) /\ req[r].kind \in {"list", "snapshot", "at"} /\ req[r].pc = "records"
           /\ req'[r].pc = IF record[c] = NoChange THEN "error" ELSE "records"
           /\ req'[r].todo = req[r].todo \ {c}
           /\ req'[r].found = IF c \notin Seen(req[r].caller, record) THEN req[r].found
                              ELSE IF req[r].kind = "list" THEN req[r].found \cup {c}
                              ELSE req[r].found \cup record[c].history
           /\ req'[r].hidden = req[r].hidden
<1> DEFINE q == req[r]
<1>1. q \in Req /\ q.kind \in {"list", "snapshot", "at"} /\ q.pc = "records"
  BY OnIsReq DEF ReadRecord, Kinds, TypeInv
<1>2. PICK c \in q.todo :
        req' = [req EXCEPT
          ![r].pc = IF record[c] = NoChange THEN "error" ELSE q.pc,
          ![r].todo = q.todo \ {c},
          ![r].found = IF c \notin Seen(q.caller, record) THEN q.found
                       ELSE IF q.kind = "list" THEN q.found \cup {c}
                       ELSE q.found \cup record[c].history]
  BY DEF ReadRecord
<1> DEFINE phase == IF record[c] = NoChange THEN "error" ELSE q.pc
           left == q.todo \ {c}
           more == IF c \notin Seen(q.caller, record) THEN q.found
                   ELSE IF q.kind = "list" THEN q.found \cup {c}
                   ELSE q.found \cup record[c].history
           new == [q EXCEPT !.pc = phase, !.todo = left, !.found = more]
<1>3. req' = [req EXCEPT ![r] = new]
  BY <1>2, Zenon
<1>4. phase \in {"records", "error"} /\ left \in SUBSET (Changes \cup (Nat \X Changes))
  BY <1>1 DEF Req
<1>5. more \in SUBSET (Changes \cup Snaps)
  <2>1. c \in Seen(q.caller, record) => c \in Changes /\ record[c].history \in SUBSET Snaps
    BY RecordType DEF Seen, TypeInv
  <2>2. q.found \in SUBSET (Changes \cup Snaps)
    BY <1>1 DEF Req
  <2> QED
    BY <2>1, <2>2
<1>6. /\ new \in Req /\ new.kind = q.kind /\ new.caller = q.caller /\ new.change = q.change
      /\ new.hidden = q.hidden /\ new.pc = phase /\ new.todo = left /\ new.found = more
  <2> HIDE DEF phase, left, more
  <2> QED BY <1>1, <1>4, <1>5 DEF Req
<1> HIDE DEF new
<1>7. Moves(r) /\ req'[r] = new
  BY <1>1, <1>3, <1>6, MovesBy DEF ReadRecord
<1> QED
  BY <1>1, <1>6, <1>7

\* All records read, the answer is the list, or whether the snapshots were there.
LEMMA EndRecordsStep ==
  ASSUME TypeInv, NEW r \in Requests, EndRecords(r)
  PROVE  /\ Moves(r) /\ req[r].kind \in {"list", "snapshot", "at"} /\ req[r].pc = "records"
         /\ req[r].todo = {}
         /\ req'[r].pc = IF req[r].kind = "list" \/ req[r].want \subseteq req[r].found
                         THEN "ok" ELSE "notfound"
         /\ req'[r].want = req[r].want /\ req'[r].found = req[r].found /\ req'[r].hidden = req[r].hidden
<1> DEFINE q == req[r]
           phase == IF q.kind = "list" \/ q.want \subseteq q.found THEN "ok" ELSE "notfound"
           new == [q EXCEPT !.pc = phase]
<1>1. q \in Req /\ q.kind \in {"list", "snapshot", "at"} /\ q.pc = "records" /\ q.todo = {}
  BY OnIsReq DEF EndRecords, Kinds, TypeInv
<1>2. req' = [req EXCEPT ![r] = new] /\ Reading
  BY Zenon DEF EndRecords
<1>3. /\ new \in Req /\ new.kind = q.kind /\ new.caller = q.caller /\ new.change = q.change
      /\ new.hidden = q.hidden /\ new.found = q.found /\ new.want = q.want /\ new.pc = phase
  <2>1. phase \in {"ok", "notfound"}
    OBVIOUS
  <2> HIDE DEF phase
  <2> QED BY <1>1, <2>1 DEF Req
<1> HIDE DEF new
<1>4. Moves(r) /\ req'[r] = new
  BY <1>1, <1>2, <1>3, MovesBy
<1> QED
  BY <1>1, <1>3, <1>4

\* What is to be read of the ops: each reference of each.
ToRead(ops) == UNION {{i} \X Referenced(ops[i]) : i \in DOMAIN ops}

\* A reference to be looked up is one of an op's, and each is.
LEMMA ToLookUp ==
  ASSUME NEW ops
  PROVE  /\ \A x \in ToRead(ops) : x[1] \in DOMAIN ops /\ x[2] \in Referenced(ops[x[1]])
         /\ \A i \in DOMAIN ops : \A c \in Referenced(ops[i]) : <<i, c>> \in ToRead(ops)
BY DEF ToRead

\* The references of typed ops are changes.
LEMMA ReferencedType ==
  ASSUME NEW ops \in Seq(References)
  PROVE  /\ \A i \in DOMAIN ops : i \in Nat /\ Referenced(ops[i]) \subseteq Changes
         /\ ToRead(ops) \subseteq Nat \X Changes
<1>1. \A i \in DOMAIN ops : i \in Nat /\ ops[i] \in References
  BY ElementOfSeq, LenProperties
<1>2. \A i \in DOMAIN ops : Referenced(ops[i]) \subseteq Changes
  BY <1>1 DEF Referenced, References
<1> QED
  BY <1>1, <1>2 DEF ToRead

\* list_oplog takes the last ops, unless it finds half a record.
LEMMA ListOpsStep ==
  ASSUME TypeInv, NEW r \in Requests, ListOps(r)
  PROVE  /\ Moves(r) /\ req[r].kind = "oplog" /\ req[r].pc = "start"
         /\ req'[r].found = req[r].found /\ req'[r].hidden = req[r].hidden
         /\ \/ req'[r].pc = "error" /\ half
            \/ req'[r].pc = "ops" /\ req'[r].todo = ToRead(req'[r].ops)
<1> DEFINE q == req[r]
           ops == Last(log, q.limit)
           failed == [q EXCEPT !.pc = "error"]
           listed == [q EXCEPT !.pc = "ops", !.ops = ops, !.todo = ToRead(ops)]
           new == IF half THEN failed ELSE listed
<1>1. q \in Req /\ q.kind = "oplog" /\ q.pc = "start" /\ q.limit \in Nat
  <2>1. q \in Req /\ q.kind = "oplog" /\ q.pc = "start"
    <3>1. On(r, {"oplog"}, "start") /\ {"oplog"} \in SUBSET Kinds
      BY DEF ListOps, Kinds
    <3>2. req[r] \in Req /\ req[r].kind \in {"oplog"} /\ req[r].pc = "start"
      BY <3>1, OnIsReq DEF TypeInv
    <3> QED
      BY <3>2
  <2> QED
    BY <2>1, NoChangeIsNone DEF Req
<1>2. req' = [req EXCEPT ![r] = new] /\ Reading
  BY DEF ListOps, ToRead
<1>3. ops \in Seq(References)
  BY <1>1, LastType DEF TypeInv, TypeOK
<1>4. ToRead(ops) \in SUBSET (Changes \cup (Nat \X Changes))
  BY <1>3, ReferencedType
<1>5. /\ failed \in Req /\ failed.kind = q.kind /\ failed.caller = q.caller /\ failed.change = q.change
      /\ failed.hidden = q.hidden /\ failed.found = q.found /\ failed.pc = "error"
  BY <1>1 DEF Req
<1>6. /\ listed \in Req /\ listed.kind = q.kind /\ listed.caller = q.caller /\ listed.change = q.change
      /\ listed.hidden = q.hidden /\ listed.found = q.found /\ listed.pc = "ops"
      /\ listed.todo = ToRead(listed.ops)
  <2> HIDE DEF ops
  <2> QED BY <1>1, <1>3, <1>4 DEF Req
<1>7. /\ new \in Req /\ new.kind = q.kind /\ new.caller = q.caller /\ new.change = q.change
      /\ new.hidden = q.hidden /\ new.found = q.found
      /\ \/ new.pc = "error" /\ half
         \/ new.pc = "ops" /\ new.todo = ToRead(new.ops)
  <2> HIDE DEF failed, listed
  <2> QED BY <1>5, <1>6
<1> HIDE DEF new
<1>8. Moves(r) /\ req'[r] = new
  BY <1>1, <1>2, <1>7, MovesBy
<1> QED
  BY <1>1, <1>7, <1>8

\* is_op_visible goes on after a change it sees, and is done with the op at one it does not.
LEMMA ReadReferenceStep ==
  ASSUME TypeInv, NEW r \in Requests, ReadReference(r),
         \A x \in req[r].todo : x[1] \in DOMAIN req[r].ops
  PROVE  \E x \in req[r].todo :
           /\ Moves(r) /\ req[r].kind = "oplog" /\ req[r].pc = "ops" /\ req'[r].pc = "ops"
           /\ req'[r].ops = req[r].ops /\ req'[r].found = req[r].found
           /\ \/ /\ x[2] \in Seen(req[r].caller, record)
                 /\ req'[r].todo = req[r].todo \ {x} /\ req'[r].hidden = req[r].hidden
              \/ /\ x[2] \notin Seen(req[r].caller, record)
                 /\ req'[r].todo = {y \in req[r].todo : y[1] # x[1]}
                 /\ req'[r].hidden = req[r].hidden \cup {x[1]}
<1> DEFINE q == req[r]
<1>1. q \in Req /\ q.kind = "oplog" /\ q.pc = "ops" /\ q.ops \in Seq(References)
  <2>1. q \in Req /\ q.kind = "oplog" /\ q.pc = "ops"
    <3>1. On(r, {"oplog"}, "ops") /\ {"oplog"} \in SUBSET Kinds
      BY DEF ReadReference, Kinds
    <3>2. req[r] \in Req /\ req[r].kind \in {"oplog"} /\ req[r].pc = "ops"
      BY <3>1, OnIsReq DEF TypeInv
    <3> QED
      BY <3>2
  <2> QED
    BY <2>1 DEF Req
<1>2. PICK x \in q.todo :
        req' = [req EXCEPT ![r] =
          IF x[2] \in Seen(q.caller, record) THEN [q EXCEPT !.todo = q.todo \ {x}]
          ELSE [q EXCEPT !.todo = {y \in q.todo : y[1] # x[1]}, !.hidden = q.hidden \cup {x[1]}]]
  BY Zenon DEF ReadReference
<1> DEFINE rest == {y \in q.todo : y[1] # x[1]}
           more == q.hidden \cup {x[1]}
           seen == [q EXCEPT !.todo = q.todo \ {x}]
           not == [q EXCEPT !.todo = rest, !.hidden = more]
           new == IF x[2] \in Seen(q.caller, record) THEN seen ELSE not
<1>3. x[1] \in Nat
  BY <1>1, ReferencedType
<1>4. /\ rest \in SUBSET (Changes \cup (Nat \X Changes))
      /\ q.todo \ {x} \in SUBSET (Changes \cup (Nat \X Changes))
      /\ more \in SUBSET Nat
  BY <1>1, <1>3 DEF Req
<1>5. /\ seen \in Req /\ seen.kind = q.kind /\ seen.caller = q.caller /\ seen.change = q.change
      /\ seen.hidden = q.hidden /\ seen.found = q.found /\ seen.pc = "ops" /\ seen.ops = q.ops
      /\ seen.todo = q.todo \ {x}
  BY <1>1, <1>4 DEF Req
<1>6. /\ not \in Req /\ not.kind = q.kind /\ not.caller = q.caller /\ not.change = q.change
      /\ not.hidden = more /\ not.found = q.found /\ not.pc = "ops" /\ not.ops = q.ops
      /\ not.todo = rest
  <2> HIDE DEF rest, more
  <2> QED BY <1>1, <1>4 DEF Req
<1>7. req' = [req EXCEPT ![r] = new]
  BY <1>2
<1>8. /\ new \in Req /\ new.kind = q.kind /\ new.caller = q.caller /\ new.change = q.change
      /\ new.found = q.found /\ new.pc = "ops" /\ new.ops = q.ops
      /\ \/ x[2] \in Seen(q.caller, record) /\ new.todo = q.todo \ {x} /\ new.hidden = q.hidden
         \/ x[2] \notin Seen(q.caller, record) /\ new.todo = rest /\ new.hidden = more
  <2> HIDE DEF seen, not, rest, more
  <2> QED BY <1>5, <1>6
<1> HIDE DEF new
<1>9. Moves(r) /\ req'[r] = new
  BY <1>1, <1>7, <1>8, MovesBy DEF ReadReference
<1> QED
  BY <1>1, <1>8, <1>9

\* All references read, the op log is answered.
LEMMA EndOpsStep ==
  ASSUME TypeInv, NEW r \in Requests, EndOps(r)
  PROVE  /\ Moves(r) /\ req[r].kind = "oplog" /\ req[r].pc = "ops" /\ req[r].todo = {}
         /\ req'[r].pc = "ok" /\ req'[r].ops = req[r].ops /\ req'[r].todo = {}
         /\ req'[r].found = req[r].found /\ req'[r].hidden = req[r].hidden
<1> DEFINE q == req[r]
           new == [q EXCEPT !.pc = "ok"]
<1>1. q \in Req /\ q.kind = "oplog" /\ q.pc = "ops" /\ q.todo = {}
  <2>1. On(r, {"oplog"}, "ops") /\ {"oplog"} \in SUBSET Kinds /\ q.todo = {}
    BY DEF EndOps, Kinds
  <2>2. req[r] \in Req /\ req[r].kind \in {"oplog"} /\ req[r].pc = "ops"
    BY <2>1, OnIsReq DEF TypeInv
  <2> QED
    BY <2>1, <2>2
<1>2. req' = [req EXCEPT ![r] = new] /\ Reading
  BY Zenon DEF EndOps
<1>3. /\ new \in Req /\ new.kind = q.kind /\ new.caller = q.caller /\ new.change = q.change
      /\ new.hidden = q.hidden /\ new.found = q.found /\ new.pc = "ok" /\ new.ops = q.ops
      /\ new.todo = q.todo
  BY <1>1 DEF Req
<1> HIDE DEF new
<1>4. Moves(r) /\ req'[r] = new
  BY <1>1, <1>2, <1>3, MovesBy
<1> QED
  BY <1>1, <1>3, <1>4

\* What every writing command does to the records: new ones, each with its current
\* snapshot in its history, and an entry for the undo that takes it back.
Writing ==
  \E by \in {"cli", "tigd"}, new \in [Changes -> Record \cup {NoChange}], refs \in References :
    /\ Write(by, new, refs)
    /\ \A c \in Changes : Whole(new[c])
    /\ writer = NoWriter /\ Len(log) < MaxOps
    /\ undos' \in Seq(UndoEntry)
    /\ \A i \in DOMAIN undos' : Whole(undos'[i].was)

\* A command's undo entry is its change and the record that has.
LEMMA PushStep ==
  ASSUME TypeInv, NEW c \in Changes, NEW refs \in References, Push(c, refs)
  PROVE  undos' \in Seq(UndoEntry) /\ \A i \in DOMAIN undos' : Whole(undos'[i].was)
<1> DEFINE entry == [change |-> c, was |-> record[c], refs |-> refs]
<1>1. undos' = Append(undos, entry) /\ undos \in Seq(UndoEntry)
  BY DEF Push, TypeInv, WriterInv
<1>2. entry \in UndoEntry
  BY DEF UndoEntry, TypeInv, TypeOK
<1>3. Whole(entry.was)
  BY DEF TypeInv, WriterInv
<1> HIDE DEF entry
<1>4. undos' \in Seq(UndoEntry) /\ Len(undos') = Len(undos) + 1 /\ Len(undos) \in Nat
  BY <1>1, <1>2, AppendProperties, LenProperties
<1>5. \A i \in 1..Len(undos') : undos'[i] = entry \/ (i \in 1..Len(undos) /\ undos'[i] = undos[i])
  BY <1>1, <1>2, <1>4, AppendProperties
<1>6. DOMAIN undos' = 1..Len(undos') /\ DOMAIN undos = 1..Len(undos)
  BY <1>1, <1>4, LenProperties
<1> QED
  BY <1>3, <1>4, <1>5, <1>6 DEF TypeInv, WriterInv

\* A new snapshot's hash is one of those there are.
LEMMA NewSnapType == TypeOK /\ Free => NewSnap \in Snaps
<1> SUFFICES ASSUME TypeOK, Free PROVE NewSnap \in Snaps
  OBVIOUS
<1>1. Len(log) \in Nat /\ Len(log) < MaxOps /\ MaxOps \in Nat
  BY LenProperties, NoChangeIsNone DEF TypeOK, Free
<1> QED
  BY <1>1 DEF NewSnap, Snaps

\* A ref write's references.
LEMMA ToType == \A c \in Changes : To(c) \in References
BY DEF To, References

\* create_change and `tig change new`.
LEMMA CreateWrites ==
  ASSUME TypeInv, NEW by \in {"cli", "tigd"}, NEW p \in Principals, NEW parent \in Changes,
         NEW c \in Changes, NEW vis \in Labels, Create(by, p, parent, c, vis)
  PROVE  Writing
<1> DEFINE base == record[parent].current
           refs == IF by = "tigd" THEN To(c) ELSE [To(c) EXCEPT !.heads = {parent, c}]
           rec == [author |-> p, vis |-> vis, history |-> {base}, current |-> base]
           new == [record EXCEPT ![c] = rec]
<1>1. Write(by, new, refs) /\ Push(c, refs) /\ Free
  BY DEF Create
<1>2. base \in Snaps
  BY RecordType DEF Create, TypeInv
<1>3. rec \in Record
  <2> HIDE DEF base
  <2> QED BY <1>2 DEF Record
<1>4. Whole(rec)
  BY DEF Whole
<1>5. refs \in References
  BY DEF To, References
<1> HIDE DEF rec, refs
<1>6. new \in [Changes -> Record \cup {NoChange}] /\ \A d \in Changes : Whole(new[d])
  BY <1>3, <1>4 DEF TypeInv, TypeOK, WriterInv
<1> HIDE DEF new
<1> QED
  BY <1>1, <1>5, <1>6, PushStep DEF Writing, Free

\* patch_tree_path, delete_tree_path and the snaps.
LEMMA AdvanceWrites ==
  ASSUME TypeInv, NEW by \in {"cli", "tigd"}, NEW p \in Principals, NEW c \in Changes, Advance(by, p, c)
  PROVE  Writing
<1> DEFINE more == record[c].history \cup {NewSnap}
           rec == [record[c] EXCEPT !.history = more, !.current = NewSnap]
           new == [record EXCEPT ![c] = rec]
<1>1. Write(by, new, To(c)) /\ Push(c, To(c)) /\ Free /\ record[c] # NoChange
  BY Zenon DEF Advance
<1>2. record[c] \in Record
  BY <1>1, RecordType DEF TypeInv
<1>3. NewSnap \in Snaps
  BY <1>1, NewSnapType DEF TypeInv
<1>4. more \in SUBSET Snaps /\ NewSnap \in more
  BY <1>2, <1>3 DEF Record
<1>5. rec \in Record /\ Whole(rec)
  <2> HIDE DEF more
  <2> QED BY <1>2, <1>3, <1>4 DEF Record, Whole
<1> HIDE DEF rec
<1>6. new \in [Changes -> Record \cup {NoChange}] /\ \A d \in Changes : Whole(new[d])
  BY <1>5 DEF TypeInv, TypeOK, WriterInv
<1> HIDE DEF new
<1> QED
  BY <1>1, <1>6, PushStep, ToType DEF Writing, Free

\* transition_change and `tig change set-*`.
LEMMA TransitionWrites ==
  ASSUME TypeInv, NEW by \in {"cli", "tigd"}, NEW p \in Principals, NEW c \in Changes,
         NEW vis \in Labels, Transition(by, p, c, vis)
  PROVE  Writing
<1> DEFINE rec == [record[c] EXCEPT !.vis = vis]
           new == [record EXCEPT ![c] = rec]
<1>1. Write(by, new, To(c)) /\ Push(c, To(c)) /\ Free /\ record[c] # NoChange
  BY Zenon DEF Transition
<1>2. record[c] \in Record /\ record[c].current \in record[c].history
  BY <1>1, RecordType DEF TypeInv, WriterInv, Whole
<1>3. rec \in Record /\ Whole(rec)
  BY <1>2 DEF Record, Whole
<1> HIDE DEF rec
<1>4. new \in [Changes -> Record \cup {NoChange}] /\ \A d \in Changes : Whole(new[d])
  BY <1>3 DEF TypeInv, TypeOK, WriterInv
<1> HIDE DEF new
<1> QED
  BY <1>1, <1>4, PushStep, ToType DEF Writing, Free

\* `tig wt make` and `tig wt drop` write no record.
LEMMA ManifestWrites ==
  ASSUME TypeInv, NEW c \in Changes, Manifest(c)
  PROVE  Writing
<1> DEFINE refs == [changes |-> {}, heads |-> {}, manifests |-> {c}]
<1>1. Write("cli", record, refs) /\ Push(c, refs) /\ Free
  BY DEF Manifest
<1>2. refs \in References
  BY DEF References
<1>3. record \in [Changes -> Record \cup {NoChange}] /\ \A d \in Changes : Whole(record[d])
  BY DEF TypeInv, TypeOK, WriterInv
<1> HIDE DEF refs
<1> QED
  BY <1>1, <1>2, <1>3, PushStep DEF Writing, Free

\* `tig undo` puts back what the last entry holds.
LEMMA UndoWrites ==
  ASSUME TypeInv, NEW by \in {"cli", "tigd"}, Undo(by)
  PROVE  Writing
<1> DEFINE last == undos[Len(undos)]
           new == IF last.refs.changes = {} THEN record ELSE [record EXCEPT ![last.change] = last.was]
<1>1. /\ Write(by, new, last.refs) /\ undos # << >> /\ Free
      /\ undos' = SubSeq(undos, 1, Len(undos) - 1)
  BY DEF Undo
<1>2. undos \in Seq(UndoEntry) /\ Len(undos) \in Nat /\ Len(undos) # 0 /\ DOMAIN undos = 1..Len(undos)
  BY <1>1, LenProperties, EmptySeq DEF TypeInv, WriterInv
<1>3. last \in UndoEntry /\ Whole(last.was)
  BY <1>2, ElementOfSeq DEF TypeInv, WriterInv
<1>4. last.refs \in References /\ last.was \in Record \cup {NoChange} /\ last.change \in Changes
  <2> HIDE DEF last
  <2> QED BY <1>3 DEF UndoEntry
<1>5. new \in [Changes -> Record \cup {NoChange}] /\ \A d \in Changes : Whole(new[d])
  <2> HIDE DEF last
  <2> QED BY <1>3, <1>4 DEF TypeInv, TypeOK, WriterInv
<1>6. /\ undos' \in Seq(UndoEntry) /\ Len(undos') = Len(undos) - 1
      /\ \A i \in 1..Len(undos') : undos'[i] = undos[i]
  BY <1>1, <1>2, SubSeqProperties
<1>7. DOMAIN undos' = 1..Len(undos')
  BY <1>6, LenProperties
<1>8. \A i \in DOMAIN undos' : Whole(undos'[i].was)
  BY <1>2, <1>6, <1>7 DEF TypeInv, WriterInv
<1> HIDE DEF new, last
<1> QED
  BY <1>1, <1>4, <1>5, <1>6, <1>8 DEF Writing, Free

\* What a step does, whoever takes it.
LEMMA NextCases ==
  ASSUME TypeInv, Next
  PROVE  \/ Writing
         \/ AppendHeader \/ AppendPayload
         \/ \E r \in Requests : Read(r)
BY CreateWrites, AdvanceWrites, TransitionWrites, ManifestWrites, UndoWrites DEF Next, Command

\* While a request waits, what its caller could ever see grows, and what it could
\* see all the time shrinks to what it can see now.
LEMMA WriteDuring ==
  ASSUME TypeInv, NEW by, NEW new \in [Changes -> Record \cup {NoChange}], NEW refs, Write(by, new, refs),
         NEW r \in Requests
  PROVE  /\ during'[r] \in Since
         /\ during'[r].torn = during[r].torn
         /\ during[r].removed => during'[r].removed
         /\ during[r].ever \subseteq during'[r].ever /\ during'[r].always \subseteq during[r].always
         /\ req[r] # Idle =>
              /\ Reach(req[r].caller, record') \subseteq during'[r].ever
              /\ during'[r].always \subseteq Reach(req[r].caller, record')
              /\ \A c \in Changes : record[c] # NoChange => record'[c] # NoChange \/ during'[r].removed
<1> DEFINE reach == Reach(req[r].caller, new)
           d == during[r]
           ever == IF req[r] = Idle THEN d.ever ELSE d.ever \cup reach
           always == IF req[r] = Idle THEN d.always ELSE d.always \cap reach
           removed == d.removed \/ (req[r] # Idle /\ \E c \in Changes : record[c] # NoChange /\ new[c] = NoChange)
           next == [d EXCEPT !.ever = ever, !.always = always, !.removed = removed]
<1>1. record' = new /\ during'[r] = next
  BY Zenon DEF Write
<1>2. d \in Since
  BY DEF TypeInv, ReqTypes
<1>3. ever \in SUBSET (Changes \X Snaps) /\ always \in SUBSET (Changes \X Snaps) /\ removed \in BOOLEAN
  BY <1>2, ReachType DEF Since
<1>4. /\ d.ever \subseteq ever /\ always \subseteq d.always
      /\ req[r] # Idle => reach \subseteq ever /\ always \subseteq reach
  OBVIOUS
<1>5. /\ d.removed => removed
      /\ req[r] # Idle => \A c \in Changes : record[c] # NoChange => new[c] # NoChange \/ removed
  OBVIOUS
<1>6. next \in Since /\ next.ever = ever /\ next.always = always /\ next.removed = removed /\ next.torn = d.torn
  <2> HIDE DEF ever, always, removed
  <2> QED BY <1>2, <1>3 DEF Since
<1> HIDE DEF ever, always, removed, next
<1> QED
  BY <1>1, <1>4, <1>5, <1>6

\* The header's half record tears whatever reads meanwhile.
LEMMA HeaderDuring ==
  ASSUME TypeInv, AppendHeader, NEW r \in Requests
  PROVE  /\ during'[r] \in Since
         /\ during'[r].ever = during[r].ever /\ during'[r].always = during[r].always
         /\ during'[r].removed = during[r].removed
         /\ during[r].torn => during'[r].torn
         /\ req[r] # Idle => during'[r].torn
<1> DEFINE d == during[r]
           torn == d.torn \/ req[r] # Idle
           next == [d EXCEPT !.torn = torn]
<1>1. during'[r] = next
  BY Zenon DEF AppendHeader
<1>2. d \in Since
  BY DEF TypeInv, ReqTypes
<1>3. torn \in BOOLEAN /\ (d.torn => torn) /\ (req[r] # Idle => torn)
  BY <1>2 DEF Since
<1>4. /\ next \in Since /\ next.ever = d.ever /\ next.always = d.always /\ next.removed = d.removed
      /\ next.torn = torn
  <2> HIDE DEF torn
  <2> QED BY <1>2, <1>3 DEF Since
<1> HIDE DEF torn, next
<1> QED
  BY <1>1, <1>3, <1>4

\* A request looks up references of its ops.
LEMMA LooksUpItsOwn ==
  ASSUME TypeInv, RequestInv, NEW r \in Requests, ReadReference(r)
  PROVE  \A x \in req[r].todo : x[1] \in DOMAIN req[r].ops
<1>1. On(r, {"oplog"}, "ops") /\ {"oplog"} \in SUBSET Kinds
  BY DEF ReadReference, Kinds
<1>2. req[r] # Idle /\ req[r].kind \in {"oplog"} /\ req[r].pc = "ops"
  BY <1>1, OnIsReq DEF TypeInv
<1> QED
  BY <1>2 DEF RequestInv, OpsInv

\* A request arrives, leaves, or reads on.
LEMMA ReadCases ==
  ASSUME TypeInv, RequestInv, NEW r \in Requests, Read(r)
  PROVE  Arrive(r) \/ Leave(r) \/ Moves(r)
BY LoadVisibleStep, ListIdsStep, ReadRecordStep, EndRecordsStep, ListOpsStep, ReadReferenceStep, EndOpsStep,
   LooksUpItsOwn DEF Read

\* Nobody and nothing since nobody came.
LEMMA NothingYet == [ever |-> {}, always |-> {}, removed |-> FALSE, torn |-> FALSE] \in Since
BY DEF Since

\* Every step keeps the types.
LEMMA TypeStep == TypeInv /\ RequestInv /\ [Next]_vars => TypeInv'
<1> SUFFICES ASSUME TypeInv, RequestInv, [Next]_vars PROVE TypeInv'
  OBVIOUS
<1> DEFINE Stored == /\ record \in [Changes -> Record \cup {NoChange}]
                     /\ log \in Seq(References) /\ Len(log) <= MaxOps
                     /\ half => writer # NoWriter
                     /\ WriterInv
           Asking == ReqTypes /\ \A r \in Requests : during[r].always \subseteq during[r].ever
<1>0. Len(log) \in Nat /\ MaxOps \in Nat
  BY LenProperties, NoChangeIsNone DEF TypeInv, TypeOK
<1>1. Stored /\ Asking
  BY DEF TypeInv, TypeOK
<1>2. (Stored /\ Asking)' => TypeInv'
  <2>1. WriterInv' => \A i \in DOMAIN undos' : undos'[i].was \in Record \cup {NoChange} /\ undos'[i].refs \in References
    <3> SUFFICES ASSUME WriterInv', NEW i \in DOMAIN undos'
                 PROVE  undos'[i].was \in Record \cup {NoChange} /\ undos'[i].refs \in References
      OBVIOUS
    <3>1. undos' \in Seq(UndoEntry)
      BY DEF WriterInv
    <3>2. i \in 1..Len(undos')
      BY <3>1, LenProperties
    <3>3. undos'[i] \in UndoEntry
      BY <3>1, <3>2, ElementOfSeq
    <3> QED
      BY <3>3 DEF UndoEntry
  <2> QED
    BY <2>1 DEF TypeInv, TypeOK
<1>3. CASE UNCHANGED vars
  <2>1. Stored'
    BY <1>1, <1>3 DEF vars, WriterInv
  <2>2. Asking'
    BY <1>1, <1>3 DEF vars, ReqTypes
  <2> QED
    BY <1>2, <2>1, <2>2
<1>4. CASE Writing
  <2>1. PICK by \in {"cli", "tigd"}, new \in [Changes -> Record \cup {NoChange}], refs \in References :
          /\ Write(by, new, refs) /\ \A c \in Changes : Whole(new[c])
          /\ Len(log) < MaxOps /\ undos' \in Seq(UndoEntry) /\ \A i \in DOMAIN undos' : Whole(undos'[i].was)
    BY <1>4 DEF Writing
  <2>2. record' = new /\ writer' = [by |-> by, refs |-> refs] /\ UNCHANGED <<log, half, req>>
    BY <2>1 DEF Write
  <2>3. writer' # NoWriter /\ writer'.refs \in References
    BY <2>2 DEF NoWriter
  <2>4. Stored'
    BY <1>1, <2>1, <2>2, <2>3 DEF WriterInv
  <2>5. \A r \in Requests : during'[r] \in Since /\ during'[r].always \subseteq during'[r].ever
    <3>1. \A r \in Requests : during'[r] \in Since /\ during'[r].always \subseteq during[r].always
                              /\ during[r].ever \subseteq during'[r].ever
      BY <2>1, WriteDuring
    <3> QED
      BY <1>1, <3>1
  <2>6. during' \in [Requests -> Since]
    BY <2>1, <2>5 DEF Write
  <2>7. Asking'
    BY <1>1, <2>2, <2>5, <2>6 DEF ReqTypes
  <2> QED
    BY <1>2, <2>4, <2>7
<1>5. CASE AppendHeader
  <2>1. \A r \in Requests : during'[r] \in Since /\ during'[r].always \subseteq during'[r].ever
    BY <1>1, <1>5, HeaderDuring
  <2>2. during' \in [Requests -> Since]
    BY <1>5, <2>1 DEF AppendHeader
  <2>3. Asking'
    BY <1>1, <1>5, <2>1, <2>2 DEF AppendHeader, ReqTypes
  <2>4. Stored'
    BY <1>1, <1>5 DEF AppendHeader, WriterInv
  <2> QED
    BY <1>2, <2>3, <2>4
<1>6. CASE AppendPayload
  <2>1. writer.refs \in References /\ Len(log) < MaxOps
    BY <1>1, <1>6 DEF AppendPayload, WriterInv
  <2>2. log' \in Seq(References) /\ Len(log') = Len(log) + 1
    BY <1>1, <1>6, <2>1, AppendProperties DEF AppendPayload
  <2>3. Stored'
    BY <1>0, <1>1, <1>6, <2>1, <2>2 DEF AppendPayload, WriterInv
  <2>4. Asking'
    BY <1>1, <1>6 DEF AppendPayload, ReqTypes
  <2> QED
    BY <1>2, <2>3, <2>4
<1>7. ASSUME NEW r \in Requests, Read(r) PROVE TypeInv'
  <2>1. CASE Moves(r)
    <3>1. Stored'
      BY <1>1, <2>1 DEF Moves, WriterInv
    <3>2. Asking'
      BY <1>1, <2>1 DEF Moves, ReqTypes
    <3> QED
      BY <1>2, <3>1, <3>2
  <2>2. CASE Arrive(r)
    <3>1. Stored'
      BY <1>1, <2>2 DEF Arrive, WriterInv
    <3> DEFINE since == [ever |-> Reach(req'[r].caller, record), always |-> Reach(req'[r].caller, record),
                         removed |-> FALSE, torn |-> half]
    <3>2. req'[r] \in Req /\ req' = [req EXCEPT ![r] = req'[r]] /\ during' = [during EXCEPT ![r] = since]
      BY <2>2, ArriveStep
    <3>3. half \in BOOLEAN
      BY DEF TypeInv, ReqTypes
    <3>4. since \in Since /\ since.always \subseteq since.ever
      BY <3>3, ReachType DEF Since
    <3> HIDE DEF since
    <3>5. Asking'
      BY <1>1, <2>2, <3>2, <3>4 DEF ReqTypes, Arrive
    <3> QED
      BY <1>2, <3>1, <3>5
  <2>3. CASE Leave(r)
    <3>1. Stored'
      BY <1>1, <2>3 DEF Leave, WriterInv
    <3> DEFINE since == [ever |-> {}, always |-> {}, removed |-> FALSE, torn |-> FALSE]
    <3>2. req' = [req EXCEPT ![r] = Idle] /\ during' = [during EXCEPT ![r] = since]
      BY <2>3 DEF Leave
    <3>3. since \in Since /\ since.always \subseteq since.ever
      BY NothingYet
    <3> HIDE DEF since
    <3>4. Asking'
      BY <1>1, <2>3, <3>2, <3>3 DEF ReqTypes, Leave
    <3> QED
      BY <1>2, <3>1, <3>4
  <2> QED
    BY <1>7, <2>1, <2>2, <2>3, ReadCases
<1> QED
  BY <1>3, <1>4, <1>5, <1>6, <1>7, NextCases

----------------------------------------------------------------------------
(* What a request knows                                                     *)

\* What is visible now, a request that waits has had in sight; and what it had in
\* sight all the time is visible now.
LEMMA InSight ==
  ASSUME TypeInv, NEW r \in Requests, SoFar(r), req[r] # Idle
  PROVE  LET seen == Seen(req[r].caller, record) IN
         /\ seen \subseteq EverSeen(r) /\ \A c \in seen : record[c].history \subseteq EverReached(r)
         /\ AlwaysSeen(r) \subseteq seen
         /\ \A x \in during[r].always : x[1] \in seen /\ x[2] \in record[x[1]].history
<1> DEFINE seen == Seen(req[r].caller, record)
           reach == Reach(req[r].caller, record)
<1>1. reach \subseteq during[r].ever /\ during[r].always \subseteq reach
  BY DEF SoFar
<1>2. \A x \in reach : x[1] \in seen /\ x[2] \in record[x[1]].history
  BY DEF Reach
<1>3. \A c \in seen : /\ record[c].history \subseteq Snaps /\ record[c].current \in record[c].history
                      /\ c \in Changes
  BY RecordType DEF Seen, TypeInv, WriterInv, Whole
<1>4. ASSUME NEW c \in seen, NEW s \in record[c].history PROVE <<c, s>> \in reach
  BY <1>3, <1>4 DEF Reach
<1>5. seen \subseteq EverSeen(r)
  <2>1. ASSUME NEW c \in seen PROVE c \in EverSeen(r)
    <3>1. <<c, record[c].current>> \in during[r].ever
      BY <1>1, <1>3, <1>4
    <3> QED
      BY <3>1, <<c, record[c].current>>[1] = c DEF EverSeen
  <2> QED
    BY <2>1
<1>6. \A c \in seen : record[c].history \subseteq EverReached(r)
  <2>1. ASSUME NEW c \in seen, NEW s \in record[c].history PROVE s \in EverReached(r)
    <3>1. <<c, s>> \in during[r].ever
      BY <1>1, <1>4
    <3> QED
      BY <3>1, <<c, s>>[2] = s DEF EverReached
  <2> QED
    BY <2>1
<1>7. \A x \in during[r].always : x[1] \in seen /\ x[2] \in record[x[1]].history
  BY <1>1, <1>2
<1>8. AlwaysSeen(r) \subseteq seen
  BY <1>7 DEF AlwaysSeen
<1> QED
  BY <1>5, <1>6, <1>7, <1>8

\* A request that waits keeps what it knows while commands write.
LEMMA Kept ==
  ASSUME NEW r \in Requests, ReadInv(r), OpsInv(r), req'[r] = req[r],
         during[r].ever \subseteq during'[r].ever, during'[r].always \subseteq during[r].always,
         during[r].removed => during'[r].removed, during[r].torn => during'[r].torn,
         \A c \in Changes : record[c] # NoChange => record'[c] # NoChange \/ during'[r].removed
  PROVE  ReadInv(r)' /\ OpsInv(r)'
<1>1. /\ EverSeen(r) \subseteq EverSeen(r)' /\ EverReached(r) \subseteq EverReached(r)'
      /\ AlwaysSeen(r)' \subseteq AlwaysSeen(r) /\ AlwaysReached(r)' \subseteq AlwaysReached(r)
  BY DEF EverSeen, EverReached, AlwaysSeen, AlwaysReached
<1>2. ReadInv(r)'
  BY <1>1 DEF ReadInv
<1>3. OpsInv(r)'
  BY <1>1 DEF OpsInv
<1> QED
  BY <1>2, <1>3

\* What a request that reads has had in sight does not change by its reading.
LEMMA MovesSight ==
  ASSUME NEW r \in Requests, SoFar(r), Moves(r)
  PROVE  /\ SoFar(r)'
         /\ EverSeen(r)' = EverSeen(r) /\ AlwaysSeen(r)' = AlwaysSeen(r)
         /\ EverReached(r)' = EverReached(r) /\ AlwaysReached(r)' = AlwaysReached(r)
BY DEF Moves, SoFar, EverSeen, AlwaysSeen, EverReached, AlwaysReached

\* load_visible_change knows its change was in sight, or was not.
LEMMA LoadVisibleInv ==
  ASSUME TypeInv, NEW r \in Requests, SoFar(r), ReadInv(r), LoadVisible(r)
  PROVE  ReadInv(r)' /\ OpsInv(r)'
<1>1. /\ Moves(r) /\ req[r].kind \in {"change", "at"} /\ req[r].pc = "start"
      /\ req'[r].hidden = req[r].hidden
      /\ \/ req'[r].pc = "notfound" /\ req[r].change \notin Seen(req[r].caller, record)
            /\ req'[r].found = req[r].found
         \/ req'[r].pc = "ok" /\ req[r].kind = "change" /\ req'[r].found = {req[r].change}
            /\ req[r].change \in Seen(req[r].caller, record)
         \/ req'[r].pc = "gate" /\ req[r].kind = "at" /\ req'[r].found = req[r].found
  BY LoadVisibleStep
<1>2. req[r] # Idle /\ req'[r].kind = req[r].kind /\ req'[r].change = req[r].change
  BY <1>1 DEF Moves
<1>3. /\ Seen(req[r].caller, record) \subseteq EverSeen(r)
      /\ AlwaysSeen(r) \subseteq Seen(req[r].caller, record)
  BY <1>2, InSight
<1>4. OpsInv(r)'
  BY <1>1, <1>2 DEF OpsInv
<1>5. req[r].found = {} /\ req[r].hidden = {}
  BY <1>1 DEF ReadInv
<1>6. CASE req'[r].pc = "notfound" /\ req[r].change \notin Seen(req[r].caller, record) /\ req'[r].found = req[r].found
  BY <1>1, <1>2, <1>3, <1>4, <1>5, <1>6, MovesSight DEF ReadInv
<1>7. CASE req'[r].pc = "ok" /\ req[r].kind = "change" /\ req'[r].found = {req[r].change}
           /\ req[r].change \in Seen(req[r].caller, record)
  BY <1>1, <1>2, <1>3, <1>4, <1>5, <1>7, MovesSight DEF ReadInv
<1>8. CASE req'[r].pc = "gate" /\ req[r].kind = "at" /\ req'[r].found = req[r].found
  BY <1>1, <1>2, <1>4, <1>5, <1>8, MovesSight DEF ReadInv
<1> QED
  BY <1>1, <1>4, <1>6, <1>7, <1>8

\* The list has every change that was in sight all the time.
LEMMA ListIdsInv ==
  ASSUME TypeInv, NEW r \in Requests, SoFar(r), ReadInv(r), ListIds(r)
  PROVE  ReadInv(r)' /\ OpsInv(r)'
<1>1. /\ Moves(r) /\ req'[r].pc = "records" /\ req[r].kind \in {"list", "snapshot", "at"}
      /\ req[r].pc \in {"start", "gate"}
      /\ req'[r].todo = {c \in Changes : record[c] # NoChange}
      /\ req'[r].found = req[r].found /\ req'[r].hidden = req[r].hidden
  BY ListIdsStep
<1>2. /\ req[r] # Idle /\ req'[r].kind = req[r].kind /\ req'[r].change = req[r].change
      /\ record' = record /\ during' = during
  BY <1>1 DEF Moves
<1>3. Seen(req[r].caller, record) \subseteq req'[r].todo
  BY <1>1 DEF Seen
<1>4. AlwaysSeen(r) \subseteq req'[r].todo /\ \A x \in during[r].always : x[1] \in req'[r].todo
  BY <1>2, <1>3, InSight
<1>5. OpsInv(r)'
  BY <1>1, <1>2 DEF OpsInv
<1>6. req[r].found = {} /\ req[r].hidden = {}
  BY <1>1 DEF ReadInv
<1> QED
  BY <1>1, <1>2, <1>4, <1>5, <1>6, MovesSight DEF ReadInv

\* A record read is shown if it is in sight, and left out only if it is not.
LEMMA ReadRecordInv ==
  ASSUME TypeInv, NEW r \in Requests, SoFar(r), ReadInv(r), ReadRecord(r)
  PROVE  ReadInv(r)' /\ OpsInv(r)'
<1>1. PICK c \in req[r].todo :
        /\ Moves(r) /\ req[r].kind \in {"list", "snapshot", "at"} /\ req[r].pc = "records"
        /\ req'[r].pc = IF record[c] = NoChange THEN "error" ELSE "records"
        /\ req'[r].todo = req[r].todo \ {c}
        /\ req'[r].found = IF c \notin Seen(req[r].caller, record) THEN req[r].found
                           ELSE IF req[r].kind = "list" THEN req[r].found \cup {c}
                           ELSE req[r].found \cup record[c].history
        /\ req'[r].hidden = req[r].hidden
  BY ReadRecordStep
<1>2. /\ req[r] # Idle /\ req'[r].kind = req[r].kind /\ req'[r].change = req[r].change
      /\ record' = record /\ during' = during
  BY <1>1 DEF Moves
<1>3. /\ Seen(req[r].caller, record) \subseteq EverSeen(r)
      /\ \A d \in Seen(req[r].caller, record) : record[d].history \subseteq EverReached(r)
      /\ AlwaysSeen(r) \subseteq Seen(req[r].caller, record)
      /\ \A x \in during[r].always : x[1] \in Seen(req[r].caller, record) /\ x[2] \in record[x[1]].history
  BY <1>2, InSight
<1>4. OpsInv(r)'
  BY <1>1, <1>2 DEF OpsInv
<1>5. /\ req[r].hidden = {} /\ req[r].todo \subseteq Changes
      /\ \A d \in req[r].todo : record[d] # NoChange \/ during[r].removed
      /\ req[r].kind = "list" => AlwaysSeen(r) \subseteq req[r].todo \cup req[r].found
      /\ req[r].kind # "list" => \A x \in during[r].always : x[1] \in req[r].todo \/ x[2] \in req[r].found
      /\ req[r].kind = "list" => req[r].found \subseteq EverSeen(r)
      /\ req[r].kind # "list" => req[r].found \subseteq EverReached(r)
  BY <1>1 DEF ReadInv
<1>6. CASE req[r].kind = "list"
  <2>1. req'[r].found \subseteq EverSeen(r)
    BY <1>1, <1>3, <1>5, <1>6
  <2>2. AlwaysSeen(r) \subseteq req'[r].todo \cup req'[r].found
    BY <1>1, <1>3, <1>5, <1>6
  <2> QED
    BY <1>1, <1>2, <1>4, <1>5, <1>6, <2>1, <2>2, MovesSight DEF ReadInv
<1>7. CASE req[r].kind # "list"
  <2>1. req'[r].found \subseteq EverReached(r)
    BY <1>1, <1>3, <1>5, <1>7
  <2>2. \A x \in during[r].always : x[1] \in req'[r].todo \/ x[2] \in req'[r].found
    BY <1>1, <1>3, <1>5, <1>7
  <2> QED
    BY <1>1, <1>2, <1>4, <1>5, <1>7, <2>1, <2>2, MovesSight DEF ReadInv
<1> QED
  BY <1>6, <1>7

\* All records read, the answer is complete.
LEMMA EndRecordsInv ==
  ASSUME TypeInv, NEW r \in Requests, SoFar(r), ReadInv(r), EndRecords(r)
  PROVE  ReadInv(r)' /\ OpsInv(r)'
<1>1. /\ Moves(r) /\ req[r].kind \in {"list", "snapshot", "at"} /\ req[r].pc = "records"
      /\ req[r].todo = {}
      /\ req'[r].pc = IF req[r].kind = "list" \/ req[r].want \subseteq req[r].found
                      THEN "ok" ELSE "notfound"
      /\ req'[r].want = req[r].want /\ req'[r].found = req[r].found /\ req'[r].hidden = req[r].hidden
  BY EndRecordsStep
<1>2. req'[r].kind = req[r].kind /\ req'[r].change = req[r].change
  BY <1>1 DEF Moves
<1>3. OpsInv(r)'
  BY <1>1, <1>2 DEF OpsInv
<1>4. req[r].kind # "list" => AlwaysReached(r) \subseteq req[r].found
  BY <1>1 DEF ReadInv, AlwaysReached
<1>5. req[r].kind = "list" => AlwaysSeen(r) \subseteq req[r].found
  BY <1>1 DEF ReadInv
<1> QED
  BY <1>1, <1>2, <1>3, <1>4, <1>5, MovesSight DEF ReadInv

\* list_oplog has each reference of each op to look up, or found half a record.
LEMMA ListOpsInv ==
  ASSUME TypeInv, NEW r \in Requests, SoFar(r), ReadInv(r), OpsInv(r), ListOps(r)
  PROVE  ReadInv(r)' /\ OpsInv(r)'
<1>1. /\ Moves(r) /\ req[r].kind = "oplog" /\ req[r].pc = "start"
      /\ req'[r].found = req[r].found /\ req'[r].hidden = req[r].hidden
      /\ \/ req'[r].pc = "error" /\ half
         \/ req'[r].pc = "ops" /\ req'[r].todo = ToRead(req'[r].ops)
  BY ListOpsStep
<1>0. req[r].hidden = {}
  BY <1>1 DEF ReadInv
<1>2. req[r] # Idle /\ req'[r].kind = req[r].kind /\ during' = during
  BY <1>1 DEF Moves
<1>3. half => during[r].torn
  BY <1>2 DEF SoFar
<1>4. ReadInv(r)'
  BY <1>1, <1>2, <1>3 DEF ReadInv
<1>5. OpsInv(r)'
  <2>1. CASE req'[r].pc = "ops" /\ req'[r].todo = ToRead(req'[r].ops)
    BY <1>0, <1>1, <1>2, <2>1, ToLookUp DEF OpsInv
  <2>2. CASE req'[r].pc = "error"
    BY <2>2 DEF OpsInv
  <2> QED
    BY <1>1, <2>1, <2>2
<1> QED
  BY <1>4, <1>5

\* A reference looked up was in sight, or redacts its op.
LEMMA ReadReferenceInv ==
  ASSUME TypeInv, RequestInv, NEW r \in Requests, SoFar(r), ReadInv(r), OpsInv(r), ReadReference(r)
  PROVE  ReadInv(r)' /\ OpsInv(r)'
<1>1. PICK x \in req[r].todo :
        /\ Moves(r) /\ req[r].kind = "oplog" /\ req[r].pc = "ops" /\ req'[r].pc = "ops"
        /\ req'[r].ops = req[r].ops /\ req'[r].found = req[r].found
        /\ \/ /\ x[2] \in Seen(req[r].caller, record)
              /\ req'[r].todo = req[r].todo \ {x} /\ req'[r].hidden = req[r].hidden
           \/ /\ x[2] \notin Seen(req[r].caller, record)
              /\ req'[r].todo = {y \in req[r].todo : y[1] # x[1]}
              /\ req'[r].hidden = req[r].hidden \cup {x[1]}
  BY ReadReferenceStep, LooksUpItsOwn
<1>2. req[r] # Idle /\ req'[r].kind = req[r].kind /\ during' = during
  BY <1>1 DEF Moves
<1>3. /\ Seen(req[r].caller, record) \subseteq EverSeen(r)
      /\ AlwaysSeen(r) \subseteq Seen(req[r].caller, record)
  BY <1>2, InSight
<1>4. EverSeen(r)' = EverSeen(r) /\ AlwaysSeen(r)' = AlwaysSeen(r)
  BY <1>1, MovesSight
<1>5. ReadInv(r)'
  BY <1>1, <1>2 DEF ReadInv
<1> DEFINE q == req[r]
           n == req'[r]
<1>6. /\ \A y \in q.todo : y[1] \in DOMAIN q.ops /\ y[2] \in Referenced(q.ops[y[1]])
      /\ \A i \in DOMAIN q.ops \ q.hidden :
           \A c \in Referenced(q.ops[i]) : c \in EverSeen(r) \/ <<i, c>> \in q.todo
      /\ \A i \in q.hidden : ~ (Referenced(q.ops[i]) \subseteq AlwaysSeen(r))
  BY <1>1 DEF OpsInv
<1>7. OpsInv(r)'
  <2>1. n.kind = "oplog" /\ n.pc = "ops" /\ n.ops = q.ops
    BY <1>1, <1>2
  <2>2. \A y \in n.todo : y[1] \in DOMAIN n.ops /\ y[2] \in Referenced(n.ops[y[1]])
    BY <1>1, <1>6
  <2>3. ASSUME NEW i \in DOMAIN n.ops \ n.hidden, NEW c \in Referenced(n.ops[i])
        PROVE  c \in EverSeen(r) \/ <<i, c>> \in n.todo
    <3>1. c \in EverSeen(r) \/ <<i, c>> \in q.todo
      BY <1>1, <1>6, <2>3
    <3>2. CASE <<i, c>> = x
      <4>1. x[1] = i /\ x[2] = c
        BY <3>2
      <4> QED
        BY <1>1, <1>3, <2>3, <4>1
    <3>3. CASE <<i, c>> \in q.todo /\ <<i, c>> # x
      <4>1. x[1] # i \/ n.todo = q.todo \ {x}
        BY <1>1, <2>3
      <4>2. <<i, c>>[1] = i
        OBVIOUS
      <4> QED
        BY <1>1, <3>3, <4>1, <4>2
    <3> QED
      BY <3>1, <3>2, <3>3
  <2>4. ASSUME NEW i \in n.hidden PROVE ~ (Referenced(n.ops[i]) \subseteq AlwaysSeen(r))
    <3>1. CASE i \in q.hidden
      BY <1>1, <1>6, <3>1
    <3>2. CASE i = x[1] /\ x[2] \notin Seen(q.caller, record)
      BY <1>1, <1>3, <1>6, <3>2
    <3> QED
      BY <1>1, <2>4, <3>1, <3>2
  <2> QED
    BY <1>4, <2>1, <2>2, <2>3, <2>4 DEF OpsInv
<1> QED
  BY <1>5, <1>7

\* The op log answered is what was looked up.
LEMMA EndOpsInv ==
  ASSUME TypeInv, NEW r \in Requests, SoFar(r), ReadInv(r), OpsInv(r), EndOps(r)
  PROVE  ReadInv(r)' /\ OpsInv(r)'
<1>1. /\ Moves(r) /\ req[r].kind = "oplog" /\ req[r].pc = "ops" /\ req[r].todo = {}
      /\ req'[r].pc = "ok" /\ req'[r].ops = req[r].ops /\ req'[r].todo = {}
      /\ req'[r].found = req[r].found /\ req'[r].hidden = req[r].hidden
  BY EndOpsStep
<1>2. req'[r].kind = req[r].kind
  BY <1>1 DEF Moves
<1>3. EverSeen(r)' = EverSeen(r) /\ AlwaysSeen(r)' = AlwaysSeen(r)
  BY <1>1, MovesSight
<1>4. ReadInv(r)'
  BY <1>1, <1>2 DEF ReadInv
<1>5. OpsInv(r)'
  BY <1>1, <1>2, <1>3 DEF OpsInv
<1> QED
  BY <1>4, <1>5

\* A request that arrives knows nothing but what is visible.
LEMMA ArriveInv ==
  ASSUME TypeInv, NEW r \in Requests, Arrive(r)
  PROVE  SoFar(r)' /\ ReadInv(r)' /\ OpsInv(r)'
<1> DEFINE reach == Reach(req'[r].caller, record)
           since == [ever |-> reach, always |-> reach, removed |-> FALSE, torn |-> half]
<1>1. /\ req'[r] \in Req /\ req'[r].pc = "start" /\ req'[r].found = {} /\ req'[r].hidden = {}
      /\ during' = [during EXCEPT ![r] = since]
  BY ArriveStep
<1>2. since.ever = reach /\ since.always = reach /\ since.torn = half
  OBVIOUS
<1>3. record' = record /\ half' = half
  BY DEF Arrive
<1>4. during'[r] = since
  <2> HIDE DEF since
  <2> QED BY <1>1 DEF TypeInv, ReqTypes
<1> HIDE DEF since
<1>5. SoFar(r)'
  BY <1>2, <1>3, <1>4 DEF SoFar
<1>6. ReadInv(r)' /\ OpsInv(r)'
  BY <1>1 DEF ReadInv, OpsInv
<1> QED
  BY <1>5, <1>6

\* Every step of a request or of a command keeps what the requests know.
LEMMA RequestStep == TypeInv /\ RequestInv /\ [Next]_vars => RequestInv'
<1> SUFFICES ASSUME TypeInv, RequestInv, [Next]_vars PROVE RequestInv'
  OBVIOUS
<1>1. CASE UNCHANGED vars
  BY <1>1 DEF vars, RequestInv, SoFar, ReadInv, OpsInv, EverSeen, AlwaysSeen, EverReached, AlwaysReached
<1>2. ASSUME NEW r \in Requests, Read(r) PROVE RequestInv'
  <2>1. ASSUME NEW q \in Requests, q # r PROVE SoFar(q)' /\ (req'[q] # Idle => ReadInv(q)' /\ OpsInv(q)')
    <3>1. req'[q] = req[q] /\ during'[q] = during[q] /\ record' = record /\ half' = half
      <4>1. CASE Moves(r)
        BY <2>1, <4>1 DEF Moves, TypeInv, ReqTypes
      <4>2. CASE Arrive(r)
        BY <2>1, <4>2, ArriveStep DEF Arrive, TypeInv, ReqTypes
      <4>3. CASE Leave(r)
        BY <2>1, <4>3 DEF Leave, TypeInv, ReqTypes
      <4> QED
        BY <1>2, <4>1, <4>2, <4>3, ReadCases
    <3>2. SoFar(q)'
      BY <3>1 DEF RequestInv, SoFar
    <3> QED
      BY <3>1, <3>2, Kept DEF RequestInv
  <2>2. SoFar(r)' /\ (req'[r] # Idle => ReadInv(r)' /\ OpsInv(r)')
    <3>1. CASE Arrive(r)
      BY <3>1, ArriveInv
    <3>2. CASE Leave(r)
      <4>1. req'[r] = Idle
        BY <3>2 DEF Leave, TypeInv, ReqTypes
      <4> QED
        BY <4>1 DEF SoFar
    <3>3. CASE Moves(r) /\ ~ Arrive(r) /\ ~ Leave(r)
      <4>1. SoFar(r) /\ ReadInv(r) /\ OpsInv(r)
        BY <3>3 DEF Moves, RequestInv
      <4>2. SoFar(r)'
        BY <3>3, <4>1, MovesSight
      <4>3. ReadInv(r)' /\ OpsInv(r)'
        BY <1>2, <3>3, <4>1, LoadVisibleInv, ListIdsInv, ReadRecordInv, EndRecordsInv, ListOpsInv,
           ReadReferenceInv, EndOpsInv DEF Read
      <4> QED
        BY <4>2, <4>3
    <3> QED
      BY <1>2, <3>1, <3>2, <3>3, ReadCases
  <2> QED
    BY <2>1, <2>2 DEF RequestInv
<1>3. CASE Writing
  <2>1. PICK by \in {"cli", "tigd"}, new \in [Changes -> Record \cup {NoChange}], refs \in References :
          Write(by, new, refs)
    BY <1>3 DEF Writing
  <2>2. UNCHANGED <<half, req>>
    BY <2>1 DEF Write
  <2>3. ASSUME NEW r \in Requests PROVE SoFar(r)' /\ (req'[r] # Idle => ReadInv(r)' /\ OpsInv(r)')
    <3>1. /\ during'[r].torn = during[r].torn
          /\ during[r].removed => during'[r].removed
          /\ during[r].ever \subseteq during'[r].ever /\ during'[r].always \subseteq during[r].always
          /\ req[r] # Idle =>
               /\ Reach(req[r].caller, record') \subseteq during'[r].ever
               /\ during'[r].always \subseteq Reach(req[r].caller, record')
               /\ \A c \in Changes : record[c] # NoChange => record'[c] # NoChange \/ during'[r].removed
      BY <2>1, WriteDuring
    <3>2. Reach(req[r].caller, record)' = Reach(req[r].caller, record')
      BY <2>2 DEF Reach, Seen
    <3>3. SoFar(r)'
      BY <2>2, <3>1, <3>2 DEF RequestInv, SoFar
    <3>4. CASE req[r] # Idle
      BY <2>2, <3>1, <3>3, <3>4, Kept DEF RequestInv
    <3> QED
      BY <2>2, <3>3, <3>4
  <2> QED
    BY <2>3 DEF RequestInv
<1>4. CASE AppendHeader
  <2>1. ASSUME NEW r \in Requests PROVE SoFar(r)' /\ (req'[r] # Idle => ReadInv(r)' /\ OpsInv(r)')
    <3>1. /\ during'[r].ever = during[r].ever /\ during'[r].always = during[r].always
          /\ during'[r].removed = during[r].removed
          /\ during[r].torn => during'[r].torn
          /\ req[r] # Idle => during'[r].torn
      BY <1>4, HeaderDuring
    <3>2. req' = req /\ record' = record
      BY <1>4 DEF AppendHeader
    <3>3. SoFar(r)'
      BY <3>1, <3>2 DEF RequestInv, SoFar
    <3>4. CASE req[r] # Idle
      BY <3>1, <3>2, <3>3, <3>4, Kept DEF RequestInv
    <3> QED
      BY <3>2, <3>3, <3>4
  <2> QED
    BY <2>1 DEF RequestInv
<1>5. CASE AppendPayload
  <2>1. UNCHANGED <<record, req, during>> /\ half' = FALSE
    BY <1>5 DEF AppendPayload
  <2>2. \A r \in Requests : SoFar(r)'
    BY <2>1 DEF RequestInv, SoFar
  <2>3. \A r \in Requests : req'[r] # Idle => ReadInv(r)' /\ OpsInv(r)'
    BY <2>1, Kept DEF RequestInv
  <2> QED
    BY <2>2, <2>3 DEF RequestInv
<1> QED
  BY <1>1, <1>2, <1>3, <1>4, <1>5, NextCases

\* A repository with one change, and nobody asking.
LEMMA InvInit == Init => TypeInv /\ RequestInv
<1> SUFFICES ASSUME Init PROVE TypeInv /\ RequestInv
  OBVIOUS
<1>1. MaxOps \in Nat /\ First \in Changes
  BY FirstIsChange, NoChangeIsNone
<1>2. PICK p \in Principals, vis \in Labels :
        record = [c \in Changes |-> IF c # First THEN NoChange
                   ELSE [author |-> p, vis |-> vis, history |-> {1}, current |-> 1]]
  BY DEF Init
<1> DEFINE first == [author |-> p, vis |-> vis, history |-> {1}, current |-> 1]
<1>3. first \in Record /\ Whole(first)
  BY <1>1 DEF Record, Whole, Snaps
<1>4. record \in [Changes -> Record \cup {NoChange}] /\ \A c \in Changes : Whole(record[c])
  <2>1. record = [c \in Changes |-> IF c # First THEN NoChange ELSE first]
    BY <1>2
  <2> HIDE DEF first
  <2> QED BY <1>3, <2>1 DEF Whole
<1>5. /\ log = << >> /\ undos = << >> /\ writer = NoWriter /\ half = FALSE
      /\ req = [r \in Requests |-> Idle]
      /\ during = [r \in Requests |-> [ever |-> {}, always |-> {}, removed |-> FALSE, torn |-> FALSE]]
  BY DEF Init
<1>6. log \in Seq(References) /\ Len(log) = 0 /\ undos \in Seq(UndoEntry) /\ DOMAIN undos = {}
  BY <1>5, EmptySeq
<1>7. WriterInv
  BY <1>4, <1>5, <1>6 DEF WriterInv
<1>8. ReqTypes
  BY <1>5, NothingYet DEF ReqTypes
<1>9. \A r \in Requests : during[r].always \subseteq during[r].ever
  BY <1>5
<1>10. TypeInv
  BY <1>1, <1>4, <1>5, <1>6, <1>7, <1>8, <1>9 DEF TypeInv, TypeOK
<1>11. RequestInv
  BY <1>5 DEF RequestInv, SoFar
<1> QED
  BY <1>10, <1>11

\* What a request knows holds in every state.
LEMMA RequestsKnow == Spec => [](TypeInv /\ RequestInv)
BY InvInit, TypeStep, RequestStep, PTL DEF Spec

\* Every change an op says anything about is one it refers to.
LEMMA NamedIsReferenced == \A op : Named(op) = Referenced(op)
BY DEF Named, Referenced

\* Records, log and undo entries are well-typed.
THEOREM VisibilityTyped == Spec => []TypeOK
<1>1. TypeInv => TypeOK
  BY DEF TypeInv
<1> QED
  BY <1>1, RequestsKnow, PTL

\* A request under way is one of the five kinds.
LEMMA KindOf ==
  ASSUME TypeInv, NEW r \in Requests, req[r] # Idle
  PROVE  req[r] \in Req /\ req[r].kind \in Kinds
BY DEF TypeInv, ReqTypes, Req

\* Whatever tigd's answers show, their caller could see at some moment of the request.
THEOREM AnswersShowTheVisible == Spec => []ShownWasVisible
<1>1. TypeInv /\ RequestInv => ShownWasVisible
  <2> SUFFICES ASSUME TypeInv, RequestInv, NEW r \in Requests, Done(r, "ok")
               PROVE  CASE req[r].kind \in {"list", "change"} -> req[r].found \subseteq EverSeen(r)
                        [] req[r].kind \in {"snapshot", "at"} -> req[r].want \subseteq EverReached(r)
                        [] OTHER -> \A i \in DOMAIN req[r].ops \ req[r].hidden :
                                      Named(req[r].ops[i]) \subseteq EverSeen(r)
    BY DEF ShownWasVisible
  <2>1. req[r] # Idle /\ req[r].pc = "ok" /\ ReadInv(r) /\ OpsInv(r) /\ req[r].kind \in Kinds
    BY KindOf DEF Done, RequestInv
  <2>2. CASE req[r].kind \in {"list", "change"}
    BY <2>1, <2>2 DEF ReadInv
  <2>3. CASE req[r].kind \in {"snapshot", "at"}
    BY <2>1, <2>3 DEF ReadInv
  <2>4. CASE req[r].kind = "oplog"
    BY <2>1, <2>4, NamedIsReferenced DEF OpsInv
  <2> QED
    BY <2>1, <2>2, <2>3, <2>4 DEF Kinds
<1> QED
  BY <1>1, RequestsKnow, PTL

\* What the caller could see throughout the request is in the answer.
THEOREM AnswersAreComplete == Spec => []NothingWithheld
<1>1. TypeInv /\ RequestInv => NothingWithheld
  <2> SUFFICES ASSUME TypeInv, RequestInv, NEW r \in Requests
               PROVE  /\ Done(r, "ok") => CASE req[r].kind = "list" -> AlwaysSeen(r) \subseteq req[r].found
                                            [] OTHER -> \A i \in req[r].hidden :
                                                          ~ (Named(req[r].ops[i]) \subseteq AlwaysSeen(r))
                      /\ Done(r, "notfound") =>
                           \/ req[r].kind \in {"change", "at"} /\ req[r].change \notin AlwaysSeen(r)
                           \/ ~ (req[r].want \subseteq AlwaysReached(r))
    BY DEF NothingWithheld
  <2>1. req[r] # Idle => ReadInv(r) /\ OpsInv(r) /\ req[r].kind \in Kinds
    BY KindOf DEF RequestInv
  <2>2. Done(r, "notfound") =>
          \/ req[r].kind \in {"change", "at"} /\ req[r].change \notin AlwaysSeen(r)
          \/ ~ (req[r].want \subseteq AlwaysReached(r))
    BY <2>1 DEF Done, ReadInv
  <2>3. ASSUME Done(r, "ok"), req[r].kind = "list" PROVE AlwaysSeen(r) \subseteq req[r].found
    BY <2>1, <2>3 DEF Done, ReadInv
  <2>4. ASSUME Done(r, "ok"), req[r].kind # "list", NEW i \in req[r].hidden
        PROVE  ~ (Named(req[r].ops[i]) \subseteq AlwaysSeen(r))
    BY <2>1, <2>4, NamedIsReferenced DEF Done, ReadInv, OpsInv
  <2> QED
    BY <2>2, <2>3, <2>4
<1> QED
  BY <1>1, RequestsKnow, PTL

\* A request fails only over an undo that removed a change or over half a log record.
THEOREM FailuresAreExplained == Spec => []FailureExplained
<1>1. TypeInv /\ RequestInv => FailureExplained
  BY DEF RequestInv, ReadInv, Done, FailureExplained
<1> QED
  BY <1>1, RequestsKnow, PTL

-----------------------------------------------------------------------------
(* How the handlers share the write lock, the log's mutex and the worker     *)
(* threads, for any number of each: by who may be where.                     *)

RuntimeTypes ==
  /\ at \in [Tasks -> {"idle", "ready", "flock", "mutex", "woken", "running"}]
  /\ on \in [Workers -> Tasks \cup {Nobody}]
  /\ lock \in Tasks \cup Commands \cup {Nobody}
  /\ mutex \in Tasks \cup {Nobody}
  /\ queue \in Seq(Tasks)

\* A worker has the task it is blocked in or runs, and none has another's.
WorkerInv ==
  /\ \A w \in Workers : on[w] # Nobody => at[on[w]] \in {"flock", "running"}
  /\ \A v, w \in Workers : v # w /\ on[v] # Nobody => on[v] # on[w]

\* Who has been given the mutex runs or is woken, and nobody else does; who
\* waits for it is in the queue, once.
MutexInv ==
  /\ mutex = Nobody => queue = << >>
  /\ mutex # Nobody => at[mutex] \in {"running", "woken"}
  /\ \A t \in Tasks : at[t] \in {"running", "woken"} => mutex = t
  /\ \A i \in 1 .. Len(queue) : at[queue[i]] = "mutex"
  /\ \A i, j \in 1 .. Len(queue) : i # j => queue[i] # queue[j]

\* A writer keeps the write lock from when flock returns until its handler ends.
WriteLockInv ==
  /\ \A t \in Tasks : at[t] = "flock" => t \in Writers
  /\ \A t \in Writers : at[t] \in {"mutex", "woken", "running"} <=> lock = t

RuntimeInv == RuntimeTypes /\ WorkerInv /\ MutexInv /\ WriteLockInv

\* AwaitLog of a task that is on no other worker and not in the queue.
LEMMA AwaitLogKeeps ==
  ASSUME RuntimeInv, NEW w \in Workers, NEW t \in Tasks, AwaitLog(w, t),
         on[w] \in {t, Nobody}, at[t] \in {"ready", "flock"},
         \A v \in Workers \ {w} : on[v] # t,
         lock' \in Tasks \cup Commands \cup {Nobody},
         t \in Writers => lock' = t,
         \A u \in Writers \ {t} : lock = u <=> lock' = u
  PROVE  RuntimeInv'
<1> USE DEF RuntimeInv
<1>1. Writers \subseteq Tasks /\ Nobody \notin Tasks
  BY TasksDisjoint DEF Tasks
<1>2. CASE mutex = Nobody
  <2>1. /\ mutex' = t /\ queue' = queue /\ queue = << >>
        /\ at' = [at EXCEPT ![t] = "running"] /\ on' = [on EXCEPT ![w] = t]
    BY <1>2 DEF AwaitLog, MutexInv
  <2>2. RuntimeTypes'
    BY <2>1 DEF RuntimeTypes
  <2>3. WorkerInv'
    BY <2>1, <1>1 DEF WorkerInv, RuntimeTypes
  <2>4. MutexInv'
    BY <2>1, <1>1, <1>2 DEF MutexInv, RuntimeTypes
  <2>5. WriteLockInv'
    BY <2>1, <1>1 DEF WriteLockInv, RuntimeTypes
  <2> QED
    BY <2>2, <2>3, <2>4, <2>5
<1>3. CASE mutex # Nobody
  <2>1. /\ mutex' = mutex /\ queue' = Append(queue, t)
        /\ at' = [at EXCEPT ![t] = "mutex"] /\ on' = [on EXCEPT ![w] = Nobody]
    BY <1>3 DEF AwaitLog
  <2>2. RuntimeTypes'
    BY <2>1 DEF RuntimeTypes
  <2>3. WorkerInv'
    BY <2>1, <1>1 DEF WorkerInv, RuntimeTypes
  <2>4. mutex # t
    BY <1>3 DEF MutexInv
  <2>5. /\ Len(queue') = Len(queue) + 1 /\ queue'[Len(queue) + 1] = t
        /\ \A i \in 1 .. Len(queue) : queue'[i] = queue[i] /\ queue[i] \in Tasks \ {t}
    BY <2>1 DEF MutexInv, RuntimeTypes
  <2>6. MutexInv'
    <3>1. \A i \in 1 .. Len(queue') : at'[queue'[i]] = "mutex"
      BY <2>1, <2>5 DEF MutexInv, RuntimeTypes
    <3>2. \A i, j \in 1 .. Len(queue') : i # j => queue'[i] # queue'[j]
      BY <2>5 DEF MutexInv, RuntimeTypes
    <3> QED
      BY <2>1, <2>4, <1>3, <3>1, <3>2 DEF MutexInv, RuntimeTypes
  <2>7. WriteLockInv'
    BY <2>1, <1>1 DEF WriteLockInv, RuntimeTypes
  <2> QED
    BY <2>2, <2>3, <2>6, <2>7
<1> QED
  BY <1>2, <1>3

\* The handler that returns hands the mutex to the first of the queue, if any.
LEMMA FinishKeeps == ASSUME RuntimeInv, NEW w \in Workers, Finish(w) PROVE RuntimeInv'
<1> USE DEF RuntimeInv
<1> DEFINE t == on[w]
<1>1. Writers \subseteq Tasks /\ Nobody \notin Tasks
  BY TasksDisjoint DEF Tasks
<1>2. /\ t \in Tasks /\ at[t] = "running" /\ mutex = t
      /\ lock' = (IF lock = t THEN Nobody ELSE lock) /\ on' = [on EXCEPT ![w] = Nobody]
      /\ \A v \in Workers \ {w} : on[v] # t
  BY DEF Finish, RuntimeTypes, MutexInv, WorkerInv
<1>3. CASE queue = << >>
  <2>1. mutex' = Nobody /\ queue' = queue /\ at' = [at EXCEPT ![t] = "idle"]
    BY <1>3 DEF Finish
  <2> HIDE DEF t
  <2>2. RuntimeTypes' /\ WorkerInv'
    BY <1>1, <1>2, <2>1 DEF RuntimeTypes, WorkerInv
  <2>3. MutexInv'
    BY <1>1, <1>2, <1>3, <2>1 DEF MutexInv, RuntimeTypes
  <2>4. WriteLockInv'
    BY <1>1, <1>2, <2>1 DEF WriteLockInv, RuntimeTypes
  <2> QED
    BY <2>2, <2>3, <2>4
<1>4. CASE queue # << >>
  <2> DEFINE first == Head(queue)
  <2>1. /\ mutex' = first /\ queue' = Tail(queue)
        /\ at' = [at EXCEPT ![t] = "idle", ![first] = "woken"]
    BY <1>4 DEF Finish
  <2>2. /\ first = queue[1] /\ first \in Tasks /\ at[first] = "mutex" /\ first # t
        /\ Len(queue') = Len(queue) - 1 /\ queue' \in Seq(Tasks) /\ Len(queue) \in Nat
        /\ \A i \in 1 .. Len(queue') : queue'[i] = queue[i + 1] /\ i + 1 \in 1 .. Len(queue)
    BY <1>2, <1>4, <2>1 DEF RuntimeTypes, MutexInv
  <2> HIDE DEF t, first
  <2>3. RuntimeTypes'
    BY <1>2, <2>1, <2>2 DEF RuntimeTypes
  <2>4. WorkerInv'
    BY <1>1, <1>2, <2>1, <2>2 DEF RuntimeTypes, WorkerInv
  <2>5. MutexInv'
    <3>1. \A i \in 1 .. Len(queue') : /\ queue'[i] \in Tasks /\ queue'[i] # first
                                      /\ at[queue'[i]] = "mutex"
      BY <2>2 DEF MutexInv, RuntimeTypes
    <3>2. \A i \in 1 .. Len(queue') : at'[queue'[i]] = "mutex"
      BY <3>1, <2>1, <2>2, <1>2 DEF RuntimeTypes
    <3>3. \A i, j \in 1 .. Len(queue') : i # j => queue'[i] # queue'[j]
      BY <2>2 DEF MutexInv
    <3>4. \A u \in Tasks : at'[u] \in {"running", "woken"} => u = first
      BY <1>2, <2>1, <2>2 DEF MutexInv, RuntimeTypes
    <3> QED
      BY <1>1, <2>1, <2>2, <3>2, <3>3, <3>4 DEF MutexInv, RuntimeTypes
  <2>6. WriteLockInv'
    BY <1>1, <1>2, <2>1, <2>2 DEF WriteLockInv, RuntimeTypes
  <2> QED
    BY <2>3, <2>4, <2>5, <2>6
<1> QED
  BY <1>3, <1>4

\* Every step keeps each task in its place.
LEMMA RuntimeStep == RuntimeInv /\ [RuntimeNext]_runtimeVars => RuntimeInv'
<1> SUFFICES ASSUME RuntimeInv, [RuntimeNext]_runtimeVars PROVE RuntimeInv'
  OBVIOUS
<1> USE DEF RuntimeInv
<1>1. /\ Writers \subseteq Tasks /\ Nobody \notin Tasks /\ Tasks \cap Commands = {}
      /\ Nobody \notin Commands
  BY TasksDisjoint DEF Tasks
<1>2. ASSUME NEW t \in Tasks, Request(t) PROVE RuntimeInv'
  <2>1. at' = [at EXCEPT ![t] = "ready"] /\ at[t] = "idle" /\ UNCHANGED <<on, lock, mutex, queue>>
    BY <1>2 DEF Request
  <2>2. RuntimeTypes' /\ WorkerInv' /\ WriteLockInv'
    BY <1>1, <2>1 DEF RuntimeTypes, WorkerInv, WriteLockInv
  <2>3. MutexInv'
    BY <1>1, <2>1 DEF RuntimeTypes, MutexInv
  <2> QED
    BY <2>2, <2>3
<1>3. ASSUME NEW w \in Workers, NEW t \in Tasks, Poll(w, t) PROVE RuntimeInv'
  <2>1. on[w] = Nobody /\ at[t] = "ready" /\ lock' = lock /\ \A v \in Workers : on[v] # t
    BY <1>1, <1>3 DEF Poll, WorkerInv
  <2>2. CASE t \in Readers /\ AwaitLog(w, t)
    <3>1. t \notin Writers
      BY <2>2, TasksDisjoint
    <3> QED
      BY <2>1, <2>2, <3>1, AwaitLogKeeps DEF RuntimeTypes
  <2>3. CASE t \in Writers /\ at' = [at EXCEPT ![t] = "flock"] /\ on' = [on EXCEPT ![w] = t] /\ UNCHANGED <<mutex, queue>>
    <3>1. RuntimeTypes' /\ WorkerInv' /\ WriteLockInv'
      BY <1>1, <2>1, <2>3 DEF RuntimeTypes, WorkerInv, WriteLockInv
    <3>2. MutexInv'
      BY <1>1, <2>1, <2>3 DEF RuntimeTypes, MutexInv
    <3> QED
      BY <3>1, <3>2
  <2> QED
    BY <1>3, <2>2, <2>3 DEF Poll
<1>4. ASSUME NEW w \in Workers, NEW t \in Tasks, Resume(w, t) PROVE RuntimeInv'
  <2>1. /\ on[w] = Nobody /\ at[t] = "woken" /\ at' = [at EXCEPT ![t] = "running"]
        /\ on' = [on EXCEPT ![w] = t] /\ UNCHANGED <<lock, mutex, queue>>
    BY <1>4 DEF Resume
  <2>2. RuntimeTypes' /\ WorkerInv' /\ WriteLockInv'
    BY <1>1, <2>1 DEF RuntimeTypes, WorkerInv, WriteLockInv
  <2>3. MutexInv'
    BY <1>1, <2>1 DEF RuntimeTypes, MutexInv
  <2> QED
    BY <2>2, <2>3
<1>5. ASSUME NEW w \in Workers, FlockReturns(w) PROVE RuntimeInv'
  <2>1. /\ on[w] \in Tasks /\ at[on[w]] = "flock" /\ lock = Nobody /\ lock' = on[w]
        /\ AwaitLog(w, on[w]) /\ \A v \in Workers \ {w} : on[v] # on[w]
    BY <1>5 DEF FlockReturns, RuntimeTypes, WorkerInv
  <2> QED
    BY <1>1, <2>1, AwaitLogKeeps
<1>6. ASSUME NEW w \in Workers, Finish(w) PROVE RuntimeInv'
  BY <1>6, FinishKeeps
<1>7. ASSUME NEW p \in Commands, CommandLocks(p) \/ CommandEnds(p) PROVE RuntimeInv'
  <2>1. /\ UNCHANGED <<at, on, mutex, queue>> /\ lock' \in {p, Nobody}
        /\ lock \in {p, Nobody}
    BY <1>7 DEF CommandLocks, CommandEnds
  <2>2. RuntimeTypes' /\ WorkerInv' /\ MutexInv'
    BY <2>1 DEF RuntimeTypes, WorkerInv, MutexInv
  <2>3. WriteLockInv'
    BY <1>1, <2>1 DEF WriteLockInv
  <2> QED
    BY <2>2, <2>3
<1>8. CASE UNCHANGED runtimeVars
  BY <1>8 DEF runtimeVars, RuntimeTypes, WorkerInv, MutexInv, WriteLockInv
<1> QED
  BY <1>2, <1>3, <1>4, <1>5, <1>6, <1>7, <1>8 DEF RuntimeNext

\* The log's mutex is handed on and never lost, and a writer that waits for it
\* has kept the write lock.
THEOREM MutexHandedOn == RuntimeSpec => []LogHandedOn
<1>1. RuntimeInit => RuntimeInv
  BY TasksDisjoint DEF RuntimeInit, RuntimeInv, RuntimeTypes, WorkerInv, MutexInv, WriteLockInv, Tasks
<1>2. RuntimeInv => LogHandedOn
  <2> SUFFICES ASSUME RuntimeInv PROVE LogHandedOn
    OBVIOUS
  <2>1. \A i \in 1 .. Len(queue) : queue[i] \in Tasks /\ at[queue[i]] = "mutex"
    BY DEF RuntimeInv, RuntimeTypes, MutexInv
  <2> QED
    BY <2>1 DEF RuntimeInv, MutexInv, WriteLockInv, LogHandedOn
<1> QED
  BY <1>1, <1>2, RuntimeStep, PTL DEF RuntimeSpec

\* With a worker for each connection that writes the daemon cannot block itself:
\* not all of its threads are in flock while one of its tasks has the lock
\* (repo.rs:33-35).
THEOREM EnoughWorkers ==
  ASSUME IsFiniteSet(Workers), IsFiniteSet(Writers), Cardinality(Writers) <= Cardinality(Workers)
  PROVE  RuntimeSpec => []NoSelfBlock
<1>1. RuntimeInit => RuntimeInv
  BY TasksDisjoint DEF RuntimeInit, RuntimeInv, RuntimeTypes, WorkerInv, MutexInv, WriteLockInv, Tasks
<1>2. RuntimeInv => NoSelfBlock
  <2> SUFFICES ASSUME RuntimeInv, lock \in Writers,
                      \A w \in Workers : on[w] # Nobody /\ at[on[w]] = "flock"
               PROVE  FALSE
    BY DEF NoSelfBlock
  <2>1. \A w \in Workers : on[w] \in Writers \ {lock}
    BY DEF RuntimeInv, RuntimeTypes, WriteLockInv
  <2>2. on \in Injection(Workers, Writers \ {lock})
    <3>1. on \in [Workers -> Writers \ {lock}]
      BY <2>1 DEF RuntimeInv, RuntimeTypes
    <3>2. \A v, w \in Workers : on[v] = on[w] => v = w
      BY DEF RuntimeInv, WorkerInv
    <3> QED
      BY <3>1, <3>2 DEF Injection, IsInjective
  <2>3. /\ IsFiniteSet(Writers \ {lock})
        /\ Cardinality(Writers \ {lock}) = Cardinality(Writers) - 1
    BY FS_RemoveElement
  <2>4. Cardinality(Workers) <= Cardinality(Writers \ {lock})
    BY <2>2, <2>3, FS_Injection
  <2>5. Cardinality(Workers) \in Nat /\ Cardinality(Writers) \in Nat
    BY FS_CardinalityType
  <2> QED
    BY <2>3, <2>4, <2>5
<1> QED
  BY <1>1, <1>2, RuntimeStep, PTL DEF RuntimeSpec

=============================================================================
