---- MODULE Identities ----
(***************************************************************************)
(* The principal records of a repository and what is done with their keys:  *)
(* `tig identity new` writes <repo>/vis/keys/<name>.json, outside the write *)
(* lock and from any number of processes; `tig auth-token` signs with the   *)
(* key on file and tigd verifies with the key on file; `tig seal` wraps for *)
(* the keys on file and `tig reveal` and `tig restore --as` open with them. *)
(* A record's two key pairs are one number here, each number made once.     *)
(***************************************************************************)
EXTENDS Naturals, Sequences, FiniteSets

CONSTANTS
  Names, Procs,        \* principals; the processes that run `tig identity new`
  Spellings,           \* paths as typed, sequences of components, "" between two slashes
  Ttls,                \* the --ttl of a token
  NoEntry, NoRequest,  \* no such entry in a tree; the daemon is idle
  MaxKeys, MaxTime,    \* bounds: identities made, the clock,
  MaxUses              \* tokens minted and values sealed, together

ASSUME IdentitiesAssumption ==
  /\ \A s \in Spellings : s \in Seq(STRING)
  /\ Ttls \subseteq Nat
  /\ {MaxKeys, MaxTime, MaxUses} \subseteq Nat

Keys == 1..MaxKeys

VARIABLES
  keys,      \* how many key pairs were generated
  reg, temp, \* the inodes of <name>.json and of .tmp-<name>.json, 0 for none
  data,      \* what an inode holds: a record with this key, or 0, nothing yet
  proc,      \* the processes that run `tig identity new`
  reported,  \* history: the first key reported as created, 0 once its file is removed
  clashed,   \* history: two processes were creating this name at once
  now,       \* the clock
  tokens,    \* the tokens minted
  request,   \* the request tigd is authenticating
  seen,      \* history: the keys its subject had on file meanwhile
  answer,    \* what tigd made of the last one
  tip, snaps,\* the tree of the current snapshot, and of all
  disk,      \* per path, the sealed value whose plaintext lies in the directory, or 0
  seals,     \* history: what was sealed, for whom
  opened     \* history: the sealed values somebody entitled to has materialized

files == <<keys, reg, temp, data, proc, reported, clashed>>
daemon == <<request, answer>>
trees == <<tip, snaps, disk, seals, opened>>
vars == <<files, now, tokens, daemon, seen, trees>>

\* split_path and cmd_reveal drop empty components.
Canonical(s) == SelectSeq(s, LAMBDA part : part # "")
Paths == {Canonical(s) : s \in Spellings}

\* PrincipalStore::get: the key, 0 for no file or one that does not parse.
Get(n) == IF reg[n] = 0 THEN 0 ELSE data[reg[n]]

Sealed == [kind : {"sealed"}, what : 1..MaxUses, aad : Spellings, for : SUBSET Keys]
Plain == [kind : {"plain"}, what : 1..MaxUses]
Tree == [Paths -> Sealed \union Plain \union {NoEntry}]

Token == [sub : Names, key : Keys, at : 0..MaxTime, ttl : Ttls]
Request == [token : Token, key : 0..MaxKeys]
Answer == [token : Token, ok : BOOLEAN, when : 0..MaxTime, seen : SUBSET (0..MaxKeys)]

ASSUME AbsenceIsNothing == NoEntry \notin Sealed \union Plain /\ NoRequest \notin Request \union Answer

TypeOK ==
  /\ keys \in 0..MaxKeys
  /\ reg \in [Names -> 0..MaxKeys] /\ temp \in [Names -> 0..MaxKeys]
  /\ data \in [Keys -> 0..MaxKeys]
  /\ proc \in [Procs -> [pc : {"idle", "create", "write", "rename"},
                         name : Names, key : 0..MaxKeys, fd : 0..MaxKeys]]
  /\ reported \in [Names -> 0..MaxKeys] /\ clashed \in [Names -> BOOLEAN]
  /\ now \in 0..MaxTime
  /\ tokens \subseteq Token
  /\ request \in Request \union {NoRequest}
  /\ seen \subseteq 0..MaxKeys
  /\ answer \in Answer \union {NoRequest}
  /\ snaps \subseteq Tree /\ tip \in snaps
  /\ disk \in [Paths -> 0..MaxUses]
  /\ seals \in Seq([typed : Spellings, whose : UNION {[ns -> Keys] : ns \in SUBSET Names}])
  /\ opened \subseteq 1..MaxUses

Bare == [p \in Paths |-> NoEntry]

Init ==
  /\ keys = 0
  /\ reg = [n \in Names |-> 0] /\ temp = reg
  /\ data = [k \in Keys |-> 0]
  /\ \E n \in Names : proc = [p \in Procs |-> [pc |-> "idle", name |-> n, key |-> 0, fd |-> 0]]
  /\ reported = [n \in Names |-> 0]
  /\ clashed = [n \in Names |-> FALSE]
  /\ now = 0 /\ tokens = {} /\ request = NoRequest /\ seen = {} /\ answer = NoRequest
  /\ tip = Bare /\ snaps = {Bare} /\ disk = [p \in Paths |-> 0]
  /\ seals = <<>> /\ opened = {}

-----------------------------------------------------------------------------
(* `tig identity new`: cmd_identity_new, put_new and atomic_write.          *)

Creating(n) == {p \in Procs : proc[p].pc # "idle" /\ proc[p].name = n}
Goes(p, pc, key, fd) ==
  proc' = [proc EXCEPT ![p] = [pc |-> pc, name |-> @.name, key |-> key, fd |-> fd]]
Leave(p) == Goes(p, "idle", 0, 0)

\* Both key pairs are generated, then the file must not exist.
CheckNew(p, n) ==
  /\ proc[p].pc = "idle" /\ keys < MaxKeys
  /\ reg[n] = 0
  /\ keys' = keys + 1
  /\ proc' = [proc EXCEPT ![p] = [pc |-> "create", name |-> n, key |-> keys + 1, fd |-> 0]]
  /\ clashed' = [clashed EXCEPT ![n] = @ \/ Creating(n) # {}]
  /\ UNCHANGED <<reg, temp, data, reported>>

\* A bug: put where cmd_identity_new has put_new.
CheckNothing(p, n) ==
  /\ proc[p].pc = "idle" /\ keys < MaxKeys
  /\ keys' = keys + 1
  /\ proc' = [proc EXCEPT ![p] = [pc |-> "create", name |-> n, key |-> keys + 1, fd |-> 0]]
  /\ clashed' = [clashed EXCEPT ![n] = @ \/ Creating(n) # {}]
  /\ UNCHANGED <<reg, temp, data, reported>>

Check(p, n) == CheckNew(p, n)

\* File::create makes the tempfile or empties the one there is.
Create(p) ==
  LET n == proc[p].name
      inode == IF temp[n] = 0 THEN proc[p].key ELSE temp[n]
  IN /\ proc[p].pc = "create"
     /\ temp' = [temp EXCEPT ![n] = inode]
     /\ data' = [data EXCEPT ![inode] = 0]
     /\ Goes(p, "write", proc[p].key, inode)
     /\ UNCHANGED <<keys, reg, reported, clashed>>

Write(p) ==
  /\ proc[p].pc = "write"
  /\ data' = [data EXCEPT ![proc[p].fd] = proc[p].key]
  /\ Goes(p, "rename", proc[p].key, proc[p].fd)
  /\ UNCHANGED <<keys, reg, temp, reported, clashed>>

\* Whatever the tempfile is by now becomes the record; with none the command fails.
Rename(p) ==
  LET n == proc[p].name
  IN /\ proc[p].pc = "rename"
     /\ IF temp[n] # 0
        THEN /\ reg' = [reg EXCEPT ![n] = temp[n]]
             /\ temp' = [temp EXCEPT ![n] = 0]
             /\ reported' = [reported EXCEPT ![n] = IF @ = 0 THEN proc[p].key ELSE @]
        ELSE UNCHANGED <<reg, temp, reported>>
     /\ Leave(p)
     /\ UNCHANGED <<keys, data, clashed>>

\* The process is killed, or an I/O operation of it fails.
Die(p) ==
  /\ proc[p].pc # "idle"
  /\ Leave(p)
  /\ UNCHANGED <<keys, reg, temp, data, reported, clashed>>

\* Re-issuing an identity begins with removing its file by hand (tokens.rs).
Forget(n) ==
  /\ reg[n] # 0
  /\ reg' = [reg EXCEPT ![n] = 0]
  /\ reported' = [reported EXCEPT ![n] = 0]
  /\ clashed' = [clashed EXCEPT ![n] = Creating(n) # {}]
  /\ UNCHANGED <<keys, temp, data, proc>>

-----------------------------------------------------------------------------
(* Bearer tokens: cmd_auth_token, and caller_from in the daemon.            *)

Tick == now < MaxTime /\ now' = now + 1 /\ UNCHANGED tokens

Mint(n, ttl) ==
  /\ Get(n) # 0 /\ Cardinality(tokens) + Len(seals) < MaxUses
  /\ tokens' = tokens \union {[sub |-> n, key |-> Get(n), at |-> now, ttl |-> ttl]}
  /\ UNCHANGED now

Expired(token) == now >= token.at + token.ttl

\* A bug: the last second, inclusive.
ExpiredAfter(token) == now > token.at + token.ttl

IsExpired(token) == Expired(token)

\* peek_claims names the subject, whose key is read from the registry.
LookUp(token) ==
  /\ request = NoRequest
  /\ request' = [token |-> token, key |-> Get(token.sub)]
  /\ UNCHANGED answer

Verifies == request.key = request.token.key /\ ~IsExpired(request.token)

\* verify_token: any failure is a 401.
Verify ==
  /\ request # NoRequest
  /\ answer' = [token |-> request.token, ok |-> Verifies, when |-> now, seen |-> seen]
  /\ request' = NoRequest

-----------------------------------------------------------------------------
(* Sealed values: cmd_seal, cmd_reveal, materialize and the snap.           *)

\* do_unseal: the path must be the one sealed under, the key a recipient's.
Opens(entry, key, path) ==
  /\ entry # NoEntry /\ entry.kind = "sealed"
  /\ entry.aad = path
  /\ key \in entry.for

\* A bug: anybody with a key opens it.
OpensWithAnyKey(entry, key, path) ==
  /\ entry # NoEntry /\ entry.kind = "sealed"
  /\ entry.aad = path
  /\ key # 0

\* A bug: the path is not part of the seal.
OpensAnywhere(entry, key, path) ==
  /\ entry # NoEntry /\ entry.kind = "sealed"
  /\ key \in entry.for

Unseal(entry, key, path) == Opens(entry, key, path)

\* The path goes into the seal as typed, the entry to where split_path says.
SealWith(s, names, recipients) ==
  /\ names # {} /\ \A n \in names : Get(n) # 0
  /\ Canonical(s) # <<>> /\ Cardinality(tokens) + Len(seals) < MaxUses
  /\ tip' = [tip EXCEPT ![Canonical(s)] =
               [kind |-> "sealed", what |-> Len(seals) + 1, aad |-> s, for |-> recipients]]
  /\ snaps' = snaps \union {tip'}
  /\ seals' = Append(seals, [typed |-> s, whose |-> [n \in names |-> Get(n)]])
  /\ UNCHANGED <<disk, opened>>

\* A bug: recipients are kept by name.
SealForNames(s, names) == SealWith(s, names, names)

Seal(s, names) == SealWith(s, names, {Get(n) : n \in names})

Reveals(s, n) == Unseal(tip[Canonical(s)], Get(n), s)

Renders(tree, p, key) ==
  tree[p] # NoEntry => tree[p].kind = "plain" \/ Unseal(tree[p], key, p)

\* `tig restore --force`, --as somebody with this key or (key 0) without, which a tree
\* with sealed entries refuses: the directory is cleared, then the entries are
\* written, up to the first that cannot be; once all are, the tree is the tip's.
Restore(tree, key) ==
  \E done \in SUBSET Paths :
    /\ key = 0 => \A p \in Paths : tree[p] \notin Sealed
    /\ \A p \in done : Renders(tree, p, key)
    /\ done # Paths => \E p \in Paths \ done : ~Renders(tree, p, key)
    /\ disk' = [p \in Paths |-> IF p \in done /\ tree[p] # NoEntry THEN tree[p].what ELSE 0]
    /\ tip' = IF done = Paths THEN tree ELSE tip
    /\ opened' = opened \union
         {tree[p].what : p \in {q \in done : tree[q] \in Sealed
            /\ \E m \in DOMAIN seals[tree[q].what].whose : seals[tree[q].what].whose[m] = key}}
    /\ UNCHANGED <<snaps, seals>>

\* A snap records what lies in the directory: a sealed entry that has no file
\* there is gone from the tree, one that was materialized is a plain file.
Snap ==
  /\ tip' = [p \in Paths |-> IF disk[p] = 0 THEN NoEntry ELSE [kind |-> "plain", what |-> disk[p]]]
  /\ snaps' = snaps \union {tip'}
  /\ UNCHANGED <<disk, seals, opened>>

-----------------------------------------------------------------------------
Files ==
  \/ \E p \in Procs : (\E n \in Names : Check(p, n)) \/ Create(p) \/ Write(p) \/ Rename(p) \/ Die(p)
  \/ \E n \in Names : Forget(n)

\* seen follows what is on file for the subject while a request is under way.
Watched ==
  seen' = IF request' = NoRequest THEN {} ELSE seen \union {Get(request.token.sub)'}

Next ==
  /\ \/ Files /\ UNCHANGED <<now, tokens, daemon, trees>>
     \/ (Tick \/ \E n \in Names, ttl \in Ttls : Mint(n, ttl)) /\ UNCHANGED <<files, daemon, trees>>
     \/ ((\E token \in tokens : LookUp(token)) \/ Verify) /\ UNCHANGED <<files, now, tokens, trees>>
     \/ /\ \/ \E s \in Spellings, names \in SUBSET Names : Seal(s, names)
           \/ \E tree \in snaps, key \in {0} \union {Get(n) : n \in Names} : Restore(tree, key)
           \/ Snap
        /\ UNCHANGED <<files, now, tokens, daemon>>
  /\ Watched

Spec == Init /\ [][Next]_vars

-----------------------------------------------------------------------------
\* What `tig identity new` reported is on file until somebody removes it, however
\* many processes died halfway before (their tempfiles stay), unless two
\* processes were creating the name at once: put_new checks without the lock
\* and both write one tempfile.
IdentityKept ==
  \A n \in Names : reported[n] # 0 /\ ~clashed[n] => Get(n) = reported[n]

\* The daemon takes a token as its subject exactly while it lasts and as long as
\* the identity is not re-issued: an accepted one was signed with a key on file
\* at some moment of the request and lived for less than its ttl, a refused one
\* had lived for longer or its key was not on file all the time.
TokensExact ==
  answer # NoRequest =>
    LET t == answer.token IN
    IF answer.ok THEN t.key \in answer.seen /\ answer.when < t.at + t.ttl
    ELSE answer.when >= t.at + t.ttl \/ answer.seen # {t.key}

\* Whoever a value was sealed for can still open it if they have the same key,
\* with `tig reveal` under the path as it was typed, and in a directory if that
\* path was the entry's own; nobody else can, under whatever path.
SealedForHolders ==
  \A p \in Paths : tip[p] \in Sealed =>
    LET seal == seals[tip[p].what]
        Holds(n) == \E m \in DOMAIN seal.whose : seal.whose[m] = Get(n)
    IN \A n \in Names :
         /\ \A s \in Spellings : Canonical(s) = p =>
              (Reveals(s, n) <=> Holds(n) /\ s = seal.typed)
         /\ Renders(tip, p, Get(n)) <=> Holds(n) /\ p = seal.typed

\* The plaintext of a sealed value is in the directory or, unsealed, in a snapshot
\* only after somebody it was sealed for had it materialized: restores that
\* fail, snaps and restores of older snapshots do not set it free.
PlainOnlyIfOpened ==
  /\ \A p \in Paths : disk[p] # 0 => disk[p] \in opened
  /\ \A t \in snaps, p \in Paths : t[p] \in Plain => t[p].what \in opened

====
