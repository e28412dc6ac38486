--------------------------- MODULE IdentitiesProofs ---------------------------
(* The properties of Identities, for any number of principals, processes,    *)
(* tokens and sealed values.                                                 *)
EXTENDS Identities, FiniteSetTheorems, SequenceTheorems, TLAPS

\* The files a name's record may be in, and those its processes write or may make.
Inodes(n) ==
  ({reg[n], temp[n]} \union {proc[p].key : p \in Creating(n)}
                     \union {proc[p].fd : p \in Creating(n)}) \ {0}

\* Where `tig identity new` stands is what it has: its keys, then its tempfile.
StandsInv ==
  \A p \in Procs :
    /\ proc[p].pc # "idle" => proc[p].key # 0
    /\ proc[p].pc \in {"write", "rename"} => proc[p].fd # 0

\* No file of one name is another name's.
ApartInv ==
  /\ \A n \in Names : Inodes(n) \subseteq 1..keys
  /\ \A n, m \in Names : n # m => Inodes(n) \intersect Inodes(m) = {}

\* A name of which two processes were not at it at once: the one that creates it,
\* if any, found no record, and the tempfile is its own, with its key once written.
AloneInv ==
  \A n \in Names :
    /\ reg[n] = 0 <=> reported[n] = 0
    /\ ~clashed[n] =>
         /\ \A p, q \in Creating(n) : p = q
         /\ \A p \in Creating(n) :
              /\ reg[n] = 0
              /\ proc[p].pc \in {"write", "rename"} => proc[p].fd = temp[n]
              /\ proc[p].pc = "rename" => data[temp[n]] = proc[p].key

FilesInv == StandsInv /\ ApartInv /\ AloneInv /\ IdentityKept

\* The key the daemon looked up is one its subject had on file.
LookedUpInv == request # NoRequest => request.key \in seen

\* A sealed entry in any tree is for the keys it was sealed for, under the path typed.
SealsInv ==
  \A t \in snaps, p \in Paths : t[p] \in Sealed =>
    /\ t[p].what \in 1..Len(seals)
    /\ t[p].aad = seals[t[p].what].typed
    /\ t[p].for = {seals[t[p].what].whose[m] : m \in DOMAIN seals[t[p].what].whose}

TypeInv == TypeOK /\ IsFiniteSet(tokens)

----------------------------------------------------------------------------

\* What PrincipalStore::get answers is a key or nothing.
LEMMA GetType == TypeOK => \A n \in Names : Get(n) \in 0..MaxKeys
BY IdentitiesAssumption DEF TypeOK, Get, Keys

\* A path as typed leads to an entry's path (split_path).
LEMMA CanonicalIsPath == \A s \in Spellings : Canonical(s) \in Paths
BY DEF Paths

\* Where `tig identity new` goes (the steps of atomic_write).
LEMMA GoesType ==
  ASSUME TypeOK, NEW p \in Procs, NEW at \in {"idle", "create", "write", "rename"},
         NEW key \in 0..MaxKeys, NEW fd \in 0..MaxKeys, Goes(p, at, key, fd)
  PROVE  proc' \in [Procs -> [pc : {"idle", "create", "write", "rename"},
                              name : Names, key : 0..MaxKeys, fd : 0..MaxKeys]]
BY DEF TypeOK, Goes

\* `tig identity new` and the removal of a file keep the types of the records.
LEMMA FilesType ==
  ASSUME TypeOK, Files
  PROVE  /\ keys' \in 0..MaxKeys
         /\ reg' \in [Names -> 0..MaxKeys] /\ temp' \in [Names -> 0..MaxKeys]
         /\ data' \in [Keys -> 0..MaxKeys]
         /\ proc' \in [Procs -> [pc : {"idle", "create", "write", "rename"},
                                 name : Names, key : 0..MaxKeys, fd : 0..MaxKeys]]
         /\ reported' \in [Names -> 0..MaxKeys] /\ clashed' \in [Names -> BOOLEAN]
<1> DEFINE Typed == /\ keys' \in 0..MaxKeys
                    /\ reg' \in [Names -> 0..MaxKeys] /\ temp' \in [Names -> 0..MaxKeys]
                    /\ data' \in [Keys -> 0..MaxKeys]
                    /\ proc' \in [Procs -> [pc : {"idle", "create", "write", "rename"},
                                            name : Names, key : 0..MaxKeys, fd : 0..MaxKeys]]
                    /\ reported' \in [Names -> 0..MaxKeys] /\ clashed' \in [Names -> BOOLEAN]
<1>0. MaxKeys \in Nat
  BY IdentitiesAssumption
<1>1. ASSUME NEW p \in Procs, NEW n \in Names, Check(p, n) PROVE Typed
  <2>1. keys + 1 \in 0..MaxKeys
    BY <1>0, <1>1 DEF TypeOK, Check, CheckNew
  <2>2. proc' \in [Procs -> [pc : {"idle", "create", "write", "rename"},
                             name : Names, key : 0..MaxKeys, fd : 0..MaxKeys]]
    BY <1>0, <1>1, <2>1 DEF TypeOK, Check, CheckNew
  <2> QED
    BY <1>1, <2>1, <2>2 DEF TypeOK, Check, CheckNew
<1>2. ASSUME NEW p \in Procs, Create(p) PROVE Typed
  <2>1. proc[p].name \in Names /\ proc[p].key \in 0..MaxKeys
    BY DEF TypeOK
  <2> DEFINE inode == IF temp[proc[p].name] = 0 THEN proc[p].key ELSE temp[proc[p].name]
  <2>2. inode \in 0..MaxKeys
    BY <2>1 DEF TypeOK
  <2>3. Goes(p, "write", proc[p].key, inode)
    BY <1>2 DEF Create
  <2>4. proc' \in [Procs -> [pc : {"idle", "create", "write", "rename"},
                             name : Names, key : 0..MaxKeys, fd : 0..MaxKeys]]
    <3> HIDE DEF inode
    <3> QED BY <2>1, <2>2, <2>3, GoesType
  <2>5. temp' \in [Names -> 0..MaxKeys] /\ data' \in [Keys -> 0..MaxKeys]
    <3>1. temp' = [temp EXCEPT ![proc[p].name] = inode] /\ data' = [data EXCEPT ![inode] = 0]
      BY <1>2 DEF Create
    <3>2. temp \in [Names -> 0..MaxKeys] /\ data \in [Keys -> 0..MaxKeys] /\ 0 \in 0..MaxKeys
      BY <1>0 DEF TypeOK
    <3> HIDE DEF inode
    <3>3. [temp EXCEPT ![proc[p].name] = inode] \in [Names -> 0..MaxKeys]
      BY <2>2, <3>2, Zenon
    <3>4. [data EXCEPT ![inode] = 0] \in [Keys -> 0..MaxKeys]
      BY <3>2, Zenon
    <3> QED BY <3>1, <3>3, <3>4
  <2> QED
    BY <1>2, <2>4, <2>5 DEF TypeOK, Create
<1>3. ASSUME NEW p \in Procs, Write(p) PROVE Typed
  <2>1. proc[p].key \in 0..MaxKeys /\ proc[p].fd \in 0..MaxKeys
    BY DEF TypeOK
  <2>2. proc' \in [Procs -> [pc : {"idle", "create", "write", "rename"},
                             name : Names, key : 0..MaxKeys, fd : 0..MaxKeys]]
    BY <1>3, <2>1, GoesType DEF Write
  <2> QED
    BY <1>3, <2>1, <2>2 DEF TypeOK, Write
<1>4. ASSUME NEW p \in Procs, Rename(p) PROVE Typed
  <2>1. proc[p].name \in Names /\ proc[p].key \in 0..MaxKeys
    BY DEF TypeOK
  <2>2. proc' \in [Procs -> [pc : {"idle", "create", "write", "rename"},
                             name : Names, key : 0..MaxKeys, fd : 0..MaxKeys]]
    BY <1>0, <1>4, GoesType DEF Rename, Leave
  <2>3. /\ reg \in [Names -> 0..MaxKeys] /\ temp \in [Names -> 0..MaxKeys]
        /\ reported \in [Names -> 0..MaxKeys] /\ 0 \in 0..MaxKeys
    BY <1>0 DEF TypeOK
  <2> DEFINE n == proc[p].name
             first == IF reported[n] = 0 THEN proc[p].key ELSE reported[n]
  <2>4. temp[n] \in 0..MaxKeys /\ first \in 0..MaxKeys
    BY <2>1, <2>3
  <2>5. \/ reg' = [reg EXCEPT ![n] = temp[n]] /\ temp' = [temp EXCEPT ![n] = 0]
           /\ reported' = [reported EXCEPT ![n] = first]
        \/ UNCHANGED <<reg, temp, reported>>
    BY <1>4 DEF Rename
  <2>6. reg' \in [Names -> 0..MaxKeys] /\ temp' \in [Names -> 0..MaxKeys]
        /\ reported' \in [Names -> 0..MaxKeys]
    <3> HIDE DEF first, n
    <3> QED BY <2>3, <2>4, <2>5
  <2> QED
    BY <1>4, <2>2, <2>6 DEF TypeOK, Rename
<1>5. ASSUME NEW p \in Procs, Die(p) PROVE Typed
  <2>1. proc' \in [Procs -> [pc : {"idle", "create", "write", "rename"},
                             name : Names, key : 0..MaxKeys, fd : 0..MaxKeys]]
    BY <1>0, <1>5, GoesType DEF Die, Leave
  <2> QED
    BY <1>5, <2>1 DEF TypeOK, Die
<1>6. ASSUME NEW n \in Names, Forget(n) PROVE Typed
  <2>1. clashed' \in [Names -> BOOLEAN]
    <3>1. (Creating(n) # {}) \in BOOLEAN
      OBVIOUS
    <3>2. clashed' = [clashed EXCEPT ![n] = Creating(n) # {}]
      BY <1>6 DEF Forget
    <3> QED BY <3>1, <3>2, Zenon DEF TypeOK
  <2> QED
    BY <1>0, <1>6, <2>1 DEF TypeOK, Forget
<1> QED
  <2> HIDE DEF Typed
  <2>1. Typed
    BY <1>1, <1>2, <1>3, <1>4, <1>5, <1>6 DEF Files
  <2> QED BY <2>1 DEF Typed

\* The clock, cmd_auth_token and what they leave of the bound.
LEMMA TokensType ==
  ASSUME TypeInv, Tick \/ \E n \in Names, ttl \in Ttls : Mint(n, ttl)
  PROVE  now' \in 0..MaxTime /\ tokens' \subseteq Token /\ IsFiniteSet(tokens')
<1>1. CASE Tick
  <2>1. MaxTime \in Nat
    BY IdentitiesAssumption
  <2> QED
    BY <1>1, <2>1 DEF TypeInv, TypeOK, Tick
<1>2. ASSUME NEW n \in Names, NEW ttl \in Ttls, Mint(n, ttl)
      PROVE  now' \in 0..MaxTime /\ tokens' \subseteq Token /\ IsFiniteSet(tokens')
  <2> DEFINE minted == [sub |-> n, key |-> Get(n), at |-> now, ttl |-> ttl]
  <2>1. Get(n) \in Keys
    BY <1>2, GetType, IdentitiesAssumption DEF TypeInv, Mint, Keys
  <2>2. minted \in Token
    BY <2>1 DEF TypeInv, TypeOK, Token
  <2>3. tokens' = tokens \union {minted} /\ now' = now
    BY <1>2 DEF Mint
  <2>4. IsFiniteSet(tokens \union {minted})
    BY FS_AddElement DEF TypeInv
  <2> HIDE DEF minted
  <2> QED
    BY <2>2, <2>3, <2>4 DEF TypeInv, TypeOK
<1> QED
  BY <1>1, <1>2

\* caller_from: what is looked up and what is answered.
LEMMA DaemonType ==
  ASSUME TypeOK, (\E token \in tokens : LookUp(token)) \/ Verify
  PROVE  request' \in Request \union {NoRequest} /\ answer' \in Answer \union {NoRequest}
<1>1. ASSUME NEW token \in tokens, LookUp(token)
      PROVE  request' \in Request \union {NoRequest} /\ answer' \in Answer \union {NoRequest}
  <2>1. token \in Token /\ token.sub \in Names
    BY DEF TypeOK, Token
  <2>2. Get(token.sub) \in 0..MaxKeys
    BY <2>1, GetType
  <2> QED
    BY <1>1, <2>1, <2>2 DEF TypeOK, LookUp, Request
<1>2. CASE Verify
  <2>1. request \in Request
    BY <1>2 DEF TypeOK, Verify
  <2>2. request.token \in Token
    BY <2>1 DEF Request
  <2>3. Verifies \in BOOLEAN
    BY DEF Verifies
  <2>4. answer' \in Answer
    BY <1>2, <2>2, <2>3 DEF TypeOK, Verify, Answer
  <2> QED
    BY <1>2, <2>4 DEF Verify
<1> QED
  BY <1>1, <1>2

\* A seal's history is who it was for and the path typed.
SealOf == [typed : Spellings, whose : UNION {[ns -> Keys] : ns \in SUBSET Names}]

\* A sealed or a plain entry names a value that was sealed.
LEMMA EntryType ==
  ASSUME NEW t \in Tree, NEW p \in Paths
  PROVE  /\ t[p] \in Sealed \/ t[p] \in Plain \/ t[p] = NoEntry
         /\ t[p] # NoEntry => t[p].what \in 1..MaxUses
         /\ t[p] # NoEntry /\ t[p].kind = "plain" => t[p] \in Plain
         /\ t[p] # NoEntry /\ t[p].kind = "sealed" => t[p] \in Sealed
BY DEF Tree, Sealed, Plain

\* cmd_seal adds one entry, for the keys on file of the names given.
LEMMA SealStep ==
  ASSUME TypeInv, NEW s \in Spellings, NEW names \in SUBSET Names, Seal(s, names)
  PROVE  LET p == Canonical(s)
             seal == [typed |-> s, whose |-> [n \in names |-> Get(n)]]
             entry == [kind |-> "sealed", what |-> Len(seals) + 1, aad |-> s,
                       for |-> {Get(n) : n \in names}]
         IN /\ p \in Paths /\ seal \in SealOf /\ entry \in Sealed
            /\ tip' = [tip EXCEPT ![p] = entry] /\ snaps' = snaps \union {tip'}
            /\ seals' = Append(seals, seal)
            /\ UNCHANGED <<disk, opened>>
<1>1. \A n \in names : Get(n) \in Keys
  BY GetType, IdentitiesAssumption DEF TypeInv, Seal, SealWith, Keys
<1>2. Len(seals) + 1 \in 1..MaxUses
  <2>1. Len(seals) \in Nat
    BY LenProperties DEF TypeInv, TypeOK
  <2>2. Cardinality(tokens) \in Nat
    BY FS_CardinalityType DEF TypeInv
  <2>3. Cardinality(tokens) + Len(seals) < MaxUses
    BY DEF Seal, SealWith
  <2>4. MaxUses \in Nat
    BY IdentitiesAssumption
  <2> QED
    BY <2>1, <2>2, <2>3, <2>4
<1>3. [n \in names |-> Get(n)] \in UNION {[ns -> Keys] : ns \in SUBSET Names}
  BY <1>1
<1>4. {Get(n) : n \in names} \in SUBSET Keys
  BY <1>1
<1> DEFINE whose == [n \in names |-> Get(n)]
           recipients == {Get(n) : n \in names}
<1>5. [typed |-> s, whose |-> whose] \in SealOf
  <2> HIDE DEF whose
  <2> QED BY <1>3 DEF SealOf, whose
<1>6. [kind |-> "sealed", what |-> Len(seals) + 1, aad |-> s, for |-> recipients] \in Sealed
  <2> HIDE DEF recipients
  <2> QED BY <1>2, <1>4 DEF Sealed, recipients
<1> QED
  BY <1>5, <1>6, CanonicalIsPath DEF Seal, SealWith

\* cmd_restore puts the whole tree there, or part of it and leaves the tip.
LEMMA RestoreStep ==
  ASSUME TypeOK, NEW tree \in snaps, NEW key, Restore(tree, key)
  PROVE  /\ tip' \in {tip, tree} /\ UNCHANGED <<snaps, seals>>
         /\ disk' \in [Paths -> 0..MaxUses]
         /\ opened \subseteq opened' /\ opened' \subseteq 1..MaxUses
         /\ \A p \in Paths : disk'[p] # 0 => /\ tree[p] # NoEntry /\ disk'[p] = tree[p].what
                                             /\ Renders(tree, p, key)
         /\ \A p \in Paths : /\ disk'[p] # 0 /\ tree[p] \in Sealed
                             /\ \E m \in DOMAIN seals[tree[p].what].whose :
                                  seals[tree[p].what].whose[m] = key
                             => tree[p].what \in opened'
<1>1. tree \in Tree
  BY DEF TypeOK
<1>2. \A p \in Paths : tree[p] # NoEntry => tree[p].what \in 1..MaxUses
  BY <1>1, EntryType
<1>3. MaxUses \in Nat
  BY IdentitiesAssumption
<1> DEFINE Disk(done) == [p \in Paths |-> IF p \in done /\ tree[p] # NoEntry THEN tree[p].what ELSE 0]
           Holds(p) == \E m \in DOMAIN seals[tree[p].what].whose : seals[tree[p].what].whose[m] = key
           Free(done) == {tree[p].what : p \in {q \in done : tree[q] \in Sealed /\ Holds(q)}}
<1>4. PICK done \in SUBSET Paths :
        /\ \A p \in done : Renders(tree, p, key)
        /\ disk' = Disk(done)
        /\ tip' = IF done = Paths THEN tree ELSE tip
        /\ opened' = opened \union Free(done)
        /\ UNCHANGED <<snaps, seals>>
  BY DEF Restore
<1>5. Disk(done) \in [Paths -> 0..MaxUses]
  BY <1>2, <1>3
<1>6. \A p \in Paths : Disk(done)[p] # 0 => p \in done /\ tree[p] # NoEntry /\ Disk(done)[p] = tree[p].what
  OBVIOUS
<1>7. Free(done) \subseteq 1..MaxUses
  BY <1>2, AbsenceIsNothing
<1>8. \A p \in done : tree[p] \in Sealed /\ Holds(p) => tree[p].what \in Free(done)
  OBVIOUS
<1>9. opened \subseteq opened' /\ opened' \subseteq 1..MaxUses
  BY <1>4, <1>7 DEF TypeOK
<1>10. tip' \in {tip, tree} /\ UNCHANGED <<snaps, seals>>
  BY <1>4
<1>11. disk' \in [Paths -> 0..MaxUses]
  BY <1>4, <1>5
<1>12. \A p \in Paths : disk'[p] # 0 => p \in done /\ tree[p] # NoEntry /\ disk'[p] = tree[p].what
  BY <1>4, <1>6
<1>13. \A p \in Paths : disk'[p] # 0 /\ tree[p] \in Sealed /\ Holds(p) => tree[p].what \in opened'
  BY <1>4, <1>8, <1>12
<1>14. \A p \in Paths : disk'[p] # 0 => Renders(tree, p, key)
  BY <1>4, <1>12
<1> QED
  BY <1>9, <1>10, <1>11, <1>12, <1>13, <1>14

\* The snap's tree is what lies in the directory, in plain.
LEMMA SnapStep ==
  ASSUME TypeOK, Snap
  PROVE  /\ tip' \in Tree /\ snaps' = snaps \union {tip'} /\ UNCHANGED <<disk, seals, opened>>
         /\ \A p \in Paths : \/ tip'[p] = NoEntry
                             \/ disk[p] # 0 /\ tip'[p] \in Plain /\ tip'[p].what = disk[p]
<1>1. \A p \in Paths : disk[p] # 0 => disk[p] \in 1..MaxUses
  BY IdentitiesAssumption DEF TypeOK
<1> DEFINE New == [p \in Paths |-> IF disk[p] = 0 THEN NoEntry ELSE [kind |-> "plain", what |-> disk[p]]]
<1>2. \A p \in Paths : disk[p] # 0 => [kind |-> "plain", what |-> disk[p]] \in Plain
  BY <1>1 DEF Plain
<1>3. New \in Tree
  BY <1>2 DEF Tree
<1>4. \A p \in Paths : \/ New[p] = NoEntry
                       \/ disk[p] # 0 /\ New[p] \in Plain /\ New[p].what = disk[p]
  BY <1>2
<1>5. tip' = New /\ snaps' = snaps \union {tip'} /\ UNCHANGED <<disk, seals, opened>>
  BY DEF Snap
<1> QED
  BY <1>3, <1>4, <1>5

\* What any of the commands on sealed values does.
Sealing ==
  \/ \E s \in Spellings, names \in SUBSET Names : Seal(s, names)
  \/ \E tree \in snaps, key \in {0} \union {Get(n) : n \in Names} : Restore(tree, key)
  \/ Snap

\* Seal, restore and snap keep the types of the trees.
LEMMA TreesType ==
  ASSUME TypeInv, Sealing
  PROVE  /\ snaps' \subseteq Tree /\ tip' \in snaps' /\ disk' \in [Paths -> 0..MaxUses]
         /\ seals' \in Seq(SealOf) /\ opened' \subseteq 1..MaxUses
<1> DEFINE Typed == /\ snaps' \subseteq Tree /\ tip' \in snaps' /\ disk' \in [Paths -> 0..MaxUses]
                    /\ seals' \in Seq(SealOf) /\ opened' \subseteq 1..MaxUses
<1>0. /\ snaps \subseteq Tree /\ tip \in snaps /\ disk \in [Paths -> 0..MaxUses]
      /\ seals \in Seq(SealOf) /\ opened \subseteq 1..MaxUses
  BY DEF TypeInv, TypeOK, SealOf
<1>1. ASSUME NEW s \in Spellings, NEW names \in SUBSET Names, Seal(s, names) PROVE Typed
  <2>1. PICK p \in Paths, seal \in SealOf, entry \in Sealed :
          /\ tip' = [tip EXCEPT ![p] = entry] /\ snaps' = snaps \union {tip'}
          /\ seals' = Append(seals, seal) /\ UNCHANGED <<disk, opened>>
    BY <1>1, SealStep, Zenon
  <2>2. tip' \in Tree
    BY <1>0, <2>1 DEF Tree
  <2>3. seals' \in Seq(SealOf)
    BY <1>0, <2>1, AppendProperties
  <2> QED
    BY <1>0, <2>1, <2>2, <2>3
<1>2. ASSUME NEW tree \in snaps, NEW key, Restore(tree, key) PROVE Typed
  <2>1. /\ tip' \in {tip, tree} /\ UNCHANGED <<snaps, seals>>
        /\ disk' \in [Paths -> 0..MaxUses] /\ opened' \subseteq 1..MaxUses
    BY <1>2, RestoreStep DEF TypeInv
  <2> QED
    BY <1>0, <2>1
<1>3. ASSUME Snap PROVE Typed
  <2>1. tip' \in Tree /\ snaps' = snaps \union {tip'} /\ UNCHANGED <<disk, seals, opened>>
    BY <1>3, SnapStep DEF TypeInv
  <2> QED
    BY <1>0, <2>1
<1> QED
  <2> SUFFICES Typed
    OBVIOUS
  <2> HIDE DEF Typed
  <2> QED BY <1>1, <1>2, <1>3 DEF Sealing

\* What a step touches (the four groups of Next), and what seen becomes.
LEMMA NextCases ==
  Next => /\ Watched
          /\ \/ Files /\ UNCHANGED <<now, tokens, request, answer, tip, snaps, disk, seals, opened>>
             \/ /\ Tick \/ \E n \in Names, ttl \in Ttls : Mint(n, ttl)
                /\ UNCHANGED <<keys, reg, temp, data, proc, reported, clashed>>
                /\ UNCHANGED <<request, answer, tip, snaps, disk, seals, opened>>
             \/ /\ (\E token \in tokens : LookUp(token)) \/ Verify
                /\ UNCHANGED <<keys, reg, temp, data, proc, reported, clashed>>
                /\ UNCHANGED <<now, tokens, tip, snaps, disk, seals, opened>>
             \/ /\ Sealing
                /\ UNCHANGED <<keys, reg, temp, data, proc, reported, clashed>>
                /\ UNCHANGED <<now, tokens, request, answer>>
BY DEF Next, files, daemon, trees, Sealing

\* No step breaks the types.
LEMMA TypeStep == TypeInv /\ [Next]_vars => TypeInv'
<1> SUFFICES ASSUME TypeInv, [Next]_vars PROVE TypeInv'
  OBVIOUS
<1> DEFINE FilesTyped == /\ keys \in 0..MaxKeys
                         /\ reg \in [Names -> 0..MaxKeys] /\ temp \in [Names -> 0..MaxKeys]
                         /\ data \in [Keys -> 0..MaxKeys]
                         /\ proc \in [Procs -> [pc : {"idle", "create", "write", "rename"},
                                                name : Names, key : 0..MaxKeys, fd : 0..MaxKeys]]
                         /\ reported \in [Names -> 0..MaxKeys] /\ clashed \in [Names -> BOOLEAN]
           TokensTyped == now \in 0..MaxTime /\ tokens \subseteq Token /\ IsFiniteSet(tokens)
           DaemonTyped == request \in Request \union {NoRequest} /\ answer \in Answer \union {NoRequest}
           TreesTyped == /\ snaps \subseteq Tree /\ tip \in snaps /\ disk \in [Paths -> 0..MaxUses]
                         /\ seals \in Seq(SealOf) /\ opened \subseteq 1..MaxUses
<1>1. TypeInv <=> FilesTyped /\ TokensTyped /\ DaemonTyped /\ TreesTyped /\ seen \subseteq 0..MaxKeys
  BY DEF TypeInv, TypeOK, SealOf
<1>2. TypeInv' <=> FilesTyped' /\ TokensTyped' /\ DaemonTyped' /\ TreesTyped' /\ seen' \subseteq 0..MaxKeys
  BY DEF TypeInv, TypeOK, SealOf
<1>3. CASE UNCHANGED vars
  BY <1>1, <1>2, <1>3, Zenon DEF vars, files, daemon, trees
<1>4. CASE Next
  <2>1. FilesTyped'
    <3>1. CASE Files
      BY <3>1, FilesType DEF TypeInv
    <3>2. CASE UNCHANGED <<keys, reg, temp, data, proc, reported, clashed>>
      BY <1>1, <3>2
    <3> QED
      BY <1>4, <3>1, <3>2, NextCases
  <2>2. TokensTyped'
    <3>1. CASE Tick \/ \E n \in Names, ttl \in Ttls : Mint(n, ttl)
      BY <3>1, TokensType
    <3>2. CASE UNCHANGED <<now, tokens>>
      BY <1>1, <3>2
    <3> QED
      BY <1>4, <3>1, <3>2, NextCases
  <2>3. DaemonTyped'
    <3>1. CASE (\E token \in tokens : LookUp(token)) \/ Verify
      BY <3>1, DaemonType DEF TypeInv
    <3>2. CASE UNCHANGED <<request, answer>>
      BY <1>1, <3>2
    <3> QED
      BY <1>4, <3>1, <3>2, NextCases
  <2>4. TreesTyped'
    <3>1. CASE Sealing
      BY <3>1, TreesType
    <3>2. CASE UNCHANGED <<tip, snaps, disk, seals, opened>>
      BY <1>1, <3>2
    <3> QED
      BY <1>4, <3>1, <3>2, NextCases
  <2>5. seen' \subseteq 0..MaxKeys
    <3>1. CASE request' = NoRequest
      BY <1>4, <3>1 DEF Next, Watched
    <3>2. CASE request' # NoRequest
      <4>1. request'.token.sub \in Names
        BY <2>3, <3>2 DEF Request, Token
      <4>2. Get(request.token.sub)' \in 0..MaxKeys
        BY <2>1, <4>1, IdentitiesAssumption DEF Get, Keys
      <4>3. seen' = seen \union {Get(request.token.sub)'}
        BY <1>4, <3>2 DEF Next, Watched
      <4> QED
        BY <1>1, <4>2, <4>3
    <3> QED
      BY <3>1, <3>2
  <2> HIDE DEF FilesTyped, TokensTyped, DaemonTyped, TreesTyped
  <2> QED
    BY <1>2, <2>1, <2>2, <2>3, <2>4, <2>5
<1> QED
  BY <1>3, <1>4

\* A fresh repository's types.
LEMMA TypeInit == Init => TypeInv
<1> SUFFICES ASSUME Init PROVE TypeInv
  OBVIOUS
<1>1. {MaxKeys, MaxTime, MaxUses} \subseteq Nat
  BY IdentitiesAssumption
<1>2. Bare \in Tree
  BY DEF Bare, Tree
<1>3. seals \in Seq(SealOf)
  BY EmptySeq DEF Init
<1>4. IsFiniteSet(tokens) /\ tokens \subseteq Token
  BY FS_EmptySet DEF Init
<1>5. /\ keys \in 0..MaxKeys
      /\ reg \in [Names -> 0..MaxKeys] /\ temp \in [Names -> 0..MaxKeys]
      /\ data \in [Keys -> 0..MaxKeys]
      /\ reported \in [Names -> 0..MaxKeys] /\ clashed \in [Names -> BOOLEAN]
  BY <1>1 DEF Init
<1>6. proc \in [Procs -> [pc : {"idle", "create", "write", "rename"},
                          name : Names, key : 0..MaxKeys, fd : 0..MaxKeys]]
  BY <1>1 DEF Init
<1>7. /\ now \in 0..MaxTime /\ request = NoRequest /\ seen = {} /\ answer = NoRequest
      /\ tip \in snaps /\ snaps \subseteq Tree /\ disk \in [Paths -> 0..MaxUses] /\ opened = {}
  BY <1>1, <1>2 DEF Init
<1> QED
  BY <1>3, <1>4, <1>5, <1>6, <1>7 DEF TypeInv, TypeOK, SealOf

\* The records, tokens, trees and what the daemon is doing are well-typed.
THEOREM IdentitiesTyped == Spec => []TypeOK
<1>1. TypeInv => TypeOK
  BY DEF TypeInv
<1> QED
  BY <1>1, TypeInit, TypeStep, PTL DEF Spec

----------------------------------------------------------------------------
(* Tokens.                                                                  *)

\* What the daemon looked up stays among the keys its subject was seen with.
LEMMA LookedUpStep == TypeInv /\ LookedUpInv /\ [Next]_vars => LookedUpInv'
<1> SUFFICES ASSUME TypeInv, LookedUpInv, [Next]_vars PROVE LookedUpInv'
  OBVIOUS
<1>1. CASE request' = NoRequest
  BY <1>1 DEF LookedUpInv
<1>2. CASE UNCHANGED vars
  BY <1>2 DEF vars, daemon, LookedUpInv
<1>3. CASE Next /\ request' # NoRequest
  <2>1. seen' = seen \union {Get(request.token.sub)'}
    BY <1>3 DEF Next, Watched
  <2>2. CASE request' = request
    BY <1>3, <2>1, <2>2 DEF LookedUpInv
  <2>3. ASSUME NEW token \in tokens, LookUp(token), UNCHANGED <<reg, data>> PROVE LookedUpInv'
    <3>1. request' = [token |-> token, key |-> Get(token.sub)]
      BY <2>3 DEF LookUp
    <3>2. request'.token = token /\ request'.key = Get(token.sub)
      BY <3>1
    <3>3. Get(request.token.sub)' = Get(token.sub)
      BY <2>3, <3>2 DEF Get
    <3> QED
      BY <2>1, <3>2, <3>3 DEF LookedUpInv
  <2>4. ~Verify
    BY <1>3 DEF Verify
  <2> QED
    BY <1>3, <2>2, <2>3, <2>4, NextCases
<1> QED
  BY <1>1, <1>2, <1>3

\* The daemon's answer is about the key it looked up and the time it has come to.
LEMMA ExactStep == TypeInv /\ LookedUpInv /\ TokensExact /\ [Next]_vars => TokensExact'
<1> SUFFICES ASSUME TypeInv, LookedUpInv, TokensExact, [Next]_vars PROVE TokensExact'
  OBVIOUS
<1>1. CASE answer' = answer
  BY <1>1 DEF TokensExact
<1>2. CASE Verify
  <2>1. /\ request \in Request /\ request.token \in Token
        /\ request.token.at \in Nat /\ request.token.ttl \in Nat /\ now \in Nat
    <3>1. request \in Request /\ now \in 0..MaxTime
      BY <1>2 DEF Verify, TypeInv, TypeOK
    <3>2. request.token \in Token
      BY <3>1 DEF Request
    <3>3. request.token.at \in 0..MaxTime /\ request.token.ttl \in Ttls
      BY <3>2 DEF Token
    <3>4. Ttls \subseteq Nat
      BY IdentitiesAssumption
    <3>5. \A i \in 0..MaxTime : i \in Nat
      OBVIOUS
    <3> QED
      BY <3>1, <3>2, <3>3, <3>4, <3>5
  <2>2. request.key \in seen
    BY <1>2 DEF Verify, LookedUpInv
  <2>3. answer' = [token |-> request.token, ok |-> Verifies, when |-> now, seen |-> seen]
    BY <1>2 DEF Verify
  <2> DEFINE t == request.token
  <2>4. Verifies <=> request.key = t.key /\ ~(now >= t.at + t.ttl)
    BY DEF Verifies, IsExpired, Expired
  <2>5. IF Verifies THEN t.key \in seen /\ now < t.at + t.ttl ELSE now >= t.at + t.ttl \/ seen # {t.key}
    BY <2>1, <2>2, <2>4
  <2>6. answer'.token = t /\ answer'.ok = Verifies /\ answer'.when = now /\ answer'.seen = seen
    BY <2>3
  <2> HIDE DEF t
  <2> QED
    BY <2>5, <2>6 DEF TokensExact
<1>3. answer' = answer \/ Verify
  <2>1. CASE UNCHANGED vars
    BY <2>1 DEF vars, daemon
  <2>2. CASE Next
    BY <2>2, NextCases DEF LookUp
  <2> QED
    BY <2>1, <2>2
<1> QED
  BY <1>1, <1>2, <1>3

\* caller_from takes a token exactly while it lasts and its key is on file.
THEOREM TokensAreExact == Spec => []TokensExact
<1>1. Init => LookedUpInv /\ TokensExact
  BY DEF Init, LookedUpInv, TokensExact
<1> QED
  BY <1>1, TypeInit, TypeStep, LookedUpStep, ExactStep, PTL DEF Spec

----------------------------------------------------------------------------
(* Sealed values.                                                           *)

\* No command changes what a sealed entry says of its seal.
LEMMA SealsStep == TypeInv /\ SealsInv /\ [Next]_vars => SealsInv'
<1> SUFFICES ASSUME TypeInv, SealsInv, [Next]_vars PROVE SealsInv'
  OBVIOUS
<1>0. snaps \subseteq Tree /\ tip \in snaps /\ seals \in Seq(SealOf)
  BY DEF TypeInv, TypeOK, SealOf
<1>1. CASE UNCHANGED <<snaps, seals>>
  BY <1>1 DEF SealsInv
<1>2. ASSUME NEW s \in Spellings, NEW names \in SUBSET Names, Seal(s, names) PROVE SealsInv'
  <2> DEFINE whose == [n \in names |-> Get(n)]
             recipients == {Get(n) : n \in names}
             p == Canonical(s)
  <2>1. recipients = {whose[m] : m \in DOMAIN whose}
    OBVIOUS
  <2>2. /\ p \in Paths /\ [typed |-> s, whose |-> whose] \in SealOf
        /\ tip' = [tip EXCEPT ![p] = [kind |-> "sealed", what |-> Len(seals) + 1, aad |-> s, for |-> recipients]]
        /\ snaps' = snaps \union {tip'}
        /\ seals' = Append(seals, [typed |-> s, whose |-> whose])
    BY <1>2, SealStep
  <2> HIDE DEF whose, recipients, p
  <2> DEFINE seal == [typed |-> s, whose |-> whose]
             entry == [kind |-> "sealed", what |-> Len(seals) + 1, aad |-> s, for |-> recipients]
  <2>3. /\ seal.typed = s /\ seal.whose = whose
        /\ entry.what = Len(seals) + 1 /\ entry.aad = s /\ entry.for = recipients
    OBVIOUS
  <2> HIDE DEF seal, entry
  <2>4. /\ Len(seals) \in Nat /\ Len(seals') = Len(seals) + 1
        /\ \A i \in 1..Len(seals) : seals'[i] = seals[i]
        /\ seals'[Len(seals) + 1] = seal
    BY <1>0, <2>2, AppendProperties, LenProperties DEF seal
  <2> SUFFICES ASSUME NEW t \in snaps', NEW q \in Paths, t[q] \in Sealed
               PROVE  /\ t[q].what \in 1..Len(seals')
                      /\ t[q].aad = seals'[t[q].what].typed
                      /\ t[q].for = {seals'[t[q].what].whose[m] : m \in DOMAIN seals'[t[q].what].whose}
    BY DEF SealsInv
  <2>5. CASE \E u \in snaps : t[q] = u[q]
    <3>1. /\ t[q].what \in 1..Len(seals)
          /\ t[q].aad = seals[t[q].what].typed
          /\ t[q].for = {seals[t[q].what].whose[m] : m \in DOMAIN seals[t[q].what].whose}
      BY <2>5 DEF SealsInv
    <3>2. t[q].what \in 1..Len(seals') /\ seals'[t[q].what] = seals[t[q].what]
      BY <2>4, <3>1
    <3> QED
      BY <3>1, <3>2
  <2>6. CASE t[q] = entry
    <3>1. t[q].what = Len(seals) + 1 /\ seals'[t[q].what] = seal
      BY <2>3, <2>4, <2>6
    <3>2. t[q].what \in 1..Len(seals')
      BY <2>4, <3>1
    <3> QED
      BY <2>1, <2>3, <2>6, <3>1, <3>2
  <2>7. t \in snaps \/ t = [tip EXCEPT ![p] = entry]
    BY <2>2 DEF entry
  <2> QED
    BY <1>0, <2>5, <2>6, <2>7 DEF Tree
<1>3. ASSUME NEW tree \in snaps, NEW key, Restore(tree, key) PROVE SealsInv'
  BY <1>1, <1>3, RestoreStep DEF TypeInv
<1>4. ASSUME Snap PROVE SealsInv'
  <2>1. /\ snaps' = snaps \union {tip'} /\ seals' = seals
        /\ \A p \in Paths : tip'[p] = NoEntry \/ tip'[p] \in Plain
    BY <1>4, SnapStep DEF TypeInv
  <2>2. \A p \in Paths : tip'[p] \notin Sealed
    BY <2>1, AbsenceIsNothing DEF Plain, Sealed
  <2> QED
    BY <2>1, <2>2 DEF SealsInv
<1>5. Sealing \/ UNCHANGED <<snaps, seals>>
  BY NextCases DEF vars, trees
<1> QED
  BY <1>1, <1>2, <1>3, <1>4, <1>5 DEF Sealing

\* A directory or a snapshot holds a plaintext only when somebody opened it.
LEMMA OpenedStep == TypeInv /\ SealsInv /\ PlainOnlyIfOpened /\ [Next]_vars => PlainOnlyIfOpened'
<1> SUFFICES ASSUME TypeInv, SealsInv, PlainOnlyIfOpened, [Next]_vars PROVE PlainOnlyIfOpened'
  OBVIOUS
<1>0. snaps \subseteq Tree /\ tip \in snaps
  BY DEF TypeInv, TypeOK
<1>1. CASE UNCHANGED <<snaps, disk, opened>>
  BY <1>1 DEF PlainOnlyIfOpened
<1>2. ASSUME NEW s \in Spellings, NEW names \in SUBSET Names, Seal(s, names) PROVE PlainOnlyIfOpened'
  <2>1. PICK p \in Paths, entry \in Sealed :
          tip' = [tip EXCEPT ![p] = entry] /\ snaps' = snaps \union {tip'} /\ UNCHANGED <<disk, opened>>
    BY <1>2, SealStep, Zenon
  <2>2. entry \notin Plain
    BY DEF Plain, Sealed
  <2>3. \A q \in Paths : tip'[q] \in Plain => tip'[q] = tip[q]
    BY <1>0, <2>1, <2>2 DEF Tree
  <2> QED
    BY <1>0, <2>1, <2>3 DEF PlainOnlyIfOpened
<1>3. ASSUME NEW tree \in snaps, NEW key, Restore(tree, key) PROVE PlainOnlyIfOpened'
  <2>1. /\ UNCHANGED snaps /\ opened \subseteq opened'
        /\ \A p \in Paths : disk'[p] # 0 => /\ tree[p] # NoEntry /\ disk'[p] = tree[p].what
                                            /\ Renders(tree, p, key)
        /\ \A p \in Paths : /\ disk'[p] # 0 /\ tree[p] \in Sealed
                            /\ \E m \in DOMAIN seals[tree[p].what].whose :
                                 seals[tree[p].what].whose[m] = key
                            => tree[p].what \in opened'
    BY <1>3, RestoreStep DEF TypeInv
  <2>2. ASSUME NEW p \in Paths, disk'[p] # 0 PROVE disk'[p] \in opened'
    <3>1. tree[p] \in Plain \/ Unseal(tree[p], key, p)
      BY <1>0, <2>1, <2>2, EntryType DEF Renders
    <3>2. CASE tree[p] \in Plain
      BY <2>1, <2>2, <3>2 DEF PlainOnlyIfOpened
    <3>3. CASE Unseal(tree[p], key, p)
      <4>1. tree[p] \in Sealed /\ key \in tree[p].for
        BY <1>0, <3>3, EntryType DEF Unseal, Opens
      <4>2. \E m \in DOMAIN seals[tree[p].what].whose : seals[tree[p].what].whose[m] = key
        BY <4>1 DEF SealsInv
      <4> QED
        BY <2>1, <2>2, <4>1, <4>2
    <3> QED
      BY <3>1, <3>2, <3>3
  <2> QED
    BY <2>1, <2>2 DEF PlainOnlyIfOpened
<1>4. ASSUME Snap PROVE PlainOnlyIfOpened'
  <2>1. /\ snaps' = snaps \union {tip'} /\ UNCHANGED <<disk, opened>>
        /\ \A p \in Paths : \/ tip'[p] = NoEntry
                            \/ disk[p] # 0 /\ tip'[p] \in Plain /\ tip'[p].what = disk[p]
    BY <1>4, SnapStep DEF TypeInv
  <2>2. \A p \in Paths : tip'[p] \in Plain => tip'[p].what \in opened'
    BY <2>1, AbsenceIsNothing DEF PlainOnlyIfOpened
  <2> QED
    BY <2>1, <2>2 DEF PlainOnlyIfOpened
<1>5. Sealing \/ UNCHANGED <<snaps, disk, opened>>
  BY NextCases DEF vars, trees
<1> QED
  BY <1>1, <1>2, <1>3, <1>4, <1>5 DEF Sealing

\* In a fresh repository nothing is sealed, and nothing opened.
LEMMA SealsInit == Init => SealsInv /\ PlainOnlyIfOpened
BY AbsenceIsNothing DEF Init, SealsInv, PlainOnlyIfOpened, Bare

\* cmd_restore and the snap set no sealed value free before a recipient opened it.
THEOREM PlainOnceOpened == Spec => []PlainOnlyIfOpened
BY TypeInit, TypeStep, SealsInit, SealsStep, OpenedStep, PTL DEF Spec

\* do_unseal opens an entry for the keys it was sealed for and no others.
LEMMA HoldersOpen == TypeInv /\ SealsInv => SealedForHolders
<1> SUFFICES ASSUME TypeInv, SealsInv, NEW p \in Paths, tip[p] \in Sealed, NEW n \in Names
             PROVE  LET seal == seals[tip[p].what]
                        Holds == \E m \in DOMAIN seal.whose : seal.whose[m] = Get(n)
                    IN /\ \A s \in Spellings : Canonical(s) = p => (Reveals(s, n) <=> Holds /\ s = seal.typed)
                       /\ Renders(tip, p, Get(n)) <=> Holds /\ p = seal.typed
  BY DEF SealedForHolders
<1> DEFINE seal == seals[tip[p].what]
           Holds == \E m \in DOMAIN seal.whose : seal.whose[m] = Get(n)
<1>1. tip[p].aad = seal.typed /\ tip[p].for = {seal.whose[m] : m \in DOMAIN seal.whose}
  BY DEF TypeInv, TypeOK, SealsInv
<1>2. tip[p] # NoEntry /\ tip[p].kind = "sealed"
  BY AbsenceIsNothing DEF Sealed
<1>3. Get(n) \in tip[p].for <=> Holds
  BY <1>1
<1>4. \A path : Unseal(tip[p], Get(n), path) <=> Holds /\ path = seal.typed
  BY <1>1, <1>2, <1>3 DEF Unseal, Opens
<1> HIDE DEF seal, Holds
<1>5. Renders(tip, p, Get(n)) <=> Holds /\ p = seal.typed
  BY <1>2, <1>4 DEF Renders
<1>6. \A s \in Spellings : Canonical(s) = p => (Reveals(s, n) <=> Holds /\ s = seal.typed)
  BY <1>4 DEF Reveals
<1> QED
  BY <1>5, <1>6 DEF seal, Holds

\* A sealed value is for those it was sealed for while they have the same key.
THEOREM SealedForItsHolders == Spec => []SealedForHolders
BY TypeInit, TypeStep, SealsInit, SealsStep, HoldersOpen, PTL DEF Spec

----------------------------------------------------------------------------
(* Records: put_new checks outside the lock, and a name has one tempfile.   *)

\* A step of one process is of no other, and keeps its name.
LEMMA GoesProc ==
  ASSUME TypeOK, NEW p \in Procs, proc[p].pc # "idle", NEW at, NEW key, NEW fd, Goes(p, at, key, fd)
  PROVE  /\ \A q \in Procs : q # p => proc'[q] = proc[q]
         /\ \A q \in Procs : proc'[q].name = proc[q].name
         /\ proc'[p].pc = at /\ proc'[p].key = key /\ proc'[p].fd = fd
         /\ \A n \in Names : Creating(n)' = IF at = "idle" THEN Creating(n) \ {p} ELSE Creating(n)
<1>1. /\ \A q \in Procs : q # p => proc'[q] = proc[q]
      /\ \A q \in Procs : proc'[q].name = proc[q].name
      /\ proc'[p].pc = at /\ proc'[p].key = key /\ proc'[p].fd = fd
  BY DEF TypeOK, Goes
<1>2. ASSUME NEW n \in Names
      PROVE  Creating(n)' = IF at = "idle" THEN Creating(n) \ {p} ELSE Creating(n)
  <2>1. Creating(n)' = {q \in Procs : proc'[q].pc # "idle" /\ proc[q].name = n}
    BY <1>1 DEF Creating
  <2>2. \A q \in Procs : proc'[q].pc # "idle" <=> IF q = p THEN at # "idle" ELSE proc[q].pc # "idle"
    BY <1>1
  <2> QED
    BY <2>1, <2>2 DEF Creating
<1> QED
  BY <1>1, <1>2

\* A name that gets no new file keeps to its own.
LEMMA ApartKept ==
  ASSUME ApartInv, keys' = keys, \A n \in Names : Inodes(n)' \subseteq Inodes(n)
  PROVE  ApartInv'
BY DEF ApartInv

\* What a file of a name is.
LEMMA InodesAre ==
  ASSUME NEW n \in Names, NEW i
  PROVE  i \in Inodes(n) <=>
           i # 0 /\ (i = reg[n] \/ i = temp[n] \/ \E p \in Creating(n) : i = proc[p].key \/ i = proc[p].fd)
BY DEF Inodes

\* put_new: a fresh key, and no record of that name.
LEMMA CheckStep ==
  ASSUME TypeInv, FilesInv, NEW p \in Procs, NEW m \in Names, Check(p, m)
  PROVE  FilesInv'
<1>1. /\ proc[p].pc = "idle" /\ reg[m] = 0 /\ keys' = keys + 1
      /\ proc' = [proc EXCEPT ![p] = [pc |-> "create", name |-> m, key |-> keys + 1, fd |-> 0]]
      /\ clashed' = [clashed EXCEPT ![m] = clashed[m] \/ Creating(m) # {}]
      /\ UNCHANGED <<reg, temp, data, reported>>
  BY DEF Check, CheckNew
<1>2. keys \in Nat
  BY IdentitiesAssumption DEF TypeInv, TypeOK
<1>3. /\ \A q \in Procs : q # p => proc'[q] = proc[q]
      /\ proc'[p].pc = "create" /\ proc'[p].name = m /\ proc'[p].key = keys + 1 /\ proc'[p].fd = 0
  BY <1>1 DEF TypeInv, TypeOK
<1>4. \A n \in Names : Creating(n)' = IF n = m THEN Creating(n) \union {p} ELSE Creating(n)
  BY <1>1, <1>3 DEF Creating
<1>5. \A n \in Names : p \notin Creating(n)
  BY <1>1 DEF Creating
<1>6. StandsInv'
  BY <1>2, <1>3 DEF FilesInv, StandsInv
<1>7. ApartInv'
  <2>1. ASSUME NEW n \in Names, NEW i \in Inodes(n)'
        PROVE  i \in Inodes(n) \/ (n = m /\ i = keys + 1)
    <3>1. i # 0 /\ (i = reg'[n] \/ i = temp'[n] \/ \E q \in Creating(n)' : i = proc'[q].key \/ i = proc'[q].fd)
      BY <2>1 DEF Inodes
    <3>2. CASE i = reg'[n] \/ i = temp'[n]
      BY <1>1, <3>1, <3>2, InodesAre
    <3>3. ASSUME NEW q \in Creating(n)', i = proc'[q].key \/ i = proc'[q].fd
          PROVE  i \in Inodes(n) \/ (n = m /\ i = keys + 1)
      <4>1. CASE q = p
        BY <1>3, <1>4, <1>5, <3>1, <3>3, <4>1
      <4>2. CASE q # p
        <5>1. q \in Creating(n) /\ q \in Procs
          BY <1>4, <3>3, <4>2 DEF Creating
        <5> QED
          BY <1>3, <3>1, <3>3, <4>2, <5>1, InodesAre
      <4> QED
        BY <4>1, <4>2
    <3> QED
      BY <3>1, <3>2, <3>3
  <2>2. \A n \in Names : \A i \in Inodes(n) : i \in 1..keys
    BY DEF FilesInv, ApartInv
  <2>3. \A n \in Names : Inodes(n)' \subseteq 1..keys'
    BY <1>1, <1>2, <2>1, <2>2
  <2>4. ASSUME NEW n \in Names, NEW k \in Names, n # k PROVE Inodes(n)' \intersect Inodes(k)' = {}
    BY <1>2, <2>1, <2>2, <2>4 DEF FilesInv, ApartInv
  <2> QED
    BY <2>3, <2>4 DEF ApartInv
<1>8. AloneInv'
  <2> SUFFICES ASSUME NEW n \in Names
               PROVE  /\ reg'[n] = 0 <=> reported'[n] = 0
                      /\ ~clashed'[n] =>
                           /\ \A q, r \in Creating(n)' : q = r
                           /\ \A q \in Creating(n)' :
                                /\ reg'[n] = 0
                                /\ proc'[q].pc \in {"write", "rename"} => proc'[q].fd = temp'[n]
                                /\ proc'[q].pc = "rename" => data'[temp'[n]] = proc'[q].key
    BY DEF AloneInv
  <2>1. reg'[n] = 0 <=> reported'[n] = 0
    BY <1>1 DEF FilesInv, AloneInv
  <2>2. CASE n = m /\ ~clashed'[n]
    <3>1. Creating(n) = {}
      BY <1>1, <2>2 DEF TypeInv, TypeOK
    <3>2. Creating(n)' = {p}
      BY <1>4, <2>2, <3>1
    <3> QED
      BY <1>1, <1>3, <2>1, <2>2, <3>2
  <2>3. CASE n # m
    <3>1. clashed'[n] = clashed[n]
      BY <1>1, <2>3 DEF TypeInv, TypeOK
    <3>2. Creating(n)' = Creating(n)
      BY <1>4, <2>3
    <3>3. \A q \in Creating(n) : proc'[q] = proc[q]
      BY <1>3, <1>5 DEF Creating
    <3> QED
      BY <1>1, <2>1, <3>1, <3>2, <3>3 DEF FilesInv, AloneInv
  <2> QED
    BY <2>1, <2>2, <2>3
<1>9. IdentityKept'
  <2> SUFFICES ASSUME NEW n \in Names, reported'[n] # 0, ~clashed'[n] PROVE Get(n)' = reported'[n]
    BY DEF IdentityKept
  <2>1. n # m
    BY <1>1 DEF FilesInv, AloneInv
  <2>2. ~clashed[n]
    BY <1>1, <2>1 DEF TypeInv, TypeOK
  <2> QED
    BY <1>1, <2>2 DEF FilesInv, IdentityKept, Get
<1> QED
  BY <1>6, <1>7, <1>8, <1>9 DEF FilesInv

\* What the invariant says of another name's files: nothing of n's is written to.
LEMMA NotAnothers ==
  ASSUME ApartInv, NEW n \in Names, NEW m \in Names, n # m, NEW i \in Inodes(m)
  PROVE  reg[n] # i /\ temp[n] # i
BY DEF ApartInv, Inodes

\* File::create: the tempfile is the name's own, made or emptied.
LEMMA CreateStep ==
  ASSUME TypeInv, FilesInv, NEW p \in Procs, Create(p)
  PROVE  FilesInv'
<1> DEFINE m == proc[p].name
           inode == IF temp[m] = 0 THEN proc[p].key ELSE temp[m]
<1>1. /\ proc[p].pc = "create" /\ Goes(p, "write", proc[p].key, inode)
      /\ temp' = [temp EXCEPT ![m] = inode] /\ data' = [data EXCEPT ![inode] = 0]
      /\ UNCHANGED <<keys, reg, reported, clashed>>
  BY DEF Create
<1>2. m \in Names /\ p \in Creating(m) /\ proc[p].key # 0
  BY <1>1 DEF TypeInv, TypeOK, FilesInv, StandsInv, Creating
<1>3. inode \in Inodes(m)
  BY <1>2, InodesAre
<1> HIDE DEF m, inode
<1>4. /\ \A q \in Procs : q # p => proc'[q] = proc[q]
      /\ proc'[p].pc = "write" /\ proc'[p].key = proc[p].key /\ proc'[p].fd = inode
      /\ \A n \in Names : Creating(n)' = Creating(n)
  BY <1>1, GoesProc DEF TypeInv
<1>5. inode # 0
  BY <1>2, <1>3, InodesAre
<1>6. \A n \in Names : temp'[n] = IF n = m THEN inode ELSE temp[n]
  BY <1>1 DEF TypeInv, TypeOK
<1>7. \A i \in Keys : i # inode => data'[i] = data[i]
  BY <1>1 DEF TypeInv, TypeOK
<1>8. \A n \in Names : \A q \in Creating(n) : q = p => n = m
  BY DEF Creating, m
<1>9. StandsInv'
  BY <1>1, <1>4, <1>5 DEF FilesInv, StandsInv
<1>10. ApartInv'
  <2>1. ASSUME NEW n \in Names, NEW i \in Inodes(n)' PROVE i \in Inodes(n)
    <3>1. i # 0 /\ (i = reg'[n] \/ i = temp'[n] \/ \E q \in Creating(n)' : i = proc'[q].key \/ i = proc'[q].fd)
      BY <2>1 DEF Inodes
    <3>2. CASE i = reg'[n] \/ i = temp'[n]
      BY <1>1, <1>3, <1>6, <3>1, <3>2, InodesAre
    <3>3. ASSUME NEW q \in Creating(n), i = proc'[q].key \/ i = proc'[q].fd PROVE i \in Inodes(n)
      BY <1>3, <1>4, <1>8, <3>1, <3>3, InodesAre DEF Creating
    <3> QED
      BY <1>4, <3>1, <3>2, <3>3
  <2> QED
    BY <1>1, <2>1, ApartKept DEF FilesInv
<1>11. AloneInv'
  <2> SUFFICES ASSUME NEW n \in Names
               PROVE  /\ reg'[n] = 0 <=> reported'[n] = 0
                      /\ ~clashed'[n] =>
                           /\ \A q, r \in Creating(n)' : q = r
                           /\ \A q \in Creating(n)' :
                                /\ reg'[n] = 0
                                /\ proc'[q].pc \in {"write", "rename"} => proc'[q].fd = temp'[n]
                                /\ proc'[q].pc = "rename" => data'[temp'[n]] = proc'[q].key
    BY DEF AloneInv
  <2>1. /\ reg'[n] = 0 <=> reported'[n] = 0
        /\ ~clashed'[n] => \A q, r \in Creating(n)' : q = r
        /\ ~clashed'[n] => \A q \in Creating(n)' : reg'[n] = 0
    BY <1>1, <1>4 DEF FilesInv, AloneInv
  <2>2. ASSUME NEW q \in Creating(n), ~clashed[n], n = m
        PROVE  proc'[q].pc = "write" /\ proc'[q].fd = temp'[n]
    <3>1. q = p
      BY <1>2, <2>2 DEF FilesInv, AloneInv
    <3> QED
      BY <1>4, <1>6, <2>2, <3>1
  <2>3. ASSUME NEW q \in Creating(n), ~clashed[n], n # m
        PROVE  /\ proc'[q].pc \in {"write", "rename"} => proc'[q].fd = temp'[n]
               /\ proc'[q].pc = "rename" => data'[temp'[n]] = proc'[q].key
    <3>1. q # p /\ proc'[q] = proc[q]
      BY <1>4, <1>8, <2>3 DEF Creating
    <3>2. temp'[n] = temp[n] /\ temp[n] # inode
      BY <1>2, <1>3, <1>6, <2>3, NotAnothers DEF FilesInv
    <3>3. proc[q].pc = "rename" => temp[n] \in Keys
      BY <2>3 DEF FilesInv, AloneInv, StandsInv, Creating, TypeInv, TypeOK, Keys
    <3> QED
      BY <1>7, <2>3, <3>1, <3>2, <3>3 DEF FilesInv, AloneInv
  <2> QED
    BY <1>1, <1>4, <2>1, <2>2, <2>3
<1>12. IdentityKept'
  <2> SUFFICES ASSUME NEW n \in Names, reported'[n] # 0, ~clashed'[n] PROVE Get(n)' = reported'[n]
    BY DEF IdentityKept
  <2>1. n # m /\ reg[n] # 0
    BY <1>1, <1>2 DEF FilesInv, AloneInv
  <2>2. reg[n] # inode /\ reg[n] \in Keys
    BY <1>2, <1>3, <2>1, NotAnothers DEF FilesInv, TypeInv, TypeOK, Keys
  <2> QED
    BY <1>1, <1>7, <2>2 DEF FilesInv, IdentityKept, Get
<1> QED
  BY <1>9, <1>10, <1>11, <1>12 DEF FilesInv

\* The record is written to the file created, whoever's it is by now.
LEMMA WriteStep ==
  ASSUME TypeInv, FilesInv, NEW p \in Procs, Write(p)
  PROVE  FilesInv'
<1> DEFINE m == proc[p].name
           inode == proc[p].fd
<1>1. /\ proc[p].pc = "write" /\ Goes(p, "rename", proc[p].key, inode)
      /\ data' = [data EXCEPT ![inode] = proc[p].key]
      /\ UNCHANGED <<keys, reg, temp, reported, clashed>>
  BY DEF Write
<1>2. m \in Names /\ p \in Creating(m) /\ inode # 0 /\ inode \in Keys
  BY <1>1 DEF TypeInv, TypeOK, FilesInv, StandsInv, Creating, Keys
<1>3. inode \in Inodes(m)
  BY <1>2, InodesAre
<1> HIDE DEF m, inode
<1>4. /\ \A q \in Procs : q # p => proc'[q] = proc[q]
      /\ proc'[p].pc = "rename" /\ proc'[p].key = proc[p].key /\ proc'[p].fd = proc[p].fd
      /\ \A n \in Names : Creating(n)' = Creating(n)
  BY <1>1, GoesProc DEF TypeInv, inode
<1>7. /\ \A i \in Keys : i # inode => data'[i] = data[i]
      /\ data'[inode] = proc[p].key
  BY <1>1, <1>2 DEF TypeInv, TypeOK
<1>8. \A n \in Names : \A q \in Creating(n) : q = p => n = m
  BY DEF Creating, m
<1>9. StandsInv'
  BY <1>1, <1>4 DEF FilesInv, StandsInv
<1>10. ApartInv'
  <2>1. ASSUME NEW n \in Names, NEW i \in Inodes(n)' PROVE i \in Inodes(n)
    <3>1. i # 0 /\ (i = reg'[n] \/ i = temp'[n] \/ \E q \in Creating(n)' : i = proc'[q].key \/ i = proc'[q].fd)
      BY <2>1 DEF Inodes
    <3>2. \A q \in Creating(n) : proc'[q].key = proc[q].key /\ proc'[q].fd = proc[q].fd
      BY <1>4 DEF Creating
    <3> QED
      BY <1>1, <1>4, <3>1, <3>2, InodesAre
  <2> QED
    BY <1>1, <2>1, ApartKept DEF FilesInv
<1>11. AloneInv'
  <2> SUFFICES ASSUME NEW n \in Names
               PROVE  /\ reg'[n] = 0 <=> reported'[n] = 0
                      /\ ~clashed'[n] =>
                           /\ \A q, r \in Creating(n)' : q = r
                           /\ \A q \in Creating(n)' :
                                /\ reg'[n] = 0
                                /\ proc'[q].pc \in {"write", "rename"} => proc'[q].fd = temp'[n]
                                /\ proc'[q].pc = "rename" => data'[temp'[n]] = proc'[q].key
    BY DEF AloneInv
  <2>1. /\ reg'[n] = 0 <=> reported'[n] = 0
        /\ ~clashed'[n] => \A q, r \in Creating(n)' : q = r
        /\ ~clashed'[n] => \A q \in Creating(n)' : reg'[n] = 0
    BY <1>1, <1>4 DEF FilesInv, AloneInv
  <2>2. ASSUME NEW q \in Creating(n), ~clashed[n], n = m
        PROVE  proc'[q].fd = temp'[n] /\ data'[temp'[n]] = proc'[q].key
    <3>1. q = p
      BY <1>2, <2>2 DEF FilesInv, AloneInv
    <3>2. inode = temp[n]
      BY <1>1, <1>2, <2>2 DEF FilesInv, AloneInv, inode
    <3> QED
      BY <1>1, <1>4, <1>7, <3>1, <3>2 DEF inode
  <2>3. ASSUME NEW q \in Creating(n), ~clashed[n], n # m
        PROVE  /\ proc'[q].pc \in {"write", "rename"} => proc'[q].fd = temp'[n]
               /\ proc'[q].pc = "rename" => data'[temp'[n]] = proc'[q].key
    <3>1. q # p /\ proc'[q] = proc[q]
      BY <1>4, <1>8, <2>3 DEF Creating
    <3>2. temp'[n] = temp[n] /\ temp[n] # inode
      BY <1>1, <1>2, <1>3, <2>3, NotAnothers DEF FilesInv
    <3>3. proc[q].pc = "rename" => temp[n] \in Keys
      BY <2>3 DEF FilesInv, AloneInv, StandsInv, Creating, TypeInv, TypeOK, Keys
    <3> QED
      BY <1>7, <2>3, <3>1, <3>2, <3>3 DEF FilesInv, AloneInv
  <2> QED
    BY <1>1, <1>4, <2>1, <2>2, <2>3
<1>12. IdentityKept'
  <2> SUFFICES ASSUME NEW n \in Names, reported'[n] # 0, ~clashed'[n] PROVE Get(n)' = reported'[n]
    BY DEF IdentityKept
  <2>1. n # m /\ reg[n] # 0
    BY <1>1, <1>2 DEF FilesInv, AloneInv
  <2>2. reg[n] # inode /\ reg[n] \in Keys
    BY <1>2, <1>3, <2>1, NotAnothers DEF FilesInv, TypeInv, TypeOK, Keys
  <2> QED
    BY <1>1, <1>7, <2>2 DEF FilesInv, IdentityKept, Get
<1> QED
  BY <1>9, <1>10, <1>11, <1>12 DEF FilesInv

\* A process that goes away, with its name's files as they are, leaves them to no other name.
LEMMA LeaveApart ==
  ASSUME TypeInv, ApartInv, NEW p \in Procs, proc[p].pc # "idle", Leave(p), keys' = keys,
         \A n \in Names : {reg'[n], temp'[n]} \subseteq {reg[n], temp[n], 0}
  PROVE  ApartInv'
<1>1. /\ \A q \in Procs : q # p => proc'[q] = proc[q]
      /\ \A n \in Names : Creating(n)' = Creating(n) \ {p}
  BY GoesProc DEF Leave, TypeInv
<1>2. ASSUME NEW n \in Names, NEW i \in Inodes(n)' PROVE i \in Inodes(n)
  <2>1. i # 0 /\ (i = reg'[n] \/ i = temp'[n] \/ \E q \in Creating(n)' : i = proc'[q].key \/ i = proc'[q].fd)
    BY <1>2 DEF Inodes
  <2>2. \A q \in Creating(n)' : q \in Creating(n) /\ proc'[q] = proc[q]
    BY <1>1 DEF Creating
  <2> QED
    BY <2>1, <2>2, InodesAre
<1> QED
  BY <1>2, ApartKept

\* rename(2): with one process at the name, the tempfile holds its own record.
LEMMA RenameStep ==
  ASSUME TypeInv, FilesInv, NEW p \in Procs, Rename(p)
  PROVE  FilesInv'
<1> DEFINE m == proc[p].name
<1>1. /\ proc[p].pc = "rename" /\ Leave(p) /\ UNCHANGED <<keys, data, clashed>>
      /\ \/ /\ temp[m] # 0
            /\ reg' = [reg EXCEPT ![m] = temp[m]] /\ temp' = [temp EXCEPT ![m] = 0]
            /\ reported' = [reported EXCEPT ![m] = IF reported[m] = 0 THEN proc[p].key ELSE reported[m]]
         \/ UNCHANGED <<reg, temp, reported>>
  BY DEF Rename
<1>2. m \in Names /\ p \in Creating(m) /\ proc[p].key # 0
  BY <1>1 DEF TypeInv, TypeOK, FilesInv, StandsInv, Creating
<1> HIDE DEF m
<1>3. /\ \A q \in Procs : q # p => proc'[q] = proc[q]
      /\ proc'[p].pc = "idle"
      /\ \A n \in Names : Creating(n)' = Creating(n) \ {p}
  BY <1>1, GoesProc DEF Leave, TypeInv
<1>4. \A n \in Names : n # m => reg'[n] = reg[n] /\ temp'[n] = temp[n] /\ reported'[n] = reported[n]
  BY <1>1 DEF TypeInv, TypeOK
<1>5. \/ temp[m] # 0 /\ reg'[m] = temp[m] /\ temp'[m] = 0
         /\ reported'[m] = IF reported[m] = 0 THEN proc[p].key ELSE reported[m]
      \/ reg'[m] = reg[m] /\ temp'[m] = temp[m] /\ reported'[m] = reported[m]
  BY <1>1, <1>2 DEF TypeInv, TypeOK
<1>6. ~clashed[m] => Creating(m) = {p}
  BY <1>2 DEF FilesInv, AloneInv
<1>7. StandsInv'
  BY <1>3 DEF FilesInv, StandsInv
<1>8. ApartInv'
  <2>1. \A n \in Names : {reg'[n], temp'[n]} \subseteq {reg[n], temp[n], 0}
    BY <1>4, <1>5
  <2> QED
    BY <1>1, <2>1, LeaveApart DEF FilesInv
<1>9. AloneInv'
  <2> SUFFICES ASSUME NEW n \in Names
               PROVE  /\ reg'[n] = 0 <=> reported'[n] = 0
                      /\ ~clashed'[n] =>
                           /\ \A q, r \in Creating(n)' : q = r
                           /\ \A q \in Creating(n)' :
                                /\ reg'[n] = 0
                                /\ proc'[q].pc \in {"write", "rename"} => proc'[q].fd = temp'[n]
                                /\ proc'[q].pc = "rename" => data'[temp'[n]] = proc'[q].key
    BY DEF AloneInv
  <2>1. CASE n = m
    <3>1. reg'[n] = 0 <=> reported'[n] = 0
      BY <1>2, <1>5, <2>1 DEF FilesInv, AloneInv
    <3>2. ~clashed'[n] => Creating(n)' = {}
      BY <1>1, <1>3, <1>6, <2>1
    <3> QED
      BY <3>1, <3>2
  <2>2. CASE n # m
    <3>1. p \notin Creating(n)
      BY <2>2 DEF Creating, m
    <3>2. Creating(n)' = Creating(n) /\ \A q \in Creating(n) : proc'[q] = proc[q]
      BY <1>3, <3>1 DEF Creating
    <3> QED
      BY <1>1, <1>4, <2>2, <3>2 DEF FilesInv, AloneInv
  <2> QED
    BY <2>1, <2>2
<1>10. IdentityKept'
  <2> SUFFICES ASSUME NEW n \in Names, reported'[n] # 0, ~clashed'[n] PROVE Get(n)' = reported'[n]
    BY DEF IdentityKept
  <2>1. CASE n = m
    <3>1. reg[m] = 0 /\ reported[m] = 0 /\ data[temp[m]] = proc[p].key
      BY <1>1, <1>2, <2>1 DEF FilesInv, AloneInv
    <3> QED
      BY <1>1, <1>5, <2>1, <3>1 DEF Get
  <2>2. CASE n # m
    BY <1>1, <1>4, <2>2 DEF FilesInv, IdentityKept, Get
  <2> QED
    BY <2>1, <2>2
<1> QED
  BY <1>7, <1>8, <1>9, <1>10 DEF FilesInv

\* A process killed leaves its tempfile, and the record if there is one.
LEMMA DieStep ==
  ASSUME TypeInv, FilesInv, NEW p \in Procs, Die(p)
  PROVE  FilesInv'
<1>1. /\ proc[p].pc # "idle" /\ Leave(p)
      /\ UNCHANGED <<keys, reg, temp, data, reported, clashed>>
  BY DEF Die
<1>2. /\ \A q \in Procs : q # p => proc'[q] = proc[q]
      /\ proc'[p].pc = "idle"
      /\ \A n \in Names : Creating(n)' = Creating(n) \ {p}
  BY <1>1, GoesProc DEF Leave, TypeInv
<1>3. StandsInv'
  BY <1>2 DEF FilesInv, StandsInv
<1>4. ApartInv'
  BY <1>1, LeaveApart DEF FilesInv
<1>5. AloneInv'
  <2>1. \A n \in Names : \A q \in Creating(n)' : q \in Creating(n) /\ proc'[q] = proc[q]
    BY <1>2 DEF Creating
  <2> QED
    BY <1>1, <2>1 DEF FilesInv, AloneInv
<1>6. IdentityKept'
  BY <1>1 DEF FilesInv, IdentityKept, Get
<1> QED
  BY <1>3, <1>4, <1>5, <1>6 DEF FilesInv

\* Removing the file by hand takes back the report, and clashes with who is at the name.
LEMMA ForgetStep ==
  ASSUME TypeInv, FilesInv, NEW m \in Names, Forget(m)
  PROVE  FilesInv'
<1>1. /\ reg' = [reg EXCEPT ![m] = 0] /\ reported' = [reported EXCEPT ![m] = 0]
      /\ clashed' = [clashed EXCEPT ![m] = Creating(m) # {}]
      /\ UNCHANGED <<keys, temp, data, proc>>
  BY DEF Forget
<1>2. /\ \A n \in Names : n # m => reg'[n] = reg[n] /\ reported'[n] = reported[n]
      /\ reg'[m] = 0 /\ reported'[m] = 0
  BY <1>1 DEF TypeInv, TypeOK
<1>3. /\ \A n \in Names : n # m => clashed'[n] = clashed[n]
      /\ clashed'[m] = (Creating(m) # {})
  BY <1>1, Zenon DEF TypeInv, TypeOK
<1>4. \A n \in Names : Creating(n)' = Creating(n)
  BY <1>1 DEF Creating
<1>5. StandsInv'
  BY <1>1 DEF FilesInv, StandsInv
<1>6. ApartInv'
  <2>1. \A n \in Names : Inodes(n)' \subseteq Inodes(n)
    BY <1>1, <1>2, <1>4 DEF Inodes
  <2> QED
    BY <1>1, <2>1, ApartKept DEF FilesInv
<1>7. AloneInv'
  <2>1. \A n \in Names : reg'[n] = 0 <=> reported'[n] = 0
    BY <1>2 DEF FilesInv, AloneInv
  <2>2. ASSUME NEW n \in Names, ~clashed'[n]
        PROVE  /\ \A q, r \in Creating(n)' : q = r
               /\ \A q \in Creating(n)' :
                    /\ reg'[n] = 0
                    /\ proc'[q].pc \in {"write", "rename"} => proc'[q].fd = temp'[n]
                    /\ proc'[q].pc = "rename" => data'[temp'[n]] = proc'[q].key
    <3>1. CASE n = m
      BY <1>3, <1>4, <2>2, <3>1
    <3>2. CASE n # m
      BY <1>1, <1>2, <1>3, <1>4, <2>2, <3>2 DEF FilesInv, AloneInv
    <3> QED
      BY <3>1, <3>2
  <2> QED
    BY <2>1, <2>2 DEF AloneInv
<1>8. IdentityKept'
  BY <1>1, <1>2, <1>3 DEF FilesInv, IdentityKept, Get
<1> QED
  BY <1>5, <1>6, <1>7, <1>8 DEF FilesInv

\* Tokens, sealed values and the clock leave the records alone.
LEMMA FilesStep == TypeInv /\ FilesInv /\ [Next]_vars => FilesInv'
<1> SUFFICES ASSUME TypeInv, FilesInv, [Next]_vars PROVE FilesInv'
  OBVIOUS
<1>1. CASE Files
  BY <1>1, CheckStep, CreateStep, WriteStep, RenameStep, DieStep, ForgetStep DEF Files
<1>2. CASE UNCHANGED <<keys, reg, temp, data, proc, reported, clashed>>
  <2>1. \A n \in Names : Creating(n)' = Creating(n) /\ Inodes(n)' = Inodes(n)
    BY <1>2 DEF Creating, Inodes
  <2>2. StandsInv' /\ AloneInv' /\ IdentityKept'
    BY <1>2, <2>1 DEF FilesInv, StandsInv, AloneInv, IdentityKept, Get
  <2>3. ApartInv'
    BY <1>2, <2>1 DEF FilesInv, ApartInv
  <2> QED
    BY <2>2, <2>3 DEF FilesInv
<1> QED
  BY <1>1, <1>2, NextCases DEF vars, files

\* No principal, no file.
LEMMA FilesInit == Init => FilesInv
<1> SUFFICES ASSUME Init PROVE FilesInv
  OBVIOUS
<1>1. \A p \in Procs : proc[p].pc = "idle"
  BY DEF Init
<1>2. \A n \in Names : Creating(n) = {} /\ reg[n] = 0 /\ temp[n] = 0 /\ reported[n] = 0
  BY <1>1 DEF Init, Creating
<1>3. \A n \in Names : Inodes(n) = {}
  BY <1>2 DEF Inodes
<1> QED
  BY <1>1, <1>2, <1>3 DEF FilesInv, StandsInv, ApartInv, AloneInv, IdentityKept

\* What `tig identity new` reported is on file until somebody removes it, unless two
\* processes were creating the name at once.
THEOREM IdentityIsKept == Spec => []IdentityKept
<1>1. FilesInv => IdentityKept
  BY DEF FilesInv
<1> QED
  BY <1>1, TypeInit, TypeStep, FilesInit, FilesStep, PTL DEF Spec

=============================================================================
