---------------------------- MODULE ObjectProofs ----------------------------
(***************************************************************************)
(* Proofs about objects.  Only a race with a writer outside the lock makes *)
(* a put fail or shows a reader part of an object, for any number of       *)
(* writers and however many of them die (ObjectPut).  Edits of a tree are  *)
(* edits of a set of files, whatever the names, and diff and blame are     *)
(* right about them (TreeHistory).                                         *)
(***************************************************************************)
EXTENDS ObjectPut, TreeHistory, Integers, FiniteSetTheorems, SequenceTheorems,
        WellFoundedInduction, TLAPS

Named == FileIds \cup {Nobody}
Places == {"idle", "check", "create", "write", "rename", "ok", "failed"}

PutTypes ==
  /\ files \in [FileIds -> SUBSET (1..NParts)]
  /\ nfiles \in 0..MaxFiles
  /\ tmp \in Named /\ (tmp # Nobody => tmp <= nfiles)
  /\ final \in Named /\ (final # Nobody => final <= nfiles)
  /\ lock \in Writers \cup {Nobody}
  /\ pc \in [Writers -> Places]
  /\ fd \in [Writers -> Named]
  /\ pos \in [Writers -> Nat]
  /\ met \in [Writers -> SUBSET Writers]
  /\ spoiled \subseteq FileIds

\* Of the writers that take the lock only its holder is at it,
Exclusive == \A w \in Writers \ Unlocked : pc[w] # "idle" => lock = w

\* so that of two that met one is outside the lock.
Outside == \A w \in Writers : \A v \in met[w] : {v, w} \cap Unlocked # {}

\* Writers that are midway at the same time have met,
Meet == \A v, w \in Writers : v # w /\ Midway(v) /\ Midway(w) => v \in met[w]

\* and one that has met nobody writes the tempfile.
Underway(w) ==
  Midway(w) =>
    /\ fd[w] \in FileIds
    /\ IF pc[w] = "write" THEN pos[w] < NParts ELSE pos[w] = NParts
    /\ tmp # Nobody \/ final # Nobody
    /\ met[w] = {} => fd[w] = tmp

Writing(w, f) == pc[w] = "write" /\ fd[w] = f /\ 1..pos[w] \subseteq files[f]

\* A file that is not whole is being written from its start by somebody, or
\* somebody died writing it: one that had raced, or one that was alone, in
\* which case it is still the tempfile and will be emptied before it is used.
Accounted(f) ==
  \/ Whole(f)
  \/ f \in spoiled
  \/ f = tmp /\ \A w \in Writers : ~ Midway(w)
  \/ \E w \in Writers : Writing(w, f)

PutInv ==
  /\ PutTypes
  /\ Exclusive
  /\ Outside
  /\ Meet
  /\ \A w \in Writers : Underway(w)
  /\ \A w \in Writers : pc[w] = "failed" => final # Nobody /\ met[w] # {}
  /\ final # Nobody => final # tmp
  /\ \A f \in 1..nfiles : Accounted(f)

\* Nobody is no file and no writer.
LEMMA NobodyIsNoFile == FileIds \subseteq Nat /\ Nobody \notin FileIds /\ Nobody \notin Writers
BY NobodyIsNothing, PutBounds DEF FileIds

\* Nothing is written yet.
LEMMA PutStart == PutInit => PutInv
<1> SUFFICES ASSUME PutInit PROVE PutInv
  OBVIOUS
<1>1. PutTypes
  BY PutBounds, NobodyIsNoFile DEF PutInit, PutTypes, Named, Places
<1>2. Exclusive /\ Outside /\ Meet /\ \A w \in Writers : Underway(w) /\ pc[w] # "failed"
  BY DEF PutInit, Exclusive, Outside, Meet, Underway, Midway
<1>3. final = Nobody /\ \A f \in 1..nfiles : FALSE
  BY DEF PutInit
<1> QED
  BY <1>1, <1>2, <1>3 DEF PutInv

\* Two writers midway, of which one met the other, are not both under the lock.
LEMMA MidwayOutside ==
  ASSUME Exclusive, NEW v \in Writers, NEW w \in Writers, v # w, pc[v] # "idle", pc[w] # "idle"
  PROVE  {v, w} \cap Unlocked # {}
BY DEF Exclusive

\* A writer begins, or looks whether the object is there.
LEMMA LookStep ==
  ASSUME PutInv, NEW w \in Writers, Begin(w) \/ Check(w)
  PROVE  PutInv'
<1> USE NobodyIsNoFile
<1>1. PutTypes /\ Exclusive /\ Outside /\ Meet
  BY DEF PutInv
<1>2. PICK l \in {"check", "ok", "create"} : pc' = [pc EXCEPT ![w] = l]
  BY DEF Begin, Check, GoTo
<1>3. UNCHANGED <<files, nfiles, tmp, final, fd, pos, met, spoiled>>
  BY DEF Begin, Check, history
<1>4. ~ Midway(w) /\ pc[w] \in {"idle", "check"}
  BY DEF Begin, Check, Midway
<1>5. \A v \in Writers : Midway(v)' <=> Midway(v)
  BY <1>1, <1>2, <1>4 DEF PutTypes, Midway
<1>6. \A v \in Writers : Midway(v) => pc'[v] = pc[v]
  BY <1>1, <1>2, <1>4 DEF PutTypes, Midway
<1>7. PutTypes'
  <2>1. lock' \in Writers \cup {Nobody}
    BY <1>1 DEF Begin, Check, PutTypes
  <2> QED
    BY <1>1, <1>2, <1>3, <2>1 DEF PutTypes, Places
<1>8. Exclusive'
  <2>1. CASE Begin(w)
    BY <1>1, <1>2, <2>1 DEF PutTypes, Exclusive, Begin
  <2>2. CASE Check(w)
    BY <1>1, <1>2, <2>2 DEF PutTypes, Exclusive, Check
  <2> QED
    BY <2>1, <2>2
<1>9. Outside' /\ Meet'
  BY <1>1, <1>3, <1>5 DEF Outside, Meet
<1>10. \A v \in Writers : Underway(v)'
  BY <1>3, <1>5, <1>6 DEF PutInv, Underway
<1>11. \A v \in Writers : pc'[v] = "failed" => final' # Nobody /\ met'[v] # {}
  BY <1>1, <1>2, <1>3 DEF PutInv, PutTypes
<1>12. \A f \in 1..nfiles' : Accounted(f)'
  <2> SUFFICES ASSUME NEW f \in 1..nfiles PROVE Accounted(f)'
    BY <1>3
  <2>1. Accounted(f)
    BY DEF PutInv
  <2>2. \A v \in Writers : Writing(v, f) => Writing(v, f)'
    BY <1>3, <1>6 DEF Writing, Midway
  <2> QED
    BY <1>3, <1>5, <2>1, <2>2 DEF Accounted, Whole
<1> QED
  BY <1>3, <1>7, <1>8, <1>9, <1>10, <1>11, <1>12 DEF PutInv

\* A writer empties the tempfile, whoever is writing it, or makes one.
LEMMA CreateStep ==
  ASSUME PutInv, NEW w \in Writers, Create(w)
  PROVE  PutInv'
<1> USE NobodyIsNoFile, PutBounds
<1>1. PutTypes /\ Exclusive /\ Outside /\ Meet
  BY DEF PutInv
<1> DEFINE g == IF tmp # Nobody THEN tmp ELSE nfiles + 1
           others == {v \in Writers \ {w} : Midway(v)}
<1>2. /\ pc[w] = "create" /\ pc' = [pc EXCEPT ![w] = "write"]
      /\ g \in FileIds /\ files' = [files EXCEPT ![g] = {}]
      /\ nfiles' = IF tmp # Nobody THEN nfiles ELSE g
      /\ fd' = [fd EXCEPT ![w] = g] /\ pos' = [pos EXCEPT ![w] = 0]
      /\ tmp' = g
      /\ spoiled' = spoiled \ {g}
      /\ UNCHANGED <<final, lock>>
  BY <1>1 DEF Create, OpenNew, GoTo, PutTypes
<1>3. met' = [v \in Writers |-> IF v = w THEN others ELSE IF v \in others THEN met[v] \cup {w} ELSE met[v]]
  BY DEF Create, OpenNew
<1>4. nfiles' \in 0..MaxFiles /\ g <= nfiles' /\ nfiles' \in Nat /\ (1..nfiles') \subseteq (1..nfiles) \cup {g}
      /\ (final # Nobody => final <= nfiles')
  BY <1>1, <1>2 DEF PutTypes, FileIds, Named
<1>5. final # Nobody => final # g
  BY <1>1, <1>2 DEF PutInv, PutTypes, FileIds, Named
<1> HIDE DEF g
<1>6. others \subseteq Writers /\ w \notin others /\ \A v \in Writers : v \in others <=> v # w /\ Midway(v)
  OBVIOUS
<1> HIDE DEF others
<1>7. \A v \in Writers : IF v = w THEN pc'[v] = "write" /\ fd'[v] = g /\ pos'[v] = 0
                         ELSE pc'[v] = pc[v] /\ fd'[v] = fd[v] /\ pos'[v] = pos[v]
  BY <1>1, <1>2 DEF PutTypes
<1>8. \A v \in Writers : Midway(v)' <=> v = w \/ Midway(v)
  BY <1>7 DEF Midway
<1>9. \A v \in Writers : met'[v] = IF v = w THEN others ELSE IF v \in others THEN met[v] \cup {w} ELSE met[v]
  BY <1>3
<1>10. PutTypes'
  <2>1. met' \in [Writers -> SUBSET Writers]
    <3>1. \A v \in Writers : met'[v] \subseteq Writers
      BY <1>1, <1>6, <1>9 DEF PutTypes
    <3> QED
      BY <1>3, <3>1
  <2>2. files' \in [FileIds -> SUBSET (1..NParts)]
    BY <1>1, <1>2 DEF PutTypes
  <2>3. pc' \in [Writers -> Places] /\ fd' \in [Writers -> Named] /\ pos' \in [Writers -> Nat]
    BY <1>1, <1>2 DEF PutTypes, Places, Named
  <2>4. spoiled' \subseteq FileIds /\ tmp' \in Named /\ tmp' <= nfiles' /\ final' \in Named
        /\ lock' \in Writers \cup {Nobody}
    BY <1>1, <1>2, <1>4 DEF PutTypes, Named
  <2> QED
    BY <1>2, <1>4, <2>1, <2>2, <2>3, <2>4 DEF PutTypes
<1>11. Exclusive'
  BY <1>1, <1>2, <1>7 DEF Exclusive
<1>12. Outside'
  <2> SUFFICES ASSUME NEW u \in Writers, NEW v \in met'[u] PROVE {v, u} \cap Unlocked # {}
    BY DEF Outside
  <2>1. \A o \in others : o \in Writers /\ {o, w} \cap Unlocked # {}
    BY <1>1, <1>2, <1>6, MidwayOutside DEF Midway
  <2>2. CASE u = w
    BY <1>9, <2>1, <2>2
  <2>3. CASE u \in others /\ v = w
    <3>1. {w, u} = {u, w}
      OBVIOUS
    <3> QED
      BY <2>1, <2>3, <3>1
  <2>4. CASE u # w /\ v \in met[u]
    BY <1>1, <2>4 DEF Outside
  <2> QED
    BY <1>9, <2>2, <2>3, <2>4
<1>13. Meet'
  <2> SUFFICES ASSUME NEW u \in Writers, NEW v \in Writers, u # v, Midway(u)', Midway(v)'
               PROVE  u \in met'[v]
    BY DEF Meet
  <2>1. (u = w \/ Midway(u)) /\ (v = w \/ Midway(v))
    BY <1>8
  <2>2. CASE v = w
    BY <1>6, <1>9, <2>1, <2>2
  <2>3. CASE v # w /\ u = w
    BY <1>6, <1>9, <2>1, <2>3
  <2>4. CASE v # w /\ u # w
    <3>1. u \in met[v]
      BY <1>1, <2>1, <2>4 DEF Meet
    <3> QED
      BY <1>9, <2>4, <3>1
  <2> QED
    BY <2>2, <2>3, <2>4
<1>14. ASSUME NEW v \in Writers PROVE Underway(v)'
  <2>1. CASE v = w
    BY <1>2, <1>7, <2>1 DEF Underway
  <2>2. CASE v # w /\ Midway(v)
    <3>1. Underway(v)
      BY DEF PutInv
    <3>2. met'[v] # {}
      BY <1>6, <1>9, <2>2
    <3> QED
      BY <1>2, <1>7, <2>2, <3>1, <3>2 DEF Underway
  <2> QED
    BY <1>8, <2>1, <2>2 DEF Underway
<1>15. \A v \in Writers : pc'[v] = "failed" => final' # Nobody /\ met'[v] # {}
  BY <1>2, <1>7, <1>9 DEF PutInv
<1>16. ASSUME NEW f \in 1..nfiles' PROVE Accounted(f)'
  <2>1. CASE f = g
    <3>1. 1..0 = {}
      OBVIOUS
    <3>2. Writing(w, f)'
      BY <1>7, <2>1, <3>1 DEF Writing
    <3> QED
      BY <3>2 DEF Accounted
  <2>2. CASE f # g
    <3>1. f \in 1..nfiles /\ f \in FileIds /\ files'[f] = files[f]
      <4>1. f \in 1..nfiles
        BY <1>4, <2>2
      <4>2. f \in FileIds
        BY <1>1, <4>1 DEF PutTypes, FileIds
      <4>3. files'[f] = files[f]
        BY <1>1, <1>2, <2>2, <4>2 DEF PutTypes
      <4> QED
        BY <4>1, <4>2, <4>3
    <3>2. Accounted(f)
      BY <3>1 DEF PutInv
    <3>3. f # tmp
      BY <2>2, <3>1 DEF g
    <3>4. \A v \in Writers : Writing(v, f) => Writing(v, f)'
      BY <1>2, <1>7, <3>1 DEF Writing
    <3>5. f \in spoiled => f \in spoiled'
      BY <1>2, <2>2
    <3> QED
      BY <3>1, <3>2, <3>3, <3>4, <3>5 DEF Accounted, Whole
  <2> QED
    BY <2>1, <2>2
<1>17. final' # Nobody => final' # tmp'
  BY <1>2, <1>5
<1> QED
  BY <1>10, <1>11, <1>12, <1>13, <1>14, <1>15, <1>16, <1>17 DEF PutInv

\* A writer adds a piece to the file it has open.
LEMMA WriteStep ==
  ASSUME PutInv, NEW w \in Writers, Write(w)
  PROVE  PutInv'
<1> USE NobodyIsNoFile, PutBounds
<1>1. PutTypes /\ Exclusive /\ Outside /\ Meet
  BY DEF PutInv
<1> DEFINE next == pos[w] + 1
<1>2. /\ pc[w] = "write" /\ pc' = [pc EXCEPT ![w] = IF next < NParts THEN "write" ELSE "rename"]
      /\ files' = [files EXCEPT ![fd[w]] = @ \cup {next}]
      /\ pos' = [pos EXCEPT ![w] = next]
      /\ UNCHANGED <<nfiles, tmp, final, lock, fd, met, spoiled>>
  BY DEF Write, GoTo, history
<1>3. fd[w] \in FileIds /\ pos[w] < NParts /\ pos[w] \in Nat
  BY <1>1, <1>2 DEF PutInv, PutTypes, Underway, Midway
<1>4. next \in 1..NParts /\ next \in Nat /\ (~ (next < NParts) => next = NParts) /\ 1..next = (1..pos[w]) \cup {next}
  BY <1>3
<1> HIDE DEF next
<1>5. \A v \in Writers : IF v = w THEN pc'[v] = (IF next < NParts THEN "write" ELSE "rename") /\ pos'[v] = next
                         ELSE pc'[v] = pc[v] /\ pos'[v] = pos[v]
  BY <1>1, <1>2 DEF PutTypes
<1>6. \A v \in Writers : Midway(v)' <=> Midway(v)
  BY <1>2, <1>5 DEF Midway
<1>7. \A f \in FileIds : files'[f] = IF f = fd[w] THEN files[f] \cup {next} ELSE files[f]
  BY <1>1, <1>2 DEF PutTypes
<1>8. PutTypes'
  <2>1. files' \in [FileIds -> SUBSET (1..NParts)]
    BY <1>1, <1>2, <1>3, <1>4 DEF PutTypes
  <2>2. pc' \in [Writers -> Places] /\ pos' \in [Writers -> Nat]
    BY <1>1, <1>2, <1>4 DEF PutTypes, Places
  <2> QED
    BY <1>1, <1>2, <2>1, <2>2 DEF PutTypes
<1>9. Exclusive' /\ Outside' /\ Meet'
  BY <1>1, <1>2, <1>5, <1>6 DEF Exclusive, Outside, Meet
<1>10. ASSUME NEW v \in Writers PROVE Underway(v)'
  <2>1. Underway(v)
    BY DEF PutInv
  <2>2. CASE v = w
    <3>1. IF pc'[w] = "write" THEN pos'[w] < NParts ELSE pos'[w] = NParts
      BY <1>4, <1>5
    <3> QED
      BY <1>2, <1>6, <2>1, <2>2, <3>1 DEF Underway
  <2>3. CASE v # w
    BY <1>2, <1>5, <1>6, <2>1, <2>3 DEF Underway
  <2> QED
    BY <2>2, <2>3
<1>11. \A v \in Writers : pc'[v] = "failed" => final' # Nobody /\ met'[v] # {}
  BY <1>2, <1>5 DEF PutInv
<1>12. ASSUME NEW f \in 1..nfiles' PROVE Accounted(f)'
  <2>1. f \in FileIds /\ Accounted(f) /\ files[f] \subseteq 1..NParts
    <3>1. f \in FileIds
      BY <1>1, <1>2 DEF PutTypes, FileIds
    <3> QED
      BY <1>1, <1>2, <3>1 DEF PutInv, PutTypes
  <2>2. files[f] \subseteq files'[f] /\ files'[f] \subseteq 1..NParts
    BY <1>4, <1>7, <2>1
  <2>3. Whole(f) => Whole(f)'
    BY <2>2 DEF Whole
  <2>4. ~ (f = tmp /\ \A v \in Writers : ~ Midway(v))
    BY <1>2 DEF Midway
  <2>5. \A v \in Writers \ {w} : Writing(v, f) => Writing(v, f)'
    BY <1>2, <1>5, <2>2 DEF Writing
  <2>6. ASSUME Writing(w, f) PROVE Writing(w, f)' \/ Whole(f)'
    <3>1. f = fd[w] /\ 1..next \subseteq files'[f]
      BY <1>4, <1>7, <2>1, <2>6 DEF Writing
    <3>2. CASE next < NParts
      BY <1>2, <1>5, <3>1, <3>2 DEF Writing
    <3>3. CASE ~ (next < NParts)
      BY <1>4, <2>2, <3>1, <3>3 DEF Whole
    <3> QED
      BY <3>2, <3>3
  <2> QED
    BY <1>2, <2>1, <2>3, <2>4, <2>5, <2>6 DEF Accounted
<1> QED
  BY <1>2, <1>8, <1>9, <1>10, <1>11, <1>12 DEF PutInv

\* A writer renames the tempfile, whosever it is, or finds none: then it has met
\* the one that renamed it, for alone it would have its own.
LEMMA RenameStep ==
  ASSUME PutInv, NEW w \in Writers, Rename(w)
  PROVE  PutInv'
<1> USE NobodyIsNoFile, PutBounds
<1>1. PutTypes /\ Exclusive /\ Outside /\ Meet
  BY DEF PutInv
<1>2. pc[w] = "rename" /\ Midway(w) /\ UNCHANGED <<files, nfiles, lock, fd, pos, met, spoiled>>
  BY DEF Rename, history, Midway
<1>3. PICK l \in {"ok", "failed"} :
         /\ pc' = [pc EXCEPT ![w] = l]
         /\ IF tmp = Nobody THEN l = "failed" /\ UNCHANGED <<tmp, final>>
            ELSE l = "ok" /\ final' = tmp /\ tmp' = Nobody
  BY DEF Rename, GoTo
<1>4. \A v \in Writers : IF v = w THEN pc'[v] = l ELSE pc'[v] = pc[v]
  BY <1>1, <1>3 DEF PutTypes
<1>5. \A v \in Writers : Midway(v)' <=> v # w /\ Midway(v)
  BY <1>3, <1>4 DEF Midway
<1>6. Underway(w)
  BY DEF PutInv
<1>7. final # Nobody => final' # Nobody
  BY <1>3
<1>8. final' # Nobody
  BY <1>2, <1>3, <1>6 DEF Underway
<1>9. PutTypes'
  BY <1>1, <1>2, <1>3 DEF PutTypes, Named, Places
<1>10. Exclusive' /\ Outside' /\ Meet'
  BY <1>1, <1>2, <1>4, <1>5 DEF Exclusive, Outside, Meet
<1>11. ASSUME NEW v \in Writers PROVE Underway(v)'
  <2> SUFFICES ASSUME v # w, Midway(v) PROVE Underway(v)'
    BY <1>5 DEF Underway
  <2>1. Underway(v)
    BY DEF PutInv
  <2>2. met[v] # {}
    BY <1>1, <1>2 DEF Meet
  <2> QED
    BY <1>2, <1>4, <1>8, <2>1, <2>2 DEF Underway
<1>12. ASSUME NEW v \in Writers, pc'[v] = "failed" PROVE final' # Nobody /\ met'[v] # {}
  <2>1. CASE v # w
    BY <1>2, <1>4, <1>8, <1>12, <2>1 DEF PutInv
  <2>2. CASE v = w
    <3>1. tmp = Nobody
      BY <1>3, <1>4, <1>12, <2>2
    <3>2. met[w] # {}
      BY <1>2, <1>6, <3>1 DEF Underway
    <3> QED
      BY <1>2, <1>8, <2>2, <3>2
  <2> QED
    BY <2>1, <2>2
<1>13. ASSUME NEW f \in 1..nfiles' PROVE Accounted(f)'
  <2>1. Accounted(f)
    BY <1>2 DEF PutInv
  <2>2. \A v \in Writers : Writing(v, f) => Writing(v, f)'
    BY <1>2, <1>4 DEF Writing
  <2> QED
    BY <1>2, <2>1, <2>2 DEF Accounted, Whole
<1>14. final' # Nobody => final' # tmp'
  BY <1>3 DEF PutInv
<1> QED
  BY <1>9, <1>10, <1>11, <1>12, <1>13, <1>14 DEF PutInv

\* A writer is done, or dies.
LEMMA LeaveStep ==
  ASSUME PutInv, NEW w \in Writers, End(w) \/ Crash(w)
  PROVE  PutInv'
<1> USE NobodyIsNoFile, PutBounds
<1>1. PutTypes /\ Exclusive /\ Outside /\ Meet
  BY DEF PutInv
<1>2. /\ pc' = [pc EXCEPT ![w] = "idle"]
      /\ lock' = IF lock = w THEN Nobody ELSE lock
      /\ fd' = [fd EXCEPT ![w] = Nobody] /\ pos' = [pos EXCEPT ![w] = 0]
      /\ met' = [met EXCEPT ![w] = {}]
      /\ UNCHANGED <<files, nfiles, tmp, final>>
  BY DEF End, Crash, Leave, GoTo, Release
<1>3. /\ spoiled' \in {spoiled, spoiled \cup {fd[w]}}
      /\ spoiled' # spoiled => pc[w] = "write"
      /\ pc[w] = "write" /\ Raced(w) => spoiled' = spoiled \cup {fd[w]}
  BY DEF End, Crash
<1>4. \A v \in Writers :
        IF v = w THEN pc'[v] = "idle" /\ met'[v] = {}
        ELSE pc'[v] = pc[v] /\ fd'[v] = fd[v] /\ pos'[v] = pos[v] /\ met'[v] = met[v]
  BY <1>1, <1>2 DEF PutTypes
<1>5. \A v \in Writers : Midway(v)' <=> v # w /\ Midway(v)
  BY <1>4 DEF Midway
<1>6. PutTypes'
  <2>1. spoiled' \subseteq FileIds
    <3>1. pc[w] = "write" => fd[w] \in FileIds
      BY DEF PutInv, Underway, Midway
    <3> QED
      BY <1>1, <1>3, <3>1 DEF PutTypes
  <2>2. pc' \in [Writers -> Places] /\ fd' \in [Writers -> Named] /\ pos' \in [Writers -> Nat]
        /\ met' \in [Writers -> SUBSET Writers] /\ lock' \in Writers \cup {Nobody}
    BY <1>1, <1>2 DEF PutTypes, Places, Named
  <2> QED
    BY <1>1, <1>2, <2>1, <2>2 DEF PutTypes
<1>7. Exclusive'
  BY <1>1, <1>2, <1>4 DEF Exclusive
<1>8. Outside' /\ Meet'
  BY <1>1, <1>4, <1>5 DEF Outside, Meet
<1>9. ASSUME NEW v \in Writers PROVE Underway(v)'
  <2>1. Underway(v)
    BY DEF PutInv
  <2> QED
    BY <1>2, <1>4, <1>5, <2>1 DEF Underway
<1>10. \A v \in Writers : pc'[v] = "failed" => final' # Nobody /\ met'[v] # {}
  BY <1>2, <1>4 DEF PutInv
<1>11. ASSUME NEW f \in 1..nfiles' PROVE Accounted(f)'
  <2>1. Accounted(f) /\ files' = files /\ tmp' = tmp
    BY <1>2 DEF PutInv
  <2>2. \A v \in Writers \ {w} : Writing(v, f) => Writing(v, f)'
    BY <1>4, <2>1 DEF Writing
  <2>3. spoiled \subseteq spoiled'
    BY <1>3
  <2>4. ASSUME Writing(w, f), ~ Raced(w)
        PROVE  f = tmp /\ \A v \in Writers : ~ Midway(v)'
    <3>1. met[w] = {}
      BY <1>1, <2>4 DEF Raced, Outside
    <3>2. Midway(w) /\ f = fd[w]
      BY <2>4 DEF Writing, Midway
    <3>3. f = tmp
      BY <3>1, <3>2 DEF PutInv, Underway
    <3>4. \A v \in Writers \ {w} : ~ Midway(v)
      BY <1>1, <3>1, <3>2 DEF Meet
    <3> QED
      BY <1>5, <3>3, <3>4
  <2>5. ASSUME Writing(w, f), Raced(w) PROVE f \in spoiled'
    BY <1>3, <2>5 DEF Writing
  <2> QED
    BY <1>5, <2>1, <2>2, <2>3, <2>4, <2>5 DEF Accounted, Whole
<1>12. final' # Nobody => final' # tmp'
  BY <1>2 DEF PutInv
<1> QED
  BY <1>6, <1>7, <1>8, <1>9, <1>10, <1>11, <1>12 DEF PutInv

\* The invariant of the puts, whoever holds the lock.
THEOREM PutInvariant == PutSpec => []PutInv
<1>1. PutInv /\ [PutNext]_vars => PutInv'
  <2> SUFFICES ASSUME PutInv, [PutNext]_vars PROVE PutInv'
    OBVIOUS
  <2>1. CASE UNCHANGED vars
    BY <2>1 DEF vars, history, PutInv, PutTypes, Exclusive, Outside, Meet, Underway, Midway, Accounted,
                Whole, Writing
  <2>2. ASSUME NEW w \in Writers, Put(w) \/ Crash(w) PROVE PutInv'
    BY <2>2, LookStep, CreateStep, WriteStep, RenameStep, LeaveStep DEF Put
  <2> QED
    BY <2>1, <2>2 DEF PutNext
<1> QED
  BY <1>1, PutStart, PTL DEF PutSpec

\* A put finds its tempfile renamed away only if a writer outside the lock raced
\* with it, and then the object is there (FsObjectStore::put, objects.rs:199-212).
THEOREM PutsFailInRaces == PutSpec => []FailureIsRace
<1>1. PutInv => FailureIsRace
  <2> SUFFICES ASSUME PutInv, NEW w \in Writers, pc[w] = "failed" PROVE final # Nobody /\ Raced(w)
    BY DEF FailureIsRace
  <2>1. final # Nobody /\ met[w] # {} /\ Outside
    BY DEF PutInv
  <2> QED
    BY <2>1 DEF Outside, Raced
<1> QED
  BY <1>1, PutInvariant, PTL

\* A reader gets part of an object only while a writer that raced writes it, or
\* after one died at that (FsObjectStore::get), though readers take no lock and
\* writers die at any point of theirs.
THEOREM GetsAreWhole == PutSpec => []GetIsWhole
<1>1. PutInv => GetIsWhole
  <2> SUFFICES ASSUME PutInv, final # Nobody, ~ Whole(final), final \notin spoiled
               PROVE  \E w \in Writers : pc[w] = "write" /\ fd[w] = final /\ Raced(w)
    BY DEF GetIsWhole, Get
  <2>1. final \in 1..nfiles /\ final # tmp
    BY NobodyIsNoFile DEF PutInv, PutTypes, Named, FileIds
  <2>2. Accounted(final)
    BY <2>1 DEF PutInv
  <2>3. PICK w \in Writers : Writing(w, final)
    BY <2>1, <2>2 DEF Accounted
  <2>4. pc[w] = "write" /\ fd[w] = final /\ Midway(w) /\ Underway(w) /\ Outside
    BY <2>3 DEF Writing, Midway, PutInv
  <2>5. met[w] # {}
    BY <2>1, <2>4 DEF Underway
  <2> QED
    BY <2>4, <2>5 DEF Outside, Raced
<1> QED
  BY <1>1, PutInvariant, PTL

\* So among writers that take the lock, as the commands that write do, every put
\* succeeds and every get is whole (objects.rs:7-10).
THEOREM PutsUnderTheLock ==
  ASSUME Unlocked = {}
  PROVE  PutSpec => [](PutSucceeds /\ Get # "corrupt")
<1>1. PutInv /\ GetIsWhole /\ spoiled = {} => PutSucceeds /\ Get # "corrupt"
  BY DEF PutInv, PutSucceeds, Outside, GetIsWhole, Raced
<1>2. PutSpec => [](spoiled = {})
  <2>1. PutInit => spoiled = {}
    BY DEF PutInit
  <2>2. spoiled = {} /\ [PutNext]_vars => (spoiled = {})'
    BY DEF PutNext, vars, history, Put, Begin, Check, Create, OpenNew, Write, Rename, End, Crash, Raced
  <2> QED
    BY <2>1, <2>2, PTL DEF PutSpec
<1> QED
  BY <1>1, <1>2, PutInvariant, GetsAreWhole, PTL

-----------------------------------------------------------------------------
(* Induction over indices, from the library's well-foundedness of <: the   *)
(* functions of Trees and Lines go down a path, or along a script, by one. *)

\* A set with 0 in it, and with each number the next one, has all of 0..m.
LEMMA CountUp ==
  ASSUME NEW m \in Nat, NEW T, 0 \in T, \A n \in 0 .. m - 1 : n \in T => n + 1 \in T
  PROVE  \A n \in 0 .. m : n \in T
<1> DEFINE R == {ss \in Nat \X Nat : ss[1] < ss[2]}
           Missing == {n \in 0 .. m : n \notin T}
<1>1. SUFFICES ASSUME Missing # {} PROVE FALSE
  OBVIOUS
<1>2. IsWellFoundedOn(R, Nat)
  BY NatLessThanWellFounded DEF OpToRel
<1>3. Missing \subseteq Nat
  OBVIOUS
<1>4. PICK n \in Missing : \A k \in Missing : <<k, n>> \notin R
  <2> HIDE DEF R, Missing
  <2> QED BY <1>1, <1>2, <1>3, WFMin
<1>5. n # 0 /\ n - 1 \in 0 .. m - 1 /\ n - 1 + 1 = n
  BY <1>4
<1>6. n - 1 \notin T
  BY <1>4, <1>5
<1>7. <<n - 1, n>> \in R /\ n - 1 \in Missing
  BY <1>4, <1>5, <1>6
<1> QED
  BY <1>4, <1>7

\* And one with m in it, and with each number the one before.
LEMMA CountDown ==
  ASSUME NEW m \in Nat, NEW T, m \in T, \A n \in 0 .. m - 1 : n + 1 \in T => n \in T
  PROVE  \A n \in 0 .. m : n \in T
<1> DEFINE D == {n \in 0 .. m : m - n \in T}
<1>1. 0 \in D /\ \A n \in 0 .. m - 1 : n \in D => n + 1 \in D
  <2>1. ASSUME NEW n \in 0 .. m - 1, m - n \in T PROVE m - (n + 1) \in T
    <3>1. m - (n + 1) \in 0 .. m - 1 /\ m - (n + 1) + 1 = m - n
      OBVIOUS
    <3> QED BY <2>1, <3>1
  <2> QED BY <2>1
<1>2. \A n \in 0 .. m : n \in D
  <2> HIDE DEF D
  <2> QED BY <1>1, CountUp
<1>3. ASSUME NEW n \in 0 .. m PROVE n \in T
  <2>1. m - n \in 0 .. m /\ m - (m - n) = n
    OBVIOUS
  <2> QED BY <1>2, <2>1
<1> QED
  BY <1>3

-----------------------------------------------------------------------------
(* Paths *)

\* A path is a sequence of so many names.
LEMMA PathIs ==
  ASSUME NEW p \in AllPaths
  PROVE  p \in Seq(Names) /\ Len(p) \in 1 .. MaxDepth /\ DOMAIN p = 1 .. Len(p) /\ Len(p) \in Nat
BY DepthIsNat DEF AllPaths

\* Its first n components.
LEMMA UptoIs ==
  ASSUME NEW S, NEW p \in Seq(S), NEW n \in 0 .. Len(p)
  PROVE  /\ Upto(p, n) \in Seq(S) /\ Len(Upto(p, n)) = n
         /\ \A i \in 1 .. n : Upto(p, n)[i] = p[i]
         /\ \A k \in 0 .. n : Upto(Upto(p, n), k) = Upto(p, k)
<1>1. /\ Upto(p, n) \in Seq(S) /\ Len(Upto(p, n)) = n
      /\ \A i \in 1 .. n : Upto(p, n)[i] = p[i]
  BY DEF Upto
<1>2. ASSUME NEW k \in 0 .. n PROVE Upto(Upto(p, n), k) = Upto(p, k)
  BY <1>1, <1>2 DEF Upto
<1> QED
  BY <1>1, <1>2

\* They depend on these components alone.
LEMMA UptoSame ==
  ASSUME NEW S, NEW p \in Seq(S), NEW q \in Seq(S), NEW n \in Nat, n <= Len(p), n <= Len(q),
         \A i \in 1 .. n : p[i] = q[i]
  PROVE  Upto(p, n) = Upto(q, n)
<1>1. /\ Upto(p, n) \in Seq(S) /\ Upto(q, n) \in Seq(S) /\ Len(Upto(p, n)) = n /\ Len(Upto(q, n)) = n
      /\ \A i \in 1 .. n : Upto(p, n)[i] = p[i] /\ Upto(q, n)[i] = q[i]
  BY UptoIs
<1> QED
  BY <1>1, SeqEqual

\* All of it, and none of it.
LEMMA UptoEnds ==
  ASSUME NEW S, NEW p \in Seq(S)
  PROVE  Upto(p, Len(p)) = p /\ Upto(p, 0) = << >>
BY DEF Upto

\* The first components of a path are a path.
LEMMA UptoIsPath ==
  ASSUME NEW p \in AllPaths, NEW n \in 1 .. Len(p)
  PROVE  Upto(p, n) \in AllPaths
<1>1. p \in Seq(Names) /\ Len(p) \in 1 .. MaxDepth
  BY PathIs
<1>2. Upto(p, n) \in Seq(Names) /\ Len(Upto(p, n)) = n
  BY <1>1, UptoIs
<1>3. Upto(p, n) \in [1 .. n -> Names] /\ n \in 1 .. MaxDepth
  BY <1>1, <1>2, DepthIsNat
<1> QED
  BY <1>3 DEF AllPaths

\* One path is the beginning of another.
LEMMA PrefixIs ==
  ASSUME NEW S, NEW p \in Seq(S), NEW q \in Seq(S)
  PROVE  /\ IsPrefix(p, q) <=> Len(p) <= Len(q) /\ Upto(q, Len(p)) = p
         /\ IsStrictPrefix(p, q) <=> Len(p) < Len(q) /\ Upto(q, Len(p)) = p
<1>1. SubSeq(p, 1, Len(p)) = p
  OBVIOUS
<1>2. IsPrefix(p, q) <=> Len(p) <= Len(q) /\ Upto(q, Len(p)) = p
  BY <1>1 DEF IsPrefix, Upto
<1>3. Len(p) = Len(q) => Upto(q, Len(p)) = q
  BY DEF Upto
<1> QED
  BY <1>2, <1>3 DEF IsStrictPrefix

\* Where two paths part, unless one is the beginning of the other: they agree
\* so far, and not on the next component.
Parts(p, q, n) == n \in 1 .. Len(p) /\ n <= Len(q) /\ Upto(p, n - 1) = Upto(q, n - 1) /\ p[n] # q[n]

LEMMA PathsPart ==
  ASSUME NEW S, NEW p \in Seq(S), NEW q \in Seq(S)
  PROVE  (Len(p) <= Len(q) /\ Upto(q, Len(p)) = p) \/ (Len(q) < Len(p) /\ Upto(p, Len(q)) = q)
           \/ \E n \in 1 .. Len(p) : Parts(p, q, n)
<1> DEFINE m == IF Len(p) <= Len(q) THEN Len(p) ELSE Len(q)
           T == {n \in 0 .. m : Upto(p, n) = Upto(q, n)}
<1>1. m \in Nat /\ m <= Len(p) /\ m <= Len(q)
  OBVIOUS
<1> HIDE DEF m
<1>2. SUFFICES ASSUME ~ \E n \in 1 .. Len(p) : Parts(p, q, n) PROVE Upto(p, m) = Upto(q, m)
  BY UptoEnds DEF m
<1>3. 0 \in T
  BY <1>1 DEF Upto
<1>4. ASSUME NEW n \in 0 .. m - 1, n \in T PROVE n + 1 \in T
  <2>1. n + 1 \in 1 .. Len(p) /\ n + 1 \in 1 .. Len(q) /\ n + 1 - 1 = n
    BY <1>1
  <2>2. p[n + 1] = q[n + 1]
    BY <1>2, <1>4, <2>1 DEF Parts
  <2>3. ASSUME NEW i \in 1 .. n + 1 PROVE p[i] = q[i]
    <3>1. CASE i = n + 1
      BY <2>2, <3>1
    <3>2. CASE i \in 1 .. n
      <4>1. n \in 0 .. Len(p) /\ n \in 0 .. Len(q) /\ Upto(p, n) = Upto(q, n)
        BY <1>1, <1>4
      <4>2. Upto(p, n)[i] = p[i] /\ Upto(q, n)[i] = q[i]
        BY <3>2, <4>1, UptoIs
      <4> QED BY <4>1, <4>2
    <3> QED
      BY <2>1, <3>1, <3>2
  <2>4. Upto(p, n + 1) = Upto(q, n + 1)
    BY <2>1, <2>3, UptoSame
  <2> QED
    BY <1>1, <2>1, <2>4
<1>5. \A n \in 0 .. m : n \in T
  <2> HIDE DEF T
  <2> QED BY <1>1, <1>3, <1>4, CountUp
<1> QED
  BY <1>1, <1>5

-----------------------------------------------------------------------------
(* Following a path *)

\* at[n] is what is n components down p, for n up to m.
IsWalk(at, e, p, m) ==
  /\ at = [n \in 0 .. m |-> at[n]]
  /\ at[0] = e
  /\ \A n \in 1 .. m : at[n] = Child(at[n - 1], p[n])

LEMMA WalkExists ==
  ASSUME NEW e, NEW p, NEW m \in Nat
  PROVE  \E at : IsWalk(at, e, p, m)
<1> DEFINE T == {k \in 0 .. m : \E at : IsWalk(at, e, p, k)}
<1>1. 0 \in T
  <2>1. IsWalk([n \in 0 .. 0 |-> e], e, p, 0)
    BY DEF IsWalk
  <2> QED BY <2>1
<1>2. ASSUME NEW k \in 0 .. m - 1, k \in T PROVE k + 1 \in T
  <2>1. PICK at : IsWalk(at, e, p, k)
    BY <1>2
  <2> DEFINE to == [n \in 0 .. k + 1 |-> IF n = k + 1 THEN Child(at[k], p[k + 1]) ELSE at[n]]
  <2>2. to[0] = at[0]
    OBVIOUS
  <2>3. ASSUME NEW n \in 1 .. k + 1 PROVE to[n] = Child(to[n - 1], p[n])
    <3>1. n - 1 \in 0 .. k /\ to[n - 1] = at[n - 1]
      OBVIOUS
    <3>2. CASE n = k + 1
      BY <3>1, <3>2
    <3>3. CASE n \in 1 .. k
      <4>1. to[n] = at[n]
        BY <3>3
      <4> QED BY <2>1, <3>1, <3>3, <4>1 DEF IsWalk
    <3> QED BY <3>2, <3>3
  <2>4. to = [n \in 0 .. k + 1 |-> to[n]]
    OBVIOUS
  <2> HIDE DEF to
  <2>5. IsWalk(to, e, p, k + 1)
    BY <2>1, <2>2, <2>3, <2>4 DEF IsWalk
  <2> QED BY <2>5
<1>3. m \in T
  <2> HIDE DEF T
  <2> QED BY <1>1, <1>2, CountUp
<1> QED
  BY <1>3

\* Two walks down paths that agree so far come to the same.
LEMMA WalksAgree ==
  ASSUME NEW e, NEW p, NEW q, NEW m \in Nat, NEW k \in Nat, NEW n \in Nat, n <= m, n <= k,
         \A i \in 1 .. n : p[i] = q[i],
         NEW at, IsWalk(at, e, p, m), NEW to, IsWalk(to, e, q, k)
  PROVE  at[n] = to[n]
<1> DEFINE T == {i \in 0 .. n : at[i] = to[i]}
<1>1. 0 \in T
  BY DEF IsWalk
<1>2. ASSUME NEW i \in 0 .. n - 1, i \in T PROVE i + 1 \in T
  <2> DEFINE j == i + 1
  <2>1. j \in 1 .. m /\ j \in 1 .. k /\ j \in 1 .. n /\ j - 1 = i
    OBVIOUS
  <2> HIDE DEF j
  <2>2. at[j] = Child(at[i], p[j]) /\ to[j] = Child(to[i], q[j])
    BY <2>1 DEF IsWalk
  <2>3. j \in T
    BY <1>2, <2>1, <2>2
  <2> QED BY <2>3 DEF j
<1>3. n \in T
  <2> HIDE DEF T
  <2> QED BY <1>1, <1>2, CountUp
<1> QED
  BY <1>3

\* Follow comes to where the walk ends.
LEMMA FollowIs ==
  ASSUME NEW e, NEW p, Len(p) \in Nat, NEW to, IsWalk(to, e, p, Len(p))
  PROVE  Follow(e, p) = to[Len(p)]
<1> DEFINE Body(f) == [n \in 0 .. Len(p) |-> IF n = 0 THEN e ELSE Child(f[n - 1], p[n])]
           g == CHOOSE f : f = Body(f)
<1>1. Follow(e, p) = g[Len(p)]
  BY DEF Follow
<1>2. to = Body(to)
  <2>1. \A n \in 0 .. Len(p) : to[n] = IF n = 0 THEN e ELSE Child(to[n - 1], p[n])
    BY DEF IsWalk
  <2> QED BY <2>1 DEF IsWalk
<1>3. g = Body(g)
  <2> HIDE DEF Body
  <2> QED BY <1>2
<1> HIDE DEF g
<1>4. \A n \in 0 .. Len(p) : g[n] = IF n = 0 THEN e ELSE Child(g[n - 1], p[n])
  BY <1>3
<1>5. IsWalk(g, e, p, Len(p))
  BY <1>3, <1>4 DEF IsWalk
<1>6. g[Len(p)] = to[Len(p)]
  BY <1>5, WalksAgree
<1> QED
  BY <1>1, <1>6

\* One component at a time.
LEMMA FollowStep ==
  ASSUME NEW S, NEW p \in Seq(S), NEW e
  PROVE  /\ Follow(e, << >>) = e /\ Follow(e, Upto(p, 0)) = e
         /\ \A n \in 1 .. Len(p) : Follow(e, Upto(p, n)) = Child(Follow(e, Upto(p, n - 1)), p[n])
<1>1. ASSUME NEW q \in Seq(S), Len(q) = 0 PROVE Follow(e, q) = e
  <2>1. PICK at : IsWalk(at, e, q, 0)
    BY WalkExists
  <2>2. Follow(e, q) = at[0]
    BY <1>1, <2>1, FollowIs
  <2> QED BY <2>1, <2>2 DEF IsWalk
<1>2. << >> \in Seq(S) /\ Len(<< >>) = 0 /\ Upto(p, 0) = << >>
  BY UptoEnds
<1>3. ASSUME NEW n \in 1 .. Len(p) PROVE Follow(e, Upto(p, n)) = Child(Follow(e, Upto(p, n - 1)), p[n])
  <2> DEFINE a == Upto(p, n)
             b == Upto(p, n - 1)
  <2>1. /\ Len(a) = n /\ Len(b) = n - 1 /\ n \in Nat /\ n - 1 \in Nat
        /\ a[n] = p[n] /\ \A i \in 1 .. n - 1 : a[i] = b[i]
    BY UptoIs
  <2> HIDE DEF a, b
  <2>2. PICK at : IsWalk(at, e, a, n)
    BY <2>1, WalkExists
  <2>3. PICK to : IsWalk(to, e, b, n - 1)
    BY <2>1, WalkExists
  <2>4. Follow(e, a) = at[n] /\ Follow(e, b) = to[n - 1]
    BY <2>1, <2>2, <2>3, FollowIs
  <2>5. at[n - 1] = to[n - 1]
    <3> DEFINE k == n - 1
    <3>1. k \in Nat /\ k <= n /\ k <= k /\ \A i \in 1 .. k : a[i] = b[i]
      BY <2>1
    <3>2. IsWalk(at, e, a, n) /\ IsWalk(to, e, b, k)
      BY <2>2, <2>3
    <3> HIDE DEF k
    <3>3. at[k] = to[k]
      BY <2>1, <3>1, <3>2, WalksAgree
    <3> QED BY <3>3 DEF k
  <2>6. at[n] = Child(at[n - 1], p[n])
    BY <2>1, <2>2 DEF IsWalk
  <2> QED BY <2>4, <2>5, <2>6 DEF a, b
<1> QED
  BY <1>1, <1>2, <1>3

\* The same, from a tree.
LEMMA LookupEnds ==
  ASSUME NEW tree, NEW S, NEW p \in Seq(S)
  PROVE  /\ Lookup(tree, Upto(p, 0)) = Dir(tree) /\ Lookup(tree, << >>) = Dir(tree)
         /\ Lookup(tree, Upto(p, Len(p))) = Lookup(tree, p)
BY FollowStep, UptoEnds DEF Lookup

LEMMA LookupStep ==
  ASSUME NEW tree, NEW S, NEW p \in Seq(S), NEW n \in 1 .. Len(p)
  PROVE  Lookup(tree, Upto(p, n)) = Child(Lookup(tree, Upto(p, n - 1)), p[n])
BY FollowStep DEF Lookup

LEMMA LookupNext ==
  ASSUME NEW tree, NEW S, NEW p \in Seq(S), NEW n \in 0 .. Len(p) - 1
  PROVE  Lookup(tree, Upto(p, n + 1)) = Child(Lookup(tree, Upto(p, n)), p[n + 1])
<1> DEFINE k == n + 1
<1>1. k \in 1 .. Len(p) /\ k - 1 = n
  OBVIOUS
<1> HIDE DEF k
<1>2. Lookup(tree, Upto(p, k)) = Child(Lookup(tree, Upto(p, n)), p[k])
  BY <1>1, LookupStep
<1> QED
  BY <1>2 DEF k

\* Below what is no tree there is nothing.
LEMMA NothingBelow ==
  ASSUME NEW tree, NEW S, NEW p \in Seq(S), NEW m \in 0 .. Len(p), NEW n \in 0 .. Len(p),
         m < n, Lookup(tree, Upto(p, m)).kind # "tree"
  PROVE  Lookup(tree, Upto(p, n)) = Absent
<1>1. \A k \in 0 .. Len(p) - 1 : Lookup(tree, Upto(p, k + 1)) = Child(Lookup(tree, Upto(p, k)), p[k + 1])
  BY LookupNext
<1> DEFINE T == {k \in 0 .. Len(p) : k > m => Lookup(tree, Upto(p, k)) = Absent}
<1>2. 0 \in T
  OBVIOUS
<1>3. ASSUME NEW k \in 0 .. Len(p) - 1, k \in T PROVE k + 1 \in T
  <2>1. k + 1 \in 0 .. Len(p) /\ (k + 1 > m => k >= m)
    OBVIOUS
  <2>2. k >= m => Lookup(tree, Upto(p, k)).kind # "tree"
    <3>1. Absent.kind # "tree"
      BY DEF IsTree, Absent
    <3>2. k >= m => k > m \/ k = m
      OBVIOUS
    <3> QED BY <1>3, <3>1, <3>2
  <2> QED BY <1>1, <2>1, <2>2 DEF Child, IsTree
<1>4. n \in T
  <2>1. Len(p) \in Nat /\ n \in 0 .. Len(p)
    OBVIOUS
  <2> HIDE DEF T
  <2> QED BY <1>2, <1>3, <2>1, CountUp
<1> QED
  BY <1>4

\* Where two trees hold the same they hold the same below.
LEMMA SameBelow ==
  ASSUME NEW s, NEW t, NEW S, NEW p \in Seq(S), NEW m \in 0 .. Len(p),
         NEW n \in m .. Len(p), Lookup(s, Upto(p, m)) = Lookup(t, Upto(p, m))
  PROVE  Lookup(s, Upto(p, n)) = Lookup(t, Upto(p, n))
<1> DEFINE T == {k \in 0 .. Len(p) : k >= m => Lookup(s, Upto(p, k)) = Lookup(t, Upto(p, k))}
<1>1. 0 \in T
  <2>1. 0 >= m => m = 0
    OBVIOUS
  <2> QED BY <2>1
<1>2. ASSUME NEW k \in 0 .. Len(p) - 1, k \in T PROVE k + 1 \in T
  <2>1. k + 1 \in 0 .. Len(p)
    OBVIOUS
  <2>2. /\ Lookup(s, Upto(p, k + 1)) = Child(Lookup(s, Upto(p, k)), p[k + 1])
        /\ Lookup(t, Upto(p, k + 1)) = Child(Lookup(t, Upto(p, k)), p[k + 1])
    BY LookupNext
  <2>3. k + 1 >= m => k >= m \/ k + 1 = m
    OBVIOUS
  <2> QED BY <1>2, <2>1, <2>2, <2>3
<1>3. n \in T
  <2> HIDE DEF T
  <2> QED BY <1>1, <1>2, CountUp
<1> QED
  BY <1>3

-----------------------------------------------------------------------------
(* Edits: what takes the place of what is n components down a path, when   *)
(* `below` takes the place of what is n + 1 components down.               *)

Rewritten(edit, tree, path, n, below) ==
  IF edit = "insert" THEN Dir(With(Subtree(Lookup(tree, Upto(path, n))), path[n + 1], below))
  ELSE LET sub == Replace(Lookup(tree, Upto(path, n)).target, path[n + 1], below)
       IN IF sub = NoTree THEN Absent ELSE Dir(sub)

\* f[n] does, from the n-th component on.
IsRewrite(f, edit, tree, path, entry, m) ==
  /\ f = [n \in m .. Len(path) |-> f[n]]
  /\ f[Len(path)] = entry
  /\ \A n \in m .. Len(path) - 1 : f[n] = Rewritten(edit, tree, path, n, f[n + 1])

LEMMA RewriteExists ==
  ASSUME NEW edit, NEW tree, NEW path, Len(path) \in Nat, NEW entry
  PROVE  \E f : IsRewrite(f, edit, tree, path, entry, 0)
<1> DEFINE m == Len(path)
           T == {k \in 0 .. m : \E f : IsRewrite(f, edit, tree, path, entry, k)}
<1> HIDE DEF m
<1>1. m \in T
  <2>1. IsRewrite([n \in m .. m |-> entry], edit, tree, path, entry, m)
    BY DEF IsRewrite, m
  <2> QED BY <2>1 DEF m
<1>2. ASSUME NEW k \in 0 .. m - 1, k + 1 \in T PROVE k \in T
  <2>1. PICK f : IsRewrite(f, edit, tree, path, entry, k + 1)
    BY <1>2
  <2> DEFINE g == [n \in k .. m |-> IF n = k THEN Rewritten(edit, tree, path, k, f[k + 1]) ELSE f[n]]
  <2>2. k \in k .. m /\ m \in k + 1 .. m /\ m # k /\ m \in Nat
    BY DEF m
  <2>3. g[m] = entry
    BY <2>1, <2>2 DEF IsRewrite, m
  <2>4. ASSUME NEW n \in k .. m - 1 PROVE g[n] = Rewritten(edit, tree, path, n, g[n + 1])
    <3>1. n + 1 \in k .. m /\ n + 1 # k /\ n \in k .. m
      BY <2>2
    <3>2. g[n + 1] = f[n + 1]
      BY <3>1
    <3>3. CASE n = k
      BY <3>1, <3>2, <3>3
    <3>4. CASE n # k
      <4>1. n \in k + 1 .. m - 1
        BY <2>2, <3>4
      <4>2. f[n] = Rewritten(edit, tree, path, n, f[n + 1])
        BY <2>1, <4>1 DEF IsRewrite, m
      <4> QED BY <3>1, <3>2, <3>4, <4>2
    <3> QED BY <3>3, <3>4
  <2>5. g = [n \in k .. m |-> g[n]]
    OBVIOUS
  <2> HIDE DEF g
  <2>6. IsRewrite(g, edit, tree, path, entry, k)
    BY <2>3, <2>4, <2>5 DEF IsRewrite, m
  <2> QED BY <2>2, <2>6
<1>3. 0 \in T
  <2> HIDE DEF T
  <2>1. m \in Nat /\ 0 \in 0 .. m
    BY DEF m
  <2> QED BY <1>1, <1>2, <2>1, CountDown
<1> QED
  BY <1>3

\* Insert rewrites what is on the way from the root down to the path,
LEMMA InsertIs ==
  ASSUME NEW tree, NEW path, Len(path) \in Nat, NEW entry
  PROVE  \E f : IsRewrite(f, "insert", tree, path, entry, 0) /\ Insert(tree, path, entry) = f[0].target
<1> DEFINE Body(f) == [n \in 0 .. Len(path) |->
             IF n = Len(path) THEN entry
             ELSE Dir(With(Subtree(Lookup(tree, Upto(path, n))), path[n + 1], f[n + 1]))]
           g == CHOOSE f : f = Body(f)
<1>1. Insert(tree, path, entry) = g[0].target
  BY DEF Insert
<1>2. PICK h : IsRewrite(h, "insert", tree, path, entry, 0)
  BY RewriteExists
<1>3. h = Body(h)
  <2>1. \A n \in 0 .. Len(path) : n # Len(path) => n \in 0 .. Len(path) - 1
    OBVIOUS
  <2> QED BY <1>2, <2>1 DEF IsRewrite, Rewritten
<1>4. g = Body(g)
  <2> HIDE DEF Body
  <2> QED BY <1>3
<1> HIDE DEF g
<1>5. IsRewrite(g, "insert", tree, path, entry, 0)
  <2>1. \A n \in 0 .. Len(path) - 1 : n # Len(path) /\ n \in 0 .. Len(path)
    OBVIOUS
  <2> QED BY <1>4, <2>1 DEF IsRewrite, Rewritten
<1> QED
  BY <1>1, <1>5

\* and so does Delete.
LEMMA DeleteIs ==
  ASSUME NEW tree, NEW path, Len(path) \in Nat
  PROVE  \E f : IsRewrite(f, "delete", tree, path, Absent, 0) /\ Delete(tree, path) = Subtree(f[0])
<1> DEFINE Body(f) == [n \in 0 .. Len(path) |->
             IF n = Len(path) THEN Absent
             ELSE LET sub == Replace(Lookup(tree, Upto(path, n)).target, path[n + 1], f[n + 1])
                  IN IF sub = NoTree THEN Absent ELSE Dir(sub)]
           g == CHOOSE f : f = Body(f)
<1>1. Delete(tree, path) = Subtree(g[0])
  BY DEF Delete
<1>2. PICK h : IsRewrite(h, "delete", tree, path, Absent, 0)
  BY RewriteExists
<1>3. h = Body(h)
  <2>1. \A n \in 0 .. Len(path) : n # Len(path) => n \in 0 .. Len(path) - 1
    OBVIOUS
  <2> QED BY <1>2, <2>1 DEF IsRewrite, Rewritten
<1>4. g = Body(g)
  <2> HIDE DEF Body
  <2> QED BY <1>3
<1> HIDE DEF g
<1>5. IsRewrite(g, "delete", tree, path, Absent, 0)
  <2>1. \A n \in 0 .. Len(path) - 1 : n # Len(path) /\ n \in 0 .. Len(path)
    OBVIOUS
  <2> QED BY <1>4, <2>1 DEF IsRewrite, Rewritten
<1> QED
  BY <1>1, <1>5

\* An edit and what it puts where; where there is something to delete, trees
\* lead to it.
IsEdit(f, edit, tree, path, entry) ==
  /\ Len(path) \in Nat /\ edit \in {"insert", "delete"}
  /\ edit = "delete" => \A i \in 0 .. Len(path) - 1 : IsTree(Lookup(tree, Upto(path, i)))
  /\ IsRewrite(f, edit, tree, path, entry, 0)

\* The tree that results.
Result(edit, f) == IF edit = "insert" THEN f[0].target ELSE Subtree(f[0])

\* What it puts on the way is trees, not empty; a delete puts nothing where one
\* would be.
Remains(edit, f, n) ==
  /\ f[n] = Dir(f[n].target) \/ (edit = "delete" /\ f[n] = Absent)
  /\ f[n] = Dir(f[n].target) => f[n].target # NoTree

\* What an edit puts on the way holds what it puts below, and what was there.
LEMMA RewriteChild ==
  ASSUME NEW tree, NEW path, NEW edit, NEW entry, NEW f, IsEdit(f, edit, tree, path, entry)
  PROVE  \A n \in 0 .. Len(path) - 1 :
           /\ \A name : Child(f[n], name) =
                IF name = path[n + 1] THEN f[n + 1] ELSE Child(Lookup(tree, Upto(path, n)), name)
           /\ Remains(edit, f, n)
<1> SUFFICES ASSUME NEW n \in 0 .. Len(path) - 1
             PROVE  /\ \A name : Child(f[n], name) =
                          IF name = path[n + 1] THEN f[n + 1] ELSE Child(Lookup(tree, Upto(path, n)), name)
                    /\ Remains(edit, f, n)
  OBVIOUS
<1> DEFINE was == Lookup(tree, Upto(path, n))
           c == path[n + 1]
           below == f[n + 1]
<1>1. f[n] = Rewritten(edit, tree, path, n, below)
  BY DEF IsEdit, IsRewrite
<1>2. edit = "delete" => IsTree(was)
  BY DEF IsEdit
<1>3. DOMAIN NoTree = {}
  BY DEF NoTree
<1>4. \A t, x : IsTree(Dir(t)) /\ Dir(t).target = t /\ Child(Dir(t), x) = Entry(t, x)
  BY DEF Dir, IsTree, Child
<1>5. ~ IsTree(Absent) /\ \A x : Child(Absent, x) = Absent
  BY DEF Absent, IsTree, Child
<1>6. CASE edit = "insert"
  <2>1. f[n] = Dir(With(Subtree(was), c, below))
    BY <1>1, <1>6 DEF Rewritten
  <2> HIDE DEF was, c, below
  <2>2. \A x : Entry(With(Subtree(was), c, below), x) = IF x = c THEN below ELSE Child(was, x)
    BY <1>3 DEF Entry, With, Subtree, Child
  <2>3. With(Subtree(was), c, below) # NoTree
    <3>1. c \in DOMAIN With(Subtree(was), c, below)
      BY DEF With
    <3> QED BY <1>3, <3>1
  <2> QED BY <1>4, <1>6, <2>1, <2>2, <2>3 DEF was, c, below, Remains
<1>7. CASE edit = "delete"
  <2> DEFINE sub == Replace(was.target, c, below)
  <2>1. f[n] = IF sub = NoTree THEN Absent ELSE Dir(sub)
    BY <1>1, <1>7 DEF Rewritten
  <2> HIDE DEF was, c, below
  <2>2. \A x : Entry(sub, x) = IF x = c THEN below ELSE Child(was, x)
    BY <1>2, <1>7 DEF Replace, Entry, With, Without, Child
  <2>3. sub = NoTree => \A x : Entry(sub, x) = Absent
    BY <1>3 DEF Entry
  <2> HIDE DEF sub
  <2>4. \A x : Child(f[n], x) = Entry(sub, x)
    BY <1>4, <1>5, <2>1, <2>3
  <2>5. ~ IsTree(Absent) /\ Dir(sub).target = sub /\ Dir(sub) # Absent
    BY <1>4, <1>5
  <2> QED BY <1>7, <2>1, <2>2, <2>4, <2>5 DEF was, c, below, Remains
<1> QED
  BY <1>6, <1>7 DEF IsEdit

\* The tree after an edit: on the path it holds what the edit put there, off it
\* what was there.
LEMMA Edited ==
  ASSUME NEW tree, NEW edit, NEW entry, NEW f, NEW S, NEW path \in Seq(S),
         path # << >>, IsEdit(f, edit, tree, path, entry)
  PROVE  /\ \A n \in 1 .. Len(path) : Lookup(Result(edit, f), Upto(path, n)) = f[n]
         /\ \A q \in Seq(S), n \in Nat : Parts(q, path, n) => Lookup(Result(edit, f), q) = Lookup(tree, q)
<1> DEFINE new == Result(edit, f)
<1>1. Len(path) \in Nat \ {0}
  OBVIOUS
<1>2. ASSUME NEW n \in 0 .. Len(path) - 1
      PROVE  \A name : Child(f[n], name) =
               IF name = path[n + 1] THEN f[n + 1] ELSE Child(Lookup(tree, Upto(path, n)), name)
  BY RewriteChild
<1>3. \A name : Child(Lookup(new, Upto(path, 0)), name) = Child(f[0], name)
  <2>1. Lookup(new, Upto(path, 0)) = Dir(new)
    BY LookupEnds
  <2>2. 0 \in 0 .. Len(path) - 1
    BY <1>1
  <2>3. f[0] = Dir(f[0].target) \/ (edit = "delete" /\ f[0] = Absent)
    BY <2>2, RewriteChild DEF Remains
  <2>4. \A t : IsTree(Dir(t)) /\ Dir(t).target = t /\ Subtree(Dir(t)) = t
    BY DEF Dir, IsTree, Subtree
  <2> HIDE DEF new
  <2>5. CASE f[0] = Dir(f[0].target)
    BY <2>1, <2>4, <2>5 DEF Result, new
  <2>6. CASE edit = "delete" /\ f[0] = Absent
    BY <2>1, <2>6 DEF Absent, Subtree, Dir, IsTree, Child, Entry, NoTree, Result, new
  <2> QED BY <2>3, <2>5, <2>6
<1> HIDE DEF new
<1> DEFINE T == {n \in 0 .. Len(path) : n > 0 => Lookup(new, Upto(path, n)) = f[n]}
<1>4. ASSUME NEW n \in 0 .. Len(path) - 1, n \in T
      PROVE  \A name : Child(Lookup(new, Upto(path, n)), name) = Child(f[n], name)
  BY <1>3, <1>4
<1>5. ASSUME NEW n \in 0 .. Len(path) - 1, n \in T PROVE n + 1 \in T
  <2>1. Lookup(new, Upto(path, n + 1)) = Child(Lookup(new, Upto(path, n)), path[n + 1])
    BY LookupNext
  <2>2. Child(Lookup(new, Upto(path, n)), path[n + 1]) = Child(f[n], path[n + 1])
    BY <1>4, <1>5
  <2>3. Child(f[n], path[n + 1]) = f[n + 1]
    BY <1>2
  <2>4. n + 1 \in 0 .. Len(path)
    OBVIOUS
  <2> QED BY <2>1, <2>2, <2>3, <2>4
<1>6. \A n \in 0 .. Len(path) : n \in T
  <2>1. 0 \in T
    OBVIOUS
  <2> HIDE DEF T
  <2> QED BY <1>1, <1>5, <2>1, CountUp
<1>7. ASSUME NEW q \in Seq(S), NEW n \in Nat, Parts(q, path, n) PROVE Lookup(new, q) = Lookup(tree, q)
  <2> DEFINE k == n - 1
  <2>1. k \in 0 .. Len(path) - 1 /\ k \in 0 .. Len(q) - 1 /\ k + 1 = n /\ Upto(q, k) = Upto(path, k)
        /\ q[n] # path[n]
    BY <1>7 DEF Parts
  <2> HIDE DEF k
  <2>2. /\ Lookup(new, Upto(q, n)) = Child(Lookup(new, Upto(path, k)), q[n])
        /\ Lookup(tree, Upto(q, n)) = Child(Lookup(tree, Upto(path, k)), q[n])
    BY <2>1, LookupNext
  <2>3. Child(Lookup(new, Upto(path, k)), q[n]) = Child(f[k], q[n])
    BY <1>4, <1>6, <2>1
  <2>4. Child(f[k], q[n]) = Child(Lookup(tree, Upto(path, k)), q[n])
    BY <1>2, <2>1
  <2>5. n \in 0 .. Len(q) /\ Len(q) \in n .. Len(q) /\ Upto(q, Len(q)) = q
    BY <2>1, UptoEnds
  <2>6. Lookup(new, Upto(q, Len(q))) = Lookup(tree, Upto(q, Len(q)))
    BY <2>2, <2>3, <2>4, <2>5, SameBelow
  <2> QED BY <2>5, <2>6
<1> QED
  BY <1>6, <1>7 DEF new

\* The way to an entry leads through trees.
LEMMA ThroughTrees ==
  ASSUME NEW tree, NEW S, NEW p \in Seq(S), NEW m \in 0 .. Len(p), Lookup(tree, Upto(p, m)) # Absent
  PROVE  \A i \in 0 .. m - 1 : IsTree(Lookup(tree, Upto(p, i)))
<1>1. SUFFICES ASSUME NEW i \in 0 .. m - 1, ~ IsTree(Lookup(tree, Upto(p, i))) PROVE FALSE
  OBVIOUS
<1>2. i \in 0 .. Len(p) /\ i < m
  OBVIOUS
<1> QED
  BY <1>1, <1>2, NothingBelow DEF IsTree

\* Whatever an edit does, off its path and the way there all is as before; on
\* the way it leaves trees that are not empty; at its path is what it inserted,
\* or nothing; and nothing is below.
EditOf(new, tree, path, entry) ==
  /\ Lookup(new, path) = entry
  /\ \A n \in 1 .. Len(path) - 1 :
       LET e == Lookup(new, Upto(path, n))
       IN (IsTree(e) /\ e.target # NoTree) \/ (entry = Absent /\ e = Absent)
  /\ \A q \in AllPaths : IsStrictPrefix(path, q) => Lookup(new, q) = Absent
  /\ \A q \in AllPaths : ~ IsPrefix(path, q) /\ ~ IsPrefix(q, path) => Lookup(new, q) = Lookup(tree, q)

LEMMA RewriteIsEdit ==
  ASSUME NEW tree, NEW entry, NEW f, NEW path \in AllPaths, NEW edit \in {"insert", "delete"},
         IsRewrite(f, edit, tree, path, entry, 0),
         IF edit = "insert" THEN entry.kind \notin {"tree", "none"}
         ELSE entry = Absent /\ Lookup(tree, path) # Absent
  PROVE  EditOf(Result(edit, f), tree, path, entry)
<1> DEFINE new == Result(edit, f)
<1>1. path \in Seq(Names) /\ Len(path) \in Nat \ {0} /\ path # << >>
  BY PathIs
<1>2. IsEdit(f, edit, tree, path, entry)
  <2>1. Upto(path, Len(path)) = path
    BY <1>1, UptoEnds
  <2> QED BY <1>1, <2>1, ThroughTrees DEF IsEdit
<1>3. /\ \A n \in 1 .. Len(path) : Lookup(new, Upto(path, n)) = f[n]
      /\ \A q \in Seq(Names), n \in Nat : Parts(q, path, n) => Lookup(new, q) = Lookup(tree, q)
  BY <1>1, <1>2, Edited
<1> HIDE DEF new
<1>4. f[Len(path)] = entry
  BY DEF IsRewrite
<1>5. Lookup(new, path) = entry
  <2>1. Upto(path, Len(path)) = path /\ Len(path) \in 1 .. Len(path)
    BY <1>1, UptoEnds
  <2> QED BY <1>3, <1>4, <2>1
<1>6. ASSUME NEW n \in 1 .. Len(path) - 1
      PROVE  LET e == Lookup(new, Upto(path, n))
             IN (IsTree(e) /\ e.target # NoTree) \/ (entry = Absent /\ e = Absent)
  <2>1. n \in 0 .. Len(path) - 1 /\ n \in 1 .. Len(path) /\ n + 1 \in 1 .. Len(path) /\ n < Len(path)
    BY <1>1
  <2>2. Lookup(new, Upto(path, n)) = f[n]
    BY <1>3, <2>1
  <2>3. Remains(edit, f, n)
    BY <1>2, <2>1, RewriteChild
  <2>4. f[n] = Dir(f[n].target) => IsTree(f[n])
    BY DEF Dir, IsTree
  <2>5. edit = "delete" => entry = Absent
    OBVIOUS
  <2> QED BY <2>2, <2>3, <2>4, <2>5 DEF Remains
<1>7. ASSUME NEW q \in AllPaths, IsStrictPrefix(path, q) PROVE Lookup(new, q) = Absent
  <2>1. q \in Seq(Names) /\ Len(path) < Len(q) /\ Upto(q, Len(path)) = path /\ Upto(q, Len(q)) = q
    BY <1>1, <1>7, PathIs, PrefixIs, UptoEnds
  <2>2. Lookup(new, Upto(q, Len(path))).kind # "tree"
    BY <1>5, <2>1 DEF Absent
  <2>3. Lookup(new, Upto(q, Len(q))) = Absent
    BY <1>1, <2>1, <2>2, NothingBelow
  <2> QED BY <2>1, <2>3
<1>8. ASSUME NEW q \in AllPaths, ~ IsPrefix(path, q), ~ IsPrefix(q, path)
      PROVE  Lookup(new, q) = Lookup(tree, q)
  <2>1. q \in Seq(Names) /\ Len(q) \in Nat
    BY PathIs
  <2>2. PICK n \in 1 .. Len(q) : Parts(q, path, n)
    BY <1>1, <1>8, <2>1, PathsPart, PrefixIs
  <2> QED BY <1>3, <2>1, <2>2
<1> QED
  BY <1>5, <1>6, <1>7, <1>8 DEF EditOf, new

\* What Insert and Delete do.
LEMMA InsertEdits ==
  ASSUME NEW tree, NEW entry, NEW path \in AllPaths, entry.kind \notin {"tree", "none"}
  PROVE  EditOf(Insert(tree, path, entry), tree, path, entry)
<1>1. Len(path) \in Nat
  BY PathIs
<1>2. PICK f : IsRewrite(f, "insert", tree, path, entry, 0) /\ Insert(tree, path, entry) = f[0].target
  BY <1>1, InsertIs
<1>3. EditOf(Result("insert", f), tree, path, entry)
  BY <1>2, RewriteIsEdit
<1> QED
  BY <1>2, <1>3 DEF Result

LEMMA DeleteEdits ==
  ASSUME NEW tree, NEW path \in AllPaths, Lookup(tree, path) # Absent
  PROVE  EditOf(Delete(tree, path), tree, path, Absent)
<1>1. Len(path) \in Nat
  BY PathIs
<1>2. PICK f : IsRewrite(f, "delete", tree, path, Absent, 0) /\ Delete(tree, path) = Subtree(f[0])
  BY <1>1, DeleteIs
<1>3. EditOf(Result("delete", f), tree, path, Absent)
  BY <1>2, RewriteIsEdit
<1> QED
  BY <1>2, <1>3 DEF Result

\* What is on the way to where something is, or may be put, is no file.
NoFileOnTheWay(tree, path) ==
  \A q \in AllPaths : IsStrictPrefix(q, path) => ~ IsLeaf(Lookup(tree, q))

\* So the files that an edit leaves are those that are not below its path, and
\* what it puts there.
LEMMA FilesAfter ==
  ASSUME NEW new, NEW tree, NEW entry, NEW path \in AllPaths,
         EditOf(new, tree, path, entry), NoFileOnTheWay(tree, path), entry = Absent \/ IsLeaf(entry)
  PROVE  \A q \in AllPaths :
           IF q = path THEN Lookup(new, q) = entry
           ELSE IF IsPrefix(path, q) THEN ~ IsLeaf(Lookup(new, q))
           ELSE /\ IsLeaf(Lookup(new, q)) <=> IsLeaf(Lookup(tree, q))
                /\ IsLeaf(Lookup(tree, q)) => Lookup(new, q) = Lookup(tree, q)
<1>1. SUFFICES ASSUME NEW q \in AllPaths, q # path
      PROVE  IF IsPrefix(path, q) THEN ~ IsLeaf(Lookup(new, q))
             ELSE /\ IsLeaf(Lookup(new, q)) <=> IsLeaf(Lookup(tree, q))
                  /\ IsLeaf(Lookup(tree, q)) => Lookup(new, q) = Lookup(tree, q)
  BY DEF EditOf
<1>2. ~ IsLeaf(Absent)
  BY DEF IsLeaf, Absent
<1>3. CASE IsPrefix(path, q)
  <2>1. IsStrictPrefix(path, q)
    BY <1>1, <1>3 DEF IsStrictPrefix
  <2> QED BY <1>2, <1>3, <2>1 DEF EditOf
<1>4. CASE ~ IsPrefix(path, q) /\ IsPrefix(q, path)
  <2>1. IsStrictPrefix(q, path)
    BY <1>1, <1>4 DEF IsStrictPrefix
  <2>2. /\ path \in Seq(Names) /\ q \in Seq(Names) /\ Len(q) \in 1 .. Len(path) - 1
        /\ Upto(path, Len(q)) = q
    BY <2>1, PathIs, PrefixIs
  <2>3. IsTree(Lookup(new, q)) \/ Lookup(new, q) = Absent
    BY <2>2 DEF EditOf
  <2>4. ~ IsLeaf(Lookup(new, q))
    BY <1>2, <2>3 DEF IsLeaf, IsTree
  <2> QED BY <1>4, <2>1, <2>4 DEF NoFileOnTheWay
<1>5. CASE ~ IsPrefix(path, q) /\ ~ IsPrefix(q, path)
  BY <1>5 DEF EditOf
<1> QED
  BY <1>3, <1>4, <1>5

LEMMA InsertWay ==
  ASSUME NEW tree, NEW path \in AllPaths, CanInsert(tree, path)
  PROVE  NoFileOnTheWay(tree, path)
<1> SUFFICES ASSUME NEW q \in AllPaths, IsStrictPrefix(q, path) PROVE ~ IsLeaf(Lookup(tree, q))
  BY DEF NoFileOnTheWay
<1>1. Len(q) \in 1 .. Len(path) - 1 /\ Upto(path, Len(q)) = q
  BY PathIs, PrefixIs
<1>2. Lookup(tree, Upto(path, Len(q))).kind \in {"tree", "none"}
  BY <1>1 DEF CanInsert
<1> QED
  BY <1>1, <1>2 DEF IsLeaf

LEMMA DeleteWay ==
  ASSUME NEW tree, NEW path \in AllPaths, Lookup(tree, path) # Absent
  PROVE  NoFileOnTheWay(tree, path)
<1> SUFFICES ASSUME NEW q \in AllPaths, IsStrictPrefix(q, path) PROVE ~ IsLeaf(Lookup(tree, q))
  BY DEF NoFileOnTheWay
<1>1. /\ Len(q) \in 0 .. Len(path) - 1 /\ Upto(path, Len(q)) = q
      /\ path \in Seq(Names) /\ Len(path) \in 0 .. Len(path) /\ Upto(path, Len(path)) = path
  BY PathIs, PrefixIs, UptoEnds
<1>2. IsTree(Lookup(tree, Upto(path, Len(q))))
  BY <1>1, ThroughTrees
<1> QED
  BY <1>1, <1>2 DEF IsLeaf, IsTree

\* The empty trees that an edit leaves are those off its path.
LEMMA EmptyDirsAfter ==
  ASSUME NEW new, NEW tree, NEW entry, NEW path \in AllPaths,
         EditOf(new, tree, path, entry), ~ IsTree(entry)
  PROVE  EmptyDirs(new) = {q \in EmptyDirs(tree) : ~ IsPrefix(path, q) /\ ~ IsPrefix(q, path)}
<1> SUFFICES ASSUME NEW q \in AllPaths, IsTree(Lookup(new, q)), Lookup(new, q).target = NoTree
             PROVE  ~ IsPrefix(path, q) /\ ~ IsPrefix(q, path)
  BY DEF EmptyDirs, EditOf
<1>1. ~ IsTree(Absent)
  BY DEF IsTree, Absent
<1>2. q # path
  BY DEF EditOf
<1>3. ~ IsPrefix(path, q)
  <2>1. SUFFICES ASSUME IsPrefix(path, q) PROVE FALSE
    OBVIOUS
  <2>2. IsStrictPrefix(path, q)
    BY <1>2, <2>1 DEF IsStrictPrefix
  <2> QED BY <1>1, <2>2 DEF EditOf
<1>4. ~ IsPrefix(q, path)
  <2>1. SUFFICES ASSUME IsPrefix(q, path) PROVE FALSE
    OBVIOUS
  <2>2. IsStrictPrefix(q, path)
    BY <1>2, <2>1 DEF IsStrictPrefix
  <2>3. Len(q) \in 1 .. Len(path) - 1 /\ Upto(path, Len(q)) = q
    BY <2>2, PathIs, PrefixIs
  <2>4. Lookup(new, q).target # NoTree \/ Lookup(new, q) = Absent
    BY <2>3 DEF EditOf
  <2> QED BY <1>1, <2>4
<1> QED
  BY <1>3, <1>4

-----------------------------------------------------------------------------
(* The history of a change, which only grows *)

History == trees # << >> /\ \E S : trees \in Seq(S)

Leaves == {File(b) : b \in Blobs} \cup {Sealed(Secret)}

\* What a request writes is a leaf.
LEMMA LeavesAreLeaves ==
  ASSUME NEW leaf \in Leaves
  PROVE  IsLeaf(leaf) /\ leaf # Absent /\ leaf.kind \notin {"tree", "none"}
BY DEF Leaves, File, Sealed, IsLeaf, Absent

\* Record appends a tree.
LEMMA RecordAppends ==
  ASSUME NEW tree, History, Record(tree)
  PROVE  /\ History' /\ Len(trees) \in Nat \ {0} /\ Len(trees') = Len(trees) + 1
         /\ tip' = tree /\ \A i \in 1 .. Len(trees) : trees'[i] = trees[i]
<1>1. PICK S : trees \in Seq(S)
  BY DEF History
<1> DEFINE Z == S \cup {tree}
<1>2. trees \in Seq(Z) /\ tree \in Z /\ trees # << >>
  BY <1>1 DEF History
<1>3. trees' = Append(trees, tree)
  BY DEF Record
<1> HIDE DEF Z
<1>4. /\ Append(trees, tree) \in Seq(Z) /\ Append(trees, tree) # << >>
      /\ Len(Append(trees, tree)) = Len(trees) + 1
      /\ \A i \in 1 .. Len(trees) : Append(trees, tree)[i] = trees[i]
      /\ Append(trees, tree)[Len(trees) + 1] = tree
  BY <1>2, AppendProperties
<1>5. Len(trees) \in Nat \ {0}
  BY <1>2
<1> QED
  BY <1>3, <1>4, <1>5 DEF History, tip

\* A request at a path edits the tip's tree there.
LEMMA RequestIsEdit ==
  ASSUME History, NEW path \in Paths, EditAt(path)
  PROVE  /\ History' /\ Len(trees) \in Nat \ {0} /\ Len(trees') = Len(trees) + 1
         /\ \A i \in 1 .. Len(trees) : trees'[i] = trees[i]
         /\ \E entry \in Leaves \cup {Absent} :
              /\ EditOf(tip', tip, path, entry) /\ NoFileOnTheWay(tip, path)
<1>1. (\E blob \in Blobs : Patch(path, blob)) \/ Seal(path) \/ DeletePath(path)
  BY DEF EditAt
<1>2. path \in AllPaths
  BY PathsFit
<1>3. ASSUME NEW leaf \in Leaves, CanInsert(tip, path), Record(Insert(tip, path, leaf))
      PROVE  EditOf(tip', tip, path, leaf) /\ NoFileOnTheWay(tip, path)
  <2>1. EditOf(Insert(tip, path, leaf), tip, path, leaf)
    BY <1>2, LeavesAreLeaves, InsertEdits
  <2> QED BY <1>2, <1>3, <2>1, RecordAppends, InsertWay
<1>4. CASE \E blob \in Blobs : Patch(path, blob)
  <2>1. PICK blob \in Blobs : Patch(path, blob)
    BY <1>4
  <2>2. File(blob) \in Leaves
    BY DEF Leaves
  <2>3. CanInsert(tip, path) /\ Record(Insert(tip, path, File(blob)))
    BY <2>1 DEF Patch
  <2> QED BY <1>3, <2>2, <2>3, RecordAppends
<1>5. CASE Seal(path)
  <2>1. Sealed(Secret) \in Leaves
    BY DEF Leaves
  <2>2. CanInsert(tip, path) /\ Record(Insert(tip, path, Sealed(Secret)))
    BY <1>5 DEF Seal
  <2> QED BY <1>3, <2>1, <2>2, RecordAppends
<1>6. CASE DeletePath(path)
  <2>1. Lookup(tip, path) # Absent /\ Record(Delete(tip, path))
    BY <1>6 DEF DeletePath
  <2>2. EditOf(Delete(tip, path), tip, path, Absent) /\ NoFileOnTheWay(tip, path)
    BY <1>2, <2>1, DeleteEdits, DeleteWay
  <2> QED BY <2>1, <2>2, RecordAppends
<1> QED
  BY <1>1, <1>4, <1>5, <1>6

\* So each step is an edit of it.
LEMMA StepIsEdit ==
  ASSUME History, Next
  PROVE  /\ History' /\ Len(trees) \in Nat \ {0} /\ Len(trees') = Len(trees) + 1
         /\ \A i \in 1 .. Len(trees) : trees'[i] = trees[i]
         /\ \E path \in Paths, entry \in Leaves \cup {Absent} :
              /\ EditOf(tip', tip, path, entry) /\ NoFileOnTheWay(tip, path)
BY RequestIsEdit DEF Next

LEMMA HistoryInvariant == Spec => []History
<1>1. Init => History
  <2> SUFFICES ASSUME NEW tree, trees = <<tree>> PROVE History
    BY DEF Init
  <2>1. trees \in Seq({tree}) /\ trees # << >>
    OBVIOUS
  <2> QED BY <2>1 DEF History
<1>2. History /\ [Next]_trees => History'
  BY StepIsEdit DEF History
<1> QED
  BY <1>1, <1>2, PTL DEF Spec

-----------------------------------------------------------------------------
(* Edits *)

\* An edit of the tree puts or deletes a file.
LEMMA EditIsFlat ==
  ASSUME NEW path \in Paths, NEW entry \in Leaves \cup {Absent},
         EditOf(tip', tip, path, entry), NoFileOnTheWay(tip, path)
  PROVE  Flat!Next
<1>1. path \in AllPaths /\ path \in Seq(Names)
  BY PathsFit, PathIs
<1>2. entry = Absent \/ IsLeaf(entry)
  BY LeavesAreLeaves
<1>3. \A q \in AllPaths :
        IF q = path THEN Lookup(tip', q) = entry
        ELSE IF IsPrefix(path, q) THEN ~ IsLeaf(Lookup(tip', q))
        ELSE /\ IsLeaf(Lookup(tip', q)) <=> IsLeaf(Lookup(tip, q))
             /\ IsLeaf(Lookup(tip, q)) => Lookup(tip', q) = Lookup(tip, q)
  BY <1>1, <1>2, FilesAfter
<1>4. IsPrefix(path, path)
  BY <1>1, UptoEnds, PrefixIs
<1>5. /\ DOMAIN Files(tip) = {q \in AllPaths : IsLeaf(Lookup(tip, q))}
      /\ \A q \in DOMAIN Files(tip) : Files(tip)[q] = Lookup(tip, q)
      /\ Files(tip') = [q \in {q \in AllPaths : IsLeaf(Lookup(tip', q))} |-> Lookup(tip', q)]
      /\ Files(tip)' = Files(tip')
  BY DEF Files, LeafPaths
<1>6. /\ Flat!Below(path) = {q \in DOMAIN Files(tip) : IsPrefix(path, q)}
      /\ Flat!Through(path) = {q \in DOMAIN Files(tip) : IsStrictPrefix(q, path)}
  BY DEF Flat!Below, Flat!Through, Flat!IsPrefix, Flat!IsStrictPrefix, IsPrefix, IsStrictPrefix
<1>7. CASE entry = Absent
  <2>1. ~ IsLeaf(Absent)
    BY DEF IsLeaf, Absent
  <2>2. Files(tip') = [q \in DOMAIN Files(tip) \ Flat!Below(path) |-> Files(tip)[q]]
    <3>1. {q \in AllPaths : IsLeaf(Lookup(tip', q))} = DOMAIN Files(tip) \ Flat!Below(path)
      BY <1>3, <1>4, <1>5, <1>6, <1>7, <2>1
    <3>2. \A q \in DOMAIN Files(tip) \ Flat!Below(path) : Lookup(tip', q) = Files(tip)[q]
      BY <1>3, <1>4, <1>5, <1>6, <3>1
    <3> QED BY <1>5, <3>1, <3>2
  <2>3. Flat!Delete(path)
    BY <1>5, <2>2 DEF Flat!Delete
  <2> QED BY <2>3 DEF Flat!Next
<1>8. CASE entry \in Leaves
  <2>1. IsLeaf(entry)
    BY <1>8, LeavesAreLeaves
  <2>2. Flat!Through(path) = {}
    BY <1>5, <1>6 DEF NoFileOnTheWay
  <2>3. Files(tip') = [q \in (DOMAIN Files(tip) \ Flat!Below(path)) \cup {path} |->
                         IF q = path THEN entry ELSE Files(tip)[q]]
    <3>1. {q \in AllPaths : IsLeaf(Lookup(tip', q))} = (DOMAIN Files(tip) \ Flat!Below(path)) \cup {path}
      BY <1>1, <1>3, <1>4, <1>5, <1>6, <2>1
    <3>2. \A q \in (DOMAIN Files(tip) \ Flat!Below(path)) \cup {path} :
            Lookup(tip', q) = IF q = path THEN entry ELSE Files(tip)[q]
      BY <1>1, <1>3, <1>5, <1>6, <3>1
    <3> QED BY <1>5, <3>1, <3>2
  <2>4. Flat!Put(path, entry)
    BY <1>5, <2>2, <2>3 DEF Flat!Put
  <2> QED BY <1>8, <2>4 DEF Flat!Next, Leaves
<1> QED
  BY <1>7, <1>8

\* Whatever the names, the depth and the texts, PATCH and DELETE of a path and
\* `tig seal` change the files at and below their path and no others.
THEOREM EditsImplementFiles == Spec => EditsAreFlat
<1>1. History /\ [Next]_trees => [Flat!Next]_(Files(tip))
  <2>1. CASE UNCHANGED trees
    <3>1. tip' = tip
      BY <2>1 DEF tip
    <3>2. Files(tip)' = Files(tip)
      BY <3>1 DEF Files, LeafPaths
    <3> QED BY <3>2
  <2>2. CASE History /\ Next
    BY <2>2, StepIsEdit, EditIsFlat
  <2> QED BY <2>1, <2>2
<1>2. (Spec => [][Flat!Next]_(Files(tip))) => (Spec => EditsAreFlat)
  BY DEF EditsAreFlat, Flat!Spec
<1> QED
  BY <1>1, <1>2, HistoryInvariant, PTL DEF Spec

\* Each edit prunes the directories it empties and leaves the other empty ones
\* (rewrite_remove, rewrite_insert), for any trees, names and depth.
THEOREM EditsPrune == Spec => PrunesOnItsPath
<1> DEFINE Prunes == \A path \in Paths : EditAt(path) =>
             EmptyDirs(tip') = {q \in EmptyDirs(tip) : ~ IsPrefix(path, q) /\ ~ IsPrefix(q, path)}
<1>1. History => Prunes
  <2> SUFFICES ASSUME History, NEW path \in Paths, EditAt(path)
               PROVE  EmptyDirs(tip') = {q \in EmptyDirs(tip) : ~ IsPrefix(path, q) /\ ~ IsPrefix(q, path)}
    OBVIOUS
  <2>1. PICK entry \in Leaves \cup {Absent} : EditOf(tip', tip, path, entry)
    BY RequestIsEdit
  <2>2. path \in AllPaths /\ ~ IsTree(entry)
    BY <2>1, PathsFit, LeavesAreLeaves DEF IsTree, Absent
  <2> QED BY <2>1, <2>2, EmptyDirsAfter
<1>2. History /\ [Next]_trees => [Prunes]_trees
  BY <1>1
<1> QED
  BY <1>2, HistoryInvariant, PTL DEF Spec, PrunesOnItsPath

-----------------------------------------------------------------------------
(* Diffs *)

\* The changes of a diff, when the trees are not the same.
Changed(from, to, filters, path) ==
  /\ path \in AllPaths /\ (Lookup(from, path) # Absent \/ Lookup(to, path) # Absent)
  /\ ComesTo(from, to, filters, path)
  /\ ~ ({Lookup(from, path).kind, Lookup(to, path).kind} \subseteq {"tree", "none"})

LEMMA DiffIs ==
  ASSUME NEW from, NEW to, NEW filters
  PROVE  /\ \A d \in DiffTrees(from, to, filters) :
              /\ from # to /\ Changed(from, to, filters, d.path)
              /\ d = Change(d.path, Lookup(from, d.path), Lookup(to, d.path))
         /\ from # to => \A path : Changed(from, to, filters, path) =>
              Change(path, Lookup(from, path), Lookup(to, path)) \in DiffTrees(from, to, filters)
<1>1. \A path, f, t : Change(path, f, t).path = path
  BY DEF Change
<1> QED
  BY <1>1 DEF DiffTrees, DiffSubtree, Changed, PathsIn

\* A path that a filter asks for is reached under that filter, and the paths on
\* the way to it.
LEMMA FilterLetsThrough ==
  ASSUME NEW f \in Filters, NEW path \in AllPaths, NEW n \in 1 .. Len(path), Under(path, f)
  PROVE  Under(Upto(path, n), f) \/ Above(Upto(path, n), f)
<1> DEFINE parts == f.parts
           k == Len(parts)
           p == Upto(path, n)
<1>1. path \in Seq(Names) /\ Len(path) \in Nat
  BY PathIs
<1>2. parts \in Seq(Names) /\ k \in Nat \ {0} /\ f.slash \in BOOLEAN
  BY FiltersFit
<1>3. Len(p) = n /\ \A i \in 1 .. n : p[i] = path[i]
  BY <1>1, UptoIs
<1>4. /\ Len(path) >= k /\ \A i \in 1 .. k - 1 : path[i] = parts[i]
      /\ IF f.slash THEN Len(path) > k /\ path[k] = parts[k] ELSE <<parts[k], path[k]>> \in Begins
  BY DEF Under, SameUpTo
<1> HIDE DEF parts, k, p
<1>5. CASE n < k \/ (n = k /\ f.slash)
  <2>1. p[n] = parts[n] /\ parts[n] \in Names /\ n <= k
    <3>1. n \in 1 .. k
      BY <1>2, <1>5
    <3>2. parts[n] \in Names
      BY <1>2, <3>1 DEF k
    <3>3. path[n] = parts[n]
      BY <1>2, <1>4, <1>5
    <3> QED BY <1>3, <3>1, <3>2, <3>3
  <2>2. <<p[n], parts[n]>> \in Begins
    BY <2>1, BeginsOnNames
  <2>3. SameUpTo(p, parts, n - 1)
    BY <1>2, <1>3, <1>4, <1>5 DEF SameUpTo
  <2>4. Above(p, f)
    BY <1>3, <2>1, <2>2, <2>3 DEF Above, parts, k
  <2> QED BY <2>4 DEF p
<1>6. CASE n > k \/ (n = k /\ ~ f.slash)
  <2>1. SameUpTo(p, parts, k - 1) /\ n >= k /\ p[k] = path[k]
    BY <1>2, <1>3, <1>4, <1>6 DEF SameUpTo
  <2>2. IF f.slash THEN n > k /\ p[k] = parts[k] ELSE <<parts[k], p[k]>> \in Begins
    BY <1>4, <1>6, <2>1
  <2>3. Under(p, f)
    BY <1>3, <2>1, <2>2 DEF Under, parts, k
  <2> QED BY <2>3 DEF p
<1> QED
  BY <1>2, <1>5, <1>6

\* Whatever the trees, names and filters, a diff under a filter skips no subtree
\* in which there is a change that the filter asks for.
THEOREM FiltersKeep == Spec => []FilterKeepsAskedFor
<1>1. FilterKeepsAskedFor
  <2> SUFFICES ASSUME NEW i \in Earlier, NEW f \in Filters
               PROVE  LET all == DiffTo(i, {})
                          some == DiffTo(i, {f})
                      IN /\ some \subseteq all
                         /\ \A d \in all : Under(d.path, f) => d \in some
                         /\ \A d \in some : Under(d.path, f) \/ Above(d.path, f)
    BY DEF FilterKeepsAskedFor
  <2> DEFINE from == TreeAt(i)
             to == tip
  <2>1. \A path : PassesEitherWay(path, {}) /\
                  (PassesEitherWay(path, {f}) <=> Under(path, f) \/ Above(path, f))
    BY DEF PassesEitherWay
  <2>2. DiffTo(i, {}) = DiffTrees(from, to, {}) /\ DiffTo(i, {f}) = DiffTrees(from, to, {f})
    BY DEF DiffTo
  <2> HIDE DEF from, to
  <2>3. \A path : Changed(from, to, {f}, path) => Changed(from, to, {}, path)
    BY <2>1 DEF Changed, ComesTo
  <2>4. ASSUME NEW path, Changed(from, to, {}, path), Under(path, f)
        PROVE  Changed(from, to, {f}, path)
    <3>1. path \in AllPaths
      BY <2>4 DEF Changed
    <3>2. \A n \in 1 .. Len(path) : PassesEitherWay(Upto(path, n), {f})
      BY <2>1, <2>4, <3>1, FilterLetsThrough
    <3> QED BY <2>4, <3>2 DEF Changed, ComesTo
  <2>5. ASSUME NEW path, Changed(from, to, {f}, path) PROVE Under(path, f) \/ Above(path, f)
    <3>1. path \in AllPaths /\ ComesTo(from, to, {f}, path)
      BY <2>5 DEF Changed
    <3>2. Len(path) \in 1 .. Len(path) /\ Upto(path, Len(path)) = path
      BY <3>1, PathIs, UptoEnds
    <3>3. PassesEitherWay(Upto(path, Len(path)), {f})
      BY <3>1, <3>2 DEF ComesTo
    <3> QED BY <2>1, <3>2, <3>3
  <2>6. DiffTrees(from, to, {f}) \subseteq DiffTrees(from, to, {})
    <3> SUFFICES ASSUME NEW d \in DiffTrees(from, to, {f}) PROVE d \in DiffTrees(from, to, {})
      OBVIOUS
    <3>1. from # to /\ Changed(from, to, {f}, d.path) /\ d = Change(d.path, Lookup(from, d.path), Lookup(to, d.path))
      BY DiffIs
    <3>2. Changed(from, to, {}, d.path)
      BY <2>3, <3>1
    <3> QED BY <3>1, <3>2, DiffIs
  <2>7. ASSUME NEW d \in DiffTrees(from, to, {}), Under(d.path, f) PROVE d \in DiffTrees(from, to, {f})
    <3>1. from # to /\ Changed(from, to, {}, d.path) /\ d = Change(d.path, Lookup(from, d.path), Lookup(to, d.path))
      BY DiffIs
    <3>2. Changed(from, to, {f}, d.path)
      BY <2>4, <2>7, <3>1
    <3> QED BY <3>1, <3>2, DiffIs
  <2>8. \A d \in DiffTrees(from, to, {f}) : Under(d.path, f) \/ Above(d.path, f)
    BY <2>5, DiffIs
  <2> QED BY <2>2, <2>6, <2>7, <2>8
<1> QED
  BY <1>1, PTL

\* Following the rest of a path from where its beginning leads.
LEMMA FollowBeyond ==
  ASSUME NEW tree, NEW S, NEW q \in Seq(S), NEW k \in 0 .. Len(q)
  PROVE  Follow(Lookup(tree, Upto(q, k)), Beyond(q, k)) = Lookup(tree, q)
<1> DEFINE r == Beyond(q, k)
           e == Lookup(tree, Upto(q, k))
           T == {j \in 0 .. Len(r) : Follow(e, Upto(r, j)) = Lookup(tree, Upto(q, k + j))}
<1>1. r \in Seq(S) /\ Len(r) = Len(q) - k /\ Len(r) \in Nat /\ \A j \in 1 .. Len(r) : r[j] = q[k + j]
  BY DEF Beyond
<1> HIDE DEF r
<1>2. 0 \in T
  <2>1. k + 0 = k
    OBVIOUS
  <2> QED BY <1>1, <2>1, FollowStep
<1>3. ASSUME NEW j \in 0 .. Len(r) - 1, j \in T PROVE j + 1 \in T
  <2> DEFINE n == j + 1
  <2>1. n \in 1 .. Len(r) /\ n - 1 = j
    BY <1>1
  <2> HIDE DEF n
  <2>2. Follow(e, Upto(r, n)) = Child(Follow(e, Upto(r, j)), r[n])
    BY <1>1, <2>1, FollowStep
  <2>3. k + j \in 0 .. Len(q) - 1 /\ k + j + 1 = k + n /\ n \in 0 .. Len(r)
    BY <1>1 DEF n
  <2>4. Lookup(tree, Upto(q, k + j + 1)) = Child(Lookup(tree, Upto(q, k + j)), q[k + j + 1])
    BY <2>3, LookupNext
  <2>5. Lookup(tree, Upto(q, k + n)) = Child(Lookup(tree, Upto(q, k + j)), r[n])
    BY <1>1, <2>1, <2>3, <2>4
  <2>6. n \in T
    BY <1>3, <2>2, <2>3, <2>5
  <2> QED BY <2>6 DEF n
<1>4. Len(r) \in T
  <2> HIDE DEF T
  <2>1. Len(r) \in 0 .. Len(r)
    BY <1>1
  <2> QED BY <1>1, <1>2, <1>3, <2>1, CountUp
<1>5. k + Len(r) = Len(q) /\ Upto(q, Len(q)) = q /\ Upto(r, Len(r)) = r
  BY <1>1, UptoEnds
<1> QED
  BY <1>4, <1>5 DEF r

\* Entries that hold the same, whatever their modes.
SameContent(e, d) == e.kind = d.kind /\ e.target = d.target

\* A path of which no part is in a diff is the same on both sides, or on both
\* sides no file.
LEMMA UnchangedOffDiff ==
  ASSUME NEW from, NEW to, from # to, NEW q \in AllPaths,
         \A n \in 1 .. Len(q) : ~ Changed(from, to, {}, Upto(q, n))
  PROVE  LET f == Lookup(from, q) t == Lookup(to, q)
         IN SameContent(f, t) \/ (~ IsLeaf(f) /\ ~ IsLeaf(t))
<1> DEFINE F(n) == Lookup(from, Upto(q, n))
           G(n) == Lookup(to, Upto(q, n))
           T == {n \in 0 .. Len(q) : n > 0 =>
                   SameContent(F(n), G(n)) \/ ComesTo(from, to, {}, Upto(q, n))}
<1>1. q \in Seq(Names) /\ Len(q) \in Nat \ {0}
  BY PathIs
<1>2. \A n \in 1 .. Len(q) : Upto(q, n) \in AllPaths /\ Len(Upto(q, n)) = n
                             /\ \A k \in 0 .. n : Upto(Upto(q, n), k) = Upto(q, k)
  BY <1>1, UptoIs, UptoIsPath
<1>3. ASSUME NEW n \in 1 .. Len(q)
      PROVE  ComesTo(from, to, {}, Upto(q, n)) <=>
               \A k \in 1 .. n : /\ ~ SameContent(F(k), G(k))
                                 /\ k < n => {F(k).kind, G(k).kind} \subseteq {"tree", "none"}
  <2>1. Len(Upto(q, n)) = n /\ \A k \in 1 .. n : Upto(Upto(q, n), k) = Upto(q, k)
    BY <1>2
  <2> QED BY <2>1 DEF ComesTo, PassesEitherWay, SameContent
<1>4. ASSUME NEW n \in 1 .. Len(q), ComesTo(from, to, {}, Upto(q, n))
      PROVE  {F(n).kind, G(n).kind} \subseteq {"tree", "none"}
  <2>1. Upto(q, n) \in AllPaths /\ ~ Changed(from, to, {}, Upto(q, n))
    BY <1>2
  <2>2. CASE F(n) = Absent /\ G(n) = Absent
    BY <2>2 DEF Absent
  <2>3. CASE F(n) # Absent \/ G(n) # Absent
    BY <1>4, <2>1, <2>3 DEF Changed
  <2> QED BY <2>2, <2>3
<1>5. ASSUME NEW n \in 0 .. Len(q) - 1, n \in T PROVE n + 1 \in T
  <2> DEFINE m == n + 1
  <2>1. m \in 1 .. Len(q) /\ m \in 0 .. Len(q) /\ \A k \in 1 .. m : k = m \/ k \in 1 .. n
    BY <1>1
  <2>2. F(m) = Child(F(n), q[m]) /\ G(m) = Child(G(n), q[m])
    BY <1>1, LookupNext
  <2>3. CASE n > 0 /\ SameContent(F(n), G(n))
    <3>1. F(m) = G(m)
      BY <2>2, <2>3 DEF SameContent, Child, IsTree
    <3> QED BY <2>1, <3>1 DEF SameContent
  <2>4. CASE n = 0 \/ ComesTo(from, to, {}, Upto(q, n))
    <3>1. SUFFICES ASSUME ~ SameContent(F(m), G(m)) PROVE ComesTo(from, to, {}, Upto(q, m))
      BY <2>1
    <3>2. ASSUME NEW k \in 1 .. m
          PROVE  /\ ~ SameContent(F(k), G(k))
                 /\ k < m => {F(k).kind, G(k).kind} \subseteq {"tree", "none"}
      <4>1. CASE k = m
        BY <3>1, <4>1
      <4>2. CASE k \in 1 .. n
        <5>1. n \in 1 .. Len(q) /\ ComesTo(from, to, {}, Upto(q, n)) /\ k <= n
          BY <2>4, <4>2
        <5>2. /\ ~ SameContent(F(k), G(k))
              /\ k < n => {F(k).kind, G(k).kind} \subseteq {"tree", "none"}
          BY <1>3, <4>2, <5>1
        <5>3. {F(n).kind, G(n).kind} \subseteq {"tree", "none"}
          BY <1>4, <5>1
        <5>4. k < n \/ k = n
          BY <4>2
        <5> QED BY <5>2, <5>3, <5>4
      <4> QED BY <2>1, <4>1, <4>2
    <3> QED BY <1>3, <2>1, <3>2
  <2> QED BY <1>5, <2>3, <2>4
<1>6. Len(q) \in T
  <2>1. 0 \in T
    OBVIOUS
  <2>2. Len(q) \in 0 .. Len(q) /\ Len(q) \in Nat
    BY <1>1
  <2> HIDE DEF T
  <2> QED BY <1>5, <2>1, <2>2, CountUp
<1>7. Upto(q, Len(q)) = q /\ Len(q) \in 1 .. Len(q)
  BY <1>1, UptoEnds
<1> QED
  BY <1>4, <1>6, <1>7 DEF IsLeaf

\* Putting a diff's changes in leads from the one tree's files to the other's.
LEMMA DiffPatches ==
  ASSUME NEW from, NEW to
  PROVE  Content(Patched(Files(from), DiffTrees(from, to, {}))) = Content(Files(to))
<1> DEFINE diff == DiffTrees(from, to, {})
           had == Files(from)
           new(d, q) == Follow(d.to, Beyond(q, Len(d.path)))
           gone == {q \in DOMAIN had : \E d \in diff : IsPrefix(d.path, q)}
           come == {q \in AllPaths : \E d \in diff : IsPrefix(d.path, q) /\ IsLeaf(new(d, q))}
           then == Patched(had, diff)
<1>1. /\ DOMAIN then = (DOMAIN had \ gone) \cup come
      /\ \A q \in DOMAIN then : then[q] =
           IF q \in come THEN new(CHOOSE d \in diff : IsPrefix(d.path, q), q) ELSE had[q]
  BY DEF Patched
<1>2. /\ DOMAIN had = {q \in AllPaths : IsLeaf(Lookup(from, q))}
      /\ \A q \in DOMAIN had : had[q] = Lookup(from, q)
      /\ DOMAIN Files(to) = {q \in AllPaths : IsLeaf(Lookup(to, q))}
      /\ \A q \in DOMAIN Files(to) : Files(to)[q] = Lookup(to, q)
  BY DEF Files, LeafPaths
<1>3. ASSUME NEW q \in AllPaths, NEW d \in diff, IsPrefix(d.path, q)
      PROVE  new(d, q) = Lookup(to, q)
  <2>1. d.path \in AllPaths /\ d = Change(d.path, Lookup(from, d.path), Lookup(to, d.path))
    BY DiffIs DEF Changed
  <2>2. d.to = Lookup(to, d.path)
    BY <2>1 DEF Change
  <2>3. /\ q \in Seq(Names) /\ d.path \in Seq(Names) /\ Len(d.path) \in 0 .. Len(q)
        /\ Upto(q, Len(d.path)) = d.path
    BY <1>3, <2>1, PathIs, PrefixIs
  <2> QED BY <2>2, <2>3, FollowBeyond
<1> HIDE DEF had, new, then
<1>4. ASSUME NEW q \in AllPaths
      PROVE  /\ q \in DOMAIN then <=> q \in DOMAIN Files(to)
             /\ q \in DOMAIN then => SameContent(then[q], Files(to)[q])
  <2>1. CASE \E d \in diff : IsPrefix(d.path, q)
    <3>1. (CHOOSE d \in diff : IsPrefix(d.path, q)) \in diff
          /\ IsPrefix((CHOOSE d \in diff : IsPrefix(d.path, q)).path, q)
      BY <2>1
    <3>2. new(CHOOSE d \in diff : IsPrefix(d.path, q), q) = Lookup(to, q)
      BY <1>3, <3>1
    <3>3. q \in come <=> IsLeaf(Lookup(to, q))
      BY <1>3, <2>1
    <3>4. q \notin DOMAIN had \ gone
      BY <2>1
    <3> HIDE DEF come, gone
    <3> QED BY <1>1, <1>2, <3>2, <3>3, <3>4 DEF SameContent
  <2>2. CASE ~ \E d \in diff : IsPrefix(d.path, q)
    <3>1. SameContent(Lookup(from, q), Lookup(to, q))
            \/ (~ IsLeaf(Lookup(from, q)) /\ ~ IsLeaf(Lookup(to, q)))
      <4>1. CASE from = to
        BY <4>1 DEF SameContent
      <4>2. CASE from # to
        <5>1. ASSUME NEW n \in 1 .. Len(q), Changed(from, to, {}, Upto(q, n)) PROVE FALSE
          <6> DEFINE d == Change(Upto(q, n), Lookup(from, Upto(q, n)), Lookup(to, Upto(q, n)))
          <6>1. d \in diff /\ d.path = Upto(q, n)
            BY <4>2, <5>1, DiffIs DEF Change
          <6>2. q \in Seq(Names) /\ Upto(q, n) \in Seq(Names) /\ Len(Upto(q, n)) = n /\ n <= Len(q)
            BY PathIs, UptoIs
          <6>3. IsPrefix(Upto(q, n), q)
            BY <6>2, PrefixIs
          <6> HIDE DEF d
          <6> QED BY <2>2, <6>1, <6>3
        <5> QED BY <4>2, <5>1, UnchangedOffDiff
      <4> QED BY <4>1, <4>2
    <3>2. q \notin come /\ q \notin gone
      BY <2>2
    <3> HIDE DEF come, gone
    <3> QED BY <1>1, <1>2, <3>1, <3>2 DEF SameContent, IsLeaf
  <2> QED BY <2>1, <2>2
<1>5. DOMAIN then \subseteq AllPaths /\ DOMAIN Files(to) \subseteq AllPaths
  BY <1>1, <1>2
<1>6. DOMAIN then = DOMAIN Files(to)
  BY <1>4, <1>5
<1>7. \A q \in DOMAIN then : SameContent(then[q], Files(to)[q])
  BY <1>4, <1>5
<1>8. Content(then) = Content(Files(to))
  BY <1>6, <1>7 DEF Content, SameContent
<1> QED
  BY <1>8 DEF then, had

\* Each change is one, and says of itself what kind it is.
LEMMA ChangesAre ==
  ASSUME NEW from, NEW to, NEW d \in DiffTrees(from, to, {})
  PROVE  /\ ~ IsTree(d.from) \/ ~ IsTree(d.to)
         /\ (d.kind = "Added") <=> d.from = Absent
         /\ (d.kind = "Removed") <=> d.to = Absent
         /\ (d.kind = "TypeChanged") <=> Absent \notin {d.from, d.to} /\ d.from.kind # d.to.kind
         /\ d.from.kind = d.to.kind => d.from.target # d.to.target
<1> DEFINE f == Lookup(from, d.path)
           t == Lookup(to, d.path)
<1>1. Changed(from, to, {}, d.path) /\ d = Change(d.path, f, t)
  BY DiffIs
<1>2. f # Absent \/ t # Absent
  BY <1>1 DEF Changed
<1>3. ~ ({f.kind, t.kind} \subseteq {"tree", "none"})
  BY <1>1 DEF Changed
<1>4. ~ (f.kind = t.kind /\ f.target = t.target)
  <2>1. d.path \in AllPaths /\ ComesTo(from, to, {}, d.path)
    BY <1>1 DEF Changed
  <2>2. Len(d.path) \in 1 .. Len(d.path) /\ Upto(d.path, Len(d.path)) = d.path
    BY <2>1, PathIs, UptoEnds
  <2>3. ~ (Lookup(from, Upto(d.path, Len(d.path))).kind = Lookup(to, Upto(d.path, Len(d.path))).kind
           /\ Lookup(from, Upto(d.path, Len(d.path))).target = Lookup(to, Upto(d.path, Len(d.path))).target)
    BY <2>1, <2>2 DEF ComesTo
  <2> QED BY <2>2, <2>3
<1> HIDE DEF f, t
<1>5. d.from = f /\ d.to = t /\ d.kind = Kind(f, t)
  BY <1>1 DEF Change
<1>6. Kind(f, t) = IF f = Absent THEN "Added" ELSE IF t = Absent THEN "Removed"
                   ELSE IF f.kind # t.kind THEN "TypeChanged" ELSE "Modified"
  BY <1>2 DEF Kind
<1> QED
  BY <1>2, <1>3, <1>4, <1>5, <1>6 DEF IsTree

\* Whatever the trees: the diff from any snapshot to the tip leads from the files
\* of the one to those of the other, though it compares whole subtrees by their
\* hashes and descends into no others.
THEOREM DiffsExplain == Spec => []DiffExplains
<1>1. DiffExplains
  BY DiffPatches, ChangesAre DEF DiffExplains, DiffTo
<1> QED
  BY <1>1, PTL

-----------------------------------------------------------------------------
(* Matchings of lines *)

LEMMA CountOfIndices ==
  ASSUME NEW n \in Nat
  PROVE  IsFiniteSet(1 .. n) /\ Cardinality(1 .. n) = n
<1>1. 1 \in Int /\ n \in Int
  OBVIOUS
<1>2. IsFiniteSet(1 .. n) /\ Cardinality(1 .. n) = IF 1 > n THEN 0 ELSE n - 1 + 1
  BY <1>1, FS_Interval
<1> QED
  BY <1>2

\* A matching is a finite set of pairs of equal lines.
LEMMA MatchingIs ==
  ASSUME NEW S, NEW f \in Seq(S), NEW t \in Seq(S), NEW m \in Matchings(f, t)
  PROVE  /\ IsFiniteSet(m) /\ Cardinality(m) \in Nat /\ Cardinality(m) <= Len(f) * Len(t)
         /\ \A x \in m : /\ x[1] \in 1 .. Len(f) /\ x[2] \in 1 .. Len(t) /\ x = <<x[1], x[2]>>
                         /\ f[x[1]] = t[x[2]]
         /\ \A x, y \in m : x[1] < y[1] <=> x[2] < y[2]
<1> DEFINE D == (DOMAIN f) \X (DOMAIN t)
<1>1. DOMAIN f = 1 .. Len(f) /\ DOMAIN t = 1 .. Len(t) /\ Len(f) \in Nat /\ Len(t) \in Nat
  OBVIOUS
<1>2. IsFiniteSet(D) /\ Cardinality(D) = Len(f) * Len(t)
  <2>1. IsFiniteSet(1 .. Len(f)) /\ Cardinality(1 .. Len(f)) = Len(f)
    BY <1>1, CountOfIndices
  <2>2. IsFiniteSet(1 .. Len(t)) /\ Cardinality(1 .. Len(t)) = Len(t)
    BY <1>1, CountOfIndices
  <2>3. D = (1 .. Len(f)) \X (1 .. Len(t))
    BY <1>1
  <2>4. /\ IsFiniteSet((1 .. Len(f)) \X (1 .. Len(t)))
        /\ Cardinality((1 .. Len(f)) \X (1 .. Len(t))) = Cardinality(1 .. Len(f)) * Cardinality(1 .. Len(t))
    BY <2>1, <2>2, FS_Product
  <2> HIDE DEF D
  <2> QED BY <2>1, <2>2, <2>3, <2>4
<1>3. /\ m \in SUBSET {x \in D : f[x[1]] = t[x[2]]}
      /\ \A x, y \in m : x[1] < y[1] <=> x[2] < y[2]
  BY DEF Matchings
<1>4. m \in SUBSET D
  BY <1>3
<1>5. IsFiniteSet(m) /\ Cardinality(m) <= Cardinality(D)
  BY <1>2, <1>4, FS_Subset
<1>6. Cardinality(m) \in Nat
  BY <1>5, FS_CardinalityType
<1>7. \A x \in m : /\ x[1] \in 1 .. Len(f) /\ x[2] \in 1 .. Len(t) /\ x = <<x[1], x[2]>>
                   /\ f[x[1]] = t[x[2]]
  BY <1>1, <1>3
<1> QED
  BY <1>2, <1>3, <1>5, <1>6, <1>7

\* Some matching is a longest one.
LEMMA SomeAlignment ==
  ASSUME NEW S, NEW f \in Seq(S), NEW t \in Seq(S)
  PROVE  Alignments(f, t) # {}
<1> DEFINE all == Matchings(f, t)
           N == Len(f) * Len(t)
           T == {n \in Nat : \E m \in all : n <= Cardinality(m)}
<1>1. N \in Nat
  OBVIOUS
<1> HIDE DEF N
<1>2. \A m \in all : Cardinality(m) \in Nat /\ Cardinality(m) <= N
  BY MatchingIs DEF N
<1>3. SUFFICES ASSUME \A m \in all : \E n \in all : ~ (Cardinality(n) <= Cardinality(m))
               PROVE  FALSE
  BY DEF Alignments
<1>4. {} \in all
  BY DEF Matchings
<1> HIDE DEF all
<1>5. 0 \in T
  BY <1>2, <1>4
<1>6. ASSUME NEW n \in 0 .. (N + 1) - 1, n \in T PROVE n + 1 \in T
  <2>1. PICK m \in all : n <= Cardinality(m)
    BY <1>6
  <2>2. PICK k \in all : ~ (Cardinality(k) <= Cardinality(m))
    BY <1>3
  <2>3. n + 1 <= Cardinality(k)
    BY <1>1, <1>2, <2>1, <2>2
  <2> QED BY <2>3
<1>7. N + 1 \in T
  <2>1. N + 1 \in Nat /\ N + 1 \in 0 .. N + 1
    BY <1>1
  <2> HIDE DEF T
  <2> QED BY <1>5, <1>6, <2>1, CountUp
<1> QED
  BY <1>1, <1>2, <1>7

\* A matching leaves as many lines of the new text as it has fewer pairs.
LEMMA UnmatchedAre ==
  ASSUME NEW S, NEW f \in Seq(S), NEW t \in Seq(S), NEW m \in Matchings(f, t),
         NEW rest, rest = {j \in 1 .. Len(t) : ~ \E x \in m : x[2] = j}
  PROVE  IsFiniteSet(rest) /\ Cardinality(rest) = Len(t) - Cardinality(m)
<1> DEFINE D == 1 .. Len(t)
           hit == {j \in D : \E x \in m : x[2] = j}
           second == [x \in m |-> x[2]]
<1>1. /\ IsFiniteSet(m) /\ Cardinality(m) \in Nat
      /\ \A x \in m : /\ x[1] \in 1 .. Len(f) /\ x[2] \in 1 .. Len(t) /\ x = <<x[1], x[2]>>
      /\ \A x, y \in m : x[1] < y[1] <=> x[2] < y[2]
  BY MatchingIs
<1>2. \A x, y \in m : x[2] = y[2] => x = y
  <2> SUFFICES ASSUME NEW x \in m, NEW y \in m, x[2] = y[2] PROVE x = y
    OBVIOUS
  <2>1. x[1] \in Int /\ y[1] \in Int /\ x[2] \in Int /\ y[2] \in Int
    BY <1>1
  <2>2. x[1] = y[1]
    BY <1>1, <2>1
  <2>3. x = <<x[1], x[2]>> /\ y = <<y[1], y[2]>>
    BY <1>1
  <2> QED BY <2>2, <2>3
<1>3. second \in Surjection(m, hit) /\ second \in Injection(m, hit)
  <2>1. second \in [m -> hit]
    BY <1>1
  <2>2. \A j \in hit : \E x \in m : second[x] = j
    OBVIOUS
  <2>3. \A x, y \in m : second[x] = second[y] => x = y
    BY <1>2
  <2> HIDE DEF second, hit
  <2> QED BY <2>1, <2>2, <2>3 DEF Surjection, Injection, IsInjective
<1>4. IsFiniteSet(hit) /\ Cardinality(hit) = Cardinality(m)
  <2> HIDE DEF second, hit
  <2> QED BY <1>1, <1>3, FS_Surjection
<1>5. IsFiniteSet(D) /\ Cardinality(D) = Len(t)
  BY CountOfIndices
<1>6. rest = D \ hit /\ hit = D \cap hit
  OBVIOUS
<1> HIDE DEF D, hit
<1> QED
  <2>1. IsFiniteSet(D \ hit) /\ Cardinality(D \ hit) = Cardinality(D) - Cardinality(D \cap hit)
    BY <1>5, FS_Difference
  <2> QED BY <1>4, <1>5, <1>6, <2>1

-----------------------------------------------------------------------------
(* Blame *)

\* Every file's text is one that was sent, or was there at first.
Sent ==
  /\ History
  /\ \A i \in 1 .. Len(trees), path \in AllPaths :
       Lookup(trees[i], path).kind = "file" => Lookup(trees[i], path).target \in Blobs

LEMMA SentInvariant == Spec => []Sent
<1>1. Init /\ History => Sent
  <2> SUFFICES ASSUME NEW tree \in FirstTrees, trees = <<tree>>, History PROVE Sent
    BY DEF Init
  <2>1. Len(trees) = 1 /\ trees[1] = tree
    OBVIOUS
  <2> QED BY <2>1, FirstTextsFit DEF Sent
<1>2. Sent /\ [Next]_trees => Sent'
  <2> SUFFICES ASSUME Sent, Next PROVE Sent'
    BY DEF Sent, History
  <2>1. PICK path \in Paths, entry \in Leaves \cup {Absent} :
          EditOf(tip', tip, path, entry) /\ NoFileOnTheWay(tip, path)
    BY StepIsEdit DEF Sent
  <2>2. /\ History' /\ Len(trees) \in Nat \ {0} /\ Len(trees') = Len(trees) + 1
        /\ \A i \in 1 .. Len(trees) : trees'[i] = trees[i]
    BY StepIsEdit DEF Sent
  <2>3. path \in AllPaths /\ (entry = Absent \/ IsLeaf(entry))
    BY PathsFit, LeavesAreLeaves
  <2>4. entry.kind = "file" => entry.target \in Blobs
    BY DEF Leaves, File, Sealed, Absent
  <2>5. ASSUME NEW q \in AllPaths, Lookup(tip', q).kind = "file" PROVE Lookup(tip', q).target \in Blobs
    <3>1. IsLeaf(Lookup(tip', q))
      BY <2>5 DEF IsLeaf
    <3>2. q = path \/ Lookup(tip', q) = Lookup(tip, q)
      BY <2>1, <2>3, <3>1, FilesAfter
    <3>3. q = path => Lookup(tip', q) = entry
      BY <2>1 DEF EditOf
    <3>4. Lookup(tip, q).kind = "file" => Lookup(tip, q).target \in Blobs
      BY <2>2 DEF Sent, tip
    <3> QED BY <2>4, <2>5, <3>2, <3>3, <3>4
  <2>6. ASSUME NEW i \in 1 .. Len(trees'), NEW q \in AllPaths, Lookup(trees'[i], q).kind = "file"
        PROVE  Lookup(trees'[i], q).target \in Blobs
    <3>1. CASE i = Len(trees')
      BY <2>5, <2>6, <3>1 DEF tip
    <3>2. CASE i # Len(trees')
      <4>1. i \in 1 .. Len(trees) /\ trees'[i] = trees[i]
        BY <2>2, <3>2
      <4> QED BY <2>6, <4>1 DEF Sent
    <3> QED BY <3>1, <3>2
  <2> QED BY <2>2, <2>6 DEF Sent
<1> QED
  BY <1>1, <1>2, HistoryInvariant, PTL DEF Spec

\* All texts are over some set of lines.
LEMMA BlobLines == \E S : \A b \in Blobs : b.lines \in Seq(S)
<1> DEFINE S == UNION {{b.lines[i] : i \in DOMAIN b.lines} : b \in Blobs}
<1>1. ASSUME NEW b \in Blobs PROVE b.lines \in Seq(S)
  <2> DEFINE R == {b.lines[i] : i \in DOMAIN b.lines}
  <2>1. b.lines \in Seq(R)
    BY BlobsAreTexts
  <2>2. R \subseteq S
    OBVIOUS
  <2> HIDE DEF R, S
  <2>3. Seq(R) \subseteq Seq(S)
    BY <2>2
  <2> QED BY <2>1, <2>3
<1> QED
  BY <1>1

\* What is there of a file at a snapshot, before the first one nothing.
HadAt(i, path) == IF i = 0 THEN Binary ELSE TextAt(i, path)
HasLine(i, path, line) ==
  ~ HadAt(i, path).binary /\ \E j \in DOMAIN HadAt(i, path).lines : HadAt(i, path).lines[j] = line
AddsLine(i, path, line) ==
  \/ HadAt(i - 1, path).binary
  \/ \E m \in AnswersFor(HadAt(i - 1, path).lines, HadAt(i, path).lines), j \in DOMAIN HadAt(i, path).lines :
       HadAt(i, path).lines[j] = line /\ ~ \E x \in m : x[2] = j

\* The file comes with a text of which blame counts the lines otherwise than the
\* diff; lines that stay in the next snapshot may be credited to that one.
MissplitAt(i, path) ==
  ~ HadAt(i, path).binary /\ HadAt(i - 1, path).binary /\ ~ SplitsAlike(HadAt(i, path).lines)
CreditsLine(i, path, line) == AddsLine(i, path, line) \/ MissplitAt(i - 1, path)

\* str::lines finds no more lines than `similar`, and as many in most texts.
LEMMA StrLinesAre ==
  ASSUME NEW S, NEW lines \in Seq(S)
  PROVE  StrLines(lines) \subseteq DOMAIN lines /\ (SplitsAlike(lines) => StrLines(lines) = DOMAIN lines)
<1>1. DOMAIN lines = 1 .. Len(lines) /\ Len(lines) \in Nat
  OBVIOUS
<1>2. IsFiniteSet(1 .. Len(lines)) /\ Cardinality(1 .. Len(lines)) = Len(lines)
  <2>1. IsFiniteSet(1 .. Len(lines))
        /\ Cardinality(1 .. Len(lines)) = IF 1 > Len(lines) THEN 0 ELSE Len(lines) - 1 + 1
    BY <1>1, FS_Interval
  <2> QED BY <1>1, <2>1
<1>3. Ends(lines) \subseteq 1 .. Len(lines)
  BY <1>1 DEF Ends
<1>4. Cardinality(Ends(lines)) \in Nat /\ Cardinality(Ends(lines)) <= Len(lines)
  <2>1. IsFiniteSet(Ends(lines)) /\ Cardinality(Ends(lines)) <= Cardinality(1 .. Len(lines))
    BY <1>2, <1>3, FS_Subset
  <2> QED BY <1>2, <2>1, FS_CardinalityType
<1>5. SplitsAlike(lines) => Cardinality(Ends(lines)) = Len(lines)
  BY <1>1, <1>2 DEF SplitsAlike
<1> HIDE DEF Ends
<1> QED
  BY <1>1, <1>4, <1>5 DEF StrLines

LEMMA HadIs ==
  ASSUME Sent, NEW path \in AllPaths, NEW i \in 0 .. Len(trees), ~ HadAt(i, path).binary
  PROVE  HadAt(i, path) \in Blobs /\ i \in 1 .. Len(trees)
<1>1. Binary.binary
  BY DEF Binary
<1>2. i # 0
  BY <1>1 DEF HadAt
<1>3. i \in 1 .. Len(trees)
  BY <1>2
<1> QED
  BY <1>1, <1>2, <1>3 DEF HadAt, TextAt, Sent

\* For texts that were sent, the table answers as the algorithm does.
LEMMA AnswersAre ==
  ASSUME NEW b \in Blobs, NEW c \in Blobs
  PROVE  AnswersFor(b.lines, c.lines) = Alignments(b.lines, c.lines)
<1>1. Answer(b.lines, c.lines) \in Answers
  BY DEF Answers
<1>2. \A f, t : Answer(f, t).from = f /\ Answer(f, t).to = t /\ Answer(f, t).all = Alignments(f, t)
  BY DEF Answer
<1>3. \A a \in Answers : a.all = Alignments(a.from, a.to)
  BY <1>2 DEF Answers
<1> QED
  BY <1>1, <1>2, <1>3 DEF AnswersFor

\* One snapshot of blame_at: the attributions, given those at its parent.
BlameStep(i, path, parents) ==
  LET now == HadAt(i, path)
      was == HadAt(i - 1, path)
  IN IF now.binary THEN {}
     ELSE IF was.binary THEN {[j \in StrLines(now.lines) |-> i]}
     ELSE Attributions(parents, was.lines, now.lines, i)

IsBlame(a, path, m) ==
  /\ a = [i \in 1 .. m |-> a[i]]
  /\ \A i \in 1 .. m : a[i] = BlameStep(i, path, a[i - 1])

LEMMA BlameExists ==
  ASSUME NEW path, NEW m \in Nat
  PROVE  \E a : IsBlame(a, path, m)
<1> DEFINE T == {k \in 0 .. m : \E a : IsBlame(a, path, k)}
<1>1. 0 \in T
  <2>1. IsBlame([i \in 1 .. 0 |-> 0], path, 0)
    BY DEF IsBlame
  <2> QED BY <2>1
<1>2. ASSUME NEW k \in 0 .. m - 1, k \in T PROVE k + 1 \in T
  <2>1. PICK a : IsBlame(a, path, k)
    BY <1>2
  <2> DEFINE c == [i \in 1 .. k + 1 |-> IF i = k + 1 THEN BlameStep(k + 1, path, a[k]) ELSE a[i]]
  <2>2. ASSUME NEW i \in 1 .. k + 1 PROVE c[i] = BlameStep(i, path, c[i - 1])
    <3>1. i - 1 # 0 => c[i - 1] = a[i - 1]
      OBVIOUS
    <3>2. c[i] = BlameStep(i, path, a[i - 1])
      <4>1. CASE i = k + 1
        <5>1. c[k + 1] = BlameStep(k + 1, path, a[k]) /\ i - 1 = k
          BY <4>1
        <5> HIDE DEF c
        <5> QED BY <4>1, <5>1
      <4>2. CASE i \in 1 .. k
        <5>1. c[i] = a[i]
          BY <4>2
        <5> HIDE DEF c
        <5> QED BY <2>1, <4>2, <5>1 DEF IsBlame
      <4> QED BY <4>1, <4>2
    <3>3. i - 1 = 0 => BlameStep(i, path, a[i - 1]) = BlameStep(i, path, c[i - 1])
      BY DEF BlameStep, HadAt, Binary
    <3> QED BY <3>1, <3>2, <3>3
  <2>3. c = [i \in 1 .. k + 1 |-> c[i]]
    OBVIOUS
  <2> HIDE DEF c
  <2>4. IsBlame(c, path, k + 1)
    BY <2>2, <2>3 DEF IsBlame
  <2> QED BY <2>4
<1>3. m \in T
  <2> HIDE DEF T
  <2> QED BY <1>1, <1>2, CountUp
<1> QED
  BY <1>3

LEMMA BlameIs ==
  ASSUME NEW path, NEW last \in Nat \ {0}
  PROVE  \E a : IsBlame(a, path, last) /\ BlameAt(last, path) = a[last]
<1> DEFINE Body(f) == [i \in 1 .. last |->
             LET now == TextAt(i, path)
                 was == IF i = 1 THEN Binary ELSE TextAt(i - 1, path)
             IN IF now.binary THEN {}
                ELSE IF was.binary THEN {[j \in StrLines(now.lines) |-> i]}
                ELSE Attributions(f[i - 1], was.lines, now.lines, i)]
           g == CHOOSE f : f = Body(f)
<1>1. BlameAt(last, path) = g[last]
  BY DEF BlameAt
<1>2. PICK h : IsBlame(h, path, last)
  BY BlameExists
<1>3. ASSUME NEW f, NEW i \in 1 .. last PROVE Body(f)[i] = BlameStep(i, path, f[i - 1])
  <2>1. HadAt(i, path) = TextAt(i, path) /\ HadAt(i - 1, path) = IF i = 1 THEN Binary ELSE TextAt(i - 1, path)
    BY DEF HadAt
  <2> QED BY <2>1 DEF BlameStep
<1>4. ASSUME NEW f PROVE f = Body(f) <=> IsBlame(f, path, last)
  <2>1. Body(f) = [i \in 1 .. last |-> Body(f)[i]]
    OBVIOUS
  <2>2. \A i \in 1 .. last : Body(f)[i] = BlameStep(i, path, f[i - 1])
    BY <1>3
  <2> HIDE DEF Body
  <2> QED BY <2>1, <2>2 DEF IsBlame
<1>5. g = Body(g)
  <2> HIDE DEF Body
  <2> QED BY <1>2, <1>4
<1> QED
  BY <1>1, <1>4, <1>5

\* What an attribution says of a file at a snapshot is true.
Right(i, path, attr) ==
  LET now == HadAt(i, path)
  IN /\ ~ now.binary
     /\ DOMAIN attr = IF HadAt(i - 1, path).binary THEN StrLines(now.lines) ELSE DOMAIN now.lines
     /\ \A k \in DOMAIN attr :
          /\ attr[k] \in 1 .. i /\ CreditsLine(attr[k], path, now.lines[k])
          /\ \A j \in attr[k] .. i : HasLine(j, path, now.lines[k])

\* The lines that a matching leaves to the new text.
Unmatched(t, m) == {j \in 1 .. Len(t) : ~ \E x \in m : x[2] = j}

\* A line that is matched has the attribution of an equal line, if the parent's
\* has an entry for it; the others are the snapshot's.
LEMMA InheritIs ==
  ASSUME NEW S, NEW f \in Seq(S), NEW t \in Seq(S), NEW m \in Matchings(f, t), NEW parent, NEW snap,
         DOMAIN parent \subseteq DOMAIN f
  PROVE  LET attr == Inherit(parent, t, m, snap)
         IN /\ DOMAIN attr = DOMAIN t
            /\ \A k \in DOMAIN t :
                 IF k \in Unmatched(t, m) THEN attr[k] = snap
                 ELSE \/ \E i \in DOMAIN parent : attr[k] = parent[i] /\ f[i] = t[k]
                      \/ attr[k] = snap /\ DOMAIN parent # DOMAIN f
<1> DEFINE attr == Inherit(parent, t, m, snap)
<1>1. /\ DOMAIN attr = DOMAIN t
      /\ \A k \in DOMAIN t :
           attr[k] = IF \E i \in DOMAIN parent : <<i, k>> \in m
                     THEN parent[CHOOSE i \in DOMAIN parent : <<i, k>> \in m] ELSE snap
  BY DEF Inherit
<1> HIDE DEF attr
<1>2. \A x \in m : x[1] \in 1 .. Len(f) /\ x = <<x[1], x[2]>> /\ f[x[1]] = t[x[2]]
  BY MatchingIs
<1>3. DOMAIN f = 1 .. Len(f) /\ DOMAIN t = 1 .. Len(t)
  OBVIOUS
<1>4. ASSUME NEW k \in DOMAIN t
      PROVE  IF k \in Unmatched(t, m) THEN attr[k] = snap
             ELSE \/ \E i \in DOMAIN parent : attr[k] = parent[i] /\ f[i] = t[k]
                  \/ attr[k] = snap /\ DOMAIN parent # DOMAIN f
  <2>1. /\ \A x \in m : x[2] = k => x[1] \in DOMAIN f /\ <<x[1], k>> \in m
        /\ (\E i \in DOMAIN parent : <<i, k>> \in m) => \E x \in m : x[2] = k
    <3>1. ASSUME NEW x \in m, x[2] = k PROVE x[1] \in DOMAIN f /\ <<x[1], k>> \in m
      BY <1>2, <1>3, <3>1
    <3>2. ASSUME NEW i \in DOMAIN parent, <<i, k>> \in m PROVE \E x \in m : x[2] = k
      BY <3>2
    <3> QED BY <3>1, <3>2
  <2>2. CASE k \in Unmatched(t, m)
    <3>1. ~ \E i \in DOMAIN parent : <<i, k>> \in m
      BY <2>1, <2>2 DEF Unmatched
    <3> QED BY <1>1, <2>2, <3>1
  <2>3. CASE k \notin Unmatched(t, m) /\ ~ \E i \in DOMAIN parent : <<i, k>> \in m
    <3>1. \E x \in m : x[2] = k
      BY <1>3, <2>3 DEF Unmatched
    <3>2. \E i \in DOMAIN f : i \notin DOMAIN parent
      BY <2>1, <2>3, <3>1
    <3>3. attr[k] = snap
      BY <1>1, <2>3
    <3> QED BY <2>3, <3>2, <3>3
  <2>4. CASE k \notin Unmatched(t, m) /\ \E i \in DOMAIN parent : <<i, k>> \in m
    <3>1. \E i \in DOMAIN parent : <<i, k>> \in m
      BY <2>4
    <3> DEFINE i == CHOOSE i \in DOMAIN parent : <<i, k>> \in m
    <3>2. i \in DOMAIN parent /\ <<i, k>> \in m
      BY <3>1
    <3>3. attr[k] = parent[i]
      BY <1>1, <3>1
    <3> HIDE DEF i
    <3>4. f[<<i, k>>[1]] = t[<<i, k>>[2]]
      BY <1>2, <3>2
    <3>5. f[i] = t[k]
      BY <3>4
    <3> QED BY <2>4, <3>2, <3>3, <3>5
  <2> QED BY <2>2, <2>3, <2>4
<1> QED
  BY <1>1, <1>4 DEF attr

\* If the attributions at the parent are right, so are those at the snapshot, and
\* new to it are the lines that some longest matching leaves.
LEMMA BlameStepRight ==
  ASSUME Sent, NEW path \in AllPaths, NEW i \in 1 .. Len(trees), NEW parents,
         (parents = {}) <=> HadAt(i - 1, path).binary,
         \A parent \in parents : Right(i - 1, path, parent)
  PROVE  LET now == HadAt(i, path)
             was == HadAt(i - 1, path)
             all == BlameStep(i, path, parents)
         IN /\ (all = {}) <=> now.binary
            /\ \A attr \in all :
                 /\ Right(i, path, attr)
                 /\ ~ was.binary /\ ~ MissplitAt(i - 1, path) => \E m \in Alignments(was.lines, now.lines) :
                      {k \in DOMAIN attr : attr[k] = i} = Unmatched(now.lines, m)
<1> DEFINE now == HadAt(i, path)
           was == HadAt(i - 1, path)
           all == BlameStep(i, path, parents)
<1>1. PICK S : \A b \in Blobs : b.lines \in Seq(S)
  BY BlobLines
<1>2. i \in Int /\ i >= 1 /\ Len(trees) \in Nat /\ i - 1 \in 0 .. Len(trees) /\ i \in 0 .. Len(trees)
  BY DEF Sent, History
<1>3. (~ now.binary => now \in Blobs) /\ (~ was.binary => was \in Blobs)
  BY <1>2, HadIs
<1>4. CASE now.binary
  BY <1>4 DEF BlameStep, Right
<1>5. CASE ~ now.binary /\ was.binary
  <2>1. all = {[j \in StrLines(now.lines) |-> i]}
    BY <1>5 DEF BlameStep
  <2>2. \A line : CreditsLine(i, path, line)
    BY <1>5 DEF AddsLine, CreditsLine
  <2>3. \A k \in StrLines(now.lines) : HasLine(i, path, now.lines[k])
    <3>1. \A k \in DOMAIN now.lines : HasLine(i, path, now.lines[k])
      BY <1>5 DEF HasLine
    <3>2. StrLines(now.lines) \subseteq DOMAIN now.lines
      BY <1>1, <1>3, <1>5, StrLinesAre
    <3> HIDE DEF now
    <3> QED BY <3>1, <3>2
  <2>4. \A j \in i .. i : j = i
    BY <1>2
  <2>5. Right(i, path, [j \in StrLines(now.lines) |-> i])
    BY <1>2, <1>5, <2>2, <2>3, <2>4 DEF Right
  <2> QED BY <1>5, <2>1, <2>5
<1>6. CASE ~ now.binary /\ ~ was.binary
  <2> DEFINE f == was.lines
             t == now.lines
  <2>1. f \in Seq(S) /\ t \in Seq(S)
    BY <1>1, <1>3, <1>6
  <2>2. AnswersFor(f, t) = Alignments(f, t)
    BY <1>3, <1>6, AnswersAre
  <2>3. all = {Inherit(parent, t, m, i) : parent \in parents, m \in Alignments(f, t)}
    BY <1>6, <2>2 DEF BlameStep, Attributions
  <2>4. parents # {} /\ Alignments(f, t) # {}
    BY <1>6, <2>1, SomeAlignment
  <2>5. \A m \in Alignments(f, t) : m \in Matchings(f, t)
    BY DEF Alignments
  <2>6. ASSUME NEW parent \in parents, NEW m \in Alignments(f, t), NEW attr, attr = Inherit(parent, t, m, i)
        PROVE  /\ Right(i, path, attr)
               /\ ~ MissplitAt(i - 1, path) => {k \in DOMAIN attr : attr[k] = i} = Unmatched(t, m)
    <3> DEFINE odd == MissplitAt(i - 1, path)
    <3>1. /\ DOMAIN parent \subseteq DOMAIN f /\ (DOMAIN parent # DOMAIN f => odd)
          /\ \A k \in DOMAIN parent :
               /\ parent[k] \in 1 .. i - 1 /\ CreditsLine(parent[k], path, f[k])
               /\ \A j \in parent[k] .. i - 1 : HasLine(j, path, f[k])
      <4>1. StrLines(f) \subseteq DOMAIN f /\ (SplitsAlike(f) => StrLines(f) = DOMAIN f)
        BY <2>1, StrLinesAre
      <4>2. Right(i - 1, path, parent)
        OBVIOUS
      <4> QED BY <1>6, <4>1, <4>2 DEF Right, MissplitAt
    <3> HIDE DEF odd
    <3>2. /\ DOMAIN attr = DOMAIN t
          /\ \A k \in DOMAIN t :
               IF k \in Unmatched(t, m) THEN attr[k] = i
               ELSE (\E l \in DOMAIN parent : attr[k] = parent[l] /\ f[l] = t[k]) \/ (attr[k] = i /\ odd)
      BY <2>1, <2>5, <2>6, <3>1, InheritIs
    <3>3. \A k \in DOMAIN t : HasLine(i, path, t[k])
      BY <1>6 DEF HasLine
    <3>4. /\ \A k \in Unmatched(t, m) : k \in DOMAIN t /\ CreditsLine(i, path, t[k])
          /\ odd => \A k \in DOMAIN t : CreditsLine(i, path, t[k])
      <4>1. DOMAIN t = 1 .. Len(t)
        BY <2>1
      <4>2. \A k \in Unmatched(t, m) : k \in DOMAIN t /\ AddsLine(i, path, t[k])
        BY <2>2, <4>1 DEF AddsLine, Unmatched
      <4> QED BY <4>2 DEF CreditsLine, odd
    <3> HIDE DEF f, t, now, was
    <3>5. ASSUME NEW k \in DOMAIN t
          PROVE  /\ attr[k] \in 1 .. i /\ CreditsLine(attr[k], path, t[k])
                 /\ \A j \in attr[k] .. i : HasLine(j, path, t[k])
                 /\ k \in Unmatched(t, m) => attr[k] = i
                 /\ attr[k] = i => k \in Unmatched(t, m) \/ odd
      <4>1. CASE attr[k] = i /\ (k \in Unmatched(t, m) \/ odd)
        <5>1. \A j \in i .. i : j = i
          BY <1>2
        <5>2. i \in 1 .. i /\ CreditsLine(i, path, t[k])
          BY <1>2, <3>4, <4>1
        <5> QED BY <3>3, <4>1, <5>1, <5>2
      <4>2. CASE k \notin Unmatched(t, m) /\ \E l \in DOMAIN parent : attr[k] = parent[l] /\ f[l] = t[k]
        <5>1. PICK l \in DOMAIN parent : attr[k] = parent[l] /\ f[l] = t[k]
          BY <4>2
        <5>2. parent[l] \in 1 .. i - 1 /\ CreditsLine(parent[l], path, f[l])
              /\ \A j \in parent[l] .. i - 1 : HasLine(j, path, f[l])
          BY <3>1
        <5>3. attr[k] \in 1 .. i /\ attr[k] # i
              /\ \A j \in attr[k] .. i : j = i \/ j \in attr[k] .. i - 1
          BY <1>2, <5>1, <5>2
        <5> QED BY <3>3, <4>2, <5>1, <5>2, <5>3
      <4> QED BY <3>2, <4>1, <4>2
    <3>6. Right(i, path, attr)
      BY <1>6, <3>2, <3>5 DEF Right, now, t
    <3>7. ~ odd => {k \in DOMAIN attr : attr[k] = i} = Unmatched(t, m)
      BY <3>2, <3>4, <3>5
    <3> QED BY <3>6, <3>7 DEF odd
  <2>7. all # {}
    <3>1. PICK parent \in parents, m \in Alignments(f, t) : TRUE
      BY <2>4
    <3> HIDE DEF f, t, all
    <3>2. Inherit(parent, t, m, i) \in all
      BY <2>3, <3>1
    <3> QED BY <3>2
  <2>8. \A attr \in all : \E parent \in parents, m \in Alignments(f, t) : attr = Inherit(parent, t, m, i)
    BY <2>3
  <2> HIDE DEF f, t, all
  <2>9. \A attr \in all : Right(i, path, attr) /\ \E m \in Alignments(f, t) :
          ~ MissplitAt(i - 1, path) => {k \in DOMAIN attr : attr[k] = i} = Unmatched(t, m)
    BY <2>6, <2>8
  <2> QED BY <1>6, <2>7, <2>9 DEF f, t, all
<1> QED
  BY <1>4, <1>5, <1>6

\* All longest matchings leave as many lines, and those of a text with itself
\* none.
LEMMA AlignmentsLeave ==
  ASSUME NEW S, NEW f \in Seq(S), NEW t \in Seq(S), NEW m \in Alignments(f, t)
  PROVE  /\ Cardinality(Unmatched(t, m)) = Len(t) - Cardinality(m)
         /\ \A n \in Alignments(f, t) : Cardinality(n) = Cardinality(m)
         /\ f = t => Unmatched(t, m) = {}
<1>1. /\ m \in Matchings(f, t)
      /\ \A n \in Alignments(f, t) : n \in Matchings(f, t)
      /\ \A n \in Alignments(f, t), k \in Matchings(f, t) : Cardinality(k) <= Cardinality(n)
  BY DEF Alignments
<1>2. \A n \in Matchings(f, t) : Cardinality(n) \in Nat
  BY MatchingIs
<1>3. \A n \in Alignments(f, t) : Cardinality(n) = Cardinality(m)
  <2> SUFFICES ASSUME NEW n \in Alignments(f, t) PROVE Cardinality(n) = Cardinality(m)
    OBVIOUS
  <2>1. Cardinality(n) <= Cardinality(m) /\ Cardinality(m) <= Cardinality(n)
    BY <1>1
  <2>2. Cardinality(n) \in Nat /\ Cardinality(m) \in Nat
    BY <1>1, <1>2
  <2> QED BY <2>1, <2>2
<1>4. IsFiniteSet(Unmatched(t, m)) /\ Cardinality(Unmatched(t, m)) = Len(t) - Cardinality(m)
  BY <1>1, UnmatchedAre DEF Unmatched
<1>5. ASSUME f = t PROVE Unmatched(t, m) = {}
  <2> DEFINE same == {<<i, i>> : i \in 1 .. Len(t)}
             D == (DOMAIN f) \X (DOMAIN t)
  <2>1. DOMAIN t = 1 .. Len(t) /\ Len(t) \in Nat
    OBVIOUS
  <2>2. \A x \in same : x[1] \in 1 .. Len(t) /\ x[1] = x[2] /\ x = <<x[1], x[2]>>
    OBVIOUS
  <2> HIDE DEF same
  <2>3. \A x \in same : x \in D /\ f[x[1]] = t[x[2]]
    BY <1>5, <2>1, <2>2
  <2>4. \A x, y \in same : x[1] < y[1] <=> x[2] < y[2]
    BY <2>2
  <2>5. same \in SUBSET {x \in D : f[x[1]] = t[x[2]]}
    BY <2>3
  <2>6. same \in Matchings(f, t)
    BY <2>4, <2>5 DEF Matchings
  <2>7. Unmatched(t, same) = {}
    <3>1. ASSUME NEW j \in 1 .. Len(t) PROVE \E x \in same : x[2] = j
      <4>1. <<j, j>> \in same /\ <<j, j>>[2] = j
        BY DEF same
      <4> QED BY <4>1
    <3> QED BY <3>1 DEF Unmatched
  <2>8. Cardinality(Unmatched(t, same)) = Len(t) - Cardinality(same)
    BY <2>6, UnmatchedAre DEF Unmatched
  <2>9. Cardinality({}) = 0
    BY FS_EmptySet
  <2>10. Cardinality(same) = Len(t)
    BY <1>2, <2>1, <2>6, <2>7, <2>8, <2>9
  <2>11. Len(t) <= Cardinality(m) /\ Cardinality(m) \in Nat
    BY <1>1, <1>2, <2>6, <2>10
  <2>12. Cardinality(Unmatched(t, m)) \in Nat
    BY <1>4, FS_CardinalityType
  <2>13. Cardinality(Unmatched(t, m)) = 0
    BY <1>4, <2>1, <2>11, <2>12
  <2> QED BY <1>4, <2>13, FS_EmptySet
<1> QED
  BY <1>3, <1>4, <1>5

\* Along the snapshots, what blame says is right.
LEMMA BlameAllRight ==
  ASSUME NEW a, NEW path \in AllPaths, NEW i \in 1 .. Len(trees), Sent, IsBlame(a, path, Len(trees))
  PROVE  /\ (a[i] = {}) <=> HadAt(i, path).binary
         /\ \A attr \in a[i] : Right(i, path, attr)
<1> DEFINE Good(k) == k = 0 \/ /\ (a[k] = {}) <=> HadAt(k, path).binary
                               /\ \A attr \in a[k] : Right(k, path, attr)
           T == {k \in 0 .. Len(trees) : Good(k)}
<1>1. Len(trees) \in Nat
  BY DEF Sent, History
<1>2. 0 \in T
  BY <1>1
<1>3. ASSUME NEW k \in 0 .. Len(trees) - 1, k \in T PROVE k + 1 \in T
  <2> DEFINE j == k + 1
  <2>1. j \in 1 .. Len(trees) /\ j - 1 = k /\ j \in 0 .. Len(trees)
    BY <1>1
  <2>2. a[j] = BlameStep(j, path, a[k])
    BY <2>1 DEF IsBlame
  <2>3. Good(k)
    BY <1>3
  <2> HIDE DEF j
  <2> DEFINE parents == IF k = 0 THEN {} ELSE a[k]
  <2>4. k = 0 => HadAt(k, path).binary
    BY DEF HadAt, Binary
  <2>5. (parents = {}) <=> HadAt(j - 1, path).binary
    BY <2>1, <2>3, <2>4
  <2>6. \A parent \in parents : Right(j - 1, path, parent)
    BY <2>1, <2>3
  <2>7. a[j] = BlameStep(j, path, parents)
    BY <2>1, <2>2, <2>4 DEF BlameStep
  <2> HIDE DEF parents
  <2>8. /\ (a[j] = {}) <=> HadAt(j, path).binary
        /\ \A attr \in a[j] : Right(j, path, attr)
    BY <2>1, <2>5, <2>6, <2>7, BlameStepRight
  <2> QED BY <2>1, <2>8 DEF j
<1>4. \A k \in 0 .. Len(trees) : k \in T
  <2> HIDE DEF T
  <2> QED BY <1>1, <1>2, <1>3, CountUp
<1> QED
  BY <1>1, <1>4

\* The newest snapshot is blamed for nothing that was there before it.
LEMMA NewsAre ==
  ASSUME NEW i \in 1 .. Len(trees), NEW path \in AllPaths, NEW news, NEW m, Sent,
         ~ HadAt(i, path).binary, ~ HadAt(i - 1, path).binary,
         m \in Alignments(HadAt(i - 1, path).lines, HadAt(i, path).lines),
         news = Unmatched(HadAt(i, path).lines, m)
  PROVE  LET was == HadAt(i - 1, path).lines
             now == HadAt(i, path).lines
         IN /\ was = now => news = {}
            /\ \A n \in AnswersFor(was, now) :
                 Cardinality(n) = Len(was) => Cardinality(news) = Len(now) - Len(was)
<1> DEFINE was == HadAt(i - 1, path).lines
           now == HadAt(i, path).lines
<1>1. i \in 0 .. Len(trees) /\ i - 1 \in 0 .. Len(trees)
  BY DEF Sent, History
<1>2. HadAt(i, path) \in Blobs /\ HadAt(i - 1, path) \in Blobs
  BY <1>1, HadIs
<1>3. PICK S : \A b \in Blobs : b.lines \in Seq(S)
  BY BlobLines
<1>4. AnswersFor(was, now) = Alignments(was, now)
  BY <1>2, AnswersAre
<1>5. was \in Seq(S) /\ now \in Seq(S)
  BY <1>2, <1>3
<1>6. m \in Alignments(was, now) /\ news = Unmatched(now, m)
  OBVIOUS
<1> HIDE DEF was, now
<1>7. /\ Cardinality(news) = Len(now) - Cardinality(m)
      /\ \A n \in Alignments(was, now) : Cardinality(n) = Cardinality(m)
      /\ was = now => news = {}
  BY <1>5, <1>6, AlignmentsLeave
<1>8. \A n \in AnswersFor(was, now) : Cardinality(n) = Len(was) => Cardinality(news) = Len(now) - Len(was)
  BY <1>4, <1>7
<1> QED
  BY <1>7, <1>8 DEF was, now

\* Blame names a snapshot that added such a line and since which the file has
\* always had it; nothing is blamed on a snapshot that left the file alone, and
\* on one that only added lines just as many (blame.rs).  Only the snapshot after
\* one with which the file came, with a text that str::lines splits otherwise
\* than `similar`, may be blamed for more.  For whatever trees, texts and
\* requests, by induction along the snapshots.
THEOREM BlamesAreTrue == Spec => []BlameTrue
<1>1. Sent => BlameTrue
  <2> SUFFICES ASSUME Sent, NEW path \in Paths
               PROVE  LET last == Len(trees)
                          now == TextAt(last, path)
                      IN /\ (BlameAt(last, path) = {}) <=> now.binary
                         /\ \A attr \in BlameAt(last, path) :
                              LET news == {k \in DOMAIN attr : attr[k] = last} IN
                              /\ DOMAIN attr = IF HadAt(last - 1, path).binary THEN StrLines(now.lines)
                                               ELSE DOMAIN now.lines
                              /\ \A k \in DOMAIN attr :
                                   /\ CreditsLine(attr[k], path, now.lines[k])
                                   /\ \A i \in attr[k] .. last : HasLine(i, path, now.lines[k])
                              /\ HadAt(last - 1, path) = now => news = {} \/ MissplitAt(last - 1, path)
                              /\ ~ HadAt(last - 1, path).binary /\ ~ MissplitAt(last - 1, path) =>
                                   \A m \in AnswersFor(HadAt(last - 1, path).lines, now.lines) :
                                     Cardinality(m) = Len(HadAt(last - 1, path).lines)
                                       => Cardinality(news) = Len(now.lines) - Len(HadAt(last - 1, path).lines)
    BY DEF BlameTrue, CreditsLine, AddsLine, MissplitAt, HasLine, HadAt
  <2> DEFINE last == Len(trees)
             now == HadAt(last, path)
             was == HadAt(last - 1, path)
  <2>1. path \in AllPaths /\ last \in Nat \ {0} /\ last \in 1 .. Len(trees) /\ now = TextAt(last, path)
    BY PathsFit DEF Sent, History, HadAt
  <2>2. PICK a : IsBlame(a, path, last) /\ BlameAt(last, path) = a[last]
    BY <2>1, BlameIs
  <2>3. /\ (a[last] = {}) <=> now.binary
        /\ \A attr \in a[last] : Right(last, path, attr)
    BY <2>1, <2>2, BlameAllRight
  <2> SUFFICES ASSUME NEW attr \in a[last]
               PROVE  LET news == {k \in DOMAIN attr : attr[k] = last}
                      IN /\ was = now => news = {} \/ MissplitAt(last - 1, path)
                         /\ ~ was.binary /\ ~ MissplitAt(last - 1, path) =>
                              \A m \in AnswersFor(was.lines, now.lines) :
                                Cardinality(m) = Len(was.lines)
                                  => Cardinality(news) = Len(now.lines) - Len(was.lines)
    BY <2>1, <2>2, <2>3 DEF Right
  <2> DEFINE news == {k \in DOMAIN attr : attr[k] = last}
  <2>4. ~ now.binary
    BY <2>3
  <2>5. CASE was.binary
    BY <2>4, <2>5
  <2>6. CASE MissplitAt(last - 1, path)
    BY <2>6
  <2>7. CASE ~ was.binary /\ ~ MissplitAt(last - 1, path)
    <3>1. PICK parents : /\ a[last] = BlameStep(last, path, parents)
                         /\ (parents = {}) <=> was.binary
                         /\ \A parent \in parents : Right(last - 1, path, parent)
      <4>1. last # 1 /\ last - 1 \in 1 .. Len(trees)
        <5>1. HadAt(0, path).binary
          BY DEF HadAt, Binary
        <5>2. last - 1 # 0
          BY <2>7, <5>1
        <5> HIDE DEF last
        <5> QED BY <2>1, <5>2
      <4>2. /\ (a[last - 1] = {}) <=> was.binary
            /\ \A parent \in a[last - 1] : Right(last - 1, path, parent)
        BY <2>1, <2>2, <4>1, BlameAllRight
      <4>3. a[last] = BlameStep(last, path, a[last - 1])
        BY <2>1, <2>2 DEF IsBlame
      <4> QED BY <4>2, <4>3
    <3>2. PICK m \in Alignments(was.lines, now.lines) : news = Unmatched(now.lines, m)
      BY <2>1, <2>7, <3>1, BlameStepRight
    <3> HIDE DEF news, last
    <3>3. /\ was.lines = now.lines => news = {}
          /\ \A n \in AnswersFor(was.lines, now.lines) :
               Cardinality(n) = Len(was.lines) => Cardinality(news) = Len(now.lines) - Len(was.lines)
      BY <2>1, <2>4, <2>7, <3>2, NewsAre
    <3>4. was = now => was.lines = now.lines
      OBVIOUS
    <3> QED BY <3>3, <3>4 DEF news
  <2> QED BY <2>5, <2>6, <2>7
<1> QED
  BY <1>1, SentInvariant, PTL

-----------------------------------------------------------------------------
(* Hunks: how many lines of a side come before each change of a script.      *)

\* From 0 to top, in steps of at most one.
Climbs(A, n, top) ==
  /\ A \in [0 .. n -> Nat] /\ A[0] = 0 /\ A[n] = top
  /\ \A k \in 1 .. n : A[k] = A[k - 1] \/ A[k] = A[k - 1] + 1

\* The line of each change from lo to hi, or 0.
Shown(A, lo, hi) ==
  [k \in 1 .. hi - lo + 1 |-> IF A[lo + k - 1] = A[lo + k - 2] THEN 0 ELSE A[lo + k - 1]]

LEMMA ClimbsUp ==
  ASSUME NEW A, NEW n \in Nat, NEW top, NEW j \in 0 .. n, NEW k \in 0 .. n, j <= k, Climbs(A, n, top)
  PROVE  A[j] \in Nat /\ A[k] \in Nat /\ A[j] <= A[k]
<1> DEFINE T == {i \in 0 .. n - j : A[j] <= A[j + i]}
<1>1. \A i \in 0 .. n : A[i] \in Nat
  BY DEF Climbs
<1>2. n - j \in Nat /\ k - j \in 0 .. n - j /\ j + (k - j) = k
  OBVIOUS
<1>3. 0 \in T
  BY <1>1, <1>2
<1>4. ASSUME NEW i \in 0 .. (n - j) - 1, i \in T PROVE i + 1 \in T
  <2>1. j + (i + 1) \in 1 .. n /\ j + i \in 0 .. n /\ j + (i + 1) - 1 = j + i
    OBVIOUS
  <2>2. A[j + (i + 1)] = A[j + i] \/ A[j + (i + 1)] = A[j + i] + 1
    BY <2>1 DEF Climbs
  <2>3. A[j] <= A[j + i]
    BY <1>4
  <2>4. A[j] <= A[j + (i + 1)]
    BY <1>1, <2>1, <2>2, <2>3
  <2> QED BY <2>4
<1>5. k - j \in T
  <2> HIDE DEF T
  <2> QED BY <1>2, <1>3, <1>4, CountUp
<1> QED
  BY <1>1, <1>2, <1>5

\* Every number between is stepped up to.
LEMMA ClimbsBy ==
  ASSUME NEW A, NEW n \in Nat, NEW top, NEW lo \in 0 .. n, NEW hi \in lo .. n, NEW v \in Nat,
         A[lo] < v, v <= A[hi], Climbs(A, n, top)
  PROVE  \E k \in lo + 1 .. hi : A[k] = v /\ A[k - 1] = v - 1
<1> DEFINE T == {i \in 0 .. hi - lo : A[lo + i] < v}
<1>1. \A i \in 0 .. n : A[i] \in Nat
  BY DEF Climbs
<1>2. hi - lo \in Nat /\ hi - lo \in 0 .. hi - lo /\ lo + (hi - lo) = hi /\ hi \in 0 .. n
  OBVIOUS
<1>3. 0 \in T
  BY <1>1, <1>2
<1>4. hi - lo \notin T
  BY <1>1, <1>2
<1>5. PICK i \in 0 .. (hi - lo) - 1 : i \in T /\ i + 1 \notin T
  <2> HIDE DEF T
  <2> QED BY <1>2, <1>3, <1>4, CountUp
<1>6. /\ lo + (i + 1) \in lo + 1 .. hi /\ lo + (i + 1) \in 1 .. n /\ lo + i \in 0 .. n
      /\ lo + (i + 1) - 1 = lo + i /\ i + 1 \in 0 .. hi - lo
  BY <1>2
<1>7. A[lo + (i + 1)] = A[lo + i] \/ A[lo + (i + 1)] = A[lo + i] + 1
  BY <1>6 DEF Climbs
<1>8. A[lo + i] < v /\ ~ (A[lo + (i + 1)] < v)
  BY <1>5, <1>6
<1>9. A[lo + (i + 1)] \in Nat /\ A[lo + i] \in Nat
  BY <1>1, <1>6
<1>10. A[lo + (i + 1)] = v /\ A[lo + i] = v - 1
  BY <1>7, <1>8, <1>9
<1> QED
  BY <1>6, <1>10

\* What a hunk shows of a side.
LEMMA ShownIs ==
  ASSUME NEW A, NEW n \in Nat, NEW top, NEW lo \in 1 .. n, NEW hi \in lo .. n, Climbs(A, n, top)
  PROVE  LET idx == Shown(A, lo, hi)
             first == A[lo - 1]
             last == A[hi]
         IN /\ first \in Nat /\ last \in Nat /\ first <= last
            /\ \A k \in DOMAIN idx : idx[k] # 0 => idx[k] \in first + 1 .. last
            /\ \A v \in first + 1 .. last : \E k \in DOMAIN idx : idx[k] = v
            /\ \A j, k \in DOMAIN idx : j < k /\ idx[j] # 0 /\ idx[k] # 0 => idx[j] < idx[k]
<1> DEFINE idx == Shown(A, lo, hi)
           first == A[lo - 1]
           last == A[hi]
<1>1. \A i \in 0 .. n : A[i] \in Nat
  BY DEF Climbs
<1>2. lo - 1 \in 0 .. n /\ hi \in 0 .. n /\ lo - 1 <= hi /\ hi \in lo - 1 .. n
  OBVIOUS
<1>3. first \in Nat /\ last \in Nat /\ first <= last
  BY <1>2, ClimbsUp
<1>4. /\ DOMAIN idx = 1 .. hi - lo + 1
      /\ \A k \in 1 .. hi - lo + 1 :
           idx[k] = IF A[lo + k - 1] = A[lo + k - 2] THEN 0 ELSE A[lo + k - 1]
  BY DEF Shown
<1> HIDE DEF idx
<1>5. ASSUME NEW k \in DOMAIN idx, idx[k] # 0
      PROVE  /\ lo + k - 1 \in lo .. hi /\ lo + k - 2 \in lo - 1 .. hi
             /\ idx[k] = A[lo + k - 1] /\ A[lo + k - 1] = A[lo + k - 2] + 1
             /\ first <= A[lo + k - 2] /\ A[lo + k - 1] <= last
  <2>1. k \in 1 .. hi - lo + 1
    BY <1>4
  <2>2. /\ lo + k - 1 \in 1 .. n /\ lo + k - 1 \in 0 .. n /\ lo + k - 2 \in 0 .. n /\ lo + k - 1 <= hi
        /\ lo - 1 <= lo + k - 2 /\ (lo + k - 1) - 1 = lo + k - 2
    BY <2>1
  <2>3. idx[k] = A[lo + k - 1] /\ A[lo + k - 1] # A[lo + k - 2]
    BY <1>4, <1>5, <2>1
  <2>4. A[lo + k - 1] = A[lo + k - 2] + 1
    BY <2>2, <2>3 DEF Climbs
  <2>5. A[lo - 1] <= A[lo + k - 2]
    BY <1>2, <2>2, ClimbsUp
  <2>6. A[lo + k - 1] <= A[hi]
    BY <1>2, <2>2, ClimbsUp
  <2> QED BY <2>1, <2>2, <2>3, <2>4, <2>5, <2>6
<1>6. \A k \in DOMAIN idx : idx[k] # 0 => idx[k] \in first + 1 .. last
  <2> SUFFICES ASSUME NEW k \in DOMAIN idx, idx[k] # 0 PROVE idx[k] \in first + 1 .. last
    OBVIOUS
  <2>1. lo + k - 2 \in 0 .. n
    BY <1>5
  <2>2. A[lo + k - 2] \in Nat
    BY <1>1, <2>1
  <2> QED BY <1>3, <1>5, <2>2
<1>7. ASSUME NEW v \in first + 1 .. last PROVE \E k \in DOMAIN idx : idx[k] = v
  <2>1. v \in Nat /\ A[lo - 1] < v /\ v <= A[hi]
    BY <1>3
  <2>2. PICK k \in lo - 1 + 1 .. hi : A[k] = v /\ A[k - 1] = v - 1
    BY <1>2, <2>1, ClimbsBy
  <2>3. k - lo + 1 \in 1 .. hi - lo + 1 /\ lo + (k - lo + 1) - 1 = k /\ lo + (k - lo + 1) - 2 = k - 1
    OBVIOUS
  <2>4. v # v - 1
    BY <2>1
  <2>5. idx[k - lo + 1] = v
    BY <1>4, <2>2, <2>3, <2>4
  <2> QED BY <1>4, <2>3, <2>5
<1>8. ASSUME NEW j \in DOMAIN idx, NEW k \in DOMAIN idx, j < k, idx[j] # 0, idx[k] # 0
      PROVE  idx[j] < idx[k]
  <2>1. j \in 1 .. hi - lo + 1 /\ k \in 1 .. hi - lo + 1
    BY <1>4
  <2>2. lo + j - 1 \in 0 .. n /\ lo + k - 2 \in 0 .. n /\ lo + j - 1 <= lo + k - 2
    BY <1>8, <2>1
  <2>3. A[lo + j - 1] <= A[lo + k - 2] /\ A[lo + j - 1] \in Nat /\ A[lo + k - 2] \in Nat
    BY <2>2, ClimbsUp
  <2>4. idx[j] = A[lo + j - 1] /\ idx[k] = A[lo + k - 2] + 1
    BY <1>5, <1>8
  <2> QED BY <2>3, <2>4
<1> QED
  BY <1>3, <1>6, <1>7, <1>8 DEF idx

\* Where a hunk says it is, is what it shows.
LEMMA SideIs ==
  ASSUME NEW A, NEW n \in Nat, NEW top, NEW lo \in 1 .. n, NEW hi \in lo .. n, Climbs(A, n, top)
  PROVE  LET idx == Shown(A, lo, hi)
         IN /\ Start(idx) = IF A[hi] = A[lo - 1] THEN 0 ELSE A[lo - 1] + 1
            /\ Length(idx) = A[hi] - A[lo - 1]
            /\ Shows(idx, Start(idx), Length(idx))
<1> DEFINE idx == Shown(A, lo, hi)
           first == A[lo - 1]
           last == A[hi]
           shown == {k \in DOMAIN idx : idx[k] # 0}
           nth == [k \in shown |-> idx[k] - first]
<1>1. /\ first \in Nat /\ last \in Nat /\ first <= last
      /\ \A k \in DOMAIN idx : idx[k] # 0 => idx[k] \in first + 1 .. last
      /\ \A v \in first + 1 .. last : \E k \in DOMAIN idx : idx[k] = v
      /\ \A j, k \in DOMAIN idx : j < k /\ idx[j] # 0 /\ idx[k] # 0 => idx[j] < idx[k]
  BY ShownIs
<1>2. DOMAIN idx = 1 .. hi - lo + 1
  BY DEF Shown
<1> HIDE DEF idx, first, last
<1>3. Length(idx) = last - first
  <2>1. last - first \in Nat
    BY <1>1
  <2>2. IsFiniteSet(1 .. last - first) /\ Cardinality(1 .. last - first) = last - first
    BY <2>1, CountOfIndices
  <2>3. nth \in [shown -> 1 .. last - first]
    BY <1>1
  <2>4. \A j, k \in shown : nth[j] = nth[k] => j = k
    <3> SUFFICES ASSUME NEW j \in shown, NEW k \in shown, j # k PROVE nth[j] # nth[k]
      OBVIOUS
    <3>1. j \in Int /\ k \in Int /\ idx[j] \in Int /\ idx[k] \in Int
      BY <1>1, <1>2
    <3>2. idx[j] # idx[k]
      BY <1>1, <3>1
    <3> QED BY <1>1, <3>1, <3>2
  <2>5. ASSUME NEW v \in 1 .. last - first PROVE \E k \in shown : nth[k] = v
    <3>1. first + v \in first + 1 .. last /\ first + v # 0 /\ first + v - first = v
      BY <1>1
    <3>2. PICK k \in DOMAIN idx : idx[k] = first + v
      BY <1>1, <3>1
    <3>3. k \in shown /\ nth[k] = idx[k] - first
      BY <3>1, <3>2
    <3> HIDE DEF nth, shown
    <3>4. nth[k] = v
      <4>1. first \in Int /\ v \in Int /\ idx[k] \in Int
        BY <1>1, <3>2
      <4> QED BY <3>2, <3>3, <4>1
    <3> QED BY <3>3, <3>4
  <2> HIDE DEF nth, shown
  <2>6. nth \in Injection(shown, 1 .. last - first) /\ nth \in Surjection(shown, 1 .. last - first)
    BY <2>3, <2>4, <2>5 DEF Injection, IsInjective, Surjection
  <2>7. Cardinality(shown) = Cardinality(1 .. last - first)
    BY <2>2, <2>6, FS_Injection
  <2> QED BY <2>2, <2>7 DEF Length, shown
<1>4. Start(idx) = IF last = first THEN 0 ELSE first + 1
  <2>1. CASE last = first
    <3>1. \A v : v \notin first + 1 .. last
      BY <1>1, <2>1
    <3>2. \A k \in DOMAIN idx : idx[k] = 0
      BY <1>1, <3>1
    <3> QED BY <2>1, <3>2 DEF Start
  <2>2. CASE last # first
    <3>1. first + 1 \in first + 1 .. last /\ first + 1 # 0
      BY <1>1, <2>2
    <3>2. PICK k \in DOMAIN idx : idx[k] = first + 1
      BY <1>1, <3>1
    <3>3. ASSUME NEW j \in DOMAIN idx, j < k PROVE idx[j] = 0
      <4>1. SUFFICES ASSUME idx[j] # 0 PROVE FALSE
        OBVIOUS
      <4>2. idx[j] < idx[k] /\ idx[j] \in first + 1 .. last
        BY <1>1, <3>1, <3>2, <3>3, <4>1
      <4> QED BY <1>1, <3>2, <4>2
    <3> DEFINE IsFirst(i) == i \in DOMAIN idx /\ idx[i] # 0 /\ \A l \in 1 .. i - 1 : idx[l] = 0
    <3>4. IsFirst(k)
      <4>1. \A l \in 1 .. k - 1 : l \in DOMAIN idx /\ l < k
        BY <1>2
      <4> QED BY <3>1, <3>2, <3>3, <4>1
    <3>5. ASSUME NEW i, IsFirst(i) PROVE idx[i] = first + 1
      <4>1. i \in DOMAIN idx /\ ~ (i < k)
        BY <3>3, <3>5
      <4>2. ~ (k < i)
        BY <1>2, <3>1, <3>2, <3>5, <4>1
      <4>3. i = k
        BY <1>2, <4>1, <4>2
      <4> QED BY <3>2, <4>3
    <3>6. Start(idx) = idx[CHOOSE i \in DOMAIN idx : idx[i] # 0 /\ \A l \in 1 .. i - 1 : idx[l] = 0]
      BY <3>1, <3>2 DEF Start
    <3> DEFINE i0 == CHOOSE i \in DOMAIN idx : idx[i] # 0 /\ \A l \in 1 .. i - 1 : idx[l] = 0
    <3>7. IsFirst(i0)
      BY <3>4
    <3> HIDE DEF IsFirst, i0
    <3>8. idx[i0] = first + 1
      BY <3>5, <3>7
    <3> QED BY <2>2, <3>6, <3>8 DEF i0
  <2> QED BY <2>1, <2>2
<1>5. Shows(idx, Start(idx), Length(idx))
  <2>1. Start(idx) .. Start(idx) + Length(idx) - 1 = first + 1 .. last
    <3>1. CASE last = first
      <4>1. Start(idx) = 0 /\ Length(idx) = 0
        BY <1>1, <1>3, <1>4, <3>1
      <4> QED BY <1>1, <3>1, <4>1
    <3>2. CASE last # first
      <4>1. Start(idx) = first + 1 /\ Length(idx) = last - first
        BY <1>3, <1>4, <3>2
      <4>2. first + 1 + (last - first) - 1 = last
        BY <1>1
      <4> QED BY <4>1, <4>2
    <3> QED BY <3>1, <3>2
  <2>2. {idx[k] : k \in DOMAIN idx} \ {0} = first + 1 .. last
    <3>1. \A v \in first + 1 .. last : v # 0
      BY <1>1
    <3> QED BY <1>1, <3>1
  <2> QED BY <1>1, <2>1, <2>2 DEF Shows
<1> QED
  BY <1>3, <1>4, <1>5 DEF idx, first, last

-----------------------------------------------------------------------------
(* Runs of numbers *)

IsRun(x, near) ==
  /\ x \in near \X near
  /\ x[1] <= x[2] /\ x[1] .. x[2] \subseteq near /\ x[1] - 1 \notin near /\ x[2] + 1 \notin near

\* Each number is in one.
LEMMA RunAround ==
  ASSUME NEW n \in Nat, NEW near \in SUBSET (1 .. n), NEW j \in near
  PROVE  \E x : IsRun(x, near) /\ j \in x[1] .. x[2]
<1> DEFINE U == {i \in 0 .. n : j .. j + i \subseteq near}
           D == {i \in 0 .. n : j - i .. j \subseteq near}
<1>1. j \in 1 .. n /\ j .. j = {j}
  OBVIOUS
<1>2. PICK u \in 0 .. n - 1 : j .. j + u \subseteq near /\ j + u + 1 \notin near
  <2>1. 0 \in U
    BY <1>1
  <2>2. n \notin U
    <3>1. j + n \in j .. j + n /\ j + n \notin 1 .. n
      BY <1>1
    <3> QED BY <3>1
  <2>3. PICK u \in 0 .. n - 1 : u \in U /\ u + 1 \notin U
    <3> HIDE DEF U
    <3> QED BY <2>1, <2>2, CountUp
  <2>4. j + u + 1 \notin near
    <3>1. j .. j + (u + 1) = (j .. j + u) \cup {j + u + 1}
      BY <1>1
    <3> QED BY <2>3, <3>1
  <2> QED BY <2>3, <2>4
<1>3. PICK d \in 0 .. n - 1 : j - d .. j \subseteq near /\ j - d - 1 \notin near
  <2>1. 0 \in D
    BY <1>1
  <2>2. n \notin D
    <3>1. j - n \in j - n .. j /\ j - n \notin 1 .. n
      BY <1>1
    <3> QED BY <3>1
  <2>3. PICK d \in 0 .. n - 1 : d \in D /\ d + 1 \notin D
    <3> HIDE DEF D
    <3> QED BY <2>1, <2>2, CountUp
  <2>4. j - d - 1 \notin near
    <3>1. j - (d + 1) .. j = (j - d .. j) \cup {j - d - 1}
      BY <1>1
    <3> QED BY <2>3, <3>1
  <2> QED BY <2>3, <2>4
<1> DEFINE x == <<j - d, j + u>>
<1>4. /\ x[1] = j - d /\ x[2] = j + u /\ j \in x[1] .. x[2] /\ x[1] <= x[2]
      /\ x[1] .. x[2] = (j - d .. j) \cup (j .. j + u)
      /\ x[1] \in x[1] .. x[2] /\ x[2] \in x[1] .. x[2]
  BY <1>1
<1>5. x[1] .. x[2] \subseteq near /\ x \in near \X near
  BY <1>2, <1>3, <1>4
<1>6. x[1] - 1 \notin near /\ x[2] + 1 \notin near
  BY <1>2, <1>3, <1>4
<1> HIDE DEF x
<1>7. IsRun(x, near)
  BY <1>4, <1>5, <1>6 DEF IsRun
<1> QED
  BY <1>4, <1>7

\* Where two runs begin and end, if they are within 1..n and apart.
LEMMA RunBounds ==
  ASSUME NEW n \in Nat, NEW a \in 1 .. n, NEW b \in a .. n, NEW c \in 1 .. n, NEW d \in c .. n, b < c
  PROVE  /\ a - 1 \in 0 .. n /\ b \in 0 .. n /\ c - 1 \in 0 .. n /\ d \in 0 .. n
         /\ b <= c - 1
  OBVIOUS

\* Two of them are apart.
LEMMA RunsApart ==
  ASSUME NEW n \in Nat, NEW near \in SUBSET (1 .. n), NEW x, NEW y, IsRun(x, near), IsRun(y, near), x # y
  PROVE  x[2] < y[1] \/ y[2] < x[1]
<1>1. x[1] \in near /\ x[2] \in near /\ y[1] \in near /\ y[2] \in near
  BY DEF IsRun
<1>2. x = <<x[1], x[2]>> /\ y = <<y[1], y[2]>>
  BY DEF IsRun
<1>3. x[1] \in Int /\ x[2] \in Int /\ y[1] \in Int /\ y[2] \in Int
  <2>1. \A i \in near : i \in Int
    OBVIOUS
  <2> QED BY <1>1, <2>1
<1>4. SUFFICES ASSUME ~ (x[2] < y[1]), ~ (y[2] < x[1]) PROVE FALSE
  OBVIOUS
<1>5. x[1] = y[1]
  <2>1. x[1] < y[1] => y[1] - 1 \in x[1] .. x[2]
    BY <1>3, <1>4
  <2>2. y[1] < x[1] => x[1] - 1 \in y[1] .. y[2]
    BY <1>3, <1>4
  <2> QED BY <1>3, <2>1, <2>2 DEF IsRun
<1>6. x[2] = y[2]
  <2>1. x[2] < y[2] => x[2] + 1 \in y[1] .. y[2]
    BY <1>3, <1>4
  <2>2. y[2] < x[2] => y[2] + 1 \in x[1] .. x[2]
    BY <1>3, <1>4
  <2> QED BY <1>3, <2>1, <2>2 DEF IsRun
<1> QED
  BY <1>2, <1>5, <1>6
-----------------------------------------------------------------------------
(* The script of a matching *)

ChangeOf(f, t, was, now) ==
  [old |-> IF now[1] = was[1] THEN 0 ELSE now[1],
   new |-> IF now[2] = was[2] THEN 0 ELSE now[2],
   text |-> IF now[1] = was[1] THEN t[now[2]].text ELSE f[now[1]].text]

Onward(f, t, m, was) ==
  IF was[1] + 1 <= Len(f) /\ ~ \E x \in m : x[1] = was[1] + 1 THEN <<was[1] + 1, was[2]>>
  ELSE IF was[2] + 1 <= Len(t) /\ ~ \E x \in m : x[2] = was[2] + 1 THEN <<was[1], was[2] + 1>>
  ELSE <<was[1] + 1, was[2] + 1>>

IsWay(p, f, t, m, n) ==
  /\ p = [k \in 0 .. n |-> p[k]] /\ p[0] = <<0, 0>>
  /\ \A k \in 1 .. n : p[k] = Onward(f, t, m, p[k - 1])

LEMMA WayExists ==
  ASSUME NEW f, NEW t, NEW m, NEW n \in Nat
  PROVE  \E p : IsWay(p, f, t, m, n)
<1> DEFINE T == {k \in 0 .. n : \E p : IsWay(p, f, t, m, k)}
<1>1. 0 \in T
  <2>1. IsWay([k \in 0 .. 0 |-> <<0, 0>>], f, t, m, 0)
    BY DEF IsWay
  <2> QED BY <2>1
<1>2. ASSUME NEW k \in 0 .. n - 1, k \in T PROVE k + 1 \in T
  <2>1. PICK p : IsWay(p, f, t, m, k)
    BY <1>2
  <2> DEFINE q == [i \in 0 .. k + 1 |-> IF i = k + 1 THEN Onward(f, t, m, p[k]) ELSE p[i]]
  <2>2. \A i \in 0 .. k : q[i] = p[i]
    OBVIOUS
  <2>3. q[k + 1] = Onward(f, t, m, p[k])
    OBVIOUS
  <2>4. q = [i \in 0 .. k + 1 |-> q[i]]
    OBVIOUS
  <2> HIDE DEF q
  <2>5. ASSUME NEW i \in 1 .. k + 1 PROVE q[i] = Onward(f, t, m, q[i - 1])
    <3>1. CASE i = k + 1
      <4>1. i - 1 = k /\ q[k] = p[k]
        BY <2>2, <3>1
      <4> QED BY <2>3, <3>1, <4>1
    <3>2. CASE i # k + 1
      <4>1. i \in 1 .. k /\ q[i] = p[i] /\ q[i - 1] = p[i - 1]
        BY <2>2, <3>2
      <4> QED BY <2>1, <4>1 DEF IsWay
    <3> QED BY <3>1, <3>2
  <2>6. q[0] = <<0, 0>>
    BY <2>1, <2>2 DEF IsWay
  <2>7. IsWay(q, f, t, m, k + 1)
    BY <2>4, <2>5, <2>6 DEF IsWay
  <2> QED BY <2>7
<1>3. n \in T
  <2> HIDE DEF T
  <2> QED BY <1>1, <1>2, CountUp
<1> QED
  BY <1>3

LEMMA ScriptIs ==
  ASSUME NEW f, NEW t, NEW m, Len(f) + Len(t) - Cardinality(m) \in Nat
  PROVE  LET size == Len(f) + Len(t) - Cardinality(m)
         IN \E p : /\ IsWay(p, f, t, m, size)
                   /\ Script(f, t, m) = [k \in 1 .. size |-> ChangeOf(f, t, p[k - 1], p[k])]
<1> DEFINE size == Len(f) + Len(t) - Cardinality(m)
           goes(i) == i <= Len(f) /\ ~ \E x \in m : x[1] = i
           comes(j) == j <= Len(t) /\ ~ \E x \in m : x[2] = j
           Body(g) == [k \in 0 .. size |->
             IF k = 0 THEN <<0, 0>>
             ELSE LET was == g[k - 1] IN
                  IF goes(was[1] + 1) THEN <<was[1] + 1, was[2]>>
                  ELSE IF comes(was[2] + 1) THEN <<was[1], was[2] + 1>>
                  ELSE <<was[1] + 1, was[2] + 1>>]
           past == CHOOSE g : g = Body(g)
           change(was, now) ==
             [old |-> IF now[1] = was[1] THEN 0 ELSE now[1],
              new |-> IF now[2] = was[2] THEN 0 ELSE now[2],
              text |-> IF now[1] = was[1] THEN t[now[2]].text ELSE f[now[1]].text]
<1>1. Script(f, t, m) = [k \in 1 .. size |-> change(past[k - 1], past[k])]
  BY DEF Script
<1>. size \in Nat
  OBVIOUS
<1> HIDE DEF size
<1>2. \A was, now : change(was, now) = ChangeOf(f, t, was, now)
  BY DEF ChangeOf
<1>3. PICK h : IsWay(h, f, t, m, size)
  BY WayExists
<1>4. ASSUME NEW g PROVE g = Body(g) <=> IsWay(g, f, t, m, size)
  <2>1. Body(g) = [k \in 0 .. size |-> Body(g)[k]]
    OBVIOUS
  <2>2. Body(g)[0] = <<0, 0>>
    OBVIOUS
  <2>3. ASSUME NEW k \in 1 .. size PROVE Body(g)[k] = Onward(f, t, m, g[k - 1])
    <3>1. k \in 0 .. size /\ k # 0
      OBVIOUS
    <3> QED BY <3>1 DEF Onward
  <2>4. \A k \in 0 .. size : k = 0 \/ k \in 1 .. size
    OBVIOUS
  <2> HIDE DEF Body
  <2> QED BY <2>1, <2>2, <2>3, <2>4 DEF IsWay
<1>5. past = Body(past)
  <2> HIDE DEF Body
  <2> QED BY <1>3, <1>4
<1> HIDE DEF past, Body, change
<1>6. IsWay(past, f, t, m, size)
  BY <1>4, <1>5
<1>7. Script(f, t, m) = [k \in 1 .. size |-> ChangeOf(f, t, past[k - 1], past[k])]
  BY <1>1, <1>2
<1> QED
  BY <1>6, <1>7 DEF size

\* What is true of the lines that come before some change.
Reached(f, t, m, k, at) ==
  /\ at = <<at[1], at[2]>> /\ at[1] \in 0 .. Len(f) /\ at[2] \in 0 .. Len(t)
  /\ \A x \in m : x[1] <= at[1] <=> x[2] <= at[2]
  /\ at[1] + at[2] = k + Cardinality({x \in m : x[1] <= at[1]})

\* Each change is of one line that goes, one that comes, or two that match.
IsStep(m, was, now) ==
  \/ now = <<was[1] + 1, was[2]>> /\ ~ \E x \in m : x[1] = was[1] + 1
  \/ now = <<was[1], was[2] + 1>> /\ ~ \E x \in m : x[2] = was[2] + 1
  \/ now = <<was[1] + 1, was[2] + 1>> /\ now \in m

LEMMA OnwardReaches ==
  ASSUME NEW S, NEW f \in Seq(S), NEW t \in Seq(S), NEW m \in Matchings(f, t), NEW k \in Nat, NEW was, NEW now,
         k < Len(f) + Len(t) - Cardinality(m), Reached(f, t, m, k, was), now = Onward(f, t, m, was)
  PROVE  IsStep(m, was, now) /\ Reached(f, t, m, k + 1, now)
<1> DEFINE a == was[1]
           b == was[2]
           Before(i) == {x \in m : x[1] <= i}
<1>1. /\ IsFiniteSet(m) /\ Cardinality(m) \in Nat
      /\ \A x \in m : /\ x[1] \in 1 .. Len(f) /\ x[2] \in 1 .. Len(t) /\ x = <<x[1], x[2]>>
      /\ \A x, y \in m : x[1] < y[1] <=> x[2] < y[2]
  BY MatchingIs
<1>2. /\ was = <<a, b>> /\ a \in 0 .. Len(f) /\ b \in 0 .. Len(t)
      /\ \A x \in m : x[1] <= a <=> x[2] <= b
      /\ a + b = k + Cardinality(Before(a))
  BY DEF Reached
<1>3. Len(f) \in Nat /\ Len(t) \in Nat
  OBVIOUS
<1>4. IsFiniteSet(Before(a)) /\ Cardinality(Before(a)) \in Nat
  <2>1. Before(a) \in SUBSET m
    OBVIOUS
  <2> QED BY <1>1, <2>1, FS_Subset, FS_CardinalityType
<1> HIDE DEF a, b
<1> DEFINE c == Cardinality(Before(a))
<1>5. c \in Nat /\ a + b = k + c /\ a \in Int /\ b \in Int /\ k \in Int
  BY <1>2, <1>3, <1>4
<1> HIDE DEF c
<1>6. now = IF a + 1 <= Len(f) /\ ~ \E x \in m : x[1] = a + 1 THEN <<a + 1, b>>
            ELSE IF b + 1 <= Len(t) /\ ~ \E x \in m : x[2] = b + 1 THEN <<a, b + 1>>
            ELSE <<a + 1, b + 1>>
  BY DEF Onward, a, b
<1>7. CASE a + 1 <= Len(f) /\ ~ \E x \in m : x[1] = a + 1
  <2>1. now = <<a + 1, b>> /\ now[1] = a + 1 /\ now[2] = b
    BY <1>6, <1>7
  <2>2. \A x \in m : x[1] <= a + 1 <=> x[1] <= a
    BY <1>1, <1>2, <1>7
  <2>3. Before(a + 1) = Before(a)
    BY <2>2
  <2> HIDE DEF Before
  <2>4. a + 1 + b = k + 1 + Cardinality(Before(a + 1))
    <3>1. Cardinality(Before(a + 1)) = c
      BY <2>3 DEF c
    <3> QED BY <1>5, <3>1
  <2>5. a + 1 \in 0 .. Len(f)
    BY <1>2, <1>3, <1>7
  <2>6. IsStep(m, was, now)
    BY <1>7, <2>1 DEF IsStep, a, b
  <2> QED BY <1>2, <2>1, <2>2, <2>4, <2>5, <2>6 DEF Reached, Before
<1>8. CASE ~ (a + 1 <= Len(f) /\ ~ \E x \in m : x[1] = a + 1) /\ b + 1 <= Len(t) /\ ~ \E x \in m : x[2] = b + 1
  <2>1. now = <<a, b + 1>> /\ now[1] = a /\ now[2] = b + 1
    BY <1>6, <1>8
  <2>2. \A x \in m : x[2] <= b + 1 <=> x[2] <= b
    BY <1>1, <1>2, <1>8
  <2>3. a + (b + 1) = k + 1 + Cardinality(Before(a))
    BY <1>2, <1>4
  <2>4. b + 1 \in 0 .. Len(t)
    BY <1>2, <1>3, <1>8
  <2>5. IsStep(m, was, now)
    BY <1>8, <2>1 DEF IsStep, a, b
  <2> QED BY <1>2, <2>1, <2>2, <2>3, <2>4, <2>5 DEF Reached
<1>9. CASE ~ (a + 1 <= Len(f) /\ ~ \E x \in m : x[1] = a + 1) /\ ~ (b + 1 <= Len(t) /\ ~ \E x \in m : x[2] = b + 1)
  <2>1. now = <<a + 1, b + 1>> /\ now[1] = a + 1 /\ now[2] = b + 1
    BY <1>6, <1>9
  <2>2. a + 1 <= Len(f) /\ b + 1 <= Len(t)
    <3>1. ASSUME a + 1 <= Len(f), ~ (b + 1 <= Len(t)) PROVE FALSE
      <4>1. PICK x \in m : x[1] = a + 1
        BY <1>9, <3>1
      <4>2. x[2] <= b
        BY <1>1, <1>2, <1>3, <3>1
      <4> QED BY <1>2, <4>1, <4>2
    <3>2. ASSUME b + 1 <= Len(t), ~ (a + 1 <= Len(f)) PROVE FALSE
      <4>1. PICK x \in m : x[2] = b + 1
        BY <1>9, <3>2
      <4>2. x[1] <= a
        BY <1>1, <1>2, <1>3, <3>2
      <4> QED BY <1>2, <4>1, <4>2
    <3>3. ASSUME ~ (a + 1 <= Len(f)), ~ (b + 1 <= Len(t)) PROVE FALSE
      <4>1. a = Len(f) /\ b = Len(t)
        <5>1. a \in 0 .. Len(f) /\ b \in 0 .. Len(t)
          BY <1>2
        <5> QED BY <1>3, <3>3, <5>1
      <4>2. \A x \in m : x[1] <= a
        BY <1>1, <1>3, <4>1
      <4>3. Before(a) = m
        BY <4>2
      <4>4. Len(f) + Len(t) = k + Cardinality(m)
        BY <1>2, <4>1, <4>3
      <4> QED BY <1>1, <1>3, <4>4
    <3> QED BY <3>1, <3>2, <3>3
  <2>3. PICK x \in m : x[1] = a + 1
    BY <1>9, <2>2
  <2>4. PICK y \in m : y[2] = b + 1
    BY <1>9, <2>2
  <2>5. x[2] > b /\ y[1] > a
    <3>1. ~ (x[1] <= a) /\ ~ (y[2] <= b)
      BY <1>2, <2>3, <2>4
    <3> QED BY <1>1, <1>2, <3>1
  <2>6. x[2] = b + 1
    <3>1. ~ (y[1] < x[1])
      BY <1>1, <1>2, <2>3, <2>5
    <3>2. ~ (y[2] < x[2])
      BY <1>1, <3>1
    <3> QED BY <1>1, <1>2, <2>4, <2>5, <3>2
  <2>7. x = now
    BY <1>1, <2>1, <2>3, <2>6
  <2>8. IsStep(m, was, now)
    BY <2>1, <2>7 DEF IsStep, a, b
  <2>9. \A z \in m : z[1] <= a + 1 <=> z[1] <= a \/ z = x
    <3> SUFFICES ASSUME NEW z \in m PROVE z[1] <= a + 1 <=> z[1] <= a \/ z = x
      OBVIOUS
    <3>1. ASSUME z[1] = a + 1 PROVE z = x
      <4>1. z[2] = x[2]
        BY <1>1, <2>3, <3>1
      <4>2. z = <<z[1], z[2]>> /\ x = <<x[1], x[2]>>
        BY <1>1
      <4> QED BY <2>3, <3>1, <4>1, <4>2
    <3>2. z[1] \in Int /\ a \in Int
      BY <1>1, <1>5
    <3> QED BY <2>3, <3>1, <3>2
  <2>10. \A z \in m : z[1] <= a + 1 <=> z[2] <= b + 1
    <3> SUFFICES ASSUME NEW z \in m PROVE z[1] <= a + 1 <=> z[2] <= b + 1
      OBVIOUS
    <3>1. /\ z[1] \in Int /\ z[2] \in Int /\ a \in Int /\ b \in Int
          /\ x[1] < z[1] <=> x[2] < z[2]
      BY <1>1, <1>2
    <3> QED BY <2>3, <2>6, <3>1
  <2>11. Before(a + 1) = Before(a) \cup {x} /\ x \notin Before(a)
    BY <1>2, <2>3, <2>9
  <2> HIDE DEF Before
  <2>12. Cardinality(Before(a + 1)) = Cardinality(Before(a)) + 1
    BY <1>4, <2>11, FS_AddElement
  <2>13. a + 1 + (b + 1) = k + 1 + Cardinality(Before(a + 1))
    <3>1. Cardinality(Before(a + 1)) = c + 1
      BY <2>12 DEF c
    <3> QED BY <1>5, <3>1
  <2>14. a + 1 \in 0 .. Len(f) /\ b + 1 \in 0 .. Len(t)
    BY <1>2, <1>3, <2>2
  <2> QED BY <2>1, <2>8, <2>10, <2>13, <2>14 DEF Reached, Before
<1> QED
  BY <1>7, <1>8, <1>9
\* As many things as there are numbers for them, each with its own.
LEMMA NumbersFit ==
  ASSUME NEW R, NEW g, NEW lo \in Nat, NEW hi \in Nat, lo <= hi,
         \A x \in R : g[x] \in lo + 1 .. hi,
         g = [x \in R |-> g[x]], \A x, y \in R : g[x] = g[y] => x = y
  PROVE  Cardinality(R) <= hi - lo
<1> DEFINE nth == [x \in R |-> g[x] - lo]
<1>1. hi - lo \in Nat
  OBVIOUS
<1>2. IsFiniteSet(1 .. hi - lo) /\ Cardinality(1 .. hi - lo) = hi - lo
  BY <1>1, CountOfIndices
<1>3. nth \in [R -> 1 .. hi - lo]
  OBVIOUS
<1>4. \A x, y \in R : nth[x] = nth[y] => x = y
  <2> SUFFICES ASSUME NEW x \in R, NEW y \in R, nth[x] = nth[y] PROVE x = y
    OBVIOUS
  <2>1. g[x] \in Int /\ g[y] \in Int /\ nth[x] = g[x] - lo /\ nth[y] = g[y] - lo
    OBVIOUS
  <2>2. g[x] = g[y]
    BY <2>1
  <2> QED BY <2>2
<1> HIDE DEF nth
<1>5. nth \in Injection(R, 1 .. hi - lo)
  BY <1>3, <1>4 DEF Injection, IsInjective
<1> QED
  BY <1>2, <1>5, FS_Injection

\* The way goes to the ends of both texts.
LEMMA WayReaches ==
  ASSUME NEW S, NEW f \in Seq(S), NEW t \in Seq(S), NEW m \in Matchings(f, t), NEW p, NEW size \in Nat,
         size = Len(f) + Len(t) - Cardinality(m), IsWay(p, f, t, m, size)
  PROVE  /\ \A k \in 0 .. size : Reached(f, t, m, k, p[k])
         /\ \A k \in 1 .. size : IsStep(m, p[k - 1], p[k])
         /\ p[size] = <<Len(f), Len(t)>>
<1> DEFINE T == {k \in 0 .. size : Reached(f, t, m, k, p[k])}
<1>1. /\ IsFiniteSet(m) /\ Cardinality(m) \in Nat
      /\ \A x \in m : /\ x[1] \in 1 .. Len(f) /\ x[2] \in 1 .. Len(t) /\ x = <<x[1], x[2]>>
      /\ \A x, y \in m : x[1] < y[1] <=> x[2] < y[2]
  BY MatchingIs
<1>2. 0 \in T
  <2>1. p[0] = <<0, 0>> /\ p[0][1] = 0 /\ p[0][2] = 0
    BY DEF IsWay
  <2>2. \A x \in m : ~ (x[1] <= 0) /\ ~ (x[2] <= 0)
    BY <1>1
  <2>3. {x \in m : x[1] <= 0} = {} /\ Cardinality({}) = 0
    BY <2>2, FS_EmptySet
  <2>4. {x \in m : x[1] <= p[0][1]} = {}
    BY <2>1, <2>3
  <2>5. p[0] = <<p[0][1], p[0][2]>> /\ p[0][1] \in 0 .. Len(f) /\ p[0][2] \in 0 .. Len(t)
    BY <2>1
  <2>6. p[0][1] + p[0][2] = 0 + Cardinality({x \in m : x[1] <= p[0][1]})
    BY <2>1, <2>3, <2>4
  <2>7. \A x \in m : x[1] <= p[0][1] <=> x[2] <= p[0][2]
    BY <2>1, <2>2
  <2>8. Reached(f, t, m, 0, p[0])
    BY <2>5, <2>6, <2>7 DEF Reached
  <2> QED BY <2>8
<1>3. ASSUME NEW k \in 0 .. size - 1, Reached(f, t, m, k, p[k])
      PROVE  Reached(f, t, m, k + 1, p[k + 1]) /\ IsStep(m, p[k], p[k + 1])
  <2>1. k \in Nat /\ k < Len(f) + Len(t) - Cardinality(m) /\ k + 1 \in 1 .. size /\ k + 1 - 1 = k
    OBVIOUS
  <2>2. p[k + 1] = Onward(f, t, m, p[k])
    <3>1. \A i \in 1 .. size : p[i] = Onward(f, t, m, p[i - 1])
      BY DEF IsWay
    <3>2. p[k + 1] = Onward(f, t, m, p[k + 1 - 1])
      BY <2>1, <3>1
    <3> QED BY <2>1, <3>2
  <2> QED BY <1>3, <2>1, <2>2, OnwardReaches
<1>4. \A k \in 0 .. size : k \in T
  <2>1. \A k \in 0 .. size - 1 : k \in T => k + 1 \in T
    BY <1>3
  <2> HIDE DEF T
  <2> QED BY <1>2, <2>1, CountUp
<1>5. \A k \in 1 .. size : IsStep(m, p[k - 1], p[k])
  <2> SUFFICES ASSUME NEW k \in 1 .. size PROVE IsStep(m, p[k - 1], p[k])
    OBVIOUS
  <2>1. k - 1 \in 0 .. size - 1 /\ k - 1 + 1 = k /\ k - 1 \in 0 .. size
    OBVIOUS
  <2>2. Reached(f, t, m, k - 1, p[k - 1])
    BY <1>4, <2>1
  <2> QED BY <1>3, <2>1, <2>2
<1>6. p[size] = <<Len(f), Len(t)>>
  <2> DEFINE a == p[size][1]
             b == p[size][2]
             M == {x \in m : x[1] <= a}
             R == m \ M
  <2>1. Reached(f, t, m, size, p[size])
    BY <1>4
  <2>2. /\ p[size] = <<a, b>> /\ a \in 0 .. Len(f) /\ b \in 0 .. Len(t)
        /\ \A x \in m : x[1] <= a <=> x[2] <= b
        /\ a + b = size + Cardinality(M)
    BY <2>1 DEF Reached
  <2>3. Len(f) \in Nat /\ Len(t) \in Nat /\ a \in Nat /\ b \in Nat /\ a <= Len(f) /\ b <= Len(t)
    BY <2>2
  <2> HIDE DEF a, b
  <2>4. IsFiniteSet(M) /\ Cardinality(M) \in Nat /\ Cardinality(R) = Cardinality(m) - Cardinality(M)
        /\ Cardinality(R) \in Nat
    <3>1. M \in SUBSET m /\ m \cap M = M /\ R \in SUBSET m
      OBVIOUS
    <3> HIDE DEF M
    <3>2. IsFiniteSet(M) /\ IsFiniteSet(R)
      BY <1>1, <3>1, FS_Subset
    <3>3. Cardinality(R) = Cardinality(m) - Cardinality(M)
      BY <1>1, <3>1, FS_Difference
    <3> QED BY <3>2, <3>3, FS_CardinalityType
  <2>5. \A x, y \in m : (x[1] = y[1] \/ x[2] = y[2]) => x = y
    <3> SUFFICES ASSUME NEW x \in m, NEW y \in m, x[1] = y[1] \/ x[2] = y[2] PROVE x = y
      OBVIOUS
    <3>1. x[1] = y[1] /\ x[2] = y[2]
      BY <1>1
    <3> QED BY <1>1, <3>1
  <2>6. Cardinality(R) <= Len(f) - a
    <3> DEFINE g == [x \in R |-> x[1]]
    <3>1. \A x \in R : g[x] \in a + 1 .. Len(f)
      BY <1>1, <2>3
    <3>2. g = [x \in R |-> g[x]] /\ \A x, y \in R : g[x] = g[y] => x = y
      BY <2>5
    <3> HIDE DEF g, R
    <3> QED BY <2>3, <3>1, <3>2, NumbersFit
  <2>7. Cardinality(R) <= Len(t) - b
    <3> DEFINE g == [x \in R |-> x[2]]
    <3>1. \A x \in R : g[x] \in b + 1 .. Len(t)
      BY <1>1, <2>2, <2>3
    <3>2. g = [x \in R |-> g[x]] /\ \A x, y \in R : g[x] = g[y] => x = y
      BY <2>5
    <3> HIDE DEF g, R
    <3> QED BY <2>3, <3>1, <3>2, NumbersFit
  <2>8. a = Len(f) /\ b = Len(t)
    <3> DEFINE r == Cardinality(R)
               c == Cardinality(M)
               n == Cardinality(m)
               F == Len(f)
               L == Len(t)
    <3>1. r \in Nat /\ c \in Nat /\ n \in Nat /\ r = n - c
      BY <1>1, <2>4
    <3>2. r <= F - a /\ r <= L - b /\ a + b = size + c /\ size = F + L - n
      BY <2>2, <2>6, <2>7
    <3>3. F \in Nat /\ L \in Nat /\ a \in Nat /\ b \in Nat /\ a <= F /\ b <= L
      BY <2>3
    <3> HIDE DEF r, c, n, F, L, a, b
    <3>4. size + c = F + L - r
      BY <3>1, <3>2, <3>3
    <3>5. a + b <= F + L - r - r
      BY <3>1, <3>2, <3>3
    <3>6. a + b = F + L
      BY <3>1, <3>2, <3>3, <3>4, <3>5
    <3>7. a = F /\ b = L
      BY <3>3, <3>6
    <3> QED BY <3>7 DEF F, L
  <2> QED BY <2>2, <2>8
<1> QED
  BY <1>4, <1>5, <1>6

\* A script, by how many lines of each side come before each change.
IsScript(s, f, t, m, A, B) ==
  /\ DOMAIN s = 1 .. Len(s) /\ Len(s) \in Nat /\ s \in Seq({s[k] : k \in DOMAIN s})
  /\ Climbs(A, Len(s), Len(f)) /\ Climbs(B, Len(s), Len(t))
  /\ \A k \in 1 .. Len(s) :
       /\ s[k].old = IF A[k] = A[k - 1] THEN 0 ELSE A[k]
       /\ s[k].new = IF B[k] = B[k - 1] THEN 0 ELSE B[k]
       /\ A[k] # A[k - 1] => s[k].text = f[A[k]].text
       /\ B[k] # B[k - 1] => s[k].text = t[B[k]].text
       /\ A[k] # A[k - 1] /\ ~ (\E x \in m : x[1] = A[k]) => B[k] = B[k - 1]
       /\ B[k] # B[k - 1] /\ ~ (\E x \in m : x[2] = B[k]) => A[k] = A[k - 1]

LEMMA ScriptClimbs ==
  ASSUME NEW S, NEW f \in Seq(S), NEW t \in Seq(S), NEW m \in Matchings(f, t)
  PROVE  \E A, B : IsScript(Script(f, t, m), f, t, m, A, B)
<1> DEFINE size == Len(f) + Len(t) - Cardinality(m)
           s == Script(f, t, m)
<1>1. /\ IsFiniteSet(m) /\ Cardinality(m) \in Nat
      /\ \A x \in m : f[x[1]] = t[x[2]] /\ x = <<x[1], x[2]>>
  BY MatchingIs
<1>2. size \in Nat
  <2> DEFINE rest == Unmatched(t, m)
  <2>1. IsFiniteSet(rest) /\ Cardinality(rest) = Len(t) - Cardinality(m)
    BY UnmatchedAre DEF Unmatched
  <2>2. Cardinality(rest) \in Nat
    BY <2>1, FS_CardinalityType
  <2>3. Len(f) \in Nat /\ Len(t) \in Nat
    OBVIOUS
  <2> QED BY <1>1, <2>1, <2>2, <2>3
<1>3. PICK p : IsWay(p, f, t, m, size) /\ s = [k \in 1 .. size |-> ChangeOf(f, t, p[k - 1], p[k])]
  BY <1>2, ScriptIs
<1>4. /\ \A k \in 0 .. size : Reached(f, t, m, k, p[k])
      /\ \A k \in 1 .. size : IsStep(m, p[k - 1], p[k])
      /\ p[size] = <<Len(f), Len(t)>>
  BY <1>2, <1>3, WayReaches
<1> HIDE DEF size, s
<1> DEFINE A == [k \in 0 .. size |-> p[k][1]]
           B == [k \in 0 .. size |-> p[k][2]]
<1>5. DOMAIN s = 1 .. Len(s) /\ Len(s) = size /\ s \in Seq({s[k] : k \in DOMAIN s})
      /\ \A k \in 1 .. size : s[k] = ChangeOf(f, t, p[k - 1], p[k])
  <2>1. DOMAIN s = 1 .. size /\ \A k \in 1 .. size : s[k] = ChangeOf(f, t, p[k - 1], p[k])
    BY <1>3
  <2>2. s = [k \in 1 .. size |-> s[k]]
    BY <1>3
  <2> DEFINE V == {s[k] : k \in DOMAIN s}
  <2>3. \A k \in 1 .. size : s[k] \in V
    BY <2>1
  <2>4. s \in [1 .. size -> V]
    <3> HIDE DEF V
    <3> QED BY <2>2, <2>3
  <2>5. s \in Seq(V) /\ Len(s) = size
    <3> HIDE DEF V
    <3> QED BY <1>2, <2>1, <2>4
  <2> QED BY <2>1, <2>5
<1>6. ASSUME NEW k \in 0 .. size PROVE A[k] \in Nat /\ B[k] \in Nat /\ p[k] = <<A[k], B[k]>>
  <2>1. Reached(f, t, m, k, p[k])
    BY <1>4
  <2>2. p[k] = <<p[k][1], p[k][2]>> /\ p[k][1] \in 0 .. Len(f) /\ p[k][2] \in 0 .. Len(t)
    BY <2>1 DEF Reached
  <2>3. A[k] = p[k][1] /\ B[k] = p[k][2]
    OBVIOUS
  <2> HIDE DEF A, B
  <2> QED BY <2>2, <2>3
<1>7. ASSUME NEW k \in 1 .. size
      PROVE  /\ k - 1 \in 0 .. size /\ k \in 0 .. size
             /\ p[k - 1][1] = A[k - 1] /\ p[k - 1][2] = B[k - 1] /\ p[k][1] = A[k] /\ p[k][2] = B[k]
             /\ \/ A[k] = A[k - 1] + 1 /\ B[k] = B[k - 1] /\ ~ \E x \in m : x[1] = A[k]
                \/ A[k] = A[k - 1] /\ B[k] = B[k - 1] + 1 /\ ~ \E x \in m : x[2] = B[k]
                \/ A[k] = A[k - 1] + 1 /\ B[k] = B[k - 1] + 1 /\ <<A[k], B[k]>> \in m
  <2>1. k - 1 \in 0 .. size /\ k \in 0 .. size
    BY <1>2
  <2>2. p[k - 1] = <<A[k - 1], B[k - 1]>> /\ p[k] = <<A[k], B[k]>>
    BY <1>6, <2>1
  <2>3. IsStep(m, p[k - 1], p[k])
    BY <1>4
  <2> HIDE DEF A, B
  <2>4. p[k - 1][1] = A[k - 1] /\ p[k - 1][2] = B[k - 1] /\ p[k][1] = A[k] /\ p[k][2] = B[k]
    BY <2>2
  <2> QED BY <2>1, <2>2, <2>3, <2>4 DEF IsStep
<1>8. Climbs(A, size, Len(f)) /\ Climbs(B, size, Len(t))
  <2>1. A \in [0 .. size -> Nat] /\ B \in [0 .. size -> Nat]
    BY <1>6
  <2>2. A[0] = 0 /\ B[0] = 0 /\ A[size] = Len(f) /\ B[size] = Len(t)
    <3>1. p[0] = <<0, 0>>
      BY <1>3 DEF IsWay
    <3>2. p[0] = <<A[0], B[0]>> /\ p[size] = <<A[size], B[size]>>
      BY <1>2, <1>6
    <3> HIDE DEF A, B
    <3> QED BY <1>4, <3>1, <3>2
  <2> HIDE DEF A, B
  <2> QED BY <1>7, <2>1, <2>2 DEF Climbs
<1> HIDE DEF A, B
<1>9. ASSUME NEW k \in 1 .. size
      PROVE  /\ s[k].old = IF A[k] = A[k - 1] THEN 0 ELSE A[k]
             /\ s[k].new = IF B[k] = B[k - 1] THEN 0 ELSE B[k]
             /\ A[k] # A[k - 1] => s[k].text = f[A[k]].text
             /\ B[k] # B[k - 1] => s[k].text = t[B[k]].text
             /\ A[k] # A[k - 1] /\ ~ (\E x \in m : x[1] = A[k]) => B[k] = B[k - 1]
             /\ B[k] # B[k - 1] /\ ~ (\E x \in m : x[2] = B[k]) => A[k] = A[k - 1]
  <2>1. /\ s[k].old = IF A[k] = A[k - 1] THEN 0 ELSE A[k]
        /\ s[k].new = IF B[k] = B[k - 1] THEN 0 ELSE B[k]
        /\ s[k].text = IF A[k] = A[k - 1] THEN t[B[k]].text ELSE f[A[k]].text
    <3> DEFINE was == p[k - 1]
               now == p[k]
    <3>1. s[k] = ChangeOf(f, t, was, now)
      BY <1>5
    <3>2. was[1] = A[k - 1] /\ was[2] = B[k - 1] /\ now[1] = A[k] /\ now[2] = B[k]
      BY <1>7
    <3> HIDE DEF was, now
    <3> QED BY <3>1, <3>2 DEF ChangeOf
  <2>2. A[k - 1] \in Nat /\ B[k - 1] \in Nat
    BY <1>6, <1>7
  <2>3. CASE A[k] = A[k - 1] + 1 /\ B[k] = B[k - 1] /\ ~ \E x \in m : x[1] = A[k]
    BY <2>1, <2>2, <2>3
  <2>4. CASE A[k] = A[k - 1] /\ B[k] = B[k - 1] + 1 /\ ~ \E x \in m : x[2] = B[k]
    BY <2>1, <2>2, <2>4
  <2>5. CASE A[k] = A[k - 1] + 1 /\ B[k] = B[k - 1] + 1 /\ <<A[k], B[k]>> \in m
    <3>1. f[A[k]] = t[B[k]]
      <4> DEFINE x == <<A[k], B[k]>>
      <4>1. x[1] = A[k] /\ x[2] = B[k]
        OBVIOUS
      <4> QED BY <1>1, <2>5, <4>1
    <3>2. A[k] # A[k - 1] /\ B[k] # B[k - 1] /\ (\E x \in m : x[1] = A[k]) /\ (\E x \in m : x[2] = B[k])
      <4>1. <<A[k], B[k]>>[1] = A[k] /\ <<A[k], B[k]>>[2] = B[k]
        OBVIOUS
      <4> QED BY <2>2, <2>5, <4>1
    <3> QED BY <2>1, <3>1, <3>2
  <2> QED BY <1>7, <2>3, <2>4, <2>5
<1>10. IsScript(s, f, t, m, A, B)
  BY <1>2, <1>5, <1>8, <1>9 DEF IsScript
<1> QED
  BY <1>10 DEF s
-----------------------------------------------------------------------------
(* Hunks *)

\* A hunk that is where it says it is, of the changes from lo to hi.
IsHunk(h, f, t, A, B, lo, hi) ==
  /\ h.from_start = IF A[hi] = A[lo - 1] THEN 0 ELSE A[lo - 1] + 1
  /\ h.from_len = A[hi] - A[lo - 1]
  /\ h.to_start = IF B[hi] = B[lo - 1] THEN 0 ELSE B[lo - 1] + 1
  /\ h.to_len = B[hi] - B[lo - 1]
  /\ Shows(Olds(h.lines), h.from_start, h.from_len)
  /\ Shows(News(h.lines), h.to_start, h.to_len)
  /\ \A k \in DOMAIN h.lines :
       /\ h.lines[k].old # 0 => h.lines[k].text = f[h.lines[k].old].text
       /\ h.lines[k].new # 0 => h.lines[k].text = t[h.lines[k].new].text

\* So is the hunk that is made of them.
LEMMA HunkIs ==
  ASSUME NEW s, NEW f, NEW t, NEW m, NEW A, NEW B, NEW lo \in 1 .. Len(s), NEW hi \in lo .. Len(s),
         IsScript(s, f, t, m, A, B)
  PROVE  IsHunk(Hunk(SubSeq(s, lo, hi)), f, t, A, B, lo, hi)
<1> DEFINE c == SubSeq(s, lo, hi)
           n == Len(s)
<1>1. /\ n \in Nat /\ Climbs(A, n, Len(f)) /\ Climbs(B, n, Len(t)) /\ lo \in 1 .. n /\ hi \in lo .. n
      /\ \A k \in 1 .. n :
           /\ s[k].old = IF A[k] = A[k - 1] THEN 0 ELSE A[k]
           /\ s[k].new = IF B[k] = B[k - 1] THEN 0 ELSE B[k]
           /\ A[k] # A[k - 1] => s[k].text = f[A[k]].text
           /\ B[k] # B[k - 1] => s[k].text = t[B[k]].text
  BY DEF IsScript
<1>2. DOMAIN c = 1 .. hi - lo + 1 /\ \A k \in 1 .. hi - lo + 1 : c[k] = s[lo + k - 1]
  <2> DEFINE V == {s[k] : k \in DOMAIN s}
  <2>1. s \in Seq(V)
    BY DEF IsScript
  <2> HIDE DEF V
  <2> QED BY <1>1, <2>1
<1> HIDE DEF c, n
<1>3. ASSUME NEW k \in 1 .. hi - lo + 1
      PROVE  lo + k - 1 \in 1 .. n /\ lo + k - 1 - 1 = lo + k - 2 /\ c[k] = s[lo + k - 1]
  BY <1>1, <1>2
<1>4. Olds(c) = Shown(A, lo, hi)
  <2>1. ASSUME NEW k \in 1 .. hi - lo + 1
        PROVE  c[k].old = IF A[lo + k - 1] = A[lo + k - 2] THEN 0 ELSE A[lo + k - 1]
    <3> DEFINE i == lo + k - 1
    <3>1. i \in 1 .. n /\ i - 1 = lo + k - 2 /\ c[k] = s[i]
      BY <1>3
    <3> HIDE DEF i
    <3>2. s[i].old = IF A[i] = A[i - 1] THEN 0 ELSE A[i]
      BY <1>1, <3>1
    <3> QED BY <3>1, <3>2 DEF i
  <2> QED BY <1>2, <2>1 DEF Olds, Shown
<1>5. News(c) = Shown(B, lo, hi)
  <2>1. ASSUME NEW k \in 1 .. hi - lo + 1
        PROVE  c[k].new = IF B[lo + k - 1] = B[lo + k - 2] THEN 0 ELSE B[lo + k - 1]
    <3> DEFINE i == lo + k - 1
    <3>1. i \in 1 .. n /\ i - 1 = lo + k - 2 /\ c[k] = s[i]
      BY <1>3
    <3> HIDE DEF i
    <3>2. s[i].new = IF B[i] = B[i - 1] THEN 0 ELSE B[i]
      BY <1>1, <3>1
    <3> QED BY <3>1, <3>2 DEF i
  <2> QED BY <1>2, <2>1 DEF News, Shown
<1>6. /\ Start(Olds(c)) = IF A[hi] = A[lo - 1] THEN 0 ELSE A[lo - 1] + 1
      /\ Length(Olds(c)) = A[hi] - A[lo - 1]
      /\ Shows(Olds(c), Start(Olds(c)), Length(Olds(c)))
  BY <1>1, <1>4, SideIs
<1>7. /\ Start(News(c)) = IF B[hi] = B[lo - 1] THEN 0 ELSE B[lo - 1] + 1
      /\ Length(News(c)) = B[hi] - B[lo - 1]
      /\ Shows(News(c), Start(News(c)), Length(News(c)))
  BY <1>1, <1>5, SideIs
<1>8. ASSUME NEW k \in DOMAIN c
      PROVE  /\ c[k].old # 0 => c[k].text = f[c[k].old].text
             /\ c[k].new # 0 => c[k].text = t[c[k].new].text
  <2> DEFINE i == lo + k - 1
  <2>1. i \in 1 .. n /\ c[k] = s[i]
    BY <1>2, <1>3
  <2> HIDE DEF i
  <2>2. /\ s[i].old = IF A[i] = A[i - 1] THEN 0 ELSE A[i]
        /\ s[i].new = IF B[i] = B[i - 1] THEN 0 ELSE B[i]
        /\ A[i] # A[i - 1] => s[i].text = f[A[i]].text
        /\ B[i] # B[i - 1] => s[i].text = t[B[i]].text
    BY <1>1, <2>1
  <2>3. s[i].old # 0 => s[i].text = f[s[i].old].text
    BY <2>2
  <2>4. s[i].new # 0 => s[i].text = t[s[i].new].text
    BY <2>2
  <2> QED BY <2>1, <2>3, <2>4
<1>9. LET h == Hunk(c)
      IN /\ h.from_start = Start(Olds(c)) /\ h.from_len = Length(Olds(c))
         /\ h.to_start = Start(News(c)) /\ h.to_len = Length(News(c)) /\ h.lines = c
  BY DEF Hunk
<1> QED
  BY <1>6, <1>7, <1>8, <1>9 DEF IsHunk, c

ChangedIn(s) == {k \in DOMAIN s : s[k].old = 0 \/ s[k].new = 0}
NearIn(s, context) == {k \in DOMAIN s : \E c \in ChangedIn(s) : k <= c + context /\ c <= k + context}

LEMMA HunksAreRuns ==
  ASSUME NEW f, NEW t, NEW m, NEW context
  PROVE  LET s == Script(f, t, m)
         IN HunksWithin(f, t, m, context)
              = {Hunk(SubSeq(s, x[1], x[2])) :
                   x \in {x \in NearIn(s, context) \X NearIn(s, context) : IsRun(x, NearIn(s, context))}}
<1> DEFINE s == Script(f, t, m)
           near == NearIn(s, context)
           runs == {x \in near \X near : /\ x[1] <= x[2] /\ x[1] .. x[2] \subseteq near
                                         /\ x[1] - 1 \notin near /\ x[2] + 1 \notin near}
<1>1. HunksWithin(f, t, m, context) = {Hunk(SubSeq(s, x[1], x[2])) : x \in runs}
  BY DEF HunksWithin, NearIn, ChangedIn
<1>2. runs = {x \in near \X near : IsRun(x, near)}
  BY DEF IsRun
<1> QED
  BY <1>1, <1>2

\* Changes that do not step forward on a side; and those next to changes.
Changing(A, changed, n) == \A k \in 1 .. n : A[k] = A[k - 1] => k \in changed
Surrounds(near, changed, n) == \A k \in changed, j \in 1 .. n : j = k + 1 \/ j = k - 1 => j \in near

\* A hunk with no line of a side is all there is, and the side is empty.
LEMMA NoneShown ==
  ASSUME NEW A, NEW n \in Nat, NEW top, NEW changed, NEW near \in SUBSET (1 .. n), NEW x,
         IsRun(x, near), Climbs(A, n, top), Changing(A, changed, n), Surrounds(near, changed, n)
  PROVE  /\ x[1] \in 1 .. n /\ x[2] \in x[1] .. n
         /\ A[x[2]] = A[x[1] - 1] <=> top = 0
<1>1. x[1] \in 1 .. n /\ x[2] \in x[1] .. n /\ x[1] - 1 \notin near /\ x[2] + 1 \notin near
  <2>1. x[1] \in near /\ x[2] \in near /\ x[1] <= x[2]
    BY DEF IsRun
  <2>2. \A i \in near : i \in 1 .. n
    OBVIOUS
  <2>3. x[1] \in 1 .. n /\ x[2] \in 1 .. n
    BY <2>1, <2>2
  <2> QED BY <2>1, <2>3 DEF IsRun
<1> DEFINE lo == x[1]
           hi == x[2]
<1> HIDE DEF lo, hi
<1>2. lo \in 1 .. n /\ hi \in lo .. n /\ lo - 1 \notin near /\ hi + 1 \notin near
  BY <1>1 DEF lo, hi
<1>3. lo - 1 \in 0 .. n /\ lo \in 0 .. n /\ hi \in 0 .. n /\ hi - 1 \in 0 .. n /\ 0 \in 0 .. n /\ n \in 0 .. n
      /\ hi \in 1 .. n /\ lo - 1 <= lo /\ lo <= hi /\ lo - 1 <= hi - 1 /\ hi - 1 <= hi /\ 0 <= lo - 1 /\ hi <= n
  BY <1>2
<1>4. A[0] = 0 /\ A[n] = top
  BY DEF Climbs
<1>5. /\ A[lo - 1] <= A[lo] /\ A[lo] <= A[hi] /\ A[lo - 1] <= A[hi - 1] /\ A[hi - 1] <= A[hi]
      /\ A[0] <= A[lo - 1] /\ A[hi] <= A[n]
      /\ A[lo - 1] \in Nat /\ A[lo] \in Nat /\ A[hi] \in Nat /\ A[hi - 1] \in Nat /\ A[n] \in Nat
  <2>1. \A j, k \in 0 .. n : j <= k => A[j] \in Nat /\ A[k] \in Nat /\ A[j] <= A[k]
    BY ClimbsUp
  <2> QED BY <1>3, <2>1
<1>6. ASSUME A[hi] = A[lo - 1] PROVE top = 0
  <2>1. A[lo] = A[lo - 1] /\ A[hi] = A[hi - 1]
    BY <1>5, <1>6
  <2>2. lo \in changed /\ hi \in changed
    BY <1>2, <1>3, <2>1 DEF Changing
  <2>3. lo = 1
    <3>1. lo - 1 \notin 1 .. n
      BY <1>2, <2>2 DEF Surrounds
    <3> QED BY <1>2, <3>1
  <2>4. hi = n
    <3>1. hi + 1 \notin 1 .. n
      BY <1>2, <2>2 DEF Surrounds
    <3> QED BY <1>2, <3>1
  <2> QED BY <1>4, <1>6, <2>3, <2>4
<1>7. ASSUME top = 0 PROVE A[hi] = A[lo - 1]
  BY <1>4, <1>5, <1>7
<1> QED
  BY <1>2, <1>6, <1>7 DEF lo, hi

\* A changed line is within the range of some run.
LEMMA LineInRun ==
  ASSUME NEW A, NEW n \in Nat, NEW top \in Nat, NEW changed, NEW near \in SUBSET (1 .. n), NEW v \in 1 .. top,
         Climbs(A, n, top), changed \subseteq near,
         \A k \in 1 .. n : A[k] # A[k - 1] /\ A[k] = v => k \in changed
  PROVE  \E x : /\ IsRun(x, near) /\ x[1] \in 1 .. n /\ x[2] \in x[1] .. n
                /\ A[x[1] - 1] \in Nat /\ A[x[2]] \in Nat /\ A[x[1] - 1] + 1 <= v /\ v <= A[x[2]]
<1>1. PICK j \in 0 + 1 .. n : A[j] = v /\ A[j - 1] = v - 1
  <2>1. A[0] < v /\ v <= A[n] /\ v \in Nat /\ 0 \in 0 .. n /\ n \in 0 .. n
    BY DEF Climbs
  <2> QED BY <2>1, ClimbsBy
<1>2. j \in near
  BY <1>1
<1>3. PICK x : IsRun(x, near) /\ j \in x[1] .. x[2]
  BY <1>2, RunAround
<1>4. x[1] \in 1 .. n /\ x[2] \in x[1] .. n
  <2>1. x[1] \in near /\ x[2] \in near /\ x[1] <= x[2]
    BY <1>3 DEF IsRun
  <2>2. \A i \in near : i \in 1 .. n
    OBVIOUS
  <2>3. x[1] \in 1 .. n /\ x[2] \in 1 .. n
    BY <2>1, <2>2
  <2> QED BY <2>1, <2>3
<1>5. /\ x[1] - 1 \in 0 .. n /\ j - 1 \in 0 .. n /\ x[1] - 1 <= j - 1
      /\ j \in 0 .. n /\ x[2] \in 0 .. n /\ j <= x[2]
  BY <1>3, <1>4
<1>6. \A i, k \in 0 .. n : i <= k => A[i] \in Nat /\ A[k] \in Nat /\ A[i] <= A[k]
  BY ClimbsUp
<1>7. /\ A[x[1] - 1] \in Nat /\ A[x[2]] \in Nat
      /\ A[x[1] - 1] <= A[j - 1] /\ A[j] <= A[x[2]]
  BY <1>5, <1>6
<1>8. A[x[1] - 1] + 1 <= v /\ v <= A[x[2]]
  BY <1>1, <1>7
<1> QED
  BY <1>3, <1>4, <1>7, <1>8
\* What HunksFit says of the hunks of two texts.
FitTexts(hunks, f, t, m) ==
  /\ \A h \in hunks :
       /\ h.from_start = 0 <=> f = << >>
       /\ h.to_start = 0 <=> t = << >>
       /\ Shows(Olds(h.lines), h.from_start, h.from_len)
       /\ Shows(News(h.lines), h.to_start, h.to_len)
       /\ \A k \in DOMAIN h.lines :
            /\ h.lines[k].old # 0 => h.lines[k].text = f[h.lines[k].old].text
            /\ h.lines[k].new # 0 => h.lines[k].text = t[h.lines[k].new].text
  /\ \A h, g \in hunks : h # g =>
       h.from_start + h.from_len <= g.from_start \/ g.from_start + g.from_len <= h.from_start
  /\ \A k \in DOMAIN f : ~ (\E x \in m : x[1] = k) =>
       \E h \in hunks : k \in h.from_start .. h.from_start + h.from_len - 1
  /\ \A k \in DOMAIN t : ~ (\E x \in m : x[2] = k) =>
       \E h \in hunks : k \in h.to_start .. h.to_start + h.to_len - 1

LEMMA HunksFitTexts ==
  ASSUME NEW S, NEW f \in Seq(S), NEW t \in Seq(S), NEW m \in Matchings(f, t), NEW context \in Nat \ {0}
  PROVE  FitTexts(HunksWithin(f, t, m, context), f, t, m)
<1> DEFINE s == Script(f, t, m)
           n == Len(s)
           changed == ChangedIn(s)
           near == NearIn(s, context)
           hunks == HunksWithin(f, t, m, context)
           HunkOf(x) == Hunk(SubSeq(s, x[1], x[2]))
<1>1. PICK A, B : IsScript(s, f, t, m, A, B)
  BY ScriptClimbs
<1>2. hunks = {HunkOf(x) : x \in {x \in near \X near : IsRun(x, near)}}
  BY HunksAreRuns
<1>3. \A x : IsRun(x, near) => x \in near \X near
  BY DEF IsRun
<1> HIDE DEF s, hunks
<1>4. /\ DOMAIN s = 1 .. n /\ n \in Nat /\ Climbs(A, n, Len(f)) /\ Climbs(B, n, Len(t))
      /\ \A k \in 1 .. n :
           /\ s[k].old = IF A[k] = A[k - 1] THEN 0 ELSE A[k]
           /\ s[k].new = IF B[k] = B[k - 1] THEN 0 ELSE B[k]
           /\ A[k] # A[k - 1] /\ ~ (\E x \in m : x[1] = A[k]) => B[k] = B[k - 1]
           /\ B[k] # B[k - 1] /\ ~ (\E x \in m : x[2] = B[k]) => A[k] = A[k - 1]
  BY <1>1 DEF IsScript
<1>5. /\ near \in SUBSET (1 .. n) /\ changed \subseteq near /\ changed \subseteq 1 .. n
      /\ \A k \in changed, j \in 1 .. n : j = k + 1 \/ j = k - 1 => j \in near
  <2>1. changed \subseteq 1 .. n /\ near \in SUBSET (1 .. n)
    BY <1>4 DEF ChangedIn, NearIn
  <2>2. ASSUME NEW k \in changed, NEW j \in 1 .. n, j = k \/ j = k + 1 \/ j = k - 1 PROVE j \in near
    <3>1. k \in Int /\ j \in Int /\ context >= 1
      BY <2>1
    <3>2. j <= k + context /\ k <= j + context
      BY <2>2, <3>1
    <3> QED BY <1>4, <3>2 DEF NearIn
  <2> QED BY <2>1, <2>2
<1>6. /\ \A k \in 1 .. n : A[k] = A[k - 1] => k \in changed
      /\ \A k \in 1 .. n : B[k] = B[k - 1] => k \in changed
  BY <1>4 DEF ChangedIn
<1>7. \A h \in hunks : \E x : IsRun(x, near) /\ h = HunkOf(x)
  BY <1>2
<1>8. \A x : IsRun(x, near) => HunkOf(x) \in hunks
  BY <1>2, <1>3
<1> HIDE DEF n, changed, near, HunkOf
<1>9. ASSUME NEW x, IsRun(x, near)
      PROVE  /\ x[1] \in 1 .. n /\ x[2] \in x[1] .. n
             /\ A[x[2]] = A[x[1] - 1] <=> Len(f) = 0
             /\ B[x[2]] = B[x[1] - 1] <=> Len(t) = 0
  <2>1. n \in Nat /\ near \in SUBSET (1 .. n) /\ Surrounds(near, changed, n)
        /\ Changing(A, changed, n) /\ Changing(B, changed, n)
    BY <1>4, <1>5, <1>6 DEF Surrounds, Changing
  <2>2. /\ x[1] \in 1 .. n /\ x[2] \in x[1] .. n
        /\ A[x[2]] = A[x[1] - 1] <=> Len(f) = 0
    BY <1>4, <1>9, <2>1, NoneShown
  <2>3. B[x[2]] = B[x[1] - 1] <=> Len(t) = 0
    BY <1>4, <1>9, <2>1, NoneShown
  <2> QED BY <2>2, <2>3
<1>10. ASSUME NEW x, IsRun(x, near) PROVE IsHunk(HunkOf(x), f, t, A, B, x[1], x[2])
  <2>1. x[1] \in 1 .. Len(s) /\ x[2] \in x[1] .. Len(s)
    BY <1>9, <1>10 DEF n
  <2>2. IsHunk(Hunk(SubSeq(s, x[1], x[2])), f, t, A, B, x[1], x[2])
    BY <1>1, <2>1, HunkIs
  <2> QED BY <2>2 DEF HunkOf
<1>11. /\ \A k \in 0 .. n : A[k] \in Nat /\ B[k] \in Nat
       /\ \A j, k \in 0 .. n : j <= k => A[j] <= A[k]
  <2>1. \A j, k \in 0 .. n : j <= k => A[j] \in Nat /\ A[k] \in Nat /\ A[j] <= A[k]
    BY <1>4, ClimbsUp
  <2> QED BY <1>4, <2>1 DEF Climbs
<1>12. (Len(f) = 0 <=> f = << >>) /\ (Len(t) = 0 <=> t = << >>)
  OBVIOUS
<1>13. ASSUME NEW h \in hunks
       PROVE  /\ h.from_start = 0 <=> f = << >>
              /\ h.to_start = 0 <=> t = << >>
              /\ Shows(Olds(h.lines), h.from_start, h.from_len)
              /\ Shows(News(h.lines), h.to_start, h.to_len)
              /\ \A k \in DOMAIN h.lines :
                   /\ h.lines[k].old # 0 => h.lines[k].text = f[h.lines[k].old].text
                   /\ h.lines[k].new # 0 => h.lines[k].text = t[h.lines[k].new].text
  <2>1. PICK x : IsRun(x, near) /\ h = HunkOf(x)
    BY <1>7
  <2>2. A[x[1] - 1] \in Nat /\ B[x[1] - 1] \in Nat
    <3>1. x[1] - 1 \in 0 .. n
      BY <1>4, <1>9, <2>1
    <3> QED BY <1>11, <3>1
  <2>3. h.from_start = 0 <=> f = << >>
    BY <1>9, <1>10, <1>12, <2>1, <2>2 DEF IsHunk
  <2>4. h.to_start = 0 <=> t = << >>
    BY <1>9, <1>10, <1>12, <2>1, <2>2 DEF IsHunk
  <2>5. IsHunk(h, f, t, A, B, x[1], x[2])
    BY <1>10, <2>1
  <2> QED BY <2>3, <2>4, <2>5 DEF IsHunk
<1>14. ASSUME NEW x, NEW y, IsRun(x, near), IsRun(y, near), x[2] < y[1]
       PROVE  HunkOf(x).from_start + HunkOf(x).from_len <= HunkOf(y).from_start
  <2>1. /\ x[1] - 1 \in 0 .. n /\ x[2] \in 0 .. n /\ y[1] - 1 \in 0 .. n /\ y[2] \in 0 .. n
        /\ x[2] <= y[1] - 1
    <3>1. x[1] \in 1 .. n /\ x[2] \in x[1] .. n /\ y[1] \in 1 .. n /\ y[2] \in y[1] .. n
      BY <1>9, <1>14
    <3>2. n \in Nat /\ x[2] < y[1]
      BY <1>4, <1>14
    <3> QED BY <3>1, <3>2, RunBounds
  <2>2. /\ A[x[1] - 1] \in Nat /\ A[x[2]] \in Nat /\ A[y[1] - 1] \in Nat /\ A[y[2]] \in Nat
        /\ A[x[2]] <= A[y[1] - 1]
    BY <1>11, <2>1
  <2>3. A[x[2]] = A[x[1] - 1] <=> A[y[2]] = A[y[1] - 1]
    BY <1>9, <1>14
  <2>4. /\ HunkOf(x).from_start = IF A[x[2]] = A[x[1] - 1] THEN 0 ELSE A[x[1] - 1] + 1
        /\ HunkOf(x).from_len = A[x[2]] - A[x[1] - 1]
        /\ HunkOf(y).from_start = IF A[y[2]] = A[y[1] - 1] THEN 0 ELSE A[y[1] - 1] + 1
    BY <1>10, <1>14 DEF IsHunk
  <2>5. CASE A[x[2]] = A[x[1] - 1]
    <3>1. HunkOf(x).from_start = 0 /\ HunkOf(x).from_len = 0 /\ HunkOf(y).from_start = 0
      BY <2>2, <2>3, <2>4, <2>5
    <3> QED BY <3>1
  <2>6. CASE A[x[2]] # A[x[1] - 1]
    <3>1. HunkOf(x).from_start + HunkOf(x).from_len = A[x[2]] + 1
      BY <2>2, <2>4, <2>6
    <3>2. HunkOf(y).from_start = A[y[1] - 1] + 1
      BY <2>3, <2>4, <2>6
    <3> QED BY <2>2, <3>1, <3>2
  <2> QED BY <2>5, <2>6
<1>15. ASSUME NEW h \in hunks, NEW g \in hunks, h # g
       PROVE  h.from_start + h.from_len <= g.from_start \/ g.from_start + g.from_len <= h.from_start
  <2>1. PICK x : IsRun(x, near) /\ h = HunkOf(x)
    BY <1>7
  <2>2. PICK y : IsRun(y, near) /\ g = HunkOf(y)
    BY <1>7
  <2>3. x # y
    BY <1>15, <2>1, <2>2
  <2>4. x[2] < y[1] \/ y[2] < x[1]
    BY <1>4, <1>5, <2>1, <2>2, <2>3, RunsApart
  <2> QED BY <1>14, <2>1, <2>2, <2>4
<1>16. ASSUME NEW v \in DOMAIN f, ~ \E x \in m : x[1] = v
       PROVE  \E h \in hunks : v \in h.from_start .. h.from_start + h.from_len - 1
  <2>1. v \in 1 .. Len(f) /\ Len(f) \in Nat
    OBVIOUS
  <2>2. \A k \in 1 .. n : A[k] # A[k - 1] /\ A[k] = v => k \in changed
    <3> SUFFICES ASSUME NEW k \in 1 .. n, A[k] # A[k - 1], A[k] = v PROVE k \in changed
      OBVIOUS
    <3>1. ~ \E x \in m : x[1] = A[k]
      BY <1>16
    <3>2. B[k] = B[k - 1]
      BY <1>4, <3>1
    <3> QED BY <1>6, <3>2
  <2>3. PICK x : /\ IsRun(x, near) /\ A[x[1] - 1] \in Nat /\ A[x[2]] \in Nat
                 /\ A[x[1] - 1] + 1 <= v /\ v <= A[x[2]]
    BY <1>4, <1>5, <2>1, <2>2, LineInRun
  <2>4. HunkOf(x) \in hunks
    BY <1>8, <2>3
  <2>5. HunkOf(x).from_start = A[x[1] - 1] + 1 /\ HunkOf(x).from_len = A[x[2]] - A[x[1] - 1]
    <3>1. A[x[2]] # A[x[1] - 1]
      BY <2>1, <2>3
    <3> QED BY <1>10, <2>3, <3>1 DEF IsHunk
  <2>6. v \in HunkOf(x).from_start .. HunkOf(x).from_start + HunkOf(x).from_len - 1
    BY <2>1, <2>3, <2>5
  <2> QED BY <2>4, <2>6
<1>17. ASSUME NEW v \in DOMAIN t, ~ \E x \in m : x[2] = v
       PROVE  \E h \in hunks : v \in h.to_start .. h.to_start + h.to_len - 1
  <2>1. v \in 1 .. Len(t) /\ Len(t) \in Nat
    OBVIOUS
  <2>2. \A k \in 1 .. n : B[k] # B[k - 1] /\ B[k] = v => k \in changed
    <3> SUFFICES ASSUME NEW k \in 1 .. n, B[k] # B[k - 1], B[k] = v PROVE k \in changed
      OBVIOUS
    <3>1. ~ \E x \in m : x[2] = B[k]
      BY <1>17
    <3>2. A[k] = A[k - 1]
      BY <1>4, <3>1
    <3> QED BY <1>6, <3>2
  <2>3. PICK x : /\ IsRun(x, near) /\ B[x[1] - 1] \in Nat /\ B[x[2]] \in Nat
                 /\ B[x[1] - 1] + 1 <= v /\ v <= B[x[2]]
    BY <1>4, <1>5, <2>1, <2>2, LineInRun
  <2>4. HunkOf(x) \in hunks
    BY <1>8, <2>3
  <2>5. HunkOf(x).to_start = B[x[1] - 1] + 1 /\ HunkOf(x).to_len = B[x[2]] - B[x[1] - 1]
    <3>1. B[x[2]] # B[x[1] - 1]
      BY <2>1, <2>3
    <3> QED BY <1>10, <2>3, <3>1 DEF IsHunk
  <2>6. v \in HunkOf(x).to_start .. HunkOf(x).to_start + HunkOf(x).to_len - 1
    BY <2>1, <2>3, <2>5
  <2> QED BY <2>4, <2>6
<1> QED
  BY <1>13, <1>15, <1>16, <1>17 DEF FitTexts, hunks

\* In the empty tree nothing is found.
LEMMA LookupInNoTree ==
  ASSUME NEW path \in AllPaths
  PROVE  Lookup(NoTree, path) = Absent
<1>1. path \in Seq(Names) /\ Len(path) \in Nat /\ Len(path) >= 1
  BY PathIs
<1>2. Lookup(NoTree, Upto(path, 0)) = Dir(NoTree) /\ Lookup(NoTree, Upto(path, Len(path))) = Lookup(NoTree, path)
  BY <1>1, LookupEnds
<1>3. 0 \in 0 .. Len(path) - 1 /\ 1 \in 0 .. Len(path) /\ Len(path) \in 0 .. Len(path) /\ 0 + 1 = 1
  BY <1>1
<1>4. Lookup(NoTree, Upto(path, 0 + 1)) = Child(Lookup(NoTree, Upto(path, 0)), path[0 + 1])
  BY <1>1, <1>3, LookupNext
<1>5. \A name : Child(Dir(NoTree), name) = Absent
  BY DEF Child, Dir, IsTree, Entry, NoTree
<1>6. Lookup(NoTree, Upto(path, 1)) = Absent
  BY <1>2, <1>3, <1>4, <1>5
<1>7. Absent.kind # "tree"
  BY DEF Absent
<1>8. CASE Len(path) = 1
  BY <1>2, <1>6, <1>8
<1>9. CASE Len(path) # 1
  <2>1. 1 < Len(path)
    <3> DEFINE n == Len(path)
    <3>1. n \in Nat /\ n >= 1 /\ n # 1
      BY <1>1, <1>9
    <3> HIDE DEF n
    <3>2. 1 < n
      BY <3>1
    <3> QED BY <3>2 DEF n
  <2> QED BY <1>1, <1>2, <1>3, <1>6, <1>7, <2>1, NothingBelow
<1> QED
  BY <1>8, <1>9

\* The hunks of every diff show, at the places they name, what is there on
\* either side, do not overlap, and have every changed line (diff.rs).  For
\* texts of any length, any context and whichever matching of lines.
THEOREM HunksAreFit == Spec => []HunksFit
<1>1. Sent => HunksFit
  <2> SUFFICES ASSUME Sent, NEW i \in Earlier, NEW d \in DiffTo(i, {}), HasHunks(d),
                      NEW m \in AnswersFor(LinesOf(d.from), LinesOf(d.to)), NEW context \in Contexts
               PROVE  FitTexts(Hunks(LinesOf(d.from), LinesOf(d.to), m, context),
                               LinesOf(d.from), LinesOf(d.to), m)
    BY DEF HunksFit, FitTexts
  <2>1. \E path \in AllPaths : d.from = Lookup(TreeAt(i), path) /\ d.to = Lookup(tip, path)
    BY DEF DiffTo, DiffTrees, DiffSubtree, PathsIn, Change
  <2>2. PICK path \in AllPaths : d.from = Lookup(TreeAt(i), path) /\ d.to = Lookup(tip, path)
    BY <2>1
  <2>3. Len(trees) \in Nat \ {0} /\ (i = 0 \/ i \in 1 .. Len(trees)) /\ Len(trees) \in 1 .. Len(trees)
    BY DEF Sent, History, Earlier
  <2>4. ASSUME NEW e \in {d.from, d.to}
        PROVE  \E b \in Blobs : LinesOf(e) = b.lines
    <3>1. CASE e = Absent
      <4>1. Text(<< >>) \in Blobs /\ Text(<< >>).lines = << >>
        BY BlobsAreTexts DEF Text
      <4> QED BY <3>1, <4>1 DEF LinesOf
    <3>2. CASE e # Absent
      <4>1. e.kind = "file"
        BY <3>2 DEF HasHunks
      <4>2. Lookup(NoTree, path) = Absent
        BY LookupInNoTree
      <4>3. \E j \in 1 .. Len(trees) : e = Lookup(trees[j], path)
        BY <2>2, <2>3, <3>2, <4>2 DEF TreeAt, tip
      <4>4. e.target \in Blobs
        BY <4>1, <4>3 DEF Sent
      <4> QED BY <3>2, <4>4 DEF LinesOf
    <3> QED BY <3>1, <3>2
  <2>5. PICK b \in Blobs : LinesOf(d.from) = b.lines
    BY <2>4
  <2>6. PICK c \in Blobs : LinesOf(d.to) = c.lines
    BY <2>4
  <2>7. PICK S : \A x \in Blobs : x.lines \in Seq(S)
    BY BlobLines
  <2>8. m \in Matchings(b.lines, c.lines)
    BY <2>5, <2>6, AnswersAre DEF Alignments
  <2>9. AtLeastOne(context) \in Nat \ {0}
    BY ContextsAreNat DEF AtLeastOne
  <2>10. FitTexts(HunksWithin(b.lines, c.lines, m, AtLeastOne(context)), b.lines, c.lines, m)
    BY <2>7, <2>8, <2>9, HunksFitTexts
  <2> QED BY <2>5, <2>6, <2>10 DEF Hunks
<1> QED
  BY <1>1, SentInvariant, PTL
=============================================================================
