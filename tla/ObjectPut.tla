----------------------------- MODULE ObjectPut -----------------------------
(***************************************************************************)
(* FsObjectStore::put (objects.rs): several processes put the same object. *)
(* They share the name of the tempfile, so they may share the file behind  *)
(* it.  FsRefStore::atomic_write (refs.rs) writes refs in the same way.    *)
(*                                                                         *)
(* Commands that write hold the repository's lock for all of their puts;   *)
(* `tig diff`, `tig log -p` and the daemon's GET handlers put without it   *)
(* (main.rs:1323, handlers.rs:633), and race with them and each other.     *)
(***************************************************************************)
EXTENDS Naturals

CONSTANTS
  Writers,   \* processes that put the object
  Unlocked,  \* those that do not hold the lock
  Nobody,    \* no file, no lock holder
  NParts,    \* bound: the pieces in which write_all writes the bytes
  MaxFiles,  \* bound: files created
  MaxCrashes \* bound: processes that die

ASSUME UnlockedWrite == Unlocked \subseteq Writers
ASSUME NobodyIsNothing == Nobody \notin Writers \cup Nat
\* A file is framed by its kind, so there is something to write (FsObjectStore::frame).
ASSUME PutBounds == NParts \in Nat \ {0} /\ {MaxFiles, MaxCrashes} \subseteq Nat

VARIABLES
  files,   \* contents: for each file created so far, the pieces it holds
  nfiles,
  tmp,     \* the file named .tmp-<rest>
  final,   \* the file named <rest>
  lock,    \* the repository's lock
  pc,      \* where each writer is
  fd, pos, \* the file it has open, and the pieces it has written to it
  crashes,
  \* History, which the code does not keep:
  met,     \* for each put, the writers that were between create and rename with it
  spoiled  \* files that a writer died writing after it had raced with another

history == <<met, spoiled>>
vars == <<files, nfiles, tmp, final, lock, pc, fd, pos, crashes, met, spoiled>>

FileIds == 1..MaxFiles
Whole(f) == files[f] = 1..NParts

\* Between create and rename.
Midway(w) == pc[w] \in {"write", "rename"}
\* A writer outside the lock was midway at the same time, or was this one.
Raced(w) == \E v \in met[w] : {v, w} \cap Unlocked # {}

PutInit ==
  /\ files = [f \in FileIds |-> {}]
  /\ nfiles = 0
  /\ tmp = Nobody
  /\ final = Nobody
  /\ lock = Nobody
  /\ pc = [w \in Writers |-> "idle"]
  /\ fd = [w \in Writers |-> Nobody]
  /\ pos = [w \in Writers |-> 0]
  /\ crashes = 0
  /\ met = [w \in Writers |-> {}]
  /\ spoiled = {}

GoTo(w, l) == pc' = [pc EXCEPT ![w] = l]

BeginWithoutLock(w) ==
  /\ pc[w] = "idle"
  /\ GoTo(w, "check")
  /\ UNCHANGED <<files, nfiles, tmp, final, lock, fd, pos, crashes, history>>

\* A command that writes takes the lock first.
Begin(w) ==
  /\ pc[w] = "idle"
  /\ IF w \in Unlocked THEN UNCHANGED lock ELSE lock = Nobody /\ lock' = w
  /\ GoTo(w, "check")
  /\ UNCHANGED <<files, nfiles, tmp, final, fd, pos, crashes, history>>

\* final_path.exists(): identical hash, identical content.
Check(w) ==
  /\ pc[w] = "check"
  /\ GoTo(w, IF final # Nobody THEN "ok" ELSE "create")
  /\ UNCHANGED <<files, nfiles, tmp, final, lock, fd, pos, crashes, history>>

\* File::create empties the tempfile if it is there, and makes one if not.
OpenNew(w, name) ==
  LET f == IF name # Nobody THEN name ELSE nfiles + 1 IN
  /\ pc[w] = "create"
  /\ f \in FileIds
  /\ files' = [files EXCEPT ![f] = {}]
  /\ nfiles' = IF name # Nobody THEN nfiles ELSE f
  /\ fd' = [fd EXCEPT ![w] = f]
  /\ pos' = [pos EXCEPT ![w] = 0]
  /\ GoTo(w, "write")
  /\ LET others == {v \in Writers \ {w} : Midway(v)} IN
       met' = [v \in Writers |-> IF v = w THEN others
                                 ELSE IF v \in others THEN met[v] \cup {w} ELSE met[v]]
  /\ spoiled' = spoiled \ {f}
  /\ UNCHANGED <<lock, crashes>>

CreateInPlace(w) == OpenNew(w, final) /\ final' = fd'[w] /\ UNCHANGED tmp

Create(w) == OpenNew(w, tmp) /\ tmp' = fd'[w] /\ UNCHANGED final

\* write_all, through the writer's own descriptor.
Write(w) ==
  /\ pc[w] = "write"
  /\ files' = [files EXCEPT ![fd[w]] = @ \cup {pos[w] + 1}]
  /\ pos' = [pos EXCEPT ![w] = @ + 1]
  /\ GoTo(w, IF pos[w] + 1 < NParts THEN "write" ELSE "rename")
  /\ UNCHANGED <<nfiles, tmp, final, lock, fd, crashes, history>>

\* rename(tmp, final) goes by name: it fails when another writer has already
\* renamed the tempfile.
Rename(w) ==
  /\ pc[w] = "rename"
  /\ IF tmp = Nobody
     THEN GoTo(w, "failed") /\ UNCHANGED <<tmp, final>>
     ELSE /\ final' = tmp
          /\ tmp' = Nobody
          /\ GoTo(w, "ok")
  /\ UNCHANGED <<files, nfiles, lock, fd, pos, crashes, history>>

Release(w) == lock' = IF lock = w THEN Nobody ELSE lock

Leave(w) ==
  /\ Release(w)
  /\ GoTo(w, "idle")
  /\ fd' = [fd EXCEPT ![w] = Nobody]
  /\ pos' = [pos EXCEPT ![w] = 0]
  /\ met' = [met EXCEPT ![w] = {}]
  /\ UNCHANGED <<files, nfiles, tmp, final>>

End(w) ==
  /\ pc[w] \in {"ok", "failed"}
  /\ Leave(w)
  /\ UNCHANGED <<crashes, spoiled>>

\* The process dies; what it has written stays, and so does the tempfile.
Crash(w) ==
  /\ pc[w] # "idle"
  /\ crashes < MaxCrashes
  /\ crashes' = crashes + 1
  /\ Leave(w)
  /\ spoiled' = IF pc[w] = "write" /\ Raced(w) THEN spoiled \cup {fd[w]} ELSE spoiled

Put(w) ==
  \/ Begin(w) \/ Check(w) \/ Create(w) \/ Write(w) \/ Rename(w) \/ End(w)

PutNext == \E w \in Writers : Put(w) \/ Crash(w)

PutSpec == PutInit /\ [][PutNext]_vars

\* What a get that begins now reads and verifies against the hash: it opens the
\* file by name once, and a file that has the name is not emptied again.
Get == IF final = Nobody THEN "absent" ELSE IF Whole(final) THEN "object" ELSE "corrupt"

----------------------------------------------------------------------------
(* Properties *)

\* If two writers race on the same object, both succeed (objects.rs:7-10).
\* This is so only under the lock: no run checks it, see FailureIsRace.
PutSucceeds == \A w \in Writers : pc[w] # "failed"

\* A put fails only when it was midway together with another, one of the two
\* outside the lock, which renamed the tempfile away under it; and then the
\* object is there: nothing has to be put again (objects.rs:7-10, 199-212).
FailureIsRace == \A w \in Writers : pc[w] = "failed" => final # Nobody /\ Raced(w)

\* A reader gets the object or finds it absent, never part of it
\* (objects.rs:7), whoever died while writing it: but for a file that a racing
\* writer is still writing, or died writing, when it was renamed by another.
GetIsWhole == Get = "corrupt" =>
  final \in spoiled \/ \E w \in Writers : pc[w] = "write" /\ fd[w] = final /\ Raced(w)

=============================================================================
