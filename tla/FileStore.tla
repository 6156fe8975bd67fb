----------------------------- MODULE FileStore -----------------------------
(***************************************************************************)
(* The file-backed store (src/persist/file_store.cpp): a payload is        *)
(* written to a temporary file and renamed over the target; when that      *)
(* rename fails, the target is moved aside to a backup first.  The writing *)
(* process may die between any two operations on the file system, every    *)
(* operation may fail, and another process may be reading meanwhile.       *)
(***************************************************************************)
EXTENDS Integers

CONSTANTS
  Payloads,       \* complete snapshots, sealed by length and digest
  Absent,         \* no file under this name
  Torn,           \* a partly written container
  NoUpdate,       \* no write and no erasure is under way
  Size,           \* the length of each payload's container
  RenameMayFail   \* whether the rename over an existing target can fail

ASSUME StoreAssumption ==
  /\ Absent \notin Payloads /\ Torn \notin Payloads /\ Torn # Absent
  /\ NoUpdate \notin Payloads \cup {Absent}
  /\ Size \in [Payloads -> Nat] /\ RenameMayFail \in BOOLEAN

VARIABLES
  path, tmp, bak,  \* the target, path.tmp and path.bak
  pc,              \* where the writing process is in write() or erase()
  payload,         \* the payload it is writing
  before,          \* what the target held when write() began
  result,          \* what the last write() returned
  stored,          \* the payloads the target has held, which only the properties mention
  sized,           \* the reader: the file_size() it has seen, or -1
  seen             \* what the last read() returned, Absent when it failed

writer == <<path, tmp, bak, pc, payload, before, result, stored>>
reader == <<sized, seen>>
storeVars == <<writer, reader>>

InWindow == pc \in {"replacing", "restoring"}

Files == Payloads \cup {Absent, Torn}

(* The types of the three files, of the writer's place and of the reader.  *)
TypeOK ==
  /\ path \in Files /\ tmp \in Files /\ bak \in Files
  /\ pc \in {"idle", "writing", "renaming", "fallback", "replacing", "restoring", "cleanup",
            "erasing"}
  /\ payload \in Payloads /\ before \in Files /\ stored \subseteq Files
  /\ result \in {"none", "ok", "failed"}
  /\ sized \in Nat \cup {-1} /\ seen \in Files

StoreInit ==
  /\ path \in Payloads \cup {Absent} /\ tmp = Absent /\ bak = Absent
  /\ pc = "idle" /\ payload \in Payloads /\ before = path /\ result = "none"
  /\ stored = {path} \ {Absent}
  /\ sized = -1 /\ seen = Absent

-----------------------------------------------------------------------------
(* Writing.                                                                *)

(* A removal whose error the code ignores.                                 *)
MaybeRemoved(f) == {f, Absent}

Return(r) == pc' = "idle" /\ result' = r

GoTo(l) == pc' = l /\ result' = result

(* Opening the temporary truncates it; if that fails nothing has changed.  *)
Begin(p) ==
  /\ pc = "idle"
  /\ pc' = "writing" /\ result' = "none"
  /\ payload' = p /\ before' = path /\ tmp' = Torn
  /\ UNCHANGED <<path, bak, stored, reader>>

WriteTemp ==
  /\ pc = "writing"
  /\ \/ tmp' = payload /\ GoTo("renaming")
     \/ tmp' \in MaybeRemoved(Torn) /\ Return("failed")
  /\ UNCHANGED <<path, bak, payload, before, stored, reader>>

(* Renaming the temporary over the target.                                 *)
TmpOverPath == path' = tmp /\ tmp' = Absent /\ stored' = stored \cup {tmp}

(* Mutant: the fallback begins by removing the file that is in the way.    *)
PublishDropsTarget ==
  /\ pc = "renaming"
  /\ \/ TmpOverPath /\ bak' = bak /\ Return("ok")
     \/ /\ RenameMayFail /\ path' = Absent /\ bak' = bak /\ GoTo("fallback")
        /\ UNCHANGED <<tmp, stored>>
  /\ UNCHANGED <<payload, before, reader>>

(* A failed rename leads to the fallback, which drops an old backup first. *)
Publish ==
  /\ pc = "renaming"
  /\ \/ TmpOverPath /\ bak' = bak /\ Return("ok")
     \/ /\ RenameMayFail /\ bak' \in MaybeRemoved(bak) /\ GoTo("fallback")
        /\ UNCHANGED <<path, tmp, stored>>
  /\ UNCHANGED <<payload, before, reader>>

(* Mutant: the target is removed instead of being moved aside.             *)
RemoveTarget ==
  /\ pc = "fallback"
  /\ path' = Absent /\ bak' = bak /\ tmp' = tmp /\ GoTo("replacing")
  /\ UNCHANGED <<payload, before, stored, reader>>

MoveAside ==
  /\ pc = "fallback"
  /\ \/ /\ path # Absent
        /\ \/ path' = Absent /\ bak' = path /\ tmp' = tmp /\ GoTo("replacing")
           \/ path' = path /\ bak' = bak /\ tmp' \in MaybeRemoved(tmp) /\ Return("failed")
     \/ path = Absent /\ path' = path /\ bak' = bak /\ tmp' = tmp /\ GoTo("replacing")
  /\ UNCHANGED <<payload, before, stored, reader>>

ReplaceTarget ==
  /\ pc = "replacing"
  /\ \/ TmpOverPath /\ GoTo("cleanup")
     \/ GoTo("restoring") /\ UNCHANGED <<path, tmp, stored>>
  /\ UNCHANGED <<bak, payload, before, reader>>

(* Without a backup, and also when it fails, the rename changes nothing.   *)
Restore ==
  /\ pc = "restoring"
  /\ \/ bak # Absent /\ path' = bak /\ bak' = Absent
     \/ path' = path /\ bak' = bak
  /\ tmp' \in MaybeRemoved(tmp) /\ Return("failed")
  /\ UNCHANGED <<payload, before, stored, reader>>

DropBackup ==
  /\ pc = "cleanup"
  /\ bak' \in MaybeRemoved(bak) /\ Return("ok")
  /\ UNCHANGED <<path, tmp, payload, before, stored, reader>>

(* erase(): three removals, each of which may fail unnoticed.              *)
BeginErase ==
  /\ pc = "idle"
  /\ pc' = "erasing" /\ result' = "none"
  /\ UNCHANGED <<path, tmp, bak, payload, before, stored, reader>>

EraseFiles ==
  /\ pc = "erasing"
  /\ path' \in MaybeRemoved(path) /\ before' = path'
  /\ tmp' \in MaybeRemoved(tmp) /\ bak' \in MaybeRemoved(bak)
  /\ Return("none")
  /\ UNCHANGED <<payload, stored, reader>>

(* The writing process dies; the files stay as they are.                   *)
Crash ==
  /\ pc # "idle"
  /\ Return("none")
  /\ UNCHANGED <<path, tmp, bak, payload, before, stored, reader>>

-----------------------------------------------------------------------------
(* Reading: the file is sized, then opened, and that many bytes are read.  *)

ReadSize ==
  /\ sized = -1 /\ path \in Payloads
  /\ sized' = Size[path]
  /\ UNCHANGED <<writer, seen>>

(* Mutant: length and digest are not verified.                             *)
AcceptsAll(f) == TRUE

(* Magic, version, both lengths and the digest.                            *)
Accepts(f) == f \in Payloads

(* The target may have been replaced since it was sized.                   *)
ReadBytes ==
  /\ sized # -1
  /\ LET bytes == IF path \in Payloads /\ Size[path] # sized THEN Torn ELSE path
     IN  seen' = IF Accepts(bytes) THEN bytes ELSE Absent
  /\ sized' = -1
  /\ UNCHANGED writer

StoreNext ==
  \/ \E p \in Payloads : Begin(p)
  \/ WriteTemp \/ Publish \/ MoveAside \/ ReplaceTarget \/ Restore \/ DropBackup
  \/ BeginErase \/ EraseFiles \/ Crash \/ ReadSize \/ ReadBytes

StoreSpec == StoreInit /\ [][StoreNext]_storeVars

-----------------------------------------------------------------------------
(* Properties.                                                             *)

(* A reader returns a complete payload or fails, whatever a writer or its  *)
(* death does to the target between the two steps of the read, and no file *)
(* that a later start may read holds a torn container.                     *)
OnlyCompletePayloads == path # Torn /\ bak # Torn /\ seen # Torn

(* Until the new payload is in place the previous one is on the disk, as   *)
(* the target or as its backup; a write that reports success has put its   *)
(* payload in place, and one that reports failure has altered nothing that *)
(* was there: the target is the old file or is missing.                    *)
SnapshotSurvives ==
  /\ before = Absent \/ before \in {path, bak} \/ path = payload
  /\ result = "ok" => path = payload
  /\ result = "failed" /\ before # Absent => path \in {before, Absent}

Contract == INSTANCE AtomicStore WITH
  value    <- IF InWindow THEN before ELSE path,
  update   <- IF pc = "erasing" THEN Absent
              ELSE IF pc \in {"idle", "cleanup"} THEN NoUpdate ELSE payload,
  exposed  <- InWindow,
  leftover <- IF path # Absent \/ (InWindow /\ before # Absent) THEN Absent ELSE bak,
  past     <- stored

(* The files implement the atomic store that the federation relies on:     *)
(* whatever fails or dies, only the payload being written replaces the old *)
(* one, only erase() removes it, and it is lost nowhere but between the    *)
(* two renames of the fallback; a payload that comes back is the one that  *)
(* was lost there, or one that an erasure had missed.                      *)
ImplementsStore == Contract!Spec
=============================================================================
