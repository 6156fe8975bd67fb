---------------------------- MODULE ServiceProofs ----------------------------
(***************************************************************************)
(* Proofs for the two parts below the control plane that know nothing of   *)
(* each other.  For FileStore, with any set of payloads: what the files    *)
(* hold at every point of a write, and that they implement AtomicStore.    *)
(* For ControlServer, with any number of connections and any limit: the    *)
(* limit holds, and stop() leaves no open socket behind.                   *)
(***************************************************************************)
EXTENDS FileStore, Server, FiniteSetTheorems, TLAPS

-----------------------------------------------------------------------------
(* The file store.                                                         *)

(* What write() relies on at each of its steps: the temporary is complete  *)
(* once it is about to be renamed, the target is untouched until then, and *)
(* between the two renames of the fallback the backup is the old target;   *)
(* and the backup is always a payload that the target has held.            *)
WriteInv ==
  /\ TypeOK /\ OnlyCompletePayloads /\ before # Torn
  /\ pc \in {"renaming", "fallback", "replacing", "restoring"} => tmp = payload
  /\ pc # "idle" => result = "none"
  /\ pc \in {"writing", "renaming", "fallback"} => path = before
  /\ InWindow => path = Absent /\ (before # Absent => bak = before)
  /\ pc = "cleanup" => path = payload
  /\ path \in stored \cup {Absent} /\ bak \in stored \cup {Absent}
  /\ SnapshotSurvives

(* The store file and its temporaries satisfy the invariant when a process *)
(* starts with whatever complete file an earlier one left.                 *)
LEMMA WriteInvInit == StoreInit => WriteInv
BY StoreAssumption
   DEF StoreInit, WriteInv, TypeOK, Files, OnlyCompletePayloads, InWindow, SnapshotSurvives

(* Every file operation, failed or not, every crash and every read keeps   *)
(* the invariant.                                                          *)
LEMMA WriteInvStep == WriteInv /\ [StoreNext]_storeVars => WriteInv'
<1> SUFFICES ASSUME WriteInv, [StoreNext]_storeVars PROVE WriteInv'
  OBVIOUS
<1> USE StoreAssumption
    DEF WriteInv, TypeOK, Files, OnlyCompletePayloads, InWindow, SnapshotSurvives
<1>1. ASSUME NEW p \in Payloads, Begin(p) PROVE WriteInv'
  BY <1>1 DEF Begin, reader
<1>2. CASE WriteTemp
  BY <1>2 DEF WriteTemp, GoTo, Return, MaybeRemoved, reader
<1>3. CASE Publish
  BY <1>3 DEF Publish, TmpOverPath, GoTo, Return, MaybeRemoved, reader
<1>4. CASE MoveAside
  BY <1>4 DEF MoveAside, GoTo, Return, MaybeRemoved, reader
<1>5. CASE ReplaceTarget
  BY <1>5 DEF ReplaceTarget, TmpOverPath, GoTo, reader
<1>6. CASE Restore
  BY <1>6 DEF Restore, Return, MaybeRemoved, reader
<1>7. CASE DropBackup
  BY <1>7 DEF DropBackup, Return, MaybeRemoved, reader
<1>8. CASE EraseFiles
  BY <1>8 DEF EraseFiles, Return, MaybeRemoved, reader
<1>9. CASE Crash
  BY <1>9 DEF Crash, Return, reader
<1>10. CASE ReadSize
  BY <1>10 DEF ReadSize, writer
<1>11. CASE ReadBytes
  BY <1>11 DEF ReadBytes, Accepts, writer
<1>12. CASE BeginErase
  BY <1>12 DEF BeginErase, reader
<1>13. CASE UNCHANGED storeVars
  BY <1>13 DEF storeVars, writer, reader
<1> QED
  BY <1>1, <1>2, <1>3, <1>4, <1>5, <1>6, <1>7, <1>8, <1>9, <1>10, <1>11, <1>12, <1>13, Zenon
  DEF StoreNext

(* The invariant holds throughout.                                         *)
LEMMA WriteInvHolds == StoreSpec => []WriteInv
BY WriteInvInit, WriteInvStep, PTL DEF StoreSpec

(* No reader of the store file ever gets a torn snapshot, and none lies    *)
(* under a name a later start reads (FileStore::read).                     *)
THEOREM ReadersGetCompletePayloads == StoreSpec => []OnlyCompletePayloads
<1>1. WriteInv => OnlyCompletePayloads
  BY DEF WriteInv
<1> QED
  BY <1>1, WriteInvHolds, PTL

(* A write never takes the old snapshot off the disk before the new one is *)
(* in place, and reports what it has done (FileStore::write).              *)
THEOREM SnapshotsSurvive == StoreSpec => []SnapshotSurvives
<1>1. WriteInv => SnapshotSurvives
  BY DEF WriteInv
<1> QED
  BY <1>1, WriteInvHolds, PTL

(* Each step of the files is a step of the abstract store, or leaves it.   *)
LEMMA ContractStep == WriteInv /\ [StoreNext]_storeVars => [Contract!Next]_(Contract!vars)
<1> SUFFICES ASSUME WriteInv, [StoreNext]_storeVars PROVE [Contract!Next]_(Contract!vars)
  OBVIOUS
<1> USE StoreAssumption DEF WriteInv, TypeOK, Files, OnlyCompletePayloads, InWindow
<1>1. ASSUME NEW p \in Payloads, Begin(p) PROVE Contract!Begin
  BY <1>1 DEF Begin, Contract!Begin
<1>2. CASE WriteTemp
  <2>1. CASE tmp' = payload /\ GoTo("renaming")
    BY <1>2, <2>1 DEF WriteTemp, GoTo, Contract!vars
  <2>2. CASE Return("failed")
    <3>1. Contract!Fail
      BY <1>2, <2>2 DEF WriteTemp, Return, Contract!Fail, Contract!End
    <3> QED
      BY <3>1 DEF Contract!Next
  <2> QED
    BY <1>2, <2>1, <2>2 DEF WriteTemp
<1>3. CASE Publish
  <2>1. CASE TmpOverPath /\ Return("ok")
    <3>1. Contract!Commit
      BY <1>3, <2>1 DEF Publish, TmpOverPath, Return, Contract!Commit, Contract!End
    <3> QED
      BY <3>1 DEF Contract!Next
  <2>2. CASE GoTo("fallback") /\ (bak' = bak \/ path # Absent) /\ UNCHANGED <<path, stored>>
    BY <1>3, <2>2 DEF Publish, GoTo, Contract!vars
  <2>3. CASE GoTo("fallback") /\ bak' = Absent /\ path = Absent /\ UNCHANGED <<path, stored>>
    <3>1. Contract!Discard
      BY <1>3, <2>3 DEF Publish, GoTo, Contract!Discard
    <3> QED
      BY <3>1 DEF Contract!Next
  <2> QED
    BY <1>3, <2>1, <2>2, <2>3 DEF Publish, MaybeRemoved
<1>4. CASE MoveAside
  <2>1. CASE GoTo("replacing")
    <3>1. Contract!Expose
      BY <1>4, <2>1 DEF MoveAside, GoTo, Return, Contract!Expose
    <3> QED
      BY <3>1 DEF Contract!Next
  <2>2. CASE Return("failed") /\ path' = path /\ bak' = bak
    <3>1. Contract!Fail
      BY <1>4, <2>2 DEF MoveAside, Return, Contract!Fail, Contract!End
    <3> QED
      BY <3>1 DEF Contract!Next
  <2> QED
    BY <1>4, <2>1, <2>2 DEF MoveAside
<1>5. CASE ReplaceTarget
  <2>1. CASE TmpOverPath /\ GoTo("cleanup")
    <3>1. Contract!Commit
      BY <1>5, <2>1 DEF ReplaceTarget, TmpOverPath, GoTo, Contract!Commit, Contract!End
    <3> QED
      BY <3>1 DEF Contract!Next
  <2>2. CASE GoTo("restoring") /\ UNCHANGED <<path, tmp, stored>>
    BY <1>5, <2>2 DEF ReplaceTarget, GoTo, Contract!vars
  <2> QED
    BY <1>5, <2>1, <2>2 DEF ReplaceTarget
<1>6. ASSUME pc \in {"replacing", "restoring"}, Return("none") \/ Return("failed"),
             UNCHANGED <<path, bak, payload, before, stored>>
      PROVE  Contract!Fail \/ Contract!Lose
  <2>1. CASE before = Absent
    BY <1>6, <2>1 DEF Return, Contract!Fail, Contract!End
  <2>2. CASE before # Absent
    BY <1>6, <2>2 DEF Return, Contract!Lose, Contract!End
  <2> QED
    BY <2>1, <2>2
<1>7. CASE Restore
  <2>1. CASE UNCHANGED <<path, bak>>
    BY <1>6, <1>7, <2>1 DEF Restore, Contract!Next
  <2>2. CASE bak # Absent /\ path' = bak /\ bak' = Absent /\ before # Absent
    <3>1. Contract!Fail
      BY <1>7, <2>2 DEF Restore, Return, Contract!Fail, Contract!End
    <3> QED
      BY <3>1 DEF Contract!Next
  <2>3. CASE bak # Absent /\ path' = bak /\ bak' = Absent /\ before = Absent
    <3>1. Contract!Reappear
      BY <1>7, <2>3 DEF Restore, Return, Contract!Reappear, Contract!End
    <3> QED
      BY <3>1 DEF Contract!Next
  <2> QED
    BY <1>7, <2>1, <2>2, <2>3 DEF Restore
<1>8. CASE DropBackup
  BY <1>8 DEF DropBackup, Return, Contract!vars
<1>9. CASE BeginErase
  <2>1. Contract!Begin
    BY <1>9 DEF BeginErase, Contract!Begin
  <2> QED
    BY <2>1 DEF Contract!Next
<1>10. CASE EraseFiles
  <2>1. CASE path' = Absent
    <3>1. Contract!Erase
      BY <1>10, <2>1 DEF EraseFiles, Return, MaybeRemoved, Contract!Erase, Contract!End
    <3> QED
      BY <3>1 DEF Contract!Next
  <2>2. CASE path' = path /\ path # Absent
    <3>1. Contract!Fail
      BY <1>10, <2>2 DEF EraseFiles, Return, Contract!Fail, Contract!End
    <3> QED
      BY <3>1 DEF Contract!Next
  <2> QED
    BY <1>10, <2>1, <2>2 DEF EraseFiles, MaybeRemoved
<1>11. CASE Crash
  <2>1. CASE pc = "cleanup"
    BY <1>11, <2>1 DEF Crash, Return, Contract!vars
  <2>2. CASE InWindow
    BY <1>6, <1>11, <2>2 DEF Crash, Contract!Next
  <2>3. CASE pc \in {"writing", "renaming", "fallback", "erasing"}
    <3>1. Contract!Fail
      BY <1>11, <2>3 DEF Crash, Return, Contract!Fail, Contract!End
    <3> QED
      BY <3>1 DEF Contract!Next
  <2> QED
    BY <1>11, <2>1, <2>2, <2>3 DEF Crash
<1>12. CASE ReadSize \/ ReadBytes \/ UNCHANGED storeVars
  BY <1>12 DEF ReadSize, ReadBytes, storeVars, writer, Contract!vars
<1>13. Contract!Begin => Contract!Next
  BY DEF Contract!Next
<1> QED
  BY <1>1, <1>2, <1>3, <1>4, <1>5, <1>7, <1>8, <1>9, <1>10, <1>11, <1>12, <1>13, Zenon
  DEF StoreNext

(* The file store implements the atomic store: the payload being written   *)
(* is the only one that replaces the old one, only erase() removes it, and *)
(* it can be lost only between the two renames of the fallback             *)
(* (file_store.cpp:110-134).                                               *)
THEOREM StoreImplemented == StoreSpec => ImplementsStore
<1>1. StoreInit => Contract!Init
  BY StoreAssumption DEF StoreInit, Contract!Init, InWindow
<1> QED
  BY <1>1, ContractStep, WriteInvHolds, PTL DEF StoreSpec, Contract!Spec, ImplementsStore

(* Where renaming over the target does not fail, the window is never       *)
(* entered: until it is erased, the target stays or is replaced by the     *)
(* payload of the write under way.  This is the store Federation assumes.  *)
AtomicReplacement ==
  [][\/ path' = path \/ (pc = "renaming" /\ path' = payload)
     \/ (pc = "erasing" /\ path' = Absent)]_storeVars

(* Where renames succeed, no crash and no failed write loses the snapshot. *)
THEOREM AtomicWhereRenamesSucceed == ~RenameMayFail /\ StoreSpec => AtomicReplacement
<1> SUFFICES ASSUME ~RenameMayFail PROVE StoreSpec => AtomicReplacement
  OBVIOUS
<1> DEFINE Direct == pc \in {"idle", "writing", "renaming", "erasing"}
<1>1. StoreInit => Direct
  BY DEF StoreInit
<1>2. Direct /\ [StoreNext]_storeVars => Direct'
  BY DEF StoreNext, Begin, WriteTemp, Publish, MoveAside, ReplaceTarget, Restore, DropBackup,
         BeginErase, EraseFiles, Crash, ReadSize, ReadBytes, GoTo, Return, storeVars, writer
<1>3. Direct /\ WriteInv /\ [StoreNext]_storeVars
      => [\/ path' = path \/ (pc = "renaming" /\ path' = payload)
          \/ (pc = "erasing" /\ path' = Absent)]_storeVars
  BY DEF StoreNext, Begin, WriteTemp, Publish, TmpOverPath, MoveAside, ReplaceTarget, Restore,
         DropBackup, BeginErase, EraseFiles, MaybeRemoved, Crash, ReadSize, ReadBytes, GoTo,
         Return, storeVars, writer, WriteInv
<1> QED
  BY <1>1, <1>2, <1>3, WriteInvHolds, PTL DEF StoreSpec, AtomicReplacement

-----------------------------------------------------------------------------
(* The server.                                                             *)

(* The workers that active_ counts.                                        *)
Workers == {c \in Connections : conn[c] \in Counted}

ConnStates == {"none", "waiting", "accepted", "counted"} \cup Counted

(* The part of TypeOK the argument needs; only peers of the listener wait, *)
(* each once.                                                              *)
Shape ==
  /\ conn \in [Connections -> ConnStates]
  /\ backlog \in Seq(Connections)
  /\ \A j \in 1..Len(backlog) : conn[backlog[j]] = "waiting"
  /\ \A j, k \in 1..Len(backlog) : backlog[j] = backlog[k] => j = k
  /\ acceptor \in {"none", "accepting", "deciding", "starting"}
  /\ inHand \subseteq Connections

(* The connection in the accept thread's hand, and nobody else, is neither *)
(* waiting nor served yet.                                                 *)
OneInHand ==
  /\ acceptor \in {"none", "accepting"} => inHand = {}
  /\ acceptor \in {"deciding", "starting"} => \E c \in Connections : inHand = {c} /\ conn[c] = "accepted"

(* The accept thread saw room for the connection it is starting a worker   *)
(* for, and only that thread makes active_ larger.                         *)
WithinLimit ==
  /\ active \in Nat /\ active <= MaxConnections
  /\ acceptor = "starting" => active < MaxConnections
  /\ Cardinality(Workers) = active

LimitInv == Shape /\ OneInHand /\ WithinLimit

-----------------------------------------------------------------------------

(* Which states are of workers that are counted.                           *)
LEMMA StateFacts ==
  /\ InLoop \subseteq Counted /\ Counted \subseteq ConnStates
  /\ {"none", "waiting", "accepted", "counted"} \subseteq ConnStates \ Counted
  /\ {"left", "erased"} \subseteq Counted \ InLoop /\ "running" \in InLoop
BY DEF ConnStates, Counted, InLoop

(* Counting them is counting elements of a finite set.                     *)
LEMMA WorkersAreFinite == IsFiniteSet(Workers)
<1>1. Workers \subseteq Connections
  BY DEF Workers
<1> QED
  BY <1>1, LimitAssumption, FS_Subset, Zenon

(* Moving one connection to another state.                                 *)
LEMMA SetOne ==
  ASSUME Shape, NEW c \in Connections, NEW s \in ConnStates, Set(c, s)
  PROVE  /\ conn' \in [Connections -> ConnStates]
         /\ conn'[c] = s
         /\ \A d \in Connections \ {c} : conn'[d] = conn[d]
BY DEF Shape, Set

(* A move within the counted states, or outside them, keeps the count.     *)
LEMMA CountKept ==
  ASSUME Shape, NEW c \in Connections, NEW s \in ConnStates, Set(c, s),
         conn[c] \in Counted <=> s \in Counted
  PROVE  Workers' = Workers
BY SetOne DEF Workers

(* The states of the connections that wait in the backlog.                 *)
LEMMA ShapeKept ==
  ASSUME Shape, NEW c \in Connections, NEW s \in ConnStates, Set(c, s), conn[c] # "waiting",
         backlog' = backlog, acceptor' \in {"none", "accepting", "deciding", "starting"},
         inHand' \subseteq Connections
  PROVE  Shape'
<1>1. conn' \in [Connections -> ConnStates]
  BY SetOne
<1>2. ASSUME NEW j \in 1..Len(backlog) PROVE conn'[backlog[j]] = "waiting"
  <2>1. backlog[j] \in Connections /\ conn[backlog[j]] = "waiting"
    BY DEF Shape
  <2> QED
    BY <2>1, SetOne
<1> QED
  BY <1>1, <1>2 DEF Shape

(* A worker's step other than the one that counts it down.                 *)
LEMMA WorkerStepKeeps ==
  ASSUME LimitInv, NEW c \in Connections, NEW s \in Counted, Set(c, s),
         conn[c] \in Counted,
         UNCHANGED <<backlog, acceptor, inHand, active>>
  PROVE  LimitInv'
<1>1. s \in ConnStates
  BY StateFacts
<1>2. Shape'
  BY <1>1, StateFacts, ShapeKept DEF LimitInv, Shape
<1>3. OneInHand'
  BY <1>1, StateFacts, SetOne DEF LimitInv, OneInHand
<1>4. Workers' = Workers
  BY <1>1, CountKept DEF LimitInv
<1>5. WithinLimit'
  BY <1>4 DEF LimitInv, WithinLimit
<1> QED
  BY <1>2, <1>3, <1>5 DEF LimitInv

(* The steps of the accept thread.                                         *)
LEMMA AcceptKeeps ==
  ASSUME LimitInv, Accept
  PROVE  LimitInv'
<1> USE DEF LimitInv
<1>1. CASE acceptor' = "none" /\ UNCHANGED <<backlog, inHand, conn>>
  <2>1. Shape' /\ OneInHand'
    BY <1>1 DEF Accept, Shape, OneInHand
  <2>2. WithinLimit'
    BY <1>1 DEF Accept, WithinLimit, Workers
  <2> QED
    BY <2>1, <2>2
<1>2. CASE /\ backlog # <<>>
           /\ inHand' = {Head(backlog)} /\ backlog' = Tail(backlog) /\ Set(Head(backlog), "accepted")
           /\ acceptor' = "deciding"
  <2> DEFINE h == Head(backlog)
  <2>1. h \in Connections /\ conn[h] = "waiting" /\ h = backlog[1] /\ Len(backlog) >= 1
    BY <1>2 DEF Shape
  <2>2. "accepted" \in ConnStates
    BY StateFacts
  <2>3. conn' \in [Connections -> ConnStates] /\ conn'[h] = "accepted"
        /\ \A d \in Connections \ {h} : conn'[d] = conn[d]
    BY <1>2, <2>1, <2>2, SetOne
  <2>4. backlog' \in Seq(Connections) /\ Len(backlog') = Len(backlog) - 1
        /\ \A j \in 1..Len(backlog') : backlog'[j] = backlog[j + 1]
    BY <1>2 DEF Shape
  <2>5. ASSUME NEW j \in 1..Len(backlog') PROVE conn'[backlog'[j]] = "waiting"
    <3>1. j + 1 \in 1..Len(backlog) /\ j + 1 # 1 /\ 1 \in 1..Len(backlog)
      BY <2>1, <2>4
    <3>2. backlog[j + 1] \in Connections \ {h} /\ conn[backlog[j + 1]] = "waiting"
      BY <2>1, <3>1 DEF Shape
    <3> QED
      BY <2>3, <2>4, <3>2
  <2>6. ASSUME NEW j \in 1..Len(backlog'), NEW k \in 1..Len(backlog'), backlog'[j] = backlog'[k]
        PROVE  j = k
    <3>1. j + 1 \in 1..Len(backlog) /\ k + 1 \in 1..Len(backlog) /\ backlog[j + 1] = backlog[k + 1]
      BY <2>4, <2>6
    <3> QED
      BY <3>1 DEF Shape
  <2>7. Shape'
    BY <1>2, <2>1, <2>3, <2>4, <2>5, <2>6 DEF Shape
  <2>8. OneInHand'
    BY <1>2, <2>1, <2>3 DEF OneInHand
  <2>9. Workers' = Workers
    BY <1>2, <2>1, <2>2, StateFacts, CountKept
  <2>10. WithinLimit'
    BY <1>2, <2>9 DEF WithinLimit, Accept
  <2> QED
    BY <2>7, <2>8, <2>10
<1> QED
  BY <1>1, <1>2 DEF Accept

(* The limit is checked by the thread that raises the counter.             *)
LEMMA DecideKeeps ==
  ASSUME LimitInv, Decide
  PROVE  LimitInv'
<1> USE DEF LimitInv
<1>1. PICK c \in Connections : inHand = {c} /\ conn[c] = "accepted"
  BY DEF Decide, OneInHand
<1>2. CASE Full
  <2>1. Set(c, "none") /\ acceptor' = "accepting" /\ inHand' = {} /\ UNCHANGED <<backlog, active>>
    BY <1>1, <1>2 DEF Decide
  <2>2. "none" \in ConnStates
    BY StateFacts
  <2>3. Shape'
    BY <1>1, <2>1, <2>2, ShapeKept
  <2>4. Workers' = Workers
    BY <1>1, <2>1, <2>2, StateFacts, CountKept
  <2> QED
    BY <2>1, <2>3, <2>4 DEF OneInHand, WithinLimit
<1>3. CASE ~Full
  <2>1. acceptor' = "starting" /\ UNCHANGED <<inHand, conn, backlog, active>>
    BY <1>1, <1>3 DEF Decide
  <2>2. active < MaxConnections
    BY <1>3, LimitAssumption DEF Full, WithinLimit
  <2>3. Shape' /\ OneInHand'
    BY <1>1, <2>1 DEF Shape, OneInHand
  <2>4. WithinLimit'
    BY <2>1, <2>2 DEF WithinLimit, Workers
  <2> QED
    BY <2>3, <2>4
<1> QED
  BY <1>2, <1>3

(* A started worker is counted.                                            *)
LEMMA StartWorkerKeeps ==
  ASSUME LimitInv, StartWorker
  PROVE  LimitInv'
<1> USE DEF LimitInv
<1>1. PICK c \in Connections : inHand = {c} /\ conn[c] = "accepted"
  BY DEF StartWorker, OneInHand
<1>2. /\ Set(c, "running") /\ acceptor' = "accepting" /\ inHand' = {} /\ active' = active + 1
      /\ backlog' = backlog
  BY <1>1 DEF StartWorker
<1>3. "running" \in ConnStates
  BY StateFacts
<1>4. Shape'
  BY <1>1, <1>2, <1>3, ShapeKept
<1>5. Workers' = Workers \cup {c} /\ c \notin Workers
  BY <1>1, <1>2, <1>3, StateFacts, SetOne DEF Workers
<1>6. Cardinality(Workers') = Cardinality(Workers) + 1
  BY <1>5, WorkersAreFinite, FS_AddElement, Zenon
<1> QED
  BY <1>2, <1>4, <1>6, LimitAssumption DEF OneInHand, WithinLimit, StartWorker

(* A worker that ends is counted down once.                                *)
LEMMA CountDownKeeps ==
  ASSUME LimitInv, NEW c \in Connections, CountDown(c)
  PROVE  LimitInv'
<1> USE DEF LimitInv
<1>1. conn[c] = "erased" /\ Set(c, "counted") /\ active' = active - 1
      /\ UNCHANGED <<backlog, acceptor, inHand>>
  BY DEF CountDown
<1>2. "counted" \in ConnStates
  BY StateFacts
<1>3. Shape'
  BY <1>1, <1>2, ShapeKept DEF Shape
<1>4. OneInHand'
  BY <1>1, <1>2, SetOne DEF OneInHand
<1>5. Workers' = Workers \ {c} /\ c \in Workers
  BY <1>1, <1>2, StateFacts, SetOne DEF Workers
<1>6. Cardinality(Workers') = Cardinality(Workers) - 1 /\ Cardinality(Workers) # 0
  BY <1>5, WorkersAreFinite, FS_RemoveElement, FS_EmptySet
<1> QED
  BY <1>1, <1>3, <1>4, <1>6, LimitAssumption DEF WithinLimit

(* A peer that arrives waits, and is counted nowhere.                      *)
LEMMA ArriveKeeps ==
  ASSUME LimitInv, NEW c \in Connections, Arrive(c)
  PROVE  LimitInv'
<1> USE DEF LimitInv
<1>1. conn[c] = "none" /\ Set(c, "waiting") /\ backlog' = Append(backlog, c)
      /\ UNCHANGED <<acceptor, inHand, active>>
  BY DEF Arrive
<1>2. "waiting" \in ConnStates
  BY StateFacts
<1>3. conn' \in [Connections -> ConnStates] /\ conn'[c] = "waiting"
      /\ \A d \in Connections \ {c} : conn'[d] = conn[d]
  BY <1>1, <1>2, SetOne
<1>4. /\ backlog' \in Seq(Connections) /\ Len(backlog') = Len(backlog) + 1
      /\ backlog'[Len(backlog) + 1] = c
      /\ \A j \in 1..Len(backlog) : backlog'[j] = backlog[j]
  BY <1>1 DEF Shape
<1>5. \A j \in 1..Len(backlog) : backlog[j] \in Connections \ {c} /\ conn[backlog[j]] = "waiting"
  BY <1>1 DEF Shape
<1>6. Len(backlog) \in Nat
  BY DEF Shape
<1>7. ASSUME NEW j \in 1..Len(backlog') PROVE conn'[backlog'[j]] = "waiting"
  <2>1. CASE j = Len(backlog) + 1
    BY <1>3, <1>4, <2>1
  <2>2. CASE j \in 1..Len(backlog)
    BY <1>3, <1>4, <1>5, <2>2
  <2> QED
    BY <1>4, <1>6, <2>1, <2>2
<1>8. ASSUME NEW j \in 1..Len(backlog'), NEW k \in 1..Len(backlog'), backlog'[j] = backlog'[k]
      PROVE  j = k
  <2>1. (j = Len(backlog) + 1 \/ j \in 1..Len(backlog)) /\ (k = Len(backlog) + 1 \/ k \in 1..Len(backlog))
    BY <1>4, <1>6
  <2> QED
    BY <1>4, <1>5, <1>8, <2>1 DEF Shape
<1>9. Shape'
  BY <1>1, <1>3, <1>4, <1>7, <1>8 DEF Shape
<1>10. OneInHand'
  BY <1>1, <1>3 DEF OneInHand
<1>11. Workers' = Workers
  BY <1>1, <1>2, StateFacts, CountKept
<1> QED
  BY <1>1, <1>9, <1>10, <1>11 DEF WithinLimit

(* Stopping refuses who waits and touches no worker.                       *)
LEMMA StopKeeps ==
  ASSUME LimitInv, Stop
  PROVE  LimitInv'
<1> USE DEF LimitInv
<1>1. /\ backlog' = <<>> /\ UNCHANGED <<acceptor, inHand, active>>
      /\ conn' = [c \in Connections |-> IF conn[c] = "waiting" THEN "none" ELSE conn[c]]
  BY DEF Stop
<1>2. conn' \in [Connections -> ConnStates]
  BY <1>1, StateFacts DEF Shape
<1>3. Shape'
  BY <1>1, <1>2 DEF Shape
<1>4. OneInHand'
  BY <1>1 DEF OneInHand
<1>5. Workers' = Workers
  BY <1>1, StateFacts DEF Workers
<1> QED
  BY <1>1, <1>3, <1>4, <1>5 DEF WithinLimit

-----------------------------------------------------------------------------
(* Stopping.                                                               *)

(* stop() has joined the accept thread before it closes sockets.           *)
Joined == caller \in {"closing", "checking", "holding", "blocked", "stopped"} => acceptor = "none"

(* A served connection has an entry in live_sockets_ until its socket is   *)
(* closed, and stop() waits only when all are closed.                      *)
Tracked ==
  /\ acceptor = "starting" => inHand \subseteq live
  /\ \A c \in Connections : conn[c] \in InLoop => c \in live \cup shut
  /\ caller \in {"checking", "holding", "blocked"} =>
       \A c \in Connections : conn[c] \in InLoop => c \in shut

ServerInv == LimitInv /\ Joined /\ Tracked

(* Holds when the server object has been made.                             *)
LEMMA ServerInit == Init => ServerInv
<1> SUFFICES ASSUME Init PROVE ServerInv
  OBVIOUS
<1>1. Shape /\ OneInHand
  BY DEF Init, Shape, OneInHand, ConnStates
<1>2. Workers = {}
  BY StateFacts DEF Init, Workers
<1>3. WithinLimit
  BY <1>2, FS_EmptySet, LimitAssumption DEF Init, WithinLimit
<1>4. Joined /\ Tracked
  BY StateFacts DEF Init, Joined, Tracked
<1> QED
  BY <1>1, <1>3, <1>4 DEF ServerInv, LimitInv

(* A worker in its loop moves within the loop or leaves it.                *)
LoopStep(c) == TestLoop(c) \/ Serve(c) \/ ReadFails(c) \/ Handled(c) \/ Written(c)

(* Only its own state changes then.                                        *)
LEMMA LoopMoves ==
  ASSUME NEW c, LoopStep(c)
  PROVE  /\ conn[c] \in InLoop /\ \E s \in InLoop \cup {"left"} : Set(c, s)
         /\ UNCHANGED <<acceptor, backlog, inHand, live, shut, active, caller>>
<1>1. PICK from \in InLoop, to \in InLoop \cup {"left"} : WorkerMoves(c, from, to)
  <2>1. CASE TestLoop(c)
    BY <2>1 DEF TestLoop, InLoop
  <2>2. CASE Serve(c) \/ ReadFails(c) \/ Handled(c) \/ Written(c)
    BY <2>2, Zenon DEF Serve, ReadFails, Handled, Written, InLoop
  <2> QED
    BY <2>1, <2>2 DEF LoopStep
<1> QED
  BY <1>1, Zenon DEF WorkerMoves

(* The limit is kept by every step.                                        *)
LEMMA LimitStep ==
  ASSUME ServerInv, [Next]_vars
  PROVE  LimitInv'
<1> USE DEF ServerInv
<1>1. ASSUME UNCHANGED <<conn, backlog, acceptor, inHand, active>> PROVE LimitInv'
  BY <1>1 DEF LimitInv, Shape, OneInHand, WithinLimit, Workers
<1>2. CASE Start
  <2>1. acceptor = "none" /\ acceptor' = "accepting" /\ UNCHANGED <<conn, backlog, inHand, active>>
    BY <1>2 DEF Start, Joined
  <2>2. Shape' /\ OneInHand'
    BY <2>1 DEF LimitInv, Shape, OneInHand
  <2>3. WithinLimit'
    BY <2>1 DEF LimitInv, WithinLimit, Workers
  <2> QED
    BY <2>2, <2>3 DEF LimitInv
<1>3. CASE Stop
  BY <1>3, StopKeeps
<1>4. CASE StopStep
  BY <1>1, <1>4, Zenon DEF StopStep, Join, CloseSockets, Check, Block, WaitTimeout
<1>5. CASE AcceptStep
  BY <1>5, AcceptKeeps, DecideKeeps, StartWorkerKeeps DEF AcceptStep
<1>6. ASSUME NEW c \in Connections, LoopStep(c) PROVE LimitInv'
  <2>1. PICK s \in InLoop \cup {"left"} : Set(c, s)
    BY <1>6, LoopMoves, Zenon
  <2>2. conn[c] \in InLoop /\ UNCHANGED <<backlog, acceptor, inHand, active>>
    BY <1>6, LoopMoves, Zenon
  <2>3. s \in Counted /\ conn[c] \in Counted
    BY <2>1, <2>2, StateFacts
  <2> QED
    BY <2>1, <2>2, <2>3, WorkerStepKeeps
<1>9. ASSUME NEW c \in Connections, EraseEntry(c) PROVE LimitInv'
  <2>1. conn[c] = "left" /\ Set(c, "erased") /\ UNCHANGED <<backlog, acceptor, inHand, active>>
    BY <1>9, Zenon DEF EraseEntry
  <2>2. "left" \in Counted /\ "erased" \in Counted
    BY StateFacts
  <2> QED
    BY <2>1, <2>2, WorkerStepKeeps
<1>7. ASSUME NEW c \in Connections, Notify(c) PROVE LimitInv'
  <2>1. conn[c] = "counted" /\ Set(c, "none") /\ UNCHANGED <<backlog, acceptor, inHand, active>>
    BY <1>7, Zenon DEF Notify
  <2>2. "none" \in ConnStates
    BY StateFacts
  <2>3. Shape'
    BY <2>1, <2>2, ShapeKept DEF LimitInv, Shape
  <2>4. OneInHand'
    BY <2>1, <2>2, SetOne DEF LimitInv, OneInHand
  <2>5. Workers' = Workers
    BY <2>1, <2>2, StateFacts, CountKept DEF LimitInv
  <2> QED
    BY <2>1, <2>3, <2>4, <2>5 DEF LimitInv, WithinLimit
<1>8. CASE UNCHANGED vars
  BY <1>1, <1>8, Zenon DEF vars
<1> QED
  BY <1>2, <1>3, <1>4, <1>5, <1>6, <1>7, <1>8, <1>9, ArriveKeeps, CountDownKeeps, Zenon
  DEF Next, WorkerStep, LoopStep

(* Sockets stay tracked while one connection moves to a state in which it  *)
(* is not served, or stays tracked itself.                                 *)
LEMMA TrackedKept ==
  ASSUME ServerInv, NEW c \in Connections, NEW s \in ConnStates, Set(c, s),
         acceptor' = acceptor, inHand' = inHand, live' = live, shut' = shut,
         caller' = caller \/ (caller = "blocked" /\ caller' = "checking"),
         s \in InLoop => conn[c] \in InLoop
  PROVE  Joined' /\ Tracked'
<1>1. conn'[c] = s /\ \A d \in Connections \ {c} : conn'[d] = conn[d]
  BY SetOne DEF ServerInv, LimitInv
<1>2. \A d \in Connections : conn'[d] \in InLoop => conn[d] \in InLoop
  BY <1>1
<1> QED
  BY <1>2 DEF ServerInv, Joined, Tracked

(* stop() closes every socket, whatever the other threads do meanwhile.    *)
LEMMA TrackedStep ==
  ASSUME ServerInv, [Next]_vars
  PROVE  Joined' /\ Tracked'
<1> USE DEF ServerInv
<1>1. CASE Start
  BY <1>1 DEF Start, Joined, Tracked
<1>2. CASE Stop
  BY <1>2, StateFacts DEF Stop, Joined, Tracked
<1>3. CASE Join
  BY <1>3 DEF Join, Joined, Tracked
<1>4. CASE CloseSockets
  BY <1>4 DEF CloseSockets, Joined, Tracked
<1>5. CASE Check
  <2>1. CASE active = 0
    <3>1. Workers = {}
      BY <2>1, WorkersAreFinite, FS_EmptySet DEF LimitInv, WithinLimit
    <3>2. \A c \in Connections : conn[c] \notin InLoop
      BY <3>1, StateFacts DEF Workers
    <3> QED
      BY <1>5, <2>1, <3>2 DEF Check, Joined, Tracked
  <2>2. CASE active # 0
    BY <1>5, <2>2 DEF Check, Joined, Tracked
  <2> QED
    BY <2>1, <2>2
<1>6. CASE Block \/ WaitTimeout
  BY <1>6 DEF Block, WaitTimeout, Joined, Tracked
<1>7. CASE Accept
  <2>1. ASSUME NEW c \in Connections, conn'[c] \in InLoop
        PROVE  conn[c] \in InLoop
    <3>1. CASE conn' = conn
      BY <2>1, <3>1
    <3>2. CASE backlog # <<>> /\ Set(Head(backlog), "accepted")
      <4>1. Head(backlog) \in Connections /\ "accepted" \in ConnStates
        BY <3>2, StateFacts DEF LimitInv, Shape
      <4>2. "accepted" \notin InLoop
        BY StateFacts
      <4> QED
        BY <2>1, <3>2, <4>1, <4>2, SetOne DEF LimitInv
    <3> QED
      BY <1>7, <3>1, <3>2 DEF Accept
  <2> QED
    BY <1>7, <2>1 DEF Accept, Joined, Tracked
<1>8. CASE Decide
  <2>1. PICK c \in Connections : inHand = {c} /\ conn[c] = "accepted"
    BY <1>8 DEF Decide, LimitInv, OneInHand
  <2>2. CASE Full
    <3>1. Set(c, "none") /\ acceptor' = "accepting" /\ UNCHANGED <<live, shut, caller>>
      BY <1>8, <2>1, <2>2 DEF Decide
    <3>2. "none" \in ConnStates
      BY StateFacts
    <3>3. \A d \in Connections : conn'[d] \in InLoop => conn[d] \in InLoop
      BY <3>1, <3>2, StateFacts, SetOne DEF LimitInv
    <3> QED
      BY <1>8, <3>1, <3>3 DEF Decide, Joined, Tracked
  <2>3. CASE ~Full
    <3>1. live' = live \cup {c} /\ inHand' = inHand /\ UNCHANGED <<conn, shut, caller>>
          /\ acceptor' = "starting"
      BY <1>8, <2>1, <2>3 DEF Decide
    <3> QED
      BY <1>8, <2>1, <3>1 DEF Decide, Joined, Tracked
  <2> QED
    BY <2>2, <2>3
<1>9. CASE StartWorker
  <2>1. PICK c \in Connections : inHand = {c} /\ Set(c, "running")
    BY <1>9 DEF StartWorker, LimitInv, OneInHand
  <2>2. c \in live /\ "running" \in ConnStates
    BY <1>9, <2>1, StateFacts DEF StartWorker, Tracked
  <2>3. \A d \in Connections \ {c} : conn'[d] = conn[d]
    BY <2>1, <2>2, SetOne DEF LimitInv
  <2>4. acceptor' = "accepting" /\ UNCHANGED <<live, shut, caller>> /\ acceptor = "starting"
    BY <1>9 DEF StartWorker
  <2> QED
    BY <2>2, <2>3, <2>4 DEF Joined, Tracked
<1>10. ASSUME NEW c \in Connections, EraseEntry(c) PROVE Joined' /\ Tracked'
  <2>1. /\ conn[c] = "left" /\ Set(c, "erased") /\ live' = live \ {c} /\ shut' = shut \ {c}
        /\ UNCHANGED <<acceptor, inHand, caller>>
    BY <1>10 DEF EraseEntry
  <2>2. "erased" \in ConnStates
    BY StateFacts
  <2>3. conn'[c] = "erased" /\ \A d \in Connections \ {c} : conn'[d] = conn[d]
    BY <2>1, <2>2, SetOne DEF LimitInv
  <2>4. acceptor = "starting" => c \notin inHand
    BY <2>1 DEF LimitInv, OneInHand
  <2> QED
    BY <2>1, <2>3, <2>4, StateFacts DEF Joined, Tracked
<1>11. ASSUME NEW c \in Connections, Arrive(c) \/ CountDown(c) \/ Notify(c)
       PROVE  Joined' /\ Tracked'
  <2>1. PICK s \in {"waiting", "counted", "none"} : Set(c, s)
    BY <1>11, Zenon DEF Arrive, CountDown, Notify
  <2>2. s \in ConnStates /\ s \notin InLoop
    BY <2>1, StateFacts
  <2>3. /\ UNCHANGED <<acceptor, inHand, live, shut>>
        /\ caller' = caller \/ (caller = "blocked" /\ caller' = "checking")
    BY <1>11, Zenon DEF Arrive, CountDown, Notify
  <2> QED
    BY <2>1, <2>2, <2>3, TrackedKept
<1>13. ASSUME NEW c \in Connections, LoopStep(c) PROVE Joined' /\ Tracked'
  <2>1. PICK s \in InLoop \cup {"left"} : Set(c, s)
    BY <1>13, LoopMoves, Zenon
  <2>2. s \in ConnStates /\ conn[c] \in InLoop
    <3>1. conn[c] \in InLoop
      BY <1>13, LoopMoves, Zenon
    <3> QED
      BY <2>1, <3>1, StateFacts
  <2>3. UNCHANGED <<acceptor, inHand, live, shut, caller>>
    BY <1>13, LoopMoves, Zenon
  <2> QED
    BY <2>1, <2>2, <2>3, TrackedKept
<1>12. CASE UNCHANGED vars
  BY <1>12 DEF vars, Joined, Tracked
<1> QED
  BY <1>1, <1>2, <1>3, <1>4, <1>5, <1>6, <1>7, <1>8, <1>9, <1>10, <1>11, <1>12, <1>13, Zenon
  DEF Next, StopStep, AcceptStep, WorkerStep, LoopStep

(* The invariant behind the two theorems.                                  *)
THEOREM ServerSafe == Spec => []ServerInv
<1>1. ServerInv /\ [Next]_vars => ServerInv'
  BY LimitStep, TrackedStep DEF ServerInv
<1> QED
  BY <1>1, ServerInit, PTL DEF Spec

(* However many peers connect and however often the server is stopped and  *)
(* started with workers of the last run still busy, there are never more   *)
(* workers than max_connections, and active_ counts each of them once.     *)
THEOREM LimitHolds == Spec => []WorkersWithinLimit
<1>1. ServerInv => WorkersWithinLimit
  BY DEF ServerInv, LimitInv, WithinLimit, Workers, WorkersWithinLimit
<1> QED
  BY <1>1, ServerSafe, PTL

(* Once stop() waits for the workers, no connection that is still served   *)
(* has an open socket, and none can be accepted behind its back.           *)
THEOREM StopLeavesNoSocketOpen == Spec => []StopClosesEveryone
<1>1. ServerInv => StopClosesEveryone
  BY DEF ServerInv, LimitInv, OneInHand, Joined, Tracked, StopClosesEveryone
<1> QED
  BY <1>1, ServerSafe, PTL
=============================================================================
