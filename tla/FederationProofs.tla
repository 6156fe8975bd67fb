-------------------------- MODULE FederationProofs --------------------------
(***************************************************************************)
(* Proofs about the Federation module, for every value of its constants:   *)
(* the type invariant, epochs that rise with every run, retirement that is *)
(* for good, and one live incarnation per device and agent.                *)
(*                                                                         *)
(* Then authority and the work derived under it: changes advance the       *)
(* generation, members carry the epoch and policy in force, decisions and  *)
(* plans of an earlier authority are gone, a current decision is the one   *)
(* evaluating again would give, finished plans stay, readers see durable   *)
(* state, and every snapshot passes the structural half of the audit.      *)
(***************************************************************************)
EXTENDS Federation, Audit, TLAPS

(* Only the commit of a migration lets a member's history outgrow the      *)
(* limit, and it leaves the member Draining; every other operation that    *)
(* changes the state resizes the history.                                  *)
HistoryOK(m) == m.history > HistoryLimit => m.state = "Draining"

HistoryBounded == \A a \in Accelerators : members[a] # NoMember => HistoryOK(members[a])

(* TypeOK is not inductive by itself: a commit adds one entry to a history *)
(* and TypeOK allows one entry more than the limit.                        *)
TypeInv == TypeOK /\ HistoryBounded

-----------------------------------------------------------------------------
(* Counters, histories and the snapshot.                                   *)

(* Generation::next stays within the width of the counter.                 *)
LEMMA NextGenType ==
  ASSUME NEW g \in Gens
  PROVE  NextGen(g) \in Gens /\ NextGen(g) >= g /\ (g # MaxValue => NextGen(g) = g + 1)
BY BoundsAssumption DEF NextGen, Gens

(* A push followed by the resize respects the limit.                       *)
LEMMA PushHistoryType ==
  ASSUME NEW h \in 0..(HistoryLimit + 1)
  PROVE  PushHistory(h) \in 0..HistoryLimit
BY BoundsAssumption DEF PushHistory

(* Whatever persist_locked does, the store holds the old snapshot or the   *)
(* present one.                                                            *)
LEMMA PersistOutcomes ==
  ASSUME NEW force, Persist(force)
  PROVE  store' \in {store, Snapshot'}
BY DEF Persist

(* A write of well-typed memory (snapshot_locked) leaves a well-typed      *)
(* snapshot in the store.                                                  *)
LEMMA StoreType ==
  ASSUME TypeOK, store' \in {store, Snapshot'},
         epoch' \in Gens, generation' \in Gens, policy' \in Policies,
         members' \in MemberMap, workloads' \in WorkloadMap,
         decisions' \in SUBSET Decision, plans' \in PlanMap
  PROVE  store' \in SnapshotRecord \cup {NoSnapshot}
<1>1. Snapshot' \in SnapshotRecord
  BY DEF Snapshot, SnapshotRecord
<1> QED
  BY <1>1 DEF TypeOK

(* Eviction keeps only decisions that were recorded.                       *)
LEMMA RetainedSubset ==
  ASSUME NEW ds, NEW kept \in Retained(ds)
  PROVE  kept \subseteq ds
BY DEF Retained

-----------------------------------------------------------------------------
(* What the operations make of a member is a member.                       *)

(* The member observe() creates for an unknown incarnation.                *)
LEMMA NewMemberType ==
  ASSUME TypeOK, mode # "down", NEW caps \in Capabilities
  PROVE  NewMember(caps) \in Member /\ HistoryOK(NewMember(caps))
BY BoundsAssumption DEF TypeOK, NewMember, Member, MemberStates, AdvertisedCapGen, Gens, HistoryOK

(* The member after update_capabilities, or after an observation that      *)
(* brings new capabilities.                                                *)
LEMMA UpdatedMemberType ==
  ASSUME TypeOK, mode # "down", NEW m \in Member, NEW caps \in Capabilities
  PROVE  UpdatedMember(m, caps) \in Member /\ HistoryOK(UpdatedMember(m, caps))
<1>1. NextGen(m.capGen) \in Gens /\ NextGen(m.evidGen) \in Gens
  BY NextGenType DEF Member
<1>2. PushHistory(m.history) \in 0..HistoryLimit
  BY PushHistoryType DEF Member
<1>3. PushHistory(m.history) \in 0..(HistoryLimit + 1)
  BY <1>2, BoundsAssumption
<1>4. policy \in Policies /\ epoch \in Gens
  BY DEF TypeOK
<1>5. UpdatedMember(m, caps) \in Member
  BY <1>1, <1>3, <1>4, Zenon DEF UpdatedMember, Member
<1>6. UpdatedMember(m, caps).history = PushHistory(m.history)
  BY DEF UpdatedMember, Member
<1> QED
  BY <1>2, <1>5, <1>6, BoundsAssumption DEF HistoryOK

(* The member after an observation of the capabilities it already has.     *)
LEMMA RefreshedMemberType ==
  ASSUME TypeOK, mode # "down", NEW m \in Member, HistoryOK(m)
  PROVE  RefreshedMember(m) \in Member /\ HistoryOK(RefreshedMember(m))
<1>1. NextGen(m.evidGen) \in Gens /\ AdvertisedCapGen \in Gens
  BY NextGenType, BoundsAssumption DEF Member, AdvertisedCapGen, Gens
<1>2. policy \in Policies /\ epoch \in Gens
  BY DEF TypeOK
<1>3. RefreshedMember(m) \in Member
  BY <1>1, <1>2, Zenon DEF RefreshedMember, Member
<1>4. RefreshedMember(m).history = m.history /\ RefreshedMember(m).state = m.state
  BY DEF RefreshedMember, Member
<1> QED
  BY <1>3, <1>4 DEF HistoryOK

(* The member restore_locked makes of the stored one.                      *)
LEMMA RestoredMemberType ==
  ASSUME NEW m \in Member, NEW e \in Gens
  PROVE  RestoredMember(m, e) \in Member /\ HistoryOK(RestoredMember(m, e))
<1>1. PushHistory(m.history) \in 0..HistoryLimit
  BY PushHistoryType DEF Member
<1>2. PushHistory(m.history) \in 0..(HistoryLimit + 1)
  BY <1>1, BoundsAssumption
<1>3. (IF IsLive(m.state) THEN "Degraded" ELSE m.state) \in MemberStates
  BY DEF Member, MemberStates
<1>4. RestoredMember(m, e) \in Member
  BY <1>2, <1>3, Zenon DEF RestoredMember, Member
<1>5. RestoredMember(m, e).history = PushHistory(m.history)
  BY DEF RestoredMember, Member
<1> QED
  BY <1>1, <1>4, <1>5, BoundsAssumption DEF HistoryOK

(* The superseded incarnation: retired, with a capped push to its history. *)
LEMMA RetiredMemberType ==
  ASSUME NEW m \in Member
  PROVE  /\ RetiredMember(m) \in Member /\ HistoryOK(RetiredMember(m))
         /\ RetiredMember(m).state = "Retired"
<1>1. PushHistory(m.history) \in 0..HistoryLimit
  BY PushHistoryType DEF Member
<1>2. PushHistory(m.history) \in 0..(HistoryLimit + 1)
  BY <1>1, BoundsAssumption
<1>3. RetiredMember(m) \in Member
  BY <1>2, Zenon DEF RetiredMember, Member, MemberStates
<1>4. RetiredMember(m).history = PushHistory(m.history) /\ RetiredMember(m).state = "Retired"
  BY DEF RetiredMember, Member
<1> QED
  BY <1>1, <1>3, <1>4, BoundsAssumption DEF HistoryOK

(* The source of a committed migration: the one push that is not resized,  *)
(* from a state in which the history is within the limit.                  *)
LEMMA ReleasedSourceType ==
  ASSUME NEW m \in Member, HistoryOK(m)
  PROVE  ReleasedSource(m) \in Member /\ HistoryOK(ReleasedSource(m))
<1>1. CASE m.state \notin {"Active", "Degraded"}
  BY <1>1 DEF ReleasedSource
<1>2. CASE m.state \in {"Active", "Degraded"}
  <2>1. m.history + 1 \in 0..(HistoryLimit + 1)
    BY <1>2, BoundsAssumption DEF HistoryOK, Member
  <2>2. "Draining" \in MemberStates
    BY DEF MemberStates
  <2>3. ReleasedSource(m) = [m EXCEPT !.state = "Draining", !.history = @ + 1]
    BY <1>2 DEF ReleasedSource
  <2>4. ReleasedSource(m) \in Member /\ ReleasedSource(m).state = "Draining"
    BY <2>1, <2>2, <2>3, Zenon DEF Member
  <2> QED
    BY <2>4 DEF HistoryOK
<1> QED
  BY <1>1, <1>2

(* Assigning members to a map of members.                                  *)
LEMMA MemberUpdateType ==
  ASSUME TypeInv, NEW a \in Accelerators, NEW m \in Member, HistoryOK(m),
         members' = [members EXCEPT ![a] = m]
  PROVE  members' \in MemberMap /\ HistoryBounded'
<1>1. members \in MemberMap
  BY DEF TypeInv, TypeOK
<1>2. members' \in MemberMap
  BY <1>1 DEF MemberMap
<1>3. \A b \in Accelerators : members'[b] = IF b = a THEN m ELSE members[b]
  BY <1>1 DEF MemberMap
<1> QED
  BY <1>2, <1>3 DEF TypeInv, HistoryBounded

(* A step of a running federation that keeps the parts well typed keeps    *)
(* the store well typed.                                                   *)
LEMMA RunningStep ==
  ASSUME TypeInv, mode # "down", mode' \in {"up", "shutdown"}, epoch' = epoch,
         generation' \in {generation, NextGen(generation)}, policy' \in Policies,
         members' \in MemberMap, HistoryBounded', workloads' \in WorkloadMap,
         decisions' \in SUBSET Decision, plans' \in PlanMap,
         aged' \in SUBSET Accelerators, store' \in {store, Snapshot'}
  PROVE  TypeInv'
<1>1. epoch \in Gens /\ generation \in Gens
  BY DEF TypeInv, TypeOK
<1>2. epoch' \in Gens /\ generation' \in Gens
  BY <1>1, NextGenType
<1>3. epoch' \in 0..MaxValue /\ generation' \in 0..MaxValue
  BY <1>2, BoundsAssumption DEF Gens
<1>4. store' \in SnapshotRecord \cup {NoSnapshot}
  BY <1>2, StoreType DEF TypeInv
<1> QED
  BY <1>2, <1>3, <1>4 DEF TypeInv, TypeOK

(* What evaluate_locked returns for a known member and a registered        *)
(* workload.                                                               *)
LEMMA EvaluationType ==
  ASSUME TypeInv, mode # "down", NEW w \in Registered, NEW a \in Known,
         NEW s \in Known \cup {NoSource}
  PROVE  Evaluation(w, a, s) \in Decision
<1>1. members[a] \in Member /\ workloads[w] \in Profiles
  BY DEF TypeInv, TypeOK, MemberMap, WorkloadMap, Known, Registered
<1>2. epoch \in Gens /\ generation \in Gens /\ policy \in Policies
  BY DEF TypeInv, TypeOK
<1>3. OutcomeWith(w, a, s, EvidenceFresh(a)) \in Outcomes
  <2>1. EvidenceFresh(a) \in BOOLEAN
    BY DEF EvidenceFresh
  <2>2. (IF s \in Known THEN members[s].caps ELSE NoSource) \in Capabilities \cup {NoSource}
    BY DEF TypeInv, TypeOK, MemberMap, Known, Member
  <2>3. members[a].caps \in Capabilities
    BY <1>1 DEF Member
  <2> QED
    BY <1>1, <1>2, <2>1, <2>2, <2>3, InputAssumption DEF OutcomeWith, Outcomes
<1>4. members[a].capGen \in Gens /\ members[a].evidGen \in Gens
  BY <1>1 DEF Member
<1>5. a \in Accelerators /\ s \in Accelerators \cup {NoSource} /\ w \in Workloads
  BY DEF Known, Registered
<1> QED
  BY <1>1, <1>2, <1>3, <1>4, <1>5 DEF Evaluation, Decision

-----------------------------------------------------------------------------
(* Type correctness.                                                       *)

(* Before the first start.                                                 *)
LEMMA InitType == Init => TypeInv
BY BoundsAssumption, InputAssumption
DEF Init, TypeInv, TypeOK, HistoryBounded, NoMembers, NoWorkloads, NoPlans,
    MemberMap, WorkloadMap, PlanMap

(* Aborting a plan in flight gives a plan.                                 *)
LEMMA AbortInFlightType ==
  ASSUME NEW p \in Plan \cup {NoPlan}
  PROVE  AbortInFlight(p) \in Plan \cup {NoPlan}
<1>1. CASE ~InFlight(p)
  BY <1>1 DEF AbortInFlight
<1>2. CASE InFlight(p)
  <2>1. p \in Plan
    BY <1>2 DEF InFlight
  <2>2. "Aborted" \in MigrationStates /\ "readable" \in Reasons
    BY DEF MigrationStates, Reasons
  <2> QED
    BY <1>2, <2>1, <2>2 DEF AbortInFlight, Plan
<1> QED
  BY <1>1, <1>2

(* Opening, fresh or from the snapshot, gives well-typed memory.           *)
LEMMA OpenType == TypeInv /\ Open => TypeInv'
<1> SUFFICES ASSUME TypeInv, Open PROVE TypeInv'
  OBVIOUS
<1>1. /\ epoch' \in Gens /\ generation' \in Gens /\ policy' \in Policies
      /\ members' \in MemberMap /\ HistoryBounded'
      /\ workloads' \in WorkloadMap /\ plans' \in PlanMap
  <2>1. CASE OpenFresh
    BY <2>1, BoundsAssumption, InputAssumption
    DEF OpenFresh, NoMembers, NoWorkloads, NoPlans, MemberMap, WorkloadMap, PlanMap,
        HistoryBounded, Gens
  <2>2. CASE Recover
    <3>1. store \in SnapshotRecord
      BY <2>2 DEF TypeInv, TypeOK, Recover
    <3>2. epoch' \in Gens /\ generation' \in Gens
      BY <2>2, <3>1, NextGenType DEF Recover, RecoveredEpoch, SnapshotRecord
    <3>3. policy' \in Policies /\ workloads' \in WorkloadMap
      BY <2>2, <3>1 DEF Recover, SnapshotRecord
    <3>4. plans' \in PlanMap
      BY <2>2, <3>1, AbortInFlightType DEF Recover, SnapshotRecord, PlanMap
    <3>5. \A a \in Accelerators :
            /\ members'[a] \in Member \cup {NoMember}
            /\ members'[a] # NoMember => HistoryOK(members'[a])
      BY <2>2, <3>1, <3>2, RestoredMemberType DEF Recover, SnapshotRecord, MemberMap
    <3>6. members' \in MemberMap
      BY <2>2, <3>5 DEF Recover, MemberMap
    <3> QED
      BY <3>2, <3>3, <3>4, <3>5, <3>6 DEF HistoryBounded
  <2> QED
    BY <2>1, <2>2 DEF Open
<1>2. mode' = "up" /\ decisions' \in SUBSET Decision /\ aged' \in SUBSET Accelerators
  BY DEF Open, Known
<1>3. store' \in {store, Snapshot'}
  BY DEF Open
<1>4. store' \in SnapshotRecord \cup {NoSnapshot}
  BY <1>1, <1>2, <1>3, StoreType DEF TypeInv
<1>5. epoch' \in 0..MaxValue /\ generation' \in 0..MaxValue
  BY <1>1, BoundsAssumption DEF Gens
<1> QED
  BY <1>1, <1>2, <1>4, <1>5 DEF TypeInv, TypeOK

(* The death of the process leaves the store and nothing in memory.        *)
LEMMA CrashType == TypeInv /\ Crash => TypeInv'
BY InputAssumption
DEF Crash, TypeInv, TypeOK, HistoryBounded, NoMembers, NoWorkloads, NoPlans,
    MemberMap, WorkloadMap, PlanMap

(* Both observations of an accelerator, and an update of its capabilities. *)
LEMMA ObserveNewType ==
  ASSUME TypeInv, NEW c, NEW a \in Accelerators, NEW caps \in Capabilities,
         NEW local, ObserveNew(c, a, caps, local)
  PROVE  TypeInv'
<1>1. mode = "up" /\ members \in MemberMap
  BY DEF ObserveNew, ValidateAuthority, TypeInv, TypeOK
<1>2. NewMember(caps) \in Member /\ HistoryOK(NewMember(caps))
  BY <1>1, NewMemberType DEF TypeInv
<1>3. members' = [b \in Accelerators |->
                    IF b = a THEN NewMember(caps)
                    ELSE IF Superseded(a, b) THEN RetiredMember(members[b]) ELSE members[b]]
  BY Zenon DEF ObserveNew
<1>4. ASSUME NEW b \in Accelerators
      PROVE  /\ members'[b] \in Member \cup {NoMember}
             /\ members'[b] # NoMember => HistoryOK(members'[b])
  <2>1. CASE b = a
    BY <1>2, <1>3, <2>1
  <2>2. CASE b # a /\ Superseded(a, b)
    <3>1. members[b] \in Member
      BY <1>1, <2>2 DEF Superseded, Incarnations, Known, MemberMap
    <3> QED
      BY <1>3, <2>2, <3>1, RetiredMemberType
  <2>3. CASE b # a /\ ~Superseded(a, b)
    BY <1>1, <1>3, <2>3 DEF MemberMap, TypeInv, HistoryBounded
  <2> QED
    BY <2>1, <2>2, <2>3
<1>5. members' \in MemberMap
  BY <1>3, <1>4 DEF MemberMap
<1>6. HistoryBounded'
  BY <1>4 DEF HistoryBounded
<1>7. aged' \in SUBSET Accelerators
  BY DEF ObserveNew, Received, TypeInv, TypeOK
<1>8. store' \in {store, Snapshot'}
  BY PersistOutcomes, Zenon DEF ObserveNew
<1>9. /\ mode' \in {"up", "shutdown"} /\ epoch' = epoch
      /\ generation' \in {generation, NextGen(generation)}
      /\ policy' \in Policies /\ workloads' \in WorkloadMap /\ decisions' \in SUBSET Decision
      /\ plans' \in PlanMap
  BY <1>1 DEF ObserveNew, TypeInv, TypeOK
<1> QED
  BY <1>1, <1>5, <1>6, <1>7, <1>8, <1>9, RunningStep

(* observe() of a known incarnation.                                       *)
LEMMA ObserveAgainType ==
  ASSUME TypeInv, NEW c, NEW a \in Accelerators, NEW caps \in Capabilities,
         NEW local, ObserveAgain(c, a, caps, local)
  PROVE  TypeInv'
<1> DEFINE m == ReobservedMember(members[a], caps)
<1>1. mode = "up" /\ members[a] \in Member /\ HistoryOK(members[a])
  BY DEF ObserveAgain, ValidateAuthority, TypeInv, TypeOK, MemberMap, Known, HistoryBounded
<1>2. m \in Member /\ HistoryOK(m)
  BY <1>1, UpdatedMemberType, RefreshedMemberType, Zenon DEF TypeInv, ReobservedMember
<1>3. members' = [members EXCEPT ![a] = m]
  BY DEF ObserveAgain
<1> HIDE DEF m
<1>4. members' \in MemberMap /\ HistoryBounded'
  BY <1>2, <1>3, MemberUpdateType, ZenonT(60)
<1>5. aged' \in SUBSET Accelerators
  BY DEF ObserveAgain, Received, TypeInv, TypeOK
<1>6. store' \in {store, Snapshot'}
  BY PersistOutcomes, Zenon DEF ObserveAgain
<1>7. /\ mode' \in {"up", "shutdown"} /\ epoch' = epoch
      /\ generation' \in {generation, NextGen(generation)}
      /\ policy' \in Policies /\ workloads' \in WorkloadMap /\ decisions' \in SUBSET Decision
      /\ plans' \in PlanMap
  BY <1>1 DEF ObserveAgain, TypeInv, TypeOK
<1> QED
  BY <1>1, <1>4, <1>5, <1>6, <1>7, RunningStep

(* update_capabilities().                                                  *)
LEMMA UpdateCapabilitiesType ==
  ASSUME TypeInv, NEW c, NEW a \in Accelerators, NEW caps \in Capabilities,
         NEW local, UpdateCapabilities(c, a, caps, local)
  PROVE  TypeInv'
<1>1. mode = "up" /\ members[a] \in Member
  BY DEF UpdateCapabilities, ValidateAuthority, TypeInv, TypeOK, MemberMap, Known
<1>2. UpdatedMember(members[a], caps) \in Member /\ HistoryOK(UpdatedMember(members[a], caps))
  BY <1>1, UpdatedMemberType DEF TypeInv
<1>3. members' = [members EXCEPT ![a] = UpdatedMember(members[a], caps)]
  BY DEF UpdateCapabilities
<1>4. members' \in MemberMap /\ HistoryBounded'
  BY <1>2, <1>3, MemberUpdateType, Zenon
<1>5. aged' \in SUBSET Accelerators
  BY DEF UpdateCapabilities, Received, TypeInv, TypeOK
<1>6. store' \in {store, Snapshot'}
  BY PersistOutcomes, Zenon DEF UpdateCapabilities
<1>7. /\ mode' \in {"up", "shutdown"} /\ epoch' = epoch
      /\ generation' \in {generation, NextGen(generation)}
      /\ policy' \in Policies /\ workloads' \in WorkloadMap /\ decisions' \in SUBSET Decision
      /\ plans' \in PlanMap
  BY <1>1 DEF UpdateCapabilities, TypeInv, TypeOK
<1> QED
  BY <1>1, <1>4, <1>5, <1>6, <1>7, RunningStep

(* What a legal transition makes of a member is a member.                  *)
LEMMA TransitionedMemberType ==
  ASSUME TypeOK, mode # "down", NEW m \in Member, NEW t \in MemberStates
  PROVE  TransitionedMember(m, t) \in Member /\ HistoryOK(TransitionedMember(m, t))
<1>1. PushHistory(m.history) \in 0..HistoryLimit
  BY PushHistoryType DEF Member
<1>2. PushHistory(m.history) \in 0..(HistoryLimit + 1)
  BY <1>1, BoundsAssumption
<1>3. policy \in Policies /\ epoch \in Gens
  BY DEF TypeOK
<1>4. TransitionedMember(m, t) \in Member
  BY <1>2, <1>3, Zenon DEF TransitionedMember, Member
<1>5. TransitionedMember(m, t).history = PushHistory(m.history)
  BY DEF TransitionedMember, Member
<1> QED
  BY <1>1, <1>4, <1>5, BoundsAssumption DEF HistoryOK

(* transition(), and with it admit, activate, fence, reopen and retire.    *)
LEMMA TransitionType ==
  ASSUME TypeInv, NEW c, NEW a \in Accelerators, NEW target \in MemberStates,
         Transition(c, a, target)
  PROVE  TypeInv'
<1> DEFINE m == TransitionedMember(members[a], target)
<1>1. mode = "up" /\ members[a] \in Member
  BY DEF Transition, ValidateAuthority, TypeInv, TypeOK, MemberMap, Known
<1>2. m \in Member /\ HistoryOK(m)
  BY <1>1, TransitionedMemberType DEF TypeInv
<1>3. members' = [members EXCEPT ![a] = m]
  BY DEF Transition
<1> HIDE DEF m
<1>4. members' \in MemberMap /\ HistoryBounded'
  BY <1>2, <1>3, MemberUpdateType, Zenon
<1>5. store' \in {store, Snapshot'}
  BY PersistOutcomes, Zenon DEF Transition
<1>6. /\ mode' \in {"up", "shutdown"} /\ epoch' = epoch
      /\ generation' \in {generation, NextGen(generation)}
      /\ policy' \in Policies /\ workloads' \in WorkloadMap /\ decisions' \in SUBSET Decision
      /\ plans' \in PlanMap /\ aged' \in SUBSET Accelerators
  BY <1>1 DEF Transition, TypeInv, TypeOK
<1> QED
  BY <1>1, <1>4, <1>5, <1>6, RunningStep

(* A change of policy restamps the members and aborts plans in flight.     *)
LEMMA SetPolicyType ==
  ASSUME TypeInv, NEW c, NEW p \in Policies, SetPolicy(c, p)
  PROVE  TypeInv'
<1>1. mode = "up" /\ members \in MemberMap /\ plans \in PlanMap
  BY DEF SetPolicy, ValidateAuthority, TypeInv, TypeOK
<1>2. ASSUME NEW a \in Accelerators
      PROVE  /\ members'[a] \in Member \cup {NoMember}
             /\ members'[a] # NoMember => HistoryOK(members'[a])
  <2>1. CASE a \notin Known
    BY <2>1 DEF SetPolicy
  <2>2. CASE a \in Known
    <3> DEFINE m == [members[a] EXCEPT !.policy = p]
    <3>1. members[a] \in Member /\ HistoryOK(members[a])
      BY <1>1, <2>2 DEF Known, MemberMap, TypeInv, HistoryBounded
    <3>2. m \in Member
      BY <3>1 DEF Member
    <3>3. m.history = members[a].history /\ m.state = members[a].state
      BY <3>1 DEF Member
    <3>4. members'[a] = m
      BY <2>2 DEF SetPolicy
    <3> QED
      BY <3>1, <3>2, <3>3, <3>4 DEF HistoryOK
  <2> QED
    BY <2>1, <2>2
<1>3. members' \in MemberMap
  BY <1>2 DEF SetPolicy, MemberMap
<1>4. HistoryBounded'
  BY <1>2 DEF HistoryBounded
<1>5. plans' \in PlanMap
  BY <1>1, AbortInFlightType DEF SetPolicy, PlanMap
<1>6. store' \in {store, Snapshot'}
  BY PersistOutcomes, Zenon DEF SetPolicy
<1>7. /\ mode' \in {"up", "shutdown"} /\ epoch' = epoch
      /\ generation' \in {generation, NextGen(generation)}
      /\ policy' \in Policies /\ workloads' \in WorkloadMap /\ decisions' \in SUBSET Decision
      /\ aged' \in SUBSET Accelerators
  BY <1>1 DEF SetPolicy, TypeInv, TypeOK
<1> QED
  BY <1>1, <1>3, <1>4, <1>5, <1>6, <1>7, RunningStep

(* register_workload().                                                    *)
LEMMA RegisterWorkloadType ==
  ASSUME TypeInv, NEW c, NEW w \in Workloads, NEW r \in Profiles, RegisterWorkload(c, w, r)
  PROVE  TypeInv'
<1>1. mode = "up"
  BY DEF RegisterWorkload, ValidateAuthority
<1>2. workloads' \in WorkloadMap
  BY DEF RegisterWorkload, TypeInv, TypeOK, WorkloadMap
<1>3. store' \in {store, Snapshot'}
  BY PersistOutcomes, Zenon DEF RegisterWorkload
<1>4. HistoryBounded'
  BY DEF RegisterWorkload, TypeInv, HistoryBounded
<1>5. /\ mode' \in {"up", "shutdown"} /\ epoch' = epoch
      /\ generation' \in {generation, NextGen(generation)}
      /\ policy' \in Policies /\ members' \in MemberMap /\ decisions' \in SUBSET Decision
      /\ plans' \in PlanMap /\ aged' \in SUBSET Accelerators
  BY <1>1 DEF RegisterWorkload, TypeInv, TypeOK
<1> QED
  BY <1>1, <1>2, <1>3, <1>4, <1>5, RunningStep

(* Decisions: taken by evaluate(), dropped by invalidate_stale_decisions().*)
LEMMA EvaluateType ==
  ASSUME TypeInv, NEW w, NEW a, NEW s, Evaluate(w, a, s)
  PROVE  TypeInv'
<1>1. mode = "up" /\ Evaluation(w, a, s) \in Decision
  BY EvaluationType DEF Evaluate
<1>2. decisions' \in SUBSET Decision
  BY <1>1, RetainedSubset DEF Evaluate, TypeInv, TypeOK
<1>3. store' \in {store, Snapshot'}
  BY PersistOutcomes, Zenon DEF Evaluate
<1>4. HistoryBounded'
  BY DEF Evaluate, TypeInv, HistoryBounded
<1>5. /\ mode' \in {"up", "shutdown"} /\ epoch' = epoch
      /\ generation' \in {generation, NextGen(generation)}
      /\ policy' \in Policies /\ members' \in MemberMap /\ workloads' \in WorkloadMap
      /\ plans' \in PlanMap /\ aged' \in SUBSET Accelerators
  BY <1>1 DEF Evaluate, TypeInv, TypeOK
<1> QED
  BY <1>1, <1>2, <1>3, <1>4, <1>5, RunningStep

(* invalidate_stale_decisions() only drops decisions.                      *)
LEMMA InvalidateType == TypeInv /\ InvalidateStaleDecisions => TypeInv'
<1> SUFFICES ASSUME TypeInv, InvalidateStaleDecisions PROVE TypeInv'
  OBVIOUS
<1>1. decisions' \in SUBSET Decision
  BY DEF InvalidateStaleDecisions, TypeInv, TypeOK
<1>2. store' \in {store, Snapshot'}
  BY PersistOutcomes, Zenon DEF InvalidateStaleDecisions
<1>3. HistoryBounded'
  BY DEF InvalidateStaleDecisions, TypeInv, HistoryBounded
<1>4. mode # "down" /\ mode' \in {"up", "shutdown"}
  BY DEF InvalidateStaleDecisions, TypeInv, TypeOK
<1>5. /\ epoch' = epoch
      /\ generation' \in {generation, NextGen(generation)}
      /\ policy' \in Policies /\ members' \in MemberMap /\ workloads' \in WorkloadMap
      /\ plans' \in PlanMap /\ aged' \in SUBSET Accelerators
  BY <1>1 DEF InvalidateStaleDecisions, TypeInv, TypeOK
<1> QED
  BY <1>1, <1>2, <1>3, <1>4, <1>5, RunningStep

(* Plans: made, advanced (at the commit the source is released), aborted.  *)
LEMMA PlanMigrationType ==
  ASSUME TypeInv, NEW c, NEW w, NEW s, NEW d, PlanMigration(c, w, s, d)
  PROVE  TypeInv'
<1>1. mode = "up" /\ w \in Registered /\ s \in Known /\ d \in Known
  BY DEF PlanMigration, ValidateAuthority
<1>2. NewPlan(w, s, d) \in Plan
  <2>1. members[s] \in Member /\ members[d] \in Member /\ workloads[w] \in Profiles
    BY <1>1 DEF TypeInv, TypeOK, MemberMap, WorkloadMap, Known, Registered
  <2>2. epoch \in Gens /\ NextGen(generation) \in Gens /\ policy \in Policies
    BY <1>1, NextGenType DEF TypeInv, TypeOK
  <2>3. members[s].capGen \in Gens /\ members[d].capGen \in Gens
    BY <2>1 DEF Member
  <2>4. s \in Accelerators /\ d \in Accelerators /\ w \in Workloads
    BY <1>1 DEF Known, Registered
  <2>5. /\ (IF Movable(w, s, d) THEN "Planned" ELSE "Refused") \in MigrationStates
        /\ (IF Movable(w, s, d) THEN "none" ELSE "readable") \in Reasons
    BY DEF MigrationStates, Reasons
  <2> QED
    BY <2>1, <2>2, <2>3, <2>4, <2>5 DEF NewPlan, Plan
<1>3. plans' \in PlanMap
  BY <1>2 DEF PlanMigration, TypeInv, TypeOK, PlanMap
<1>4. Evaluation(w, s, d) \in Decision /\ Evaluation(w, d, s) \in Decision
  BY <1>1, EvaluationType
<1>5. decisions' \in SUBSET Decision
  BY <1>4, RetainedSubset DEF PlanMigration, TypeInv, TypeOK
<1>6. store' \in {store, Snapshot'}
  BY PersistOutcomes, Zenon DEF PlanMigration
<1>7. HistoryBounded'
  BY DEF PlanMigration, TypeInv, HistoryBounded
<1>8. /\ mode' \in {"up", "shutdown"} /\ epoch' = epoch
      /\ generation' \in {generation, NextGen(generation)}
      /\ policy' \in Policies /\ members' \in MemberMap /\ workloads' \in WorkloadMap
      /\ aged' \in SUBSET Accelerators
  BY <1>1 DEF PlanMigration, TypeInv, TypeOK
<1> QED
  BY <1>1, <1>3, <1>5, <1>6, <1>7, <1>8, RunningStep

(* The refused plan of a move onto itself, which advances the generation.  *)
LEMMA PlanOntoItselfType ==
  ASSUME TypeInv, NEW c, NEW w, NEW s, PlanOntoItself(c, w, s)
  PROVE  TypeInv'
<1>1. mode = "up"
  BY DEF PlanOntoItself, ValidateAuthority
<1>2. HistoryBounded'
  BY DEF PlanOntoItself, TypeInv, HistoryBounded, memory
<1>3. /\ mode' \in {"up", "shutdown"} /\ epoch' = epoch
      /\ generation' \in {generation, NextGen(generation)}
      /\ policy' \in Policies /\ members' \in MemberMap /\ workloads' \in WorkloadMap
      /\ decisions' \in SUBSET Decision /\ plans' \in PlanMap /\ aged' \in SUBSET Accelerators
      /\ store' \in {store, Snapshot'}
  BY <1>1 DEF PlanOntoItself, TypeInv, TypeOK, memory
<1> QED
  BY <1>1, <1>2, <1>3, RunningStep

(* A plan with another lifecycle state is a plan.                          *)
LEMMA PlanStateType ==
  ASSUME TypeInv, NEW i \in PlanIds, NEW t \in MigrationStates, plans[i] # NoPlan,
         plans' = [plans EXCEPT ![i].state = t]
  PROVE  plans' \in PlanMap
<1>1. plans \in PlanMap /\ plans[i] \in Plan
  BY DEF TypeInv, TypeOK, PlanMap
<1>2. [plans[i] EXCEPT !.state = t] \in Plan
  BY <1>1 DEF Plan
<1> QED
  BY <1>1, <1>2 DEF PlanMap

(* advance_migration(), the release of the source at the commit included.  *)
LEMMA AdvanceMigrationType ==
  ASSUME TypeInv, NEW c, NEW i \in PlanIds, NEW t \in MigrationStates,
         AdvanceMigration(c, i, t)
  PROVE  TypeInv'
<1>1. mode = "up" /\ plans[i] # NoPlan /\ plans[i].source \in Known
  BY DEF AdvanceMigration, ValidateAuthority, Recorded, PlanIsCurrent
<1>2. plans' \in PlanMap
  BY <1>1, PlanStateType, Zenon DEF AdvanceMigration
<1>3. members' \in MemberMap /\ HistoryBounded'
  <2>1. CASE t # "Committed"
    BY <2>1 DEF AdvanceMigration, TypeInv, TypeOK, HistoryBounded
  <2>2. CASE t = "Committed"
    <3> DEFINE a == plans[i].source
    <3>1. a \in Accelerators /\ members[a] \in Member /\ HistoryOK(members[a])
      BY <1>1 DEF Known, TypeInv, TypeOK, MemberMap, HistoryBounded
    <3>2. members' = [members EXCEPT ![a] = ReleasedSource(members[a])]
      BY <2>2 DEF AdvanceMigration
    <3> HIDE DEF a
    <3> QED
      BY <3>1, <3>2, ReleasedSourceType, MemberUpdateType, Zenon
  <2> QED
    BY <2>1, <2>2
<1>4. store' \in {store, Snapshot'}
  BY PersistOutcomes, Zenon DEF AdvanceMigration
<1>5. /\ mode' \in {"up", "shutdown"} /\ epoch' = epoch
      /\ generation' \in {generation, NextGen(generation)}
      /\ policy' \in Policies /\ workloads' \in WorkloadMap /\ decisions' \in SUBSET Decision
      /\ aged' \in SUBSET Accelerators
  BY <1>1 DEF AdvanceMigration, TypeInv, TypeOK
<1> QED
  BY <1>1, <1>2, <1>3, <1>4, <1>5, RunningStep

(* abort_migration(), whatever the reason given.                           *)
LEMMA AbortMigrationType ==
  ASSUME TypeInv, NEW c, NEW i \in PlanIds, NEW reason \in AbortReasons,
         AbortMigration(c, i, reason)
  PROVE  TypeInv'
<1>1. mode = "up" /\ plans[i] # NoPlan
  BY DEF AbortMigration, ValidateAuthority, InFlight
<1>2. plans' \in PlanMap
  <2>1. plans \in PlanMap /\ plans[i] \in Plan
    BY <1>1 DEF TypeInv, TypeOK, PlanMap
  <2>2. "Aborted" \in MigrationStates /\ reason \in Reasons
    BY InputAssumption DEF MigrationStates
  <2>3. [plans[i] EXCEPT !.state = "Aborted", !.reasons = reason] \in Plan
    BY <2>1, <2>2 DEF Plan
  <2>4. plans' = [plans EXCEPT ![i] = [plans[i] EXCEPT !.state = "Aborted", !.reasons = reason]]
    BY Zenon DEF AbortMigration
  <2> QED
    BY <2>1, <2>3, <2>4 DEF PlanMap
<1>3. HistoryBounded'
  BY DEF AbortMigration, TypeInv, HistoryBounded
<1>4. store' \in {store, Snapshot'}
  BY PersistOutcomes, Zenon DEF AbortMigration
<1>5. /\ mode' \in {"up", "shutdown"} /\ epoch' = epoch
      /\ generation' \in {generation, NextGen(generation)}
      /\ policy' \in Policies /\ members' \in MemberMap /\ workloads' \in WorkloadMap
      /\ decisions' \in SUBSET Decision /\ aged' \in SUBSET Accelerators
  BY <1>1 DEF AbortMigration, TypeInv, TypeOK
<1> QED
  BY <1>1, <1>2, <1>3, <1>4, <1>5, RunningStep

(* Steps that leave the authoritative state in memory alone.               *)
LEMMA QuietStepType ==
  ASSUME TypeInv, ForcePersist \/ Shutdown \/ \E a \in Accelerators : EvidenceAges(a)
  PROVE  TypeInv'
<1>1. /\ UNCHANGED <<epoch, generation, memory>>
      /\ mode # "down" /\ mode' \in {"up", "shutdown"}
      /\ aged' \in SUBSET Accelerators
  BY Zenon DEF ForcePersist, Shutdown, EvidenceAges, memory, TypeInv, TypeOK
<1>2. store' \in {store, Snapshot'}
  BY PersistOutcomes, Zenon DEF ForcePersist, Shutdown, EvidenceAges
<1>3. HistoryBounded'
  BY <1>1 DEF memory, TypeInv, HistoryBounded
<1>4. /\ epoch' = epoch
      /\ generation' \in {generation, NextGen(generation)}
      /\ policy' \in Policies /\ members' \in MemberMap /\ workloads' \in WorkloadMap
      /\ decisions' \in SUBSET Decision /\ plans' \in PlanMap
  BY <1>1 DEF memory, TypeInv, TypeOK
<1> QED
  BY <1>1, <1>2, <1>3, <1>4, RunningStep

(* Every mutating operation keeps TypeInv, whatever the claim it is given. *)
LEMMA MutateType ==
  ASSUME TypeInv, NEW c, Mutate(c)
  PROVE  TypeInv'
<1>1. ASSUME NEW a \in Accelerators, NEW caps \in Capabilities, NEW local \in BOOLEAN,
             \/ ObserveNew(c, a, caps, local)
             \/ ObserveAgain(c, a, caps, local)
             \/ UpdateCapabilities(c, a, caps, local)
      PROVE  TypeInv'
  BY <1>1, ObserveNewType, ObserveAgainType, UpdateCapabilitiesType
<1>2. ASSUME NEW a \in Accelerators, NEW t \in MemberStates, Transition(c, a, t)
      PROVE  TypeInv'
  BY <1>2, TransitionType
<1>3. ASSUME NEW p \in Policies, SetPolicy(c, p) PROVE TypeInv'
  BY <1>3, SetPolicyType
<1>4. ASSUME NEW w \in Workloads, NEW r \in Profiles, RegisterWorkload(c, w, r)
      PROVE  TypeInv'
  BY <1>4, RegisterWorkloadType
<1>5. ASSUME NEW w \in Workloads, NEW s \in Accelerators, NEW d \in Accelerators,
             PlanMigration(c, w, s, d)
      PROVE  TypeInv'
  BY <1>5, PlanMigrationType
<1>6. ASSUME NEW w \in Workloads, NEW s \in Accelerators, PlanOntoItself(c, w, s)
      PROVE  TypeInv'
  BY <1>6, PlanOntoItselfType
<1>7. ASSUME NEW i \in PlanIds, NEW t \in MigrationStates, AdvanceMigration(c, i, t)
      PROVE  TypeInv'
  BY <1>7, AdvanceMigrationType
<1>8. ASSUME NEW i \in PlanIds, NEW reason \in AbortReasons, AbortMigration(c, i, reason) PROVE TypeInv'
  BY <1>8, AbortMigrationType
<1> QED
  BY <1>1, <1>2, <1>3, <1>4, <1>5, <1>6, <1>7, <1>8 DEF Mutate

(* TypeInv is inductive: one step per operation.                           *)
LEMMA TypeStep == TypeInv /\ [Next]_vars => TypeInv'
<1> SUFFICES ASSUME TypeInv, [Next]_vars PROVE TypeInv'
  OBVIOUS
<1>1. CASE UNCHANGED vars
  BY <1>1 DEF vars, memory, TypeInv, TypeOK, HistoryBounded
<1>2. CASE Unclaimed
  <2>1. CASE Open
    BY <2>1, OpenType
  <2>2. CASE Crash
    BY <2>2, CrashType
  <2>3. CASE InvalidateStaleDecisions
    BY <2>3, InvalidateType
  <2>4. CASE ForcePersist \/ Shutdown \/ \E a \in Accelerators : EvidenceAges(a)
    BY <2>4, QuietStepType
  <2>5. CASE \E w \in Workloads, a \in Accelerators, s \in Accelerators \cup {NoSource} :
               Evaluate(w, a, s)
    BY <2>5, EvaluateType
  <2> QED
    BY <1>2, <2>1, <2>2, <2>3, <2>4, <2>5 DEF Unclaimed
<1>3. CASE \E c \in Claims : Mutate(c)
  BY <1>3, MutateType, Zenon
<1> QED
  BY <1>1, <1>2, <1>3 DEF Next

(* Every state of every run is well typed and no history outgrows its      *)
(* limit except that of a member left Draining by a commit.                *)
THEOREM TypeCorrect == Spec => []TypeInv
<1>1. Init => TypeInv
  BY InitType
<1>2. TypeInv /\ [Next]_vars => TypeInv'
  BY TypeStep
<1> QED
  BY <1>1, <1>2, PTL DEF Spec

(* Every state of every run of the federation is well typed.               *)
THEOREM TypesHold == Spec => []TypeOK
<1>1. TypeInv => TypeOK
  BY DEF TypeInv
<1> QED
  BY <1>1, TypeCorrect, PTL

-----------------------------------------------------------------------------
(* Kinds of steps.                                                         *)

(* A step of a running federation: it neither starts nor ends the run, it  *)
(* keeps the epoch, and it leaves the old snapshot or the present one.     *)
RunningStepOf ==
  /\ mode # "down" /\ mode' # "down" /\ epoch' = epoch
  /\ store' \in {store, Snapshot'}

(* A mutating operation is refused unless the federation runs, keeps the   *)
(* epoch, and ends with persist_locked or with no write.                   *)
LEMMA MutateRuns ==
  ASSUME NEW c, Mutate(c)
  PROVE  mode = "up" /\ RunningStepOf
<1> DEFINE Frame == /\ ValidateAuthority(c) /\ mode' = mode /\ epoch' = epoch
                    /\ Persist(FALSE) \/ store' = store
<1>1. ASSUME NEW a, NEW caps, NEW local,
             \/ ObserveNew(c, a, caps, local) \/ ObserveAgain(c, a, caps, local)
             \/ UpdateCapabilities(c, a, caps, local)
      PROVE  Frame
  BY <1>1, Zenon DEF ObserveNew, ObserveAgain, UpdateCapabilities
<1>2. ASSUME NEW a, NEW t, Transition(c, a, t) PROVE Frame
  BY <1>2, Zenon DEF Transition
<1>3. ASSUME NEW p, SetPolicy(c, p) PROVE Frame
  BY <1>3, Zenon DEF SetPolicy
<1>4. ASSUME NEW w, NEW r, RegisterWorkload(c, w, r) PROVE Frame
  BY <1>4, Zenon DEF RegisterWorkload
<1>5. ASSUME NEW w, NEW s, NEW d, PlanMigration(c, w, s, d) PROVE Frame
  BY <1>5, Zenon DEF PlanMigration
<1>6. ASSUME NEW w, NEW s, PlanOntoItself(c, w, s) PROVE Frame
  BY <1>6 DEF PlanOntoItself
<1>7. ASSUME NEW i, NEW t, AdvanceMigration(c, i, t) PROVE Frame
  BY <1>7, Zenon DEF AdvanceMigration
<1>8. ASSUME NEW i, NEW reason, AbortMigration(c, i, reason) PROVE Frame
  BY <1>8, Zenon DEF AbortMigration
<1>9. Frame
  <2> HIDE DEF Frame
  <2> QED
    BY <1>1, <1>2, <1>3, <1>4, <1>5, <1>6, <1>7, <1>8 DEF Mutate
<1>10. store' \in {store, Snapshot'}
  BY <1>9, PersistOutcomes, Zenon
<1> QED
  BY <1>9, <1>10 DEF ValidateAuthority, RunningStepOf

(* A step starts the process, ends it, or is a step of a running one.      *)
LEMMA StepKinds ==
  ASSUME Next
  PROVE  Open \/ Crash \/ RunningStepOf
<1>1. CASE Unclaimed
  <2>1. CASE Open \/ Crash
    BY <2>1
  <2>2. CASE Shutdown \/ ForcePersist \/ InvalidateStaleDecisions
    BY <2>2, PersistOutcomes, Zenon
    DEF Shutdown, ForcePersist, InvalidateStaleDecisions, RunningStepOf
  <2>3. CASE \E a \in Accelerators : EvidenceAges(a)
    BY <2>3 DEF EvidenceAges, RunningStepOf
  <2>4. CASE \E w \in Workloads, a \in Accelerators, s \in Accelerators \cup {NoSource} :
               Evaluate(w, a, s)
    BY <2>4, PersistOutcomes, Zenon DEF Evaluate, RunningStepOf
  <2> QED
    BY <1>1, <2>1, <2>2, <2>3, <2>4 DEF Unclaimed
<1>2. ASSUME NEW c \in Claims, Mutate(c) PROVE RunningStepOf
  BY <1>2, MutateRuns
<1> QED
  BY <1>1, <1>2 DEF Next

-----------------------------------------------------------------------------
(* Epochs.                                                                 *)

(* With a write per mutation the store knows the epoch of the last run     *)
(* that was opened: open() writes before it returns, and every later write *)
(* carries the same epoch.                                                 *)
EpochDurable ==
  /\ mode # "down" => store # NoSnapshot
  /\ store = NoSnapshot => epoch = 0
  /\ store # NoSnapshot => store.epoch = epoch

(* A step of a running federation writes the epoch the store has already,  *)
(* or nothing.                                                             *)
LEMMA EpochDurableRunning ==
  ASSUME EpochDurable, TypeInv', RunningStepOf
  PROVE  EpochDurable'
<1>1. CASE store' = store
  BY <1>1 DEF RunningStepOf, EpochDurable
<1>2. CASE store' = Snapshot'
  <2>1. store' \in SnapshotRecord
    BY <1>2 DEF TypeInv, TypeOK, Snapshot, SnapshotRecord, RunningStepOf
  <2> QED
    BY <1>2, <2>1, AbsentValues DEF EpochDurable, Snapshot, RunningStepOf
<1> QED
  BY <1>1, <1>2 DEF RunningStepOf

(* The store keeps knowing the epoch, also when writes after open() fail.  *)
LEMMA EpochDurableStep ==
  ASSUME PersistMode = "mutation", TypeInv, EpochDurable, [Next]_vars
  PROVE  EpochDurable'
<1>1. TypeInv'
  BY TypeStep
<1>2. CASE UNCHANGED vars
  BY <1>2 DEF vars, EpochDurable
<1>3. CASE Open
  <2>1. mode' = "up" /\ store' = Snapshot'
    BY <1>3 DEF Open, Writes
  <2>2. store' \in SnapshotRecord
    BY <1>1, <2>1 DEF TypeInv, TypeOK, Snapshot, SnapshotRecord
  <2> QED
    BY <2>1, <2>2, AbsentValues DEF EpochDurable, Snapshot
<1>4. CASE Crash
  BY <1>4 DEF Crash, EpochDurable
<1>5. CASE RunningStepOf
  BY <1>1, <1>5, EpochDurableRunning
<1> QED
  BY <1>2, <1>3, <1>4, <1>5, StepKinds

(* With a write per mutation, recovery starts above the epoch of every     *)
(* earlier run.                                                            *)
LEMMA OpenRaises ==
  ASSUME TypeInv, EpochDurable, Open
  PROVE  epoch' > epoch \/ (epoch = MaxValue /\ epoch' = MaxValue)
<1>1. CASE OpenFresh
  BY <1>1 DEF OpenFresh, EpochDurable
<1>2. CASE Recover
  <2>1. store \in SnapshotRecord /\ store.epoch = epoch
    BY <1>2 DEF Recover, TypeInv, TypeOK, EpochDurable
  <2>2. epoch \in Gens /\ epoch' = NextGen(epoch)
    BY <1>2, <2>1 DEF Recover, RecoveredEpoch, SnapshotRecord
  <2> QED
    BY <2>2, BoundsAssumption DEF Gens, NextGen
<1> QED
  BY <1>1, <1>2 DEF Open

(* With a write per mutation, every start of the coordinator gets an epoch *)
(* above that of every earlier run (or the saturated one), whatever writes *)
(* failed in between.                                                      *)
THEOREM EpochsRise == ASSUME PersistMode = "mutation" PROVE Spec => EpochRises
<1>1. Init => EpochDurable
  BY DEF Init, EpochDurable
<1>2. TypeInv /\ EpochDurable /\ [Next]_vars => EpochDurable'
  BY EpochDurableStep
<1>3. TypeInv /\ EpochDurable /\ [Next]_vars
        => [mode = "down" /\ mode' = "up" => epoch' > epoch \/ epoch = MaxValue]_vars
  <2> SUFFICES ASSUME TypeInv, EpochDurable, Next, mode = "down", mode' = "up"
               PROVE  epoch' > epoch \/ epoch = MaxValue
    OBVIOUS
  <2>1. Open
    BY StepKinds DEF Crash, RunningStepOf
  <2> QED
    BY <2>1, OpenRaises
<1> QED
  BY <1>1, <1>2, <1>3, TypeCorrect, PTL DEF Spec, EpochRises

-----------------------------------------------------------------------------
(* Retirement.                                                             *)

(* What a step may do to a member that is already known: it stays known,   *)
(* and if it is retired it stays retired.                                  *)
KeepsMember(b) ==
  members[b] # NoMember =>
    /\ members'[b] # NoMember
    /\ IsTerminalState(members[b].state) => IsTerminalState(members'[b].state)

(* An update of one member keeps them all if it keeps that one.            *)
LEMMA UpdateKeeps ==
  ASSUME TypeInv, NEW a \in Accelerators, NEW m \in Member,
         members' = [members EXCEPT ![a] = m],
         IsTerminalState(members[a].state) => IsTerminalState(m.state),
         NEW b \in Accelerators
  PROVE  KeepsMember(b)
<1>1. members'[b] = IF b = a THEN m ELSE members[b]
  BY DEF TypeInv, TypeOK, MemberMap
<1>2. m # NoMember
  BY AbsentValues
<1> QED
  BY <1>1, <1>2 DEF KeepsMember

(* observe() of a new incarnation retires others and revives none.         *)
LEMMA ObserveNewKeeps ==
  ASSUME TypeInv, NEW c, NEW a \in Accelerators, NEW caps \in Capabilities,
         NEW local, ObserveNew(c, a, caps, local), NEW b \in Accelerators
  PROVE  KeepsMember(b)
<1> SUFFICES ASSUME members[b] # NoMember PROVE KeepsMember(b)
  BY DEF KeepsMember
<1>1. members[b] \in Member /\ b # a
  BY Zenon DEF TypeInv, TypeOK, MemberMap, ObserveNew, Known
<1>2. CASE Superseded(a, b)
  <2>1. RetiredMember(members[b]) \in Member /\ RetiredMember(members[b]).state = "Retired"
    BY <1>1, RetiredMemberType, Zenon
  <2>2. members'[b] = RetiredMember(members[b])
    BY <1>1, <1>2, Zenon DEF ObserveNew
  <2> QED
    BY <2>1, <2>2, AbsentValues, Zenon DEF KeepsMember, IsTerminalState
<1>3. CASE ~Superseded(a, b)
  BY <1>1, <1>3, Zenon DEF ObserveNew, KeepsMember
<1> QED
  BY <1>2, <1>3

(* No mutating operation forgets a member or revives a retired one.        *)
LEMMA MutateKeeps ==
  ASSUME TypeInv, NEW c, Mutate(c), NEW b \in Accelerators
  PROVE  KeepsMember(b)
<1>0. mode = "up" /\ members \in MemberMap
  BY MutateRuns DEF TypeInv, TypeOK
<1>1. ASSUME NEW a \in Accelerators, NEW caps \in Capabilities, NEW local \in BOOLEAN,
             ObserveNew(c, a, caps, local)
      PROVE  KeepsMember(b)
  BY <1>1, ObserveNewKeeps
<1>2. ASSUME NEW a \in Accelerators, NEW caps \in Capabilities, NEW local \in BOOLEAN,
             ObserveAgain(c, a, caps, local) \/ UpdateCapabilities(c, a, caps, local)
      PROVE  KeepsMember(b)
  <2>1. members[a] \in Member /\ HistoryOK(members[a]) /\ ~IsTerminalState(members[a].state)
    BY <1>0, <1>2, Zenon DEF ObserveAgain, UpdateCapabilities, Known, MemberMap, TypeInv, HistoryBounded
  <2>2. PICK m \in {UpdatedMember(members[a], caps), RefreshedMember(members[a])} :
           members' = [members EXCEPT ![a] = m]
    BY <1>2, Zenon DEF ObserveAgain, ReobservedMember, UpdateCapabilities
  <2>3. m \in Member
    BY <1>0, <2>1, <2>2, UpdatedMemberType, RefreshedMemberType DEF TypeInv
  <2> QED
    BY <2>1, <2>2, <2>3, UpdateKeeps, Zenon
<1>3. ASSUME NEW a \in Accelerators, NEW t \in MemberStates, Transition(c, a, t)
      PROVE  KeepsMember(b)
  <2> DEFINE m == TransitionedMember(members[a], t)
  <2>1. members[a] \in Member /\ a \in Known
    BY <1>0, <1>3 DEF Transition, MemberMap, Known
  <2>2. members' = [members EXCEPT ![a] = m]
    BY <1>3 DEF Transition
  <2>3. m \in Member
    BY <1>0, <2>1, TransitionedMemberType DEF TypeInv
  <2>4. ~IsTerminalState(members[a].state)
    BY <1>3 DEF Transition, LegalTransition, IsTerminalState
  <2> HIDE DEF m
  <2> QED
    BY <2>2, <2>3, <2>4, UpdateKeeps, Zenon
<1>4. ASSUME NEW p \in Policies, SetPolicy(c, p) PROVE KeepsMember(b)
  <2> DEFINE m == [members[b] EXCEPT !.policy = p]
  <2>1. CASE b \notin Known
    BY <2>1 DEF Known, KeepsMember
  <2>2. CASE b \in Known
    <3>1. members[b] \in Member
      BY <1>0, <2>2 DEF Known, MemberMap
    <3>2. m \in Member
      BY <3>1 DEF Member
    <3>3. m.state = members[b].state
      BY <3>1 DEF Member
    <3>4. members'[b] = m
      BY <1>4, <2>2 DEF SetPolicy
    <3> HIDE DEF m
    <3> QED
      BY <3>2, <3>3, <3>4, AbsentValues DEF KeepsMember
  <2> QED
    BY <2>1, <2>2
<1>5. ASSUME NEW i \in PlanIds, NEW t \in MigrationStates, AdvanceMigration(c, i, t)
      PROVE  KeepsMember(b)
  <2>1. CASE members' = members
    BY <2>1 DEF KeepsMember
  <2>2. CASE members' # members
    <3> DEFINE a == plans[i].source
    <3>1. a \in Accelerators /\ members[a] \in Member /\ HistoryOK(members[a])
      BY <1>0, <1>5
      DEF AdvanceMigration, PlanIsCurrent, Known, MemberMap, TypeInv, HistoryBounded
    <3>2. members' = [members EXCEPT ![a] = ReleasedSource(members[a])]
      BY <1>5, <2>2 DEF AdvanceMigration
    <3>3. ReleasedSource(members[a]) \in Member
      BY <3>1, ReleasedSourceType
    <3>4. IsTerminalState(members[a].state) => ReleasedSource(members[a]) = members[a]
      BY DEF IsTerminalState, ReleasedSource
    <3> HIDE DEF a
    <3> QED
      BY <3>1, <3>2, <3>3, <3>4, UpdateKeeps, Zenon
  <2> QED
    BY <2>1, <2>2
<1>6. CASE members' = members
  BY <1>6 DEF KeepsMember
<1> QED
  BY <1>1, <1>2, <1>3, <1>4, <1>5, <1>6, Zenon
  DEF Mutate, RegisterWorkload, PlanMigration, PlanOntoItself, AbortMigration, memory

(* Within one run the retired members only grow in number.                 *)
LEMMA RunningKeeps ==
  ASSUME TypeInv, [Next]_vars, mode # "down", mode' # "down"
  PROVE  RetiredIn(members) \subseteq RetiredIn(members')
<1>1. ASSUME NEW b \in Accelerators PROVE KeepsMember(b)
  <2>1. CASE \E c \in Claims : Mutate(c)
    BY <2>1, MutateKeeps
  <2>2. CASE members' = members
    BY <2>2 DEF KeepsMember
  <2> QED
    BY <2>1, <2>2, Zenon
    DEF Next, Unclaimed, Open, Crash, Shutdown, ForcePersist, InvalidateStaleDecisions,
        EvidenceAges, Evaluate, vars, memory
<1> QED
  BY <1>1 DEF RetiredIn, KeepsMember

(* Recovery restores the retired members of the snapshot as retired.       *)
LEMMA RecoveryKeeps ==
  ASSUME TypeInv, Open
  PROVE  DurablyRetired \subseteq RetiredIn(members')
<1>1. CASE OpenFresh
  BY <1>1 DEF OpenFresh, DurablyRetired
<1>2. CASE Recover
  <2>1. store \in SnapshotRecord
    BY <1>2 DEF TypeInv, TypeOK, Recover
  <2>2. epoch' \in Gens
    BY <1>2, <2>1, NextGenType DEF Recover, RecoveredEpoch, SnapshotRecord
  <2> SUFFICES ASSUME NEW a \in Accelerators, store.members[a] # NoMember,
                      IsTerminalState(store.members[a].state)
               PROVE  members'[a] # NoMember /\ IsTerminalState(members'[a].state)
    BY <1>2 DEF Recover, DurablyRetired, RetiredIn
  <2> DEFINE m == store.members[a]
  <2>3. m \in Member
    BY <2>1 DEF SnapshotRecord, MemberMap
  <2>4. RestoredMember(m, epoch').state = m.state
    BY <2>3 DEF RestoredMember, Member, IsTerminalState, IsLive
  <2>5. RestoredMember(m, epoch') \in Member
    BY <2>2, <2>3, RestoredMemberType
  <2>6. members'[a] = RestoredMember(m, epoch')
    BY <1>2 DEF Recover
  <2> QED
    BY <2>4, <2>5, <2>6, AbsentValues
<1> QED
  BY <1>1, <1>2 DEF Open

(* A running federation knows the retirements that reached the store.      *)
(* Recovery reads the store, so RetiredForever rests on this.              *)
RetirementKnown == mode # "down" => DurablyRetired \subseteq RetiredIn(members)

(* A write by a running federation leaves a snapshot with its members.     *)
LEMMA SnapshotWritten ==
  ASSUME TypeInv', mode' # "down", store' = Snapshot'
  PROVE  Snapshot' # NoSnapshot /\ store'.members = members'
<1>1. /\ epoch' \in Gens /\ generation' \in Gens /\ policy' \in Policies
      /\ members' \in MemberMap /\ workloads' \in WorkloadMap
      /\ decisions' \in SUBSET Decision /\ plans' \in PlanMap
  BY DEF TypeInv, TypeOK
<1>2. Snapshot' \in SnapshotRecord
  BY <1>1 DEF Snapshot, SnapshotRecord
<1>3. store'.members = members'
  BY DEF Snapshot
<1> QED
  BY <1>2, <1>3, AbsentValues

(* Each step keeps durable retirements known in memory and in the store.   *)
LEMMA RetirementStep ==
  ASSUME TypeInv, TypeInv', RetirementKnown, [Next]_vars
  PROVE  RetirementKnown' /\ DurablyRetired \subseteq DurablyRetired'
<1>1. CASE UNCHANGED vars
  BY <1>1, ZenonT(60) DEF vars, memory, RetirementKnown, DurablyRetired, RetiredIn
<1>2. CASE Crash
  BY <1>2 DEF Crash, RetirementKnown, DurablyRetired, RetiredIn
<1>3. CASE Open
  <2>1. DurablyRetired \subseteq RetiredIn(members')
    BY <1>3, RecoveryKeeps
  <2>2. store' \in {store, Snapshot'} /\ mode' = "up"
    BY <1>3, Zenon DEF Open
  <2>3. CASE store' = store
    BY <2>1, <2>2, <2>3, ZenonT(60) DEF RetirementKnown, DurablyRetired, RetiredIn
  <2>4. CASE store' = Snapshot'
    <3>1. Snapshot' # NoSnapshot /\ store'.members = members'
      BY <2>2, <2>4, SnapshotWritten
    <3> QED
      BY <2>1, <2>2, <2>4, <3>1 DEF RetirementKnown, DurablyRetired, RetiredIn
  <2> QED
    BY <2>2, <2>3, <2>4
<1>4. CASE Next /\ RunningStepOf
  <2>1. RetiredIn(members) \subseteq RetiredIn(members')
    BY <1>4, RunningKeeps DEF RunningStepOf
  <2>2. DurablyRetired \subseteq RetiredIn(members)
    BY <1>4 DEF RetirementKnown, RunningStepOf
  <2>3. CASE store' = store
    BY <2>1, <2>2, <2>3, ZenonT(60) DEF RetirementKnown, DurablyRetired, RetiredIn
  <2>4. CASE store' = Snapshot'
    <3>1. Snapshot' # NoSnapshot /\ store'.members = members'
      BY <1>4, <2>4, SnapshotWritten DEF RunningStepOf
    <3> QED
      BY <2>1, <2>2, <2>4, <3>1 DEF RetirementKnown, DurablyRetired, RetiredIn
  <2> QED
    BY <1>4, <2>3, <2>4 DEF RunningStepOf
<1> QED
  BY <1>1, <1>2, <1>3, <1>4, StepKinds

(* No operation, write or restart ever revives a retired incarnation, in   *)
(* every persistence mode and with failing writes.                         *)
THEOREM RetirementsLast == Spec => RetiredForever
<1>1. Init => RetirementKnown
  BY DEF Init, RetirementKnown
<1>2. TypeInv /\ TypeInv' /\ RetirementKnown /\ [Next]_vars => RetirementKnown'
  BY RetirementStep
<1>3. TypeInv /\ TypeInv' /\ RetirementKnown /\ [Next]_vars
        => [/\ DurablyRetired \subseteq DurablyRetired'
            /\ mode' # "down" => DurablyRetired \subseteq RetiredIn(members')
            /\ mode # "down" /\ mode' # "down"
                 => RetiredIn(members) \subseteq RetiredIn(members')]_vars
  <2> SUFFICES ASSUME TypeInv, TypeInv', RetirementKnown, [Next]_vars
               PROVE  /\ DurablyRetired \subseteq DurablyRetired'
                      /\ mode' # "down" => DurablyRetired \subseteq RetiredIn(members')
                      /\ mode # "down" /\ mode' # "down"
                           => RetiredIn(members) \subseteq RetiredIn(members')
    OBVIOUS
  <2>1. RetirementKnown' /\ DurablyRetired \subseteq DurablyRetired'
    BY RetirementStep
  <2>2. mode' # "down" => DurablyRetired' \subseteq RetiredIn(members')
    BY <2>1 DEF RetirementKnown, RetiredIn
  <2> QED
    BY <2>1, <2>2, RunningKeeps
<1> QED
  BY <1>1, <1>2, <1>3, TypeCorrect, PTL DEF Spec, RetiredForever

-----------------------------------------------------------------------------
(* One incarnation per device and agent.                                   *)

OneLiveIn(ms) ==
  \A a, b \in Accelerators :
    /\ ms[a] # NoMember /\ ms[b] # NoMember /\ a # b
    /\ PhysicalDevice[a] = PhysicalDevice[b] /\ Agent[a] = Agent[b]
    => IsTerminalState(ms[a].state) \/ IsTerminalState(ms[b].state)

(* Recovery reads the store, so the snapshot has to satisfy it as well.    *)
IncarnationInv ==
  OneLiveIn(members) /\ (store # NoSnapshot => OneLiveIn(store.members))

(* Only observe() makes an incarnation known.                              *)
LEMMA OnlyObserved ==
  ASSUME TypeInv, NEW c \in Claims, Mutate(c), NEW b \in Accelerators,
         members[b] = NoMember, members'[b] # NoMember
  PROVE  \E caps \in Capabilities, local \in BOOLEAN : ObserveNew(c, b, caps, local)
<1>0. members \in MemberMap
  BY DEF TypeInv, TypeOK
<1>1. ASSUME NEW a \in Known, NEW m, members' = [members EXCEPT ![a] = m] PROVE FALSE
  BY <1>0, <1>1, Zenon DEF Known, MemberMap
<1>2. ASSUME NEW a \in Accelerators, NEW caps \in Capabilities, NEW local \in BOOLEAN,
             ObserveNew(c, a, caps, local), a # b
      PROVE  FALSE
  BY <1>2, Zenon DEF ObserveNew, Superseded, Incarnations, Known
<1>3. ASSUME NEW a \in Accelerators, NEW caps \in Capabilities, NEW local \in BOOLEAN,
             ObserveAgain(c, a, caps, local) \/ UpdateCapabilities(c, a, caps, local)
      PROVE  FALSE
  <2>1. a \in Known
    BY <1>3, Zenon DEF ObserveAgain, UpdateCapabilities
  <2>2. CASE ObserveAgain(c, a, caps, local)
    <3>1. members' = [members EXCEPT ![a] = ReobservedMember(members[a], caps)]
      BY <2>2, Zenon DEF ObserveAgain
    <3> QED
      BY <1>1, <2>1, <3>1, Zenon
  <2>3. CASE UpdateCapabilities(c, a, caps, local)
    <3>1. members' = [members EXCEPT ![a] = UpdatedMember(members[a], caps)]
      BY <2>3, Zenon DEF UpdateCapabilities
    <3> QED
      BY <1>1, <2>1, <3>1, Zenon
  <2> QED
    BY <1>3, <2>2, <2>3
<1>4. ASSUME NEW a \in Accelerators, NEW t \in MemberStates, Transition(c, a, t)
      PROVE  FALSE
  <2>1. a \in Known /\ a # b
    BY <1>4 DEF Transition, Known
  <2>2. members'[b] = members[b]
    BY <1>0, <1>4, <2>1 DEF Transition, MemberMap
  <2> QED
    BY <2>2
<1>5. ASSUME NEW q \in Policies, SetPolicy(c, q) PROVE FALSE
  BY <1>5 DEF SetPolicy, Known
<1>6. ASSUME NEW i \in PlanIds, NEW t \in MigrationStates, AdvanceMigration(c, i, t)
      PROVE  FALSE
  <2>1. plans[i].source \in Known
    BY <1>6, Zenon DEF AdvanceMigration, PlanIsCurrent
  <2>2. members' = [members EXCEPT ![plans[i].source] = ReleasedSource(members[plans[i].source])]
          \/ members' = members
    BY <1>6, Zenon DEF AdvanceMigration
  <2> QED
    BY <1>1, <2>1, <2>2, Zenon
<1>7. members' # members
  OBVIOUS
<1> QED
  BY <1>2, <1>3, <1>4, <1>5, <1>6, <1>7, Zenon
  DEF Mutate, RegisterWorkload, PlanMigration, PlanOntoItself, AbortMigration, memory

(* No mutating operation gives an agent's device two unretired             *)
(* incarnations.                                                           *)
LEMMA MutateOneLive ==
  ASSUME TypeInv, OneLiveIn(members), NEW c \in Claims, Mutate(c)
  PROVE  OneLiveIn(members')
<1>1. ASSUME NEW a \in Accelerators, NEW b \in Accelerators, a # b,
             members[a] = NoMember, members'[a] # NoMember, members'[b] # NoMember,
             PhysicalDevice[a] = PhysicalDevice[b], Agent[a] = Agent[b]
      PROVE  IsTerminalState(members'[b].state)
  <2>1. PICK caps \in Capabilities, local \in BOOLEAN : ObserveNew(c, a, caps, local)
    BY <1>1, OnlyObserved, ZenonT(60)
  <2>2. members[b] # NoMember
    BY <1>1, <2>1 DEF ObserveNew, Superseded, Incarnations, Known
  <2>3. members[b] \in Member
    BY <2>2, ZenonT(60) DEF TypeInv, TypeOK, MemberMap
  <2>4. CASE IsTerminalState(members[b].state)
    BY <2>2, <2>4, MutateKeeps DEF KeepsMember
  <2>5. CASE ~IsTerminalState(members[b].state)
    <3>1. Superseded(a, b)
      BY <1>1, <2>2, <2>5, Zenon DEF Superseded, Incarnations, Known
    <3>2. members'[b] = RetiredMember(members[b])
      BY <1>1, <2>1, <3>1, ZenonT(60) DEF ObserveNew
    <3> QED
      BY <2>3, <3>2, RetiredMemberType DEF IsTerminalState
  <2> QED
    BY <2>4, <2>5
<1> SUFFICES ASSUME NEW a \in Accelerators, NEW b \in Accelerators, a # b,
                    members'[a] # NoMember, members'[b] # NoMember,
                    PhysicalDevice[a] = PhysicalDevice[b], Agent[a] = Agent[b]
             PROVE  IsTerminalState(members'[a].state) \/ IsTerminalState(members'[b].state)
  BY DEF OneLiveIn
<1>2. CASE members[a] = NoMember
  BY <1>1, <1>2
<1>3. CASE members[b] = NoMember
  BY <1>1, <1>3, ZenonT(60)
<1>4. CASE members[a] # NoMember /\ members[b] # NoMember
  <2>1. KeepsMember(a) /\ KeepsMember(b)
    BY MutateKeeps
  <2> QED
    BY <1>4, <2>1 DEF OneLiveIn, KeepsMember
<1> QED
  BY <1>2, <1>3, <1>4

(* The store holds the old snapshot or the present members.                *)
LEMMA StoredOneLive ==
  ASSUME TypeInv', IncarnationInv, OneLiveIn(members'), mode' # "down",
         store' \in {store, Snapshot'}
  PROVE  IncarnationInv'
<1>1. OneLiveIn(members)'
  BY DEF OneLiveIn
<1>2. CASE store' = store
  BY <1>1, <1>2, Zenon DEF IncarnationInv, OneLiveIn
<1>3. CASE store' = Snapshot'
  <2>1. store'.members = members'
    BY <1>3 DEF Snapshot
  <2> QED
    BY <1>1, <2>1, Zenon DEF IncarnationInv, OneLiveIn
<1> QED
  BY <1>2, <1>3

(* Nor does recovery, a crash or any other step.                           *)
LEMMA IncarnationStep ==
  ASSUME TypeInv, TypeInv', IncarnationInv, [Next]_vars
  PROVE  IncarnationInv'
<1>1. CASE UNCHANGED vars
  BY <1>1, ZenonT(60) DEF vars, memory, IncarnationInv, OneLiveIn
<1>2. CASE Crash
  BY <1>2 DEF Crash, IncarnationInv, OneLiveIn, NoMembers
<1>3. CASE Open
  <2>1. OneLiveIn(members')
    <3>1. CASE OpenFresh
      <4>1. members' = NoMembers
        BY <3>1, Zenon DEF OpenFresh
      <4> QED
        BY <4>1 DEF NoMembers, OneLiveIn
    <3>2. CASE Recover
      <4>1. DurablyRetired \subseteq RetiredIn(members')
        BY <1>3, RecoveryKeeps
      <4>2. \A a \in Accelerators : members'[a] # NoMember => store.members[a] # NoMember
        BY <3>2, Zenon DEF Recover
      <4> QED
        BY <3>2, <4>1, <4>2, Zenon DEF Recover, IncarnationInv, OneLiveIn, DurablyRetired, RetiredIn
    <3> QED
      BY <1>3, <3>1, <3>2 DEF Open
  <2>2. mode' # "down" /\ store' \in {store, Snapshot'}
    BY <1>3, Zenon DEF Open
  <2> QED
    BY <2>1, <2>2, StoredOneLive
<1>4. CASE Next /\ RunningStepOf
  <2>1. CASE \E c \in Claims : Mutate(c)
    BY <1>4, <2>1, MutateOneLive, StoredOneLive DEF IncarnationInv, RunningStepOf
  <2>2. CASE members' = members
    BY <1>4, <2>2, StoredOneLive DEF IncarnationInv, RunningStepOf
  <2> QED
    BY <1>4, <2>1, <2>2, Zenon
    DEF RunningStepOf, Next, Unclaimed, Open, Crash, Shutdown, ForcePersist,
        InvalidateStaleDecisions, EvidenceAges, Evaluate, memory
<1> QED
  BY <1>1, <1>2, <1>3, <1>4, StepKinds

(* Of the incarnations of one physical device under one agent at most one  *)
(* is not retired, in every state of every run.                            *)
THEOREM OneLiveIncarnationHolds == Spec => []OneLiveIncarnation
<1>1. Init => IncarnationInv
  BY DEF Init, IncarnationInv, OneLiveIn, NoMembers
<1>2. TypeInv /\ TypeInv' /\ IncarnationInv /\ [Next]_vars => IncarnationInv'
  BY IncarnationStep
<1>3. IncarnationInv => OneLiveIncarnation
  BY DEF IncarnationInv, OneLiveIn, OneLiveIncarnation, Known
<1> QED
  BY <1>1, <1>2, <1>3, TypeCorrect, PTL DEF Spec

-----------------------------------------------------------------------------
(* The generation.                                                         *)

(* Every mutating operation advances the generation.                       *)
LEMMA MutateAdvances ==
  ASSUME NEW c, Mutate(c)
  PROVE  generation' = NextGen(generation)
<1>1. ASSUME NEW a, NEW caps, NEW local,
             \/ ObserveNew(c, a, caps, local) \/ ObserveAgain(c, a, caps, local)
             \/ UpdateCapabilities(c, a, caps, local)
      PROVE  generation' = NextGen(generation)
  BY <1>1, Zenon DEF ObserveNew, ObserveAgain, UpdateCapabilities
<1>2. ASSUME NEW a, NEW t, Transition(c, a, t) PROVE generation' = NextGen(generation)
  BY <1>2, Zenon DEF Transition
<1>3. ASSUME NEW p, SetPolicy(c, p) PROVE generation' = NextGen(generation)
  BY <1>3, Zenon DEF SetPolicy
<1>4. ASSUME NEW w, NEW r, RegisterWorkload(c, w, r) PROVE generation' = NextGen(generation)
  BY <1>4, Zenon DEF RegisterWorkload
<1>5. ASSUME NEW w, NEW s, NEW d, PlanMigration(c, w, s, d) PROVE generation' = NextGen(generation)
  BY <1>5, Zenon DEF PlanMigration
<1>6. ASSUME NEW w, NEW s, PlanOntoItself(c, w, s) PROVE generation' = NextGen(generation)
  BY <1>6, Zenon DEF PlanOntoItself
<1>7. ASSUME NEW i, NEW t, AdvanceMigration(c, i, t) PROVE generation' = NextGen(generation)
  BY <1>7, Zenon DEF AdvanceMigration
<1>8. ASSUME NEW i, NEW r, AbortMigration(c, i, r) PROVE generation' = NextGen(generation)
  BY <1>8, Zenon DEF AbortMigration
<1> QED
  BY <1>1, <1>2, <1>3, <1>4, <1>5, <1>6, <1>7, <1>8, Zenon DEF Mutate

-----------------------------------------------------------------------------
(* What a mutating operation makes of a member it finds.                   *)

(* n is a member that some operation makes of m.                           *)
Becomes(m, n) ==
  \/ n \in {m, RetiredMember(m), ReleasedSource(m), RefreshedMember(m)}
  \/ \E caps \in Capabilities : n = UpdatedMember(m, caps)
  \/ \E t \in MemberStates : n = TransitionedMember(m, t)
  \/ \E p \in Policies : n = [m EXCEPT !.policy = p]

(* An update of one member changes no other.                               *)
LEMMA UpdateBecomes ==
  ASSUME TypeInv, NEW a \in Accelerators, NEW m, Becomes(members[a], m),
         members' = [members EXCEPT ![a] = m], NEW b \in Accelerators
  PROVE  Becomes(members[b], members'[b])
<1>1. members'[b] = IF b = a THEN m ELSE members[b]
  BY Zenon DEF TypeInv, TypeOK, MemberMap
<1>2. Becomes(members[b], members[b])
  BY DEF Becomes
<1> QED
  BY <1>1, <1>2, Zenon

(* Each operation leaves a member alone or does one of these to it.        *)
LEMMA MutateBecomes ==
  ASSUME TypeInv, NEW c, Mutate(c), NEW b \in Known
  PROVE  Becomes(members[b], members'[b])
<1>0. b \in Accelerators
  BY DEF Known
<1>1. ASSUME NEW a \in Accelerators, NEW caps \in Capabilities, NEW local \in BOOLEAN,
             ObserveNew(c, a, caps, local)
      PROVE  Becomes(members[b], members'[b])
  <2>1. b # a /\ members' = [k \in Accelerators |->
                   IF k = a THEN NewMember(caps)
                   ELSE IF Superseded(a, k)
                   THEN RetiredMember(members[k]) ELSE members[k]]
    BY <1>1, Zenon DEF ObserveNew
  <2>2. members'[b] \in {members[b], RetiredMember(members[b])}
    BY <1>0, <2>1
  <2> QED
    BY <2>2 DEF Becomes
<1>2. ASSUME NEW a \in Accelerators, NEW caps \in Capabilities, NEW local \in BOOLEAN,
             ObserveAgain(c, a, caps, local) \/ UpdateCapabilities(c, a, caps, local)
      PROVE  Becomes(members[b], members'[b])
  <2>1. PICK m \in {UpdatedMember(members[a], caps), RefreshedMember(members[a])} :
           members' = [members EXCEPT ![a] = m]
    BY <1>2, Zenon DEF ObserveAgain, ReobservedMember, UpdateCapabilities
  <2>2. Becomes(members[a], m)
    BY <2>1, Zenon DEF Becomes
  <2> QED
    BY <1>0, <2>1, <2>2, UpdateBecomes, Zenon
<1>3. ASSUME NEW a \in Accelerators, NEW t \in MemberStates, Transition(c, a, t)
      PROVE  Becomes(members[b], members'[b])
  <2>1. members' = [members EXCEPT ![a] = TransitionedMember(members[a], t)]
    BY <1>3, Zenon DEF Transition
  <2>2. Becomes(members[a], TransitionedMember(members[a], t))
    BY Zenon DEF Becomes
  <2> QED
    BY <1>0, <2>1, <2>2, UpdateBecomes, Zenon
<1>4. ASSUME NEW p \in Policies, SetPolicy(c, p)
      PROVE  Becomes(members[b], members'[b])
  <2>1. members'[b] = [members[b] EXCEPT !.policy = p]
    BY <1>0, <1>4, Zenon DEF SetPolicy
  <2> QED
    BY <2>1, Zenon DEF Becomes
<1>5. ASSUME NEW i \in PlanIds, NEW t \in MigrationStates, AdvanceMigration(c, i, t)
      PROVE  Becomes(members[b], members'[b])
  <2> DEFINE a == plans[i].source
  <2>1. a \in Accelerators
    BY <1>5, Zenon DEF AdvanceMigration, PlanIsCurrent, Known
  <2>2. CASE members' = members
    BY <2>2, Zenon DEF Becomes
  <2>3. CASE members' = [members EXCEPT ![a] = ReleasedSource(members[a])]
    <3>1. Becomes(members[a], ReleasedSource(members[a]))
      BY Zenon DEF Becomes
    <3> HIDE DEF a
    <3> QED
      BY <1>0, <2>1, <2>3, <3>1, UpdateBecomes, Zenon
  <2> QED
    BY <1>5, <2>2, <2>3, Zenon DEF AdvanceMigration
<1>6. CASE members' = members
  BY <1>6, Zenon DEF Becomes
<1> QED
  BY <1>1, <1>2, <1>3, <1>4, <1>5, <1>6, Zenon
  DEF Mutate, RegisterWorkload, PlanMigration, PlanOntoItself, AbortMigration, memory

-----------------------------------------------------------------------------
(* Changes of authority.                                                   *)

(* A step of a running federation that mutates nothing.                    *)
QuietStep ==
  UNCHANGED <<epoch, generation, policy, members, workloads, plans>>

(* Evaluations, invalidations, persist(), shutdown() and time mutate       *)
(* nothing.                                                                *)
LEMMA QuietOrMutate ==
  ASSUME [Next]_vars
  PROVE  Open \/ Crash \/ QuietStep \/ \E c \in Claims : Mutate(c)
BY Zenon
DEF Next, Unclaimed, QuietStep, Shutdown, ForcePersist, InvalidateStaleDecisions,
    EvidenceAges, Evaluate, vars, memory

(* While a federation runs, a change of members, policy, workloads or      *)
(* plans advances the generation by one and keeps the epoch, so two        *)
(* authoritative states of a run never share a generation.                 *)
THEOREM GenerationsAdvance == Spec => AuthorityAdvances
<1>1. TypeInv /\ [Next]_vars
        => [mode # "down" /\ mode' # "down" /\ generation # MaxValue
              /\ <<policy, members, workloads, plans>>' # <<policy, members, workloads, plans>>
            => generation' = generation + 1 /\ epoch' = epoch]_vars
  <2> SUFFICES ASSUME TypeInv, [Next]_vars, mode # "down", mode' # "down", generation # MaxValue,
                      <<policy, members, workloads, plans>>' # <<policy, members, workloads, plans>>
               PROVE  generation' = generation + 1 /\ epoch' = epoch
    BY Zenon
  <2>1. ~QuietStep
    BY Zenon DEF QuietStep
  <2>2. PICK c \in Claims : Mutate(c)
    BY <2>1, QuietOrMutate, Zenon DEF Open, Crash
  <2>3. generation \in Gens
    BY DEF TypeInv, TypeOK
  <2>4. generation' = NextGen(generation) /\ epoch' = epoch
    BY <2>2, MutateAdvances, MutateRuns, Zenon DEF RunningStepOf
  <2> QED
    BY <2>3, <2>4, NextGenType
<1> QED
  BY <1>1, TypeCorrect, PTL DEF Spec, AuthorityAdvances

-----------------------------------------------------------------------------
(* Stamps of members.                                                      *)

Stamped(m, e, p) == m.epoch = e /\ m.policy = p

AllStamped(ms, e, p) ==
  \A a \in Accelerators : ms[a] # NoMember => Stamped(ms[a], e, p)

(* Recovery takes members and policy from the store, so there the policies *)
(* have to agree as well; the epoch is stamped anew.                       *)
StampInv ==
  /\ mode # "down" => AllStamped(members, epoch, policy)
  /\ store # NoSnapshot =>
       \A a \in Accelerators : store.members[a] # NoMember => store.members[a].policy = store.policy

(* Replacing one member by a stamped one leaves all stamped.               *)
LEMMA UpdateStamps ==
  ASSUME TypeInv, AllStamped(members, epoch, policy), NEW a \in Accelerators, NEW m,
         members' = [members EXCEPT ![a] = m], Stamped(m, epoch, policy),
         epoch' = epoch, policy' = policy
  PROVE  AllStamped(members', epoch', policy')
<1>1. members \in MemberMap
  BY DEF TypeInv, TypeOK
<1>2. ASSUME NEW b \in Accelerators PROVE members'[b] = IF b = a THEN m ELSE members[b]
  BY <1>1 DEF MemberMap
<1> QED
  BY <1>2, Zenon DEF AllStamped

(* observe() stamps the new member and leaves the stamps of the others.    *)
LEMMA ObserveNewStamps ==
  ASSUME TypeInv, AllStamped(members, epoch, policy), NEW c, NEW a \in Accelerators,
         NEW caps \in Capabilities, NEW local, ObserveNew(c, a, caps, local)
  PROVE  AllStamped(members', epoch', policy')
<1>1. epoch' = epoch /\ policy' = policy /\ members \in MemberMap
  BY ZenonT(60) DEF ObserveNew, TypeInv, TypeOK
<1>2. Stamped(NewMember(caps), epoch, policy)
  BY DEF Stamped, NewMember
<1>3. ASSUME NEW b \in Accelerators, members'[b] # NoMember
      PROVE  Stamped(members'[b], epoch, policy)
  <2>1. members'[b] = IF b = a THEN NewMember(caps)
                      ELSE IF Superseded(a, b) THEN RetiredMember(members[b]) ELSE members[b]
    BY Zenon DEF ObserveNew
  <2>2. CASE b = a
    BY <1>2, <2>1, <2>2, Zenon
  <2>3. CASE b # a /\ Superseded(a, b)
    <3>1. members[b] # NoMember /\ members[b] \in Member
      BY <1>1, <2>3 DEF Superseded, Incarnations, Known, MemberMap
    <3>2. Stamped(members[b], epoch, policy)
      BY <3>1, Zenon DEF AllStamped
    <3>3. /\ RetiredMember(members[b]).epoch = members[b].epoch
          /\ RetiredMember(members[b]).policy = members[b].policy
      BY <3>1 DEF RetiredMember, Member
    <3> QED
      BY <2>1, <2>3, <3>2, <3>3, ZenonT(60) DEF Stamped
  <2>4. CASE b # a /\ ~Superseded(a, b)
    BY <1>3, <2>1, <2>4, Zenon DEF AllStamped
  <2> QED
    BY <2>2, <2>3, <2>4
<1> QED
  BY <1>1, <1>3, Zenon DEF AllStamped

(* The members the other operations make are stamped.                      *)
LEMMA StampedMembers ==
  ASSUME NEW m \in Member, NEW caps, NEW t
  PROVE  /\ Stamped(UpdatedMember(m, caps), epoch, policy)
         /\ Stamped(RefreshedMember(m), epoch, policy)
         /\ Stamped(TransitionedMember(m, t), epoch, policy)
         /\ Stamped(m, epoch, policy) => Stamped(ReleasedSource(m), epoch, policy)
<1>1. Stamped(UpdatedMember(m, caps), epoch, policy)
  BY DEF Stamped, UpdatedMember, Member
<1>2. Stamped(RefreshedMember(m), epoch, policy)
  BY DEF Stamped, RefreshedMember, Member
<1>3. Stamped(TransitionedMember(m, t), epoch, policy)
  BY DEF Stamped, TransitionedMember, Member
<1>4. Stamped(m, epoch, policy) => Stamped(ReleasedSource(m), epoch, policy)
  BY DEF Stamped, ReleasedSource, Member
<1> QED
  BY <1>1, <1>2, <1>3, <1>4

(* No mutating operation leaves a member behind.                           *)
LEMMA MutateStamps ==
  ASSUME TypeInv, AllStamped(members, epoch, policy), NEW c \in Claims, Mutate(c)
  PROVE  AllStamped(members', epoch', policy')
<1>0. members \in MemberMap /\ epoch' = epoch
  BY MutateRuns, Zenon DEF TypeInv, TypeOK, RunningStepOf
<1>1. ASSUME NEW a \in Accelerators, NEW caps \in Capabilities, NEW local \in BOOLEAN,
             ObserveNew(c, a, caps, local)
      PROVE  AllStamped(members', epoch', policy')
  BY <1>1, ObserveNewStamps
<1>2. ASSUME NEW a \in Accelerators, NEW caps \in Capabilities, NEW local \in BOOLEAN,
             ObserveAgain(c, a, caps, local) \/ UpdateCapabilities(c, a, caps, local)
      PROVE  AllStamped(members', epoch', policy')
  <2>1. a \in Known /\ policy' = policy
    BY <1>2, Zenon DEF ObserveAgain, UpdateCapabilities
  <2>2. members[a] \in Member
    BY <1>0, <2>1 DEF Known, MemberMap
  <2>3. PICK m \in {UpdatedMember(members[a], caps), RefreshedMember(members[a])} :
           members' = [members EXCEPT ![a] = m]
    BY <1>2, Zenon DEF ObserveAgain, ReobservedMember, UpdateCapabilities
  <2>4. Stamped(m, epoch, policy)
    BY <2>2, <2>3, StampedMembers, Zenon
  <2> QED
    BY <1>0, <2>1, <2>3, <2>4, UpdateStamps, Zenon
<1>3. ASSUME NEW a \in Accelerators, NEW t \in MemberStates, Transition(c, a, t)
      PROVE  AllStamped(members', epoch', policy')
  <2>1. /\ a \in Known /\ policy' = policy
        /\ members' = [members EXCEPT ![a] = TransitionedMember(members[a], t)]
    BY <1>3, Zenon DEF Transition
  <2>2. members[a] \in Member
    BY <1>0, <2>1 DEF Known, MemberMap
  <2>3. Stamped(TransitionedMember(members[a], t), epoch, policy)
    BY <2>2, StampedMembers, Zenon
  <2> QED
    BY <1>0, <2>1, <2>3, UpdateStamps, Zenon
<1>4. ASSUME NEW p \in Policies, SetPolicy(c, p)
      PROVE  AllStamped(members', epoch', policy')
  <2>1. policy' = p
    BY <1>4, Zenon DEF SetPolicy
  <2>2. ASSUME NEW b \in Accelerators, members'[b] # NoMember PROVE Stamped(members'[b], epoch, p)
    <3>1. b \in Known /\ members'[b] = [members[b] EXCEPT !.policy = p]
      BY <1>4, <2>2, Zenon DEF SetPolicy
    <3>2. members[b] \in Member /\ Stamped(members[b], epoch, policy)
      BY <1>0, <3>1 DEF Known, MemberMap, AllStamped
    <3> QED
      BY <3>1, <3>2 DEF Stamped, Member
  <2> QED
    BY <1>0, <2>1, <2>2, Zenon DEF AllStamped
<1>5. ASSUME NEW i \in PlanIds, NEW t \in MigrationStates, AdvanceMigration(c, i, t)
      PROVE  AllStamped(members', epoch', policy')
  <2> DEFINE a == plans[i].source
  <2>1. a \in Known /\ policy' = policy
    BY <1>5, Zenon DEF AdvanceMigration, PlanIsCurrent
  <2>2. members[a] \in Member /\ Stamped(members[a], epoch, policy)
    BY <1>0, <2>1 DEF Known, MemberMap, AllStamped
  <2>3. CASE members' = members
    BY <1>0, <2>1, <2>3, Zenon
  <2>4. CASE members' = [members EXCEPT ![a] = ReleasedSource(members[a])]
    <3>1. Stamped(ReleasedSource(members[a]), epoch, policy) /\ a \in Accelerators
      BY <2>1, <2>2, StampedMembers DEF Known
    <3> HIDE DEF a
    <3> QED
      BY <1>0, <2>1, <2>4, <3>1, UpdateStamps, ZenonT(60)
  <2> QED
    BY <1>5, <2>3, <2>4, Zenon DEF AdvanceMigration
<1>6. CASE members' = members /\ policy' = policy
  BY <1>0, <1>6, Zenon
<1> QED
  BY <1>1, <1>2, <1>3, <1>4, <1>5, <1>6, Zenon
  DEF Mutate, RegisterWorkload, PlanMigration, PlanOntoItself, AbortMigration, memory

(* The store holds the old snapshot or the present, stamped members.       *)
LEMMA StoredStamps ==
  ASSUME StampInv, AllStamped(members', epoch', policy'), mode' # "down",
         store' \in {store, Snapshot'}
  PROVE  StampInv'
<1>1. CASE store' = store
  BY <1>1, Zenon DEF StampInv, AllStamped
<1>2. CASE store' = Snapshot'
  <2>1. store'.members = members' /\ store'.policy = policy'
    BY <1>2 DEF Snapshot
  <2> QED
    BY <2>1, Zenon DEF StampInv, AllStamped, Stamped
<1> QED
  BY <1>1, <1>2

(* Recovery stamps the members of the snapshot with the new epoch.         *)
LEMMA OpenStamps ==
  ASSUME TypeInv, StampInv, Open
  PROVE  AllStamped(members', epoch', policy')
<1>1. CASE OpenFresh
  <2>1. members' = NoMembers
    BY <1>1, Zenon DEF OpenFresh
  <2> QED
    BY <2>1 DEF NoMembers, AllStamped
<1>2. CASE Recover
  <2>1. store # NoSnapshot /\ store \in SnapshotRecord /\ policy' = store.policy
    BY <1>2 DEF Recover, TypeInv, TypeOK
  <2> SUFFICES ASSUME NEW a \in Accelerators, members'[a] # NoMember
               PROVE  Stamped(members'[a], epoch', policy')
    BY Zenon DEF AllStamped
  <2>2. store.members[a] # NoMember /\ members'[a] = RestoredMember(store.members[a], epoch')
    BY <1>2, ZenonT(60) DEF Recover
  <2>3. store.members[a] \in Member /\ store.members[a].policy = store.policy
    BY <2>1, <2>2 DEF SnapshotRecord, MemberMap, StampInv
  <2> QED
    BY <2>1, <2>2, <2>3 DEF RestoredMember, Stamped, Member
<1> QED
  BY <1>1, <1>2 DEF Open

(* Stamps survive every step.                                              *)
LEMMA StampStep ==
  ASSUME TypeInv, StampInv, [Next]_vars
  PROVE  StampInv'
<1>1. CASE UNCHANGED vars
  BY <1>1, Zenon DEF vars, memory, StampInv, AllStamped
<1>2. CASE Crash
  BY <1>2, Zenon DEF Crash, StampInv
<1>3. CASE Open
  <2>1. AllStamped(members', epoch', policy')
    BY <1>3, OpenStamps
  <2>2. mode' # "down" /\ store' \in {store, Snapshot'}
    BY <1>3, Zenon DEF Open
  <2> QED
    BY <2>1, <2>2, StoredStamps
<1>4. CASE Next /\ RunningStepOf /\ QuietStep
  <2>1. AllStamped(members', epoch', policy')
    BY <1>4, Zenon DEF RunningStepOf, QuietStep, StampInv
  <2> QED
    BY <1>4, <2>1, StoredStamps DEF RunningStepOf
<1>5. CASE RunningStepOf /\ \E c \in Claims : Mutate(c)
  <2>1. AllStamped(members, epoch, policy)
    BY <1>5 DEF RunningStepOf, StampInv
  <2>2. AllStamped(members', epoch', policy')
    BY <1>5, <2>1, MutateStamps
  <2> QED
    BY <1>5, <2>2, StoredStamps DEF RunningStepOf
<1> QED
  BY <1>1, <1>2, <1>3, <1>4, <1>5, StepKinds, QuietOrMutate, Zenon

(* Every member of a running federation carries the epoch and the policy   *)
(* in force, whatever operations, failed writes and recoveries led there.  *)
THEOREM MembersAreStamped == Spec => []MembersFollowAuthority
<1>1. Init => StampInv
  BY DEF Init, StampInv
<1>2. TypeInv /\ StampInv /\ [Next]_vars => StampInv'
  BY StampStep
<1>3. StampInv => MembersFollowAuthority
  BY DEF StampInv, AllStamped, Stamped, MembersFollowAuthority, Known
<1> QED
  BY <1>1, <1>2, <1>3, TypeCorrect, PTL DEF Spec

-----------------------------------------------------------------------------
(* Decisions.                                                              *)

(* A decision taken on the present state.                                  *)
TakenNow(d) ==
  \E w \in Registered, a \in Known, s \in Known \cup {NoSource} : d = Evaluation(w, a, s)

(* A recorded decision was recorded before or is taken by this step, and   *)
(* none outlives its policy.                                               *)
LEMMA DecisionSources ==
  ASSUME [Next]_vars, ~Open, ~Crash, NEW d \in decisions'
  PROVE  (d \in decisions \/ TakenNow(d)) /\ policy' = policy
<1>1. ASSUME NEW c \in Claims, Mutate(c)
      PROVE  (d \in decisions \/ TakenNow(d)) /\ policy' = policy
  <2>1. ASSUME NEW a, NEW caps, NEW local,
               \/ ObserveNew(c, a, caps, local) \/ ObserveAgain(c, a, caps, local)
               \/ UpdateCapabilities(c, a, caps, local)
        PROVE  decisions' = decisions /\ policy' = policy
    BY <2>1, Zenon DEF ObserveNew, ObserveAgain, UpdateCapabilities
  <2>2. ASSUME NEW a, NEW t, Transition(c, a, t) PROVE decisions' = decisions /\ policy' = policy
    BY <2>2, Zenon DEF Transition
  <2>3. ASSUME NEW p, SetPolicy(c, p) PROVE FALSE
    BY <2>3, Zenon DEF SetPolicy
  <2>4. ASSUME NEW w, NEW r, RegisterWorkload(c, w, r)
        PROVE  decisions' = decisions /\ policy' = policy
    BY <2>4, Zenon DEF RegisterWorkload
  <2>5. ASSUME NEW w \in Workloads, NEW s \in Accelerators, NEW e \in Accelerators,
               PlanMigration(c, w, s, e)
        PROVE  (d \in decisions \/ TakenNow(d)) /\ policy' = policy
    <3>1. /\ w \in Registered /\ s \in Known /\ e \in Known /\ policy' = policy
          /\ decisions' \in Retained(decisions \cup {Evaluation(w, s, e), Evaluation(w, e, s)})
      BY <2>5, Zenon DEF PlanMigration
    <3>2. d \in decisions \/ d = Evaluation(w, s, e) \/ d = Evaluation(w, e, s)
      BY <3>1, RetainedSubset, Zenon
    <3> QED
      BY <3>1, <3>2, Zenon DEF TakenNow
  <2>6. ASSUME NEW w, NEW s, PlanOntoItself(c, w, s)
        PROVE  decisions' = decisions /\ policy' = policy
    BY <2>6, Zenon DEF PlanOntoItself, memory
  <2>7. ASSUME NEW i, NEW t, AdvanceMigration(c, i, t)
        PROVE  decisions' = decisions /\ policy' = policy
    BY <2>7, Zenon DEF AdvanceMigration
  <2>8. ASSUME NEW i, NEW r, AbortMigration(c, i, r) PROVE decisions' = decisions /\ policy' = policy
    BY <2>8, Zenon DEF AbortMigration
  <2> QED
    BY <1>1, <2>1, <2>2, <2>3, <2>4, <2>5, <2>6, <2>7, <2>8, Zenon DEF Mutate
<1>2. CASE Shutdown \/ ForcePersist \/ UNCHANGED vars \/ \E a \in Accelerators : EvidenceAges(a)
  BY <1>2, Zenon DEF Shutdown, ForcePersist, EvidenceAges, vars, memory
<1>3. CASE InvalidateStaleDecisions
  BY <1>3, Zenon DEF InvalidateStaleDecisions
<1>4. ASSUME NEW w \in Workloads, NEW a \in Accelerators, NEW s \in Accelerators \cup {NoSource},
             Evaluate(w, a, s)
      PROVE  (d \in decisions \/ TakenNow(d)) /\ policy' = policy
  <2>1. /\ w \in Registered /\ a \in Known /\ s \in Known \cup {NoSource} /\ policy' = policy
        /\ decisions' \in Retained(decisions \cup {Evaluation(w, a, s)})
    BY <1>4, Zenon DEF Evaluate
  <2>2. d \in decisions \/ d = Evaluation(w, a, s)
    BY <2>1, RetainedSubset, Zenon
  <2> QED
    BY <2>1, <2>2, Zenon DEF TakenNow
<1> QED
  BY <1>1, <1>2, <1>3, <1>4, Zenon DEF Next, Unclaimed

(* The fields of a decision taken now.                                     *)
LEMMA TakenNowFields ==
  ASSUME NEW d, TakenNow(d)
  PROVE  /\ d.epoch = epoch /\ d.policy = policy /\ d.generation = generation
         /\ d.accelerator \in Known /\ d.workload \in Registered
         /\ d.source \in Known \cup {NoSource}
         /\ d.outcome = OutcomeWith(d.workload, d.accelerator, d.source, EvidenceFresh(d.accelerator))
<1>1. PICK w \in Registered, a \in Known, s \in Known \cup {NoSource} : d = Evaluation(w, a, s)
  BY Zenon DEF TakenNow
<1>2. d.accelerator = a /\ d.source = s /\ d.workload = w
  BY <1>1, Zenon DEF Evaluation
<1>3. d.epoch = epoch /\ d.policy = policy /\ d.generation = generation
  BY <1>1, ZenonT(60) DEF Evaluation
<1>4. d.outcome = OutcomeWith(w, a, s, EvidenceFresh(a))
  BY <1>1 DEF Evaluation
<1> QED
  BY <1>1, <1>2, <1>3, <1>4, Zenon

(* The generation never falls while the federation runs.                   *)
LEMMA GenerationKept ==
  ASSUME TypeInv, RunningStepOf, [Next]_vars
  PROVE  /\ generation \in Gens /\ generation' \in Gens /\ generation <= generation'
         /\ generation' = generation \/ generation' = NextGen(generation)
<1>1. generation \in Gens
  BY DEF TypeInv, TypeOK, RunningStepOf
<1>2. generation' = generation \/ generation' = NextGen(generation)
  BY QuietOrMutate, MutateAdvances, Zenon DEF QuietStep, RunningStepOf, Open, Crash
<1> QED
  BY <1>1, <1>2, NextGenType, BoundsAssumption DEF Gens

(* The part of NoWorkFromOldAuthority about decisions.                     *)
DecisionsStamped ==
  \A d \in decisions : d.epoch = epoch /\ d.policy = policy /\ d.generation <= generation

(* Decisions keep the stamps in force: open() drops them all, set_policy() *)
(* too, and what evaluate() and plan_migration() add is stamped.           *)
LEMMA DecisionsStampedStep ==
  ASSUME TypeInv, DecisionsStamped, [Next]_vars
  PROVE  DecisionsStamped'
<1>1. CASE Open \/ Crash
  <2>1. decisions' = {}
    BY <1>1, Zenon DEF Open, Crash
  <2> QED
    BY <2>1, Zenon DEF DecisionsStamped
<1>2. CASE UNCHANGED vars
  BY <1>2, Zenon DEF vars, memory, DecisionsStamped
<1>3. CASE ~Open /\ ~Crash /\ RunningStepOf
  <2> SUFFICES ASSUME NEW d \in decisions'
               PROVE  d.epoch = epoch' /\ d.policy = policy' /\ d.generation <= generation'
    BY Zenon DEF DecisionsStamped
  <2>1. (d \in decisions \/ TakenNow(d)) /\ policy' = policy /\ epoch' = epoch
    BY <1>3, DecisionSources, Zenon DEF RunningStepOf
  <2>2. generation \in Gens /\ generation' \in Gens /\ generation <= generation'
    BY <1>3, GenerationKept
  <2>3. CASE d \in decisions
    <3>1. d.epoch = epoch /\ d.policy = policy /\ d.generation <= generation
      BY <2>3, Zenon DEF DecisionsStamped
    <3>2. d.generation \in Gens
      BY <2>3 DEF TypeInv, TypeOK, Decision
    <3> QED
      BY <2>1, <2>2, <3>1, <3>2, BoundsAssumption DEF Gens
  <2>4. CASE TakenNow(d)
    <3>1. d.epoch = epoch /\ d.policy = policy /\ d.generation = generation
      BY <2>4, TakenNowFields, Zenon
    <3> QED
      BY <2>1, <2>2, <3>1
  <2> QED
    BY <2>1, <2>3, <2>4
<1> QED
  BY <1>1, <1>2, <1>3, StepKinds, Zenon

-----------------------------------------------------------------------------
(* Reproducible decisions.                                                 *)

(* The outcome is the one that evaluating again would give, but for        *)
(* evidence that aged meanwhile.                                           *)
Reproduced(d) ==
  \E fresh \in {EvidenceFresh(d.accelerator), ~members[d.accelerator].revalidate} :
    d.outcome = OutcomeWith(d.workload, d.accelerator, d.source, fresh)

(* A decision of the present generation is reproduced: nothing it rests on *)
(* changes without the generation moving on.                               *)
ReproducedInv ==
  \A d \in decisions : d.generation = generation /\ generation < MaxValue => Reproduced(d)

(* Evidence only ages while the generation stands still.                   *)
LEMMA QuietAging ==
  ASSUME [Next]_vars, QuietStep, RunningStepOf, generation # NextGen(generation)
  PROVE  aged \subseteq aged'
<1>1. ~\E c \in Claims : Mutate(c)
  BY MutateAdvances, Zenon DEF QuietStep
<1>2. CASE UNCHANGED vars
  BY <1>2, Zenon DEF vars
<1>3. CASE Unclaimed
  BY <1>3, Zenon
  DEF Unclaimed, RunningStepOf, Open, Crash, Shutdown, ForcePersist, InvalidateStaleDecisions,
      EvidenceAges, Evaluate
<1> QED
  BY <1>1, <1>2, <1>3, Zenon DEF Next

(* A reproduced decision stays so in a step that mutates nothing.          *)
LEMMA ReproducedKept ==
  ASSUME QuietStep, aged \subseteq aged', NEW d, Reproduced(d)
  PROVE  Reproduced(d)'
<1> DEFINE a == d.accelerator
<1>1. members' = members /\ policy' = policy /\ workloads' = workloads
  BY Zenon DEF QuietStep
<1>2. PICK fresh \in {EvidenceFresh(a), ~members[a].revalidate} :
         d.outcome = OutcomeWith(d.workload, a, d.source, fresh)
  BY Zenon DEF Reproduced
<1>3. d.outcome = OutcomeWith(d.workload, a, d.source, fresh)'
  BY <1>1, <1>2, Zenon DEF OutcomeWith, Known
<1>4. fresh = EvidenceFresh(a)' \/ fresh = (~members[a].revalidate)'
  <2>1. CASE fresh = ~members[a].revalidate
    BY <1>1, <2>1, Zenon
  <2>2. CASE fresh = EvidenceFresh(a)
    <3>1. CASE EvidenceFresh(a) /\ EvidenceFresh(a)'
      BY <2>2, <3>1, Zenon
    <3>2. CASE ~EvidenceFresh(a) /\ ~EvidenceFresh(a)'
      BY <2>2, <3>2, Zenon DEF EvidenceFresh
    <3>3. CASE EvidenceFresh(a) /\ ~EvidenceFresh(a)'
      <4>1. ~members[a].revalidate
        BY <3>3, Zenon DEF EvidenceFresh
      <4> QED
        BY <1>1, <2>2, <3>3, <4>1, Zenon
    <3>4. CASE ~EvidenceFresh(a) /\ EvidenceFresh(a)'
      BY <1>1, <3>4, Zenon DEF EvidenceFresh
    <3> QED
      BY <3>1, <3>2, <3>3, <3>4, Zenon
  <2> QED
    BY <1>2, <2>1, <2>2, Zenon
<1> QED
  BY <1>3, <1>4, Zenon DEF Reproduced

(* Reproducibility survives every step.                                    *)
LEMMA ReproducedStep ==
  ASSUME TypeInv, DecisionsStamped, ReproducedInv, [Next]_vars
  PROVE  ReproducedInv'
<1>1. CASE Open \/ Crash
  <2>1. decisions' = {}
    BY <1>1, Zenon DEF Open, Crash
  <2> QED
    BY <2>1, Zenon DEF ReproducedInv
<1>2. CASE UNCHANGED vars
  <2>1. QuietStep /\ aged \subseteq aged' /\ decisions' = decisions /\ generation' = generation
    BY <1>2, Zenon DEF vars, memory, QuietStep
  <2> SUFFICES ASSUME NEW d \in decisions', d.generation = generation', generation' < MaxValue
               PROVE  Reproduced(d)'
    BY Zenon DEF ReproducedInv
  <2>2. Reproduced(d)
    BY <2>1, Zenon DEF ReproducedInv
  <2> QED
    BY <2>1, <2>2, ReproducedKept, Zenon
<1>3. CASE ~Open /\ ~Crash /\ RunningStepOf
  <2> SUFFICES ASSUME NEW d \in decisions', d.generation = generation', generation' < MaxValue
               PROVE  Reproduced(d)'
    BY Zenon DEF ReproducedInv
  <2>1. d \in decisions \/ TakenNow(d)
    BY <1>3, DecisionSources, Zenon
  <2>2. /\ generation \in Gens /\ generation' \in Gens /\ generation <= generation'
        /\ generation' = generation \/ generation' = NextGen(generation)
    BY <1>3, GenerationKept
  <2>3. d.generation <= generation
    <3>1. CASE d \in decisions
      BY <3>1, ZenonT(60) DEF DecisionsStamped
    <3>2. CASE TakenNow(d)
      BY <2>2, <3>2, TakenNowFields, BoundsAssumption DEF Gens
    <3> QED
      BY <2>1, <3>1, <3>2
  <2>4. generation' = generation /\ generation < MaxValue /\ generation # NextGen(generation)
    BY <2>2, <2>3, BoundsAssumption DEF Gens, NextGen
  <2>5. QuietStep
    BY <1>3, <2>4, QuietOrMutate, MutateAdvances, Zenon
  <2>6. aged \subseteq aged'
    BY <1>3, <2>4, <2>5, QuietAging, Zenon
  <2>7. Reproduced(d)
    <3>1. CASE d \in decisions
      BY <2>4, <3>1, Zenon DEF ReproducedInv
    <3>2. CASE TakenNow(d)
      BY <3>2, TakenNowFields, Zenon DEF Reproduced
    <3> QED
      BY <2>1, <3>1, <3>2
  <2> QED
    BY <2>5, <2>6, <2>7, ReproducedKept
<1> QED
  BY <1>1, <1>2, <1>3, StepKinds, Zenon

(* A decision that decision_is_current() accepts is the one evaluating     *)
(* again would give, but for evidence that aged since it was taken.        *)
THEOREM CurrentDecisionsReproduce == Spec => []DecisionsReproducible
<1>1. Init => DecisionsStamped /\ ReproducedInv
  BY DEF Init, DecisionsStamped, ReproducedInv
<1>2. TypeInv /\ DecisionsStamped /\ ReproducedInv /\ [Next]_vars
        => DecisionsStamped' /\ ReproducedInv'
  BY DecisionsStampedStep, ReproducedStep
<1>3. ReproducedInv => DecisionsReproducible
  BY Zenon DEF ReproducedInv, Reproduced, DecisionsReproducible, DecisionIsCurrent, StaleDecision
<1> QED
  BY <1>1, <1>2, <1>3, TypeCorrect, PTL DEF Spec

-----------------------------------------------------------------------------
(* Plans.                                                                  *)

(* A step of a running federation does to a plan one of four things: it    *)
(* keeps it, records a new one in its place, moves it along its lifecycle  *)
(* or aborts it.                                                           *)
KeptPlan(i) == plans'[i] = plans[i]

ReplacedPlan(i) ==
  \E w \in Registered, s \in Known, d \in Known :
    /\ s # d /\ IdentifiesPlan(i, NewPlan(w, s, d)) /\ plans'[i] = NewPlan(w, s, d)
    /\ generation' = NextGen(generation) /\ policy' = policy

(* p in another state, with the reasons given for it.                      *)
InState(p, t, r) == [p EXCEPT !.state = t, !.reasons = r]

MovedPlan(i) ==
  /\ InFlight(plans[i]) /\ policy' = policy
  /\ \E t \in MigrationStates, r \in Reasons : plans'[i] = InState(plans[i], t, r)

(* Only plans in flight are moved or aborted; a change of policy aborts    *)
(* all of them.                                                            *)
LEMMA PlanSteps ==
  ASSUME TypeInv, [Next]_vars, ~Open, ~Crash, NEW i \in PlanIds
  PROVE  \/ KeptPlan(i) /\ policy' = policy
         \/ ReplacedPlan(i) \/ MovedPlan(i)
         \/ plans'[i] = AbortInFlight(plans[i])
<1>0. plans \in PlanMap
  BY DEF TypeInv, TypeOK
<1> DEFINE Kept == plans' = plans /\ policy' = policy
<1>1. ASSUME NEW c, NEW a, NEW caps, NEW local,
             \/ ObserveNew(c, a, caps, local) \/ ObserveAgain(c, a, caps, local)
             \/ UpdateCapabilities(c, a, caps, local)
      PROVE  Kept
  BY <1>1, Zenon DEF ObserveNew, ObserveAgain, UpdateCapabilities
<1>2. ASSUME NEW c, NEW a, NEW t, Transition(c, a, t) PROVE Kept
  BY <1>2, Zenon DEF Transition
<1>3. ASSUME NEW c, NEW p, SetPolicy(c, p) PROVE plans'[i] = AbortInFlight(plans[i])
  BY <1>3, Zenon DEF SetPolicy
<1>4. ASSUME NEW c, NEW w, NEW r, RegisterWorkload(c, w, r) PROVE Kept
  BY <1>4, Zenon DEF RegisterWorkload
<1>5. ASSUME NEW c, NEW w, NEW s, NEW d, PlanMigration(c, w, s, d)
      PROVE  (KeptPlan(i) /\ policy' = policy) \/ ReplacedPlan(i)
  <2>1. PICK j \in PlanIds :
           IdentifiesPlan(j, NewPlan(w, s, d)) /\ plans' = [plans EXCEPT ![j] = NewPlan(w, s, d)]
    BY <1>5, Zenon DEF PlanMigration
  <2>2. /\ w \in Registered /\ s \in Known /\ d \in Known /\ s # d
        /\ generation' = NextGen(generation) /\ policy' = policy
    BY <1>5, Zenon DEF PlanMigration
  <2>3. plans'[i] = IF i = j THEN NewPlan(w, s, d) ELSE plans[i]
    BY <1>0, <2>1 DEF PlanMap
  <2> QED
    BY <2>1, <2>2, <2>3, Zenon DEF KeptPlan, ReplacedPlan
<1>6. ASSUME NEW c, NEW w, NEW s, PlanOntoItself(c, w, s) PROVE Kept
  BY <1>6, Zenon DEF PlanOntoItself, memory
<1>7. ASSUME NEW c, NEW j \in PlanIds, NEW t \in MigrationStates, AdvanceMigration(c, j, t)
      PROVE  (KeptPlan(i) /\ policy' = policy) \/ MovedPlan(i)
  <2>1. /\ j \in Recorded /\ LegalMigrationTransition(plans[j].state, t) /\ policy' = policy
        /\ plans' = [plans EXCEPT ![j].state = t]
    BY <1>7, Zenon DEF AdvanceMigration
  <2>2. InFlight(plans[j])
    BY <2>1
    DEF InFlight, Recorded, IsTerminalMigrationState, LegalMigrationTransition, Abortable
  <2>3. plans'[i] = IF i = j THEN [plans[j] EXCEPT !.state = t] ELSE plans[i]
    BY <1>0, <2>1 DEF PlanMap
  <2>4. plans[j] \in Plan
    BY <1>0, <2>1 DEF PlanMap, Recorded
  <2>5. /\ [plans[j] EXCEPT !.state = t] = InState(plans[j], t, plans[j].reasons)
        /\ plans[j].reasons \in Reasons
    BY <2>4, Zenon DEF Plan, InState
  <2> QED
    BY <2>1, <2>2, <2>3, <2>5, Zenon DEF KeptPlan, MovedPlan
<1>8. ASSUME NEW c, NEW j \in PlanIds, NEW reason \in AbortReasons, AbortMigration(c, j, reason)
      PROVE  (KeptPlan(i) /\ policy' = policy) \/ MovedPlan(i)
  <2>1. /\ InFlight(plans[j]) /\ policy' = policy
        /\ plans' = [plans EXCEPT ![j] = [plans[j] EXCEPT !.state = "Aborted", !.reasons = reason]]
    BY <1>8, Zenon DEF AbortMigration
  <2>2. plans'[i] = IF i = j THEN InState(plans[j], "Aborted", reason) ELSE plans[i]
    BY <1>0, <2>1 DEF PlanMap, InState
  <2>3. "Aborted" \in MigrationStates /\ reason \in Reasons
    BY InputAssumption DEF MigrationStates
  <2> QED
    BY <2>1, <2>2, <2>3, Zenon DEF KeptPlan, MovedPlan
<1>9. ASSUME NEW w, NEW a, NEW s, Evaluate(w, a, s) PROVE Kept
  BY <1>9, Zenon DEF Evaluate
<1>10. CASE \/ Shutdown \/ ForcePersist \/ UNCHANGED vars \/ InvalidateStaleDecisions
            \/ \E a \in Accelerators : EvidenceAges(a)
  <2>1. Kept
    BY <1>10, Zenon
    DEF Shutdown, ForcePersist, InvalidateStaleDecisions, EvidenceAges, vars, memory
  <2> QED
    BY <2>1, Zenon DEF KeptPlan
<1>11. Kept => KeptPlan(i) /\ policy' = policy
  BY Zenon DEF KeptPlan
<1> HIDE DEF Kept
<1> QED
  BY <1>1, <1>2, <1>3, <1>4, <1>5, <1>6, <1>7, <1>8, <1>9, <1>10, <1>11, Zenon
  DEF Next, Unclaimed, Mutate

(* Aborting what is in flight leaves nothing in flight and the rest alone. *)
LEMMA AbortedPlans ==
  ASSUME NEW p \in Plan \cup {NoPlan}
  PROVE  /\ ~InFlight(AbortInFlight(p))
         /\ ~InFlight(p) => AbortInFlight(p) = p
         /\ AbortInFlight(p) # NoPlan => p # NoPlan /\ AbortInFlight(p).generation = p.generation
<1>1. CASE ~InFlight(p)
  BY <1>1, Zenon DEF AbortInFlight
<1>2. CASE InFlight(p)
  <2>1. p \in Plan /\ p # NoPlan
    BY <1>2 DEF InFlight
  <2>2. AbortInFlight(p) = [p EXCEPT !.state = "Aborted", !.reasons = "readable"]
    BY <1>2, Zenon DEF AbortInFlight
  <2>3. AbortInFlight(p).state = "Aborted" /\ AbortInFlight(p).generation = p.generation
    BY <2>1, <2>2 DEF Plan
  <2> QED
    BY <1>2, <2>1, <2>3 DEF InFlight, IsTerminalMigrationState
<1> QED
  BY <1>1, <1>2

(* Aborting leaves a plan between the members it was made for.             *)
LEMMA AbortedEndpoints ==
  ASSUME NEW p \in Plan \cup {NoPlan}, AbortInFlight(p) # NoPlan
  PROVE  /\ AbortInFlight(p).source = p.source
         /\ AbortInFlight(p).destination = p.destination
<1>1. CASE ~InFlight(p)
  BY <1>1, Zenon DEF AbortInFlight
<1>2. CASE InFlight(p)
  BY <1>2 DEF AbortInFlight, InFlight, Plan
<1> QED
  BY <1>1, <1>2

(* Two stages of one plan.                                                 *)
SameMove(p, q) ==
  /\ p.epoch = q.epoch /\ p.policy = q.policy /\ p.generation = q.generation
  /\ p.source = q.source /\ p.destination = q.destination

(* Moving a plan changes its state and its reasons only.                   *)
LEMMA MovedFields ==
  ASSUME NEW p \in Plan, NEW t, NEW r
  PROVE  SameMove(InState(p, t, r), p)
BY DEF Plan, InState, SameMove

(* The part of NoWorkFromOldAuthority about plans.                         *)
PlansStamped ==
  \A i \in PlanIds : InFlight(plans[i]) => plans[i].epoch = epoch /\ plans[i].policy = policy

(* No step leaves a plan of another authority in flight.                   *)
LEMMA PlansStampedStep ==
  ASSUME TypeInv, PlansStamped, [Next]_vars
  PROVE  PlansStamped'
<1>0. plans \in PlanMap
  BY DEF TypeInv, TypeOK
<1> SUFFICES ASSUME NEW i \in PlanIds, InFlight(plans'[i])
             PROVE  plans'[i].epoch = epoch' /\ plans'[i].policy = policy'
  BY Zenon DEF PlansStamped, InFlight
<1>1. CASE Open \/ Crash
  <2>1. \/ plans' = NoPlans
        \/ store \in SnapshotRecord /\ plans' = [j \in PlanIds |-> AbortInFlight(store.plans[j])]
    BY <1>1, Zenon DEF Open, OpenFresh, Recover, Crash, TypeInv, TypeOK
  <2>2. CASE plans' = NoPlans
    BY <2>2, Zenon DEF NoPlans, InFlight
  <2>3. CASE store \in SnapshotRecord /\ plans' = [j \in PlanIds |-> AbortInFlight(store.plans[j])]
    <3>1. store.plans[i] \in Plan \cup {NoPlan} /\ plans'[i] = AbortInFlight(store.plans[i])
      BY <2>3 DEF SnapshotRecord, PlanMap
    <3>2. ~InFlight(AbortInFlight(store.plans[i]))
      BY <3>1, AbortedPlans, Zenon
    <3> QED
      BY <3>1, <3>2, Zenon
  <2> QED
    BY <2>1, <2>2, <2>3, Zenon
<1>2. CASE ~Open /\ ~Crash
  <2>1. epoch' = epoch
    BY <1>2, StepKinds, Zenon DEF RunningStepOf, vars
  <2>2. plans[i] \in Plan \cup {NoPlan}
    BY <1>0 DEF PlanMap
  <2>3. CASE KeptPlan(i) /\ policy' = policy
    BY <2>1, <2>3, Zenon DEF KeptPlan, PlansStamped
  <2>4. CASE ReplacedPlan(i)
    <3>1. PICK w \in Registered, s \in Known, d \in Known :
             plans'[i] = NewPlan(w, s, d) /\ policy' = policy
      BY <2>4, Zenon DEF ReplacedPlan
    <3>2. NewPlan(w, s, d).epoch = epoch /\ NewPlan(w, s, d).policy = policy
      BY Zenon DEF NewPlan
    <3> QED
      BY <2>1, <3>1, <3>2, Zenon
  <2>5. CASE MovedPlan(i)
    <3>1. plans[i] \in Plan /\ plans[i].epoch = epoch /\ plans[i].policy = policy /\ policy' = policy
      BY <2>2, <2>5 DEF MovedPlan, InFlight, PlansStamped
    <3>2. PICK t, r : plans'[i] = InState(plans[i], t, r)
      BY <2>5, Zenon DEF MovedPlan
    <3>3. SameMove(InState(plans[i], t, r), plans[i])
      BY <3>1, MovedFields, Zenon
    <3> QED
      BY <2>1, <3>1, <3>2, <3>3, Zenon DEF SameMove
  <2>6. CASE plans'[i] = AbortInFlight(plans[i])
    <3>1. ~InFlight(AbortInFlight(plans[i]))
      BY <2>2, AbortedPlans, Zenon
    <3> QED
      BY <2>6, <3>1, Zenon
  <2> QED
    BY <1>2, <2>3, <2>4, <2>5, <2>6, PlanSteps, Zenon
<1> QED
  BY <1>1, <1>2

(* After a change of policy or a restart, no decision and no plan in       *)
(* flight of the authority before it is left.                              *)
THEOREM OldWorkIsGone == Spec => []NoWorkFromOldAuthority
<1>1. Init => DecisionsStamped /\ PlansStamped
  BY DEF Init, DecisionsStamped, PlansStamped, NoPlans, InFlight
<1>2. TypeInv /\ DecisionsStamped /\ PlansStamped /\ [Next]_vars
        => DecisionsStamped' /\ PlansStamped'
  BY DecisionsStampedStep, PlansStampedStep
<1>3. DecisionsStamped /\ PlansStamped => NoWorkFromOldAuthority
  BY Zenon DEF DecisionsStamped, PlansStamped, NoWorkFromOldAuthority
<1> QED
  BY <1>1, <1>2, <1>3, TypeCorrect, PTL DEF Spec

-----------------------------------------------------------------------------
(* Settled plans.                                                          *)

Settled(p) == p # NoPlan /\ ~InFlight(p)

(* A plan is never ahead of the generation, so that a plan recorded now    *)
(* has an identity of its own; and the store agrees with memory on the     *)
(* plans that it knows to have ended.                                      *)
PlanGenerations ==
  /\ mode # "down" => \A i \in PlanIds : plans[i] # NoPlan => plans[i].generation <= generation
  /\ store # NoSnapshot =>
       \A i \in PlanIds : store.plans[i] # NoPlan => store.plans[i].generation <= store.generation

SettledAgree ==
  mode # "down" /\ generation < MaxValue /\ store # NoSnapshot =>
    \A i \in PlanIds : Settled(store.plans[i]) => plans[i] = store.plans[i]

(* A running federation keeps an ended plan as it is.                      *)
LEMMA SettledKept ==
  ASSUME TypeInv, PlanGenerations, [Next]_vars, ~Open, ~Crash, RunningStepOf,
         generation < MaxValue, NEW i \in PlanIds, Settled(plans[i])
  PROVE  plans'[i] = plans[i]
<1>1. plans[i] \in Plan /\ generation \in Gens /\ plans[i].generation <= generation
  BY DEF TypeInv, TypeOK, PlanMap, Settled, PlanGenerations, RunningStepOf
<1>2. CASE KeptPlan(i)
  BY <1>2, Zenon DEF KeptPlan
<1>3. CASE ReplacedPlan(i)
  <2>1. PICK w \in Registered, s \in Known, d \in Known : IdentifiesPlan(i, NewPlan(w, s, d))
    BY <1>3, Zenon DEF ReplacedPlan
  <2>2. plans[i] = [NewPlan(w, s, d) EXCEPT !.state = plans[i].state, !.reasons = plans[i].reasons]
    BY <2>1, Zenon DEF IdentifiesPlan, SamePlan, Settled
  <2>3. plans[i].generation = NextGen(generation)
    BY <2>2, ZenonT(60) DEF NewPlan
  <2>4. FALSE
    BY <1>1, <2>3, BoundsAssumption DEF NextGen, Gens
  <2> QED
    BY <2>4
<1>4. CASE MovedPlan(i)
  BY <1>4, Zenon DEF MovedPlan, Settled
<1>5. CASE plans'[i] = AbortInFlight(plans[i])
  BY <1>5, Zenon DEF AbortInFlight, Settled
<1> QED
  BY <1>2, <1>3, <1>4, <1>5, PlanSteps, ZenonT(60)

(* Recovery keeps ended plans and the order of generations.                *)
LEMMA OpenPlans ==
  ASSUME TypeInv, PlanGenerations, Open, NEW i \in PlanIds
  PROVE  /\ plans'[i] # NoPlan => plans'[i].generation <= generation'
         /\ store # NoSnapshot /\ Settled(store.plans[i]) => plans'[i] = store.plans[i]
<1>1. CASE OpenFresh
  BY <1>1, Zenon DEF OpenFresh, NoPlans
<1>2. CASE Recover
  <2>1. /\ store \in SnapshotRecord /\ store # NoSnapshot /\ generation' = NextGen(store.generation)
        /\ plans'[i] = AbortInFlight(store.plans[i])
    BY <1>2 DEF Recover, TypeInv, TypeOK
  <2>2. store.plans[i] \in Plan \cup {NoPlan} /\ store.generation \in Gens
    BY <2>1 DEF SnapshotRecord, PlanMap
  <2>3. Settled(store.plans[i]) => plans'[i] = store.plans[i]
    BY <2>1, <2>2, AbortedPlans, ZenonT(60) DEF Settled
  <2>4. ASSUME plans'[i] # NoPlan PROVE plans'[i].generation <= generation'
    <3>1. store.plans[i] # NoPlan /\ plans'[i].generation = store.plans[i].generation
      BY <2>1, <2>2, <2>4, AbortedPlans, Zenon
    <3>2. store.plans[i].generation <= store.generation /\ store.plans[i].generation \in Gens
      BY <2>1, <2>2, <3>1, Zenon DEF PlanGenerations, Plan
    <3>3. NextGen(store.generation) \in Gens /\ NextGen(store.generation) >= store.generation
      BY <2>2, NextGenType
    <3> QED
      BY <2>1, <2>2, <3>1, <3>2, <3>3, BoundsAssumption DEF Gens
  <2> QED
    BY <2>3, <2>4, Zenon
<1> QED
  BY <1>1, <1>2, Zenon DEF Open

(* The generation of a plan is never ahead, whatever the step.             *)
LEMMA PlanGenerationsStep ==
  ASSUME TypeInv, PlanGenerations, [Next]_vars
  PROVE  PlanGenerations'
<1> DEFINE Behind == \A i \in PlanIds : plans'[i] # NoPlan => plans'[i].generation <= generation'
<1>1. CASE UNCHANGED vars
  BY <1>1, Zenon DEF vars, memory, PlanGenerations
<1>2. CASE Crash
  BY <1>2, Zenon DEF Crash, PlanGenerations
<1>3. ASSUME Behind, mode' # "down", store' \in {store, Snapshot'} PROVE PlanGenerations'
  <2>1. CASE store' = store
    BY <1>3, <2>1, Zenon DEF PlanGenerations
  <2>2. CASE store' = Snapshot'
    <3>1. store'.plans = plans' /\ store'.generation = generation'
      BY <2>2 DEF Snapshot
    <3> QED
      BY <1>3, <3>1, Zenon DEF PlanGenerations
  <2> QED
    BY <1>3, <2>1, <2>2, Zenon
<1>4. CASE Open
  <2>1. Behind
    BY <1>4, OpenPlans, Zenon
  <2>2. mode' # "down" /\ store' \in {store, Snapshot'}
    BY <1>4, Zenon DEF Open
  <2> QED
    BY <1>3, <2>1, <2>2
<1>5. CASE ~Open /\ ~Crash /\ RunningStepOf
  <2>1. Behind
    <3> SUFFICES ASSUME NEW i \in PlanIds, plans'[i] # NoPlan
                 PROVE  plans'[i].generation <= generation'
      BY Zenon
    <3>1. generation \in Gens /\ generation' \in Gens /\ generation <= generation'
      BY <1>5, GenerationKept, Zenon
    <3>2. /\ plans[i] \in Plan \cup {NoPlan}
          /\ plans[i] # NoPlan => plans[i].generation <= generation
      BY <1>5, Zenon DEF TypeInv, TypeOK, PlanMap, PlanGenerations, RunningStepOf
    <3>3. CASE ReplacedPlan(i)
      <4>1. PICK w \in Registered, s \in Known, d \in Known :
               plans'[i] = NewPlan(w, s, d) /\ generation' = NextGen(generation)
        BY <3>3, Zenon DEF ReplacedPlan
      <4>2. plans'[i].generation = generation'
        <5>1. NewPlan(w, s, d).generation = NextGen(generation)
          BY Zenon DEF NewPlan
        <5> QED
          BY <4>1, <5>1, Zenon
      <4> QED
        BY <3>1, <4>2, BoundsAssumption DEF Gens
    <3>4. CASE ~ReplacedPlan(i)
      <4>1. plans[i] # NoPlan /\ plans'[i].generation = plans[i].generation
        <5>1. CASE KeptPlan(i)
          BY <5>1, Zenon DEF KeptPlan
        <5>2. CASE MovedPlan(i)
          <6>1. plans[i] \in Plan /\ plans[i] # NoPlan
            BY <3>2, <5>2 DEF MovedPlan, InFlight
          <6>2. PICK t, r : plans'[i] = InState(plans[i], t, r)
            BY <5>2, Zenon DEF MovedPlan
          <6>3. SameMove(InState(plans[i], t, r), plans[i])
            BY <6>1, MovedFields, Zenon
          <6> QED
            BY <6>1, <6>2, <6>3, Zenon DEF SameMove
        <5>3. CASE plans'[i] = AbortInFlight(plans[i])
          BY <3>2, <5>3, AbortedPlans, ZenonT(60)
        <5> QED
          BY <1>5, <3>4, <5>1, <5>2, <5>3, PlanSteps, Zenon
      <4>2. plans[i].generation \in Gens
        BY <3>2, <4>1 DEF Plan
      <4> QED
        BY <3>1, <3>2, <4>1, <4>2, BoundsAssumption DEF Gens
    <3> QED
      BY <3>3, <3>4
  <2> QED
    BY <1>3, <1>5, <2>1 DEF RunningStepOf
<1> QED
  BY <1>1, <1>2, <1>4, <1>5, StepKinds, Zenon

(* Store and memory keep agreeing on ended plans.                          *)
LEMMA SettledAgreeStep ==
  ASSUME TypeInv, PlanGenerations, SettledAgree, [Next]_vars
  PROVE  SettledAgree'
<1>1. CASE UNCHANGED vars
  BY <1>1, Zenon DEF vars, memory, SettledAgree, Settled, InFlight
<1>2. CASE Crash
  BY <1>2, Zenon DEF Crash, SettledAgree
<1>3. CASE store' = Snapshot'
  <2>1. store'.plans = plans'
    BY <1>3 DEF Snapshot
  <2> QED
    BY <2>1, Zenon DEF SettledAgree
<1>4. CASE Open /\ store' = store
  BY <1>4, OpenPlans, Zenon DEF SettledAgree, Settled, InFlight
<1>5. CASE ~Open /\ ~Crash /\ RunningStepOf /\ store' = store
  <2> SUFFICES ASSUME generation' < MaxValue, store # NoSnapshot, NEW i \in PlanIds,
                      Settled(store.plans[i])
               PROVE  plans'[i] = store.plans[i]
    BY <1>5, Zenon DEF SettledAgree, Settled, InFlight
  <2>1. generation < MaxValue
    <3>1. generation \in Gens /\ generation' \in Gens /\ generation <= generation'
      BY <1>5, GenerationKept
    <3> QED
      BY <3>1, BoundsAssumption DEF Gens
  <2>2. plans[i] = store.plans[i]
    BY <1>5, <2>1, Zenon DEF SettledAgree, RunningStepOf
  <2>3. plans'[i] = plans[i]
    BY <1>5, <2>1, <2>2, SettledKept, Zenon
  <2> QED
    BY <2>2, <2>3
<1>6. Open => store' \in {store, Snapshot'}
  BY Zenon DEF Open
<1> QED
  BY <1>1, <1>2, <1>3, <1>4, <1>5, <1>6, StepKinds, Zenon DEF RunningStepOf

(* A plan that reached Committed, Aborted or Refused stays there, in       *)
(* memory and in the store, through every operation, failed write, crash   *)
(* and recovery, until the generation saturates.                           *)
THEOREM EndedPlansStay == Spec => TerminalPlansStay
<1> DEFINE Stays ==
      generation < MaxValue => \A i \in PlanIds :
        /\ mode # "down" /\ mode' # "down" /\ plans[i] # NoPlan /\ ~InFlight(plans[i])
             => plans'[i] = plans[i]
        /\ store # NoSnapshot /\ store.plans[i] # NoPlan /\ ~InFlight(store.plans[i])
             => store'.plans[i] = store.plans[i]
<1>1. Init => PlanGenerations /\ SettledAgree
  BY Zenon DEF Init, PlanGenerations, SettledAgree
<1>2. TypeInv /\ PlanGenerations /\ SettledAgree /\ [Next]_vars
        => PlanGenerations' /\ SettledAgree'
  BY PlanGenerationsStep, SettledAgreeStep
<1>3. TypeInv /\ PlanGenerations /\ SettledAgree /\ [Next]_vars => [Stays]_vars
  <2> SUFFICES ASSUME TypeInv, PlanGenerations, SettledAgree, Next, generation < MaxValue,
                      NEW i \in PlanIds
               PROVE  /\ mode # "down" /\ mode' # "down" /\ Settled(plans[i]) => plans'[i] = plans[i]
                      /\ store # NoSnapshot /\ Settled(store.plans[i])
                           => store'.plans[i] = store.plans[i]
    BY Zenon DEF Settled
  <2>1. CASE Open
    <3>1. mode = "down" /\ store' \in {store, Snapshot'}
      BY <2>1, Zenon DEF Open
    <3>2. store' = Snapshot' => store'.plans = plans'
      BY DEF Snapshot
    <3> QED
      BY <2>1, <3>1, <3>2, OpenPlans, Zenon
  <2>2. CASE Crash
    BY <2>2, Zenon DEF Crash
  <2>3. CASE ~Open /\ ~Crash /\ RunningStepOf
    <3>1. Settled(plans[i]) => plans'[i] = plans[i]
      BY <2>3, SettledKept, Zenon
    <3>2. store # NoSnapshot /\ Settled(store.plans[i]) => plans[i] = store.plans[i]
      BY <2>3, Zenon DEF SettledAgree, RunningStepOf
    <3>3. store' = Snapshot' => store'.plans = plans'
      BY DEF Snapshot
    <3>4. store' = store \/ store' = Snapshot'
      BY <2>3, Zenon DEF RunningStepOf
    <3> QED
      BY <3>1, <3>2, <3>3, <3>4, Zenon
  <2> QED
    BY <2>1, <2>2, <2>3, StepKinds, Zenon
<1> QED
  BY <1>1, <1>2, <1>3, TypeCorrect, PTL DEF Spec, TerminalPlansStay

-----------------------------------------------------------------------------
(* Readers.                                                                *)

(* The store holds what is in memory, but for the generation, which a      *)
(* refused plan onto itself advances without a write.                      *)
Durable ==
  mode # "down" =>
    /\ store # NoSnapshot
    /\ store.epoch = epoch /\ store.policy = policy /\ store.members = members
    /\ store.workloads = workloads /\ store.decisions = decisions /\ store.plans = plans

(* A step of a running federation writes, or changes nothing that readers  *)
(* see.                                                                    *)
LEMMA WritesOrKeeps ==
  ASSUME PersistMode = "mutation", StoreMayFail = FALSE, Next, ~Open, ~Crash
  PROVE  store' = Snapshot' \/ UNCHANGED <<mode = "down", epoch, memory, store>>
<1>1. ASSUME NEW force, Persist(force) PROVE store' = Snapshot'
  BY <1>1 DEF Persist, Writes
<1>2. ASSUME NEW c \in Claims, Mutate(c)
      PROVE  store' = Snapshot' \/ UNCHANGED <<mode = "down", epoch, memory, store>>
  <2>1. ASSUME NEW w, NEW s, PlanOntoItself(c, w, s)
        PROVE  UNCHANGED <<mode = "down", epoch, memory, store>>
    BY <2>1, Zenon DEF PlanOntoItself
  <2>2. ASSUME NEW a, NEW caps, NEW local,
               \/ ObserveNew(c, a, caps, local) \/ ObserveAgain(c, a, caps, local)
               \/ UpdateCapabilities(c, a, caps, local)
        PROVE  Persist(FALSE)
    BY <2>2, Zenon DEF ObserveNew, ObserveAgain, UpdateCapabilities
  <2>3. ASSUME NEW a, NEW t, Transition(c, a, t) PROVE Persist(FALSE)
    BY <2>3, Zenon DEF Transition
  <2>4. ASSUME NEW p, SetPolicy(c, p) PROVE Persist(FALSE)
    BY <2>4, Zenon DEF SetPolicy
  <2>5. ASSUME NEW w, NEW r, RegisterWorkload(c, w, r) PROVE Persist(FALSE)
    BY <2>5, Zenon DEF RegisterWorkload
  <2>6. ASSUME NEW w, NEW s, NEW d, PlanMigration(c, w, s, d) PROVE Persist(FALSE)
    BY <2>6, Zenon DEF PlanMigration
  <2>7. ASSUME NEW i, NEW t, AdvanceMigration(c, i, t) PROVE Persist(FALSE)
    BY <2>7, Zenon DEF AdvanceMigration
  <2>8. ASSUME NEW i, NEW r, AbortMigration(c, i, r) PROVE Persist(FALSE)
    BY <2>8, Zenon DEF AbortMigration
  <2> QED
    BY <1>1, <1>2, <2>1, <2>2, <2>3, <2>4, <2>5, <2>6, <2>7, <2>8, Zenon DEF Mutate
<1>3. ASSUME NEW a, EvidenceAges(a) PROVE UNCHANGED <<mode = "down", epoch, memory, store>>
  BY <1>3, Zenon DEF EvidenceAges
<1>4. ASSUME NEW w, NEW a, NEW s, Evaluate(w, a, s) PROVE Persist(FALSE)
  BY <1>4, Zenon DEF Evaluate
<1>5. CASE Shutdown \/ ForcePersist \/ InvalidateStaleDecisions
  BY <1>1, <1>5, Zenon DEF Shutdown, ForcePersist, InvalidateStaleDecisions
<1> QED
  BY <1>1, <1>2, <1>3, <1>4, <1>5, Zenon DEF Next, Unclaimed

(* A write of the present state leaves the store durable.                  *)
LEMMA DurableStep ==
  ASSUME PersistMode = "mutation", StoreMayFail = FALSE, TypeInv, Durable, [Next]_vars
  PROVE  Durable'
<1>1. TypeInv'
  BY TypeStep
<1>2. CASE UNCHANGED <<mode = "down", epoch, memory, store>> \/ UNCHANGED vars
  BY <1>2, Zenon DEF Durable, vars, memory
<1>3. CASE Crash
  BY <1>3, Zenon DEF Crash, Durable
<1>4. CASE store' = Snapshot'
  <2>1. store'.epoch = epoch' /\ store'.policy = policy' /\ store'.members = members'
    BY <1>4, Zenon DEF Snapshot
  <2>2. store'.workloads = workloads' /\ store'.decisions = decisions' /\ store'.plans = plans'
    BY <1>4, ZenonT(60) DEF Snapshot
  <2>3. mode' # "down" => store' \in SnapshotRecord
    BY <1>1, <1>4 DEF TypeInv, TypeOK, Snapshot, SnapshotRecord
  <2> QED
    BY <2>1, <2>2, <2>3, AbsentValues, Zenon DEF Durable
<1>5. Open => store' = Snapshot'
  BY DEF Open, Writes
<1> QED
  BY <1>2, <1>3, <1>4, <1>5, WritesOrKeeps, Zenon

(* With a write per mutation and a store that accepts every write, what a  *)
(* reader sees of the federation is in the store.                          *)
THEOREM ReadersSeeTheStore ==
  ASSUME PersistMode = "mutation", StoreMayFail = FALSE
  PROVE  Spec => []ReadersSeeDurableState
<1>1. Init => Durable
  BY DEF Init, Durable
<1>2. TypeInv /\ Durable /\ [Next]_vars => Durable'
  BY DurableStep, Zenon
<1>3. TypeInv /\ Durable => ReadersSeeDurableState
  <2> SUFFICES ASSUME TypeInv, Durable, mode # "down"
               PROVE  store # NoSnapshot /\ [store EXCEPT !.generation = generation] = Snapshot
    BY ZenonT(60) DEF ReadersSeeDurableState
  <2>1. store # NoSnapshot /\ store \in SnapshotRecord
    BY DEF Durable, TypeInv, TypeOK
  <2>2. /\ store.epoch = epoch /\ store.policy = policy /\ store.members = members
        /\ store.workloads = workloads /\ store.decisions = decisions /\ store.plans = plans
    BY Zenon DEF Durable
  <2>3. [store EXCEPT !.generation = generation] = Snapshot
    BY <2>1, <2>2 DEF SnapshotRecord, Snapshot
  <2> QED
    BY <2>1, <2>3
<1> QED
  BY <1>1, <1>2, <1>3, TypeCorrect, PTL DEF Spec

-----------------------------------------------------------------------------
(* The audit.                                                              *)

(* What decisions and plans refer to is there, and members have a history. *)
SoundWork(pol, ms, ws, ds, ps) ==
  /\ \A a \in Accelerators : ms[a] # NoMember => ms[a].history >= 1
  /\ \A d \in ds : /\ ms[d.accelerator] # NoMember /\ ws[d.workload] # NoProfile
                   /\ d.policy = pol
  /\ \A i \in PlanIds : ps[i] # NoPlan =>
       /\ ms[ps[i].source] # NoMember /\ ms[ps[i].destination] # NoMember
       /\ ps[i].source # ps[i].destination

SoundInv ==
  /\ SoundWork(policy, members, workloads, decisions, plans)
  /\ store # NoSnapshot =>
       /\ SoundWork(store.policy, store.members, store.workloads, store.decisions, store.plans)
       /\ \A a \in Accelerators :
            store.members[a] # NoMember => store.members[a].epoch = store.epoch

(* A history never becomes empty: every operation pushes or leaves it.     *)
LEMMA HistoryKept ==
  ASSUME NEW m \in Member, m.history >= 1, NEW n, Becomes(m, n)
  PROVE  n.history >= 1
<1>1. m.history \in 0..(HistoryLimit + 1)
  BY DEF Member
<1>2. PushHistory(m.history) >= 1 /\ m.history + 1 >= 1
  BY <1>1, BoundsAssumption DEF PushHistory
<1>3. CASE n = m
  BY <1>3
<1>4. CASE n = RetiredMember(m)
  BY <1>2, <1>4 DEF RetiredMember, Member
<1>5. CASE n = ReleasedSource(m)
  BY <1>2, <1>5 DEF ReleasedSource, Member
<1>6. CASE n = RefreshedMember(m)
  BY <1>6 DEF RefreshedMember, Member
<1>7. ASSUME NEW caps, n = UpdatedMember(m, caps) PROVE n.history >= 1
  BY <1>2, <1>7 DEF UpdatedMember, Member
<1>8. ASSUME NEW t, n = TransitionedMember(m, t) PROVE n.history >= 1
  BY <1>2, <1>8 DEF TransitionedMember, Member
<1>9. ASSUME NEW p, n = [m EXCEPT !.policy = p] PROVE n.history >= 1
  BY <1>9 DEF Member
<1> QED
  BY <1>3, <1>4, <1>5, <1>6, <1>7, <1>8, <1>9, Zenon DEF Becomes

(* The only operation on workloads registers one.                          *)
LEMMA WorkloadsKept ==
  ASSUME TypeInv, NEW c, Mutate(c), NEW w \in Registered
  PROVE  workloads'[w] # NoProfile
<1>0. workloads \in WorkloadMap /\ w \in Workloads /\ workloads[w] # NoProfile
  BY DEF TypeInv, TypeOK, Registered
<1>1. ASSUME NEW v \in Workloads, NEW r \in Profiles, RegisterWorkload(c, v, r)
      PROVE  workloads'[w] # NoProfile
  <2>1. workloads' = [workloads EXCEPT ![v] = r]
    BY <1>1, Zenon DEF RegisterWorkload
  <2>2. workloads'[w] = IF w = v THEN r ELSE workloads[w]
    BY <1>0, <2>1 DEF WorkloadMap
  <2> QED
    BY <1>0, <2>2, AbsentValues
<1>2. CASE workloads' = workloads
  BY <1>0, <1>2
<1> QED
  BY <1>1, <1>2, Zenon
  DEF Mutate, ObserveNew, ObserveAgain, UpdateCapabilities, Transition, SetPolicy, PlanMigration,
      PlanOntoItself, AdvanceMigration, AbortMigration, memory

(* What is known stays known in a running federation, with its history.    *)
LEMMA RunningKnown ==
  ASSUME TypeInv, [Next]_vars, ~Open, ~Crash
  PROVE  /\ \A a \in Known : members'[a] # NoMember
         /\ \A w \in Registered : workloads'[w] # NoProfile
         /\ \A a \in Accelerators :
              members'[a] # NoMember /\ (a \in Known => members[a].history >= 1)
                => members'[a].history >= 1
<1>1. CASE QuietStep
  BY <1>1, Zenon DEF QuietStep, Known, Registered
<1>2. ASSUME NEW c \in Claims, Mutate(c), NEW a \in Known PROVE members'[a] # NoMember
  BY <1>2, MutateKeeps, Zenon DEF KeepsMember, Known
<1>3. ASSUME NEW c \in Claims, Mutate(c), NEW w \in Registered PROVE workloads'[w] # NoProfile
  BY <1>3, WorkloadsKept, Zenon
<1>4. ASSUME NEW c \in Claims, Mutate(c), NEW a \in Accelerators, members'[a] # NoMember,
             a \in Known => members[a].history >= 1
      PROVE  members'[a].history >= 1
  <2>1. CASE a \in Known
    <3>1. members[a] \in Member
      BY <2>1, Zenon DEF Known, TypeInv, TypeOK, MemberMap
    <3> QED
      BY <1>4, <2>1, <3>1, MutateBecomes, HistoryKept, Zenon
  <2>2. CASE a \notin Known
    <3>1. PICK caps \in Capabilities, local \in BOOLEAN : ObserveNew(c, a, caps, local)
      BY <1>4, <2>2, OnlyObserved, Zenon DEF Known
    <3>2. members'[a] = NewMember(caps)
      BY <3>1, Zenon DEF ObserveNew
    <3>3. NewMember(caps).history >= 1
      BY DEF NewMember
    <3> QED
      BY <3>2, <3>3, Zenon
  <2> QED
    BY <2>1, <2>2
<1> QED
  BY <1>1, <1>2, <1>3, <1>4, QuietOrMutate, Zenon

(* The work of a running federation stays sound.                           *)
LEMMA SoundRunning ==
  ASSUME TypeInv, [Next]_vars, ~Open, ~Crash,
         SoundWork(policy, members, workloads, decisions, plans)
  PROVE  SoundWork(policy, members, workloads, decisions, plans)'
<1>1. ASSUME NEW a \in Accelerators, members'[a] # NoMember PROVE members'[a].history >= 1
  BY <1>1, RunningKnown, Zenon DEF SoundWork, Known
<1>2. ASSUME NEW d \in decisions'
      PROVE  /\ members'[d.accelerator] # NoMember /\ workloads'[d.workload] # NoProfile
             /\ d.policy = policy'
  <2>1. (d \in decisions \/ TakenNow(d)) /\ policy' = policy
    BY <1>2, DecisionSources, Zenon
  <2>2. d.accelerator \in Known /\ d.workload \in Registered /\ d.policy = policy
    <3>1. CASE d \in decisions
      <4>1. d.accelerator \in Accelerators /\ d.workload \in Workloads
        BY <3>1 DEF TypeInv, TypeOK, Decision
      <4> QED
        BY <3>1, <4>1, Zenon DEF SoundWork, Known, Registered
    <3>2. CASE TakenNow(d)
      BY <3>2, TakenNowFields, Zenon
    <3> QED
      BY <2>1, <3>1, <3>2
  <2> QED
    BY <2>1, <2>2, RunningKnown, Zenon
<1>3. ASSUME NEW i \in PlanIds, plans'[i] # NoPlan
      PROVE  /\ members'[plans'[i].source] # NoMember /\ members'[plans'[i].destination] # NoMember
             /\ plans'[i].source # plans'[i].destination
  <2>1. plans[i] \in Plan \cup {NoPlan}
    BY Zenon DEF TypeInv, TypeOK, PlanMap
  <2>2. /\ plans'[i].source \in Known /\ plans'[i].destination \in Known
        /\ plans'[i].source # plans'[i].destination
    <3>1. CASE ReplacedPlan(i)
      <4>1. PICK w \in Registered, s \in Known, d \in Known :
               s # d /\ plans'[i] = NewPlan(w, s, d)
        BY <3>1, Zenon DEF ReplacedPlan
      <4>2. plans'[i].source = s /\ plans'[i].destination = d
        <5>1. NewPlan(w, s, d).source = s /\ NewPlan(w, s, d).destination = d
          BY Zenon DEF NewPlan
        <5> QED
          BY <4>1, <5>1, Zenon
      <4> QED
        BY <4>1, <4>2, Zenon
    <3>2. CASE ~ReplacedPlan(i)
      <4>1. /\ plans[i] # NoPlan /\ plans'[i].source = plans[i].source
            /\ plans'[i].destination = plans[i].destination
        <5>1. CASE KeptPlan(i)
          BY <1>3, <5>1, Zenon DEF KeptPlan
        <5>2. CASE MovedPlan(i)
          <6>1. plans[i] \in Plan /\ plans[i] # NoPlan
            BY <2>1, <5>2 DEF MovedPlan, InFlight
          <6>2. PICK t, r : plans'[i] = InState(plans[i], t, r)
            BY <5>2, Zenon DEF MovedPlan
          <6>3. SameMove(InState(plans[i], t, r), plans[i])
            BY <6>1, MovedFields, Zenon
          <6> QED
            BY <6>1, <6>2, <6>3, Zenon DEF SameMove
        <5>3. CASE plans'[i] = AbortInFlight(plans[i])
          BY <1>3, <2>1, <5>3, AbortedPlans, AbortedEndpoints, Zenon
        <5> QED
          BY <3>2, <5>1, <5>2, <5>3, PlanSteps, Zenon
      <4>2. plans[i].source \in Accelerators /\ plans[i].destination \in Accelerators
        BY <2>1, <4>1, Zenon DEF Plan
      <4> QED
        BY <4>1, <4>2, Zenon DEF SoundWork, Known
    <3> QED
      BY <3>1, <3>2, Zenon
  <2> QED
    BY <2>2, RunningKnown, Zenon
<1> QED
  BY <1>1, <1>2, <1>3, Zenon DEF SoundWork

(* Recovery starts with the sound work of the store, or with none.         *)
LEMMA SoundOpen ==
  ASSUME TypeInv, SoundInv, Open
  PROVE  SoundWork(policy, members, workloads, decisions, plans)'
<1>1. decisions' = {}
  BY Zenon DEF Open
<1>2. CASE OpenFresh
  <2>1. members' = NoMembers /\ plans' = NoPlans
    BY <1>2, Zenon DEF OpenFresh
  <2>2. \A a \in Accelerators : members'[a] = NoMember
    BY <2>1, Zenon DEF NoMembers
  <2>3. \A i \in PlanIds : plans'[i] = NoPlan
    BY <2>1, Zenon DEF NoPlans
  <2> QED
    BY <1>1, <2>2, <2>3, Zenon DEF SoundWork
<1>3. CASE Recover
  <2>1. /\ store \in SnapshotRecord /\ store # NoSnapshot
        /\ plans' = [j \in PlanIds |-> AbortInFlight(store.plans[j])]
        /\ members' = [a \in Accelerators |->
                          IF store.members[a] = NoMember THEN NoMember
                          ELSE RestoredMember(store.members[a], epoch')]
    BY <1>3, Zenon DEF Recover, TypeInv, TypeOK
  <2>2. store.members \in MemberMap /\ store.plans \in PlanMap /\ store.epoch \in Gens
    BY <2>1, Zenon DEF SnapshotRecord
  <2>3. epoch' \in Gens
    BY <1>3, <2>2, NextGenType, Zenon DEF Recover, RecoveredEpoch
  <2>4. ASSUME NEW a \in Accelerators, store.members[a] # NoMember
        PROVE  members'[a] # NoMember /\ members'[a].history >= 1
    <3>1. store.members[a] \in Member /\ members'[a] = RestoredMember(store.members[a], epoch')
      BY <2>1, <2>2, <2>4 DEF MemberMap
    <3>2. members'[a] \in Member
      BY <2>3, <3>1, RestoredMemberType, Zenon
    <3>3. members'[a].history = PushHistory(store.members[a].history)
      BY <3>1 DEF RestoredMember, Member
    <3>4. store.members[a].history \in 0..(HistoryLimit + 1)
      BY <3>1, Zenon DEF Member
    <3>5. PushHistory(store.members[a].history) >= 1
      BY <3>4, BoundsAssumption DEF PushHistory
    <3> QED
      BY <3>2, <3>3, <3>5, AbsentValues, ZenonT(60)
  <2>5. ASSUME NEW a \in Accelerators, members'[a] # NoMember PROVE members'[a].history >= 1
    BY <2>1, <2>4, <2>5, Zenon
  <2>6. ASSUME NEW i \in PlanIds, plans'[i] # NoPlan
        PROVE  /\ members'[plans'[i].source] # NoMember /\ members'[plans'[i].destination] # NoMember
               /\ plans'[i].source # plans'[i].destination
    <3> DEFINE q == store.plans[i]
    <3>1. q \in Plan \cup {NoPlan} /\ plans'[i] = AbortInFlight(q)
      BY <2>1, <2>2 DEF PlanMap
    <3>2. q # NoPlan /\ plans'[i].source = q.source /\ plans'[i].destination = q.destination
      <4>1. AbortInFlight(q) # NoPlan
        BY <2>6, <3>1, Zenon
      <4>2. AbortInFlight(q).source = q.source /\ AbortInFlight(q).destination = q.destination
        BY <3>1, <4>1, AbortedEndpoints, Zenon
      <4>3. q # NoPlan
        BY <3>1, <4>1, AbortedPlans, Zenon
      <4> QED
        BY <3>1, <4>2, <4>3, Zenon
    <3>3. q.source \in Accelerators /\ q.destination \in Accelerators
      BY <3>1, <3>2, Zenon DEF Plan
    <3>4. /\ store.members[q.source] # NoMember /\ store.members[q.destination] # NoMember
          /\ q.source # q.destination
      BY <2>1, <3>2, Zenon DEF SoundInv, SoundWork
    <3> HIDE DEF q
    <3> QED
      BY <2>4, <3>2, <3>3, <3>4, ZenonT(60)
  <2> QED
    BY <1>1, <2>5, <2>6, Zenon DEF SoundWork
<1> QED
  BY <1>2, <1>3, Zenon DEF Open

(* The work stays sound in memory and in the store.                        *)
LEMMA SoundStep ==
  ASSUME TypeInv, StampInv', SoundInv, [Next]_vars
  PROVE  SoundInv'
<1>1. CASE UNCHANGED vars
  BY <1>1, Zenon DEF vars, memory, SoundInv, SoundWork
<1>2. CASE Crash
  <2>1. members' = NoMembers /\ plans' = NoPlans /\ decisions' = {} /\ store' = store
    BY <1>2, Zenon DEF Crash
  <2>2. \A a \in Accelerators : members'[a] = NoMember
    BY <2>1, Zenon DEF NoMembers
  <2>3. \A i \in PlanIds : plans'[i] = NoPlan
    BY <2>1, Zenon DEF NoPlans
  <2>4. SoundWork(policy, members, workloads, decisions, plans)'
    BY <2>1, <2>2, <2>3, Zenon DEF SoundWork
  <2> QED
    BY <2>1, <2>4, Zenon DEF SoundInv, SoundWork
<1>3. ASSUME SoundWork(policy, members, workloads, decisions, plans)',
             mode' # "down", store' \in {store, Snapshot'}
      PROVE  SoundInv'
  <2>1. CASE store' = store
    BY <1>3, <2>1, Zenon DEF SoundInv, SoundWork
  <2>2. CASE store' = Snapshot'
    <3>1. store'.epoch = epoch' /\ store'.policy = policy' /\ store'.members = members'
      BY <2>2 DEF Snapshot
    <3>2. store'.workloads = workloads' /\ store'.decisions = decisions' /\ store'.plans = plans'
      BY <2>2 DEF Snapshot
    <3>3. \A a \in Accelerators : members'[a] # NoMember => members'[a].epoch = epoch'
      BY <1>3, Zenon DEF StampInv, AllStamped, Stamped
    <3> QED
      BY <1>3, <3>1, <3>2, <3>3, ZenonT(60) DEF SoundInv, SoundWork
  <2> QED
    BY <1>3, <2>1, <2>2, Zenon
<1>4. CASE Open
  <2>1. mode' # "down" /\ store' \in {store, Snapshot'}
    BY <1>4, Zenon DEF Open
  <2> QED
    BY <1>3, <1>4, <2>1, SoundOpen, Zenon
<1>5. CASE ~Open /\ ~Crash /\ RunningStepOf
  <2>1. SoundWork(policy, members, workloads, decisions, plans)'
    BY <1>5, SoundRunning, Zenon DEF SoundInv
  <2> QED
    BY <1>3, <1>5, <2>1, Zenon DEF RunningStepOf
<1> QED
  BY <1>1, <1>2, <1>4, <1>5, StepKinds, Zenon

(* A finding has the code it was made with.                                *)
LEMMA FindingCode ==
  ASSUME NEW code, NEW subjects, NEW f \in Finding(code, subjects)
  PROVE  f[1] = code /\ subjects # {}
BY DEF Finding

(* What audit_snapshot() can report of a snapshot of sound work is drift.  *)
LEMMA SoundSnapshotDrifts ==
  ASSUME NEW s \in SnapshotRecord,
         SoundWork(s.policy, s.members, s.workloads, s.decisions, s.plans),
         \A a \in Accelerators : s.members[a] # NoMember => s.members[a].epoch = s.epoch,
         NEW f \in AuditSnapshot(s)
  PROVE  f[1] \in DriftCodes
<1>0. /\ s.epoch \in Gens /\ s.members \in MemberMap /\ s.decisions \subseteq Decision
      /\ s.plans \in PlanMap
  BY DEF SnapshotRecord
<1>1. ASSUME f \in MembershipFindings(s) PROVE f[1] \in DriftCodes
  <2>1. ASSUME NEW a \in MembersIn(s)
        PROVE  /\ ~(s.members[a].epoch > s.epoch) /\ s.members[a].evidGen # 0
               /\ s.members[a].history # 0
    <3>1. a \in Accelerators /\ s.members[a] # NoMember /\ s.members[a] \in Member
      BY <1>0, <2>1 DEF MembersIn, MemberMap
    <3>2. s.members[a].epoch = s.epoch /\ s.members[a].history >= 1
      BY <3>1, ZenonT(60) DEF SoundWork
    <3>3. s.members[a].evidGen \in Gens
      BY <3>1 DEF Member
    <3>4. \A g \in Gens : g # 0 /\ ~(g > g)
      BY BoundsAssumption DEF Gens
    <3>5. s.members[a].history # 0
      BY <3>2
    <3> QED
      BY <1>0, <3>2, <3>3, <3>4, <3>5, ZenonT(60)
  <2>2. {a \in LiveIn(s) : s.members[a].epoch > s.epoch} = {}
    BY <2>1, Zenon DEF LiveIn
  <2>3. {a \in LiveIn(s) : s.members[a].evidGen = 0} = {}
    BY <2>1, Zenon DEF LiveIn
  <2>4. {a \in MembersIn(s) : s.members[a].history = 0} = {}
    BY <2>1, Zenon
  <2>5. f[1] = "membership.capability_generation" \/ f[1] = "membership.duplicate_live_boot"
    BY <1>1, <2>2, <2>3, <2>4, FindingCode, Zenon DEF MembershipFindings
  <2> QED
    BY <2>5, Zenon DEF DriftCodes
<1>2. ASSUME f \in DecisionFindings(s) PROVE f[1] \in DriftCodes
  <2>1. ASSUME NEW d \in s.decisions
        PROVE  /\ d.accelerator \in MembersIn(s) /\ d.policy = s.policy
               /\ s.workloads[d.workload] # NoProfile
    <3>1. d.accelerator \in Accelerators
      BY <1>0, <2>1, Zenon DEF Decision
    <3> QED
      BY <2>1, <3>1, Zenon DEF SoundWork, MembersIn
  <2>2. {d \in s.decisions : d.accelerator \notin MembersIn(s)} = {}
    BY <2>1, Zenon
  <2>3. {d \in s.decisions : d.policy # s.policy} = {}
    BY <2>1, Zenon
  <2>4. {d \in s.decisions : s.workloads[d.workload] = NoProfile} = {}
    BY <2>1, Zenon
  <2>5. f[1] = "decision.stale_capability"
    BY <1>2, <2>2, <2>3, <2>4, FindingCode, Zenon DEF DecisionFindings
  <2> QED
    BY <2>5, Zenon DEF DriftCodes
<1>3. ASSUME f \in PlanFindings(s) PROVE f[1] \in DriftCodes
  <2> DEFINE placed == {i \in PlansIn(s) :
                          {s.plans[i].source, s.plans[i].destination} \subseteq MembersIn(s)}
  <2>1. ASSUME NEW i \in PlansIn(s)
        PROVE  i \in placed /\ s.plans[i].source # s.plans[i].destination
    <3>1. i \in PlanIds /\ s.plans[i] # NoPlan /\ s.plans[i] \in Plan
      BY <1>0, <2>1 DEF PlansIn, PlanMap
    <3>2. s.plans[i].source \in Accelerators /\ s.plans[i].destination \in Accelerators
      BY <3>1, Zenon DEF Plan
    <3>3. /\ s.members[s.plans[i].source] # NoMember /\ s.members[s.plans[i].destination] # NoMember
          /\ s.plans[i].source # s.plans[i].destination
      BY <3>1, Zenon DEF SoundWork
    <3> QED
      BY <2>1, <3>2, <3>3, ZenonT(60) DEF MembersIn
  <2>2. PlansIn(s) \ placed = {}
    BY <2>1, Zenon
  <2>3. {i \in PlansIn(s) : s.plans[i].source = s.plans[i].destination} = {}
    BY <2>1, Zenon
  <2>4. f[1] \in {"migration.source_capability", "migration.destination_capability",
                  "migration.policy", "migration.refusal", "migration.double_authority"}
    BY <1>3, <2>2, <2>3, FindingCode, Zenon DEF PlanFindings
  <2> QED
    BY <2>4, Zenon DEF DriftCodes
<1>4. ASSUME f \in CapabilityFindings(s) PROVE f[1] \in DriftCodes
  <2>1. f[1] = "capability.empty"
    BY <1>4, FindingCode, Zenon DEF CapabilityFindings
  <2> QED
    BY <2>1, Zenon DEF DriftCodes
<1> QED
  BY <1>1, <1>2, <1>3, <1>4, Zenon DEF AuditSnapshot

(* No sequence of operations, crashes, restarts and failed writes gives a  *)
(* reader or a restart a snapshot that the structural half of the audit    *)
(* objects to.                                                             *)
THEOREM SnapshotsAreSound == Spec => []StructurallySound
<1>1. Init => StampInv /\ SoundInv
  <2> SUFFICES ASSUME Init PROVE StampInv /\ SoundInv
    OBVIOUS
  <2>1. store = NoSnapshot /\ mode = "down" /\ decisions = {}
    BY Zenon DEF Init
  <2>2. \A a \in Accelerators : members[a] = NoMember
    BY Zenon DEF Init, NoMembers
  <2>3. \A i \in PlanIds : plans[i] = NoPlan
    BY Zenon DEF Init, NoPlans
  <2> QED
    BY <2>1, <2>2, <2>3, Zenon DEF StampInv, SoundInv, SoundWork
<1>2. TypeInv /\ StampInv /\ SoundInv /\ [Next]_vars => StampInv' /\ SoundInv'
  BY StampStep, SoundStep, Zenon
<1>3. TypeInv /\ StampInv /\ SoundInv => StructurallySound
  <2> SUFFICES ASSUME TypeInv, StampInv, SoundInv,
                      NEW s, s \in {IF mode = "down" THEN store ELSE Snapshot, store} \ {NoSnapshot},
                      NEW f \in AuditSnapshot(s)
               PROVE  f[1] \in DriftCodes
    BY Zenon DEF StructurallySound
  <2>1. CASE s = store
    <3>1. store # NoSnapshot /\ store \in SnapshotRecord
      BY <2>1, Zenon DEF TypeInv, TypeOK
    <3> QED
      BY <2>1, <3>1, SoundSnapshotDrifts, Zenon DEF SoundInv
  <2>2. CASE s = Snapshot /\ mode # "down"
    <3>1. s \in SnapshotRecord
      BY <2>2, Zenon DEF TypeInv, TypeOK, Snapshot, SnapshotRecord
    <3>2. s.epoch = epoch /\ s.policy = policy /\ s.members = members
      BY <2>2, ZenonT(60) DEF Snapshot
    <3>3. s.workloads = workloads /\ s.decisions = decisions /\ s.plans = plans
      BY <2>2 DEF Snapshot
    <3>4. SoundWork(s.policy, s.members, s.workloads, s.decisions, s.plans)
      BY <3>2, <3>3, Zenon DEF SoundInv
    <3>5. \A a \in Accelerators : s.members[a] # NoMember => s.members[a].epoch = s.epoch
      BY <2>2, <3>2, Zenon DEF StampInv, AllStamped, Stamped
    <3> QED
      BY <3>1, <3>4, <3>5, SoundSnapshotDrifts, Zenon
  <2> QED
    BY <2>1, <2>2, Zenon
<1> QED
  BY <1>1, <1>2, <1>3, TypeCorrect, PTL DEF Spec
=============================================================================
