----------------------------- MODULE Federation -----------------------------
(***************************************************************************)
(* The authoritative state of one federation: class Federation of          *)
(* src/federation/federation.cpp.  A single exclusive lock covers every    *)
(* mutation together with the write of the snapshot, so an operation is    *)
(* one action, its persist included.  Operations that are refused, or that *)
(* re-assert what already holds, change nothing and are stuttering steps.  *)
(*                                                                         *)
(* The process may die between any two operations (Crash) and be started   *)
(* again (Open); what survives is the store.  The store itself is the      *)
(* contract of include/haf/persist/store.hpp: a write either replaces the  *)
(* snapshot or leaves the old one.                                         *)
(***************************************************************************)
EXTENDS Integers, FiniteSets, Lifecycle

CONSTANTS
  Accelerators,      \* identities of accelerator incarnations
  PhysicalDevice,    \* the physical device, the agent and the agent boot an
  Agent,             \* identity is derived from (derive_accelerator_id), as
  Boot,              \* functions on Accelerators
  Capabilities,      \* contents (digests) of capability sets
  EmptySets,         \* those without a record
  Advertisable,      \* those a descriptor of each accelerator may carry: with
                     \* records, and with the vendor of the descriptor
  Policies,          \* policies; a policy's generation is derived from its content
  DefaultPolicy,     \* the policy of the configuration
  FreshnessBound,    \* the policies with a nonzero evidence freshness budget
  Workloads,         \* workload classes
  Profiles,          \* workload profiles; a revision is derived from the content
  PlanIds,           \* identities of migration plans (bounds their number)
  AbortReasons,      \* the kinds of reasons callers give for an abort
  Claims,            \* the authority claims that callers present
  MaxValue,          \* Generation::kMaxValue
  HistoryLimit,      \* entries of lifecycle history a member keeps
  MaxRecordedDecisions,
  PersistMode,       \* "mutation", "deferred" (persist_on_mutation = false) or
                     \* "off" (persist = false)
  StoreMayFail,      \* whether a write to the store can fail
  Unchecked,         \* the value of a claim's field that is not checked
  NoMember, NoProfile, NoPlan, NoSource, NoSnapshot,
  Verdict(_, _, _, _, _),  \* evaluate_compatibility for a member that accepts work:
                           \* policy, profile, capabilities, source's, evidence fresh
  Portable(_, _, _, _)     \* haf::plan_migration does not refuse: policy, profile,
                           \* source's and destination's capabilities

Gens == 1..MaxValue

Outcomes == {"Eligible", "Ineligible", "Unknown"}

(* What a plan's refusal_reasons hold: nothing, or reasons that the reader *)
(* of a snapshot takes, or one with a longer text than it takes.           *)
Reasons == {"none", "readable", "oversized"}

Member == [state: MemberStates, epoch: Gens, policy: Policies,
           caps: Capabilities, capGen: Gens, descriptorCapGen: Gens,
           evidGen: Gens, revalidate: BOOLEAN, history: 0..(HistoryLimit + 1)]

Plan == [epoch: Gens, generation: Gens, policy: Policies,
         workload: Workloads, revision: Profiles,
         source: Accelerators, sourceCapGen: Gens,
         destination: Accelerators, destinationCapGen: Gens,
         state: MigrationStates, reasons: Reasons]

(* source stands for the portability class and the reasons derived from it *)
Decision == [accelerator: Accelerators, source: Accelerators \cup {NoSource},
             workload: Workloads, revision: Profiles, policy: Policies,
             epoch: Gens, generation: Gens, capGen: Gens, evidGen: Gens,
             outcome: Outcomes]

Claim == [generation: Gens \cup {Unchecked}, epoch: Gens \cup {Unchecked},
          agent: {Agent[a] : a \in Accelerators} \cup {Unchecked},
          boot: {Boot[a] : a \in Accelerators} \cup {Unchecked},
          capGen: Gens \cup {Unchecked}, policy: Policies \cup {Unchecked}]

MemberMap == [Accelerators -> Member \cup {NoMember}]
WorkloadMap == [Workloads -> Profiles \cup {NoProfile}]
PlanMap == [PlanIds -> Plan \cup {NoPlan}]

SnapshotRecord == [epoch: Gens, generation: Gens, policy: Policies,
                   members: MemberMap, workloads: WorkloadMap,
                   decisions: SUBSET Decision, plans: PlanMap]

ASSUME BoundsAssumption ==
  /\ MaxValue \in Nat \ {0}
  /\ HistoryLimit \in Nat /\ HistoryLimit >= 2
  /\ MaxRecordedDecisions \in Nat \ {0}
  /\ StoreMayFail \in BOOLEAN
  /\ PersistMode \in {"mutation", "deferred", "off"}

ASSUME InputAssumption ==
  /\ DefaultPolicy \in Policies /\ FreshnessBound \subseteq Policies
  /\ Claims \subseteq Claim /\ AbortReasons \subseteq Reasons \ {"none"}
  /\ EmptySets \subseteq Capabilities /\ Advertisable \in [Accelerators -> SUBSET (Capabilities \ EmptySets)]
  /\ \A p \in Policies, r \in Profiles, c \in Capabilities,
        s \in Capabilities \cup {NoSource}, f \in BOOLEAN :
       Verdict(p, r, c, s, f) \in Outcomes
  /\ \A p \in Policies, r \in Profiles, s, d \in Capabilities :
       Portable(p, r, s, d) \in BOOLEAN

ASSUME AbsentValues ==
  /\ NoMember \notin Member /\ NoProfile \notin Profiles /\ NoPlan \notin Plan
  /\ NoSource \notin Accelerators /\ NoSnapshot \notin SnapshotRecord

-----------------------------------------------------------------------------

VARIABLES
  mode,        \* "down" (no process), "up", or "shutdown" (authority revoked)
  epoch,       \* CoordinatorEpoch; while down, the value the last run had
  generation,  \* FederationGeneration; while down, the value the last run had
  policy,
  members,     \* members_, each with its descriptor
  workloads,
  decisions,   \* decisions_; a decision's identity is its content
  plans,
  aged,        \* members whose dynamic evidence is older than the freshness
               \* budget by the process-local monotonic clock; never persisted
  store        \* the durable snapshot

memory == <<policy, members, workloads, decisions, plans>>
vars == <<mode, epoch, generation, memory, aged, store>>

NoMembers == [a \in Accelerators |-> NoMember]
NoWorkloads == [w \in Workloads |-> NoProfile]
NoPlans == [i \in PlanIds |-> NoPlan]

Known == {a \in Accelerators : members[a] # NoMember}
Registered == {w \in Workloads : workloads[w] # NoProfile}
Recorded == {i \in PlanIds : plans[i] # NoPlan}

(* The types of the state; a history exceeds its limit by one entry at most *)
(* (the push at a commit is the only one that is not resized).              *)
TypeOK ==
  /\ mode \in {"down", "up", "shutdown"}
  /\ epoch \in 0..MaxValue /\ generation \in 0..MaxValue
  /\ mode # "down" => epoch \in Gens /\ generation \in Gens
  /\ policy \in Policies
  /\ members \in MemberMap
  /\ workloads \in WorkloadMap
  /\ decisions \in SUBSET Decision
  /\ plans \in PlanMap
  /\ aged \in SUBSET Accelerators
  /\ store \in SnapshotRecord \cup {NoSnapshot}

Init ==
  /\ mode = "down" /\ epoch = 0 /\ generation = 0
  /\ policy = DefaultPolicy /\ members = NoMembers /\ workloads = NoWorkloads
  /\ decisions = {} /\ plans = NoPlans /\ aged = {}
  /\ store = NoSnapshot

-----------------------------------------------------------------------------
(* Counters, history and the durable snapshot.                             *)

(* Mutant: the counter does not move.                                      *)
NextGenStuck(g) == g

(* Generation::next saturates.                                             *)
NextGen(g) == IF g = MaxValue THEN g ELSE g + 1

(* Mutant: the history grows without bound.                                *)
PushHistoryUnbounded(h) == h + 1

(* push_back, sort and resize to the limit: what is left is how many.      *)
PushHistory(h) == IF h + 1 > HistoryLimit THEN HistoryLimit ELSE h + 1

Snapshot == [epoch |-> epoch, generation |-> generation, policy |-> policy,
             members |-> members, workloads |-> workloads,
             decisions |-> decisions, plans |-> plans]

(* Mutant: only an explicit persist() writes.                              *)
WritesWhenForced(force) == PersistMode # "off" /\ force

Writes(force) == PersistMode = "mutation" \/ (PersistMode = "deferred" /\ force)

(* A failed write changes the result the caller gets and nothing else: the *)
(* mutation stays in memory.                                               *)
Persist(force) ==
  IF Writes(force)
  THEN store' = Snapshot' \/ (StoreMayFail /\ store' = store)
  ELSE store' = store

-----------------------------------------------------------------------------
(* Authority claims.                                                       *)

(* Mutant: the epoch of a claim is not compared.                           *)
ValidateAuthorityAnyEpoch(c) == mode = "up" /\ c.generation \in {Unchecked, generation}

ValidateAuthority(c) ==
  mode = "up" /\ c.generation \in {Unchecked, generation} /\ c.epoch \in {Unchecked, epoch}

(* The device generation is part of the identity a.                        *)
ValidateMemberAuthority(c, a) ==
  /\ ValidateAuthority(c)
  /\ c.agent \in {Unchecked, Agent[a]} /\ c.boot \in {Unchecked, Boot[a]}
  /\ c.capGen \in {Unchecked, members[a].capGen} /\ c.policy \in {Unchecked, policy}

-----------------------------------------------------------------------------
(* Process start, conservative recovery and process death.                 *)

(* The decoder refuses a member with more history than the limit or with   *)
(* capabilities its descriptor may not carry, and a reason that is longer  *)
(* than it takes.  What else it refuses is in Documents.                   *)
Decodable(s) ==
  /\ \A a \in Accelerators : s.members[a] # NoMember =>
       s.members[a].history <= HistoryLimit /\ s.members[a].caps \in Advertisable[a]
  /\ \A i \in PlanIds : s.plans[i] # NoPlan => s.plans[i].reasons # "oversized"

(* Mutant: every restored member becomes Degraded, retired ones too.       *)
RestoredMemberRevived(m, e) ==
  [m EXCEPT !.state = "Degraded", !.epoch = e, !.history = PushHistory(@), !.revalidate = TRUE]

(* Mutant: a restored member keeps the epoch it was written under.         *)
RestoredMemberOldEpoch(m, e) ==
  [m EXCEPT !.state = IF IsLive(@) THEN "Degraded" ELSE @,
            !.history = PushHistory(@), !.revalidate = TRUE]

RestoredMember(m, e) ==
  [m EXCEPT !.state = IF IsLive(@) THEN "Degraded" ELSE @,
            !.epoch = e, !.history = PushHistory(@), !.revalidate = TRUE]

InFlight(p) == p # NoPlan /\ ~IsTerminalMigrationState(p.state)

(* Mutant: plans in flight are left alone.                                 *)
LeaveInFlight(p) == p

(* A plan in flight has no reasons yet.                                    *)
AbortInFlight(p) ==
  IF InFlight(p) THEN [p EXCEPT !.state = "Aborted", !.reasons = "readable"] ELSE p

(* Mutant: recovery takes over the epoch of the previous run.              *)
InheritedEpoch(s) == s.epoch

RecoveredEpoch(s) == NextGen(s.epoch)

OpenFresh ==
  /\ store = NoSnapshot
  /\ epoch' = 1 /\ generation' = 1 /\ policy' = DefaultPolicy
  /\ members' = NoMembers /\ workloads' = NoWorkloads /\ plans' = NoPlans

Recover ==
  /\ store # NoSnapshot /\ Decodable(store)
  /\ epoch' = RecoveredEpoch(store) /\ generation' = NextGen(store.generation)
  /\ policy' = store.policy
  /\ members' = [a \in Accelerators |->
                   IF store.members[a] = NoMember THEN NoMember
                   ELSE RestoredMember(store.members[a], epoch')]
  /\ workloads' = store.workloads
  /\ plans' = [i \in PlanIds |-> AbortInFlight(store.plans[i])]

(* open() fails when its own write fails; nothing has changed then.        *)
Open ==
  /\ mode = "down"
  /\ OpenFresh \/ Recover
  /\ mode' = "up" /\ decisions' = {} /\ aged' = Known'
  /\ store' = IF Writes(FALSE) THEN Snapshot' ELSE store

Crash ==
  /\ mode # "down"
  /\ mode' = "down"
  /\ policy' = DefaultPolicy /\ members' = NoMembers /\ workloads' = NoWorkloads
  /\ decisions' = {} /\ plans' = NoPlans /\ aged' = {}
  /\ UNCHANGED <<epoch, generation, store>>

-----------------------------------------------------------------------------
(* Membership.                                                             *)

(* Every adapter advertises its capability set at generation one.          *)
AdvertisedCapGen == 1

Incarnations(a) == {b \in Known \ {a} : PhysicalDevice[b] = PhysicalDevice[a]}

DuplicateLive(a) ==
  \E b \in Incarnations(a) :
    HoldsCompetingAuthority(members[b].state) /\ Boot[b] # Boot[a]

(* Mutant: a degraded incarnation is not superseded.                       *)
SupersededNotDegraded(a, b) ==
  /\ b \in Incarnations(a) /\ Agent[b] = Agent[a]
  /\ ~IsTerminalState(members[b].state) /\ members[b].state # "Degraded"

Superseded(a, b) ==
  b \in Incarnations(a) /\ Agent[b] = Agent[a] /\ ~IsTerminalState(members[b].state)

RetiredMember(m) == [m EXCEPT !.state = "Retired", !.history = PushHistory(@)]

NewMember(caps) ==
  [state |-> "Observed", epoch |-> epoch, policy |-> policy,
   caps |-> caps, capGen |-> AdvertisedCapGen, descriptorCapGen |-> AdvertisedCapGen,
   evidGen |-> 1, revalidate |-> FALSE, history |-> 2]

(* Mutant: new capabilities under the old capability generation.           *)
UpdatedMemberSameGeneration(m, caps) ==
  [m EXCEPT !.caps = caps, !.evidGen = NextGen(@), !.revalidate = FALSE,
            !.history = PushHistory(@), !.policy = policy, !.epoch = epoch]

UpdatedMember(m, caps) ==
  [m EXCEPT !.caps = caps, !.capGen = NextGen(@), !.descriptorCapGen = NextGen(m.capGen),
            !.evidGen = NextGen(@), !.revalidate = FALSE, !.history = PushHistory(@),
            !.policy = policy, !.epoch = epoch]

(* An advertisement of the same capabilities replaces the descriptor whole, *)
(* its capability generation included.                                      *)
RefreshedMember(m) ==
  [m EXCEPT !.descriptorCapGen = AdvertisedCapGen, !.evidGen = NextGen(@),
            !.revalidate = FALSE, !.policy = policy, !.epoch = epoch]

ReobservedMember(m, caps) ==
  IF caps # m.caps THEN UpdatedMember(m, caps) ELSE RefreshedMember(m)

(* Evidence made in this process has a live monotonic marker; evidence     *)
(* decoded from a message has none and counts as older than any budget.    *)
Received(a, local) == IF local THEN aged \ {a} ELSE aged \cup {a}

ObserveNew(c, a, caps, local) ==
  /\ ValidateAuthority(c) /\ c.boot \in {Unchecked, Boot[a]} /\ caps \in Advertisable[a]
  /\ ~DuplicateLive(a) /\ a \notin Known
  /\ members' = [b \in Accelerators |->
                   IF b = a THEN NewMember(caps)
                   ELSE IF Superseded(a, b)
                   THEN RetiredMember(members[b]) ELSE members[b]]
  /\ generation' = NextGen(generation)
  /\ aged' = Received(a, local)
  /\ UNCHANGED <<mode, epoch, policy, workloads, decisions, plans>>
  /\ Persist(FALSE)

ObserveAgain(c, a, caps, local) ==
  /\ ValidateAuthority(c) /\ c.boot \in {Unchecked, Boot[a]} /\ caps \in Advertisable[a]
  /\ ~DuplicateLive(a) /\ a \in Known
  /\ ~IsTerminalState(members[a].state) /\ members[a].state # "Fenced"
  /\ members' = [members EXCEPT ![a] = ReobservedMember(@, caps)]
  /\ generation' = NextGen(generation)
  /\ aged' = Received(a, local)
  /\ UNCHANGED <<mode, epoch, policy, workloads, decisions, plans>>
  /\ Persist(FALSE)

TransitionedMember(m, target) ==
  [m EXCEPT !.state = target, !.policy = policy, !.history = PushHistory(@), !.epoch = epoch]

(* admit, activate, fence, reopen and retire are transitions to Admitted,  *)
(* Active, Fenced, Observed and Retired.                                   *)
Transition(c, a, target) ==
  /\ ValidateAuthority(c) /\ a \in Known /\ ValidateMemberAuthority(c, a)
  /\ LegalTransition(members[a].state, target)
  /\ members' = [members EXCEPT ![a] = TransitionedMember(@, target)]
  /\ generation' = NextGen(generation)
  /\ UNCHANGED <<mode, epoch, policy, workloads, decisions, plans, aged>>
  /\ Persist(FALSE)

(* The set is checked by itself, not as part of the descriptor.            *)
UpdateCapabilities(c, a, caps, local) ==
  /\ ValidateAuthority(c) /\ a \in Known /\ ValidateMemberAuthority(c, a)
  /\ ~IsTerminalState(members[a].state) /\ members[a].state # "Fenced"
  /\ members' = [members EXCEPT ![a] = UpdatedMember(@, caps)]
  /\ generation' = NextGen(generation)
  /\ aged' = Received(a, local)
  /\ UNCHANGED <<mode, epoch, policy, workloads, decisions, plans>>
  /\ Persist(FALSE)

-----------------------------------------------------------------------------
(* Policy and workloads.                                                   *)

(* Mutant: recorded decisions outlive the policy they were taken under.    *)
SetPolicyKeepsDecisions(c, p) ==
  /\ ValidateAuthority(c)
  /\ policy' = p /\ decisions' = decisions
  /\ plans' = [i \in PlanIds |-> AbortInFlight(plans[i])]
  /\ members' = [a \in Accelerators |-> IF a \in Known THEN [members[a] EXCEPT !.policy = p]
                                        ELSE NoMember]
  /\ generation' = NextGen(generation)
  /\ UNCHANGED <<mode, epoch, workloads, aged>>
  /\ Persist(FALSE)

SetPolicy(c, p) ==
  /\ ValidateAuthority(c)
  /\ policy' = p /\ decisions' = {}
  /\ plans' = [i \in PlanIds |-> AbortInFlight(plans[i])]
  /\ members' = [a \in Accelerators |-> IF a \in Known THEN [members[a] EXCEPT !.policy = p]
                                        ELSE NoMember]
  /\ generation' = NextGen(generation)
  /\ UNCHANGED <<mode, epoch, workloads, aged>>
  /\ Persist(FALSE)

RegisterWorkload(c, w, r) ==
  /\ ValidateAuthority(c)
  /\ workloads' = [workloads EXCEPT ![w] = r]
  /\ generation' = NextGen(generation)
  /\ UNCHANGED <<mode, epoch, policy, members, decisions, plans, aged>>
  /\ Persist(FALSE)

-----------------------------------------------------------------------------
(* Compatibility decisions.                                                *)

EvidenceFresh(a) ==
  ~members[a].revalidate /\ (a \in aged => policy \notin FreshnessBound)

OutcomeWith(w, a, s, fresh) ==
  IF AcceptsNewWork(members[a].state)
  THEN Verdict(policy, workloads[w], members[a].caps,
               IF s \in Known THEN members[s].caps ELSE NoSource, fresh)
  ELSE "Ineligible"

Evaluation(w, a, s) ==
  [accelerator |-> a, source |-> s, workload |-> w, revision |-> workloads[w],
   policy |-> policy, epoch |-> epoch, generation |-> generation,
   capGen |-> members[a].capGen, evidGen |-> members[a].evidGen,
   outcome |-> OutcomeWith(w, a, s, EvidenceFresh(a))]

(* What eviction may leave of the recorded decisions.  evaluate() evicts   *)
(* by wall-clock age, plan_migration() by identity (a hash): any choice.   *)
Retained(ds) ==
  IF Cardinality(ds) <= MaxRecordedDecisions THEN {ds}
  ELSE {kept \in SUBSET ds : Cardinality(kept) = MaxRecordedDecisions}

Evaluate(w, a, s) ==
  /\ mode = "up" /\ w \in Registered /\ a \in Known /\ s \in Known \cup {NoSource}
  /\ decisions' \in Retained(decisions \cup {Evaluation(w, a, s)})
  /\ UNCHANGED <<mode, epoch, generation, policy, members, workloads, plans, aged>>
  /\ Persist(FALSE)

(* Mutant: the federation generation is not compared.                      *)
StaleDecisionAnyGeneration(d) ==
  \/ d.epoch # epoch \/ d.policy # policy
  \/ members[d.accelerator] = NoMember \/ d.capGen # members[d.accelerator].capGen
  \/ workloads[d.workload] # d.revision

StaleDecision(d) ==
  \/ d.generation # generation \/ d.epoch # epoch \/ d.policy # policy
  \/ members[d.accelerator] = NoMember \/ d.capGen # members[d.accelerator].capGen
  \/ workloads[d.workload] # d.revision

(* Not refused after shutdown.                                             *)
InvalidateStaleDecisions ==
  /\ mode # "down" /\ \E d \in decisions : StaleDecision(d)
  /\ decisions' = {d \in decisions : ~StaleDecision(d)}
  /\ UNCHANGED <<mode, epoch, generation, policy, members, workloads, plans, aged>>
  /\ Persist(FALSE)

DecisionIsCurrent(d) == ~StaleDecision(d) /\ d.evidGen = members[d.accelerator].evidGen

-----------------------------------------------------------------------------
(* Migration plans.                                                        *)

(* A plan's identity is its content without lifecycle state and reasons.   *)
SamePlan(p, q) == p # NoPlan /\ p = [q EXCEPT !.state = p.state, !.reasons = p.reasons]

IdentifiesPlan(i, q) ==
  \/ SamePlan(plans[i], q)
  \/ plans[i] = NoPlan /\ \A j \in PlanIds : ~SamePlan(plans[j], q)

Movable(w, s, d) == Portable(policy, workloads[w], members[s].caps, members[d].caps)

NewPlan(w, s, d) ==
  [epoch |-> epoch, generation |-> NextGen(generation), policy |-> policy,
   workload |-> w, revision |-> workloads[w],
   source |-> s, sourceCapGen |-> members[s].capGen,
   destination |-> d, destinationCapGen |-> members[d].capGen,
   state |-> IF Movable(w, s, d) THEN "Planned" ELSE "Refused",
   reasons |-> IF Movable(w, s, d) THEN "none" ELSE "readable"]

(* Both decisions are taken before the generation advances.                *)
PlanMigration(c, w, s, d) ==
  /\ ValidateAuthority(c) /\ w \in Registered /\ {s, d} \subseteq Known /\ s # d
  /\ \E i \in PlanIds :
       IdentifiesPlan(i, NewPlan(w, s, d)) /\ plans' = [plans EXCEPT ![i] = NewPlan(w, s, d)]
  /\ decisions' \in Retained(decisions \cup {Evaluation(w, s, d), Evaluation(w, d, s)})
  /\ generation' = NextGen(generation)
  /\ UNCHANGED <<mode, epoch, policy, members, workloads, aged>>
  /\ Persist(FALSE)

(* The planner refuses a move onto itself after the generation advanced;   *)
(* that path does not persist.                                             *)
PlanOntoItself(c, w, s) ==
  /\ ValidateAuthority(c) /\ w \in Registered /\ s \in Known
  /\ generation' = NextGen(generation)
  /\ UNCHANGED <<mode, epoch, memory, aged, store>>

(* advance_migration compares the plan's own workload revision with itself *)
PlanIsCurrent(p, c) ==
  /\ c.policy \in {Unchecked, policy}
  /\ p.epoch = epoch /\ p.policy = policy
  /\ {p.source, p.destination} \subseteq Known
  /\ p.sourceCapGen = members[p.source].capGen
  /\ p.destinationCapGen = members[p.destination].capGen

(* At commit the source stops accepting work; this push is not resized.    *)
ReleasedSource(m) ==
  IF m.state \in {"Active", "Degraded"}
  THEN [m EXCEPT !.state = "Draining", !.history = @ + 1]
  ELSE m

(* Also to Refused and Aborted, which adds no reason here.                 *)
AdvanceMigration(c, i, target) ==
  /\ ValidateAuthority(c) /\ i \in Recorded /\ PlanIsCurrent(plans[i], c)
  /\ LegalMigrationTransition(plans[i].state, target)
  /\ plans' = [plans EXCEPT ![i].state = target]
  /\ members' = IF target = "Committed"
                THEN [members EXCEPT ![plans[i].source] = ReleasedSource(@)]
                ELSE members
  /\ generation' = NextGen(generation)
  /\ UNCHANGED <<mode, epoch, policy, workloads, decisions, aged>>
  /\ Persist(FALSE)

(* The caller's reason is stored as it is.                                 *)
AbortMigration(c, i, reason) ==
  /\ ValidateAuthority(c) /\ InFlight(plans[i])
  /\ plans' = [plans EXCEPT ![i] = [@ EXCEPT !.state = "Aborted", !.reasons = reason]]
  /\ generation' = NextGen(generation)
  /\ UNCHANGED <<mode, epoch, policy, members, workloads, decisions, aged>>
  /\ Persist(FALSE)

-----------------------------------------------------------------------------
(* Explicit persist, shutdown and the passing of time.                     *)

ForcePersist ==
  /\ mode # "down"
  /\ UNCHANGED <<mode, epoch, generation, memory, aged>>
  /\ Persist(TRUE)

Shutdown ==
  /\ mode = "up" /\ mode' = "shutdown"
  /\ UNCHANGED <<epoch, generation, memory, aged>>
  /\ Persist(FALSE)

EvidenceAges(a) ==
  /\ mode # "down" /\ a \in Known \ aged
  /\ aged' = aged \cup {a}
  /\ UNCHANGED <<mode, epoch, generation, memory, store>>

Mutate(c) ==
  \/ \E a \in Accelerators, caps \in Capabilities, local \in BOOLEAN :
       \/ ObserveNew(c, a, caps, local)
       \/ ObserveAgain(c, a, caps, local)
       \/ UpdateCapabilities(c, a, caps, local)
  \/ \E a \in Accelerators, target \in MemberStates : Transition(c, a, target)
  \/ \E p \in Policies : SetPolicy(c, p)
  \/ \E w \in Workloads, r \in Profiles : RegisterWorkload(c, w, r)
  \/ \E w \in Workloads, s, d \in Accelerators : PlanMigration(c, w, s, d)
  \/ \E w \in Workloads, s \in Accelerators : PlanOntoItself(c, w, s)
  \/ \E i \in PlanIds, target \in MigrationStates : AdvanceMigration(c, i, target)
  \/ \E i \in PlanIds, reason \in AbortReasons : AbortMigration(c, i, reason)

Unclaimed ==
  \/ Open \/ Crash \/ Shutdown \/ ForcePersist \/ InvalidateStaleDecisions
  \/ \E a \in Accelerators : EvidenceAges(a)
  \/ \E w \in Workloads, a \in Accelerators, s \in Accelerators \cup {NoSource} :
       Evaluate(w, a, s)

Next == Unclaimed \/ \E c \in Claims : Mutate(c)

Spec == Init /\ [][Next]_vars

-----------------------------------------------------------------------------
(* Properties.                                                             *)

RetiredIn(ms) == {a \in Accelerators : ms[a] # NoMember /\ IsTerminalState(ms[a].state)}

DurablyRetired == IF store = NoSnapshot THEN {} ELSE RetiredIn(store.members)

(* Every member of a running federation is stamped with the epoch and the  *)
(* policy in force, whatever mix of observations, transitions, policy      *)
(* changes and recoveries brought it there (claims and the audit compare   *)
(* these stamps).                                                          *)
MembersFollowAuthority ==
  mode # "down" => \A a \in Known : members[a].epoch = epoch /\ members[a].policy = policy

(* A restarted agent's device is never represented twice: of the           *)
(* incarnations of one physical device under one agent, at most one is not *)
(* retired (observe() retires the others, nothing brings them back).       *)
OneLiveIncarnation ==
  \A a, b \in Known :
    a # b /\ PhysicalDevice[a] = PhysicalDevice[b] /\ Agent[a] = Agent[b]
      => IsTerminalState(members[a].state) \/ IsTerminalState(members[b].state)

(* Retirement is for good: no operation revives a retired incarnation, no  *)
(* write to the store takes a retirement back, and every later run knows   *)
(* the retirements that reached the store, whichever writes failed.        *)
RetiredForever ==
  [][/\ DurablyRetired \subseteq DurablyRetired'
     /\ mode' # "down" => DurablyRetired \subseteq RetiredIn(members')
     /\ mode # "down" /\ mode' # "down" => RetiredIn(members) \subseteq RetiredIn(members')]_vars

(* With a write per mutation every start of the coordinator gets an epoch  *)
(* larger than that of every earlier run, also when writes fail, so claims *)
(* of an earlier run can be told apart.                                    *)
EpochRises ==
  [][mode = "down" /\ mode' = "up" => epoch' > epoch \/ epoch = MaxValue]_vars

(* While a federation runs, no change of members, policy, workloads or     *)
(* plans leaves the federation generation where it was: two different      *)
(* authoritative states of a run never share a generation.                 *)
AuthorityAdvances ==
  [][mode # "down" /\ mode' # "down" /\ generation # MaxValue
       /\ <<policy, members, workloads, plans>>' # <<policy, members, workloads, plans>>
     => generation' = generation + 1 /\ epoch' = epoch]_vars

(* Nothing derived under an earlier policy or epoch is still in force: a   *)
(* recorded decision and a plan in flight belong to the current ones.      *)
NoWorkFromOldAuthority ==
  /\ \A d \in decisions : d.epoch = epoch /\ d.policy = policy /\ d.generation <= generation
  /\ \A i \in PlanIds : InFlight(plans[i]) => plans[i].epoch = epoch /\ plans[i].policy = policy

(* A decision that decision_is_current() accepts is what evaluating now    *)
(* would give, but for evidence that has aged since it was taken.          *)
DecisionsReproducible ==
  generation < MaxValue =>
    \A d \in decisions : DecisionIsCurrent(d) =>
      \E fresh \in {EvidenceFresh(d.accelerator), ~members[d.accelerator].revalidate} :
        d.outcome = OutcomeWith(d.workload, d.accelerator, d.source, fresh)

(* A plan that reached Committed, Aborted or Refused keeps that state, in  *)
(* memory and in the store, through every later operation and restart.     *)
TerminalPlansStay ==
  [][generation < MaxValue => \A i \in PlanIds :
       /\ mode # "down" /\ mode' # "down" /\ plans[i] # NoPlan /\ ~InFlight(plans[i])
            => plans'[i] = plans[i]
       /\ store # NoSnapshot /\ store.plans[i] # NoPlan /\ ~InFlight(store.plans[i])
            => store'.plans[i] = store.plans[i]]_vars

(* What a reader can see of members, policy, workloads, decisions and      *)
(* plans has been written to the store.                                    *)
ReadersSeeDurableState ==
  mode # "down" /\ PersistMode = "mutation" =>
    /\ store # NoSnapshot
    /\ [store EXCEPT !.generation = generation] = Snapshot

-----------------------------------------------------------------------------
(* What the documentation, a comment or the audit says and the code does   *)
(* not ensure; each is refuted by a run of its own.                        *)

(* federation.hpp: a store that holds a snapshot of this federation is     *)
(* recovered by open().                                                    *)
StoreReopens == store # NoSnapshot => Decodable(store)

(* README: the currency of a plan includes the workload revision, so a     *)
(* plan made for another revision does not advance.                        *)
AdvancedPlansMatchWorkload ==
  [][\A i \in Recorded :
       mode' = "up" /\ plans'[i] # plans[i] /\ plans'[i].state # "Aborted"
         => plans[i].revision = workloads[plans[i].workload]]_vars
=============================================================================
