-------------------------------- MODULE Audit --------------------------------
(***************************************************************************)
(* audit_snapshot of engine/audit.cpp: what it reports of a snapshot, as   *)
(* pairs of a code and the entity it is about.  Rules about identities     *)
(* that the model derives from one another (ownership, device generation,  *)
(* fingerprints, the policy's generation) cannot fail here and are left    *)
(* out; so are those that repeat the validation done when a capability     *)
(* set, a workload or evidence was accepted (capability.invalid,           *)
(* evidence.subject, workload.invalid).                                    *)
(***************************************************************************)
EXTENDS Federation

Finding(code, subjects) == {<<code, x>> : x \in subjects}

MembersIn(s) == {a \in Accelerators : s.members[a] # NoMember}
PlansIn(s) == {i \in PlanIds : s.plans[i] # NoPlan}
LiveIn(s) == {a \in MembersIn(s) : IsLive(s.members[a].state)}

MembershipFindings(s) ==
  Finding("membership.capability_generation",
          {a \in MembersIn(s) : s.members[a].descriptorCapGen # s.members[a].capGen})
    \cup Finding("membership.epoch", {a \in LiveIn(s) : s.members[a].epoch > s.epoch})
    \cup Finding("membership.evidence", {a \in LiveIn(s) : s.members[a].evidGen = 0})
    \cup Finding("membership.duplicate_live_boot",
                 {PhysicalDevice[a] : a \in {a \in LiveIn(s) :
                    \E b \in LiveIn(s) : PhysicalDevice[b] = PhysicalDevice[a] /\ Boot[b] # Boot[a]}})
    \cup Finding("lifecycle.history", {a \in MembersIn(s) : s.members[a].history = 0})

(* The capability generation of a decision is compared with that of the    *)
(* descriptor, not of the member's record.                                 *)
DecisionFindings(s) ==
  Finding("decision.accelerator", {d \in s.decisions : d.accelerator \notin MembersIn(s)})
    \cup Finding("decision.policy", {d \in s.decisions : d.policy # s.policy})
    \cup Finding("decision.workload", {d \in s.decisions : s.workloads[d.workload] = NoProfile})
    \cup Finding("decision.stale_capability",
                 {d \in s.decisions : d.accelerator \in MembersIn(s)
                                        /\ d.capGen # s.members[d.accelerator].descriptorCapGen})

(* Plans of every state are audited, finished ones too.                    *)
PlanFindings(s) ==
  LET placed == {i \in PlansIn(s) : {s.plans[i].source, s.plans[i].destination} \subseteq MembersIn(s)}
      CapGenOf(a) == s.members[a].descriptorCapGen
  IN Finding("migration.endpoint", PlansIn(s) \ placed)
       \cup Finding("migration.source_capability",
                    {i \in placed : CapGenOf(s.plans[i].source) # s.plans[i].sourceCapGen})
       \cup Finding("migration.destination_capability",
                    {i \in placed : CapGenOf(s.plans[i].destination) # s.plans[i].destinationCapGen})
       \cup Finding("migration.self", {i \in PlansIn(s) : s.plans[i].source = s.plans[i].destination})
       \cup Finding("migration.policy", {i \in PlansIn(s) : s.plans[i].policy # s.policy})
       \cup Finding("migration.refusal",
                    {i \in PlansIn(s) : s.plans[i].state = "Refused" /\ s.plans[i].reasons = "none"})
       \cup Finding("migration.double_authority",
                    {s.plans[i].workload : i \in {i \in PlansIn(s) : \E j \in PlansIn(s) \ {i} :
                       /\ s.plans[i].state = "Committed" /\ s.plans[j].state = "Committed"
                       /\ s.plans[i].workload = s.plans[j].workload}})

CapabilityFindings(s) == Finding("capability.empty", {a \in MembersIn(s) : s.members[a].caps \in EmptySets})

AuditSnapshot(s) ==
  MembershipFindings(s) \cup DecisionFindings(s) \cup PlanFindings(s) \cup CapabilityFindings(s)

-----------------------------------------------------------------------------

(* The codes that the operations of the federation do lead to: a policy or *)
(* capability change makes earlier plans and decisions out of date, a      *)
(* refresh resets the descriptor's capability generation, two agents may   *)
(* share a device, two plans for a workload may commit, a plan may be      *)
(* advanced to Refused without a reason, and an update may leave a member  *)
(* without capabilities.                                                   *)
DriftCodes ==
  {"membership.capability_generation", "membership.duplicate_live_boot", "decision.stale_capability",
   "migration.source_capability", "migration.destination_capability", "migration.policy",
   "migration.refusal", "migration.double_authority", "capability.empty"}

(* The structural half of the audit holds of every state a reader can see  *)
(* and of every snapshot a restart can find: no sequence of operations,    *)
(* failures of the process included, records a decision or a plan about a  *)
(* missing member or workload, a decision under another policy, a move     *)
(* onto itself, or a live member from a later epoch or without evidence.   *)
StructurallySound ==
  LET seen == {IF mode = "down" THEN store ELSE Snapshot, store} \ {NoSnapshot}
  IN \A s \in seen : \A f \in AuditSnapshot(s) : f[1] \in DriftCodes

(* include/haf/engine/audit.hpp: the audit checks what the federation      *)
(* maintains and reports zero violations.  The operations of the           *)
(* federation alone refute it.                                             *)
AuditIsClean == mode # "down" => AuditSnapshot(Snapshot) = {}
=============================================================================
