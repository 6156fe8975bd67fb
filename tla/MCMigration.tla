----------------------------- MODULE MCMigration -----------------------------
(* Instances of Federation about decisions and migration plans.  A plan    *)
(* needs some fifteen operations to be committed, so these runs start from *)
(* states the setup leads to: both accelerators observed, admitted and     *)
(* activated, the workload registered, and no plan, or one validated,      *)
(* transferring or verified; the other stages are one mutation away.       *)
EXTENDS Audit, Sequences, TLC

CONSTANTS a1, a2, c0, c1, c2, p1, p2, w1, r1, r2, i1, i2,
          MutationBound  \* mutations explored after the setup

MCDevice == [a \in Accelerators |-> IF a = a1 THEN "gpu1" ELSE "gpu2"]
MCAgent == [a \in Accelerators |-> IF a = a1 THEN "agent1" ELSE "agent2"]
MCBoot == [a \in Accelerators |-> IF a = a1 THEN "boot1" ELSE "boot2"]

MCUnchecked == {[generation |-> Unchecked, epoch |-> Unchecked, agent |-> Unchecked, boot |-> Unchecked,
                 capGen |-> Unchecked, policy |-> Unchecked]}

(* c0 is the set without a record, which only an update can bring.         *)
MCEmpty == {c0} \cap Capabilities
MCAdvertisable == [a \in Accelerators |-> Capabilities \ {c0}]

(* What the engines decide, as a table: r1 needs a feature only c1 has; r2 *)
(* also needs free memory, evidence of which decays.                       *)
MCVerdict(p, r, c, s, fresh) ==
  CASE c = c2 -> "Ineligible"
    [] c = c0 \/ (r = r2 /\ ~fresh) -> "Unknown"
    [] OTHER -> "Eligible"

MCPortable(p, r, s, d) == c0 \notin {s, d}

(* The same contents spelled out for the engines.                          *)
E == INSTANCE Engines

Feature == <<"x", "feature">>
Says(value) == [state |-> "Supported", value |-> value]

Caps(c) ==
  LET common == (E!VendorId :> Says(E!Token("v"))) @@ (E!Architecture :> Says(E!Token("a")))
                  @@ (E!CodeObjects :> Says(E!TokenSet({"t"}))) @@ (E!RuntimeFamily :> Says(E!Token("r")))
  IN IF c = NoSource THEN E!NoOrigin
     ELSE IF c = c0 THEN [records |-> <<>>, closed |-> {}]
     ELSE [records |-> IF c = c1
                       THEN common @@ (Feature :> Says(E!TokenSet({"f"}))) @@ (E!MemoryFree :> Says(E!IntegerValue(4)))
                       ELSE common,
           closed |-> {"x"}]

Need(key, op, value) ==
  [key |-> key, op |-> op, value |-> value, range |-> <<>>, strength |-> "Hard", weight |-> 0]

Profile(r) ==
  [requirements |-> {Need(Feature, "Present", E!TokenSet({"f"}))}
                      \cup (IF r = r2 THEN {Need(E!MemoryFree, "AtLeast", E!IntegerValue(2))} ELSE {}),
   tags |-> {}, minPortability |-> "Unsupported", mode |-> "Any", need |-> "RestartOnly", reconstruction |-> FALSE]

PolicyContent(p) ==
  [allowDegraded |-> FALSE, forbiddenAccelerators |-> {}, allowedVendors |-> {}, forbiddenVendors |-> {},
   deprecated |-> {}, minRuntime |-> <<>>, minMemory |-> 0, required |-> {}, denied |-> {}, tags |-> {p},
   synthetic |-> "Allow", crossVendor |-> FALSE, crossReconstruction |-> FALSE, classes |-> {}]

(* The tables are what the engines answer.                                 *)
ASSUME TablesAgree ==
  \A p \in Policies, r \in Profiles, c \in Capabilities :
    /\ \A s \in Capabilities \cup {NoSource}, fresh \in BOOLEAN :
         MCVerdict(p, r, c, s, fresh) =
           E!EvaluateCompatibility(Profile(r), Caps(s),
             [accelerator |-> "any", caps |-> Caps(c), provenance |-> "Real", fresh |-> fresh,
              acceptsWork |-> TRUE], PolicyContent(p)).outcome
    /\ \A s \in Capabilities :
         MCPortable(p, r, s, c) =
           (E!PlanMove(Profile(r), Caps(s), Caps(c), PolicyContent(p), "Real").state = "Planned")

(* Opening, observing, admitting and activating two accelerators and       *)
(* registering the workload take the generation to 8; a plan and four      *)
(* advances, or as many repeated registrations, to 13.                     *)
SetupGeneration == 13

Stages == <<"Planned", "Validated", "Prepared", "Transferring", "Verified">>

SetupMember == [state |-> "Active", epoch |-> 1, policy |-> DefaultPolicy, caps |-> c1,
                capGen |-> 1, descriptorCapGen |-> 1, evidGen |-> 1,
                revalidate |-> FALSE, history |-> 4]

PlanAtStage(k) ==
  [epoch |-> 1, generation |-> SetupGeneration + 1 - k, policy |-> DefaultPolicy,
   workload |-> w1, revision |-> r1, source |-> a1, sourceCapGen |-> 1,
   destination |-> a2, destinationCapGen |-> 1, state |-> Stages[k], reasons |-> "none"]

AfterSetup ==
  /\ mode = "up" /\ epoch = 1 /\ generation = SetupGeneration
  /\ policy = DefaultPolicy
  /\ members = [a \in Accelerators |-> SetupMember]
  /\ workloads = [w \in Workloads |-> r1]
  /\ decisions = {}
  /\ plans \in {NoPlans}
       \cup {[NoPlans EXCEPT ![i] = PlanAtStage(k)] : i \in PlanIds \ {i2}, k \in {2, 4, 5}}
  /\ aged = {}
  /\ store = Snapshot

(* The mutations explored after the setup are bounded, a restart being one *)
(* more; nothing crashes beyond the bound.                                 *)
WithinBound(g) == g <= SetupGeneration + MutationBound

BoundedNext ==
  /\ Next
  /\ \/ WithinBound(generation')
     \/ WithinBound(generation) /\ mode = "down"
     \/ generation' = generation /\ mode' # "down"

SetupSpec == AfterSetup /\ [][BoundedNext]_vars
=============================================================================
