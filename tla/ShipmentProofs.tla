--------------------------- MODULE ShipmentProofs ---------------------------
(***************************************************************************)
(* The engines on what the adapters advertise, proved: no two devices that *)
(* agents advertise exchange state, whatever is moved under whatever       *)
(* policy.                                                                 *)
(*                                                                         *)
(* ShipmentsSpec asks about any input of its type, where MCFunctions       *)
(* enumerates some.                                                        *)
(***************************************************************************)
EXTENDS EngineProofs, AdapterProofs

(* Any workload moved under any policy between any two such devices.       *)
Shipments ==
  [kind: {"shipped"}, source: Advertised, destination: Advertised, workload: Workloads, policy: Policies]

(* A plan is made or refused.                                              *)
LEMMA PlanStates ==
  ASSUME NEW w, NEW src, NEW dst, NEW policy, NEW provenance,
         NEW plan, plan = PlanMove(w, src, dst, policy, provenance)
  PROVE  plan.state \in {"Planned", "Refused"}
<1> DEFINE class == ClassifyPortability(src, dst, StatedVendor(src), StatedVendor(dst), policy.crossVendor)
           outcome == DeriveOutcome(class, w, SupportedIn(dst, StateReconstruction),
                                    BothSupport(src, dst, CheckpointRestore), BothSupport(src, dst, LiveTransfer))
           refusals == Refusals(w, policy, class, src, dst, SameVendor(src, dst), provenance)
           cost == 100 * TransformationSteps(class) + Cardinality(StepsFor(outcome))
           planned == [state |-> "Planned", portability |-> class, outcome |-> outcome, steps |-> StepsFor(outcome),
                       cost |-> cost]
<1>1. plan = IF refusals # {} THEN RefusedPlan(class, IF class = "Unknown" THEN "Unknown" ELSE "Unsupported")
             ELSE IF outcome = "Unsupported" THEN RefusedPlan(class, outcome)
             ELSE planned
  BY Zenon DEF PlanMove, SameVendor
<1> HIDE DEF refusals, outcome, class, cost
<1>2. planned.state = "Planned"
  OBVIOUS
<1>3. \A x : RefusedPlan(class, x).state = "Refused"
  BY DEF RefusedPlan
<1> HIDE DEF planned
<1> QED BY <1>1, <1>2, <1>3

(* ShippedDevicesKeepTheirState for a move of any workload under any       *)
(* policy.                                                                 *)
LEMMA ShipmentIsSound ==
  ASSUME input \in Shipments, answer = AnswerShipped(input)
  PROVE  ShippedDevicesKeepTheirState
<1> DEFINE src == input.source.caps
           dst == input.destination.caps
           provenance == input.destination.provenance
           w == input.workload
           policy == input.policy
           target == [accelerator |-> "dst", caps |-> dst, provenance |-> provenance, fresh |-> TRUE,
                      acceptsWork |-> TRUE]
           class == IF SharedCodeObject(src, dst) THEN "Native" ELSE "RecompileRequired"
           findings == Findings(w, src, target, policy)
           plan == PlanMove(w, src, dst, policy, provenance)
           outcome == DeriveOutcome(class, w, SupportedIn(dst, StateReconstruction),
                                    BothSupport(src, dst, CheckpointRestore), BothSupport(src, dst, LiveTransfer))
<1>1. /\ input.source \in Advertised /\ input.destination \in Advertised
      /\ w \in Workloads /\ policy \in Policies
  BY DEF Shipments
<1>2. w.need \in Needs /\ policy.synthetic \in {"Allow", "Reject", "Require"}
  BY <1>1 DEF Workloads, Policies
<1>3. PICK v, a, T : Portrays(src, v, a, T)
  BY <1>1, AdvertisedPortrayed
<1>4. PICK u, b, U : Portrays(dst, u, b, U)
  BY <1>1, AdvertisedPortrayed
<1>5. provenance \in {"Real", "Synthetic"}
  BY <1>1, AdvertisedPortrayed
<1>6. target.caps = dst /\ target.provenance = provenance
  OBVIOUS
<1>7. answer.plan = plan /\ answer.decision = EvaluateCompatibility(w, src, target, policy)
  BY Zenon DEF AnswerShipped
<1> HIDE DEF src, dst, provenance, w, policy, target, class
<1>8. src # NoOrigin /\ ~BothSupport(src, dst, LiveTransfer) /\ ~BothSupport(src, dst, CheckpointRestore)
  BY <1>3 DEF Portrays, BothSupport
<1>9. /\ StatedVendor(src) = {v} /\ StatedVendor(dst) = {u} /\ SupportedVendor(dst) = {u}
      /\ ClassifyPortability(src, dst, {v}, {u}, policy.crossVendor) = class
  BY <1>3, <1>4, PortrayedClass DEF class
<1>10. DecisionClass(src, target, policy) = class
  BY <1>6, <1>8, <1>9 DEF DecisionClass
<1>11. answer.decision.portability = class /\ answer.decision.outcome = OutcomeOf(findings)
  <2> DEFINE score == MapThenSumSet(LAMBDA r : RequirementScore(r, target, policy), w.requirements)
                        - 100 * TransformationSteps(DecisionClass(src, target, policy))
                        - ProvenancePenalty(target.provenance) + FreeMemoryScore(target)
  <2>1. answer.decision = [outcome |-> OutcomeOf(findings), portability |-> DecisionClass(src, target, policy),
                           provenance |-> target.provenance, score |-> score]
    BY <1>7, Zenon DEF EvaluateCompatibility
  <2> HIDE DEF findings, score
  <2> QED BY <2>1, <1>10
<1>12. class \in {"Native", "RecompileRequired"}
  BY DEF class
<1>13. /\ plan.portability = class
       /\ plan.state = "Planned" => outcome # "Unsupported" /\ plan.steps = StepsFor(outcome)
       /\ plan.state # "Planned" => plan.steps = {}
  <2>1. class = ClassifyPortability(src, dst, StatedVendor(src), StatedVendor(dst), policy.crossVendor)
    BY <1>9
  <2>2. plan = PlanMove(w, src, dst, policy, provenance)
    OBVIOUS
  <2>3. outcome = DeriveOutcome(class, w, SupportedIn(dst, StateReconstruction),
                                BothSupport(src, dst, CheckpointRestore), BothSupport(src, dst, LiveTransfer))
    OBVIOUS
  <2> HIDE DEF outcome, plan
  <2>4. plan.portability = class
    BY <2>1, <2>2, <2>3, PlanShape
  <2>5. plan.state = "Planned" => outcome # "Unsupported"
    BY <2>1, <2>2, <2>3, PlanShape
  <2>6. plan.state = "Planned" => plan.steps = StepsFor(outcome)
    BY <2>1, <2>2, <2>3, PlanShape
  <2>7. plan.state # "Planned" => plan.steps = {}
    BY <2>1, <2>2, <2>3, PlanShape
  <2> QED BY <2>4, <2>5, <2>6, <2>7
<1>14. plan.state \in {"Planned", "Refused"}
  BY PlanStates, Zenon
<1>15. /\ outcome \in {"RepackageAndRestart", "Reconstruct", "Restart", "Unsupported"}
       /\ w.need = "LiveStateTransfer" => outcome = "Unsupported"
  <2>1. /\ outcome \in {"MoveNativeState", "RestoreCheckpoint", "RecompileThenRestore", "RepackageAndRestart",
                        "Reconstruct", "Restart", "Unsupported"}
        /\ outcome = "MoveNativeState" => class = "LiveMigrationSupported" /\ BothSupport(src, dst, LiveTransfer)
        /\ outcome \in {"RestoreCheckpoint", "RecompileThenRestore"} => BothSupport(src, dst, CheckpointRestore)
    BY <1>2, OutcomeMeans
  <2>2. w.need = "LiveStateTransfer" => outcome = "Unsupported"
    BY <1>12 DEF DeriveOutcome
  <2> HIDE DEF outcome
  <2> QED BY <2>1, <2>2, <1>8
<1> HIDE DEF plan, outcome
<1>16. plan.steps \cap StateSteps = {}
  <2>1. ASSUME plan.state = "Planned" PROVE plan.steps \cap StateSteps = {}
    <3>1. outcome \in {"RepackageAndRestart", "Reconstruct", "Restart"} /\ plan.steps = StepsFor(outcome)
      BY <2>1, <1>13, <1>15
    <3>2. /\ "transfer-state" \in StepsFor(outcome) => outcome = "MoveNativeState"
          /\ {"export-state", "restore-state"} \cap StepsFor(outcome) # {} =>
               outcome \in {"RestoreCheckpoint", "RecompileThenRestore"}
      BY <3>1, StepsMean
    <3> QED BY <3>1, <3>2 DEF StateSteps
  <2> QED BY <2>1, <1>13
<1>17. w.need = "LiveStateTransfer" => OutcomeOf(findings) = "Ineligible" /\ plan.state = "Refused"
  <2> SUFFICES ASSUME w.need = "LiveStateTransfer" PROVE OutcomeOf(findings) = "Ineligible" /\ plan.state = "Refused"
    OBVIOUS
  <2>1. Fail("Need") \in PortabilityFindings(w, policy, class)
    BY <1>12 DEF PortabilityFindings, When
  <2>2. Fail("Need") \in findings
    BY <2>1, <1>8, <1>10, Zenon DEF Findings
  <2>3. Fail("Need").effect = "fail"
    BY DEF Fail
  <2> HIDE DEF findings
  <2> QED BY <2>2, <2>3, <1>13, <1>14, <1>15 DEF OutcomeOf
<1>18. OutcomeOf(findings) = "Eligible" =>
         policy.synthetic \in {"Allow", IF provenance = "Real" THEN "Reject" ELSE "Require"}
  <2> SUFFICES ASSUME OutcomeOf(findings) = "Eligible",
                      policy.synthetic \notin {"Allow", IF provenance = "Real" THEN "Reject" ELSE "Require"}
               PROVE  FALSE
    OBVIOUS
  <2>1. \/ policy.synthetic = "Reject" /\ target.provenance # "Real"
        \/ policy.synthetic = "Require" /\ target.provenance # "Synthetic"
    BY <1>2, <1>5, <1>6
  <2>2. Fail("Synthetic") \in PolicyFindings(w, target, policy)
    BY <2>1, Zenon DEF PolicyFindings, When
  <2>3. Fail("Synthetic") \in findings
    BY <2>2, Zenon DEF Findings
  <2>4. Fail("Synthetic").effect = "fail"
    BY DEF Fail
  <2> HIDE DEF findings
  <2> QED BY <2>3, <2>4, EligibleFinds
<1>19. \A k \in CoreKeys : KnownIn(dst, k)
  BY <1>4, Zenon DEF Portrays
<1> HIDE DEF findings
<1>20. /\ answer.decision.portability = class /\ answer.plan.portability = answer.decision.portability
       /\ w.need = "LiveStateTransfer" => answer.decision.outcome = "Ineligible" /\ answer.plan.state = "Refused"
       /\ answer.plan.steps \cap StateSteps = {}
       /\ answer.decision.outcome = "Eligible" =>
            policy.synthetic \in {"Allow", IF provenance = "Real" THEN "Reject" ELSE "Require"}
  BY <1>7, <1>11, <1>13, <1>16, <1>17, <1>18
<1> QED BY <1>19, <1>20, Zenon DEF ShippedDevicesKeepTheirState, src, dst, w, policy, provenance, class

-----------------------------------------------------------------------------
(* Moves between the devices agents advertise.                             *)

ShipmentsInit == input \in Shipments /\ answer = None
ShipmentsNext == answer = None /\ AdapterAnswer /\ UNCHANGED input
ShipmentsSpec == ShipmentsInit /\ [][ShipmentsNext]_<<input, answer>>

(* The input is of its type, and the answer, once there, is the program's. *)
ShipmentsInv ==
  /\ input \in Shipments
  /\ answer # None => answer = AnswerShipped(input)

(* ShipmentsInv is an invariant.                                           *)
THEOREM ShipmentsAnswer == ShipmentsSpec => []ShipmentsInv
<1>1. ShipmentsInit => ShipmentsInv
  BY Zenon DEF ShipmentsInit, ShipmentsInv
<1>2. ShipmentsInv /\ [ShipmentsNext]_<<input, answer>> => ShipmentsInv'
  <2> SUFFICES ASSUME ShipmentsInv, [ShipmentsNext]_<<input, answer>>
               PROVE  ShipmentsInv'
    OBVIOUS
  <2>1. CASE UNCHANGED <<input, answer>>
    BY <2>1, Zenon DEF ShipmentsInv
  <2>2. CASE ShipmentsNext
    <3>1. input' = input
      BY <2>2, Zenon DEF ShipmentsNext
    <3>2. answer' = AnswerShipped(input)
      BY <2>2 DEF ShipmentsNext, AdapterAnswer, ShipmentsInv, Shipments
    <3> QED BY <3>1, <3>2, Zenon DEF ShipmentsInv
  <2> QED BY <2>1, <2>2
<1> QED BY <1>1, <1>2, PTL DEF ShipmentsSpec

(* Whatever workload is moved under whatever policy between two devices    *)
(* agents advertise, on whatever machines, no state is exchanged:          *)
(* ShippedDevicesKeepTheirState.                                           *)
THEOREM ShippedKeepState == ShipmentsSpec => []ShippedDevicesKeepTheirState
<1>1. ShipmentsInv => ShippedDevicesKeepTheirState
  <2> SUFFICES ASSUME ShipmentsInv, Answered("shipped")
               PROVE  ShippedDevicesKeepTheirState
    BY Zenon DEF ShippedDevicesKeepTheirState
  <2>1. input \in Shipments
    BY DEF ShipmentsInv
  <2>2. answer = AnswerShipped(input)
    BY Zenon DEF ShipmentsInv, Answered
  <2> QED BY <2>1, <2>2, ShipmentIsSound
<1> QED BY <1>1, ShipmentsAnswer, PTL
=============================================================================
