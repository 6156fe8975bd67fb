----------------------------- MODULE AdapterCases -----------------------------
(* What agents advertise and what the engines answer for it, and what must *)
(* hold of the answers.                                                    *)
EXTENDS Adapters, Cases

AnswerShipped(m) ==
  [decision |-> EvaluateCompatibility(m.workload, m.source.caps,
                  [accelerator |-> "dst", caps |-> m.destination.caps, provenance |-> m.destination.provenance,
                   fresh |-> TRUE, acceptsWork |-> TRUE], m.policy),
   plan |-> PlanMove(m.workload, m.source.caps, m.destination.caps, m.policy, m.destination.provenance)]

AdapterAnswer ==
  \/ input.kind = "agent" /\ answer' = AgentDevices(input.option, input.machine)
  \/ input.kind = "shipped" /\ answer' = AnswerShipped(input)

-----------------------------------------------------------------------------
(* Properties.                                                             *)

Stated(d, key) == d.caps.records[key].value

(* An agent describes its hardware completely or not at all: real devices  *)
(* are reported only where they are, all of them, each under a name of its *)
(* own and never beside the model of one; whatever is reported has records *)
(* of the kinds the taxonomy asks for, and says of itself what its         *)
(* descriptor says.  An agent that may model devices always has one to     *)
(* advertise, and a CUDA device that is alone reports its own free memory. *)
AgentsDescribeTheirHardware ==
  Answered("agent") =>
    LET real == {d \in answer : d.provenance = "Real"}
        devices == input.machine.devices
    IN /\ real # {} => input.machine.compiled /\ input.option \in {"real", "all"}
                         /\ ExistsBijection(DOMAIN devices, real) /\ \A i \in DOMAIN devices : devices[i].readable
       /\ \A d, e \in answer : d.device = e.device => d = e
       /\ \A d \in real, e \in answer \ real : Stated(d, VendorId) # Stated(e, VendorId)
       /\ \A d \in answer : /\ RecordsValid(d.caps.records)
                             /\ Stated(d, ProvenanceKey) = Token(IF d \in real THEN "real" ELSE "synthetic")
       /\ input.option # "real" => answer # {}
       /\ Len(devices) = 1 => \A d \in real : Stated(d, MemoryFree).number <= Stated(d, MemoryTotal).number

StateSteps == {"export-state", "restore-state", "transfer-state"}

(* No two devices of the shipped adapters can exchange state: whatever the *)
(* workload and the policy ask for, the class is Native (when a code       *)
(* object target is shared) or RecompileRequired, a live transfer is       *)
(* neither eligible nor planned, and no plan exports, restores or          *)
(* transfers state.  An eligible decision obeys the policy on modelled     *)
(* devices.  Nothing in the core vocabulary is unknown of any of them, the *)
(* partially evidenced one included.                                       *)
ShippedDevicesKeepTheirState ==
  Answered("shipped") =>
    LET shared == SharedCodeObject(input.source.caps, input.destination.caps)
        steps == answer.plan.steps
    IN /\ answer.decision.portability = IF shared THEN "Native" ELSE "RecompileRequired"
       /\ answer.plan.portability = answer.decision.portability
       /\ input.workload.need = "LiveStateTransfer" =>
            answer.decision.outcome = "Ineligible" /\ answer.plan.state = "Refused"
       /\ steps \cap StateSteps = {}
       /\ answer.decision.outcome = "Eligible" =>
            input.policy.synthetic \in {"Allow", IF input.destination.provenance = "Real" THEN "Reject" ELSE "Require"}
       /\ \A k \in CoreKeys : KnownIn(input.destination.caps, k)
=============================================================================
