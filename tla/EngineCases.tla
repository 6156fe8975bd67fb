----------------------------- MODULE EngineCases -----------------------------
(* What the engines answer, and what must hold of the answers.             *)
EXTENDS Engines, Cases

Needs == {"None", "RestartOnly", "CheckpointRestore", "LiveStateTransfer"}

Target(caps, fresh) ==
  [accelerator |-> "dst", caps |-> caps, provenance |-> "Real", fresh |-> fresh, acceptsWork |-> TRUE]

AnswerMove(m) ==
  [decision |-> EvaluateCompatibility(m.workload, m.source, Target(m.destination, TRUE), m.policy),
   plan |-> PlanMove(m.workload, m.source, m.destination, m.policy, "Real")]

AnswerFit(q) == EvaluateCompatibility(q.workload, NoOrigin, Target(q.caps, q.fresh), q.policy)

AnswerVersions(t) == <<VersionBelow(t[1], t[2]), VersionBelow(t[2], t[3]), VersionBelow(t[1], t[3])>>

EngineAnswer ==
  \/ input.kind = "move" /\ answer' = AnswerMove(input)
  \/ input.kind = "fit" /\ answer' = AnswerFit(input)
  \/ input.kind = "versions" /\ answer' = AnswerVersions(input.versions)

-----------------------------------------------------------------------------
(* What may be learned of an accelerator, and what may be preferred.       *)

Evidence(state, value) == [state |-> state, value |-> value]
Feature == <<"x", "feature">>
V(major, minor, pre) == [core |-> <<major, minor, 0>>, pre |-> pre]

Require(key, op, value, range) ==
  [key |-> key, op |-> op, value |-> value, range |-> range, strength |-> "Hard", weight |-> 0]

Soft(r) == [r EXCEPT !.strength = "Soft", !.weight = 3]
Preferences == {Soft(Require(MemoryFree, "GreaterThan", IntegerValue(2), <<>>)),
                Soft(Require(Feature, "SupersetOf", TokenSet({"t2"}), <<>>))}

WithStates(values, states) == {Evidence(s, v) : s \in states, v \in values}
Learned ==
  (MemoryFree :> WithStates({IntegerValue(n) : n \in 1..3}, {"Supported", "Degraded", "Unsupported"}))
    @@ (Feature :> WithStates({TokenSet(ts) : ts \in {{"t1"}, {"t2"}, {"t1", "t2"}}}, {"Supported", "Degraded", "Unsupported"}))
    @@ (RuntimeVersion :> WithStates({VersionValue(v) : v \in {V(1, 0, <<>>), V(1, 1, <<11>>), V(1, 1, <<>>), V(1, 2, <<>>), V(2, 0, <<>>)}},
                                     {"Supported"}))

-----------------------------------------------------------------------------
(* Properties.                                                             *)

PortabilityInputs == {VendorId, Architecture, CodeObjects, RuntimeFamily}

(* A move is eligible or planned only on evidence for all four inputs of   *)
(* the classifier on both sides, and a plan that moves state is one both   *)
(* ends can carry out: no export, restore, transfer or reconstruction step *)
(* without the capability, and no live transfer across vendors unless both *)
(* support it and the policy permits it.                                   *)
PlannedMovesAreSupported ==
  Answered("move") /\ (answer.plan.state = "Planned" \/ answer.decision.outcome = "Eligible") =>
    LET steps == answer.plan.steps
        can(key) == BothSupport(input.source, input.destination, key)
    IN /\ \A caps \in {input.source, input.destination}, key \in PortabilityInputs :
            Lookup(caps, key).state # "Unknown"
       /\ {"export-state", "restore-state"} \cap steps # {} => can(CheckpointRestore)
       /\ "transfer-state" \in steps =>
            /\ can(LiveTransfer)
            /\ \/ StatedVendor(input.source) = StatedVendor(input.destination)
               \/ can(CrossVendorState) /\ input.policy.crossVendor
       /\ "reconstruct" \in steps => /\ SupportedIn(input.destination, StateReconstruction)
                                     /\ input.workload.reconstruction
       /\ input.workload.need = "CheckpointRestore" => "restart" \notin steps

(* The decision and the planner classify a move separately and agree: an   *)
(* eligible destination that needs neither reconstruction nor a checkpoint *)
(* gets a plan, with the class of the decision.                            *)
EligibleMovesArePlanned ==
  Answered("move") /\ answer.decision.outcome = "Eligible" =>
    /\ answer.plan.portability = answer.decision.portability
         \/ Lookup(input.destination, VendorId).state # "Supported"
    /\ answer.plan.state = "Planned"
         \/ input.workload.need = "CheckpointRestore"
         \/ RequiresStateReconstruction(answer.decision.portability)

(* What a requirement admits, stated independently of the operators of the *)
(* engine: numbers as intervals, versions by their position.               *)
AdmittedVersion(clause, v) ==
  LET w == clause.version
      newer == VersionBelow(w, v)
      older == VersionBelow(v, w)
  IN CASE clause.op = "Any" -> TRUE
       [] clause.op = "Equal" -> ~older /\ ~newer
       [] clause.op = "NotEqual" -> older \/ newer
       [] clause.op = "Less" -> older
       [] clause.op = "LessEqual" -> ~newer
       [] clause.op = "Greater" -> newer
       [] clause.op = "GreaterEqual" -> ~older
       [] clause.op = "Compatible" -> ~older /\ VersionBelow(v, V(w.core[1] + 1, 0, <<>>))
       [] clause.op = "Tilde" -> ~older /\ VersionBelow(v, V(w.core[1], w.core[2] + 1, <<>>))

Admitted(r, v) ==
  LET n == r.value.number
      ts == r.value.tokens
  IN CASE r.op = "Present" -> TRUE
       [] r.op = "Equals" -> v.number \in {n}
       [] r.op = "NotEquals" -> v.number < n \/ v.number > n
       [] r.op = "AtLeast" -> v.number > n - 1
       [] r.op = "AtMost" -> v.number < n + 1
       [] r.op = "GreaterThan" -> v.number > n
       [] r.op = "LessThan" -> v.number < n
       [] r.op \in {"InSet", "SubsetOf"} -> \A t \in v.tokens : t \in ts
       [] r.op = "SupersetOf" -> \A t \in ts : t \in v.tokens
       [] r.op = "IntersectsWith" -> \E t \in v.tokens : t \in ts
       [] r.op = "VersionSatisfies" -> \A i \in DOMAIN r.range : AdmittedVersion(r.range[i], v.version)

Trusted(look) == look.state = "Supported" \/ (look.state = "Degraded" /\ input.policy.allowDegraded)

(* ELIGIBLE means that every hard requirement is positively satisfied, by  *)
(* evidence that is fresh if it decays, and that the policy's required     *)
(* capabilities are supported, its denied ones are not, and the runtime    *)
(* meets its minimum (a closed namespace without a version passes).        *)
EligibleMeansProven ==
  Answered("fit") /\ answer.outcome = "Eligible" =>
    /\ \A r \in {s \in input.workload.requirements : s.strength = "Hard"} :
         LET look == Lookup(input.caps, r.key)
         IN /\ r.key = MemoryFree => input.fresh
            /\ IF r.op = "Absent" THEN look.state = "Unsupported"
               ELSE Trusted(look) /\ Admitted(r, look.value)
    /\ \A k \in input.policy.required : Lookup(input.caps, k).state = "Supported"
    /\ \A k \in input.policy.denied : Lookup(input.caps, k).state \in {"Unknown", "Unsupported"}
    /\ input.policy.minRuntime # <<>> =>
         LET look == Lookup(input.caps, RuntimeVersion)
         IN /\ look.state # "Unknown"
            /\ look.value # NoValue =>
                 \A i \in DOMAIN input.policy.minRuntime :
                   AdmittedVersion(input.policy.minRuntime[i], look.value.version)

WithRecord(records, k, e) == [l \in DOMAIN records \cup {k} |-> IF l = k THEN e ELSE records[l]]

(* INELIGIBLE is final: whatever is learned of a capability that was not   *)
(* known, and whatever the workload would prefer, the member does not      *)
(* become eligible.                                                        *)
IneligibleIsFinal ==
  Answered("fit") /\ answer.outcome = "Ineligible" =>
    /\ \A k \in {l \in DOMAIN Learned : ~KnownIn(input.caps, l)} : \A e \in Learned[k] :
         AnswerFit([input EXCEPT !.caps.records = WithRecord(@, k, e)]).outcome # "Eligible"
    /\ \A preferences \in {{}, Preferences} :
         AnswerFit([input EXCEPT !.workload.requirements =
                      preferences \cup {r \in @ : r.strength = "Hard"}]).outcome = "Ineligible"

(* Versions are totally ordered, so that ranges and minimum versions mean  *)
(* the same whichever versions they are asked about.                       *)
VersionsAreOrdered ==
  Answered("versions") =>
    LET u == input.versions[1]
        v == input.versions[2]
    IN /\ u # v => (answer[1] <=> ~VersionBelow(v, u))
       /\ u = v => ~answer[1]
       /\ answer[1] /\ answer[2] => answer[3]
=============================================================================
