------------------------------- MODULE Engines -------------------------------
(***************************************************************************)
(* The pure functions behind every decision: capability lookup, versions,  *)
(* requirement matching, portability, compatibility and migration planning *)
(* (src/engine, with src/core/version.cpp and the lookup of                *)
(* src/model/capability.cpp).                                              *)
(*                                                                         *)
(* A capability key is a pair <<namespace, name>>.  A value has the        *)
(* members of class CapabilityValue; Enumeration and TokenSet keep their   *)
(* tokens in one field.  Memory is counted in GiB, the weight of a soft    *)
(* requirement in five-hundredths.  The texts of reasons are left out; the *)
(* findings keep what they decide.                                         *)
(***************************************************************************)
EXTENDS Integers, Sequences, FiniteSetsExt, Portability, TLC

-----------------------------------------------------------------------------
(* Versions.  A version has core numbers <<major, minor, patch>> and a     *)
(* sequence of prerelease identifiers.  An identifier is its precedence:   *)
(* numeric ones are below 10, alphanumeric ones above.                     *)

(* The empty identifier compare_prerelease() reads past the end of the     *)
(* shorter list; not being numeric, it ranks above every numeric one.      *)
MissingIdentifier == 10

At(s, i) == IF i <= Len(s) THEN s[i] ELSE MissingIdentifier

Lexicographic(s, t) ==
  \E i \in 1..(IF Len(s) < Len(t) THEN Len(t) ELSE Len(s)) :
    At(s, i) < At(t, i) /\ \A j \in 1..(i - 1) : At(s, j) = At(t, j)

PrereleaseBelow(p, q) ==
  p # <<>> /\ (q = <<>> \/ Lexicographic(p, q))

(* Mutant: the prerelease decides although the numbers differ.             *)
VersionBelowAnyCore(v, w) ==
  Lexicographic(v.core, w.core) \/ PrereleaseBelow(v.pre, w.pre)

VersionBelow(v, w) ==
  Lexicographic(v.core, w.core) \/ (v.core = w.core /\ PrereleaseBelow(v.pre, w.pre))

SatisfiesClause(v, clause) ==
  LET w == clause.version
      atLeast == ~VersionBelow(v, w)
  IN CASE clause.op = "Any" -> TRUE
       [] clause.op = "Equal" -> v = w
       [] clause.op = "NotEqual" -> v # w
       [] clause.op = "Less" -> VersionBelow(v, w)
       [] clause.op = "LessEqual" -> ~VersionBelow(w, v)
       [] clause.op = "Greater" -> VersionBelow(w, v)
       [] clause.op = "GreaterEqual" -> atLeast
       [] clause.op = "Compatible" -> atLeast /\ v.core[1] = w.core[1]
       [] clause.op = "Tilde" -> atLeast /\ v.core[1] = w.core[1] /\ v.core[2] = w.core[2]

(* VersionRange::matches; a range is a sequence of clauses.                *)
RangeMatches(range, v) == \A i \in DOMAIN range : SatisfiesClause(v, range[i])

-----------------------------------------------------------------------------
(* Capability values and sets.                                             *)

NoVersion == [core |-> <<0, 0, 0>>, pre |-> <<>>]

Value(kind, number, version, tokens) ==
  [kind |-> kind, number |-> number, version |-> version, tokens |-> tokens]

NoValue == Value("None", 0, NoVersion, {})
Presence == Value("Presence", 0, NoVersion, {})
IntegerValue(n) == Value("Integer", n, NoVersion, {})
VersionValue(v) == Value("Version", 0, v, {})
Token(t) == Value("Enumeration", 0, NoVersion, {t})
TokenSet(ts) == Value("TokenSet", 0, NoVersion, ts)

(* A key without a record is Unknown, unless its namespace is closed.      *)
Lookup(caps, key) ==
  IF key \in DOMAIN caps.records THEN caps.records[key]
  ELSE [state |-> IF key[1] \in caps.closed THEN "Unsupported" ELSE "Unknown",
        value |-> NoValue]

KnownIn(caps, key) == Lookup(caps, key).state # "Unknown"
SupportedIn(caps, key) == Lookup(caps, key).state = "Supported" /\ Lookup(caps, key).value # NoValue

VendorId == <<"vendor", "id">>
Architecture == <<"architecture", "family">>
CodeObjects == <<"isa", "code_object_targets">>
RuntimeFamily == <<"runtime", "family">>
RuntimeVersion == <<"runtime", "version">>
MemoryTotal == <<"memory", "total_bytes">>
MemoryFree == <<"memory", "free_bytes">>
LiveTransfer == <<"migration", "live_state_transfer">>
CheckpointRestore == <<"migration", "checkpoint_restore">>
StateReconstruction == <<"migration", "state_reconstruction">>
CrossVendorState == <<"migration", "cross_vendor_state">>
Recompile == <<"portability", "recompile_available">>
Repackage == <<"portability", "repackage_available">>

IsDynamic(key) ==
  key[1] = "health" \/ key \in {MemoryFree, <<"queue", "concurrent_streams">>}

(* The vendor as evaluate_compatibility() reads it, and as the federation  *)
(* hands it to the planner and for a source; {} when there is none.        *)
SupportedVendor(caps) == IF SupportedIn(caps, VendorId) THEN Lookup(caps, VendorId).value.tokens ELSE {}
StatedVendor(caps) == Lookup(caps, VendorId).value.tokens

-----------------------------------------------------------------------------
(* Requirements.                                                           *)

AtLeast(v, w) ==
  CASE v.kind = "Version" /\ w.kind = "Version" -> ~VersionBelow(v.version, w.version)
    [] v.kind \in {"Integer", "Scalar"} /\ w.kind \in {"Integer", "Scalar"} -> v.number >= w.number
    [] OTHER -> FALSE

(* The operators applied to a value that is there.                         *)
Meets(value, r) ==
  CASE r.op = "Present" -> TRUE
    [] r.op = "Equals" -> value = r.value
    [] r.op = "NotEquals" -> value # r.value
    [] r.op = "AtLeast" -> AtLeast(value, r.value)
    [] r.op = "AtMost" -> AtLeast(r.value, value)
    [] r.op = "GreaterThan" -> AtLeast(value, r.value) /\ value # r.value
    [] r.op = "LessThan" -> AtLeast(r.value, value) /\ value # r.value
    [] r.op = "InSet" -> value.tokens # {} /\ value.tokens \subseteq r.value.tokens
    [] r.op = "SupersetOf" -> r.value.tokens \subseteq value.tokens
    [] r.op = "SubsetOf" -> value.tokens \subseteq r.value.tokens
    [] r.op = "IntersectsWith" -> value.tokens \cap r.value.tokens # {}
    [] r.op = "VersionSatisfies" -> RangeMatches(r.range, value.version)

Judged(holds) == IF holds THEN "Satisfied" ELSE "Violated"

(* Mutant: a capability nothing is known of counts as absent.              *)
MatchRequirementAssumingAbsence(r, look, allowDegraded) ==
  IF r.op = "Absent" THEN Judged(look.state \in {"Unsupported", "Unknown"})
  ELSE IF look.state \in {"Unsupported", "Unknown"} \/ (look.state = "Degraded" /\ ~allowDegraded) THEN "Violated"
  ELSE Judged(Meets(look.value, r))

(* match_requirement().  A record always carries a value of its key's      *)
(* kind, so only a version operator could find another kind.               *)
MatchRequirement(r, look, allowDegraded) ==
  IF look.state = "Unknown" THEN "Indeterminate"
  ELSE IF look.state = "Degraded" /\ ~allowDegraded THEN "Violated"
  ELSE IF r.op = "Absent" THEN Judged(look.state = "Unsupported")
  ELSE IF look.state = "Unsupported" THEN "Violated"
  ELSE IF r.op = "VersionSatisfies" /\ look.value.kind # "Version" THEN "Indeterminate"
  ELSE Judged(Meets(look.value, r))

(* Stale evidence of a decaying capability settles nothing; a soft         *)
(* preference on it is skipped.                                            *)
Judgement(r, target, policy) ==
  IF IsDynamic(r.key) /\ ~target.fresh THEN "Stale"
  ELSE MatchRequirement(r, Lookup(target.caps, r.key), policy.allowDegraded)

(* What a finding does to the outcome.                                     *)
Fail(code) == [effect |-> "fail", code |-> code]
Doubt(code) == [effect |-> "doubt", code |-> code]

When(condition, finding) == IF condition THEN {finding} ELSE {}

RequirementFindings(w, target, policy) ==
  UNION {LET j == Judgement(r, target, policy)
         IN When(j = "Violated", Fail("Requirement"))
              \cup When(j \in {"Stale", "Indeterminate"}, Doubt("Requirement")) :
         r \in {s \in w.requirements : s.strength = "Hard"}}

RequirementScore(r, target, policy) ==
  IF r.strength = "Hard" THEN 0
  ELSE CASE Judgement(r, target, policy) = "Satisfied" -> 2 * r.weight
         [] Judgement(r, target, policy) = "Violated" -> -r.weight
         [] OTHER -> 0

-----------------------------------------------------------------------------
(* Portability.                                                            *)

(* What a code object target or an architecture says is read whatever the  *)
(* state of its record.                                                    *)
SharedCodeObject(src, dst) ==
  Lookup(src, CodeObjects).value.tokens \cap Lookup(dst, CodeObjects).value.tokens # {}

SameArchitecture(src, dst) ==
  /\ Lookup(src, Architecture).value # NoValue
  /\ Lookup(src, Architecture).value = Lookup(dst, Architecture).value

BothSupport(src, dst, key) == SupportedIn(src, key) /\ SupportedIn(dst, key)

EvidenceSuffices(src, dst) ==
  \A key \in {VendorId, Architecture, CodeObjects, RuntimeFamily} :
    KnownIn(src, key) /\ KnownIn(dst, key)

(* Mutant: the destination's word for cross-vendor transfer is enough.     *)
LiveAllowedByDestination(src, dst, sameVendor, crossVendor) ==
  sameVendor \/ (crossVendor /\ SupportedIn(dst, CrossVendorState))

LiveAllowed(src, dst, sameVendor, crossVendor) ==
  sameVendor \/ (crossVendor /\ BothSupport(src, dst, CrossVendorState))

(* classify_portability(); a vendor is a token in a set, {} when not known *)
ClassifyPortability(src, dst, srcVendor, dstVendor, crossVendor) ==
  LET sameVendor == srcVendor # {} /\ srcVendor = dstVendor
      shared == SharedCodeObject(src, dst)
  IN IF ~EvidenceSuffices(src, dst) THEN "Unknown"
     ELSE IF shared /\ BothSupport(src, dst, LiveTransfer) /\ LiveAllowed(src, dst, sameVendor, crossVendor)
          THEN "LiveMigrationSupported"
     ELSE IF shared /\ sameVendor /\ SameArchitecture(src, dst) THEN "Native"
     ELSE IF shared THEN "BinaryCompatible"
     ELSE IF BothSupport(src, dst, CheckpointRestore) /\ sameVendor THEN "CheckpointRestoreSupported"
     ELSE IF SupportedIn(dst, Recompile) THEN "RecompileRequired"
     ELSE IF SupportedIn(dst, Repackage) THEN "RepackageRequired"
     ELSE IF SupportedIn(dst, StateReconstruction) THEN "StateReconstructionRequired"
     ELSE "Unsupported"

-----------------------------------------------------------------------------
(* Compatibility.                                                          *)

(* A minimum that is set but cannot be compared is a doubt; a capability   *)
(* without a value (its namespace is closed) passes.                       *)
MinimumFindings(active, look, meets) ==
  When(active /\ look.state = "Unknown", Doubt("Minimum"))
    \cup When(active /\ look.state # "Unknown" /\ look.value # NoValue /\ ~meets, Fail("Minimum"))

RequiredCapabilityFindings(caps, policy) ==
  UNION {When(Lookup(caps, k).state = "Unknown", Doubt("RequiredCapability"))
           \cup When(Lookup(caps, k).state \in {"Unsupported", "Degraded"}, Fail("RequiredCapability")) :
         k \in policy.required}

PolicyFindings(w, target, policy) ==
  LET caps == target.caps
      vendor == SupportedVendor(caps)
      architecture == IF SupportedIn(caps, Architecture) THEN Lookup(caps, Architecture).value.tokens ELSE {}
      runtime == Lookup(caps, RuntimeVersion)
      memory == Lookup(caps, MemoryTotal)
  IN When(target.accelerator \in policy.forbiddenAccelerators, Fail("Accelerator"))
       \cup When(vendor \cap policy.forbiddenVendors # {}, Fail("Vendor"))
       \cup When(vendor # {} /\ policy.allowedVendors # {} /\ vendor \cap policy.allowedVendors = {}, Fail("Vendor"))
       \cup When(architecture \cap policy.deprecated # {}, Fail("Architecture"))
       \cup MinimumFindings(policy.minRuntime # <<>>, runtime, RangeMatches(policy.minRuntime, runtime.value.version))
       \cup MinimumFindings(policy.minMemory > 0, memory, memory.value.number >= policy.minMemory)
       \cup RequiredCapabilityFindings(caps, policy)
       \cup When(\E k \in policy.denied : Lookup(caps, k).state \in {"Supported", "Degraded"}, Fail("Denied"))
       \cup When(~(w.tags \subseteq policy.tags), Fail("Tag"))
       \cup When(policy.synthetic = "Reject" /\ target.provenance # "Real", Fail("Synthetic"))
       \cup When(policy.synthetic = "Require" /\ target.provenance # "Synthetic", Fail("Synthetic"))
       \cup When(~target.acceptsWork, Fail("Member"))

PortabilityFindings(w, policy, class) ==
  When(class = "Unknown", Doubt("Portability"))
    \cup When(class # "Unknown" /\ (class = "Unsupported" \/ ~MeetsThreshold(class, w.minPortability)),
              Fail("Portability"))
    \cup When(w.mode = "ExactBinary" /\ class \notin {"Native", "BinaryCompatible", "LiveMigrationSupported"},
              Fail("Mode"))
    \cup When(policy.classes # {} /\ class # "Unknown" /\ class \notin policy.classes, Fail("Class"))
    \cup When(w.need = "LiveStateTransfer" /\ class # "LiveMigrationSupported", Fail("Need"))
    \cup When(/\ w.need = "CheckpointRestore" /\ ~MeetsThreshold(class, "CheckpointRestoreSupported")
              /\ ~(w.reconstruction /\ MeetsThreshold(class, "RecompileRequired")),
              Fail("Need"))

NoOrigin == [records |-> <<>>, closed |-> {}]

(* The class of a decision: Native when no origin is given.                *)
DecisionClass(source, target, policy) ==
  IF source = NoOrigin THEN "Native"
  ELSE ClassifyPortability(source, target.caps, StatedVendor(source), SupportedVendor(target.caps),
                           policy.crossVendor)

Findings(w, source, target, policy) ==
  RequirementFindings(w, target, policy) \cup PolicyFindings(w, target, policy)
    \cup IF source = NoOrigin THEN {}
         ELSE PortabilityFindings(w, policy, DecisionClass(source, target, policy))

(* Mutant: a doubt does not keep a member from being eligible.             *)
OutcomeOfFailuresOnly(findings) ==
  IF \E f \in findings : f.effect = "fail" THEN "Ineligible" ELSE "Eligible"

OutcomeOf(findings) ==
  IF \E f \in findings : f.effect = "fail" THEN "Ineligible"
  ELSE IF \E f \in findings : f.effect = "doubt" THEN "Unknown"
  ELSE "Eligible"

FreeMemoryScore(target) ==
  IF SupportedIn(target.caps, MemoryFree) /\ target.fresh
  THEN LET gib == Lookup(target.caps, MemoryFree).value.number
       IN IF gib < 0 THEN 0 ELSE IF gib > 1000 THEN 1000 ELSE gib
  ELSE 0

(* evaluate_compatibility()                                                *)
EvaluateCompatibility(w, source, target, policy) ==
  LET class == DecisionClass(source, target, policy)
  IN [outcome |-> OutcomeOf(Findings(w, source, target, policy)),
      portability |-> class,
      provenance |-> target.provenance,
      score |-> MapThenSumSet(LAMBDA r : RequirementScore(r, target, policy), w.requirements)
                - 100 * TransformationSteps(class) - ProvenancePenalty(target.provenance)
                + FreeMemoryScore(target)]

-----------------------------------------------------------------------------
(* Migration planning.                                                     *)

(* derive_migration_outcome(), for a class that is neither Unsupported nor *)
(* Unknown (those are refused before).                                     *)
DeriveOutcome(class, w, reconstructs, checkpoint, live) ==
  LET reconstruct == IF w.reconstruction /\ reconstructs THEN "Reconstruct" ELSE "Unsupported"
      native == class = "LiveMigrationSupported" /\ live
  IN CASE w.need = "LiveStateTransfer" -> IF native THEN "MoveNativeState" ELSE "Unsupported"
       [] w.need = "CheckpointRestore" ->
            IF native THEN "MoveNativeState"
            ELSE IF checkpoint /\ MeetsThreshold(class, "CheckpointRestoreSupported") THEN "RestoreCheckpoint"
            ELSE IF checkpoint /\ RequiresBinaryTransformation(class) THEN "RecompileThenRestore"
            ELSE reconstruct
       [] w.need \in {"RestartOnly", "None"} ->
            IF RequiresStateReconstruction(class) THEN reconstruct
            ELSE IF RequiresBinaryTransformation(class) THEN "RepackageAndRestart" ELSE "Restart"

(* Mutant: every live move is refused as one across vendors.               *)
RefusalsForAnyVendor(w, policy, class, src, dst, sameVendor, provenance) ==
  When(/\ w.need = "LiveStateTransfer"
       /\ ~(BothSupport(src, dst, CrossVendorState) /\ policy.crossVendor), "CrossVendorState")
    \cup When(class \in {"Unsupported", "Unknown"}, "Portability")

Refusals(w, policy, class, src, dst, sameVendor, provenance) ==
  When(/\ ~sameVendor /\ w.need = "LiveStateTransfer"
       /\ ~(BothSupport(src, dst, CrossVendorState) /\ policy.crossVendor), "CrossVendorState")
    \cup When(~sameVendor /\ RequiresStateReconstruction(class) /\ ~policy.crossReconstruction,
              "CrossVendorReconstruction")
    \cup When(class \in {"Unsupported", "Unknown"}, "Portability")
    \cup When(policy.synthetic = "Reject" /\ provenance # "Real", "Synthetic")
    \cup When(policy.classes # {} /\ class \notin policy.classes \cup {"Unknown", "Unsupported"}, "Class")

(* The steps are sorted by kind and no kind occurs twice, so that the set  *)
(* of their kinds is all there is to them.                                 *)
StepsFor(outcome) ==
  CASE outcome = "MoveNativeState" -> {"validate-live-transfer", "transfer-state"}
    [] outcome = "RestoreCheckpoint" -> {"export-state", "restore-state"}
    [] outcome = "RecompileThenRestore" -> {"recompile", "export-state", "restore-state"}
    [] outcome = "RepackageAndRestart" -> {"repackage", "restart"}
    [] outcome = "Reconstruct" -> {"reconstruct"}
    [] outcome = "Restart" -> {"restart"}

RefusedPlan(class, outcome) ==
  [state |-> "Refused", portability |-> class, outcome |-> outcome, steps |-> {}, cost |-> 0]

(* plan_migration() of the engine                                          *)
PlanMove(w, src, dst, policy, provenance) ==
  LET sameVendor == StatedVendor(src) # {} /\ StatedVendor(src) = StatedVendor(dst)
      class == ClassifyPortability(src, dst, StatedVendor(src), StatedVendor(dst), policy.crossVendor)
      outcome == DeriveOutcome(class, w, SupportedIn(dst, StateReconstruction),
                               BothSupport(src, dst, CheckpointRestore), BothSupport(src, dst, LiveTransfer))
  IN IF Refusals(w, policy, class, src, dst, sameVendor, provenance) # {}
     THEN RefusedPlan(class, IF class = "Unknown" THEN "Unknown" ELSE "Unsupported")
     ELSE IF outcome = "Unsupported" THEN RefusedPlan(class, outcome)
     ELSE [state |-> "Planned", portability |-> class, outcome |-> outcome, steps |-> StepsFor(outcome),
           cost |-> 100 * TransformationSteps(class) + Cardinality(StepsFor(outcome))]
=============================================================================
