---------------------------- MODULE EngineProofs ----------------------------
(***************************************************************************)
(* What the engines promise for every input, proved: versions are totally  *)
(* ordered, whatever their numbers and identifiers; a move that is planned *)
(* or eligible is one both ends can carry out, whatever they are known to  *)
(* do; the decision and the planner agree; eligible means that every hard  *)
(* requirement is met; and what is ineligible stays so.                    *)
(*                                                                         *)
(* EnginesSpec asks the engines about any input of its type, where         *)
(* MCFunctions enumerates some.                                            *)
(***************************************************************************)
EXTENDS EngineCases, WellFoundedInduction, TLAPS

-----------------------------------------------------------------------------
(* Inputs of any size.                                                     *)

(* A version has three numbers and any list of identifiers, none of them   *)
(* the empty one.                                                          *)
Cores == {c \in Seq(Nat) : Len(c) = 3}
Identifiers == Nat \ {MissingIdentifier}
Versions == [core: Cores, pre: Seq(Identifiers)]

Clauses == [op: {"Any", "Equal", "NotEqual", "Less", "LessEqual", "Greater", "GreaterEqual", "Compatible", "Tilde"},
            version: Versions]

(* Any records under any keys, and any closed namespaces.                  *)
Keys == STRING \X STRING
Values == [kind: STRING, number: Int, version: Versions, tokens: SUBSET STRING]
States == {"Supported", "Degraded", "Unsupported", "Unknown"}
CapabilitySets ==
  [records: UNION {[K -> [state: States, value: Values]] : K \in SUBSET Keys}, closed: SUBSET STRING]

Requirements ==
  [key: Keys, op: {"Present", "Absent", "Equals", "NotEquals", "AtLeast", "AtMost", "GreaterThan", "LessThan", "InSet",
                   "SupersetOf", "SubsetOf", "IntersectsWith", "VersionSatisfies"},
   value: Values, range: Seq(Clauses), strength: {"Hard", "Soft"}, weight: Nat]

ClassNames == {Classes[i] : i \in DOMAIN Classes}

Workloads ==
  [requirements: SUBSET Requirements, tags: SUBSET STRING, minPortability: ClassNames, mode: STRING,
   need: Needs, reconstruction: BOOLEAN]

Policies ==
  [allowDegraded: BOOLEAN, forbiddenAccelerators: SUBSET STRING, allowedVendors: SUBSET STRING,
   forbiddenVendors: SUBSET STRING, deprecated: SUBSET STRING, minRuntime: Seq(Clauses), minMemory: Nat,
   required: SUBSET Keys, denied: SUBSET Keys, tags: SUBSET STRING, synthetic: {"Allow", "Reject", "Require"},
   crossVendor: BOOLEAN, crossReconstruction: BOOLEAN, classes: SUBSET ClassNames]

Moves ==
  [kind: {"move"}, source: CapabilitySets \ {NoOrigin}, destination: CapabilitySets, workload: Workloads,
   policy: Policies]
Fits == [kind: {"fit"}, caps: CapabilitySets, fresh: BOOLEAN, workload: Workloads, policy: Policies]
VersionTriples == [kind: {"versions"}, versions: [1..3 -> Versions]]

EnginesInit == input \in Moves \cup Fits \cup VersionTriples /\ answer = None
EnginesNext == answer = None /\ EngineAnswer /\ UNCHANGED input
EnginesSpec == EnginesInit /\ [][EnginesNext]_<<input, answer>>

(* The input is of its type, and the answer, once there, is the engines'.  *)
EnginesInv ==
  /\ input \in Moves \cup Fits \cup VersionTriples
  /\ answer # None =>
       /\ input.kind = "move" => answer = AnswerMove(input)
       /\ input.kind = "fit" => answer = AnswerFit(input)
       /\ input.kind = "versions" => answer = AnswerVersions(input.versions)

-----------------------------------------------------------------------------
(* The order of versions.                                                  *)

(* A set of natural numbers that is not empty has a least one.             *)
LEMMA Least ==
  ASSUME NEW T \in SUBSET Nat, T # {}
  PROVE  \E x \in T : \A y \in T : x <= y
<1> DEFINE R == OpToRel(<, Nat)
<1>1. PICK x \in T : \A y \in T : ~(<<y, x>> \in R)
  <2>1. IsWellFoundedOn(R, Nat)
    BY NatLessThanWellFounded, Zenon
  <2> HIDE DEF R
  <2> QED BY <2>1, WFMin, Zenon
<1>2. \A y \in T : ~(y < x)
  BY <1>1, Zenon DEF OpToRel
<1> QED BY <1>2

(* What is compared at a position is a number, at any distance.            *)
LEMMA AtNumber ==
  ASSUME NEW s \in Seq(Nat), NEW i \in Nat \ {0}
  PROVE  At(s, i) \in Nat
BY DEF At, MissingIdentifier

(* The first difference may be looked for beyond both ends.                *)
LEMMA LexicographicAt ==
  ASSUME NEW s \in Seq(Nat), NEW t \in Seq(Nat)
  PROVE  Lexicographic(s, t) <=>
           \E i \in Nat \ {0} : At(s, i) < At(t, i) /\ \A j \in 1..(i - 1) : At(s, j) = At(t, j)
<1>1. ASSUME NEW i \in Nat \ {0}, At(s, i) < At(t, i)
      PROVE  i \in 1..(IF Len(s) < Len(t) THEN Len(t) ELSE Len(s))
  BY <1>1 DEF At, MissingIdentifier
<1>2. 1..(IF Len(s) < Len(t) THEN Len(t) ELSE Len(s)) \subseteq Nat \ {0}
  OBVIOUS
<1> QED BY <1>1, <1>2, Zenon DEF Lexicographic

(* The comparison of identifier lists is transitive.                       *)
LEMMA LexicographicTransitive ==
  ASSUME NEW s \in Seq(Nat), NEW t \in Seq(Nat), NEW u \in Seq(Nat),
         Lexicographic(s, t), Lexicographic(t, u)
  PROVE  Lexicographic(s, u)
<1>1. PICK i \in Nat \ {0} : At(s, i) < At(t, i) /\ \A j \in 1..(i - 1) : At(s, j) = At(t, j)
  BY LexicographicAt
<1>2. PICK k \in Nat \ {0} : At(t, k) < At(u, k) /\ \A j \in 1..(k - 1) : At(t, j) = At(u, j)
  BY LexicographicAt
<1>3. \A j \in Nat \ {0} : At(s, j) \in Nat /\ At(t, j) \in Nat /\ At(u, j) \in Nat
  BY AtNumber
<1> DEFINE m == IF i <= k THEN i ELSE k
<1>4. m \in Nat \ {0} /\ m <= i /\ m <= k
  OBVIOUS
<1>5. At(s, m) < At(u, m)
  <2>1. CASE i = k
    BY <2>1, <1>1, <1>2, <1>3
  <2>2. CASE i < k
    <3>1. At(t, i) = At(u, i)
      BY <2>2, <1>2
    <3> QED BY <3>1, <2>2, <1>1, <1>3
  <2>3. CASE k < i
    <3>1. At(s, k) = At(t, k)
      BY <2>3, <1>1
    <3> QED BY <3>1, <2>3, <1>2, <1>3
  <2> QED BY <2>1, <2>2, <2>3
<1>6. ASSUME NEW j \in 1..(m - 1)
      PROVE  At(s, j) = At(u, j)
  <2>1. j \in 1..(i - 1) /\ j \in 1..(k - 1)
    BY <1>4
  <2> QED BY <2>1, <1>1, <1>2
<1> HIDE DEF m
<1> QED BY <1>4, <1>5, <1>6, LexicographicAt

(* Nothing precedes itself.                                                *)
LEMMA LexicographicIrreflexive ==
  ASSUME NEW s \in Seq(Nat)
  PROVE  ~Lexicographic(s, s)
<1> SUFFICES ASSUME Lexicographic(s, s) PROVE FALSE
  OBVIOUS
<1>1. PICK i \in Nat \ {0} : At(s, i) < At(s, i)
  BY LexicographicAt
<1> QED BY <1>1, AtNumber

(* Two lists that differ at some position are ordered by the first one.    *)
LEMMA LexicographicTotal ==
  ASSUME NEW s \in Seq(Nat), NEW t \in Seq(Nat), NEW k \in Nat \ {0}, At(s, k) # At(t, k)
  PROVE  Lexicographic(s, t) \/ Lexicographic(t, s)
<1> DEFINE T == {i \in Nat \ {0} : At(s, i) # At(t, i)}
<1>1. PICK i \in T : \A y \in T : i <= y
  <2>1. T \in SUBSET Nat /\ T # {}
    OBVIOUS
  <2> HIDE DEF T
  <2> QED BY <2>1, Least, Zenon
<1>2. i \in Nat \ {0} /\ At(s, i) # At(t, i) /\ At(s, i) \in Nat /\ At(t, i) \in Nat
  BY AtNumber
<1>3. ASSUME NEW j \in 1..(i - 1)
      PROVE  At(s, j) = At(t, j)
  <2>1. j \in Nat \ {0} /\ ~(i <= j)
    BY <1>2
  <2> QED BY <2>1, <1>1
<1>4. CASE At(s, i) < At(t, i)
  BY <1>2, <1>3, <1>4, LexicographicAt
<1>5. CASE At(t, i) < At(s, i)
  BY <1>2, <1>3, <1>5, LexicographicAt
<1> QED BY <1>2, <1>4, <1>5

(* Lists of identifiers that are not the same differ somewhere: the empty  *)
(* identifier read past the end of the shorter is none of the longer's.    *)
LEMMA ListsDiffer ==
  ASSUME NEW p \in Seq(Identifiers), NEW q \in Seq(Identifiers), p # q
  PROVE  \E i \in Nat \ {0} : At(p, i) # At(q, i)
<1> SUFFICES ASSUME \A i \in Nat \ {0} : At(p, i) = At(q, i)
             PROVE  FALSE
  OBVIOUS
<1> DEFINE S == Identifiers
<1>1. /\ Len(p) \in Nat /\ Len(q) \in Nat
      /\ \A i \in 1..Len(p) : p[i] # MissingIdentifier
      /\ \A i \in 1..Len(q) : q[i] # MissingIdentifier
  <2>1. \A i \in 1..Len(p) : p[i] \in S
    <3> HIDE DEF S
    <3> QED BY DEF S
  <2>2. \A i \in 1..Len(q) : q[i] \in S
    <3> HIDE DEF S
    <3> QED BY DEF S
  <2>3. Len(p) \in Nat /\ Len(q) \in Nat
    OBVIOUS
  <2> QED BY <2>1, <2>2, <2>3, Zenon DEF Identifiers
<1>2. Len(p) = Len(q)
  <2>1. CASE Len(p) < Len(q)
    <3>1. At(p, Len(q)) = MissingIdentifier /\ At(q, Len(q)) = q[Len(q)] /\ Len(q) \in Nat \ {0}
      BY <2>1, <1>1 DEF At
    <3> QED BY <3>1, <1>1
  <2>2. CASE Len(q) < Len(p)
    <3>1. At(q, Len(p)) = MissingIdentifier /\ At(p, Len(p)) = p[Len(p)] /\ Len(p) \in Nat \ {0}
      BY <2>2, <1>1 DEF At
    <3> QED BY <3>1, <1>1
  <2> QED BY <2>1, <2>2, <1>1
<1>3. \A i \in 1..Len(p) : p[i] = q[i]
  <2> TAKE i \in 1..Len(p)
  <2>1. At(p, i) = p[i] /\ At(q, i) = q[i] /\ i \in Nat \ {0}
    BY <1>1, <1>2 DEF At
  <2> QED BY <2>1
<1> QED BY <1>2, <1>3

(* Numbers that are not the same differ in one of the three places.        *)
LEMMA CoresDiffer ==
  ASSUME NEW c \in Cores, NEW d \in Cores, c # d
  PROVE  \E i \in Nat \ {0} : At(c, i) # At(d, i)
<1> SUFFICES ASSUME \A i \in Nat \ {0} : At(c, i) = At(d, i)
             PROVE  FALSE
  OBVIOUS
<1>1. c \in Seq(Nat) /\ d \in Seq(Nat) /\ Len(c) = 3 /\ Len(d) = 3
  BY DEF Cores
<1>2. \A i \in 1..Len(c) : c[i] = d[i]
  <2> TAKE i \in 1..Len(c)
  <2>1. At(c, i) = c[i] /\ At(d, i) = d[i] /\ i \in Nat \ {0}
    BY <1>1 DEF At
  <2> QED BY <2>1
<1> QED BY <1>1, <1>2, SMTT(30)

(* The parts of a version are lists of numbers.                            *)
LEMMA VersionParts ==
  ASSUME NEW v \in Versions
  PROVE  /\ v.core \in Cores /\ v.core \in Seq(Nat)
         /\ v.pre \in Seq(Identifiers) /\ v.pre \in Seq(Nat)
         /\ v = [core |-> v.core, pre |-> v.pre]
<1>1. v.core \in Cores /\ v.pre \in Seq(Identifiers) /\ v = [core |-> v.core, pre |-> v.pre]
  BY DEF Versions
<1>2. Identifiers \subseteq Nat
  BY DEF Identifiers
<1>3. v.pre \in Seq(Nat)
  BY <1>1, <1>2
<1> QED BY <1>1, <1>3 DEF Cores

(* VersionBelow is a strict total order on the versions: no version is     *)
(* below itself,                                                           *)
LEMMA VersionIrreflexive ==
  ASSUME NEW v \in Versions
  PROVE  ~VersionBelow(v, v)
<1>1. v.core \in Seq(Nat) /\ v.pre \in Seq(Nat)
  BY VersionParts
<1> QED BY <1>1, LexicographicIrreflexive DEF VersionBelow, PrereleaseBelow

(* what is below a version is below every version above it,                *)
LEMMA VersionTransitive ==
  ASSUME NEW u \in Versions, NEW v \in Versions, NEW w \in Versions,
         VersionBelow(u, v), VersionBelow(v, w)
  PROVE  VersionBelow(u, w)
<1>1. /\ u.core \in Seq(Nat) /\ u.pre \in Seq(Nat)
      /\ v.core \in Seq(Nat) /\ v.pre \in Seq(Nat)
      /\ w.core \in Seq(Nat) /\ w.pre \in Seq(Nat)
  BY VersionParts
<1>2. CASE Lexicographic(u.core, v.core) /\ Lexicographic(v.core, w.core)
  BY <1>1, <1>2, LexicographicTransitive DEF VersionBelow
<1>3. CASE Lexicographic(u.core, v.core) /\ v.core = w.core
  BY <1>3 DEF VersionBelow
<1>4. CASE u.core = v.core /\ Lexicographic(v.core, w.core)
  BY <1>4 DEF VersionBelow
<1>5. CASE u.core = v.core /\ v.core = w.core /\ PrereleaseBelow(u.pre, v.pre) /\ PrereleaseBelow(v.pre, w.pre)
  <2>1. CASE w.pre = <<>>
    BY <1>5, <2>1 DEF VersionBelow, PrereleaseBelow
  <2>2. CASE w.pre # <<>>
    <3>1. Lexicographic(u.pre, v.pre) /\ Lexicographic(v.pre, w.pre)
      BY <1>5, <2>2 DEF PrereleaseBelow
    <3> QED BY <3>1, <1>1, <1>5, LexicographicTransitive DEF VersionBelow, PrereleaseBelow
  <2> QED BY <2>1, <2>2
<1> QED BY <1>2, <1>3, <1>4, <1>5 DEF VersionBelow

(* and of two versions one is below the other.                             *)
LEMMA VersionTotal ==
  ASSUME NEW u \in Versions, NEW v \in Versions, u # v
  PROVE  VersionBelow(u, v) \/ VersionBelow(v, u)
<1>1. /\ u.core \in Cores /\ u.core \in Seq(Nat) /\ u.pre \in Seq(Identifiers) /\ u.pre \in Seq(Nat)
      /\ v.core \in Cores /\ v.core \in Seq(Nat) /\ v.pre \in Seq(Identifiers) /\ v.pre \in Seq(Nat)
  BY VersionParts
<1>2. u.core # v.core \/ u.pre # v.pre
  BY VersionParts, Zenon
<1>3. CASE u.core # v.core
  <2>1. Lexicographic(u.core, v.core) \/ Lexicographic(v.core, u.core)
    BY <1>1, <1>3, CoresDiffer, LexicographicTotal
  <2> QED BY <2>1 DEF VersionBelow
<1>4. CASE u.core = v.core /\ u.pre # v.pre
  <2>1. Lexicographic(u.pre, v.pre) \/ Lexicographic(v.pre, u.pre)
    BY <1>1, <1>4, ListsDiffer, LexicographicTotal
  <2> QED BY <2>1, <1>4 DEF VersionBelow, PrereleaseBelow
<1> QED BY <1>2, <1>3, <1>4

-----------------------------------------------------------------------------
(* The engines answer what they are asked.                                 *)

(* EnginesInv is an invariant.                                             *)
THEOREM EnginesAnswer == EnginesSpec => []EnginesInv
<1>1. EnginesInit => EnginesInv
  BY DEF EnginesInit, EnginesInv
<1>2. EnginesInv /\ [EnginesNext]_<<input, answer>> => EnginesInv'
  <2> SUFFICES ASSUME EnginesInv, [EnginesNext]_<<input, answer>>
               PROVE  EnginesInv'
    OBVIOUS
  <2>1. CASE UNCHANGED <<input, answer>>
    BY <2>1, Zenon DEF EnginesInv
  <2>2. CASE EnginesNext
    <3>1. input' = input
      BY <2>2 DEF EnginesNext
    <3>2. /\ input.kind = "move" => answer' = AnswerMove(input)
          /\ input.kind = "fit" => answer' = AnswerFit(input)
          /\ input.kind = "versions" => answer' = AnswerVersions(input.versions)
      BY <2>2 DEF EnginesNext, EngineAnswer
    <3> QED BY <3>1, <3>2, Zenon DEF EnginesInv
  <2> QED BY <2>1, <2>2
<1> QED BY <1>1, <1>2, PTL DEF EnginesSpec

(* Whatever three versions are compared, the answers are those of a strict *)
(* total order: VersionsAreOrdered, for every version there is.            *)
THEOREM VersionsOrdered == EnginesSpec => []VersionsAreOrdered
<1>1. EnginesInv => VersionsAreOrdered
  <2> SUFFICES ASSUME EnginesInv, Answered("versions")
               PROVE  VersionsAreOrdered
    BY DEF VersionsAreOrdered
  <2> DEFINE u == input.versions[1]
             v == input.versions[2]
             w == input.versions[3]
  <2>1. u \in Versions /\ v \in Versions /\ w \in Versions
    <3>1. input \in VersionTriples
      BY DEF EnginesInv, Answered, Moves, Fits, VersionTriples
    <3>2. input.versions \in [1..3 -> Versions]
      BY <3>1, Zenon DEF VersionTriples
    <3> QED BY <3>2
  <2>2. answer = <<VersionBelow(u, v), VersionBelow(v, w), VersionBelow(u, w)>>
    BY DEF EnginesInv, Answered, AnswerVersions
  <2>3. answer[1] = VersionBelow(u, v) /\ answer[2] = VersionBelow(v, w) /\ answer[3] = VersionBelow(u, w)
    BY <2>2
  <2>4. u # v => (VersionBelow(u, v) <=> ~VersionBelow(v, u))
    BY <2>1, VersionTotal, VersionTransitive, VersionIrreflexive
  <2>5. u = v => ~VersionBelow(u, v)
    BY <2>1, VersionIrreflexive
  <2>6. VersionBelow(u, v) /\ VersionBelow(v, w) => VersionBelow(u, w)
    BY <2>1, VersionTransitive
  <2> QED BY <2>3, <2>4, <2>5, <2>6, Zenon DEF VersionsAreOrdered
<1> QED BY <1>1, EnginesAnswer, PTL

-----------------------------------------------------------------------------
(* Moves.                                                                  *)

SameVendor(src, dst) == StatedVendor(src) # {} /\ StatedVendor(src) = StatedVendor(dst)

(* Without evidence for all its inputs the classifier answers Unknown, and *)
(* a live migration is one both ends support and the vendors allow.        *)
LEMMA ClassEvidence ==
  ASSUME NEW src, NEW dst, NEW sv, NEW dv, NEW cross,
         NEW class, class = ClassifyPortability(src, dst, sv, dv, cross)
  PROVE  /\ class # "Unknown" => EvidenceSuffices(src, dst)
         /\ class = "LiveMigrationSupported" =>
              BothSupport(src, dst, LiveTransfer) /\ LiveAllowed(src, dst, sv # {} /\ sv = dv, cross)
BY DEF ClassifyPortability

(* The outcomes derived, and what each of them rests on.                   *)
LEMMA OutcomeMeans ==
  ASSUME NEW class, NEW w, w.need \in Needs, NEW reconstructs, NEW checkpoint, NEW live,
         NEW outcome, outcome = DeriveOutcome(class, w, reconstructs, checkpoint, live)
  PROVE  /\ outcome \in {"MoveNativeState", "RestoreCheckpoint", "RecompileThenRestore", "RepackageAndRestart",
                         "Reconstruct", "Restart", "Unsupported"}
         /\ outcome = "MoveNativeState" => class = "LiveMigrationSupported" /\ live
         /\ outcome \in {"RestoreCheckpoint", "RecompileThenRestore"} => checkpoint
         /\ outcome = "Reconstruct" => w.reconstruction /\ reconstructs
         /\ w.need = "CheckpointRestore" => outcome \notin {"RepackageAndRestart", "Restart"}
<1>1. CASE w.need = "LiveStateTransfer"
  BY <1>1 DEF DeriveOutcome
<1>2. CASE w.need = "CheckpointRestore"
  BY <1>2 DEF DeriveOutcome
<1>3. CASE w.need \in {"RestartOnly", "None"}
  BY <1>3 DEF DeriveOutcome
<1> QED BY <1>1, <1>2, <1>3 DEF Needs

(* The outcome a step belongs to.                                          *)
LEMMA StepsMean ==
  ASSUME NEW outcome \in {"MoveNativeState", "RestoreCheckpoint", "RecompileThenRestore", "RepackageAndRestart",
                          "Reconstruct", "Restart"}
  PROVE  /\ "transfer-state" \in StepsFor(outcome) => outcome = "MoveNativeState"
         /\ {"export-state", "restore-state"} \cap StepsFor(outcome) # {} =>
              outcome \in {"RestoreCheckpoint", "RecompileThenRestore"}
         /\ "reconstruct" \in StepsFor(outcome) => outcome = "Reconstruct"
         /\ "restart" \in StepsFor(outcome) => outcome \in {"RepackageAndRestart", "Restart"}
<1>1. CASE outcome = "MoveNativeState"
  BY <1>1 DEF StepsFor
<1>2. CASE outcome = "RestoreCheckpoint"
  BY <1>2 DEF StepsFor
<1>3. CASE outcome = "RecompileThenRestore"
  BY <1>3 DEF StepsFor
<1>4. CASE outcome = "RepackageAndRestart"
  BY <1>4 DEF StepsFor
<1>5. CASE outcome = "Reconstruct"
  BY <1>5 DEF StepsFor
<1>6. CASE outcome = "Restart"
  BY <1>6 DEF StepsFor
<1> QED BY <1>1, <1>2, <1>3, <1>4, <1>5, <1>6

(* A plan that is made has a class that is neither refused one, and the    *)
(* steps of its outcome; a refused one has no steps.                       *)
LEMMA PlanShape ==
  ASSUME NEW w, NEW src, NEW dst, NEW policy, NEW provenance,
         NEW plan, plan = PlanMove(w, src, dst, policy, provenance),
         NEW class, class = ClassifyPortability(src, dst, StatedVendor(src), StatedVendor(dst), policy.crossVendor),
         NEW outcome, outcome = DeriveOutcome(class, w, SupportedIn(dst, StateReconstruction),
                                              BothSupport(src, dst, CheckpointRestore),
                                              BothSupport(src, dst, LiveTransfer))
  PROVE  /\ plan.portability = class
         /\ plan.state = "Planned" <=>
              /\ Refusals(w, policy, class, src, dst, SameVendor(src, dst), provenance) = {}
              /\ outcome # "Unsupported"
         /\ plan.state = "Planned" => plan.steps = StepsFor(outcome)
         /\ plan.state # "Planned" => plan.steps = {}
<1> DEFINE refusals == Refusals(w, policy, class, src, dst, SameVendor(src, dst), provenance)
<1>1. plan = IF refusals # {} THEN RefusedPlan(class, IF class = "Unknown" THEN "Unknown" ELSE "Unsupported")
             ELSE IF outcome = "Unsupported" THEN RefusedPlan(class, outcome)
             ELSE [state |-> "Planned", portability |-> class, outcome |-> outcome, steps |-> StepsFor(outcome),
                   cost |-> 100 * TransformationSteps(class) + Cardinality(StepsFor(outcome))]
  BY Zenon DEF PlanMove, SameVendor
<1> HIDE DEF refusals
<1>2. CASE refusals # {}
  <2>1. plan = RefusedPlan(class, IF class = "Unknown" THEN "Unknown" ELSE "Unsupported")
    BY <1>1, <1>2
  <2> QED BY <2>1, <1>2 DEF RefusedPlan, refusals
<1>3. CASE refusals = {} /\ outcome = "Unsupported"
  <2>1. plan = RefusedPlan(class, outcome)
    BY <1>1, <1>3
  <2> QED BY <2>1, <1>3 DEF RefusedPlan, refusals
<1>4. CASE refusals = {} /\ outcome # "Unsupported"
  <2> DEFINE cost == 100 * TransformationSteps(class) + Cardinality(StepsFor(outcome))
  <2>1. plan = [state |-> "Planned", portability |-> class, outcome |-> outcome, steps |-> StepsFor(outcome),
                cost |-> cost]
    BY <1>1, <1>4, Zenon
  <2> HIDE DEF cost
  <2> QED BY <2>1, <1>4 DEF refusals
<1> QED BY <1>2, <1>3, <1>4

(* An eligible verdict has no finding against it.                          *)
LEMMA EligibleFinds ==
  ASSUME NEW findings, OutcomeOf(findings) = "Eligible"
  PROVE  \A f \in findings : f.effect # "fail" /\ f.effect # "doubt"
BY DEF OutcomeOf

(* The decision reads the vendor of a destination as the planner does,     *)
(* unless the record is not one of a supported capability.                 *)
LEMMA VendorRead ==
  ASSUME NEW caps
  PROVE  /\ SupportedVendor(caps) \in {StatedVendor(caps), {}}
         /\ Lookup(caps, VendorId).state = "Supported" => SupportedVendor(caps) = StatedVendor(caps)
BY DEF SupportedVendor, StatedVendor, SupportedIn, NoValue, Value

(* Not knowing the destination's vendor only weakens a class.              *)
LEMMA VendorUnread ==
  ASSUME NEW src, NEW dst, NEW sv, NEW dv, NEW cross,
         NEW c, c = ClassifyPortability(src, dst, sv, {}, cross), c \notin {"Unknown", "Unsupported"},
         NEW d, d = ClassifyPortability(src, dst, sv, dv, cross)
  PROVE  /\ d \notin {"Unknown", "Unsupported"}
         /\ c = "LiveMigrationSupported" => d = "LiveMigrationSupported"
         /\ RequiresStateReconstruction(d) => RequiresStateReconstruction(c)
BY DEF ClassifyPortability, LiveAllowed, RequiresStateReconstruction

(* The parts of an answer about a move.                                    *)
LEMMA MoveParts ==
  ASSUME EnginesInv, Answered("move")
  PROVE  /\ input.source # NoOrigin
         /\ input.workload.need \in Needs
         /\ answer.plan = PlanMove(input.workload, input.source, input.destination, input.policy, "Real")
         /\ answer.decision.outcome =
              OutcomeOf(Findings(input.workload, input.source, Target(input.destination, TRUE), input.policy))
         /\ answer.decision.portability =
              ClassifyPortability(input.source, input.destination, StatedVendor(input.source),
                                  SupportedVendor(input.destination), input.policy.crossVendor)
         /\ answer.decision.portability = DecisionClass(input.source, Target(input.destination, TRUE), input.policy)
<1>1. input \in Moves
  BY DEF EnginesInv, Answered, Moves, Fits, VersionTriples
<1>2. input.source # NoOrigin /\ input.workload \in Workloads
  BY <1>1 DEF Moves
<1>3. input.workload.need \in Needs
  BY <1>2 DEF Workloads
<1>4. answer = AnswerMove(input)
  BY DEF EnginesInv, Answered
<1>5. /\ answer.plan = PlanMove(input.workload, input.source, input.destination, input.policy, "Real")
      /\ answer.decision =
           EvaluateCompatibility(input.workload, input.source, Target(input.destination, TRUE), input.policy)
  BY <1>4 DEF AnswerMove
<1> DEFINE score == MapThenSumSet(LAMBDA r : RequirementScore(r, Target(input.destination, TRUE), input.policy),
                                  input.workload.requirements)
                    - 100 * TransformationSteps(DecisionClass(input.source, Target(input.destination, TRUE),
                                                              input.policy))
                    - ProvenancePenalty(Target(input.destination, TRUE).provenance)
                    + FreeMemoryScore(Target(input.destination, TRUE))
<1>6. answer.decision =
        [outcome |-> OutcomeOf(Findings(input.workload, input.source, Target(input.destination, TRUE), input.policy)),
         portability |-> DecisionClass(input.source, Target(input.destination, TRUE), input.policy),
         provenance |-> Target(input.destination, TRUE).provenance, score |-> score]
  BY <1>5, Zenon DEF EvaluateCompatibility
<1> HIDE DEF score
<1>7. /\ answer.decision.outcome =
           OutcomeOf(Findings(input.workload, input.source, Target(input.destination, TRUE), input.policy))
      /\ answer.decision.portability = DecisionClass(input.source, Target(input.destination, TRUE), input.policy)
  BY <1>6
<1>8. DecisionClass(input.source, Target(input.destination, TRUE), input.policy) =
        ClassifyPortability(input.source, input.destination, StatedVendor(input.source),
                            SupportedVendor(input.destination), input.policy.crossVendor)
  <2>1. Target(input.destination, TRUE).caps = input.destination
    BY DEF Target
  <2> QED BY <2>1, <1>2, Zenon DEF DecisionClass
<1> QED BY <1>2, <1>3, <1>5, <1>7, <1>8, Zenon

(* The class an eligible move was given is known and supported, permitted  *)
(* by the policy, and live where the workload needs that.                  *)
LEMMA EligibleClass ==
  ASSUME EnginesInv, Answered("move"), answer.decision.outcome = "Eligible"
  PROVE  /\ answer.decision.portability \notin {"Unknown", "Unsupported"}
         /\ input.policy.classes # {} => answer.decision.portability \in input.policy.classes
         /\ input.workload.need = "LiveStateTransfer" => answer.decision.portability = "LiveMigrationSupported"
<1> DEFINE w == input.workload
           policy == input.policy
           target == Target(input.destination, TRUE)
           class == answer.decision.portability
<1>1. /\ input.source # NoOrigin /\ class = DecisionClass(input.source, target, policy)
      /\ OutcomeOf(Findings(w, input.source, target, policy)) = "Eligible"
  BY MoveParts, Zenon
<1> HIDE DEF w, policy, target, class
<1>2. PortabilityFindings(w, policy, class) \subseteq Findings(w, input.source, target, policy)
  BY <1>1 DEF Findings
<1>3. \A f \in PortabilityFindings(w, policy, class) : f.effect # "fail" /\ f.effect # "doubt"
  BY <1>1, <1>2, EligibleFinds, Zenon
<1>4. \A code : Fail(code).effect = "fail" /\ Doubt(code).effect = "doubt"
  BY DEF Fail, Doubt
<1>5. class # "Unknown"
  BY <1>3, <1>4 DEF PortabilityFindings, When
<1>6. class # "Unsupported"
  BY <1>3, <1>4, <1>5 DEF PortabilityFindings, When
<1>7. policy.classes # {} => class \in policy.classes
  BY <1>3, <1>4, <1>5 DEF PortabilityFindings, When
<1>8. w.need = "LiveStateTransfer" => class = "LiveMigrationSupported"
  BY <1>3, <1>4 DEF PortabilityFindings, When
<1> QED BY <1>5, <1>6, <1>7, <1>8, Zenon DEF w, policy, class

(* What the planner's plan rests on, for any two ends.                     *)
LEMMA PlannedIsSupported ==
  ASSUME NEW w, w.need \in Needs, NEW src, NEW dst, NEW policy,
         NEW plan, plan = PlanMove(w, src, dst, policy, "Real")
  PROVE  /\ plan.state = "Planned" => EvidenceSuffices(src, dst)
         /\ {"export-state", "restore-state"} \cap plan.steps # {} => BothSupport(src, dst, CheckpointRestore)
         /\ "transfer-state" \in plan.steps =>
              /\ BothSupport(src, dst, LiveTransfer)
              /\ LiveAllowed(src, dst, SameVendor(src, dst), policy.crossVendor)
         /\ "reconstruct" \in plan.steps => SupportedIn(dst, StateReconstruction) /\ w.reconstruction
         /\ w.need = "CheckpointRestore" => "restart" \notin plan.steps
<1>1. PICK class : class = ClassifyPortability(src, dst, StatedVendor(src), StatedVendor(dst), policy.crossVendor)
  BY Zenon
<1>2. PICK outcome :
        outcome = DeriveOutcome(class, w, SupportedIn(dst, StateReconstruction),
                                BothSupport(src, dst, CheckpointRestore), BothSupport(src, dst, LiveTransfer))
  BY Zenon
<1>3. /\ plan.state = "Planned" <=>
           /\ Refusals(w, policy, class, src, dst, SameVendor(src, dst), "Real") = {}
           /\ outcome # "Unsupported"
      /\ plan.state = "Planned" => plan.steps = StepsFor(outcome)
      /\ plan.state # "Planned" => plan.steps = {}
  BY <1>1, <1>2, PlanShape
<1>4. /\ class # "Unknown" => EvidenceSuffices(src, dst)
      /\ class = "LiveMigrationSupported" =>
           BothSupport(src, dst, LiveTransfer) /\ LiveAllowed(src, dst, SameVendor(src, dst), policy.crossVendor)
  BY <1>1, ClassEvidence DEF SameVendor
<1>5. /\ outcome \in {"MoveNativeState", "RestoreCheckpoint", "RecompileThenRestore", "RepackageAndRestart",
                      "Reconstruct", "Restart", "Unsupported"}
      /\ outcome = "MoveNativeState" => class = "LiveMigrationSupported" /\ BothSupport(src, dst, LiveTransfer)
      /\ outcome \in {"RestoreCheckpoint", "RecompileThenRestore"} => BothSupport(src, dst, CheckpointRestore)
      /\ outcome = "Reconstruct" => w.reconstruction /\ SupportedIn(dst, StateReconstruction)
      /\ w.need = "CheckpointRestore" => outcome \notin {"RepackageAndRestart", "Restart"}
  BY <1>2, OutcomeMeans
<1>6. CASE plan.state # "Planned"
  BY <1>6, <1>3
<1>7. CASE plan.state = "Planned"
  <2>1. class # "Unknown"
    BY <1>7, <1>3 DEF Refusals, When
  <2>2. outcome \in {"MoveNativeState", "RestoreCheckpoint", "RecompileThenRestore", "RepackageAndRestart",
                     "Reconstruct", "Restart"}
    BY <1>7, <1>3, <1>5
  <2>3. plan.steps = StepsFor(outcome)
    BY <1>7, <1>3
  <2> QED BY <2>1, <2>2, <2>3, <1>4, <1>5, StepsMean
<1> QED BY <1>6, <1>7

(* PlannedMovesAreSupported, whatever the two ends are known to support,   *)
(* the workload needs and the policy permits.                              *)
THEOREM PlannedMovesSupported == EnginesSpec => []PlannedMovesAreSupported
<1>1. EnginesInv => PlannedMovesAreSupported
  <2> SUFFICES ASSUME EnginesInv, Answered("move"),
                      answer.plan.state = "Planned" \/ answer.decision.outcome = "Eligible"
               PROVE  PlannedMovesAreSupported
    BY DEF PlannedMovesAreSupported
  <2> DEFINE src == input.source
             dst == input.destination
             steps == answer.plan.steps
  <2>1. /\ answer.plan.state = "Planned" => EvidenceSuffices(src, dst)
        /\ {"export-state", "restore-state"} \cap steps # {} => BothSupport(src, dst, CheckpointRestore)
        /\ "transfer-state" \in steps =>
             /\ BothSupport(src, dst, LiveTransfer)
             /\ LiveAllowed(src, dst, SameVendor(src, dst), input.policy.crossVendor)
        /\ "reconstruct" \in steps => SupportedIn(dst, StateReconstruction) /\ input.workload.reconstruction
        /\ input.workload.need = "CheckpointRestore" => "restart" \notin steps
    BY MoveParts, PlannedIsSupported, Zenon
  <2>2. answer.decision.outcome = "Eligible" => EvidenceSuffices(src, dst)
    <3>1. answer.decision.outcome = "Eligible" => answer.decision.portability # "Unknown"
      BY MoveParts, EligibleClass
    <3>2. answer.decision.portability # "Unknown" => EvidenceSuffices(src, dst)
      BY MoveParts, ClassEvidence
    <3> QED BY <3>1, <3>2
  <2>3. \A caps \in {src, dst}, key \in PortabilityInputs : Lookup(caps, key).state # "Unknown"
    BY <2>1, <2>2 DEF EvidenceSuffices, PortabilityInputs, KnownIn
  <2>4. "transfer-state" \in steps =>
          /\ BothSupport(src, dst, LiveTransfer)
          /\ \/ StatedVendor(src) = StatedVendor(dst)
             \/ BothSupport(src, dst, CrossVendorState) /\ input.policy.crossVendor
    BY <2>1, Zenon DEF LiveAllowed, SameVendor
  <2> HIDE DEF src, dst, steps
  <2> QED BY <2>1, <2>3, <2>4, Zenon DEF PlannedMovesAreSupported, src, dst, steps
<1> QED BY <1>1, EnginesAnswer, PTL

(* A class that the decision accepts, read with or without the vendor of   *)
(* the destination, is one the planner makes a plan for, unless it needs a *)
(* checkpoint or a reconstruction.                                         *)
LEMMA AcceptedIsPlanned ==
  ASSUME NEW w, w.need \in Needs, w.need # "CheckpointRestore", NEW src, NEW dst, NEW policy,
         NEW plan, plan = PlanMove(w, src, dst, policy, "Real"),
         NEW class, class = ClassifyPortability(src, dst, StatedVendor(src), SupportedVendor(dst), policy.crossVendor),
         class \notin {"Unknown", "Unsupported"}, ~RequiresStateReconstruction(class),
         policy.classes = {} \/ (Lookup(dst, VendorId).state = "Supported" /\ class \in policy.classes),
         w.need = "LiveStateTransfer" => class = "LiveMigrationSupported"
  PROVE  plan.state = "Planned"
<1>1. PICK planned : planned = ClassifyPortability(src, dst, StatedVendor(src), StatedVendor(dst), policy.crossVendor)
  BY Zenon
<1>2. PICK outcome :
        outcome = DeriveOutcome(planned, w, SupportedIn(dst, StateReconstruction),
                                BothSupport(src, dst, CheckpointRestore), BothSupport(src, dst, LiveTransfer))
  BY Zenon
<1>3. plan.state = "Planned" <=>
        /\ Refusals(w, policy, planned, src, dst, SameVendor(src, dst), "Real") = {}
        /\ outcome # "Unsupported"
  BY <1>1, <1>2, PlanShape
<1>4. /\ planned \notin {"Unknown", "Unsupported"}
      /\ class = "LiveMigrationSupported" => planned = "LiveMigrationSupported"
      /\ ~RequiresStateReconstruction(planned)
      /\ policy.classes # {} => planned \in policy.classes
  <2>1. CASE SupportedVendor(dst) = StatedVendor(dst)
    <3>1. planned = class
      BY <2>1, <1>1
    <3> QED BY <3>1
  <2>2. CASE SupportedVendor(dst) = {} /\ Lookup(dst, VendorId).state # "Supported"
    <3>1. class = ClassifyPortability(src, dst, StatedVendor(src), {}, policy.crossVendor)
      BY <2>2
    <3> QED BY <3>1, <2>2, <1>1, VendorUnread
  <2> QED BY <2>1, <2>2, VendorRead
<1>5. planned = "LiveMigrationSupported" =>
        BothSupport(src, dst, LiveTransfer) /\ LiveAllowed(src, dst, SameVendor(src, dst), policy.crossVendor)
  BY <1>1, ClassEvidence, Zenon DEF SameVendor
<1>6. Refusals(w, policy, planned, src, dst, SameVendor(src, dst), "Real") = {}
  <2>1. w.need = "LiveStateTransfer" =>
          SameVendor(src, dst) \/ (BothSupport(src, dst, CrossVendorState) /\ policy.crossVendor)
    BY <1>4, <1>5 DEF LiveAllowed
  <2> QED BY <2>1, <1>4 DEF Refusals, When
<1>7. outcome # "Unsupported"
  <2>1. CASE w.need = "LiveStateTransfer"
    BY <2>1, <1>2, <1>4, <1>5 DEF DeriveOutcome
  <2>2. CASE w.need \in {"RestartOnly", "None"}
    BY <2>2, <1>2, <1>4 DEF DeriveOutcome
  <2> QED BY <2>1, <2>2 DEF Needs
<1> QED BY <1>3, <1>6, <1>7

(* A list of classes in the policy can be asked of both verdicts only when *)
(* both read the same vendor: the destination's record is of a supported   *)
(* capability.                                                             *)
VendorComparable ==
  input.kind = "move" => input.policy.classes = {} \/ Lookup(input.destination, VendorId).state = "Supported"

(* EligibleMovesArePlanned, for any two ends, any workload and any policy  *)
(* whose list of classes, if it has one, meets a comparable vendor.        *)
THEOREM EligibleMovesPlanned == EnginesSpec => [](VendorComparable => EligibleMovesArePlanned)
<1>1. EnginesInv => (VendorComparable => EligibleMovesArePlanned)
  <2> SUFFICES ASSUME EnginesInv, VendorComparable, Answered("move"), answer.decision.outcome = "Eligible"
               PROVE  EligibleMovesArePlanned
    BY DEF EligibleMovesArePlanned
  <2> DEFINE class == answer.decision.portability
  <2>1. /\ class \notin {"Unknown", "Unsupported"}
        /\ input.policy.classes # {} => class \in input.policy.classes
        /\ input.workload.need = "LiveStateTransfer" => class = "LiveMigrationSupported"
    BY EligibleClass, Zenon
  <2>2. class = ClassifyPortability(input.source, input.destination, StatedVendor(input.source),
                                    SupportedVendor(input.destination), input.policy.crossVendor)
    BY MoveParts
  <2>3. /\ answer.plan = PlanMove(input.workload, input.source, input.destination, input.policy, "Real")
        /\ input.workload.need \in Needs
    BY MoveParts
  <2> HIDE DEF class
  <2>4. answer.plan.portability = class \/ Lookup(input.destination, VendorId).state # "Supported"
    <3>1. answer.plan.portability =
            ClassifyPortability(input.source, input.destination, StatedVendor(input.source),
                                StatedVendor(input.destination), input.policy.crossVendor)
      BY <2>3, PlanShape
    <3>2. Lookup(input.destination, VendorId).state = "Supported" =>
            SupportedVendor(input.destination) = StatedVendor(input.destination)
      BY VendorRead
    <3> QED BY <2>2, <3>1, <3>2
  <2>5. input.policy.classes = {}
          \/ (Lookup(input.destination, VendorId).state = "Supported" /\ class \in input.policy.classes)
    BY <2>1 DEF VendorComparable, Answered
  <2>6. ASSUME input.workload.need # "CheckpointRestore", ~RequiresStateReconstruction(class)
        PROVE  answer.plan.state = "Planned"
    BY <2>1, <2>2, <2>3, <2>5, <2>6, AcceptedIsPlanned
  <2> QED BY <2>4, <2>6, Zenon DEF EligibleMovesArePlanned, class
<1> QED BY <1>1, EnginesAnswer, PTL

-----------------------------------------------------------------------------
(* Fits.                                                                   *)

(* A finding fails or doubts.                                              *)
LEMMA Effects ==
  \A code : Fail(code).effect = "fail" /\ Doubt(code).effect = "doubt"
BY DEF Fail, Doubt

(* What is known of an accelerator is still known of it, and unchanged.    *)
Extends(more, caps) == \A k : KnownIn(caps, k) => Lookup(more, k) = Lookup(caps, k)

(* Learning capabilities that were not known lifts no failed requirement.  *)
LEMMA RequirementsStayFailed ==
  ASSUME NEW w, NEW policy, NEW s, NEW t, s.fresh = t.fresh, Extends(t.caps, s.caps),
         NEW f \in RequirementFindings(w, s, policy), f.effect = "fail"
  PROVE  f \in RequirementFindings(w, t, policy)
<1> DEFINE hard == {q \in w.requirements : q.strength = "Hard"}
           found(r, u) == LET j == Judgement(r, u, policy)
                          IN When(j = "Violated", Fail("Requirement"))
                               \cup When(j \in {"Stale", "Indeterminate"}, Doubt("Requirement"))
<1>1. PICK r \in hard : f \in found(r, s)
  BY DEF RequirementFindings
<1>2. f = Fail("Requirement") /\ Judgement(r, s, policy) = "Violated"
  BY <1>1, Effects DEF When
<1>3. Lookup(t.caps, r.key) = Lookup(s.caps, r.key)
  BY <1>2 DEF Judgement, MatchRequirement, Extends, KnownIn
<1>4. Judgement(r, t, policy) = Judgement(r, s, policy)
  BY <1>3 DEF Judgement
<1>5. f \in found(r, t)
  BY <1>2, <1>4 DEF When
<1> QED BY <1>5 DEF RequirementFindings

(* Nor does it lift a failed policy.                                       *)
LEMMA PolicyStaysFailed ==
  ASSUME NEW w, NEW policy, NEW s, NEW t,
         s.accelerator = t.accelerator, s.provenance = t.provenance, s.acceptsWork = t.acceptsWork,
         Extends(t.caps, s.caps),
         NEW f \in PolicyFindings(w, s, policy), f.effect = "fail"
  PROVE  f \in PolicyFindings(w, t, policy)
<1>1. \A l : Lookup(s.caps, l).state # "Unknown" => Lookup(t.caps, l) = Lookup(s.caps, l)
  BY DEF Extends, KnownIn
<1>2. CASE f \in When(s.accelerator \in policy.forbiddenAccelerators, Fail("Accelerator"))
  BY <1>2, ZenonT(60) DEF PolicyFindings
<1>3. CASE \/ f \in When(SupportedVendor(s.caps) \cap policy.forbiddenVendors # {}, Fail("Vendor"))
           \/ f \in When(/\ SupportedVendor(s.caps) # {} /\ policy.allowedVendors # {}
                         /\ SupportedVendor(s.caps) \cap policy.allowedVendors = {}, Fail("Vendor"))
  <2>1. SupportedVendor(s.caps) # {} => SupportedVendor(t.caps) = SupportedVendor(s.caps)
    BY <1>1 DEF SupportedVendor, SupportedIn
  <2>2. SupportedVendor(s.caps) # {}
    BY <1>3 DEF When
  <2>3. \/ f \in When(SupportedVendor(t.caps) \cap policy.forbiddenVendors # {}, Fail("Vendor"))
        \/ f \in When(/\ SupportedVendor(t.caps) # {} /\ policy.allowedVendors # {}
                      /\ SupportedVendor(t.caps) \cap policy.allowedVendors = {}, Fail("Vendor"))
    BY <1>3, <2>1, <2>2, Zenon
  <2> QED BY <2>3, Zenon DEF PolicyFindings
<1> DEFINE architecture(u) ==
             IF SupportedIn(u.caps, Architecture) THEN Lookup(u.caps, Architecture).value.tokens ELSE {}
<1>4. CASE f \in When(architecture(s) \cap policy.deprecated # {}, Fail("Architecture"))
  <2>1. architecture(s) # {} => architecture(t) = architecture(s)
    BY <1>1 DEF SupportedIn
  <2> HIDE DEF architecture
  <2>2. architecture(s) # {}
    BY <1>4 DEF When
  <2>3. f \in When(architecture(t) \cap policy.deprecated # {}, Fail("Architecture"))
    BY <1>4, <2>1, <2>2
  <2> QED BY <2>3, ZenonT(60) DEF PolicyFindings, architecture
<1> DEFINE runtime(u) == Lookup(u.caps, RuntimeVersion)
           memory(u) == Lookup(u.caps, MemoryTotal)
<1>5. CASE f \in MinimumFindings(policy.minRuntime # <<>>, runtime(s),
                                 RangeMatches(policy.minRuntime, runtime(s).value.version))
  <2>1. runtime(s).state # "Unknown"
    BY <1>5, Effects DEF MinimumFindings, When
  <2>2. runtime(t) = runtime(s)
    BY <1>1, <2>1
  <2> HIDE DEF runtime
  <2>3. f \in MinimumFindings(policy.minRuntime # <<>>, runtime(t),
                              RangeMatches(policy.minRuntime, runtime(t).value.version))
    BY <1>5, <2>2
  <2> QED BY <2>3, ZenonT(60) DEF PolicyFindings, runtime
<1>6. CASE f \in MinimumFindings(policy.minMemory > 0, memory(s), memory(s).value.number >= policy.minMemory)
  <2>1. memory(s).state # "Unknown"
    BY <1>6, Effects DEF MinimumFindings, When
  <2>2. memory(t) = memory(s)
    BY <1>1, <2>1
  <2> HIDE DEF memory
  <2>3. f \in MinimumFindings(policy.minMemory > 0, memory(t), memory(t).value.number >= policy.minMemory)
    BY <1>6, <2>2
  <2> QED BY <2>3, ZenonT(60) DEF PolicyFindings, memory
<1>7. CASE f \in RequiredCapabilityFindings(s.caps, policy)
  <2>1. PICK l \in policy.required :
          /\ Lookup(s.caps, l).state \in {"Unsupported", "Degraded"}
          /\ f = Fail("RequiredCapability")
    BY <1>7, Effects DEF RequiredCapabilityFindings, When
  <2>2. Lookup(t.caps, l).state \in {"Unsupported", "Degraded"}
    BY <2>1, <1>1
  <2>3. f \in RequiredCapabilityFindings(t.caps, policy)
    BY <2>1, <2>2 DEF RequiredCapabilityFindings, When
  <2> QED BY <2>3, ZenonT(60) DEF PolicyFindings
<1>8. CASE f \in When(\E l \in policy.denied : Lookup(s.caps, l).state \in {"Supported", "Degraded"}, Fail("Denied"))
  <2>1. PICK l \in policy.denied : Lookup(s.caps, l).state \in {"Supported", "Degraded"}
    BY <1>8 DEF When
  <2>2. Lookup(t.caps, l).state \in {"Supported", "Degraded"}
    BY <2>1, <1>1
  <2>3. f \in When(\E m \in policy.denied : Lookup(t.caps, m).state \in {"Supported", "Degraded"}, Fail("Denied"))
    BY <1>8, <2>2 DEF When
  <2> QED BY <2>3, ZenonT(60) DEF PolicyFindings
<1>9. CASE \/ f \in When(~(w.tags \subseteq policy.tags), Fail("Tag"))
           \/ f \in When(policy.synthetic = "Reject" /\ s.provenance # "Real", Fail("Synthetic"))
           \/ f \in When(policy.synthetic = "Require" /\ s.provenance # "Synthetic", Fail("Synthetic"))
           \/ f \in When(~s.acceptsWork, Fail("Member"))
  <2>1. \/ f \in When(~(w.tags \subseteq policy.tags), Fail("Tag"))
        \/ f \in When(policy.synthetic = "Reject" /\ t.provenance # "Real", Fail("Synthetic"))
        \/ f \in When(policy.synthetic = "Require" /\ t.provenance # "Synthetic", Fail("Synthetic"))
        \/ f \in When(~t.acceptsWork, Fail("Member"))
    BY <1>9, Zenon
  <2> QED BY <2>1, Zenon DEF PolicyFindings
<1> QED BY <1>2, <1>3, <1>4, <1>5, <1>6, <1>7, <1>8, <1>9, ZenonT(60) DEF PolicyFindings

(* The findings about an accelerator a workload is to be started on.       *)
FitFindings(q) ==
  RequirementFindings(q.workload, Target(q.caps, q.fresh), q.policy)
    \cup PolicyFindings(q.workload, Target(q.caps, q.fresh), q.policy)

(* The outcome of a fit is that of its requirements and its policy.        *)
LEMMA FitOutcome ==
  ASSUME NEW q
  PROVE  AnswerFit(q).outcome = OutcomeOf(FitFindings(q))
<1> DEFINE target == Target(q.caps, q.fresh)
           class == DecisionClass(NoOrigin, target, q.policy)
           score == MapThenSumSet(LAMBDA r : RequirementScore(r, target, q.policy), q.workload.requirements)
                    - 100 * TransformationSteps(class) - ProvenancePenalty(target.provenance)
                    + FreeMemoryScore(target)
<1>1. AnswerFit(q) = [outcome |-> OutcomeOf(Findings(q.workload, NoOrigin, target, q.policy)),
                      portability |-> class, provenance |-> target.provenance, score |-> score]
  BY Zenon DEF AnswerFit, EvaluateCompatibility
<1> HIDE DEF score, class, target
<1>2. AnswerFit(q).outcome = OutcomeOf(Findings(q.workload, NoOrigin, target, q.policy))
  BY <1>1
<1>3. Findings(q.workload, NoOrigin, target, q.policy) = FitFindings(q)
  BY DEF Findings, FitFindings, target
<1> QED BY <1>2, <1>3

(* A verdict against a member stands whatever is learned of capabilities   *)
(* that were not known.                                                    *)
LEMMA IneligibleWhateverLearned ==
  ASSUME NEW q \in Fits, AnswerFit(q).outcome = "Ineligible",
         NEW more, Extends(more, q.caps), NEW p, p = [q EXCEPT !.caps = more]
  PROVE  AnswerFit(p).outcome = "Ineligible"
<1>1. p.caps = more /\ p.fresh = q.fresh /\ p.workload = q.workload /\ p.policy = q.policy
  BY DEF Fits
<1>2. PICK f \in FitFindings(q) : f.effect = "fail"
  BY FitOutcome DEF OutcomeOf
<1> DEFINE s == Target(q.caps, q.fresh)
           t == Target(p.caps, p.fresh)
<1>3. /\ s.caps = q.caps /\ t.caps = p.caps /\ s.fresh = t.fresh
      /\ s.accelerator = t.accelerator /\ s.provenance = t.provenance /\ s.acceptsWork = t.acceptsWork
  <2>1. /\ s.caps = q.caps /\ s.fresh = q.fresh /\ s.accelerator = "dst"
        /\ s.provenance = "Real" /\ s.acceptsWork = TRUE
    BY DEF Target
  <2>2. /\ t.caps = p.caps /\ t.fresh = p.fresh /\ t.accelerator = "dst"
        /\ t.provenance = "Real" /\ t.acceptsWork = TRUE
    BY DEF Target
  <2> QED BY <2>1, <2>2, <1>1, Zenon
<1> HIDE DEF s, t
<1>4. Extends(t.caps, s.caps)
  BY <1>1, <1>3, Zenon
<1>5. f \in RequirementFindings(q.workload, t, q.policy) \cup PolicyFindings(q.workload, t, q.policy)
  <2>1. CASE f \in RequirementFindings(q.workload, s, q.policy)
    BY <2>1, <1>2, <1>3, <1>4, RequirementsStayFailed
  <2>2. CASE f \in PolicyFindings(q.workload, s, q.policy)
    BY <2>2, <1>2, <1>3, <1>4, PolicyStaysFailed
  <2> QED BY <2>1, <2>2, <1>2 DEF FitFindings, s
<1>6. f \in FitFindings(p)
  BY <1>1, <1>5 DEF FitFindings, t
<1> QED BY <1>2, <1>6, FitOutcome DEF OutcomeOf

(* A record of a capability that was not known is such an addition.        *)
LEMMA RecordExtends ==
  ASSUME NEW caps \in CapabilitySets, NEW k, NEW e, ~KnownIn(caps, k),
         NEW more, more = [caps EXCEPT !.records = WithRecord(@, k, e)]
  PROVE  Extends(more, caps)
<1>1. more.records = WithRecord(caps.records, k, e) /\ more.closed = caps.closed
  BY DEF CapabilitySets
<1>2. DOMAIN more.records = {k} \cup DOMAIN caps.records
  BY <1>1 DEF WithRecord
<1>3. \A l \in DOMAIN caps.records : l # k => more.records[l] = caps.records[l]
  BY <1>1 DEF WithRecord
<1>4. \A l : l # k => Lookup(more, l) = Lookup(caps, l)
  BY <1>1, <1>2, <1>3 DEF Lookup
<1> QED BY <1>4, Zenon DEF Extends

(* Only the hard requirements decide.                                      *)
LEMMA PreferencesDoNotDecide ==
  ASSUME NEW q \in Fits, NEW soft, \A r \in soft : r.strength # "Hard",
         NEW p, p = [q EXCEPT !.workload.requirements = soft \cup {r \in @ : r.strength = "Hard"}]
  PROVE  AnswerFit(p).outcome = AnswerFit(q).outcome
<1>1. /\ p.workload = [q.workload EXCEPT !.requirements = soft \cup {r \in @ : r.strength = "Hard"}]
      /\ p.fresh = q.fresh /\ p.caps = q.caps /\ p.policy = q.policy
  BY DEF Fits
<1>2. q.workload \in Workloads
  BY DEF Fits
<1>3. /\ p.workload.requirements = soft \cup {r \in q.workload.requirements : r.strength = "Hard"}
      /\ p.workload.tags = q.workload.tags
  BY <1>1, <1>2 DEF Workloads
<1>4. {r \in p.workload.requirements : r.strength = "Hard"} = {r \in q.workload.requirements : r.strength = "Hard"}
  BY <1>3
<1> DEFINE target == Target(q.caps, q.fresh)
<1> HIDE DEF target
<1>5. RequirementFindings(p.workload, target, q.policy) = RequirementFindings(q.workload, target, q.policy)
  BY <1>4, Zenon DEF RequirementFindings
<1>6. PolicyFindings(p.workload, target, q.policy) = PolicyFindings(q.workload, target, q.policy)
  BY <1>3, Zenon DEF PolicyFindings
<1>7. FitFindings(p) = FitFindings(q)
  BY <1>1, <1>5, <1>6, Zenon DEF FitFindings, target
<1> QED BY <1>7, FitOutcome

(* INELIGIBLE stands for every capability set that keeps what is known,    *)
(* however much it adds and whatever it says of the rest, and for every    *)
(* set of preferences.                                                     *)
IneligibleStands ==
  Answered("fit") /\ answer.outcome = "Ineligible" =>
    /\ \A more \in CapabilitySets :
         Extends(more, input.caps) => AnswerFit([input EXCEPT !.caps = more]).outcome = "Ineligible"
    /\ \A preferences \in SUBSET {r \in Requirements : r.strength = "Soft"} :
         AnswerFit([input EXCEPT !.workload.requirements =
                      preferences \cup {r \in @ : r.strength = "Hard"}]).outcome = "Ineligible"

(* IneligibleIsFinal, for every accelerator, workload and policy, and not  *)
(* only for the records and preferences TLC tries: IneligibleStands.       *)
THEOREM IneligibleFinal == EnginesSpec => [](IneligibleIsFinal /\ IneligibleStands)
<1>1. EnginesInv => IneligibleIsFinal /\ IneligibleStands
  <2> SUFFICES ASSUME EnginesInv, Answered("fit"), answer.outcome = "Ineligible"
               PROVE  IneligibleIsFinal /\ IneligibleStands
    BY DEF IneligibleIsFinal, IneligibleStands
  <2>1. input \in Fits /\ input.caps \in CapabilitySets
    BY DEF EnginesInv, Answered, Moves, Fits, VersionTriples
  <2>2. AnswerFit(input).outcome = "Ineligible"
    BY DEF EnginesInv, Answered
  <2>3. \A more : Extends(more, input.caps) => AnswerFit([input EXCEPT !.caps = more]).outcome = "Ineligible"
    BY <2>1, <2>2, IneligibleWhateverLearned, Zenon
  <2>4. \A k \in {l \in DOMAIN Learned : ~KnownIn(input.caps, l)} : \A e \in Learned[k] :
          AnswerFit([input EXCEPT !.caps.records = WithRecord(@, k, e)]).outcome = "Ineligible"
    <3> SUFFICES ASSUME NEW k, NEW e, ~KnownIn(input.caps, k)
                 PROVE  AnswerFit([input EXCEPT !.caps.records = WithRecord(@, k, e)]).outcome = "Ineligible"
      BY Zenon
    <3> DEFINE more == [input.caps EXCEPT !.records = WithRecord(@, k, e)]
    <3>1. Extends(more, input.caps)
      BY <2>1, RecordExtends, Zenon
    <3>2. [input EXCEPT !.caps.records = WithRecord(@, k, e)] = [input EXCEPT !.caps = more]
      BY <2>1 DEF Fits
    <3> HIDE DEF more
    <3> QED BY <3>1, <3>2, <2>3, Zenon
  <2>5. \A preferences : (\A r \in preferences : r.strength # "Hard") =>
          AnswerFit([input EXCEPT !.workload.requirements =
                       preferences \cup {r \in @ : r.strength = "Hard"}]).outcome = "Ineligible"
    BY <2>1, <2>2, PreferencesDoNotDecide, Zenon
  <2>6. \A r \in Preferences : r.strength # "Hard"
    BY Zenon DEF Preferences, Soft, Require
  <2>7. \A preferences \in {{}, Preferences} : \A r \in preferences : r.strength # "Hard"
    BY <2>6
  <2>8. \A preferences \in SUBSET {r \in Requirements : r.strength = "Soft"} : \A r \in preferences : r.strength # "Hard"
    OBVIOUS
  <2>9. IneligibleIsFinal
    BY <2>4, <2>5, <2>7, Zenon DEF IneligibleIsFinal
  <2>10. IneligibleStands
    BY <2>3, <2>5, <2>8, Zenon DEF IneligibleStands
  <2> QED BY <2>9, <2>10
<1> QED BY <1>1, EnginesAnswer, PTL

(* EligibleMeansProven for any requirement and any policy, with the        *)
(* operators of the engine in place of the intervals TLC compares them     *)
(* with: eligible means that every hard requirement is met by evidence     *)
(* that counts, and that the policy finds what it asks for.                *)
EligibleMeansMet ==
  Answered("fit") /\ answer.outcome = "Eligible" =>
    /\ \A r \in {s \in input.workload.requirements : s.strength = "Hard"} :
         LET look == Lookup(input.caps, r.key)
         IN /\ IsDynamic(r.key) => input.fresh
            /\ IF r.op = "Absent" THEN look.state = "Unsupported"
               ELSE Trusted(look) /\ Meets(look.value, r)
    /\ \A k \in input.policy.required : Lookup(input.caps, k).state = "Supported"
    /\ \A k \in input.policy.denied : Lookup(input.caps, k).state \in {"Unknown", "Unsupported"}
    /\ input.policy.minRuntime # <<>> =>
         LET look == Lookup(input.caps, RuntimeVersion)
         IN /\ look.state # "Unknown"
            /\ look.value # NoValue => RangeMatches(input.policy.minRuntime, look.value.version)

(* Whatever is looked up is in one of the four states.                     *)
LEMMA LookupState ==
  ASSUME NEW c \in CapabilitySets, NEW k
  PROVE  Lookup(c, k).state \in States
<1>1. PICK K \in SUBSET Keys : c.records \in [K -> [state: States, value: Values]]
  BY DEF CapabilitySets
<1>2. CASE k \in DOMAIN c.records
  <2>1. c.records[k] \in [state: States, value: Values]
    BY <1>1, <1>2
  <2>2. c.records[k].state \in States
    BY <2>1
  <2> QED BY <2>2, <1>2 DEF Lookup
<1>3. CASE k \notin DOMAIN c.records
  BY <1>3 DEF Lookup, States
<1> QED BY <1>2, <1>3

(* A hard requirement without a finding is met.                            *)
LEMMA QuietRequirement ==
  ASSUME NEW w, NEW policy, NEW t,
         \A f \in RequirementFindings(w, t, policy) : f.effect # "fail" /\ f.effect # "doubt",
         NEW r \in w.requirements, r.strength = "Hard", Lookup(t.caps, r.key).state \in States
  PROVE  LET look == Lookup(t.caps, r.key)
         IN /\ IsDynamic(r.key) => t.fresh
            /\ IF r.op = "Absent" THEN look.state = "Unsupported"
               ELSE /\ look.state = "Supported" \/ (look.state = "Degraded" /\ policy.allowDegraded)
                    /\ Meets(look.value, r)
<1> DEFINE found == LET j == Judgement(r, t, policy)
                    IN When(j = "Violated", Fail("Requirement"))
                         \cup When(j \in {"Stale", "Indeterminate"}, Doubt("Requirement"))
<1>1. found \subseteq RequirementFindings(w, t, policy)
  BY DEF RequirementFindings
<1>2. \A f \in found : f.effect # "fail" /\ f.effect # "doubt"
  BY <1>1, Zenon
<1>3. Judgement(r, t, policy) \notin {"Violated", "Stale", "Indeterminate"}
  BY <1>2, Effects DEF When
<1>4. IsDynamic(r.key) => t.fresh
  BY <1>3 DEF Judgement
<1>5. MatchRequirement(r, Lookup(t.caps, r.key), policy.allowDegraded) \notin {"Violated", "Indeterminate"}
  BY <1>3, <1>4 DEF Judgement
<1> QED BY <1>4, <1>5 DEF MatchRequirement, Judged, States

(* A policy without a finding has what it requires and not what it denies. *)
LEMMA QuietPolicy ==
  ASSUME NEW w, NEW policy, NEW t,
         \A f \in PolicyFindings(w, t, policy) : f.effect # "fail" /\ f.effect # "doubt",
         \A k : Lookup(t.caps, k).state \in States
  PROVE  /\ \A k \in policy.required : Lookup(t.caps, k).state = "Supported"
         /\ \A k \in policy.denied : Lookup(t.caps, k).state \in {"Unknown", "Unsupported"}
         /\ policy.minRuntime # <<>> =>
              LET look == Lookup(t.caps, RuntimeVersion)
              IN /\ look.state # "Unknown"
                 /\ look.value # NoValue => RangeMatches(policy.minRuntime, look.value.version)
<1> DEFINE runtime == Lookup(t.caps, RuntimeVersion)
<1>1. /\ RequiredCapabilityFindings(t.caps, policy) \subseteq PolicyFindings(w, t, policy)
      /\ When(\E k \in policy.denied : Lookup(t.caps, k).state \in {"Supported", "Degraded"}, Fail("Denied"))
           \subseteq PolicyFindings(w, t, policy)
      /\ MinimumFindings(policy.minRuntime # <<>>, runtime, RangeMatches(policy.minRuntime, runtime.value.version))
           \subseteq PolicyFindings(w, t, policy)
  BY Zenon DEF PolicyFindings
<1>2. \A k \in policy.required : Lookup(t.caps, k).state = "Supported"
  <2> TAKE k \in policy.required
  <2> DEFINE found == When(Lookup(t.caps, k).state = "Unknown", Doubt("RequiredCapability"))
                        \cup When(Lookup(t.caps, k).state \in {"Unsupported", "Degraded"}, Fail("RequiredCapability"))
  <2>1. found \subseteq RequiredCapabilityFindings(t.caps, policy)
    BY DEF RequiredCapabilityFindings
  <2>2. \A f \in found : f.effect # "fail" /\ f.effect # "doubt"
    BY <2>1, <1>1, Zenon
  <2>3. Lookup(t.caps, k).state \notin {"Unknown", "Unsupported", "Degraded"}
    BY <2>2, Effects DEF When
  <2> QED BY <2>3 DEF States
<1>3. \A k \in policy.denied : Lookup(t.caps, k).state \in {"Unknown", "Unsupported"}
  <2>1. ~\E k \in policy.denied : Lookup(t.caps, k).state \in {"Supported", "Degraded"}
    BY <1>1, Effects DEF When
  <2> QED BY <2>1 DEF States
<1>4. ASSUME policy.minRuntime # <<>>
      PROVE  /\ runtime.state # "Unknown"
             /\ runtime.value # NoValue => RangeMatches(policy.minRuntime, runtime.value.version)
  <2>1. \A f \in MinimumFindings(policy.minRuntime # <<>>, runtime,
                                 RangeMatches(policy.minRuntime, runtime.value.version)) :
          f.effect # "fail" /\ f.effect # "doubt"
    BY <1>1, Zenon
  <2> HIDE DEF runtime
  <2> QED BY <1>4, <2>1, Effects DEF MinimumFindings, When
<1> QED BY <1>2, <1>3, <1>4, Zenon

(* EligibleMeansMet, for every accelerator, workload and policy.           *)
THEOREM EligibleIsMet == EnginesSpec => []EligibleMeansMet
<1>1. EnginesInv => EligibleMeansMet
  <2> SUFFICES ASSUME EnginesInv, Answered("fit"), answer.outcome = "Eligible"
               PROVE  EligibleMeansMet
    BY DEF EligibleMeansMet
  <2>1. input \in Fits
    BY DEF EnginesInv, Answered, Moves, Fits, VersionTriples
  <2>2. OutcomeOf(FitFindings(input)) = "Eligible"
    BY FitOutcome DEF EnginesInv, Answered
  <2>3. \A f \in FitFindings(input) : f.effect # "fail" /\ f.effect # "doubt"
    BY <2>2, EligibleFinds
  <2> DEFINE t == Target(input.caps, input.fresh)
  <2>4. t.caps = input.caps /\ t.fresh = input.fresh
    BY DEF Target
  <2>5. /\ \A f \in RequirementFindings(input.workload, t, input.policy) : f.effect # "fail" /\ f.effect # "doubt"
        /\ \A f \in PolicyFindings(input.workload, t, input.policy) : f.effect # "fail" /\ f.effect # "doubt"
    BY <2>3, Zenon DEF FitFindings
  <2> HIDE DEF t
  <2>6. \A k : Lookup(t.caps, k).state \in States
    <3>1. input.caps \in CapabilitySets
      BY <2>1 DEF Fits
    <3> QED BY <3>1, <2>4, LookupState, Zenon
  <2>7. \A r \in {s \in input.workload.requirements : s.strength = "Hard"} :
          LET look == Lookup(t.caps, r.key)
          IN /\ IsDynamic(r.key) => t.fresh
             /\ IF r.op = "Absent" THEN look.state = "Unsupported"
                ELSE /\ look.state = "Supported" \/ (look.state = "Degraded" /\ input.policy.allowDegraded)
                     /\ Meets(look.value, r)
    BY <2>5, <2>6, QuietRequirement, ZenonT(60)
  <2>8. /\ \A k \in input.policy.required : Lookup(t.caps, k).state = "Supported"
        /\ \A k \in input.policy.denied : Lookup(t.caps, k).state \in {"Unknown", "Unsupported"}
        /\ input.policy.minRuntime # <<>> =>
             LET look == Lookup(t.caps, RuntimeVersion)
             IN /\ look.state # "Unknown"
                /\ look.value # NoValue => RangeMatches(input.policy.minRuntime, look.value.version)
    BY <2>5, <2>6, QuietPolicy, SMTT(60)
  <2>9. \A r \in {s \in input.workload.requirements : s.strength = "Hard"} :
          LET look == Lookup(input.caps, r.key)
          IN /\ IsDynamic(r.key) => input.fresh
             /\ IF r.op = "Absent" THEN look.state = "Unsupported"
                ELSE Trusted(look) /\ Meets(look.value, r)
    BY <2>4, <2>7, ZenonT(60) DEF Trusted
  <2> QED BY <2>4, <2>8, <2>9, ZenonT(30) DEF EligibleMeansMet
<1> QED BY <1>1, EnginesAnswer, PTL

(* A version with the same major number is below the next major version,   *)
(* and one that shares the minor number too below the next minor one.      *)
LEMMA BelowNext ==
  ASSUME NEW v \in Versions, NEW w \in Versions, v.core[1] = w.core[1]
  PROVE  /\ VersionBelow(v, V(w.core[1] + 1, 0, <<>>))
         /\ v.core[2] = w.core[2] => VersionBelow(v, V(w.core[1], w.core[2] + 1, <<>>))
<1>1. v.core \in Seq(Nat) /\ Len(v.core) = 3 /\ w.core \in Seq(Nat) /\ Len(w.core) = 3
  BY VersionParts DEF Cores
<1>2. v.core[1] \in Nat /\ v.core[2] \in Nat /\ w.core[1] \in Nat /\ w.core[2] \in Nat
  <2>1. 1 \in 1..3 /\ 2 \in 1..3
    OBVIOUS
  <2> QED BY <1>1, <2>1
<1>3. Lexicographic(v.core, <<w.core[1] + 1, 0, 0>>)
  <2> DEFINE next == <<w.core[1] + 1, 0, 0>>
  <2>1. Len(next) = 3 /\ next[1] = w.core[1] + 1
    OBVIOUS
  <2> HIDE DEF next
  <2>2. At(v.core, 1) < At(next, 1) /\ \A j \in 1..(1 - 1) : At(v.core, j) = At(next, j)
    BY <1>1, <1>2, <2>1 DEF At
  <2> QED BY <1>1, <2>1, <2>2 DEF Lexicographic, next
<1>4. ASSUME v.core[2] = w.core[2]
      PROVE  Lexicographic(v.core, <<w.core[1], w.core[2] + 1, 0>>)
  <2> DEFINE next == <<w.core[1], w.core[2] + 1, 0>>
  <2>1. Len(next) = 3 /\ next[1] = w.core[1] /\ next[2] = w.core[2] + 1
    OBVIOUS
  <2> HIDE DEF next
  <2>2. At(v.core, 2) < At(next, 2) /\ \A j \in 1..(2 - 1) : At(v.core, j) = At(next, j)
    BY <1>1, <1>2, <1>4, <2>1 DEF At
  <2>3. 2 \in 1..(IF Len(v.core) < Len(next) THEN Len(next) ELSE Len(v.core))
    BY <1>1, <2>1
  <2> QED BY <2>2, <2>3 DEF Lexicographic, next
<1>5. /\ V(w.core[1] + 1, 0, <<>>).core = <<w.core[1] + 1, 0, 0>>
      /\ V(w.core[1], w.core[2] + 1, <<>>).core = <<w.core[1], w.core[2] + 1, 0>>
  BY DEF V
<1> QED BY <1>3, <1>4, <1>5 DEF VersionBelow

(* A clause admits what satisfies it: here the order has to be total.      *)
LEMMA ClauseAdmits ==
  ASSUME NEW c \in Clauses, NEW v \in Versions, SatisfiesClause(v, c)
  PROVE  AdmittedVersion(c, v)
<1>1. c.version \in Versions
  BY DEF Clauses
<1>2. CASE c.op = "Any"
  BY <1>2 DEF AdmittedVersion
<1>3. CASE c.op = "Equal"
  <2>1. v = c.version
    BY <1>3 DEF SatisfiesClause
  <2> QED BY <1>3, <2>1, VersionIrreflexive DEF AdmittedVersion
<1>4. CASE c.op = "NotEqual"
  <2>1. v # c.version
    BY <1>4 DEF SatisfiesClause
  <2>2. VersionBelow(v, c.version) \/ VersionBelow(c.version, v)
    BY <1>1, <2>1, VersionTotal
  <2> QED BY <1>4, <2>2 DEF AdmittedVersion
<1>5. CASE c.op \in {"Less", "LessEqual", "Greater", "GreaterEqual"}
  BY <1>5, Zenon DEF SatisfiesClause, AdmittedVersion
<1>6. CASE c.op = "Compatible"
  <2>1. ~VersionBelow(v, c.version) /\ v.core[1] = c.version.core[1]
    BY <1>6 DEF SatisfiesClause
  <2>2. VersionBelow(v, V(c.version.core[1] + 1, 0, <<>>))
    BY <1>1, <2>1, BelowNext
  <2> QED BY <1>6, <2>1, <2>2 DEF AdmittedVersion
<1>7. CASE c.op = "Tilde"
  <2>1. ~VersionBelow(v, c.version) /\ v.core[1] = c.version.core[1] /\ v.core[2] = c.version.core[2]
    BY <1>7 DEF SatisfiesClause
  <2>2. VersionBelow(v, V(c.version.core[1], c.version.core[2] + 1, <<>>))
    BY <1>1, <2>1, BelowNext
  <2> QED BY <1>7, <2>1, <2>2 DEF AdmittedVersion
<1> QED BY <1>2, <1>3, <1>4, <1>5, <1>6, <1>7 DEF Clauses

(* So does a range what matches it.                                        *)
LEMMA RangeAdmits ==
  ASSUME NEW range \in Seq(Clauses), NEW v \in Versions, RangeMatches(range, v)
  PROVE  \A i \in DOMAIN range : AdmittedVersion(range[i], v)
<1> TAKE i \in DOMAIN range
<1> DEFINE S == Clauses
<1>1. range[i] \in S
  <2> HIDE DEF S
  <2>1. range \in Seq(S) /\ DOMAIN range = 1..Len(range)
    BY DEF S
  <2> QED BY <2>1
<1> QED BY <1>1, ClauseAdmits DEF RangeMatches

(* The operators that compare numbers.                                     *)
Comparing == {"NotEquals", "AtLeast", "AtMost", "GreaterThan", "LessThan"}

(* A requirement admits what meets it.                                     *)
LEMMA MeetsAdmits ==
  ASSUME NEW r \in Requirements, r.op # "Absent", NEW v \in Values, Meets(v, r),
         r.op \in Comparing => v = IntegerValue(v.number) /\ r.value = IntegerValue(r.value.number)
  PROVE  Admitted(r, v)
<1>1. r.value \in Values /\ r.range \in Seq(Clauses)
  BY DEF Requirements
<1>2. v.number \in Int /\ r.value.number \in Int /\ v.version \in Versions
  BY <1>1 DEF Values
<1>3. CASE r.op = "Present"
  BY <1>3 DEF Admitted
<1>4. CASE r.op = "Equals"
  <2>1. v = r.value
    BY <1>4 DEF Meets
  <2> QED BY <1>4, <2>1 DEF Admitted
<1>5. CASE r.op \in Comparing
  <2>1. v.kind = "Integer" /\ r.value.kind = "Integer" /\ (v.number = r.value.number => v = r.value)
    BY <1>5 DEF IntegerValue, Value
  <2>2. AtLeast(v, r.value) <=> v.number >= r.value.number
    BY <2>1 DEF AtLeast
  <2>3. AtLeast(r.value, v) <=> r.value.number >= v.number
    BY <2>1 DEF AtLeast
  <2>4. CASE r.op = "NotEquals"
    <3>1. v # r.value
      BY <2>4 DEF Meets
    <3> QED BY <2>4, <3>1, <2>1, <1>2 DEF Admitted
  <2>5. CASE r.op = "AtLeast"
    <3>1. v.number >= r.value.number
      BY <2>5, <2>2 DEF Meets
    <3> QED BY <2>5, <3>1, <1>2 DEF Admitted
  <2>6. CASE r.op = "AtMost"
    <3>1. r.value.number >= v.number
      BY <2>6, <2>3 DEF Meets
    <3> QED BY <2>6, <3>1, <1>2 DEF Admitted
  <2>7. CASE r.op = "GreaterThan"
    <3>1. v.number >= r.value.number /\ v # r.value
      BY <2>7, <2>2 DEF Meets
    <3> QED BY <2>7, <3>1, <2>1, <1>2 DEF Admitted
  <2>8. CASE r.op = "LessThan"
    <3>1. r.value.number >= v.number /\ v # r.value
      BY <2>8, <2>3 DEF Meets
    <3> QED BY <2>8, <3>1, <2>1, <1>2 DEF Admitted
  <2> QED BY <1>5, <2>4, <2>5, <2>6, <2>7, <2>8 DEF Comparing
<1>6. CASE r.op \in {"InSet", "SubsetOf"}
  <2>1. v.tokens \subseteq r.value.tokens
    BY <1>6, Zenon DEF Meets
  <2> QED BY <1>6, <2>1, Zenon DEF Admitted
<1>7. CASE r.op = "SupersetOf"
  <2>1. r.value.tokens \subseteq v.tokens
    BY <1>7 DEF Meets
  <2> QED BY <1>7, <2>1 DEF Admitted
<1>8. CASE r.op = "IntersectsWith"
  <2>1. v.tokens \cap r.value.tokens # {}
    BY <1>8 DEF Meets
  <2> QED BY <1>8, <2>1 DEF Admitted
<1>9. CASE r.op = "VersionSatisfies"
  <2>1. RangeMatches(r.range, v.version)
    BY <1>9 DEF Meets
  <2>2. \A i \in DOMAIN r.range : AdmittedVersion(r.range[i], v.version)
    BY <1>1, <1>2, <2>1, RangeAdmits
  <2> QED BY <1>9, <2>2 DEF Admitted
<1> QED BY <1>3, <1>4, <1>5, <1>6, <1>7, <1>8, <1>9 DEF Requirements, Comparing

(* What is looked up has a value of its type once it is a record's.        *)
LEMMA LookupValue ==
  ASSUME NEW c \in CapabilitySets, NEW k,
         Lookup(c, k).state \notin {"Unknown", "Unsupported"} \/ Lookup(c, k).value # NoValue
  PROVE  Lookup(c, k).value \in Values
<1>1. PICK K \in SUBSET Keys : c.records \in [K -> [state: States, value: Values]]
  BY DEF CapabilitySets
<1>2. k \in DOMAIN c.records
  BY DEF Lookup
<1>3. c.records[k] \in [state: States, value: Values]
  BY <1>1, <1>2
<1> QED BY <1>2, <1>3 DEF Lookup

(* Numbers are compared with numbers: the record and the requirement are   *)
(* of the kind the taxonomy gives the key.                                 *)
NumbersCompared ==
  input.kind = "fit" =>
    \A r \in {s \in input.workload.requirements : s.strength = "Hard"} :
      r.op \in Comparing =>
        /\ r.value = IntegerValue(r.value.number)
        /\ r.key \in DOMAIN input.caps.records =>
             LET v == input.caps.records[r.key].value IN v = IntegerValue(v.number)

(* EligibleMeansProven, for every accelerator, workload and policy, when   *)
(* numbers are compared with numbers.                                      *)
THEOREM EligibleProven == EnginesSpec => [](NumbersCompared => EligibleMeansProven)
<1>1. EnginesInv /\ EligibleMeansMet => (NumbersCompared => EligibleMeansProven)
  <2> SUFFICES ASSUME EnginesInv, EligibleMeansMet, NumbersCompared,
                      Answered("fit"), answer.outcome = "Eligible"
               PROVE  EligibleMeansProven
    BY DEF EligibleMeansProven
  <2>1. /\ input.caps \in CapabilitySets /\ input.workload \in Workloads /\ input.policy \in Policies
        /\ input.kind = "fit"
    BY DEF EnginesInv, Answered, Moves, Fits, VersionTriples
  <2>2. ASSUME NEW r \in input.workload.requirements, r.strength = "Hard"
        PROVE  LET look == Lookup(input.caps, r.key)
               IN /\ r.key = MemoryFree => input.fresh
                  /\ IF r.op = "Absent" THEN look.state = "Unsupported"
                     ELSE Trusted(look) /\ Admitted(r, look.value)
    <3> DEFINE look == Lookup(input.caps, r.key)
    <3>1. /\ IsDynamic(r.key) => input.fresh
          /\ IF r.op = "Absent" THEN look.state = "Unsupported"
             ELSE Trusted(look) /\ Meets(look.value, r)
      BY <2>2, Zenon DEF EligibleMeansMet
    <3>2. r.key = MemoryFree => input.fresh
      BY <3>1 DEF IsDynamic
    <3>3. r \in Requirements
      BY <2>1, <2>2 DEF Workloads
    <3>4. ASSUME r.op # "Absent"
          PROVE  Trusted(look) /\ Admitted(r, look.value)
      <4>1. Trusted(look) /\ Meets(look.value, r)
        BY <3>1, <3>4
      <4>2. look.state \notin {"Unknown", "Unsupported"}
        BY <4>1 DEF Trusted
      <4>3. look.value \in Values
        BY <2>1, <4>2, LookupValue
      <4>4. r.op \in Comparing => r.value = IntegerValue(r.value.number)
        BY <2>1, <2>2 DEF NumbersCompared
      <4>5. r.op \in Comparing => look.value = IntegerValue(look.value.number)
        <5>1. r.key \in DOMAIN input.caps.records /\ look = input.caps.records[r.key]
          BY <4>2 DEF Lookup
        <5> QED BY <5>1, <2>1, <2>2, Zenon DEF NumbersCompared
      <4> QED BY <4>1, <4>3, <4>4, <4>5, <3>3, <3>4, MeetsAdmits
    <3> HIDE DEF look
    <3> QED BY <3>1, <3>2, <3>4, Zenon DEF look
  <2>3. ASSUME input.policy.minRuntime # <<>>
        PROVE  LET look == Lookup(input.caps, RuntimeVersion)
               IN /\ look.state # "Unknown"
                  /\ look.value # NoValue =>
                       \A i \in DOMAIN input.policy.minRuntime :
                         AdmittedVersion(input.policy.minRuntime[i], look.value.version)
    <3> DEFINE look == Lookup(input.caps, RuntimeVersion)
    <3>1. /\ look.state # "Unknown"
          /\ look.value # NoValue => RangeMatches(input.policy.minRuntime, look.value.version)
      BY <2>3, Zenon DEF EligibleMeansMet
    <3>2. input.policy.minRuntime \in Seq(Clauses)
      BY <2>1 DEF Policies
    <3>3. look.value # NoValue => look.value.version \in Versions
      <4>1. look.value # NoValue => look.value \in Values
        BY <2>1, LookupValue
      <4> HIDE DEF look
      <4> QED BY <4>1 DEF Values
    <3> HIDE DEF look
    <3>4. look.value # NoValue =>
            \A i \in DOMAIN input.policy.minRuntime :
              AdmittedVersion(input.policy.minRuntime[i], look.value.version)
      BY <3>1, <3>2, <3>3, RangeAdmits
    <3> QED BY <3>1, <3>4, Zenon DEF look
  <2>4. /\ \A k \in input.policy.required : Lookup(input.caps, k).state = "Supported"
        /\ \A k \in input.policy.denied : Lookup(input.caps, k).state \in {"Unknown", "Unsupported"}
    BY Zenon DEF EligibleMeansMet
  <2> QED BY <2>2, <2>3, <2>4, ZenonT(60) DEF EligibleMeansProven
<1> QED BY <1>1, EnginesAnswer, EligibleIsMet, PTL
=============================================================================
