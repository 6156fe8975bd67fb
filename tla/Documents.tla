------------------------------ MODULE Documents ------------------------------
(***************************************************************************)
(* The documents a federation accepts, writes into its snapshot and reads  *)
(* back: policies, workload profiles, capability sets, descriptors,        *)
(* decisions and plans (src/model, src/federation/snapshot.cpp).  A        *)
(* document is checked by validate() when it is accepted and again, by     *)
(* other rules, by deserialize() when it is read.                          *)
(*                                                                         *)
(* Writing keeps every field as it is, so a written document is the        *)
(* document; reading canonicalises and refuses.  An identity is the        *)
(* content it is the digest of.                                            *)
(*                                                                         *)
(* Tokens and names are numbers in the order of their bytes.  A token from *)
(* 11 on is in canonical spelling; ten less is the same token with capital *)
(* letters, which sort first; 0 is malformed or too long.  A capability    *)
(* name below 20 is a core name, 11 is vendor.id; 22 is an extension's and *)
(* 21 its other spelling.  A text that validate() does not measure and     *)
(* deserialize() does is its length.                                       *)
(***************************************************************************)
EXTENDS Integers, Sequences, Functions, Sorting

CONSTANTS
  MaxDimensions,   \* Limits::kMaxPolicyDimensions
  MaxClauses,      \* clauses of a version range that is read
  MaxTopology,     \* Limits::kMaxTopologyReferences
  MaxTokens,       \* Limits::kMaxTokensPerCapability
  MaxToken,        \* Limits::kMaxTokenBytes
  MaxName,         \* Limits::kMaxNameBytes
  MaxString,       \* Limits::kMaxStringBytes
  MaxText,         \* Limits::kMaxDescriptionBytes
  MaxReasons       \* reasons of a plan that is read

ASSUME LimitsAssumption ==
  {MaxDimensions, MaxClauses, MaxTopology, MaxTokens, MaxToken, MaxName, MaxString, MaxText, MaxReasons} \subseteq Nat \ {0}

-----------------------------------------------------------------------------
(* Tokens and lists.                                                       *)

Capitals == 10

WellFormed(token) == token # 0
CanonicalToken(token) == IF token <= Capitals THEN token + Capitals ELSE token

VendorName == 11
CoreNames == {VendorName, 12}
ExtensionName == 22
ExtensionVariant == 21

Resolves(name) == name \in CoreNames \cup {ExtensionName, ExtensionVariant}
ResolvedName(name) == IF name = ExtensionVariant THEN ExtensionName ELSE name

(* std::lower_bound: the number of elements before the place of x.  On a   *)
(* list that is not sorted it is whatever the halving leads to.  A range   *)
(* has its first element behind r[1] and its last at r[2].                 *)
LowerBound(s, x) ==
  LET bound[r \in (0..Len(s)) \X (0..Len(s))] ==
        LET middle == r[1] + ((r[2] - r[1]) \div 2)
        IN IF r[2] <= r[1] THEN r[1]
           ELSE IF s[middle + 1] < x THEN bound[<<middle + 1, r[2]>>]
           ELSE bound[<<r[1], middle>>]
  IN bound[<<0, Len(s)>>]

BinarySearch(s, x) ==
  LET i == LowerBound(s, x) + 1
  IN i <= Len(s) /\ s[i] = x

-----------------------------------------------------------------------------
(* Policies.  The lists keep the order they were declared in; minimum is   *)
(* the length of the minimum runtime version's range.                      *)

TokenLists == {"allowed", "forbidden", "deprecated", "tags"}
NameLists == {"required", "denied"}
Lists == TokenLists \cup NameLists

(* digest(): lists and devices sorted, classes as a set.                   *)
PolicyDigest(p) ==
  [lists |-> [l \in Lists |-> Sorted(p.lists[l])],
   devices |-> Sorted(p.devices),
   minimum |-> p.minimum,
   classes |-> Range(p.classes)]

ValidPolicy(p) ==
  /\ \A l \in Lists : Len(p.lists[l]) <= MaxDimensions
  /\ Len(p.devices) <= MaxDimensions
  /\ \A l \in NameLists : \A name \in Range(p.lists[l]) : Resolves(name)
  /\ \A name \in Range(p.lists["required"]) : ~BinarySearch(p.lists["denied"], name)
  /\ \A vendor \in Range(p.lists["allowed"]) : ~BinarySearch(p.lists["forbidden"], vendor)

(* set_policy(): the policy that is stored if it is valid.                 *)
RefreshedPolicy(p) == [p EXCEPT !.id = PolicyDigest(p)]

CanonicalPolicy(p) ==
  [p EXCEPT !.lists = [l \in Lists |->
     Sorted([i \in DOMAIN p.lists[l] |->
               IF l \in NameLists THEN ResolvedName(p.lists[l][i]) ELSE CanonicalToken(p.lists[l][i])])]]

(* deserialize() of a policy                                               *)
PolicyReadable(p) ==
  LET canonical == CanonicalPolicy(p)
  IN /\ Len(p.classes) <= MaxDimensions
     /\ p.minimum <= MaxString
     /\ \A l \in TokenLists : \A token \in Range(p.lists[l]) : WellFormed(token)
     /\ \A l \in Lists : IsInjective(canonical.lists[l])
     /\ ValidPolicy(canonical)
     /\ p.id = PolicyDigest(canonical)

-----------------------------------------------------------------------------
(* Workload profiles.  A requirement has a capability name, a strength and *)
(* an operator as numbers.  Of its value the number of tokens, the length  *)
(* of the longest text in it and whether it is finite are kept; a clause   *)
(* of its version range is an operator and the length of a prerelease.     *)

IsVersionOperator(op) == op = 2

ValidRequirement(r) ==
  /\ Resolves(r.name)
  /\ IsVersionOperator(r.op) => r.range # <<>>
  /\ r.strength = 0 => r.weight = 0

SameRequirement(r, s) == r.name = s.name /\ r.strength = s.strength /\ r.op = s.op

ValidProfile(w) ==
  /\ \A i \in DOMAIN w.requirements : ValidRequirement(w.requirements[i])
  /\ \A i, j \in DOMAIN w.requirements : SameRequirement(w.requirements[i], w.requirements[j]) => i = j
  /\ Len(w.tags) <= MaxDimensions /\ IsInjective(w.tags)
  /\ w.live => w.need = "LiveStateTransfer"

(* CapabilityValue::deserialize(); validate() does not look into the value *)
(* of a requirement.                                                       *)
ValueReadable(value) == value.tokens <= MaxTokens /\ value.longest <= MaxToken /\ value.finite

(* A range is read by putting its text together and parsing it; an Any     *)
(* clause comes out as "*0.0.0", which does not parse.                     *)
RangeReadable(range) ==
  /\ Len(range) <= MaxClauses
  /\ \A clause \in Range(range) : clause.prerelease <= MaxToken /\ clause.op # "Any"

ProfileReadable(w) ==
  /\ \A r \in Range(w.requirements) : ValueReadable(r.value) /\ RangeReadable(r.range)
  /\ ValidProfile(w)

-----------------------------------------------------------------------------
(* Capability sets: records of a key, a state and a value, which is either *)
(* tokens or a version with a prerelease of some length.                   *)

CanonicalTokens(tokens) == Ascending({CanonicalToken(t) : t \in Range(tokens)})

CanonicalRecord(r) == [r EXCEPT !.key = ResolvedName(r.key), !.tokens = CanonicalTokens(r.tokens)]

(* validate() of a record; one that claims support has a value.            *)
RecordAccepted(r) ==
  /\ Resolves(r.key)
  /\ \A t \in Range(r.tokens) : WellFormed(t)
  /\ r.state \in {"Supported", "Degraded"} => r.tokens # <<>> \/ r.prerelease # 0

(* set_records() accepts the records ...                                   *)
RecordsAccepted(rs) ==
  /\ \A r \in Range(rs) : RecordAccepted(r)
  /\ \A i, j \in DOMAIN rs : ResolvedName(rs[i].key) = ResolvedName(rs[j].key) => i = j

(* Mutant: the records are kept in the order they were given.              *)
StoredRecordsUnsorted(rs) == [i \in DOMAIN rs |-> CanonicalRecord(rs[i])]

(* ... and stores them sorted by name.                                     *)
StoredRecords(rs) ==
  SortedBy([i \in DOMAIN rs |-> CanonicalRecord(rs[i])], [i \in DOMAIN rs |-> ResolvedName(rs[i].key)])

StoredNamespaces(closed) == CanonicalTokens(closed)

CapabilitySet(rs, closed) ==
  [records |-> StoredRecords(rs), closed |-> StoredNamespaces(closed),
   id |-> <<StoredRecords(rs), StoredNamespaces(closed)>>]

(* deserialize() of a capability set                                       *)
CapabilitySetReadable(c) ==
  /\ \A r \in Range(c.records) : r.prerelease <= MaxToken
  /\ RecordsAccepted(c.records)
  /\ \A t \in Range(c.closed) : WellFormed(t)
  /\ CapabilitySet(c.records, c.closed).id = c.id

(* lookup() of a record; a namespace stands in for its names.              *)
LookupState(c, name, namespace) ==
  LET keys == [i \in DOMAIN c.records |-> c.records[i].key]
  IN CASE BinarySearch(keys, name) -> c.records[LowerBound(keys, name) + 1].state
       [] ~BinarySearch(keys, name) /\ BinarySearch(c.closed, namespace) -> "Unsupported"
       [] OTHER -> "Unknown"

-----------------------------------------------------------------------------
(* Descriptors.  Evidence is the sequence of its provenances; longest is   *)
(* the length of the longest topology reference.                           *)

(* What validate() asks of a descriptor but for its capabilities ...       *)
ValidStructure(d) ==
  /\ Len(d.topology) <= MaxTopology
  /\ \A i \in 2..Len(d.topology) : d.topology[i - 1] <= d.topology[i]
  /\ Range(d.evidence) \subseteq {d.provenance}
  /\ d.support = "Native" => d.provenance = "Real" /\ d.evidence # <<>>

(* ... and of these: there are some, and they describe the same vendor.    *)
CapabilitiesDescribe(d) ==
  /\ d.caps.records # <<>>
  /\ \A r \in Range(d.caps.records) : r.key = VendorName /\ r.state = "Supported" => r.tokens = <<d.vendor>>

ValidDescriptor(d) == ValidStructure(d) /\ CapabilitiesDescribe(d)

(* update_capabilities() gives a member any capability set, which it does  *)
(* not compare with the descriptor, and one evidence record.               *)
UpdatedDescriptor(d, caps) == [d EXCEPT !.caps = caps, !.evidence = <<d.provenance>>]

DescriptorReadable(d) ==
  /\ CapabilitySetReadable(d.caps)
  /\ d.longest <= MaxName
  /\ \A i \in 2..Len(d.topology) : d.topology[i - 1] < d.topology[i]
  /\ ValidDescriptor(d)

-----------------------------------------------------------------------------
(* Decisions and plans.  A reason is the length of its detail, which for a *)
(* violated requirement quotes the observed and the required value.        *)

ReasonReadable(length) == length <= MaxText

DecisionFingerprint(d) == <<d.content, d.reasons>>

RecordedDecision(content, reasons) ==
  LET decision == [content |-> content, reasons |-> reasons, id |-> <<>>]
  IN [decision EXCEPT !.id = DecisionFingerprint(decision)]

DecisionReadable(d) ==
  /\ \A length \in Range(d.reasons) : ReasonReadable(length)
  /\ d.id = DecisionFingerprint(d)

(* Mutant: the position of a plan is part of its identity.                 *)
PlanFingerprintWithState(p) == <<p.content, p.state>>

(* The position of a plan and the reasons it collects are not part of it.  *)
PlanFingerprint(p) == <<p.content>>

NewPlan(content) ==
  LET plan == [content |-> content, state |-> "Planned", reasons |-> <<>>, id |-> <<>>]
  IN [plan EXCEPT !.id = PlanFingerprint(plan)]

(* What abort_migration(), for a reason of any length, and set_policy()    *)
(* and a restart do to a plan.                                             *)
AbortedPlan(p, length) == [p EXCEPT !.state = "Aborted", !.reasons = Append(@, length)]

PlanReadable(p) ==
  /\ Len(p.reasons) <= MaxReasons
  /\ \A length \in Range(p.reasons) : ReasonReadable(length)
  /\ p.id = PlanFingerprint(p)

-----------------------------------------------------------------------------
(* Snapshots: the length of the federation's name and the documents.       *)

(* decode_snapshot(): one document that cannot be read makes the whole     *)
(* snapshot unreadable.                                                    *)
SnapshotReadable(s) ==
  /\ s.name <= MaxName
  /\ PolicyReadable(s.policy)
  /\ \A d \in s.descriptors : DescriptorReadable(d)
  /\ \A w \in s.workloads : ProfileReadable(w)
  /\ \A d \in s.decisions : DecisionReadable(d)
  /\ \A p \in s.plans : PlanReadable(p)

DecodedSnapshot(s) == [s EXCEPT !.policy = CanonicalPolicy(s.policy)]
=============================================================================
