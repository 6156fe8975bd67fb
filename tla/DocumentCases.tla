---------------------------- MODULE DocumentCases ----------------------------
(* What documents are accepted and read, and what must hold of that.       *)
EXTENDS Documents, Cases

(* A descriptor that is written is one validate() accepted, or one that    *)
(* update_capabilities() has changed since.                                *)
DescriptorAccepted(d) ==
  \/ ValidDescriptor(d)
  \/ ValidStructure(d) /\ d = UpdatedDescriptor(d, d.caps)

(* The federation accepts every document of the snapshot.                  *)
SnapshotAccepted(s) ==
  /\ ValidPolicy(s.policy)
  /\ \A d \in s.descriptors : DescriptorAccepted(d)
  /\ \A w \in s.workloads : ValidProfile(w)

DocumentAnswer ==
  \/ input.kind = "snapshot" /\ answer' = SnapshotReadable(input)
  \/ input.kind = "records" /\ answer' = RecordsAccepted(input.records)

-----------------------------------------------------------------------------
(* Properties.                                                             *)

Disjoint(s, t) == Range(s) \cap Range(t) = {}

(* The documents that survive a restart, stated without the reader.        *)
ReloadablePolicy(p) ==
  /\ \A l \in Lists : IsInjective(p.lists[l])
  /\ \A l \in TokenLists : \A t \in Range(p.lists[l]) : t > Capitals
  /\ \A l \in NameLists : ExtensionVariant \notin Range(p.lists[l])
  /\ Disjoint(p.lists["required"], p.lists["denied"]) /\ Disjoint(p.lists["allowed"], p.lists["forbidden"])
  /\ Len(p.classes) <= MaxDimensions /\ p.minimum <= MaxString

ReloadableDescriptor(d) ==
  /\ IsInjective(d.topology) /\ d.longest <= MaxName
  /\ d.caps.records # <<>> /\ \A r \in Range(d.caps.records) : r.prerelease <= MaxToken
  /\ ~\E r \in Range(d.caps.records) : r.key = VendorName /\ r.state = "Supported" /\ r.tokens # <<d.vendor>>

ReloadableRequirement(r) ==
  /\ r.value.finite /\ r.value.tokens <= MaxTokens /\ r.value.longest <= MaxToken
  /\ Len(r.range) <= MaxClauses
  /\ \A clause \in Range(r.range) : clause.op # "Any" /\ clause.prerelease <= MaxToken

Reloadable(s) ==
  /\ s.name <= MaxName
  /\ ReloadablePolicy(s.policy)
  /\ \A d \in s.descriptors : ReloadableDescriptor(d)
  /\ \A w \in s.workloads : \A r \in Range(w.requirements) : ReloadableRequirement(r)
  /\ \A d \in s.decisions \cup s.plans : \A length \in Range(d.reasons) : length <= MaxText

(* What the federation accepted and wrote can be read after a restart      *)
(* exactly when                                                            *)
(*  - the policy is spelled canonically, names nothing twice, is free of   *)
(*    contradictions and lists at most as many classes as other dimensions;*)
(*  - no descriptor repeats a topology reference, and no update left one   *)
(*    without capabilities or with another vendor's;                       *)
(*  - no version range of a requirement has an Any clause or too many      *)
(*    clauses, and no value of one is infinite or has too many tokens;     *)
(*  - no text is longer than the reader takes: the federation's name, the  *)
(*    policy's runtime versions, a topology reference, a prerelease, a     *)
(*    token of a requirement, the detail of a decision, the reason a plan  *)
(*    was aborted for.                                                     *)
(* What was read once is readable for ever.                                *)
ReloadsExactlyWhenCanonical ==
  Answered("snapshot") /\ SnapshotAccepted(input) =>
    /\ answer <=> Reloadable(input)
    /\ answer => SnapshotReadable(DecodedSnapshot(input))

(* A capability set answers for exactly the records it was given, whatever *)
(* their order and spelling, and reads back as itself unless a version in  *)
(* it has a prerelease that is longer than a token.                        *)
CapabilitySetsAnswer ==
  Answered("records") /\ answer /\ (\A t \in Range(input.closed) : WellFormed(t)) =>
    LET c == CapabilitySet(input.records, input.closed)
        closed(namespace) == \E t \in Range(input.closed) : CanonicalToken(t) = namespace
    IN /\ \A name \in CoreNames \cup {ExtensionName}, namespace \in {11, 12} :
            LET given == {r \in Range(input.records) : ResolvedName(r.key) = name}
            IN LookupState(c, name, namespace)
                 = IF given # {} THEN (CHOOSE r \in given : TRUE).state
                   ELSE IF closed(namespace) THEN "Unsupported" ELSE "Unknown"
       /\ CapabilitySet(c.records, c.closed) = c
       /\ CapabilitySetReadable(c) <=> \A r \in Range(input.records) : r.prerelease <= MaxToken
=============================================================================
