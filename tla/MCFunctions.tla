----------------------------- MODULE MCFunctions -----------------------------
(* The inputs the engines, the adapters and the documents are asked about. *)
EXTENDS EngineCases, RankingCases, AdapterCases, DocumentCases

-----------------------------------------------------------------------------
(* Accelerators and policies to ask about.                                 *)

Nothing == Evidence("Unknown", NoValue)

(* The capability set whose records are the evidence that has a value.     *)
CapsWithin(evidence, closed) ==
  [records |-> [k \in {k \in DOMAIN evidence : evidence[k].value # NoValue} |-> evidence[k]],
   closed |-> closed]

CapsOf(evidence) == CapsWithin(evidence, {})

OpenPolicy ==
  [allowDegraded |-> FALSE, forbiddenAccelerators |-> {}, allowedVendors |-> {}, forbiddenVendors |-> {},
   deprecated |-> {}, minRuntime |-> <<>>, minMemory |-> 0, required |-> {}, denied |-> {}, tags |-> {},
   synthetic |-> "Allow", crossVendor |-> FALSE, crossReconstruction |-> FALSE, classes |-> {}]

PlainWorkload ==
  [requirements |-> {}, tags |-> {}, minPortability |-> "Unsupported", mode |-> "Any",
   need |-> "None", reconstruction |-> FALSE]

-----------------------------------------------------------------------------
(* Moves: a source, a destination, a workload and a policy.                *)

Abilities == {LiveTransfer, CheckpointRestore, CrossVendorState, StateReconstruction, Recompile, Repackage}

Device(vendor, arch, targets, runtime, abilities) ==
  CapsOf((VendorId :> vendor) @@ (Architecture :> arch) @@ (CodeObjects :> targets)
           @@ (RuntimeFamily :> runtime)
           @@ [k \in abilities |-> Evidence("Supported", Presence)])

Says(value) == Evidence("Supported", value)

(* All the evidence portability asks for is there; what the two can do     *)
(* varies.                                                                 *)
CapableSource(abilities) ==
  Device(Says(Token("v1")), Says(Token("a1")), Says(TokenSet({"t1"})), Says(Token("rt")), abilities)
CapableDestination(vendor, target, abilities) ==
  Device(Says(Token(vendor)), Says(Token("a1")), Says(TokenSet({target})), Says(Token("rt")), abilities)

Move(src, dst, w, p) == [kind |-> "move", source |-> src, destination |-> dst, workload |-> w, policy |-> p]

CapableMove ==
  \E s \in SUBSET {LiveTransfer, CheckpointRestore, CrossVendorState}, v \in {"v1", "v2"},
     t \in {"t1", "t2"}, d \in SUBSET Abilities, need \in Needs, r \in BOOLEAN, c \in BOOLEAN :
    input = Move(CapableSource(s), CapableDestination(v, t, d),
                 [PlainWorkload EXCEPT !.need = need, !.reconstruction = r],
                 [OpenPolicy EXCEPT !.crossVendor = c, !.crossReconstruction = c])

(* Evidence may be missing, degraded or negative on either side.           *)
Vague(value) == {Nothing, Says(value), Evidence("Degraded", value)}

VagueMove ==
  \E v, w \in Vague(Token("v1")), a \in Vague(Token("a1")), b \in {Nothing, Says(Token("a1")), Says(Token("a2"))},
     t \in Vague(TokenSet({"t1"})) \cup {Evidence("Unsupported", TokenSet({"t1"}))},
     r, q \in {Nothing, Says(Token("rt"))}, need \in {"None", "LiveStateTransfer"}, mode \in {"Any", "ExactBinary"} :
    input = Move(Device(v, a, t, r, Abilities), Device(w, b, Says(TokenSet({"t1"})), q, Abilities),
                 [PlainWorkload EXCEPT !.need = need, !.mode = mode], OpenPolicy)

-----------------------------------------------------------------------------
(* Fits: an accelerator, a workload without an origin and a policy.        *)

MemoryRequirements ==
  {Require(MemoryFree, op, IntegerValue(2), <<>>) :
     op \in {"Present", "Absent", "Equals", "NotEquals", "AtLeast", "AtMost", "GreaterThan", "LessThan"}}
FeatureRequirements ==
  {Require(Feature, op, TokenSet({"t1"}), <<>>) : op \in {"Absent", "InSet", "SupersetOf", "SubsetOf", "IntersectsWith"}}
RuntimeRequirements ==
  {Require(RuntimeVersion, "VersionSatisfies", VersionValue(NoVersion), <<[op |-> op, version |-> V(1, 1, <<>>)]>>) :
     op \in {"Any", "Equal", "NotEqual", "Less", "LessEqual", "Greater", "GreaterEqual", "Compatible", "Tilde"}}

FitPolicies ==
  {OpenPolicy, [OpenPolicy EXCEPT !.allowDegraded = TRUE], [OpenPolicy EXCEPT !.required = {Feature}],
   [OpenPolicy EXCEPT !.denied = {Feature}],
   [OpenPolicy EXCEPT !.minRuntime = <<[op |-> "GreaterEqual", version |-> V(1, 1, <<>>)]>>]}

Fit(caps, fresh, rs, p) ==
  [kind |-> "fit", caps |-> caps, fresh |-> fresh,
   workload |-> [PlainWorkload EXCEPT !.requirements = rs], policy |-> p]

(* A requirement with or without preferences on two capabilities, or a     *)
(* version requirement and another one.                                    *)
FitInput ==
  \/ \E m \in Learned[MemoryFree] \cup {Nothing}, f \in Learned[Feature] \cup {Nothing}, fresh \in BOOLEAN,
        r \in MemoryRequirements \cup FeatureRequirements, soft \in {{}, Preferences}, p \in FitPolicies :
       input = Fit(CapsOf((MemoryFree :> m) @@ (Feature :> f)), fresh, {r} \cup soft, p)
  \/ \E m \in {Nothing, Says(IntegerValue(2))}, f \in {Nothing, Says(TokenSet({"t1"}))},
        v \in Learned[RuntimeVersion] \cup {Nothing}, r \in RuntimeRequirements,
        s \in MemoryRequirements \cup FeatureRequirements, p \in FitPolicies, closed \in {{}, {"runtime", "x"}} :
       input = Fit(CapsWithin((MemoryFree :> m) @@ (Feature :> f) @@ (RuntimeVersion :> v), closed),
                   TRUE, {r, s}, p)

-----------------------------------------------------------------------------
(* Rankings: three candidates in any order, and triples of versions.       *)

Verdicts ==
  {[outcome |-> "Eligible", portability |-> c, provenance |-> p, score |-> s] :
     c \in {"Native", "LiveMigrationSupported"}, p \in {"Real", "Synthetic"}, s \in {0, 500}}
  \cup {[outcome |-> "Unknown", portability |-> "Native", provenance |-> "Real", score |-> 500]}

Candidate(i, d) == [accelerator |-> i, decision |-> d, cost |-> 0, distance |-> 2 - (i % 2), free |-> i % 2]

RankingInput ==
  \E ds \in [1..3 -> Verdicts], b \in BOOLEAN, order \in Permutations(1..3) :
    input = [kind |-> "ranking", dimensions |-> b,
             candidates |-> [j \in 1..3 |-> Candidate(order[j], ds[order[j]])]]

SomeVersions ==
  {V(m, n, pre) : m \in {1, 2}, n \in {0, 1}, pre \in {<<>>, <<11>>}}
    \cup {V(1, 0, pre) : pre \in {<<11, 1>>, <<11, 12>>, <<2>>, <<2, 11>>}}

VersionInput ==
  \E u, v, w \in SomeVersions : input = [kind |-> "versions", versions |-> <<u, v, w>>]

-----------------------------------------------------------------------------
(* Agents that start on a machine, and moves between shipped devices.      *)

CudaDevice(major, minor, total, free, readable, known, uuid, flags) ==
  [major |-> major, minor |-> minor, total |-> total, free |-> free, readable |-> readable,
   memoryKnown |-> known, uuid |-> uuid, flags |-> flags]

Machine(compiled, devices) == [compiled |-> compiled, runtime |-> 12090, devices |-> devices]

(* Machines with up to two devices, whose sizes and failures differ.       *)
DevicesAt(i) ==
  {CudaDevice(m, 0, size[1], size[2], readable, known, uuid, {}) :
     m \in {8, 12}, size \in {<<24, 10>>, <<80, 10>>, <<80, 70>>}, readable \in BOOLEAN, known \in BOOLEAN, uuid \in {0, i}}

Machines ==
  {Machine(c, ds) : c \in BOOLEAN, ds \in {<<>>} \cup {<<d>> : d \in DevicesAt(1)}
                                         \cup {<<d, e>> : d \in DevicesAt(1), e \in DevicesAt(2)}}

AgentInput == \E o \in ProfileOptions, m \in Machines : input = [kind |-> "agent", option |-> o, machine |-> m]

(* A CUDA device of each generation, and the modelled devices.             *)
Generations == {<<5, 2>>, <<6, 0>>, <<7, 0>>, <<7, 5>>, <<8, 0>>, <<8, 9>>, <<9, 0>>, <<10, 0>>, <<12, 0>>}
Hardware(g) ==
  CudaDevice(g[1], g[2], 24, 20, TRUE, TRUE, 1, {<<"memory", "unified_addressing">>, <<"kernel", "cooperative_launch">>})

ShippedDevices ==
  UNION {AgentDevices("real", Machine(TRUE, <<Hardware(g)>>)) : g \in Generations}
    \cup UNION {AgentDevices(o, Machine(FALSE, <<>>)) : o \in {"all", "partial"}}

ShippedInput ==
  \E s, d \in ShippedDevices, need \in Needs, r \in BOOLEAN, c \in BOOLEAN, y \in {"Allow", "Reject", "Require"} :
    input = [kind |-> "shipped", source |-> s, destination |-> d,
             workload |-> [PlainWorkload EXCEPT !.need = need, !.reconstruction = r],
             policy |-> [OpenPolicy EXCEPT !.crossVendor = c, !.crossReconstruction = c, !.synthetic = y]]

-----------------------------------------------------------------------------
(* Snapshots: one kind of document varies, the others are plain.           *)

UpTo(n, S) == UNION {[1..k -> S] : k \in 0..n}

PlainPolicy == [lists |-> [l \in Lists |-> <<>>], devices |-> <<>>, classes |-> <<>>, minimum |-> 1, id |-> 0]
Entry(key, state, tokens, prerelease) == [key |-> key, state |-> state, tokens |-> tokens, prerelease |-> prerelease]
PlainCaps == CapabilitySet(<<Entry(VendorName, "Supported", <<11>>, 0)>>, <<>>)
PlainDescriptor ==
  [caps |-> PlainCaps, vendor |-> 11, topology |-> <<>>, longest |-> 1, evidence |-> <<"Real">>, provenance |-> "Real", support |-> "Native"]
PlainProfile == [requirements |-> <<>>, tags |-> <<>>, live |-> FALSE, need |-> "None"]

(* The snapshot of a federation that was given these, with a decision and  *)
(* a plan that was aborted.                                                *)
Snapshot(p, d, w) ==
  [kind |-> "snapshot", name |-> 1, policy |-> RefreshedPolicy(p), descriptors |-> {d}, workloads |-> {w},
   decisions |-> {RecordedDecision("d", <<>>)},
   plans |-> {NewPlan("p"), AbortedPlan(NewPlan("q"), 1)}]

Vendors == {0, 1, 11, 12}
SomeNames == {1, 11, 21, 22}

(* Lengths within a limit and beyond it.                                   *)
Around(limit) == {limit, limit + 1}

(* Requirements that may share name, strength or operator, ...             *)
Clause(op) == [op |-> op, prerelease |-> 0]
PlainValue == [tokens |-> 1, longest |-> 1, finite |-> TRUE]
SomeRequirements ==
  {[name |-> n, strength |-> s, op |-> o, weight |-> g, value |-> PlainValue, range |-> r] :
     n \in {1, 11, 22}, s \in {0, 1}, o \in {1, 2}, g \in {0, 1},
     r \in {<<>>, <<Clause("Equal")>>, <<Clause("Any")>>, <<Clause("Less"), Clause("Greater")>>}}

(* ... and requirements of any value and any prerelease.                   *)
LongRequirements ==
  {[name |-> 11, strength |-> 1, op |-> 2, weight |-> 1, range |-> <<[op |-> "Equal", prerelease |-> p]>>,
    value |-> [tokens |-> n, longest |-> l, finite |-> b]] :
     p \in Around(MaxToken), n \in Around(MaxTokens), l \in Around(MaxToken), b \in BOOLEAN}

(* The capability sets an update may bring.                                *)
SomeSets ==
  {PlainCaps, CapabilitySet(<<>>, <<11>>)}
    \cup {CapabilitySet(<<Entry(12, "Supported", <<>>, n)>>, <<>>) : n \in Around(MaxToken)}
    \cup {CapabilitySet(<<Entry(12, "Degraded", <<12>>, 0), Entry(VendorName, s, <<t>>, 0)>>, <<>>) :
             s \in {"Supported", "Degraded", "Unsupported"}, t \in {1, 11, 12}}

SnapshotInput ==
  \/ \E a, f \in UpTo(2, Vendors) :
       input = Snapshot([PlainPolicy EXCEPT !.lists["allowed"] = a, !.lists["forbidden"] = f],
                        PlainDescriptor, PlainProfile)
  \/ \E r, d \in UpTo(2, SomeNames) :
       input = Snapshot([PlainPolicy EXCEPT !.lists["required"] = r, !.lists["denied"] = d],
                        PlainDescriptor, PlainProfile)
  \/ \E t \in UpTo(3, {2, 11, 12}), c \in UpTo(3, {"Native", "Unsupported"}), v \in UpTo(3, {1, 2}), m \in Around(MaxString) :
       input = Snapshot([PlainPolicy EXCEPT !.lists["tags"] = t, !.classes = c, !.devices = v, !.minimum = m],
                        PlainDescriptor, PlainProfile)
  \/ \E t \in UpTo(3, 11..13), l \in Around(MaxName), e \in UpTo(1, {"Real", "Synthetic"}),
        v \in {"Real", "Synthetic"}, s \in {"Native", "Partial"}, caps \in SomeSets, updated \in BOOLEAN :
       LET d == [PlainDescriptor EXCEPT !.topology = t, !.longest = l, !.evidence = e, !.provenance = v, !.support = s]
       IN input = Snapshot(PlainPolicy,
                           IF updated THEN UpdatedDescriptor(d, caps) ELSE [d EXCEPT !.caps = caps], PlainProfile)
  \/ \E r, q \in SomeRequirements :
       input = Snapshot(PlainPolicy, PlainDescriptor, [PlainProfile EXCEPT !.requirements = <<r, q>>])
  \/ \E r \in SomeRequirements \cup LongRequirements, n \in {"None", "LiveStateTransfer"}, b \in BOOLEAN,
        t \in UpTo(3, {11, 12}) :
       input = Snapshot(PlainPolicy, PlainDescriptor,
                        [PlainProfile EXCEPT !.requirements = <<r>>, !.live = b, !.need = n, !.tags = t])
  \/ \E observed, required \in 1..MaxText, aborted \in 0..(MaxText + 1), n \in Around(MaxName) :
       input = [Snapshot(PlainPolicy, PlainDescriptor, PlainProfile) EXCEPT
                  !.name = n,
                  !.decisions = {RecordedDecision("d", <<observed + required>>)},
                  !.plans = {NewPlan("p"), AbortedPlan(NewPlan("q"), aborted)}]

-----------------------------------------------------------------------------
(* Capability records in any order and spelling.                           *)

SomeRecords ==
  {Entry(k, s, ts, 0) :
     k \in {11, 12, 21, 22}, s \in {"Supported", "Unsupported"}, ts \in {<<>>, <<11>>, <<12, 1, 11>>, <<0>>}}
    \cup {Entry(12, "Supported", <<>>, n) : n \in Around(MaxToken)}

RecordsInput ==
  \E rs \in UpTo(2, SomeRecords), closed \in UpTo(2, {0, 1, 11, 12}) :
    input = [kind |-> "records", records |-> rs, closed |-> closed]

-----------------------------------------------------------------------------

EngineInput == CapableMove \/ VagueMove \/ FitInput \/ RankingInput \/ VersionInput
AdapterInput == AgentInput \/ ShippedInput
DocumentInput == SnapshotInput \/ RecordsInput

Init == (EngineInput \/ AdapterInput \/ DocumentInput) /\ answer = None
Next == answer = None /\ (EngineAnswer \/ RankingAnswer \/ AdapterAnswer \/ DocumentAnswer) /\ UNCHANGED input
Spec == Init /\ [][Next]_<<input, answer>>
=============================================================================
