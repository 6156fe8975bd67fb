------------------------------- MODULE Adapters -------------------------------
(***************************************************************************)
(* The adapters: what the modelled devices and the CUDA runtime are turned *)
(* into, and which devices an agent comes to advertise (src/adapters, and  *)
(* the start of apps/agent_main.cpp).                                      *)
(*                                                                         *)
(* Kept of a capability set: what portability, planning and the policy     *)
(* read, the numeric formats, one key per list that may be empty and the   *)
(* flags.  Sizes of pages, blocks and queues, the product name, the driver *)
(* version and the preemption token of a CUDA device are left out.  A code *)
(* object target is a name and a number; memory is counted in GiB.         *)
(***************************************************************************)
EXTENDS Engines

ComputeCapability == <<"compute", "capability">>
SupportLevelKey == <<"support", "level">>
ProvenanceKey == <<"evidence", "provenance">>
NumericFormats == <<"numeric", "formats">>
ExecutionFeatures == <<"execution", "features">>
PeerAccess == <<"peer", "access">>
Collectives == <<"comm", "collectives">>
StateExport == <<"migration", "state_export">>

Formats == {"fp64", "fp32", "fp16", "bf16", "tf32", "fp8_e4m3", "fp8_e5m2", "fp6_e2m3", "fp4_e2m1", "int8"}
FormatKeys == {<<"numeric", f>> : f \in Formats}
TensorKeys == {<<"tensor", n>> : n \in {"matrix_engine", "warp_group_mma", "block_scaled_mma", "structured_sparsity"}}
MemoryKeys == {<<"memory", n>> : n \in {"unified_addressing", "managed_allocation", "virtual_management",
                                         "host_pinned_transfer", "ecc_enabled"}}
ExecutionKeys == {<<"comm", "rdma">>, <<"comm", "direct_peer_memory">>, <<"comm", "host_staging_required">>,
                  <<"kernel", "dynamic_parallelism">>, <<"kernel", "cooperative_launch">>, <<"sync", "graph_capture">>}
MigrationKeys == {LiveTransfer, CheckpointRestore, StateExport, StateReconstruction, CrossVendorState,
                  Recompile, Repackage}
FlagKeys == TensorKeys \cup MemoryKeys \cup ExecutionKeys \cup MigrationKeys

EnumerationKeys == {VendorId, Architecture, RuntimeFamily, SupportLevelKey, ProvenanceKey}
VersionKeys == {RuntimeVersion, ComputeCapability}
IntegerKeys == {MemoryTotal, MemoryFree}
ListKeys == {CodeObjects, NumericFormats, ExecutionFeatures, PeerAccess, Collectives}
CoreKeys == EnumerationKeys \cup VersionKeys \cup IntegerKeys \cup ListKeys \cup FormatKeys \cup FlagKeys

(* The kind the taxonomy gives a key; an extension's is a token set.       *)
KindOf(key) ==
  IF key \in EnumerationKeys THEN "Enumeration"
  ELSE IF key \in VersionKeys THEN "Version"
  ELSE IF key \in IntegerKeys THEN "Integer"
  ELSE IF key \in FormatKeys \cup FlagKeys THEN "Presence"
  ELSE "TokenSet"

CoreNamespaces == {"api", "architecture", "comm", "compute", "driver", "health", "interconnect", "isa", "kernel",
                   "memory", "migration", "numeric", "partition", "peer", "portability", "queue", "runtime",
                   "support", "sync", "tensor", "vendor"}

-----------------------------------------------------------------------------
(* Records.                                                                *)

Supports(value) == [state |-> "Supported", value |-> value]
PresenceRecord(supported) == [state |-> IF supported THEN "Supported" ELSE "Unsupported", value |-> Presence]

(* An empty list is advertised as a positive absence.                      *)
ListRecord(tokens) == [state |-> IF tokens = {} THEN "Unsupported" ELSE "Supported", value |-> TokenSet(tokens)]

(* set_records(): a record of another kind than its key's, or one that     *)
(* claims support for an empty list, refuses the whole set.                *)
RecordsValid(records) ==
  \A k \in DOMAIN records :
    LET r == records[k]
    IN r.value.kind = KindOf(k) /\ (r.state = "Supported" /\ r.value.kind = "TokenSet" => r.value.tokens # {})

(* The records of two lists; none of them has a key twice.                 *)
Joined(f, g) == [k \in DOMAIN f \cup DOMAIN g |-> IF k \in DOMAIN f THEN f[k] ELSE g[k]]

FormatRecords(formats) == [k \in FormatKeys |-> PresenceRecord(k[2] \in formats)]
FlagRecords(able) == [k \in FlagKeys |-> PresenceRecord(k \in able)]

Version3(major, minor, patch) == [core |-> <<major, minor, patch>>, pre |-> <<>>]

(* What the adapters say alike of a device.                                *)
IdentityRecords(vendor, architecture, runtime, version, total, targets, formats, level, provenance) ==
  [k \in {VendorId, Architecture, RuntimeFamily, RuntimeVersion, MemoryTotal, CodeObjects, NumericFormats,
          SupportLevelKey, ProvenanceKey} |->
     CASE k = VendorId -> Supports(Token(vendor))
       [] k = Architecture -> Supports(Token(architecture))
       [] k = RuntimeFamily -> Supports(Token(runtime))
       [] k = RuntimeVersion -> Supports(VersionValue(version))
       [] k = MemoryTotal -> Supports(IntegerValue(total))
       [] k = CodeObjects -> ListRecord(targets)
       [] k = NumericFormats -> ListRecord(formats)
       [] k = SupportLevelKey -> Supports(Token(level))
       [] k = ProvenanceKey -> Supports(Token(provenance))]

CommonRecords(vendor, architecture, runtime, version, total, targets, formats, able, level, provenance) ==
  Joined(IdentityRecords(vendor, architecture, runtime, version, total, targets, formats, level, provenance),
         Joined(FormatRecords(formats), FlagRecords(able)))

(* What each says in its own way.                                          *)
OwnRecords(free, features, peers, collectives) ==
  [k \in {MemoryFree, ExecutionFeatures, PeerAccess, Collectives} |->
     CASE k = MemoryFree -> free
       [] k = ExecutionFeatures -> features
       [] k = PeerAccess -> peers
       [] k = Collectives -> collectives]

(* The outcome of an observation: devices, or an error.                    *)
Error == [ok |-> FALSE, devices |-> {}]
Observation(devices) == [ok |-> TRUE, devices |-> devices]

-----------------------------------------------------------------------------
(* Modelled devices.                                                       *)

DefaultFlags == {<<"memory", "host_pinned_transfer">>, <<"memory", "ecc_enabled">>, StateReconstruction,
                 Recompile, Repackage}

CudaClassProfile ==
  [vendor |-> "nvidia", architecture |-> "blackwell", runtime |-> "cuda", version |-> Version3(12, 9, 0),
   total |-> 32, free |-> 30, targets |-> {<<"compute", 120>>, <<"sm", 100>>, <<"sm", 120>>}, formats |-> Formats,
   features |-> {"cluster-launch", "cooperative-launch", "dynamic-parallelism", "graph-capture", "unified-memory"},
   peers |-> {"nvlink", "pcie"}, collectives |-> {"all-gather", "all-reduce", "broadcast"},
   able |-> DefaultFlags \cup TensorKeys \cup MemoryKeys
              \cup (ExecutionKeys \ {<<"comm", "rdma">>, <<"comm", "host_staging_required">>}),
   extensions |-> [x \in {<<"x", "nvidia.cluster-dimensions">>} |-> {"8", "4", "2"}]]

RocmClassProfile ==
  [vendor |-> "amd", architecture |-> "cdna3", runtime |-> "rocm", version |-> Version3(6, 2, 0),
   total |-> 192, free |-> 180, targets |-> {<<"gfx", 940>>, <<"gfx", 942>>, <<"amdgcn", 942>>},
   formats |-> Formats \ {"tf32", "fp6_e2m3", "fp4_e2m1"},
   features |-> {"cooperative-launch", "graph-capture", "unified-memory"},
   peers |-> {"infinity-fabric", "pcie"}, collectives |-> {"all-gather", "all-reduce", "broadcast", "reduce-scatter"},
   able |-> DefaultFlags \cup {<<"tensor", "matrix_engine">>} \cup MemoryKeys
              \cup (ExecutionKeys \ {<<"comm", "host_staging_required">>, <<"kernel", "dynamic_parallelism">>}),
   extensions |-> [x \in {<<"x", "amd.wavefront-size">>} |-> {"64"}]]

IntelClassProfile ==
  [vendor |-> "intel", architecture |-> "xe-hpg", runtime |-> "level-zero", version |-> Version3(1, 9, 0),
   total |-> 48, free |-> 40, targets |-> {<<"xe-hpg", 512>>, <<"spirv", 16>>}, formats |-> {"bf16", "fp16", "fp32", "int8"},
   features |-> {"graph-capture", "unified-memory"},
   peers |-> {"pcie", "xe-link"}, collectives |-> {"all-reduce", "broadcast"},
   able |-> DefaultFlags \cup {<<"tensor", "matrix_engine">>, <<"memory", "unified_addressing">>,
                               <<"memory", "virtual_management">>},
   extensions |-> [x \in {<<"x", "intel.subslice-count">>} |-> {"32"}]]

PartiallyEvidencedProfile ==
  [vendor |-> "synthetic", architecture |-> "opaque", runtime |-> "opaque-runtime", version |-> Version3(0, 9, 0),
   total |-> 8, free |-> 4, targets |-> {<<"opaque", 1>>}, formats |-> {"fp32"},
   features |-> {}, peers |-> {}, collectives |-> {}, able |-> DefaultFlags, extensions |-> <<>>]

(* closed_namespaces_for(): every core namespace, whatever the profile     *)
(* leaves out.                                                             *)
ClosedNamespacesFor(p) == CoreNamespaces \cup (IF DOMAIN p.extensions = {} THEN {} ELSE {"x"})

BuildCapabilitySet(p) ==
  [records |-> Joined(Joined(CommonRecords(p.vendor, p.architecture, p.runtime, p.version, p.total, p.targets,
                                           p.formats, p.able, "synthetic", "synthetic"),
                             OwnRecords(Supports(IntegerValue(p.free)), ListRecord(p.features), ListRecord(p.peers),
                                        ListRecord(p.collectives))),
                      [x \in DOMAIN p.extensions |-> ListRecord(p.extensions[x])]),
   closed |-> ClosedNamespacesFor(p)]

(* build_descriptor(); the device is named by the adapter and the profile. *)
SyntheticDescriptor(p) ==
  [device |-> <<"model", p.vendor>>, caps |-> BuildCapabilitySet(p), provenance |-> "Synthetic",
   support |-> "Synthetic", evidence |-> "Synthetic"]

SyntheticObserve(p) ==
  IF RecordsValid(BuildCapabilitySet(p).records) THEN Observation({SyntheticDescriptor(p)}) ELSE Error

-----------------------------------------------------------------------------
(* The CUDA runtime.  A machine has the adapter compiled in or not, the    *)
(* number of its runtime version and a sequence of CUDA devices.  A device *)
(* that is not "readable" fails cudaGetDeviceProperties(); "flags" are the *)
(* capabilities its properties report, "uuid" is 0 when none is reported.  *)

ArchitectureFor(major, minor) ==
  CASE major >= 10 -> "blackwell"
    [] major = 9 -> "hopper"
    [] major = 8 -> IF minor = 9 THEN "ada-lovelace" ELSE "ampere"
    [] major = 7 -> IF minor = 5 THEN "turing" ELSE "volta"
    [] major = 6 -> "pascal"
    [] OTHER -> "nvidia-unknown"

FormatsFor(major) ==
  {"fp32"} \cup (IF major >= 2 THEN {"fp64"} ELSE {}) \cup (IF major >= 5 THEN {"fp16"} ELSE {})
    \cup (IF major >= 8 THEN {"bf16", "tf32", "int8"} ELSE {})
    \cup (IF major >= 9 THEN {"fp8_e4m3", "fp8_e5m2"} ELSE {})
    \cup (IF major >= 10 THEN {"fp6_e2m3", "fp4_e2m1"} ELSE {})

SemanticFromCudaVersion(version) == Version3((version \div 1000) % 1000, (version \div 10) % 100, version % 10)

(* "sm-" and "compute-", followed by the digits of both numbers.           *)
TargetsFor(major, minor) == {<<"sm", 10 * major + minor>>, <<"compute", 10 * major + minor>>}

(* Mutant: everything the taxonomy names is claimed.                       *)
CudaFlagsOverclaiming(d) == FlagKeys

CudaFlags(d) ==
  {<<"memory", "virtual_management">>, <<"memory", "host_pinned_transfer">>, <<"sync", "graph_capture">>,
   StateReconstruction, Recompile, Repackage}
    \cup {k \in TensorKeys : d.major >= CASE k[2] = "matrix_engine" -> 7 [] k[2] = "structured_sparsity" -> 8
                                          [] k[2] = "warp_group_mma" -> 9 [] k[2] = "block_scaled_mma" -> 10}
    \cup (IF d.major > 3 \/ (d.major = 3 /\ d.minor >= 5) THEN {<<"kernel", "dynamic_parallelism">>} ELSE {})
    \cup d.flags
    \cup (IF <<"memory", "unified_addressing">> \in d.flags THEN {<<"comm", "direct_peer_memory">>} ELSE {})

(* cudaMemGetInfo() is asked without selecting the device, so it answers   *)
(* for the current one, the first; when it fails, a presence record stands *)
(* in for the number.                                                      *)
FreeMemoryRecord(machine) ==
  IF machine.devices[1].memoryKnown THEN Supports(IntegerValue(machine.devices[1].free)) ELSE PresenceRecord(FALSE)

CudaRecords(machine, i) ==
  LET d == machine.devices[i]
  IN Joined(Joined(CommonRecords("nvidia", ArchitectureFor(d.major, d.minor), "cuda",
                                 SemanticFromCudaVersion(machine.runtime), d.total, TargetsFor(d.major, d.minor),
                                 FormatsFor(d.major), CudaFlags(d), "native", "real"),
                   OwnRecords(FreeMemoryRecord(machine),
                              Supports(TokenSet({"graph-capture", "stream-events", "unified-memory"})),
                              Supports(TokenSet({"pcie", "nvlink-or-pcie"})),
                              Supports(TokenSet({"all-reduce", "broadcast", "all-gather"})))),
            [k \in {ComputeCapability} |-> Supports(VersionValue(Version3(d.major, d.minor, 0)))])

(* A device is named by its UUID, or by its place on the bus without one.  *)
CudaDescriptor(machine, i) ==
  [device |-> IF machine.devices[i].uuid # 0 THEN <<"uuid", machine.devices[i].uuid>> ELSE <<"pci", i>>,
   caps |-> [records |-> CudaRecords(machine, i), closed |-> CoreNamespaces],
   provenance |-> "Real", support |-> "Native", evidence |-> "Real"]

(* Mutant: a device that cannot be described is left out.                  *)
CudaObserveSkipping(machine) ==
  Observation({CudaDescriptor(machine, i) :
                 i \in {j \in DOMAIN machine.devices : /\ machine.devices[j].readable
                                                       /\ RecordsValid(CudaRecords(machine, j))}})

(* One device that cannot be described fails the observation.              *)
CudaObserve(machine) ==
  IF \A i \in DOMAIN machine.devices : machine.devices[i].readable /\ RecordsValid(CudaRecords(machine, i))
  THEN Observation({CudaDescriptor(machine, i) : i \in DOMAIN machine.devices})
  ELSE Error

-----------------------------------------------------------------------------
(* The agent.                                                              *)

ProfileOptions == {"real", "all", "synthetic-cuda", "synthetic-rocm", "synthetic-intel", "partial"}

(* make_cuda_adapter() gives none on a machine without a CUDA device.      *)
CudaAdapters(option, machine) ==
  IF machine.compiled /\ option \in {"real", "all"} /\ machine.devices # <<>> THEN {"cuda-runtime"} ELSE {}

(* build_adapters()                                                        *)
BuildAdapters(option, machine) ==
  CudaAdapters(option, machine)
    \cup (IF option = "synthetic-cuda" \/ (option = "all" /\ CudaAdapters(option, machine) = {})
          THEN {"cuda-class"} ELSE {})
    \cup (IF option \in {"all", "synthetic-rocm"} THEN {"rocm-class"} ELSE {})
    \cup (IF option \in {"all", "synthetic-intel"} THEN {"intel-class"} ELSE {})
    \cup (IF option = "partial" THEN {"partial"} ELSE {})

ProfileOf(adapter) ==
  CASE adapter = "cuda-class" -> CudaClassProfile
    [] adapter = "rocm-class" -> RocmClassProfile
    [] adapter = "intel-class" -> IntelClassProfile
    [] adapter = "partial" -> PartiallyEvidencedProfile

Observe(adapter, machine) ==
  IF adapter = "cuda-runtime" THEN CudaObserve(machine) ELSE SyntheticObserve(ProfileOf(adapter))

(* An adapter that fails is passed over; an agent left without a device    *)
(* exits before its HELLO.                                                 *)
AgentDevices(option, machine) == UNION {Observe(a, machine).devices : a \in BuildAdapters(option, machine)}
=============================================================================
