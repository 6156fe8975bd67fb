---------------------------- MODULE AdapterProofs ----------------------------
(***************************************************************************)
(* What the adapters promise for every machine, proved: an agent describes *)
(* its hardware completely or not at all, and a target two advertised      *)
(* devices share is one of their common vendor and architecture.           *)
(*                                                                         *)
(* AdaptersSpec asks about any input of its type, where MCFunctions        *)
(* enumerates some.                                                        *)
(***************************************************************************)
EXTENDS AdapterCases, TLAPS

-----------------------------------------------------------------------------
(* What the adapters write.                                                *)

(* Machines of any kind.  A device has no more memory free than in all,    *)
(* its compute capability has a single digit behind the point, its flags   *)
(* are what its properties report, and no UUID is reported twice.          *)
CudaDevices ==
  {d \in [major: Nat, minor: 0..9, total: Nat, free: Nat, readable: BOOLEAN, memoryKnown: BOOLEAN, uuid: Nat,
          flags: SUBSET (MemoryKeys \cup ExecutionKeys)] : d.free <= d.total}
CudaMachines ==
  {m \in [compiled: BOOLEAN, runtime: Nat, devices: Seq(CudaDevices)] :
     \A i, j \in DOMAIN m.devices : m.devices[i].uuid = m.devices[j].uuid /\ m.devices[i].uuid # 0 => i = j}

(* The elements of a list.                                                 *)
LEMMA ElementOf ==
  ASSUME NEW S, NEW s \in Seq(S), NEW i \in 1..Len(s)
  PROVE  s[i] \in S
OBVIOUS

(* Two lists of records joined.                                            *)
LEMMA JoinedParts ==
  ASSUME NEW f, NEW g
  PROVE  /\ DOMAIN Joined(f, g) = DOMAIN f \cup DOMAIN g
         /\ \A k \in DOMAIN f : Joined(f, g)[k] = f[k]
         /\ \A k \in DOMAIN g : k \notin DOMAIN f => Joined(f, g)[k] = g[k]
BY DEF Joined

(* Records that are valid apart are valid together.                        *)
LEMMA JoinedValid ==
  ASSUME NEW f, NEW g, RecordsValid(f), RecordsValid(g)
  PROVE  RecordsValid(Joined(f, g))
<1> DEFINE h == Joined(f, g)
<1>1. DOMAIN h = DOMAIN f \cup DOMAIN g /\ (\A k \in DOMAIN f : h[k] = f[k]) /\ \A k \in DOMAIN g : k \notin DOMAIN f => h[k] = g[k]
  BY JoinedParts, Zenon
<1> HIDE DEF h
<1>2. ASSUME NEW k \in DOMAIN h
      PROVE  h[k].value.kind = KindOf(k) /\ (h[k].state = "Supported" /\ h[k].value.kind = "TokenSet" => h[k].value.tokens # {})
  <2>1. CASE k \in DOMAIN f
    BY <2>1, <1>1 DEF RecordsValid
  <2>2. CASE k \notin DOMAIN f
    BY <2>2, <1>1 DEF RecordsValid
  <2> QED BY <2>1, <2>2
<1> QED BY <1>2 DEF RecordsValid, h

IdentityKeys ==
  {VendorId, Architecture, RuntimeFamily, RuntimeVersion, MemoryTotal, CodeObjects, NumericFormats,
   SupportLevelKey, ProvenanceKey}
OwnKeys == {MemoryFree, ExecutionFeatures, PeerAccess, Collectives}

(* The kinds of the keys the adapters write.                               *)
LEMMA Kinds ==
  /\ \A k \in {VendorId, Architecture, RuntimeFamily, SupportLevelKey, ProvenanceKey} : KindOf(k) = "Enumeration"
  /\ KindOf(RuntimeVersion) = "Version" /\ KindOf(ComputeCapability) = "Version"
  /\ KindOf(MemoryTotal) = "Integer" /\ KindOf(MemoryFree) = "Integer"
  /\ \A k \in {CodeObjects, NumericFormats, ExecutionFeatures, PeerAccess, Collectives} : KindOf(k) = "TokenSet"
  /\ \A n : KindOf(<<"x", n>>) = "TokenSet"
<1> USE DEF VendorId, Architecture, RuntimeFamily, SupportLevelKey, ProvenanceKey, RuntimeVersion, ComputeCapability,
            MemoryTotal, MemoryFree, CodeObjects, NumericFormats, ExecutionFeatures, PeerAccess, Collectives
<1> DEFINE flags == FormatKeys \cup FlagKeys
           spaces == {"numeric", "tensor", "memory", "comm", "kernel", "sync", "migration", "portability"}
<1>1. \A k \in flags : k[1] \in spaces
  BY DEF FormatKeys, FlagKeys, TensorKeys, MemoryKeys, ExecutionKeys, MigrationKeys, LiveTransfer, CheckpointRestore,
         StateExport, StateReconstruction, CrossVendorState, Recompile, Repackage
<1>2. \A n : <<"memory", n>> \in flags =>
         n \in {"unified_addressing", "managed_allocation", "virtual_management", "host_pinned_transfer", "ecc_enabled"}
  BY DEF FormatKeys, FlagKeys, TensorKeys, MemoryKeys, ExecutionKeys, MigrationKeys, LiveTransfer, CheckpointRestore,
         StateExport, StateReconstruction, CrossVendorState, Recompile, Repackage
<1>3. NumericFormats \notin flags /\ Collectives \notin flags
  BY DEF FormatKeys, FlagKeys, TensorKeys, MemoryKeys, ExecutionKeys, MigrationKeys, LiveTransfer, CheckpointRestore,
         StateExport, StateReconstruction, CrossVendorState, Recompile, Repackage, Formats
<1> HIDE DEF flags
<1>4. \A k : KindOf(k) = IF k \in EnumerationKeys THEN "Enumeration" ELSE IF k \in VersionKeys THEN "Version"
                         ELSE IF k \in IntegerKeys THEN "Integer" ELSE IF k \in flags THEN "Presence" ELSE "TokenSet"
  BY Zenon DEF KindOf, flags
<1>5. \A k \in {VendorId, Architecture, RuntimeFamily, SupportLevelKey, ProvenanceKey} : KindOf(k) = "Enumeration"
  BY <1>4 DEF EnumerationKeys
<1>6. KindOf(RuntimeVersion) = "Version" /\ KindOf(ComputeCapability) = "Version"
  BY <1>4 DEF EnumerationKeys, VersionKeys
<1>7. KindOf(MemoryTotal) = "Integer" /\ KindOf(MemoryFree) = "Integer"
  BY <1>4 DEF EnumerationKeys, VersionKeys, IntegerKeys
<1>8. ASSUME NEW k \in {CodeObjects, NumericFormats, ExecutionFeatures, PeerAccess, Collectives}
      PROVE  KindOf(k) = "TokenSet"
  <2>1. k \notin flags
    BY <1>1, <1>3
  <2> QED BY <2>1, <1>4 DEF EnumerationKeys, VersionKeys, IntegerKeys
<1>9. ASSUME NEW n PROVE KindOf(<<"x", n>>) = "TokenSet"
  <2>1. <<"x", n>> \notin flags
    BY <1>1
  <2> QED BY <2>1, <1>4 DEF EnumerationKeys, VersionKeys, IntegerKeys
<1> QED BY <1>5, <1>6, <1>7, <1>8, <1>9

(* A flag or a numeric format is a presence, and none of the other keys.   *)
LEMMA FlagsApart ==
  /\ \A k \in FormatKeys \cup FlagKeys : KindOf(k) = "Presence"
  /\ (FormatKeys \cup FlagKeys) \cap (IdentityKeys \cup OwnKeys \cup {ComputeCapability}) = {}
  /\ FormatKeys \cap FlagKeys = {}
  /\ IdentityKeys \cap OwnKeys = {} /\ ComputeCapability \notin IdentityKeys \cup OwnKeys
<1> DEFINE flags == FormatKeys \cup FlagKeys
<1>1. FormatKeys \cap FlagKeys = {}
  BY DEF FormatKeys, FlagKeys, TensorKeys, MemoryKeys, ExecutionKeys, MigrationKeys, LiveTransfer, CheckpointRestore,
         StateExport, StateReconstruction, CrossVendorState, Recompile, Repackage
<1>2. flags \cap (EnumerationKeys \cup VersionKeys \cup IntegerKeys) = {}
  BY DEF FormatKeys, FlagKeys, TensorKeys, MemoryKeys, ExecutionKeys, MigrationKeys, LiveTransfer, CheckpointRestore,
         StateExport, StateReconstruction, CrossVendorState, Recompile, Repackage,
         VendorId, Architecture, RuntimeFamily, SupportLevelKey, ProvenanceKey, RuntimeVersion, ComputeCapability,
         MemoryTotal, MemoryFree, EnumerationKeys, VersionKeys, IntegerKeys
<1>3. \A k \in flags : KindOf(k) = "Presence"
  <2> HIDE DEF flags
  <2>1. \A k \in flags : k \notin EnumerationKeys /\ k \notin VersionKeys /\ k \notin IntegerKeys
    BY <1>2
  <2> QED BY <2>1, Zenon DEF KindOf, flags
<1>4. flags \cap (IdentityKeys \cup OwnKeys \cup {ComputeCapability}) = {}
  <2>1. \A k \in IdentityKeys \cup OwnKeys \cup {ComputeCapability} : KindOf(k) # "Presence"
    BY Kinds DEF IdentityKeys, OwnKeys
  <2> QED BY <2>1, <1>3
<1>5. IdentityKeys \cap OwnKeys = {} /\ ComputeCapability \notin IdentityKeys \cup OwnKeys
  BY DEF IdentityKeys, OwnKeys, VendorId, Architecture, RuntimeFamily, SupportLevelKey, ProvenanceKey, RuntimeVersion,
         ComputeCapability, MemoryTotal, MemoryFree, CodeObjects, NumericFormats, ExecutionFeatures, PeerAccess, Collectives
<1> QED BY <1>1, <1>3, <1>4, <1>5

(* What a value is.                                                        *)
LEMMA ValueParts ==
  /\ Presence.kind = "Presence" /\ Presence # NoValue
  /\ \A n : IntegerValue(n).kind = "Integer" /\ IntegerValue(n).number = n /\ IntegerValue(n) # NoValue
  /\ \A v : VersionValue(v).kind = "Version" /\ VersionValue(v) # NoValue
  /\ \A t : Token(t).kind = "Enumeration" /\ Token(t).tokens = {t} /\ Token(t) # NoValue
  /\ \A ts : TokenSet(ts).kind = "TokenSet" /\ TokenSet(ts).tokens = ts /\ TokenSet(ts) # NoValue
  /\ NoValue.tokens = {}
BY DEF Presence, IntegerValue, VersionValue, Token, TokenSet, NoValue, Value

(* What the records are that the adapters write.                           *)
LEMMA RecordParts ==
  /\ \A v : Supports(v).state = "Supported" /\ Supports(v).value = v
  /\ \A b \in BOOLEAN : /\ PresenceRecord(b).value = Presence
                        /\ PresenceRecord(b).state = IF b THEN "Supported" ELSE "Unsupported"
  /\ \A ts : /\ ListRecord(ts).value = TokenSet(ts)
             /\ ListRecord(ts).state = IF ts = {} THEN "Unsupported" ELSE "Supported"
BY DEF Supports, PresenceRecord, ListRecord

(* The records of the identity of a device.                                *)
LEMMA IdentityParts ==
  ASSUME NEW vendor, NEW architecture, NEW runtime, NEW version, NEW total, NEW targets, NEW formats, NEW level,
         NEW provenance
  PROVE  LET f == IdentityRecords(vendor, architecture, runtime, version, total, targets, formats, level, provenance)
         IN /\ DOMAIN f = IdentityKeys /\ RecordsValid(f)
            /\ f[VendorId] = Supports(Token(vendor)) /\ f[Architecture] = Supports(Token(architecture))
            /\ f[RuntimeFamily] = Supports(Token(runtime)) /\ f[MemoryTotal] = Supports(IntegerValue(total))
            /\ f[CodeObjects] = ListRecord(targets) /\ f[ProvenanceKey] = Supports(Token(provenance))
            /\ \A k \in IdentityKeys : f[k].state # "Unknown"
<1> DEFINE f == IdentityRecords(vendor, architecture, runtime, version, total, targets, formats, level, provenance)
<1>1. f = [k \in IdentityKeys |->
     CASE k = VendorId -> Supports(Token(vendor))
       [] k = Architecture -> Supports(Token(architecture))
       [] k = RuntimeFamily -> Supports(Token(runtime))
       [] k = RuntimeVersion -> Supports(VersionValue(version))
       [] k = MemoryTotal -> Supports(IntegerValue(total))
       [] k = CodeObjects -> ListRecord(targets)
       [] k = NumericFormats -> ListRecord(formats)
       [] k = SupportLevelKey -> Supports(Token(level))
       [] k = ProvenanceKey -> Supports(Token(provenance))]
  BY DEF IdentityRecords, IdentityKeys
<1> HIDE DEF f
<1>2. DOMAIN f = IdentityKeys
  BY <1>1, ZenonT(60)
<1>3. /\ f[VendorId] = Supports(Token(vendor)) /\ f[Architecture] = Supports(Token(architecture))
      /\ f[RuntimeFamily] = Supports(Token(runtime)) /\ f[RuntimeVersion] = Supports(VersionValue(version))
      /\ f[MemoryTotal] = Supports(IntegerValue(total)) /\ f[CodeObjects] = ListRecord(targets)
      /\ f[NumericFormats] = ListRecord(formats) /\ f[SupportLevelKey] = Supports(Token(level))
      /\ f[ProvenanceKey] = Supports(Token(provenance))
  BY <1>1 DEF IdentityKeys, VendorId, Architecture, RuntimeFamily, SupportLevelKey, ProvenanceKey, RuntimeVersion,
              MemoryTotal, CodeObjects, NumericFormats
<1>4. ASSUME NEW k \in IdentityKeys
      PROVE  /\ f[k].value.kind = KindOf(k) /\ f[k].state # "Unknown"
             /\ f[k].state = "Supported" /\ f[k].value.kind = "TokenSet" => f[k].value.tokens # {}
  <2>1. CASE k \in {VendorId, Architecture, RuntimeFamily, SupportLevelKey, ProvenanceKey}
    <3>1. PICK t : f[k] = Supports(Token(t))
      BY <2>1, <1>3
    <3> QED BY <3>1, <2>1, Kinds, ValueParts, RecordParts
  <2>2. CASE k = RuntimeVersion
    BY <2>2, <1>3, Kinds, ValueParts, RecordParts
  <2>3. CASE k = MemoryTotal
    BY <2>3, <1>3, Kinds, ValueParts, RecordParts
  <2>4. CASE k \in {CodeObjects, NumericFormats}
    <3>1. PICK ts : f[k] = ListRecord(ts)
      BY <2>4, <1>3
    <3>2. KindOf(k) = "TokenSet"
      BY <2>4, Kinds
    <3> QED BY <3>1, <3>2, ValueParts, RecordParts
  <2> QED BY <2>1, <2>2, <2>3, <2>4 DEF IdentityKeys
<1>5. RecordsValid(f)
  BY <1>2, <1>4, Zenon DEF RecordsValid
<1> QED BY <1>2, <1>3, <1>4, <1>5 DEF f

(* The records the adapters write alike, for a device they name so.        *)
Alike(f, vendor, architecture, total, targets, able, provenance) ==
  /\ DOMAIN f = IdentityKeys \cup FormatKeys \cup FlagKeys /\ RecordsValid(f)
  /\ f[VendorId] = Supports(Token(vendor)) /\ f[Architecture] = Supports(Token(architecture))
  /\ f[MemoryTotal] = Supports(IntegerValue(total)) /\ f[CodeObjects] = ListRecord(targets)
  /\ f[ProvenanceKey] = Supports(Token(provenance))
  /\ \A k \in FlagKeys : f[k] = PresenceRecord(k \in able)
  /\ \A k \in DOMAIN f : f[k].state # "Unknown"

(* CommonRecords() writes these records.                                   *)
LEMMA CommonParts ==
  ASSUME NEW vendor, NEW architecture, NEW runtime, NEW version, NEW total, NEW targets, NEW formats, NEW able,
         NEW level, NEW provenance,
         NEW f,
         f = CommonRecords(vendor, architecture, runtime, version, total, targets, formats, able, level, provenance)
  PROVE  Alike(f, vendor, architecture, total, targets, able, provenance)
<1> DEFINE i == IdentityRecords(vendor, architecture, runtime, version, total, targets, formats, level, provenance)
           n == FormatRecords(formats)
           a == FlagRecords(able)
           g == Joined(n, a)
<1>1. f = Joined(i, g)
  BY Zenon DEF CommonRecords
<1>2. /\ DOMAIN i = IdentityKeys /\ RecordsValid(i)
      /\ i[VendorId] = Supports(Token(vendor)) /\ i[Architecture] = Supports(Token(architecture))
      /\ i[RuntimeFamily] = Supports(Token(runtime)) /\ i[MemoryTotal] = Supports(IntegerValue(total))
      /\ i[CodeObjects] = ListRecord(targets) /\ i[ProvenanceKey] = Supports(Token(provenance))
      /\ \A k \in IdentityKeys : i[k].state # "Unknown"
  BY IdentityParts
<1>3. /\ DOMAIN n = FormatKeys /\ DOMAIN a = FlagKeys
      /\ \A k \in FormatKeys : n[k] = PresenceRecord(k[2] \in formats)
      /\ \A k \in FlagKeys : a[k] = PresenceRecord(k \in able)
  BY DEF FormatRecords, FlagRecords
<1>4. \A k \in FormatKeys : n[k].value.kind = "Presence" /\ n[k].state # "Unknown"
  BY ValueParts DEF FormatRecords, PresenceRecord
<1>5. \A k \in FlagKeys : a[k].value.kind = "Presence" /\ a[k].state # "Unknown"
  BY ValueParts DEF FlagRecords, PresenceRecord
<1> HIDE DEF i, n, a
<1>6. RecordsValid(n) /\ RecordsValid(a)
  BY <1>3, <1>4, <1>5, FlagsApart DEF RecordsValid
<1>7. /\ DOMAIN g = FormatKeys \cup FlagKeys /\ RecordsValid(g)
      /\ \A k \in FlagKeys : g[k] = a[k]
      /\ \A k \in DOMAIN g : g[k].state # "Unknown"
  <2>1. DOMAIN g = FormatKeys \cup FlagKeys /\ (\A k \in FormatKeys : g[k] = n[k])
        /\ \A k \in FlagKeys : k \notin FormatKeys => g[k] = a[k]
    <3>1. DOMAIN Joined(n, a) = DOMAIN n \cup DOMAIN a
      BY JoinedParts, Zenon
    <3>2. \A k \in DOMAIN n : Joined(n, a)[k] = n[k]
      BY JoinedParts, Zenon
    <3>3. \A k \in DOMAIN a : k \notin DOMAIN n => Joined(n, a)[k] = a[k]
      BY JoinedParts, Zenon
    <3> QED BY <3>1, <3>2, <3>3, <1>3, Zenon
  <2>2. RecordsValid(g)
    BY <1>6, JoinedValid
  <2> HIDE DEF g
  <2> QED BY <2>1, <2>2, <1>4, <1>5, FlagsApart
<1> HIDE DEF g
<1>8. /\ DOMAIN f = IdentityKeys \cup FormatKeys \cup FlagKeys
      /\ \A k \in IdentityKeys : f[k] = i[k]
      /\ \A k \in FormatKeys \cup FlagKeys : f[k] = g[k]
  <2>1. DOMAIN f = DOMAIN i \cup DOMAIN g /\ (\A k \in DOMAIN i : f[k] = i[k])
        /\ \A k \in DOMAIN g : k \notin DOMAIN i => f[k] = g[k]
    <3>1. DOMAIN Joined(i, g) = DOMAIN i \cup DOMAIN g
      BY JoinedParts, Zenon
    <3>2. \A k \in DOMAIN i : Joined(i, g)[k] = i[k]
      BY JoinedParts, Zenon
    <3>3. \A k \in DOMAIN g : k \notin DOMAIN i => Joined(i, g)[k] = g[k]
      BY JoinedParts, Zenon
    <3> QED BY <3>1, <3>2, <3>3, <1>1, Zenon
  <2> QED BY <2>1, <1>2, <1>7, FlagsApart
<1>9. RecordsValid(f)
  BY <1>1, <1>2, <1>7, JoinedValid
<1>10. \A k \in DOMAIN f : f[k].state # "Unknown"
  BY <1>2, <1>7, <1>8
<1>11. \A k \in FlagKeys : f[k] = PresenceRecord(k \in able)
  BY <1>3, <1>7, <1>8
<1>12. \A k \in {VendorId, Architecture, RuntimeFamily, MemoryTotal, CodeObjects, ProvenanceKey} : f[k] = i[k]
  BY <1>8 DEF IdentityKeys
<1> QED BY <1>2, <1>7, <1>8, <1>9, <1>10, <1>11, <1>12, Zenon DEF Alike

(* The records each adapter writes in its own way.                         *)
LEMMA OwnParts ==
  ASSUME NEW free, NEW features, NEW peers, NEW collectives,
         \A r \in {features, peers, collectives} : r.value.kind = "TokenSet" /\ (r.state = "Supported" => r.value.tokens # {})
  PROVE  LET f == OwnRecords(free, features, peers, collectives)
         IN /\ DOMAIN f = OwnKeys /\ f[MemoryFree] = free
            /\ RecordsValid(f) <=> free.value.kind = "Integer"
            /\ \A k \in OwnKeys : f[k] \in {free, features, peers, collectives}
<1> DEFINE f == OwnRecords(free, features, peers, collectives)
<1>1. f = [k \in OwnKeys |-> CASE k = MemoryFree -> free [] k = ExecutionFeatures -> features
                                [] k = PeerAccess -> peers [] k = Collectives -> collectives]
  BY DEF OwnRecords, OwnKeys
<1> HIDE DEF f
<1>2. DOMAIN f = OwnKeys
  BY <1>1
<1>3. f[MemoryFree] = free /\ f[ExecutionFeatures] = features /\ f[PeerAccess] = peers /\ f[Collectives] = collectives
  BY <1>1 DEF OwnKeys, MemoryFree, ExecutionFeatures, PeerAccess, Collectives
<1>4. \A k \in {ExecutionFeatures, PeerAccess, Collectives} :
         f[k].value.kind = KindOf(k) /\ (f[k].state = "Supported" => f[k].value.tokens # {})
  BY <1>3, Kinds
<1>5. RecordsValid(f) => free.value.kind = "Integer"
  <2>1. MemoryFree \in DOMAIN f
    BY <1>2 DEF OwnKeys
  <2> QED BY <2>1, <1>3, Kinds DEF RecordsValid
<1>6. ASSUME free.value.kind = "Integer"
      PROVE  RecordsValid(f)
  <2>1. f[MemoryFree].value.kind = KindOf(MemoryFree) /\ f[MemoryFree].value.kind # "TokenSet"
    BY <1>3, <1>6, Kinds
  <2>2. \A k \in OwnKeys : f[k].value.kind = KindOf(k)
                             /\ (f[k].state = "Supported" /\ f[k].value.kind = "TokenSet" => f[k].value.tokens # {})
    BY <2>1, <1>4 DEF OwnKeys
  <2> QED BY <2>2, <1>2, Zenon DEF RecordsValid
<1>7. \A k \in OwnKeys : f[k] \in {free, features, peers, collectives}
  BY <1>3, Zenon DEF OwnKeys
<1> QED BY <1>2, <1>3, <1>5, <1>6, <1>7 DEF f

(* What the records of every device say.                                   *)
Describes(f, vendor, architecture, total, targets, able, provenance) ==
  /\ IdentityKeys \cup FormatKeys \cup FlagKeys \cup OwnKeys \subseteq DOMAIN f
  /\ \A k \in DOMAIN f : f[k].state # "Unknown"
  /\ f[VendorId] = Supports(Token(vendor)) /\ f[Architecture] = Supports(Token(architecture))
  /\ f[MemoryTotal] = Supports(IntegerValue(total)) /\ f[CodeObjects] = ListRecord(targets)
  /\ f[ProvenanceKey] = Supports(Token(provenance))
  /\ \A k \in FlagKeys : f[k] = PresenceRecord(k \in able)

(* What an adapter says in its own way, and of extensions, leaves nothing  *)
(* unknown and says nothing twice.                                         *)
OwnSaid(own) == DOMAIN own = OwnKeys /\ \A k \in OwnKeys : own[k].state # "Unknown"
ExtensionSaid(ext) ==
  /\ RecordsValid(ext) /\ \A k \in DOMAIN ext : ext[k].state # "Unknown"
  /\ DOMAIN ext \cap (IdentityKeys \cup OwnKeys \cup FlagKeys) = {}

(* The records of a device: alike, its own and those of extensions.        *)
LEMMA DeviceParts ==
  ASSUME NEW vendor, NEW architecture, NEW runtime, NEW version, NEW total, NEW targets, NEW formats, NEW able,
         NEW level, NEW provenance,
         NEW own, OwnSaid(own), NEW ext, ExtensionSaid(ext), NEW f,
         f = Joined(Joined(CommonRecords(vendor, architecture, runtime, version, total, targets, formats, able, level,
                                         provenance), own), ext)
  PROVE  /\ Describes(f, vendor, architecture, total, targets, able, provenance)
         /\ DOMAIN ext \subseteq DOMAIN f
         /\ f[MemoryFree] = own[MemoryFree]
         /\ RecordsValid(f) <=> RecordsValid(own)
<1> DEFINE c == CommonRecords(vendor, architecture, runtime, version, total, targets, formats, able, level, provenance)
           g == Joined(c, own)
<1>0. /\ DOMAIN own = OwnKeys /\ \A k \in OwnKeys : own[k].state # "Unknown"
      /\ RecordsValid(ext) /\ \A k \in DOMAIN ext : ext[k].state # "Unknown"
      /\ DOMAIN ext \cap (IdentityKeys \cup OwnKeys \cup FlagKeys) = {}
  BY Zenon DEF OwnSaid, ExtensionSaid
<1>1. c = CommonRecords(vendor, architecture, runtime, version, total, targets, formats, able, level, provenance)
  OBVIOUS
<1> HIDE DEF c
<1>2. /\ DOMAIN c = IdentityKeys \cup FormatKeys \cup FlagKeys /\ RecordsValid(c)
      /\ c[VendorId] = Supports(Token(vendor)) /\ c[Architecture] = Supports(Token(architecture))
      /\ c[MemoryTotal] = Supports(IntegerValue(total))
      /\ c[CodeObjects] = ListRecord(targets) /\ c[ProvenanceKey] = Supports(Token(provenance))
      /\ \A k \in FlagKeys : c[k] = PresenceRecord(k \in able)
      /\ \A k \in DOMAIN c : c[k].state # "Unknown"
  <2>1. Alike(c, vendor, architecture, total, targets, able, provenance)
    BY <1>1, CommonParts
  <2> QED BY <2>1, Zenon DEF Alike
<1>3. DOMAIN g = DOMAIN c \cup OwnKeys /\ (\A k \in DOMAIN c : g[k] = c[k]) /\ \A k \in OwnKeys : g[k] = own[k]
  <2>1. DOMAIN Joined(c, own) = DOMAIN c \cup DOMAIN own
    BY JoinedParts, Zenon
  <2>2. \A k \in DOMAIN c : Joined(c, own)[k] = c[k]
    BY JoinedParts, Zenon
  <2>3. \A k \in DOMAIN own : k \notin DOMAIN c => Joined(c, own)[k] = own[k]
    BY DEF Joined
  <2>4. \A k \in OwnKeys : k \notin DOMAIN c
    BY <1>2, FlagsApart
  <2> QED BY <2>1, <2>2, <2>3, <2>4, <1>0
<1>4. RecordsValid(own) => RecordsValid(g)
  BY <1>2, JoinedValid
<1>5. f = Joined(g, ext)
  BY <1>1, Zenon
<1> HIDE DEF g
<1>6. DOMAIN f = DOMAIN g \cup DOMAIN ext /\ (\A k \in DOMAIN g : f[k] = g[k]) /\ \A k \in DOMAIN ext : k \notin DOMAIN g => f[k] = ext[k]
  <2>1. DOMAIN Joined(g, ext) = DOMAIN g \cup DOMAIN ext
    BY JoinedParts, Zenon
  <2>2. \A k \in DOMAIN g : Joined(g, ext)[k] = g[k]
    BY JoinedParts, Zenon
  <2>3. \A k \in DOMAIN ext : k \notin DOMAIN g => Joined(g, ext)[k] = ext[k]
    BY Zenon DEF Joined
  <2> QED BY <2>1, <2>2, <2>3, <1>5, Zenon
<1>7. RecordsValid(own) => RecordsValid(f)
  BY <1>0, <1>4, <1>5, JoinedValid, Zenon
<1>8. RecordsValid(f) => RecordsValid(own)
  <2>1. \A k \in OwnKeys : k \in DOMAIN f /\ f[k] = own[k]
    BY <1>0, <1>3, <1>6
  <2> QED BY <2>1, <1>0 DEF RecordsValid
<1>9. Describes(f, vendor, architecture, total, targets, able, provenance)
  <2>1. \A k \in DOMAIN c : k \in DOMAIN f /\ f[k] = c[k]
    BY <1>3, <1>6
  <2>2. \A k \in DOMAIN f : f[k].state # "Unknown"
    BY <1>0, <1>2, <1>3, <1>6
  <2>3. IdentityKeys \cup FormatKeys \cup FlagKeys \cup OwnKeys \subseteq DOMAIN f
    BY <1>2, <1>3, <1>6
  <2>4. VendorId \in DOMAIN c /\ Architecture \in DOMAIN c /\ MemoryTotal \in DOMAIN c /\ CodeObjects \in DOMAIN c
          /\ ProvenanceKey \in DOMAIN c /\ \A k \in FlagKeys : k \in DOMAIN c
    BY <1>2 DEF IdentityKeys
  <2> QED BY <2>1, <2>2, <2>3, <2>4, <1>2, Zenon DEF Describes
<1>10. MemoryFree \in OwnKeys
  BY DEF OwnKeys
<1>11. f[MemoryFree] = own[MemoryFree]
  BY <1>3, <1>6, <1>10
<1> QED BY <1>6, <1>7, <1>8, <1>9, <1>11

(* The profiles the synthetic adapters are made with.                      *)
SyntheticAdapters == {"cuda-class", "rocm-class", "intel-class", "partial"}
VendorOf(a) ==
  CASE a = "cuda-class" -> "nvidia" [] a = "rocm-class" -> "amd" [] a = "intel-class" -> "intel"
    [] a = "partial" -> "synthetic"

(* What the profiles have in common: a vendor of its own, extensions under *)
(* their own namespace, and no means of handing over state.                *)
LEMMA ProfileParts ==
  ASSUME NEW a \in SyntheticAdapters
  PROVE  LET p == ProfileOf(a)
         IN /\ p.vendor = VendorOf(a)
            /\ \A x \in DOMAIN p.extensions : \E n : x = <<"x", n>>
            /\ LiveTransfer \notin p.able /\ CheckpointRestore \notin p.able /\ Recompile \in p.able
            /\ p.targets # {}
<1> DEFINE p == ProfileOf(a)
<1>1. p = CASE a = "cuda-class" -> CudaClassProfile [] a = "rocm-class" -> RocmClassProfile
            [] a = "intel-class" -> IntelClassProfile [] a = "partial" -> PartiallyEvidencedProfile
  BY DEF ProfileOf
<1> HIDE DEF p
<1>2. \/ a = "cuda-class" /\ p = CudaClassProfile
      \/ a = "rocm-class" /\ p = RocmClassProfile
      \/ a = "intel-class" /\ p = IntelClassProfile
      \/ a = "partial" /\ p = PartiallyEvidencedProfile
  BY <1>1 DEF SyntheticAdapters
<1>3. ASSUME NEW S, LiveTransfer \notin S, CheckpointRestore \notin S
      PROVE  LET T == DefaultFlags \cup S
             IN LiveTransfer \notin T /\ CheckpointRestore \notin T /\ Recompile \in T
  BY <1>3 DEF DefaultFlags, LiveTransfer, CheckpointRestore, Recompile, StateReconstruction, Repackage
<1>4. \A S \in SUBSET (TensorKeys \cup MemoryKeys \cup ExecutionKeys) : LiveTransfer \notin S /\ CheckpointRestore \notin S
  BY DEF TensorKeys, MemoryKeys, ExecutionKeys, LiveTransfer, CheckpointRestore
<1>5. PICK S \in SUBSET (TensorKeys \cup MemoryKeys \cup ExecutionKeys) : p.able = DefaultFlags \cup S
  <2>1. CASE p = CudaClassProfile
    <3> DEFINE S == TensorKeys \cup MemoryKeys \cup (ExecutionKeys \ {<<"comm", "rdma">>, <<"comm", "host_staging_required">>})
    <3>1. p.able = DefaultFlags \cup S
      BY <2>1 DEF CudaClassProfile
    <3> QED BY <3>1, Zenon
  <2>2. CASE p = RocmClassProfile
    <3> DEFINE S == {<<"tensor", "matrix_engine">>} \cup MemoryKeys
                      \cup (ExecutionKeys \ {<<"comm", "host_staging_required">>, <<"kernel", "dynamic_parallelism">>})
    <3>1. p.able = DefaultFlags \cup S
      BY <2>2 DEF RocmClassProfile
    <3>2. S \in SUBSET (TensorKeys \cup MemoryKeys \cup ExecutionKeys)
      BY DEF TensorKeys
    <3> HIDE DEF S
    <3> QED BY <3>1, <3>2
  <2>3. CASE p = IntelClassProfile
    <3> DEFINE S == {<<"tensor", "matrix_engine">>, <<"memory", "unified_addressing">>, <<"memory", "virtual_management">>}
    <3>1. p.able = DefaultFlags \cup S
      BY <2>3 DEF IntelClassProfile
    <3>2. S \in SUBSET (TensorKeys \cup MemoryKeys \cup ExecutionKeys)
      BY DEF TensorKeys, MemoryKeys
    <3> HIDE DEF S
    <3> QED BY <3>1, <3>2
  <2>4. CASE p = PartiallyEvidencedProfile
    <3>1. p.able = DefaultFlags \cup {}
      BY <2>4 DEF PartiallyEvidencedProfile
    <3> QED BY <3>1, Zenon
  <2> QED BY <2>1, <2>2, <2>3, <2>4, <1>2
<1>6. LiveTransfer \notin p.able /\ CheckpointRestore \notin p.able /\ Recompile \in p.able
  BY <1>3, <1>4, <1>5
<1>7. /\ CudaClassProfile.vendor = "nvidia" /\ CudaClassProfile.targets # {}
      /\ RocmClassProfile.vendor = "amd" /\ RocmClassProfile.targets # {}
      /\ IntelClassProfile.vendor = "intel" /\ IntelClassProfile.targets # {}
      /\ PartiallyEvidencedProfile.vendor = "synthetic" /\ PartiallyEvidencedProfile.targets # {}
  <2>1. CudaClassProfile.vendor = "nvidia" /\ CudaClassProfile.targets = {<<"compute", 120>>, <<"sm", 100>>, <<"sm", 120>>}
    BY DEF CudaClassProfile
  <2>2. RocmClassProfile.vendor = "amd" /\ RocmClassProfile.targets = {<<"gfx", 940>>, <<"gfx", 942>>, <<"amdgcn", 942>>}
    BY DEF RocmClassProfile
  <2>3. IntelClassProfile.vendor = "intel" /\ IntelClassProfile.targets = {<<"xe-hpg", 512>>, <<"spirv", 16>>}
    BY DEF IntelClassProfile
  <2>4. PartiallyEvidencedProfile.vendor = "synthetic" /\ PartiallyEvidencedProfile.targets = {<<"opaque", 1>>}
    BY DEF PartiallyEvidencedProfile
  <2> QED BY <2>1, <2>2, <2>3, <2>4
<1>8. \A x \in DOMAIN p.extensions : \E n : x = <<"x", n>>
  <2>1. CASE p = CudaClassProfile
    BY <2>1 DEF CudaClassProfile
  <2>2. CASE p = RocmClassProfile
    BY <2>2 DEF RocmClassProfile
  <2>3. CASE p = IntelClassProfile
    BY <2>3 DEF IntelClassProfile
  <2>4. CASE p = PartiallyEvidencedProfile
    BY <2>4 DEF PartiallyEvidencedProfile
  <2> QED BY <2>1, <2>2, <2>3, <2>4, <1>2
<1>9. p.vendor = VendorOf(a) /\ p.targets # {}
  BY <1>2, <1>7 DEF VendorOf
<1> QED BY <1>6, <1>8, <1>9 DEF p

(* The device of a synthetic adapter is described, and observed.           *)
LEMMA SyntheticParts ==
  ASSUME NEW a \in SyntheticAdapters
  PROVE  LET p == ProfileOf(a)
             d == SyntheticDescriptor(p)
         IN /\ SyntheticObserve(p).devices = {d} /\ RecordsValid(d.caps.records)
            /\ Describes(d.caps.records, p.vendor, p.architecture, p.total, p.targets, p.able, "synthetic")
            /\ d.provenance = "Synthetic" /\ d.device = <<"model", p.vendor>> /\ CoreNamespaces \subseteq d.caps.closed
<1> DEFINE p == ProfileOf(a)
           d == SyntheticDescriptor(p)
           s == BuildCapabilitySet(p)
           free == Supports(IntegerValue(p.free))
           x == ListRecord(p.features)
           y == ListRecord(p.peers)
           z == ListRecord(p.collectives)
           own == OwnRecords(free, x, y, z)
           ext == [k \in DOMAIN p.extensions |-> ListRecord(p.extensions[k])]
           f == Joined(Joined(CommonRecords(p.vendor, p.architecture, p.runtime, p.version, p.total, p.targets,
                                            p.formats, p.able, "synthetic", "synthetic"), own), ext)
<1>1. \A k \in DOMAIN p.extensions : \E n : k = <<"x", n>>
  BY ProfileParts
<1> HIDE DEF p
<1>2. s = [records |-> f, closed |-> ClosedNamespacesFor(p)]
  BY Zenon DEF BuildCapabilitySet
<1>3. \A ts : /\ ListRecord(ts).value.kind = "TokenSet" /\ (ListRecord(ts).state = "Supported" => ListRecord(ts).value.tokens # {})
              /\ ListRecord(ts).state # "Unknown"
  BY RecordParts, ValueParts
<1>4. free.value.kind = "Integer" /\ free.state # "Unknown"
  BY RecordParts, ValueParts
<1>5. DOMAIN own = OwnKeys /\ RecordsValid(own) /\ \A k \in OwnKeys : own[k].state # "Unknown"
  <2>1. \A r \in {x, y, z} : r.value.kind = "TokenSet" /\ (r.state = "Supported" => r.value.tokens # {})
    BY <1>3
  <2>2. \A r \in {free, x, y, z} : r.state # "Unknown"
    BY <1>3, <1>4
  <2> HIDE DEF free, x, y, z
  <2>3. DOMAIN own = OwnKeys /\ (RecordsValid(own) <=> free.value.kind = "Integer")
    BY <2>1, OwnParts
  <2>4. \A k \in OwnKeys : own[k] \in {free, x, y, z}
    BY <2>1, OwnParts
  <2> HIDE DEF own
  <2> QED BY <2>2, <2>3, <2>4, <1>4
<1>6. /\ RecordsValid(ext) /\ \A k \in DOMAIN ext : ext[k].state # "Unknown"
      /\ DOMAIN ext \cap (IdentityKeys \cup OwnKeys \cup FlagKeys) = {}
  <2>1. \A k \in DOMAIN ext : /\ k \in DOMAIN p.extensions /\ ext[k] = ListRecord(p.extensions[k])
    OBVIOUS
  <2> HIDE DEF ext
  <2>2. \A k \in DOMAIN ext : KindOf(k) = "TokenSet" /\ k[1] = "x"
    BY <2>1, <1>1, Kinds
  <2>3. RecordsValid(ext) /\ \A k \in DOMAIN ext : ext[k].state # "Unknown"
    BY <2>1, <2>2, <1>3 DEF RecordsValid
  <2>4. \A k \in IdentityKeys \cup OwnKeys : k[1] # "x"
    BY DEF IdentityKeys, OwnKeys, VendorId, Architecture, RuntimeFamily, SupportLevelKey, ProvenanceKey, RuntimeVersion,
           MemoryTotal, MemoryFree, CodeObjects, NumericFormats, ExecutionFeatures, PeerAccess, Collectives
  <2>5. \A k \in FlagKeys : KindOf(k) # "TokenSet"
    BY FlagsApart, Zenon
  <2> QED BY <2>2, <2>3, <2>4, <2>5
<1> HIDE DEF own, ext, free, x, y, z
<1>7. f = Joined(Joined(CommonRecords(p.vendor, p.architecture, p.runtime, p.version, p.total, p.targets, p.formats,
                                        p.able, "synthetic", "synthetic"), own), ext)
  BY ZenonT(60)
<1> HIDE DEF f, s
<1>8. OwnSaid(own) /\ ExtensionSaid(ext)
  BY <1>5, <1>6, Zenon DEF OwnSaid, ExtensionSaid
<1>9. /\ Describes(f, p.vendor, p.architecture, p.total, p.targets, p.able, "synthetic")
      /\ RecordsValid(f) <=> RecordsValid(own)
  BY <1>7, <1>8, DeviceParts
<1>10. s.records = f /\ s.closed = ClosedNamespacesFor(p) /\ RecordsValid(f)
  BY <1>2, <1>5, <1>9
<1>11. d = [device |-> <<"model", p.vendor>>, caps |-> s, provenance |-> "Synthetic", support |-> "Synthetic",
            evidence |-> "Synthetic"]
  BY DEF SyntheticDescriptor, s
<1>12. SyntheticObserve(p) = [ok |-> TRUE, devices |-> {d}]
  BY <1>10 DEF SyntheticObserve, Observation, s
<1> HIDE DEF d
<1>13. CoreNamespaces \subseteq s.closed
  BY <1>10 DEF ClosedNamespacesFor
<1>14. d.caps = s /\ d.provenance = "Synthetic" /\ d.device = <<"model", p.vendor>> /\ SyntheticObserve(p).devices = {d}
  BY <1>11, <1>12
<1> QED BY <1>9, <1>10, <1>13, <1>14 DEF d, p

(* What a CUDA device is able to do is what the adapter and its properties *)
(* say, which is never to hand over its state.                             *)
LEMMA CudaAbilities ==
  ASSUME NEW d, d.flags \in SUBSET (MemoryKeys \cup ExecutionKeys)
  PROVE  LiveTransfer \notin CudaFlags(d) /\ CheckpointRestore \notin CudaFlags(d) /\ Recompile \in CudaFlags(d)
<1> DEFINE fixed == {<<"memory", "virtual_management">>, <<"memory", "host_pinned_transfer">>, <<"sync", "graph_capture">>,
                     StateReconstruction, Recompile, Repackage}
           tensor == {k \in TensorKeys : d.major >= CASE k[2] = "matrix_engine" -> 7 [] k[2] = "structured_sparsity" -> 8
                                          [] k[2] = "warp_group_mma" -> 9 [] k[2] = "block_scaled_mma" -> 10}
           kernel == IF d.major > 3 \/ (d.major = 3 /\ d.minor >= 5) THEN {<<"kernel", "dynamic_parallelism">>} ELSE {}
           comm == IF <<"memory", "unified_addressing">> \in d.flags THEN {<<"comm", "direct_peer_memory">>} ELSE {}
<1>1. CudaFlags(d) = fixed \cup tensor \cup kernel \cup d.flags \cup comm
  BY Zenon DEF CudaFlags
<1>2. LiveTransfer \notin fixed /\ CheckpointRestore \notin fixed /\ Recompile \in fixed
  BY DEF LiveTransfer, CheckpointRestore, Recompile, StateReconstruction, Repackage
<1>3. LiveTransfer \notin tensor /\ CheckpointRestore \notin tensor
  BY DEF LiveTransfer, CheckpointRestore, TensorKeys
<1>4. LiveTransfer \notin kernel /\ CheckpointRestore \notin kernel
  BY DEF LiveTransfer, CheckpointRestore
<1>5. LiveTransfer \notin comm /\ CheckpointRestore \notin comm
  BY DEF LiveTransfer, CheckpointRestore
<1>6. LiveTransfer \notin d.flags /\ CheckpointRestore \notin d.flags
  BY Zenon DEF LiveTransfer, CheckpointRestore, MemoryKeys, ExecutionKeys
<1> HIDE DEF fixed, tensor, kernel, comm
<1> QED BY <1>1, <1>2, <1>3, <1>4, <1>5, <1>6

(* A CUDA device is described, and completely exactly when the free memory *)
(* of the first one can be read.                                           *)
LEMMA CudaParts ==
  ASSUME NEW m \in CudaMachines, NEW i \in DOMAIN m.devices
  PROVE  LET d == m.devices[i]
             f == CudaRecords(m, i)
         IN /\ Describes(f, "nvidia", ArchitectureFor(d.major, d.minor), d.total, TargetsFor(d.major, d.minor),
                         CudaFlags(d), "real")
            /\ f[MemoryFree] = FreeMemoryRecord(m)
            /\ RecordsValid(f) <=> m.devices[1].memoryKnown
<1> DEFINE d == m.devices[i]
           f == CudaRecords(m, i)
           version == SemanticFromCudaVersion(m.runtime)
           free == FreeMemoryRecord(m)
           x == Supports(TokenSet({"graph-capture", "stream-events", "unified-memory"}))
           y == Supports(TokenSet({"pcie", "nvlink-or-pcie"}))
           z == Supports(TokenSet({"all-reduce", "broadcast", "all-gather"}))
           own == OwnRecords(free, x, y, z)
           ext == [k \in {ComputeCapability} |-> Supports(VersionValue(Version3(d.major, d.minor, 0)))]
           arch == ArchitectureFor(d.major, d.minor)
           targets == TargetsFor(d.major, d.minor)
           able == CudaFlags(d)
           formats == FormatsFor(d.major)
           total == d.total
<1>1. f = Joined(Joined(CommonRecords("nvidia", arch, "cuda", version, total, targets, formats, able, "native", "real"), own), ext)
  BY Zenon DEF CudaRecords
<1>2. \A r \in {x, y, z} : r.value.kind = "TokenSet" /\ r.value.tokens # {} /\ r.state = "Supported"
  BY RecordParts, ValueParts
<1>3. free.state # "Unknown" /\ (free.value.kind = "Integer" <=> m.devices[1].memoryKnown)
  <2>1. CASE m.devices[1].memoryKnown
    BY <2>1, RecordParts, ValueParts DEF FreeMemoryRecord
  <2>2. CASE ~m.devices[1].memoryKnown
    BY <2>2, RecordParts, ValueParts, Zenon DEF FreeMemoryRecord
  <2> QED BY <2>1, <2>2
<1>4. /\ DOMAIN own = OwnKeys /\ own[MemoryFree] = free /\ (RecordsValid(own) <=> m.devices[1].memoryKnown)
      /\ \A k \in OwnKeys : own[k].state # "Unknown"
  <2> HIDE DEF free, x, y, z
  <2>1. DOMAIN own = OwnKeys /\ own[MemoryFree] = free /\ (RecordsValid(own) <=> free.value.kind = "Integer")
    BY <1>2, OwnParts
  <2>2. \A k \in OwnKeys : own[k] \in {free, x, y, z}
    BY <1>2, OwnParts
  <2> HIDE DEF own
  <2> QED BY <2>1, <2>2, <1>2, <1>3
<1>5. /\ RecordsValid(ext) /\ \A k \in DOMAIN ext : ext[k].state # "Unknown"
      /\ DOMAIN ext \cap (IdentityKeys \cup OwnKeys \cup FlagKeys) = {}
  <2>1. DOMAIN ext = {ComputeCapability} /\ ext[ComputeCapability].value.kind = "Version" /\ ext[ComputeCapability].state = "Supported"
    BY RecordParts, ValueParts
  <2> HIDE DEF ext
  <2>2. RecordsValid(ext)
    BY <2>1, Kinds, ZenonT(60) DEF RecordsValid
  <2> QED BY <2>1, <2>2, FlagsApart, Zenon
<1> HIDE DEF own, ext, arch, targets, able, formats, version, f, total, d, free, x, y, z
<1>6. OwnSaid(own) /\ ExtensionSaid(ext)
  BY <1>4, <1>5, Zenon DEF OwnSaid, ExtensionSaid
<1>7. /\ Describes(f, "nvidia", arch, total, targets, able, "real")
      /\ f[MemoryFree] = own[MemoryFree]
      /\ RecordsValid(f) <=> RecordsValid(own)
  BY <1>1, <1>6, DeviceParts
<1> QED BY <1>4, <1>7 DEF f, arch, targets, able, total, d, free

-----------------------------------------------------------------------------
(* Agents.                                                                 *)

(* What an agent reports: its CUDA devices, all or none, and models.       *)
Observable(m) == m.devices[1].memoryKnown /\ \A i \in DOMAIN m.devices : m.devices[i].readable
CudaReported(o, m) ==
  IF CudaAdapters(o, m) # {} /\ Observable(m) THEN {CudaDescriptor(m, i) : i \in DOMAIN m.devices} ELSE {}
Models(o, m) == BuildAdapters(o, m) \cap SyntheticAdapters
ObservedBy(S, m) == UNION {Observe(a, m).devices : a \in S}

(* An agent reports the CUDA devices and models it found adapters for; it  *)
(* models a CUDA device only where there is no adapter for real ones.      *)
LEMMA AgentReports ==
  ASSUME NEW o \in ProfileOptions, NEW m \in CudaMachines
  PROVE  /\ AgentDevices(o, m) = CudaReported(o, m) \cup {SyntheticDescriptor(ProfileOf(a)) : a \in Models(o, m)}
         /\ "cuda-class" \in Models(o, m) => CudaAdapters(o, m) = {}
         /\ o # "real" => Models(o, m) # {}
         /\ CudaAdapters(o, m) # {} => m.compiled /\ o \in {"real", "all"} /\ m.devices # <<>>
<1> DEFINE B == BuildAdapters(o, m)
<1>1. /\ CudaAdapters(o, m) \in {{}, {"cuda-runtime"}}
      /\ CudaAdapters(o, m) # {} => m.compiled /\ o \in {"real", "all"} /\ m.devices # <<>>
  BY DEF CudaAdapters
<1>2. "cuda-class" \in Models(o, m) => CudaAdapters(o, m) = {}
  <2>1. o = "synthetic-cuda" => CudaAdapters(o, m) = {}
    BY <1>1
  <2>2. "cuda-class" \in B => o = "synthetic-cuda" \/ CudaAdapters(o, m) = {}
    BY <1>1 DEF BuildAdapters
  <2> QED BY <2>1, <2>2 DEF Models
<1>3. o # "real" => Models(o, m) # {}
  <2>1. CASE o = "all"
    BY <2>1 DEF Models, BuildAdapters, SyntheticAdapters
  <2>2. CASE o = "synthetic-cuda"
    BY <2>2 DEF Models, BuildAdapters, SyntheticAdapters
  <2>3. CASE o = "synthetic-rocm"
    BY <2>3 DEF Models, BuildAdapters, SyntheticAdapters
  <2>4. CASE o = "synthetic-intel"
    BY <2>4 DEF Models, BuildAdapters, SyntheticAdapters
  <2>5. CASE o = "partial"
    BY <2>5 DEF Models, BuildAdapters, SyntheticAdapters
  <2> QED BY <2>1, <2>2, <2>3, <2>4, <2>5 DEF ProfileOptions
<1>4. B = CudaAdapters(o, m) \cup Models(o, m) /\ "cuda-runtime" \notin Models(o, m)
  BY <1>1 DEF BuildAdapters, Models, SyntheticAdapters
<1>5. ASSUME NEW a \in Models(o, m)
      PROVE  Observe(a, m).devices = {SyntheticDescriptor(ProfileOf(a))}
  <2>1. a \in SyntheticAdapters /\ a # "cuda-runtime"
    BY DEF Models, SyntheticAdapters
  <2>2. Observe(a, m) = SyntheticObserve(ProfileOf(a))
    BY <2>1 DEF Observe
  <2> QED BY <2>1, <2>2, SyntheticParts
<1>6. ObservedBy(CudaAdapters(o, m), m) = CudaReported(o, m)
  <2>1. CASE CudaAdapters(o, m) = {}
    BY <2>1 DEF CudaReported, ObservedBy
  <2>2. CASE CudaAdapters(o, m) = {"cuda-runtime"}
    <3>1. (\A i \in DOMAIN m.devices : m.devices[i].readable /\ RecordsValid(CudaRecords(m, i))) <=> Observable(m)
      <4>1. m.devices # <<>> /\ m.devices \in Seq(CudaDevices)
        BY <2>2, <1>1 DEF CudaMachines
      <4>2. 1 \in DOMAIN m.devices
        BY <4>1
      <4>3. \A i \in DOMAIN m.devices : RecordsValid(CudaRecords(m, i)) <=> m.devices[1].memoryKnown
        BY CudaParts
      <4> QED BY <4>2, <4>3 DEF Observable
    <3>2. CudaObserve(m).devices = IF Observable(m) THEN {CudaDescriptor(m, i) : i \in DOMAIN m.devices} ELSE {}
      <4>1. CASE Observable(m)
        <5>1. CudaObserve(m) = Observation({CudaDescriptor(m, i) : i \in DOMAIN m.devices})
          BY <3>1, <4>1, Zenon DEF CudaObserve
        <5> QED BY <4>1, <5>1 DEF Observation
      <4>2. CASE ~Observable(m)
        <5>1. CudaObserve(m) = Error
          BY <3>1, <4>2, Zenon DEF CudaObserve
        <5> QED BY <4>2, <5>1 DEF Error
      <4> QED BY <4>1, <4>2
    <3>3. ObservedBy(CudaAdapters(o, m), m) = CudaObserve(m).devices
      BY <2>2 DEF Observe, ObservedBy
    <3> QED BY <2>2, <3>2, <3>3 DEF CudaReported
  <2> QED BY <2>1, <2>2, <1>1
<1>7. AgentDevices(o, m) = ObservedBy(CudaAdapters(o, m), m) \cup ObservedBy(Models(o, m), m)
  <2>1. AgentDevices(o, m) = ObservedBy(B, m)
    BY DEF AgentDevices, ObservedBy
  <2>2. \A S, e : e \in ObservedBy(S, m) <=> \E a \in S : e \in Observe(a, m).devices
    BY DEF ObservedBy
  <2> HIDE DEF B
  <2>3. ObservedBy(B, m) = ObservedBy(CudaAdapters(o, m), m) \cup ObservedBy(Models(o, m), m)
    BY <2>2, <1>4
  <2> QED BY <2>1, <2>3
<1>8. ObservedBy(Models(o, m), m) = {SyntheticDescriptor(ProfileOf(a)) : a \in Models(o, m)}
  BY <1>5 DEF ObservedBy
<1>9. AgentDevices(o, m) = CudaReported(o, m) \cup {SyntheticDescriptor(ProfileOf(a)) : a \in Models(o, m)}
  BY <1>6, <1>7, <1>8
<1> QED BY <1>1, <1>2, <1>3, <1>9

(* The devices of a machine, each under its own name.                      *)
LEMMA CudaNames ==
  ASSUME NEW m \in CudaMachines
  PROVE  /\ \A i, j \in DOMAIN m.devices : CudaDescriptor(m, i).device = CudaDescriptor(m, j).device => i = j
         /\ \A i \in DOMAIN m.devices : CudaDescriptor(m, i).device[1] # "model"
         /\ ExistsBijection(DOMAIN m.devices, {CudaDescriptor(m, i) : i \in DOMAIN m.devices})
<1> DEFINE n == Len(m.devices)
           D == {CudaDescriptor(m, i) : i \in DOMAIN m.devices}
           name(i) == IF m.devices[i].uuid # 0 THEN <<"uuid", m.devices[i].uuid>> ELSE <<"pci", i>>
<1>1. n \in Nat /\ DOMAIN m.devices = 1..n
  BY DEF CudaMachines
<1>2. \A i, j \in 1..n : m.devices[i].uuid = m.devices[j].uuid /\ m.devices[i].uuid # 0 => i = j
  BY <1>1 DEF CudaMachines
<1>3. \A i : CudaDescriptor(m, i).device = name(i)
  BY DEF CudaDescriptor
<1>4. \A i, j \in 1..n : name(i) = name(j) => i = j
  BY <1>2
<1>5. \A i \in 1..n : name(i)[1] # "model"
  OBVIOUS
<1>6. ExistsBijection(1..n, D)
  <2> DEFINE f == [i \in 1..n |-> CudaDescriptor(m, i)]
  <2>1. f \in [1..n -> D]
    BY <1>1
  <2>2. \A e \in D : \E i \in 1..n : f[i] = e
    BY <1>1
  <2>3. \A i, j \in 1..n : f[i] = f[j] => i = j
    <3> TAKE i \in 1..n, j \in 1..n
    <3> HAVE f[i] = f[j]
    <3>1. CudaDescriptor(m, i) = CudaDescriptor(m, j)
      OBVIOUS
    <3>2. name(i) = name(j)
      BY <3>1, <1>3, Zenon
    <3> HIDE DEF name
    <3> QED BY <3>2, <1>4
  <2> HIDE DEF f, D
  <2>4. f \in Bijection(1..n, D)
    BY <2>1, <2>2, <2>3 DEF Bijection, Injection, Surjection, IsInjective
  <2> QED BY <2>4 DEF ExistsBijection
<1> HIDE DEF name, n, D
<1>7. \A i, j \in DOMAIN m.devices : CudaDescriptor(m, i).device = CudaDescriptor(m, j).device => i = j
  BY <1>1, <1>3, <1>4, Zenon
<1>8. \A i \in DOMAIN m.devices : CudaDescriptor(m, i).device[1] # "model"
  BY <1>1, <1>3, <1>5, Zenon
<1> QED BY <1>1, <1>6, <1>7, <1>8 DEF D

(* An agent started with any option on any machine.                        *)
AgentStarts == [kind: {"agent"}, option: ProfileOptions, machine: CudaMachines]

(* The parts of a descriptor of a CUDA device that the property reads.     *)
LEMMA CudaDescribed ==
  ASSUME NEW m \in CudaMachines, NEW i \in DOMAIN m.devices
  PROVE  LET e == CudaDescriptor(m, i)
         IN /\ e.provenance = "Real" /\ e.caps.records = CudaRecords(m, i) /\ e.caps.closed = CoreNamespaces
            /\ Stated(e, VendorId) = Token("nvidia") /\ Stated(e, ProvenanceKey) = Token("real")
            /\ Stated(e, MemoryTotal) = IntegerValue(m.devices[i].total)
            /\ m.devices[1].memoryKnown =>
                 RecordsValid(e.caps.records) /\ Stated(e, MemoryFree) = IntegerValue(m.devices[1].free)
<1> DEFINE e == CudaDescriptor(m, i)
           f == CudaRecords(m, i)
           d == m.devices[i]
<1>1. e.provenance = "Real" /\ e.caps = [records |-> f, closed |-> CoreNamespaces]
  BY DEF CudaDescriptor
<1>2. Describes(f, "nvidia", ArchitectureFor(d.major, d.minor), d.total, TargetsFor(d.major, d.minor), CudaFlags(d), "real")
  BY CudaParts
<1>3. f[MemoryFree] = FreeMemoryRecord(m) /\ (RecordsValid(f) <=> m.devices[1].memoryKnown)
  BY CudaParts, Zenon
<1> HIDE DEF e, f, d
<1>4. e.caps.records = f /\ e.caps.closed = CoreNamespaces
  BY <1>1
<1>5. /\ f[VendorId] = Supports(Token("nvidia")) /\ f[ProvenanceKey] = Supports(Token("real"))
      /\ f[MemoryTotal] = Supports(IntegerValue(d.total))
  BY <1>2, Zenon DEF Describes
<1>6. m.devices[1].memoryKnown => f[MemoryFree] = Supports(IntegerValue(m.devices[1].free))
  BY <1>3 DEF FreeMemoryRecord
<1>7. \A v : Supports(v).value = v
  BY RecordParts
<1>8. /\ Stated(e, VendorId) = Token("nvidia") /\ Stated(e, ProvenanceKey) = Token("real")
      /\ Stated(e, MemoryTotal) = IntegerValue(d.total)
  BY <1>4, <1>5, <1>7, Zenon DEF Stated
<1>9. m.devices[1].memoryKnown =>
        RecordsValid(e.caps.records) /\ Stated(e, MemoryFree) = IntegerValue(m.devices[1].free)
  BY <1>3, <1>4, <1>6, <1>7, Zenon DEF Stated
<1> QED BY <1>1, <1>4, <1>8, <1>9, Zenon DEF e, f, d

(* The same of the descriptor of a modelled device.                        *)
LEMMA ModelDescribed ==
  ASSUME NEW a \in SyntheticAdapters
  PROVE  LET e == SyntheticDescriptor(ProfileOf(a))
         IN /\ e.provenance = "Synthetic" /\ e.device = <<"model", VendorOf(a)>>
            /\ Stated(e, VendorId) = Token(VendorOf(a)) /\ Stated(e, ProvenanceKey) = Token("synthetic")
            /\ RecordsValid(e.caps.records)
<1> DEFINE p == ProfileOf(a)
           e == SyntheticDescriptor(p)
<1>1. e.provenance = "Synthetic" /\ e.device = <<"model", p.vendor>> /\ RecordsValid(e.caps.records)
  BY SyntheticParts
<1>2. Describes(e.caps.records, p.vendor, p.architecture, p.total, p.targets, p.able, "synthetic")
  BY SyntheticParts
<1>3. p.vendor = VendorOf(a)
  BY ProfileParts
<1>4. e.caps.records[VendorId] = Supports(Token(p.vendor)) /\ e.caps.records[ProvenanceKey] = Supports(Token("synthetic"))
  BY <1>2, Zenon DEF Describes
<1>5. \A v : Supports(v).value = v
  BY RecordParts
<1> HIDE DEF e, p
<1> QED BY <1>1, <1>3, <1>4, <1>5, Zenon DEF Stated, e, p

(* AgentsDescribeTheirHardware for the start of any agent.                 *)
LEMMA AgentIsSound ==
  ASSUME input \in AgentStarts, answer = AgentDevices(input.option, input.machine)
  PROVE  AgentsDescribeTheirHardware
<1> DEFINE o == input.option
           m == input.machine
           devices == m.devices
           real == {d \in answer : d.provenance = "Real"}
           R == CudaReported(o, m)
           S == {SyntheticDescriptor(ProfileOf(a)) : a \in Models(o, m)}
<1>1. o \in ProfileOptions /\ m \in CudaMachines
  BY DEF AgentStarts
<1> HIDE DEF o, m
<1>2. /\ answer = R \cup S
      /\ "cuda-class" \in Models(o, m) => CudaAdapters(o, m) = {}
      /\ o # "real" => Models(o, m) # {}
      /\ CudaAdapters(o, m) # {} => m.compiled /\ o \in {"real", "all"} /\ m.devices # <<>>
  BY <1>1, AgentReports DEF o, m
<1>3. ASSUME NEW e \in R
      PROVE  /\ CudaAdapters(o, m) # {} /\ Observable(m) /\ R = {CudaDescriptor(m, i) : i \in DOMAIN devices}
             /\ \E i \in DOMAIN devices : e = CudaDescriptor(m, i)
  BY DEF CudaReported
<1>4. ASSUME NEW e \in S
      PROVE  \E a \in Models(o, m) : a \in SyntheticAdapters /\ e = SyntheticDescriptor(ProfileOf(a))
  BY DEF Models
<1>5. ASSUME NEW e \in S
      PROVE  /\ e.provenance = "Synthetic" /\ Stated(e, ProvenanceKey) = Token("synthetic")
             /\ RecordsValid(e.caps.records) /\ e.device[1] = "model"
  <2>1. PICK a \in Models(o, m) : a \in SyntheticAdapters /\ e = SyntheticDescriptor(ProfileOf(a))
    BY <1>4
  <2>2. /\ e.provenance = "Synthetic" /\ Stated(e, ProvenanceKey) = Token("synthetic")
        /\ RecordsValid(e.caps.records) /\ e.device = <<"model", VendorOf(a)>>
    BY <2>1, ModelDescribed
  <2> QED BY <2>2
<1>6. ASSUME NEW e \in R
      PROVE  /\ e.provenance = "Real" /\ Stated(e, ProvenanceKey) = Token("real") /\ Stated(e, VendorId) = Token("nvidia")
             /\ RecordsValid(e.caps.records) /\ e.device[1] # "model"
  <2>1. PICK i \in DOMAIN devices : e = CudaDescriptor(m, i)
    BY <1>3
  <2>2. m.devices[1].memoryKnown
    BY <1>3 DEF Observable
  <2>3. /\ e.provenance = "Real" /\ Stated(e, ProvenanceKey) = Token("real") /\ Stated(e, VendorId) = Token("nvidia")
        /\ RecordsValid(e.caps.records)
    BY <2>1, <2>2, <1>1, CudaDescribed
  <2>4. e.device[1] # "model"
    BY <2>1, <1>1, CudaNames, Zenon
  <2> QED BY <2>3, <2>4
<1> HIDE DEF R, S
<1>7. real = R /\ answer \ real = S
  <2>1. "Real" # "Synthetic"
    BY Zenon
  <2> QED BY <2>1, <1>2, <1>5, <1>6
<1> HIDE DEF real
<1>8. real # {} => m.compiled /\ o \in {"real", "all"} /\ ExistsBijection(DOMAIN devices, real) /\ \A i \in DOMAIN devices : devices[i].readable
  <2> SUFFICES ASSUME NEW e \in R
               PROVE  m.compiled /\ o \in {"real", "all"} /\ ExistsBijection(DOMAIN devices, R) /\ \A i \in DOMAIN devices : devices[i].readable
    BY <1>7
  <2>1. CudaAdapters(o, m) # {} /\ Observable(m) /\ R = {CudaDescriptor(m, i) : i \in DOMAIN devices}
    BY <1>3
  <2>2. ExistsBijection(DOMAIN devices, R)
    BY <2>1, <1>1, CudaNames, Zenon
  <2> QED BY <2>1, <2>2, <1>2 DEF Observable
<1>9. \A d, e \in answer : d.device = e.device => d = e
  <2>1. ASSUME NEW d \in R, NEW e \in R, d.device = e.device
        PROVE  d = e
    <3>1. PICK i \in DOMAIN devices : d = CudaDescriptor(m, i)
      BY <1>3
    <3>2. PICK j \in DOMAIN devices : e = CudaDescriptor(m, j)
      BY <1>3
    <3>3. i = j
      BY <3>1, <3>2, <2>1, <1>1, CudaNames, Zenon
    <3> QED BY <3>1, <3>2, <3>3
  <2>2. ASSUME NEW d \in S, NEW e \in S, d.device = e.device
        PROVE  d = e
    <3>1. PICK a \in Models(o, m) : a \in SyntheticAdapters /\ d = SyntheticDescriptor(ProfileOf(a))
      BY <1>4
    <3>2. PICK b \in Models(o, m) : b \in SyntheticAdapters /\ e = SyntheticDescriptor(ProfileOf(b))
      BY <1>4, Zenon
    <3>3. d.device = <<"model", VendorOf(a)>> /\ e.device = <<"model", VendorOf(b)>>
      BY <3>1, <3>2, ModelDescribed
    <3>4. VendorOf(a) = VendorOf(b)
      BY <3>3, <2>2
    <3>5. a = b
      BY <3>1, <3>2, <3>4 DEF VendorOf, SyntheticAdapters
    <3> QED BY <3>1, <3>2, <3>5
  <2>3. \A d \in R, e \in S : d.device # e.device
    BY <1>5, <1>6
  <2> QED BY <2>1, <2>2, <2>3, <1>2
<1>10. \A d \in real, e \in answer \ real : Stated(d, VendorId) # Stated(e, VendorId)
  <2> SUFFICES ASSUME NEW d \in R, NEW e \in S
               PROVE  Stated(d, VendorId) # Stated(e, VendorId)
    BY <1>7
  <2>1. Stated(d, VendorId) = Token("nvidia")
    BY <1>6
  <2>2. PICK a \in Models(o, m) : a \in SyntheticAdapters /\ e = SyntheticDescriptor(ProfileOf(a))
    BY <1>4
  <2>3. a # "cuda-class"
    BY <2>2, <1>2, <1>3
  <2>4. VendorOf(a) # "nvidia"
    BY <2>2, <2>3, Zenon DEF VendorOf, SyntheticAdapters
  <2>5. Stated(e, VendorId) = Token(VendorOf(a))
    BY <2>2, ModelDescribed
  <2>6. Token("nvidia").tokens = {"nvidia"} /\ Token(VendorOf(a)).tokens = {VendorOf(a)}
    BY ValueParts
  <2> QED BY <2>1, <2>4, <2>5, <2>6
<1>11. \A d \in answer : /\ RecordsValid(d.caps.records)
                         /\ Stated(d, ProvenanceKey) = Token(IF d \in real THEN "real" ELSE "synthetic")
  <2>1. \A d \in R : d \in real
    BY <1>7
  <2>2. \A d \in S : d \notin real
    BY <1>7
  <2> QED BY <2>1, <2>2, <1>2, <1>5, <1>6
<1>12. o # "real" => answer # {}
  <2> SUFFICES ASSUME o # "real" PROVE answer # {}
    OBVIOUS
  <2>1. PICK a : a \in Models(o, m)
    BY <1>2
  <2>2. SyntheticDescriptor(ProfileOf(a)) \in S
    BY <2>1, Zenon DEF S
  <2> QED BY <2>2, <1>2
<1>13. Len(devices) = 1 => \A d \in real : Stated(d, MemoryFree).number <= Stated(d, MemoryTotal).number
  <2> SUFFICES ASSUME Len(devices) = 1, NEW d \in R
               PROVE  Stated(d, MemoryFree).number <= Stated(d, MemoryTotal).number
    BY <1>7
  <2>1. devices \in Seq(CudaDevices) /\ DOMAIN devices = 1..1 /\ devices[1] \in CudaDevices
    <3>1. devices \in Seq(CudaDevices)
      BY <1>1 DEF CudaMachines
    <3> HIDE DEF devices
    <3>2. DOMAIN devices = 1..1
      BY <3>1
    <3>3. 1 \in 1..Len(devices)
      OBVIOUS
    <3>4. devices[1] \in CudaDevices
      BY <3>1, <3>3, ElementOf, Zenon
    <3> QED BY <3>1, <3>2, <3>4, Zenon
  <2>2. devices[1].free <= devices[1].total
    BY <2>1 DEF CudaDevices
  <2>3. PICK i \in DOMAIN devices : d = CudaDescriptor(m, i)
    BY <1>3
  <2>4. i = 1 /\ devices[1].memoryKnown
    BY <2>1, <1>3 DEF Observable
  <2>5. Stated(d, MemoryTotal) = IntegerValue(devices[1].total)
    BY <2>3, <2>4, <1>1, CudaDescribed, Zenon
  <2>6. Stated(d, MemoryFree) = IntegerValue(devices[1].free)
    BY <2>3, <2>4, <1>1, CudaDescribed, Zenon
  <2>7. \A n : IntegerValue(n).number = n
    BY ValueParts
  <2> QED BY <2>2, <2>5, <2>6, <2>7
<1> QED BY <1>8, <1>9, <1>10, <1>11, <1>12, <1>13, Zenon DEF AgentsDescribeTheirHardware, o, m, real

-----------------------------------------------------------------------------
(* Agents on any machine.                                                  *)

AdaptersInit == input \in AgentStarts /\ answer = None
AdaptersNext == answer = None /\ AdapterAnswer /\ UNCHANGED input
AdaptersSpec == AdaptersInit /\ [][AdaptersNext]_<<input, answer>>

(* The input is of its type, and the answer, once there, is the program's. *)
AdaptersInv ==
  /\ input \in AgentStarts
  /\ answer # None => answer = AgentDevices(input.option, input.machine)

(* AdaptersInv is an invariant.                                            *)
THEOREM AdaptersAnswer == AdaptersSpec => []AdaptersInv
<1>1. AdaptersInit => AdaptersInv
  BY Zenon DEF AdaptersInit, AdaptersInv
<1>2. AdaptersInv /\ [AdaptersNext]_<<input, answer>> => AdaptersInv'
  <2> SUFFICES ASSUME AdaptersInv, [AdaptersNext]_<<input, answer>>
               PROVE  AdaptersInv'
    OBVIOUS
  <2>1. CASE UNCHANGED <<input, answer>>
    BY <2>1, Zenon DEF AdaptersInv
  <2>2. CASE AdaptersNext
    <3>1. input' = input
      BY <2>2, Zenon DEF AdaptersNext
    <3>2. answer' = AgentDevices(input.option, input.machine)
      BY <2>2 DEF AdaptersNext, AdapterAnswer, AdaptersInv, AgentStarts
    <3> QED BY <3>1, <3>2, Zenon DEF AdaptersInv
  <2> QED BY <2>1, <2>2
<1> QED BY <1>1, <1>2, PTL DEF AdaptersSpec

(* Whatever machine an agent starts on and whatever it is asked to model,  *)
(* it describes its hardware completely or not at all:                     *)
(* AgentsDescribeTheirHardware.                                            *)
THEOREM AgentsDescribe == AdaptersSpec => []AgentsDescribeTheirHardware
<1>1. AdaptersInv => AgentsDescribeTheirHardware
  <2> SUFFICES ASSUME AdaptersInv, Answered("agent")
               PROVE  AgentsDescribeTheirHardware
    BY Zenon DEF AgentsDescribeTheirHardware
  <2>1. input \in AgentStarts
    BY DEF AdaptersInv
  <2>2. answer = AgentDevices(input.option, input.machine)
    BY Zenon DEF AdaptersInv, Answered
  <2> QED BY <2>1, <2>2, AgentIsSound
<1> QED BY <1>1, AdaptersAnswer, PTL

-----------------------------------------------------------------------------
(* What agents advertise.                                                  *)

-----------------------------------------------------------------------------
(* Moves between the devices agents describe.                              *)

(* A code object target is one of devices of one vendor and architecture.  *)
Built(t, vendor, architecture) ==
  \/ /\ vendor = "nvidia" /\ t[1] \in {"sm", "compute"}
     /\ \E major \in Nat, minor \in 0..9 : t[2] = 10 * major + minor /\ architecture = ArchitectureFor(major, minor)
  \/ vendor = "amd" /\ architecture = "cdna3" /\ t[1] \in {"gfx", "amdgcn"}
  \/ vendor = "intel" /\ architecture = "xe-hpg" /\ t[1] \in {"xe-hpg", "spirv"}
  \/ vendor = "synthetic" /\ architecture = "opaque" /\ t[1] = "opaque"

(* What a capability set says that portability is about.                   *)
Portrays(c, vendor, architecture, targets) ==
  /\ c # NoOrigin
  /\ \A k \in CoreKeys : KnownIn(c, k)
  /\ Lookup(c, VendorId) = Supports(Token(vendor)) /\ Lookup(c, Architecture) = Supports(Token(architecture))
  /\ Lookup(c, CodeObjects) = ListRecord(targets) /\ \A t \in targets : Built(t, vendor, architecture)
  /\ ~SupportedIn(c, LiveTransfer) /\ ~SupportedIn(c, CheckpointRestore) /\ SupportedIn(c, Recompile)

(* A target tells the vendor and the architecture it is built for.         *)
LEMMA BuiltOnce ==
  ASSUME NEW t, NEW v, NEW a, Built(t, v, a), NEW w, NEW b, Built(t, w, b)
  PROVE  v = w /\ a = b
<1>1. ASSUME NEW m \in Nat, NEW n \in 0..9, NEW p \in Nat, NEW q \in 0..9, 10 * m + n = 10 * p + q
      PROVE  m = p /\ n = q
  BY <1>1
<1>2. v = w
  BY DEF Built
<1>3. CASE v = "nvidia"
  <2>1. PICK m \in Nat, n \in 0..9 : t[2] = 10 * m + n /\ a = ArchitectureFor(m, n)
    BY <1>3 DEF Built
  <2>2. PICK p \in Nat, q \in 0..9 : t[2] = 10 * p + q /\ b = ArchitectureFor(p, q)
    BY <1>2, <1>3 DEF Built
  <2>3. m = p /\ n = q
    BY <1>1, <2>1, <2>2
  <2> QED BY <1>2, <2>1, <2>2, <2>3
<1>4. CASE v # "nvidia"
  BY <1>2, <1>4 DEF Built
<1> QED BY <1>3, <1>4

(* The targets of the profiles and of a CUDA device.                       *)
LEMMA TargetsBuilt ==
  /\ \A s \in SyntheticAdapters : LET p == ProfileOf(s) IN \A t \in p.targets : Built(t, p.vendor, p.architecture)
  /\ \A major \in Nat, minor \in 0..9 :
       \A t \in TargetsFor(major, minor) : Built(t, "nvidia", ArchitectureFor(major, minor))
<1>1. ASSUME NEW major \in Nat, NEW minor \in 0..9, NEW t \in TargetsFor(major, minor)
      PROVE  Built(t, "nvidia", ArchitectureFor(major, minor))
  <2>1. t[1] \in {"sm", "compute"} /\ t[2] = 10 * major + minor
    BY DEF TargetsFor
  <2> QED BY <2>1 DEF Built
<1>2. ASSUME NEW t \in {<<"compute", 120>>, <<"sm", 100>>, <<"sm", 120>>}
      PROVE  Built(t, "nvidia", "blackwell")
  <2>1. ArchitectureFor(10, 0) = "blackwell" /\ ArchitectureFor(12, 0) = "blackwell"
    <3>1. ASSUME NEW m \in Nat, m >= 10 PROVE ArchitectureFor(m, 0) = "blackwell"
      BY <3>1 DEF ArchitectureFor
    <3> QED BY <3>1
  <2>2. t[1] \in {"sm", "compute"} /\ (t[2] = 100 \/ t[2] = 120)
    OBVIOUS
  <2>3. 100 = 10 * 10 + 0 /\ 120 = 10 * 12 + 0 /\ 10 \in Nat /\ 12 \in Nat /\ 0 \in 0..9
    OBVIOUS
  <2>4. \E major \in Nat, minor \in 0..9 : t[2] = 10 * major + minor /\ "blackwell" = ArchitectureFor(major, minor)
    <3>1. CASE t[2] = 100
      <4> WITNESS 10 \in Nat, 0 \in 0..9
      <4> QED BY <3>1, <2>1
    <3>2. CASE t[2] = 120
      <4> WITNESS 12 \in Nat, 0 \in 0..9
      <4> QED BY <3>2, <2>1
    <3> QED BY <2>2, <3>1, <3>2
  <2> QED BY <2>2, <2>4 DEF Built
<1>3. \A t \in CudaClassProfile.targets : Built(t, CudaClassProfile.vendor, CudaClassProfile.architecture)
  <2>1. CudaClassProfile.targets = {<<"compute", 120>>, <<"sm", 100>>, <<"sm", 120>>}
    BY DEF CudaClassProfile
  <2>2. CudaClassProfile.vendor = "nvidia" /\ CudaClassProfile.architecture = "blackwell"
    BY DEF CudaClassProfile
  <2> QED BY <1>2, <2>1, <2>2
<1>4. \A t \in RocmClassProfile.targets : Built(t, RocmClassProfile.vendor, RocmClassProfile.architecture)
  <2>1. RocmClassProfile.targets = {<<"gfx", 940>>, <<"gfx", 942>>, <<"amdgcn", 942>>}
    BY DEF RocmClassProfile
  <2>2. RocmClassProfile.vendor = "amd" /\ RocmClassProfile.architecture = "cdna3"
    BY DEF RocmClassProfile
  <2> QED BY <2>1, <2>2 DEF Built
<1>5. \A t \in IntelClassProfile.targets : Built(t, IntelClassProfile.vendor, IntelClassProfile.architecture)
  <2>1. IntelClassProfile.targets = {<<"xe-hpg", 512>>, <<"spirv", 16>>}
    BY Zenon DEF IntelClassProfile
  <2>2. IntelClassProfile.vendor = "intel" /\ IntelClassProfile.architecture = "xe-hpg"
    BY DEF IntelClassProfile
  <2> QED BY <2>1, <2>2 DEF Built
<1>6. \A t \in PartiallyEvidencedProfile.targets :
        Built(t, PartiallyEvidencedProfile.vendor, PartiallyEvidencedProfile.architecture)
  <2>1. PartiallyEvidencedProfile.targets = {<<"opaque", 1>>}
    BY DEF PartiallyEvidencedProfile
  <2>2. PartiallyEvidencedProfile.vendor = "synthetic" /\ PartiallyEvidencedProfile.architecture = "opaque"
    BY DEF PartiallyEvidencedProfile
  <2> QED BY <2>1, <2>2 DEF Built
<1>7. \A s \in SyntheticAdapters :
        ProfileOf(s) \in {CudaClassProfile, RocmClassProfile, IntelClassProfile, PartiallyEvidencedProfile}
  <2>1. /\ ProfileOf("cuda-class") = CudaClassProfile /\ ProfileOf("rocm-class") = RocmClassProfile
        /\ ProfileOf("intel-class") = IntelClassProfile /\ ProfileOf("partial") = PartiallyEvidencedProfile
    <3> HIDE DEF CudaClassProfile, RocmClassProfile, IntelClassProfile, PartiallyEvidencedProfile
    <3> QED BY DEF ProfileOf
  <2> QED BY <2>1, Zenon DEF SyntheticAdapters
<1> QED BY <1>1, <1>3, <1>4, <1>5, <1>6, <1>7, Zenon

(* Records that describe a device portray it.                              *)
LEMMA DescribedPortrayed ==
  ASSUME NEW c, CoreNamespaces \subseteq c.closed, NEW vendor, NEW architecture, NEW total, NEW targets, NEW able,
         NEW provenance,
         Describes(c.records, vendor, architecture, total, targets, able, provenance),
         \A t \in targets : Built(t, vendor, architecture),
         LiveTransfer \notin able, CheckpointRestore \notin able, Recompile \in able
  PROVE  Portrays(c, vendor, architecture, targets)
<1> DEFINE f == c.records
<1>1. /\ IdentityKeys \cup FormatKeys \cup FlagKeys \cup OwnKeys \subseteq DOMAIN f
      /\ \A k \in DOMAIN f : f[k].state # "Unknown"
      /\ f[VendorId] = Supports(Token(vendor)) /\ f[Architecture] = Supports(Token(architecture))
      /\ f[CodeObjects] = ListRecord(targets)
      /\ \A k \in FlagKeys : f[k] = PresenceRecord(k \in able)
  BY Zenon DEF Describes
<1>2. {VendorId, Architecture, CodeObjects} \subseteq DOMAIN f
  BY <1>1, Zenon DEF IdentityKeys
<1>3. {LiveTransfer, CheckpointRestore, Recompile} \subseteq FlagKeys
  BY ZenonT(60) DEF FlagKeys, MigrationKeys
<1> HIDE DEF f
<1>4. \A k \in DOMAIN f : Lookup(c, k) = f[k]
  BY DEF Lookup, f
<1>5. c # NoOrigin
  <2>1. DOMAIN f # {}
    BY <1>2, Zenon
  <2>2. DOMAIN NoOrigin.records = {}
    BY DEF NoOrigin
  <2> QED BY <2>1, <2>2 DEF f
<1>6. \A k \in CoreKeys : KnownIn(c, k)
  <2> SUFFICES ASSUME NEW k \in CoreKeys PROVE KnownIn(c, k)
    OBVIOUS
  <2>1. CASE k \in DOMAIN f
    BY <2>1, <1>1, <1>4, Zenon DEF KnownIn
  <2>2. CASE k \notin DOMAIN f
    <3>1. k = ComputeCapability
      <4>1. k \in IdentityKeys \cup OwnKeys \cup FormatKeys \cup FlagKeys \cup {ComputeCapability}
        BY Zenon DEF CoreKeys, EnumerationKeys, VersionKeys, IntegerKeys, ListKeys, IdentityKeys, OwnKeys
      <4> QED BY <4>1, <2>2, <1>1, Zenon
    <3>2. k[1] = "compute"
      BY <3>1 DEF ComputeCapability
    <3>3. k[1] \in c.closed
      BY <3>2, Zenon DEF CoreNamespaces
    <3>4. Lookup(c, k) = [state |-> "Unsupported", value |-> NoValue]
      BY <3>3, <2>2 DEF Lookup, f
    <3> QED BY <3>4 DEF KnownIn
  <2> QED BY <2>1, <2>2
<1>7. ~SupportedIn(c, LiveTransfer) /\ ~SupportedIn(c, CheckpointRestore)
  <2>1. ASSUME NEW k \in {LiveTransfer, CheckpointRestore} PROVE ~SupportedIn(c, k)
    <3>1. k \in FlagKeys /\ k \notin able
      BY <1>3, Zenon
    <3>2. Lookup(c, k) = PresenceRecord(k \in able)
      BY <3>1, <1>1, <1>4, Zenon
    <3>3. Lookup(c, k).state = "Unsupported"
      BY <3>1, <3>2 DEF PresenceRecord
    <3> QED BY <3>3 DEF SupportedIn
  <2> QED BY <2>1
<1>8. SupportedIn(c, Recompile)
  <2>1. Lookup(c, Recompile) = PresenceRecord(Recompile \in able)
    BY <1>1, <1>3, <1>4, Zenon
  <2>2. Lookup(c, Recompile).state = "Supported" /\ Lookup(c, Recompile).value = Presence
    BY <2>1 DEF PresenceRecord
  <2>3. Presence # NoValue
    BY ValueParts
  <2> QED BY <2>2, <2>3 DEF SupportedIn
<1> QED BY <1>1, <1>2, <1>4, <1>5, <1>6, <1>7, <1>8, Zenon DEF Portrays

(* The devices agents advertise, whatever they are started on.             *)
Advertised == UNION {AgentDevices(p[1], p[2]) : p \in ProfileOptions \X CudaMachines}

(* Every device advertised is portrayed.                                   *)
LEMMA AdvertisedPortrayed ==
  ASSUME NEW d \in Advertised
  PROVE  /\ d.provenance \in {"Real", "Synthetic"}
         /\ \E vendor, architecture, targets : Portrays(d.caps, vendor, architecture, targets)
<1>1. PICK p \in ProfileOptions \X CudaMachines : d \in AgentDevices(p[1], p[2])
  BY DEF Advertised
<1> DEFINE o == p[1]
           m == p[2]
<1>2. o \in ProfileOptions /\ m \in CudaMachines
  OBVIOUS
<1> HIDE DEF o, m
<1>3. d \in CudaReported(o, m) \/ \E a \in Models(o, m) : d = SyntheticDescriptor(ProfileOf(a))
  <2>1. AgentDevices(o, m) = CudaReported(o, m) \cup {SyntheticDescriptor(ProfileOf(a)) : a \in Models(o, m)}
    BY <1>2, AgentReports
  <2>2. d \in AgentDevices(o, m)
    BY <1>1 DEF o, m
  <2> QED BY <2>1, <2>2
<1>4. CASE d \in CudaReported(o, m)
  <2>1. PICK i \in DOMAIN m.devices : d = CudaDescriptor(m, i)
    BY <1>4 DEF CudaReported
  <2> DEFINE e == m.devices[i]
  <2>2. d.provenance = "Real" /\ d.caps.records = CudaRecords(m, i) /\ d.caps.closed = CoreNamespaces
    BY <2>1, <1>2, CudaDescribed, ZenonT(60)
  <2>3. Describes(CudaRecords(m, i), "nvidia", ArchitectureFor(e.major, e.minor), e.total,
                  TargetsFor(e.major, e.minor), CudaFlags(e), "real")
    BY <1>2, CudaParts
  <2>4. e \in CudaDevices
    <3>1. m.devices \in Seq(CudaDevices)
      BY <1>2 DEF CudaMachines
    <3>2. i \in 1..Len(m.devices)
      BY <3>1
    <3> QED BY <3>1, <3>2, ElementOf, Zenon
  <2> HIDE DEF e
  <2>5. e.major \in Nat /\ e.minor \in 0..9 /\ e.flags \in SUBSET (MemoryKeys \cup ExecutionKeys)
    BY <2>4 DEF CudaDevices
  <2>6. \A t \in TargetsFor(e.major, e.minor) : Built(t, "nvidia", ArchitectureFor(e.major, e.minor))
    BY <2>5, TargetsBuilt
  <2>7. LiveTransfer \notin CudaFlags(e) /\ CheckpointRestore \notin CudaFlags(e) /\ Recompile \in CudaFlags(e)
    BY <2>5, CudaAbilities, ZenonT(60)
  <2>8. Portrays(d.caps, "nvidia", ArchitectureFor(e.major, e.minor), TargetsFor(e.major, e.minor))
    BY <2>2, <2>3, <2>6, <2>7, DescribedPortrayed DEF e
  <2> QED BY <2>2, <2>8
<1>5. CASE \E a \in Models(o, m) : d = SyntheticDescriptor(ProfileOf(a))
  <2>1. PICK a \in SyntheticAdapters : d = SyntheticDescriptor(ProfileOf(a))
    BY <1>5, ZenonT(60) DEF Models
  <2> DEFINE q == ProfileOf(a)
  <2>2. /\ Describes(d.caps.records, q.vendor, q.architecture, q.total, q.targets, q.able, "synthetic")
        /\ d.provenance = "Synthetic" /\ CoreNamespaces \subseteq d.caps.closed
    BY <2>1, SyntheticParts
  <2>3. LiveTransfer \notin q.able /\ CheckpointRestore \notin q.able /\ Recompile \in q.able
    BY ProfileParts
  <2>4. \A t \in q.targets : Built(t, q.vendor, q.architecture)
    BY TargetsBuilt, ZenonT(60)
  <2> HIDE DEF q
  <2>5. Portrays(d.caps, q.vendor, q.architecture, q.targets)
    BY <2>2, <2>3, <2>4, DescribedPortrayed
  <2> QED BY <2>2, <2>5
<1> QED BY <1>3, <1>4, <1>5

(* The class of a move between portrayed devices: a target they share is   *)
(* one of their common vendor and architecture.                            *)
LEMMA PortrayedClass ==
  ASSUME NEW src, NEW v, NEW a, NEW T, Portrays(src, v, a, T),
         NEW dst, NEW w, NEW b, NEW U, Portrays(dst, w, b, U), NEW cross
  PROVE  /\ StatedVendor(src) = {v} /\ StatedVendor(dst) = {w} /\ SupportedVendor(dst) = {w}
         /\ ClassifyPortability(src, dst, {v}, {w}, cross)
              = IF SharedCodeObject(src, dst) THEN "Native" ELSE "RecompileRequired"
<1>1. \A x : Supports(x).state = "Supported" /\ Supports(x).value = x
  BY RecordParts
<1>2. \A t : Token(t).tokens = {t} /\ Token(t) # NoValue
  BY ValueParts
<1>3. /\ Lookup(src, VendorId) = Supports(Token(v)) /\ Lookup(dst, VendorId) = Supports(Token(w))
      /\ Lookup(src, Architecture) = Supports(Token(a)) /\ Lookup(dst, Architecture) = Supports(Token(b))
  BY Zenon DEF Portrays
<1>4. StatedVendor(src) = {v} /\ StatedVendor(dst) = {w} /\ SupportedVendor(dst) = {w}
  <2>1. Lookup(src, VendorId).value.tokens = {v} /\ Lookup(dst, VendorId).value.tokens = {w}
    BY <1>1, <1>2, <1>3, Zenon
  <2>2. SupportedIn(dst, VendorId)
    BY <1>1, <1>2, <1>3 DEF SupportedIn
  <2> QED BY <2>1, <2>2, Zenon DEF StatedVendor, SupportedVendor
<1>5. EvidenceSuffices(src, dst)
  <2>1. {VendorId, Architecture, CodeObjects, RuntimeFamily} \subseteq CoreKeys
    BY ZenonT(60) DEF CoreKeys, EnumerationKeys, ListKeys
  <2> QED BY <2>1, Zenon DEF EvidenceSuffices, Portrays
<1>6. SharedCodeObject(src, dst) => T \cap U # {}
  <2>1. Lookup(src, CodeObjects) = ListRecord(T) /\ Lookup(dst, CodeObjects) = ListRecord(U)
    BY DEF Portrays
  <2>2. \A ts : ListRecord(ts).value.tokens = ts
    BY RecordParts, ValueParts, ZenonT(60)
  <2> QED BY <2>1, <2>2 DEF SharedCodeObject
<1>7. SharedCodeObject(src, dst) => v = w /\ SameArchitecture(src, dst)
  <2> SUFFICES ASSUME SharedCodeObject(src, dst) PROVE v = w /\ SameArchitecture(src, dst)
    OBVIOUS
  <2>1. PICK t : t \in T /\ t \in U
    BY <1>6
  <2>2. Built(t, v, a) /\ Built(t, w, b)
    BY <2>1 DEF Portrays
  <2>3. v = w /\ a = b
    BY <2>2, BuiltOnce
  <2> QED BY <2>3, <1>1, <1>2, <1>3 DEF SameArchitecture
<1>8. /\ ~BothSupport(src, dst, LiveTransfer) /\ ~BothSupport(src, dst, CheckpointRestore) /\ SupportedIn(dst, Recompile)
  BY DEF Portrays, BothSupport
<1>9. {v} # {} /\ (v = w => {v} = {w})
  OBVIOUS
<1>10. ClassifyPortability(src, dst, {v}, {w}, cross)
         = IF SharedCodeObject(src, dst) THEN "Native" ELSE "RecompileRequired"
  BY <1>5, <1>7, <1>8, <1>9 DEF ClassifyPortability
<1> QED BY <1>4, <1>10
=============================================================================
